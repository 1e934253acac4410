------------------------------- MODULE Redis --------------------------------
(***************************************************************************)
(* The TTL of Redis keys: a function from keys to the ticks they have      *)
(* left, 0 for a key that does not exist.                                  *)
(***************************************************************************)
EXTENDS Naturals

\* SET key value EX t.
SetEx(ttl, k, t) == [ttl EXCEPT ![k] = t]

\* EXPIRE key t: does nothing to a key that does not exist.
Expire(ttl, k, t) == [ttl EXCEPT ![k] = IF @ = 0 THEN 0 ELSE t]

\* DEL key.
Del(ttl, k) == [ttl EXCEPT ![k] = 0]

\* One tick of the clock.
Decay(ttl) == [k \in DOMAIN ttl |-> IF ttl[k] = 0 THEN 0 ELSE ttl[k] - 1]
=============================================================================
