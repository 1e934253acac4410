-------------------------- MODULE InstanceRegistry --------------------------
(***************************************************************************)
(* app/pubsub/instance_registry.py: two families of Redis keys.            *)
(*   user:{user_id}        -> the instance said to hold the user's socket  *)
(*   instance:{id}:alive   -> present while the instance refreshes it      *)
(* Both carry a TTL.  Time is not modelled here: a key may lapse whenever  *)
(* KeysExpire allows it, which covers every TTL and every missed refresh,  *)
(* so `refresh' (EXPIRE, a pure extension of the TTL) changes nothing.     *)
(***************************************************************************)
EXTENDS Domain

VARIABLES registry,     \* [Users -> Instances or None]
          alive         \* the instances whose liveness key exists

registryVars == <<registry, alive>>

RegistryTypeOK ==
    /\ registry \in [Users -> Instances \cup {None}]
    /\ alive \in SUBSET Instances

RegistryInit ==
    /\ registry = [u \in Users |-> None]
    /\ alive = {}

-----------------------------------------------------------------------------
register(u, i) ==
    /\ registry' = [registry EXCEPT ![u] = i]
    /\ UNCHANGED alive

unregister_Forgotten(u) ==
    UNCHANGED registryVars

\* DEL user:{u}, whoever wrote the entry.
unregister(u) ==
    /\ registry' = [registry EXCEPT ![u] = None]
    /\ UNCHANGED alive

lookup_Undecoded(u) == <<registry[u]>>

lookup(u) == registry[u]

mark_alive(i) ==
    /\ alive' = alive \cup {i}
    /\ UNCHANGED registry

is_alive(i) == i \in alive

\* A key whose TTL was not extended in time is gone.
ExpireEntry(u) ==
    /\ KeysExpire
    /\ registry[u] # None
    /\ unregister(u)

ExpireLiveness(i) ==
    /\ KeysExpire
    /\ is_alive(i)
    /\ alive' = alive \ {i}
    /\ UNCHANGED registry

\* What the rest of the world may do to the registry, one call at a time.
RegistryNext ==
    \/ \E u \in Users : \/ \E i \in Instances : register(u, i)
                        \/ unregister(u)
    \/ \E i \in Instances : mark_alive(i) \/ ExpireLiveness(i)
=============================================================================
