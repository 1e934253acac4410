-------------------------- MODULE IdempotencyGuard --------------------------
(***************************************************************************)
(* app/core/idempotency.py: the notification_dedup:{id} keys in Redis.     *)
(***************************************************************************)
EXTENDS Domain

VARIABLE seen           \* the notification ids whose dedup key exists

GuardTypeOK == seen \in SUBSET Notifications

GuardInit == seen = {}

has_seen(n) == n \in seen

mark_seen(n) == seen' = seen \cup {n}

\* The key's TTL (idempotency_ttl_seconds) lapses.
ExpireSeen(n) ==
    /\ KeysExpire
    /\ has_seen(n)
    /\ seen' = seen \ {n}
=============================================================================
