------------------------------- MODULE Domain -------------------------------
(***************************************************************************)
(* The identifiers the components share.                                   *)
(***************************************************************************)
CONSTANTS Users,         \* the user_ids, as str(UUID) spells them
          Instances,     \* the gateway instance_ids (settings.instance_id)
          Notifications, \* the notification_ids callers pick
          None,          \* Python's None: no instance, no socket, no row
          KeysExpire,    \* may a Redis key with a TTL lapse?
          CallsMayFail   \* may a call to Redis or PostgreSQL raise?

ASSUME DomainAssumption ==
    /\ None \notin Users \cup Instances
    /\ KeysExpire \in BOOLEAN /\ CallsMayFail \in BOOLEAN
=============================================================================
