------------------------------ MODULE Presence ------------------------------
(***************************************************************************)
(* app/presence/presence_manager.py over presence_store.py: the key        *)
(* presence:{user_id}.  No key means offline.  As in InstanceRegistry, a   *)
(* key may lapse whenever KeysExpire allows, so a heartbeat (EXPIRE)       *)
(* changes nothing here; last_seen is never read by the other parts.       *)
(***************************************************************************)
EXTENDS Domain

VARIABLE presence       \* [Users -> PresenceStatus]

PresenceStatus == {"online", "away", "offline"}

PresenceTypeOK == presence \in [Users -> PresenceStatus]

PresenceInit == presence = [u \in Users |-> "offline"]

mark_online_Forgotten(u) == UNCHANGED presence

mark_online(u) == presence' = [presence EXCEPT ![u] = "online"]

mark_away(u) == presence' = [presence EXCEPT ![u] = "away"]

mark_offline_Forgotten(u) == UNCHANGED presence

mark_offline_Null(u) == presence' = [presence EXCEPT ![u] = None]

\* DEL presence:{u}, whichever connection wrote it.
mark_offline(u) == presence' = [presence EXCEPT ![u] = "offline"]

ExpirePresence(u) ==
    /\ KeysExpire
    /\ presence[u] # "offline"
    /\ mark_offline(u)
=============================================================================
