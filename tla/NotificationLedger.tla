------------------------- MODULE NotificationLedger -------------------------
(***************************************************************************)
(* What POST /notifications promises about each notification_id, without   *)
(* Redis, retries or failures: the row appears once, is published at most  *)
(* once and only before the caller that stored it is answered, is flagged  *)
(* delivered_live only after it was published, at most one caller is told  *)
(* persisted=True, and no caller gets an answer before the row exists.     *)
(***************************************************************************)
CONSTANT Notifications

VARIABLES status,   \* [Notifications -> Status], how far the notification got
          claimed,  \* the ids a caller was told persisted=True for
          refused   \* the ids a caller was told persisted=False for

vars == <<status, claimed, refused>>

Status == {"absent", "stored", "published", "flagged"}

Init ==
    /\ status = [n \in Notifications |-> "absent"]
    /\ claimed = {}
    /\ refused = {}

Move(n, from, to) ==
    /\ status[n] = from
    /\ status' = [status EXCEPT ![n] = to]
    /\ UNCHANGED <<claimed, refused>>

Store(n) == Move(n, "absent", "stored")

Publish(n) == n \notin claimed /\ Move(n, "stored", "published")

Flag(n) == n \notin claimed /\ Move(n, "published", "flagged")

\* The storing caller is answered: the notification is either left to the
\* backlog or it was published and flagged; nothing in between.
Claim(n) ==
    /\ status[n] \in {"stored", "flagged"}
    /\ n \notin claimed
    /\ claimed' = claimed \cup {n}
    /\ UNCHANGED <<status, refused>>

Refuse(n) ==
    /\ status[n] # "absent"
    /\ refused' = refused \cup {n}
    /\ UNCHANGED <<status, claimed>>

Next == \E n \in Notifications : Store(n) \/ Publish(n) \/ Flag(n) \/ Claim(n) \/ Refuse(n)

Spec == Init /\ [][Next]_vars
=============================================================================
