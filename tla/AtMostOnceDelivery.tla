------------------------ MODULE AtMostOnceDelivery --------------------------
(***************************************************************************)
(* What the platform promises of live delivery, without channels, sends,   *)
(* dicts or processes: a stored notification is published once and then    *)
(* sent once, on one socket of its own user, or lost for good.             *)
(***************************************************************************)
CONSTANTS Users, Sockets, Notifications, None

VARIABLES stage,        \* [Notifications -> Stage]
          sentOn,       \* [Notifications -> the sockets it was sent live on]
          addressee,    \* [Notifications -> Users or None]: stored for whom
          holder        \* [Sockets -> Users]

vars == <<stage, sentOn, addressee, holder>>

Stage == {"unpublished", "pending", "sent", "lost"}

Init ==
    /\ stage = [n \in Notifications |-> "unpublished"]
    /\ sentOn = [n \in Notifications |-> {}]
    /\ addressee = [n \in Notifications |-> None]
    /\ holder \in [Sockets -> Users]

Store(n, u) ==
    /\ addressee[n] = None /\ stage[n] = "unpublished"
    /\ addressee' = [addressee EXCEPT ![n] = u]
    /\ UNCHANGED <<stage, sentOn, holder>>

\* PUBLISH reaches a subscription or nobody.
Publish(n) ==
    /\ addressee[n] # None /\ stage[n] = "unpublished"
    /\ \E next \in {"pending", "lost"} : stage' = [stage EXCEPT ![n] = next]
    /\ UNCHANGED <<sentOn, addressee, holder>>

Send(n, s) ==
    /\ stage[n] = "pending" /\ addressee[n] = holder[s]
    /\ stage' = [stage EXCEPT ![n] = "sent"]
    /\ sentOn' = [sentOn EXCEPT ![n] = {s}]
    /\ UNCHANGED <<addressee, holder>>

\* Nobody to send to, a failed send, or the end of a subscription with its queue.
Lose(S) ==
    /\ \A n \in S : stage[n] = "pending"
    /\ stage' = [n \in Notifications |-> IF n \in S THEN "lost" ELSE stage[n]]
    /\ UNCHANGED <<sentOn, addressee, holder>>

Next ==
    \/ \E n \in Notifications : \/ \E u \in Users : Store(n, u)
                                \/ Publish(n)
                                \/ \E s \in Sockets : Send(n, s)
    \/ \E S \in SUBSET Notifications : Lose(S)

Spec == Init /\ [][Next]_vars
=============================================================================
