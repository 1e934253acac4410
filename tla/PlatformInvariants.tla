------------------------- MODULE PlatformInvariants -------------------------
(***************************************************************************)
(* The inductive invariants behind the safety properties of Platform, and  *)
(* the abstract specification of live delivery it implements.              *)
(***************************************************************************)
EXTENDS Platform

\* Who is served where: a dict holds a socket under its own user, at its own
\* instance, and a send is for the user of its socket and of its row.
DictMatches ==
    \A i \in Instances, u \in Users :
        get(i, u) # None => who[get(i, u)] = u /\ inst[get(i, u)] = i

SendingMatches ==
    \A i \in Instances : sending[i] # None =>
        /\ who[sending[i].socket] = sending[i].user_id
        /\ user_id[sending[i].notification] = sending[i].user_id

MatchInv == DictMatches /\ SendingMatches /\ NoMisdelivery

-----------------------------------------------------------------------------
\* Where the copies of notifications are: in a channel, in a send, on a socket.
Queued(i) == {chan[i][k].notification : k \in DOMAIN chan[i]}

Taken(i) == {n \in Notifications : sending[i] # None /\ sending[i].notification = n}

Held(i) == Queued(i) \cup Taken(i)

\* No copy is in two places, and each has been published by a request.
CopyInv ==
    /\ \A i \in Instances : \A k, l \in DOMAIN chan[i] :
         chan[i][k].notification = chan[i][l].notification => k = l
    /\ \A i \in Instances : Queued(i) \cap Taken(i) = {}
    /\ \A i, j \in Instances : i # j => Held(i) \cap Held(j) = {}
    /\ \A s, t \in Sockets : s # t => live[s] \cap live[t] = {}
    /\ \A i \in Instances, s \in Sockets : Held(i) \cap live[s] = {}
    /\ \A i \in Instances : \A n \in Held(i) : \E r \in published : nid(r) = n
    /\ \A s \in Sockets : \A n \in live[s] : \E r \in published : nid(r) = n

-----------------------------------------------------------------------------
\* Where request r stands as long as socket s is routable: before its lookup, on
\* the way to publish to the instance of s, or its notification is sent or queued.
OnItsWay(r, s) ==
    \/ pc[r] \in {"mark_seen", "lookup", "failed"}
    \/ pc[r] \in {"is_alive", "publish"} /\ owner[r] = inst[s]
    \/ nid(r) \in live[s] \/ InTransit(nid(r), s)

\* Every unread row stored since the backlog query of s is on its way to s, and a
\* process that is about to subscribe cannot lose messages: it has no subscription.
DeliveryInv ==
    /\ \A i \in subscribed : phase[i] # "down"
    /\ \A s \in intact : Routed(s)
    /\ \A s \in intact, r \in Requests :
         /\ hpc[s] \in {"send_backlog", "receive"}
         /\ inserted[r] /\ user_id[nid(r)] = who[s]
         /\ nid(r) \notin read \cup backlog[s] \cup leftOut[s]
         => OnItsWay(r, s)

\* What holds of the platform whatever fails, lapses, crashes and overlaps.
PlatformInv == MatchInv /\ CopyInv /\ DeliveryInv

-----------------------------------------------------------------------------
\* A draining server has ended the handlers of an instance before its shutdown
\* begins, and opens no new ones: none is left for the end of the process to cut off.
Drained ==
    ServerDrains =>
        \A s \in Sockets : phase[inst[s]] \in {"closing", "stopping", "aborted"} => Finished(s)

\* Every handler runs its own clean-up to the end.
FaultFree == ~CallsMayFail /\ ~MayCrash /\ ServerDrains

\* Where a client waits for the clean-up of its last connection, no call fails, no
\* key lapses and the server drains before shutdown, a served user has its own keys.
Orderly == ~Overlap /\ ~CallsMayFail /\ ~KeysExpire /\ ServerDrains

SessionInv ==
    /\ \A s, t \in Sockets : who[s] = who[t] /\ ~Finished(s) /\ ~Finished(t) => s = t
    /\ \A i \in Instances : shutdown[i] = NoShutdown
    /\ \A s \in Sockets :
         /\ hpc[s] \in {"mark_online", "get_backlog", "send_backlog", "receive"} =>
              registry[who[s]] = inst[s]
         /\ hpc[s] \in {"get_backlog", "send_backlog", "receive"} => presence[who[s]] # "offline"

-----------------------------------------------------------------------------
\* How far the live delivery of n has come, and where it ended.
deliveryStage ==
    [n \in Notifications |->
        IF \E s \in Sockets : n \in live[s] THEN "sent"
        ELSE IF \E i \in Instances : n \in Held(i) THEN "pending"
        ELSE IF \E r \in published : nid(r) = n THEN "lost" ELSE "unpublished"]

deliverySockets == [n \in Notifications |-> {s \in Sockets : n \in live[s]}]

Delivery == INSTANCE AtMostOnceDelivery
    WITH stage <- deliveryStage, sentOn <- deliverySockets, addressee <- user_id, holder <- who

\* The platform implements at-most-once delivery: whatever fails, crashes, lapses,
\* is retried or reconnects, a notification is stored, published, then sent once on
\* one socket of its user or lost, and what is lost is never sent.
ImplementsDelivery == Delivery!Spec
=============================================================================
