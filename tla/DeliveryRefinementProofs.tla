---------------------- MODULE DeliveryRefinementProofs ----------------------
(***************************************************************************)
(* The platform implements AtMostOnceDelivery, for every value of the      *)
(* constants, and keeps the promises of NotificationLedger.                *)
(***************************************************************************)
EXTENDS DeliveryProofs

\* Only an INSERT stores a row, only a PUBLISH publishes.
LEMMA RowsAndPublications ==
    ASSUME TypeOK, [Next]_vars
    PROVE  \/ UNCHANGED <<user_id, published>>
           \/ \E r \in Requests : Create(r) /\ ApiFrame
           \/ \E r \in Requests : Publish(r) /\ ApiFrame
<1>1. ASSUME NEW r \in Requests, Request(r), ~Create(r), ~Publish(r)
      PROVE  UNCHANGED <<user_id, published>>
  BY <1>1 DEF Request, Handle, AllowRequest, HasSeen, MarkSeen, Lookup, IsAlive, MarkDeliveredLive,
     mark_delivered_live, Respond, CallFails, storeVars, repositoryVars
<1>2. ASSUME NEW s \in Sockets, Handler(s) PROVE UNCHANGED <<user_id, published>>
  BY <1>2 DEF Handler, Connect, Reject, Register, MarkOnline, GetBacklog, SendBacklog,
     PresenceUpdate, ReadReceipt, mark_read, Leave, Unregister, MarkOffline, HandlerFails,
     GatewayFrame, requestVars, repositoryVars
<1>3. ASSUME NEW i \in Instances, Lifespan(i) PROVE UNCHANGED <<user_id, published>>
  BY <1>3 DEF Lifespan, StartSubscriber, StartLiveness, RefreshLiveness, BeginShutdown,
     CloseConnection, UnregisterClosed, MarkOfflineClosed, StopSubscriber, ShutdownFails, Stopped,
     Crash, Exit, gatewayVars, requestVars, repositoryVars
<1>4. ASSUME NEW i \in Instances, Deliver(i) \/ SubscriberDies(i)
      PROVE  UNCHANGED <<user_id, published>>
  BY <1>4 DEF Deliver, TakeMessage, SendCompletes, SendFails, SubscriberDies, gatewayVars,
     requestVars, repositoryVars
<1>5. CASE KeyExpires \/ UNCHANGED vars
  BY <1>5 DEF KeyExpires, RegistryFrame, GatewayFrame, vars, gatewayVars, requestVars, repositoryVars
<1> QED
  BY <1>1, <1>2, <1>3, <1>4, <1>5 DEF Next, Request

\* Messages and sends that end without being sent are lost, and nothing else moves.
LEMMA CopiesOnlyLost ==
    ASSUME TypeOK, CopyInv, [Next]_vars, UNCHANGED <<user_id, published, live>>,
           \A i \in Instances : Held(i)' \subseteq Held(i)
    PROVE  [Delivery!Next]_(Delivery!vars)
<1> DEFINE S == {n \in Notifications : deliveryStage[n] = "pending" /\ deliveryStage'[n] # "pending"}
<1>0. who' = who /\ \A r \in published : nid(r)' = nid(r)
  BY SocketsFixed, RequestsKeep
<1>1. deliverySockets' = deliverySockets
  BY DEF deliverySockets
<1>2. ASSUME NEW n \in Notifications
      PROVE  deliveryStage'[n] = IF n \in S THEN "lost" ELSE deliveryStage[n]
  <2>1. CASE \E s \in Sockets : n \in live[s]
    BY <2>1 DEF deliveryStage
  <2>2. CASE \A s \in Sockets : n \notin live[s]
    <3>1. (\E r \in published' : nid(r)' = n) <=> (\E r \in published : nid(r) = n)
      BY <1>0
    <3>2. (\E i \in Instances : n \in Held(i)) => \E r \in published : nid(r) = n
      BY DEF CopyInv
    <3> QED BY <2>2, <3>1, <3>2 DEF deliveryStage
  <2> QED BY <2>1, <2>2
<1>3. deliveryStage' = [n \in Notifications |-> IF n \in S THEN "lost" ELSE deliveryStage[n]]
  <2>1. deliveryStage' = [n \in Notifications |-> deliveryStage'[n]]
    BY DEF deliveryStage
  <2> HIDE DEF S
  <2> QED BY <1>2, <2>1
<1>4. Delivery!Lose(S)
  BY <1>0, <1>1, <1>3 DEF Delivery!Lose
<1> QED
  BY <1>4 DEF Delivery!Next

\* Every step of the platform is a step of at-most-once delivery, or none.
LEMMA DeliveryRefinesStep ==
    ASSUME TypeOK, ApiInv, MatchInv, CopyInv, [Next]_vars
    PROVE  [Delivery!Next]_(Delivery!vars)
<1>0. /\ who' = who /\ PubSubTypeOK /\ RepositoryTypeOK
      /\ sending \in [Instances -> Sending \cup {None}]
      /\ live \in [Sockets -> SUBSET Notifications]
      /\ published \subseteq Requests
      /\ \A r \in Requests : nid(r)' = nid(r) /\ nid(r) \in Notifications /\ target(r) \in Users
  BY SocketsFixed, RequestsKeep DEF TypeOK, ApiTypeOK
<1>1. ASSUME NEW r \in Requests, Create(r), ApiFrame PROVE [Delivery!Next]_(Delivery!vars)
  <2>1. UNCHANGED <<chan, sending, live, published>> /\ create(nid(r), target(r))
    BY <1>1 DEF Create, ApiFrame, deliveryVars, pubsubVars
  <2>2. UNCHANGED <<deliveryStage, deliverySockets>>
    <3>1. \A n \in Notifications : (\E q \in published' : nid(q)' = n) <=> \E q \in published : nid(q) = n
      BY <1>0, <2>1
    <3>2. \A i \in Instances : Held(i)' = Held(i)
      BY <2>1 DEF Held, Queued, Taken
    <3> QED BY <2>1, <3>1, <3>2 DEF deliveryStage, deliverySockets
  <2>3. CASE Persisted(nid(r))
    BY <1>0, <2>1, <2>2, <2>3 DEF create, Delivery!vars
  <2>4. CASE ~Persisted(nid(r))
    <3>1. user_id' = [user_id EXCEPT ![nid(r)] = target(r)]
      BY <2>1, <2>4 DEF create
    <3>2. ASSUME NEW q \in published PROVE nid(q) # nid(r)
      BY <1>0, <2>4, <3>2, DomainAssumption DEF ApiInv, PublishMeaning, InsertedRows, Persisted
    <3>3. deliveryStage[nid(r)] = "unpublished"
      BY <1>0, <3>2 DEF CopyInv, deliveryStage
    <3>4. Delivery!Store(nid(r), target(r))
      BY <1>0, <2>2, <2>4, <3>1, <3>3 DEF Delivery!Store, Persisted
    <3> QED BY <1>0, <3>4 DEF Delivery!Next
  <2> QED BY <2>3, <2>4
<1>2. ASSUME NEW r \in Requests, Publish(r), ApiFrame PROVE [Delivery!Next]_(Delivery!vars)
  <2>0. PICK n \in Notifications : n = nid(r)
    BY <1>0
  <2>1. /\ UNCHANGED <<user_id, sending, live>> /\ published' = published \cup {r}
        /\ pc[r] = "publish"
    BY <1>2 DEF Publish, Step, ApiFrame, deliveryVars, repositoryVars
  <2>2. \A q \in published : nid(q) # n
    BY <2>0, <2>1, FirstToPublish
  <2>3. deliveryStage[n] = "unpublished" /\ user_id[n] # None
    <3>1. deliveryStage[n] = "unpublished"
      BY <2>2 DEF CopyInv, deliveryStage
    <3>2. inserted[r]
      BY <2>1 DEF ApiInv, PcMeaning, AtPc
    <3> QED BY <1>0, <2>0, <3>1, <3>2, DomainAssumption DEF ApiInv, InsertedRows
  <2>4. deliverySockets' = deliverySockets
    BY <2>1 DEF deliverySockets
  <2>5. ASSUME NEW i \in Instances, NEW h \in Notifications \ {n}
        PROVE  h \in Held(i)' <=> h \in Held(i)
    <3>1. Taken(i)' = Taken(i)
      BY <2>1 DEF Taken
    <3> DEFINE m == [user_id |-> target(r), notification |-> n]
    <3>2. chan'[i] = chan[i] \/ chan'[i] = Append(chan[i], m)
      BY <1>0, <1>2, <2>0 DEF Publish, publish_to_instance, PubSubTypeOK
    <3>3. chan[i] \in Seq(Message) /\ m \in Message
      BY <1>0, <2>0 DEF PubSubTypeOK, Message
    <3>4. CASE chan'[i] = Append(chan[i], m)
      <4>1. /\ Len(chan[i]) \in Nat /\ DOMAIN chan[i] = 1 .. Len(chan[i])
            /\ DOMAIN chan'[i] = 1 .. Len(chan[i]) + 1
            /\ \A k \in 1 .. Len(chan[i]) : chan'[i][k] = chan[i][k]
            /\ chan'[i][Len(chan[i]) + 1].notification = n
        BY <3>3, <3>4
      <4>2. h \in Queued(i)' => h \in Queued(i)
        BY <4>1 DEF Queued
      <4>3. h \in Queued(i) => h \in Queued(i)'
        BY <4>1 DEF Queued
      <4> QED BY <3>1, <4>2, <4>3 DEF Held
    <3>5. CASE chan'[i] = chan[i]
      BY <3>1, <3>5 DEF Held, Queued
    <3> QED BY <3>2, <3>4, <3>5
  <2>6. ASSUME NEW h \in Notifications \ {n} PROVE deliveryStage'[h] = deliveryStage[h]
    <3>1. (\E q \in published' : nid(q)' = h) <=> (\E q \in published : nid(q) = h)
      BY <1>0, <2>0, <2>1
    <3> QED BY <2>1, <2>5, <3>1 DEF deliveryStage
  <2>7. deliveryStage'[n] \in {"pending", "lost"}
    <3>1. \E q \in published' : nid(q)' = n
      BY <1>0, <2>0, <2>1
    <3>2. \A s \in Sockets : n \notin live'[s]
      BY <2>1, <2>2 DEF CopyInv
    <3> QED BY <3>1, <3>2 DEF deliveryStage
  <2>8. deliveryStage' = [deliveryStage EXCEPT ![n] = deliveryStage'[n]]
    <3>1. deliveryStage' = [h \in Notifications |-> deliveryStage'[h]]
          /\ deliveryStage = [h \in Notifications |-> deliveryStage[h]]
      BY DEF deliveryStage
    <3> QED BY <2>6, <3>1
  <2>9. Delivery!Publish(n)
    BY <1>0, <2>1, <2>3, <2>4, <2>7, <2>8 DEF Delivery!Publish
  <2> QED BY <2>9 DEF Delivery!Next
<1>3. CASE UNCHANGED <<user_id, published>>
  <2>1. CASE UNCHANGED <<chan, sending, live>>
    BY <1>3, <2>1, CopiesOnlyLost DEF Held, Queued, Taken
  <2>2. ASSUME NEW i \in Instances, Lost(i) \/ SendFails(i) PROVE [Delivery!Next]_(Delivery!vars)
    <3>1. /\ live' = live
          /\ \A j \in Instances : chan'[j] \in {chan[j], << >>} /\ sending'[j] \in {sending[j], None}
      BY <1>0, <2>2 DEF Lost, SendFails, PubSubTypeOK, pubsubVars
    <3>2. \A j \in Instances : Held(j)' \subseteq Held(j)
      BY <3>1 DEF Held, Queued, Taken
    <3> QED BY <1>3, <3>1, <3>2, CopiesOnlyLost
  <2>3. ASSUME NEW i \in Instances, TakeMessage(i) PROVE [Delivery!Next]_(Delivery!vars)
    <3>1. /\ live' = live /\ sending[i] = None
          /\ \A j \in Instances \ {i} : chan'[j] = chan[j] /\ sending'[j] = sending[j]
          /\ sending'[i] = None \/ sending'[i].notification = chan[i][1].notification
      BY <1>0, <2>3, FirstMessage DEF TakeMessage
    <3>2. /\ Len(chan[i]) \in Nat \ {0} /\ DOMAIN chan[i] = 1 .. Len(chan[i])
          /\ DOMAIN chan'[i] = 1 .. Len(chan[i]) - 1
          /\ \A k \in 1 .. Len(chan[i]) - 1 : chan'[i][k] = chan[i][k + 1]
      BY <1>0, <2>3, FirstMessage
    <3>3. Queued(i)' \subseteq Queued(i)
      <4>1. ASSUME NEW k \in DOMAIN chan'[i] PROVE chan'[i][k].notification \in Queued(i)
        <5>1. k + 1 \in DOMAIN chan[i] /\ chan'[i][k] = chan[i][k + 1]
          BY <3>2
        <5> QED BY <5>1 DEF Queued
      <4> QED BY <4>1 DEF Queued
    <3>4. Taken(i)' \subseteq Queued(i)
      <4>1. chan[i][1].notification \in Queued(i)
        BY <3>2 DEF Queued
      <4> QED BY <3>1, <4>1 DEF Taken
    <3>5. \A j \in Instances : Held(j)' \subseteq Held(j)
      <4>1. \A j \in Instances \ {i} : Held(j)' = Held(j)
        BY <3>1 DEF Held, Queued, Taken
      <4> QED BY <3>3, <3>4, <4>1 DEF Held
    <3> QED BY <1>3, <3>1, <3>5, CopiesOnlyLost
  <2>4. ASSUME NEW i \in Instances, SendCompletes(i) PROVE [Delivery!Next]_(Delivery!vars)
    <3>1. PICK n \in Notifications, s \in Sockets : n = sending[i].notification /\ s = sending[i].socket
      BY <1>0, <2>4 DEF SendCompletes, Sending
    <3>2. /\ chan' = chan /\ sending[i] # None
          /\ sending' = [sending EXCEPT ![i] = None]
          /\ live' = [live EXCEPT ![s] = live[s] \cup {n}]
      BY <2>4, <3>1 DEF SendCompletes, pubsubVars
    <3>3. n \in Held(i) /\ \A t \in Sockets : n \notin live[t]
      BY <3>1, <3>2 DEF Held, Taken, CopyInv
    <3>4. user_id[n] = who[s]
      BY <3>1, <3>2 DEF MatchInv, SendingMatches
    <3>5. deliveryStage[n] = "pending" /\ deliverySockets[n] = {}
      BY <3>3 DEF deliveryStage, deliverySockets
    <3>6. deliveryStage'[n] = "sent" /\ deliverySockets'[n] = {s}
      BY <1>0, <3>2, <3>3 DEF deliveryStage, deliverySockets
    <3>7. ASSUME NEW h \in Notifications \ {n}
          PROVE  deliveryStage'[h] = deliveryStage[h] /\ deliverySockets'[h] = deliverySockets[h]
      <4>1. \A t \in Sockets : h \in live'[t] <=> h \in live[t]
        BY <1>0, <3>2
      <4>2. \A j \in Instances : h \in Held(j)' <=> h \in Held(j)
        BY <1>0, <3>1, <3>2 DEF Held, Queued, Taken
      <4>3. (\E q \in published' : nid(q)' = h) <=> (\E q \in published : nid(q) = h)
        BY <1>0, <1>3
      <4> QED BY <4>1, <4>2, <4>3 DEF deliveryStage, deliverySockets
    <3>8. /\ deliveryStage' = [deliveryStage EXCEPT ![n] = "sent"]
          /\ deliverySockets' = [deliverySockets EXCEPT ![n] = {s}]
      <4>1. /\ deliveryStage' = [h \in Notifications |-> deliveryStage'[h]]
            /\ deliveryStage = [h \in Notifications |-> deliveryStage[h]]
            /\ deliverySockets' = [h \in Notifications |-> deliverySockets'[h]]
            /\ deliverySockets = [h \in Notifications |-> deliverySockets[h]]
        BY DEF deliveryStage, deliverySockets
      <4> QED BY <3>6, <3>7, <4>1
    <3>9. Delivery!Send(n, s)
      BY <1>0, <1>3, <3>4, <3>5, <3>8 DEF Delivery!Send
    <3> QED BY <3>9 DEF Delivery!Next
  <2>5. ASSUME NEW r \in Requests, Publish(r), ApiFrame PROVE [Delivery!Next]_(Delivery!vars)
    BY <1>2, <2>5
  <2> QED BY <2>1, <2>2, <2>3, <2>4, <2>5, DeliveryMoves
<1> QED
  BY <1>1, <1>2, <1>3, RowsAndPublications

\* The platform implements at-most-once delivery, whatever fails, crashes, lapses,
\* is retried or reconnects.
THEOREM PlatformImplementsDelivery == Spec => ImplementsDelivery
<1>1. Init => Delivery!Init
  <2> SUFFICES ASSUME Init PROVE Delivery!Init
    OBVIOUS
  <2>1. /\ live = [s \in Sockets |-> {}] /\ sending = [i \in Instances |-> None]
        /\ chan = [i \in Instances |-> << >>] /\ published = {}
        /\ user_id = [n \in Notifications |-> None] /\ who \in [Sockets -> Users]
    BY DEF Init, ApiInit, RequestInit, PubSubInit, RepositoryInit, GatewayInit
  <2>2. \A i \in Instances : Held(i) = {}
    BY <2>1 DEF Held, Queued, Taken
  <2> QED BY <2>1, <2>2 DEF Delivery!Init, deliveryStage, deliverySockets
<1>2. TypeOK /\ ApiInv /\ PlatformInv /\ [Next]_vars => [Delivery!Next]_(Delivery!vars)
  BY DeliveryRefinesStep DEF PlatformInv
<1> QED
  BY <1>1, <1>2, PlatformInvariant, PlatformTypeCorrect, PlatformKeepsApiInv, PTL
     DEF Spec, ImplementsDelivery, Delivery!Spec

\* The endpoint keeps the promises of the ledger in the whole platform.
THEOREM PlatformImplementsLedger == Spec => ImplementsLedger
  BY PlatformImplementsApi, EndpointImplementsLedger, PTL DEF PlatformRefinesApi
=============================================================================
