--------------------------- MODULE DeliveryProofs ---------------------------
(***************************************************************************)
(* What the platform delivers, for every value of the constants: to the    *)
(* right user, at most once, and nothing falls between the backlog query   *)
(* and live delivery.  The inductive invariant is PlatformInv.             *)
(***************************************************************************)
EXTENDS PlatformProofs, FiniteSetTheorems

\* The backlog of a socket is what its query returned.
LEMMA BacklogMoves ==
    ASSUME TypeOK, [Next]_vars, NEW s \in Sockets
    PROVE  \/ backlog'[s] = backlog[s]
           \/ GetBacklog(s) /\ GatewayFrame /\ backlog'[s] \in get_unread_backlog(who[s])
<1>0. backlog \in [Sockets -> SUBSET Notifications]
  BY DEF TypeOK, GatewayTypeOK
<1> USE DEF handlerVars, gatewayVars
<1>1. ASSUME NEW t \in Sockets, Handler(t)
      PROVE  \/ backlog'[s] = backlog[s]
             \/ GetBacklog(s) /\ GatewayFrame /\ backlog'[s] \in get_unread_backlog(who[s])
  <2>1. CASE GetBacklog(t) /\ GatewayFrame
    BY <1>0, <2>1 DEF GetBacklog
  <2> QED
    BY <1>1, <2>1 DEF Handler, Connect, Reject, Register, MarkOnline, SendBacklog, PresenceUpdate,
       ReadReceipt, Leave, Unregister, MarkOffline, HandlerFails
<1>2. ASSUME NEW i \in Instances, Lifespan(i) PROVE backlog' = backlog
  BY <1>2 DEF Lifespan, StartSubscriber, StartLiveness, RefreshLiveness, BeginShutdown,
     CloseConnection, UnregisterClosed, MarkOfflineClosed, StopSubscriber, ShutdownFails, Stopped,
     Crash, Exit
<1>3. ASSUME NEW i \in Instances, Deliver(i) \/ SubscriberDies(i) PROVE backlog' = backlog
  BY <1>3 DEF Deliver, TakeMessage, SendCompletes, SendFails, SubscriberDies
<1> QED
  BY <1>1, <1>2, <1>3 DEF Next, vars, Request, ApiFrame, KeyExpires, RegistryFrame

\* The message a subscriber takes is the first of its channel, for the user of a
\* stored row, and the rest of the channel moves up.
LEMMA FirstMessage ==
    ASSUME PubSubTypeOK, NEW i \in Instances, TakeMessage(i)
    PROVE  /\ chan[i] \in Seq(Message) /\ Len(chan[i]) \in Nat \ {0} /\ chan[i][1] \in Message
           /\ Head(chan[i]) = chan[i][1]
           /\ Len(chan'[i]) = Len(chan[i]) - 1
           /\ \A k \in 1 .. Len(chan[i]) - 1 : chan'[i][k] = chan[i][k + 1]
           /\ \A j \in Instances \ {i} : chan'[j] = chan[j]
           /\ chan' \in [Instances -> Seq(Message)]
<1>1. chan[i] \in Seq(Message) /\ chan[i] # << >> /\ chan' = [chan EXCEPT ![i] = Tail(chan[i])]
  BY DEF TakeMessage, next_message, PubSubTypeOK
<1>2. Tail(chan[i]) \in Seq(Message)
  BY <1>1
<1> QED BY <1>1, <1>2 DEF PubSubTypeOK

-----------------------------------------------------------------------------
\* Sockets, sends and rows keep naming the same user.
LEMMA MatchStep ==
    ASSUME TypeOK, ApiInv, MatchInv, [Next]_vars
    PROVE  MatchInv'
<1>0. /\ who' = who /\ inst' = inst
      /\ \A s \in Sockets : who[s] \in Users
      /\ sending \in [Instances -> Sending \cup {None}]
      /\ live \in [Sockets -> SUBSET Notifications] /\ backlog \in [Sockets -> SUBSET Notifications]
      /\ PubSubTypeOK /\ connections \in [Instances -> [Users -> Sockets \cup {None}]]
  BY SocketsFixed DEF TypeOK, GatewayTypeOK, ConnectionsTypeOK, ApiTypeOK
<1>1. \A n \in Notifications : user_id[n] \in Users => user_id'[n] = user_id[n]
  BY RowsKeepUsers, DomainAssumption DEF Persisted
<1>2. DictMatches'
  <2> SUFFICES ASSUME NEW i \in Instances, NEW u \in Users, get(i, u)' # None
               PROVE  who'[get(i, u)'] = u /\ inst'[get(i, u)'] = i
    BY DEF DictMatches
  <2>1. CASE get(i, u)' = get(i, u)
    BY <1>0, <2>1 DEF MatchInv, DictMatches
  <2> QED BY <1>0, <2>1, DictMoves
<1>3. SendingMatches'
  <2> SUFFICES ASSUME NEW i \in Instances, sending'[i] # None
               PROVE  /\ who[sending'[i].socket] = sending'[i].user_id
                      /\ user_id'[sending'[i].notification] = sending'[i].user_id
    BY <1>0 DEF SendingMatches
  <2>1. CASE sending'[i] = sending[i]
    <3>1. /\ sending[i].user_id \in Users /\ sending[i].notification \in Notifications
          /\ who[sending[i].socket] = sending[i].user_id
          /\ user_id[sending[i].notification] = sending[i].user_id
      BY <1>0, <2>1 DEF MatchInv, SendingMatches, Sending
    <3> QED BY <1>1, <2>1, <3>1
  <2>2. CASE TakeMessage(i)
    <3> DEFINE m == chan[i][1]
    <3>1. /\ m \in Message /\ m = Head(chan[i]) /\ 1 \in DOMAIN chan[i]
      BY <1>0, <2>2, FirstMessage
    <3>2. /\ sending'[i] = [socket |-> get(i, m.user_id), user_id |-> m.user_id,
                            notification |-> m.notification]
          /\ get(i, m.user_id) # None /\ user_id' = user_id
      BY <1>0, <2>2, <3>1 DEF TakeMessage, gatewayVars, repositoryVars
    <3>3. user_id[m.notification] = m.user_id
      BY <3>1 DEF ApiInv, QueuedMessagesMatchRows
    <3>4. who[get(i, m.user_id)] = m.user_id
      BY <3>1, <3>2 DEF Message, MatchInv, DictMatches
    <3> QED BY <3>2, <3>3, <3>4
  <2>3. ASSUME NEW j \in Instances, Lost(j) \/ TakeMessage(j) \/ SendCompletes(j) \/ SendFails(j)
        PROVE  sending'[i] = sending[i] \/ TakeMessage(i)
    BY <1>0, <2>3 DEF Lost, TakeMessage, SendCompletes, SendFails
  <2> QED BY <2>1, <2>2, <2>3, DeliveryMoves DEF Publish, ApiFrame, deliveryVars
<1>4. NoMisdelivery'
  <2> SUFFICES ASSUME NEW s \in Sockets, NEW n \in backlog'[s] \cup live'[s]
               PROVE  user_id'[n] = who[s]
    BY <1>0 DEF NoMisdelivery
  <2>1. CASE n \in backlog[s] \cup live[s]
    BY <1>0, <1>1, <2>1 DEF MatchInv, NoMisdelivery
  <2>2. CASE n \in backlog'[s] /\ n \notin backlog[s]
    <3>1. GetBacklog(s) /\ backlog'[s] \in get_unread_backlog(who[s])
      BY <2>2, BacklogMoves
    <3>2. n \in Unread(who[s]) /\ user_id' = user_id
      BY <2>2, <3>1 DEF GetBacklog, get_unread_backlog, repositoryVars
    <3> QED BY <3>2 DEF Unread
  <2>3. CASE n \in live'[s] /\ n \notin live[s]
    <3>1. PICK i \in Instances : SendCompletes(i)
      BY <2>3, DeliveryMoves DEF Publish, ApiFrame, deliveryVars, Lost, TakeMessage, SendFails
    <3>2. s = sending[i].socket /\ n = sending[i].notification /\ sending[i] # None
      BY <1>0, <2>3, <3>1 DEF SendCompletes
    <3>3. user_id' = user_id
      BY <3>1 DEF SendCompletes, gatewayVars, repositoryVars
    <3> QED BY <3>2, <3>3 DEF MatchInv, SendingMatches
  <2> QED BY <2>1, <2>2, <2>3
<1> QED
  BY <1>2, <1>3, <1>4 DEF MatchInv

-----------------------------------------------------------------------------
\* A request keeps its notification, and what it has published stays published.
LEMMA RequestsKeep ==
    ASSUME TypeOK, [Next]_vars
    PROVE  /\ published \subseteq published' /\ published \subseteq Requests
           /\ \A r \in Requests : /\ nid(r) \in Notifications /\ target(r) \in Users
                                  /\ nid(r)' = nid(r) /\ target(r)' = target(r)
<1>1. [ApiNext]_apiVars /\ ApiTypeOK
  BY ApiStepOrNone DEF TypeOK
<1>2. published \subseteq published' /\ published \subseteq Requests
  BY <1>1, OthersEffect
     DEF ApiTypeOK, ApiNext, ApiStep, Handle, AllowRequest, HasSeen, Create, MarkSeen, Lookup,
         IsAlive, Publish, MarkDeliveredLive, Respond, CallFails, requestVars
<1>3. CASE ApiNext
  BY <1>1, <1>2, <1>3, BodyFixed
<1>4. CASE UNCHANGED apiVars
  BY <1>1, <1>2, <1>4 DEF ApiTypeOK, Body, apiVars, requestVars, nid, target
<1> QED
  BY <1>1, <1>3, <1>4

\* The request about to publish is the first to publish its notification.
LEMMA FirstToPublish ==
    ASSUME ApiInv, NEW r \in Requests, pc[r] = "publish", NEW q \in published
    PROVE  nid(q) # nid(r)
<1>1. inserted[r] /\ r \notin published
  BY DEF ApiInv, PcMeaning, PublishMeaning, AtPc
<1>2. q \in Requests /\ inserted[q]
  BY DEF ApiInv, ApiTypeOK, PublishMeaning
<1> QED BY <1>1, <1>2 DEF ApiInv, OneInserter

\* Places that only lose copies keep the invariant.
LEMMA FewerCopies ==
    ASSUME TypeOK, CopyInv, [Next]_vars, live' = live,
           \A i \in Instances : /\ chan'[i] \in {chan[i], << >>}
                                /\ sending'[i] \in {sending[i], None}
    PROVE  CopyInv'
<1>1. \A i \in Instances : Queued(i)' \subseteq Queued(i) /\ Taken(i)' \subseteq Taken(i)
  BY DEF Queued, Taken
<1>2. \A i \in Instances : \A k, l \in DOMAIN chan'[i] :
        chan'[i][k].notification = chan'[i][l].notification => k = l
  BY DEF CopyInv
<1> QED BY <1>1, <1>2, RequestsKeep DEF CopyInv, Held

\* A copy comes into being once, in a channel, and moves on from there.
LEMMA CopyStep ==
    ASSUME TypeOK, ApiInv, CopyInv, [Next]_vars
    PROVE  CopyInv'
<1>0. /\ PubSubTypeOK /\ sending \in [Instances -> Sending \cup {None}]
      /\ live \in [Sockets -> SUBSET Notifications]
  BY DEF TypeOK, ApiTypeOK
<1>1. CASE UNCHANGED <<chan, sending, live>>
  BY <1>1, FewerCopies
<1>2. ASSUME NEW i \in Instances, Lost(i) \/ SendFails(i) PROVE CopyInv'
  BY <1>0, <1>2, FewerCopies DEF Lost, SendFails, PubSubTypeOK, pubsubVars
<1>3. ASSUME NEW r \in Requests, Publish(r), ApiFrame PROVE CopyInv'
  <2>0. sending' = sending /\ live' = live
    BY <1>3 DEF ApiFrame, deliveryVars
  <2>1. CASE owner[r] \notin subscribed
    BY <1>3, <2>0, <2>1, FewerCopies DEF Publish, publish_to_instance
  <2>2. CASE owner[r] \in subscribed
    <3>0. PICK j \in Instances, n \in Notifications : j = owner[r] /\ n = nid(r)
      BY <1>0, <2>2, RequestsKeep DEF PubSubTypeOK
    <3> DEFINE m == [user_id |-> target(r), notification |-> n]
    <3>1. /\ chan[j] \in Seq(Message) /\ m \in Message
          /\ chan' = [chan EXCEPT ![j] = Append(chan[j], m)]
          /\ published' = published \cup {r}
      BY <1>0, <1>3, <2>2, <3>0, RequestsKeep DEF Publish, publish_to_instance, PubSubTypeOK, Message
    <3>2. /\ Len(chan'[j]) = Len(chan[j]) + 1 /\ chan'[j][Len(chan[j]) + 1] = m
          /\ \A k \in 1 .. Len(chan[j]) : chan'[j][k] = chan[j][k]
          /\ DOMAIN chan'[j] = 1 .. Len(chan[j]) + 1 /\ DOMAIN chan[j] = 1 .. Len(chan[j])
          /\ Len(chan[j]) \in Nat
          /\ \A i \in Instances \ {j} : chan'[i] = chan[i]
      BY <1>0, <3>1 DEF PubSubTypeOK
    <3>3. \A q \in published : nid(q) # n
      BY <1>3, <3>0, FirstToPublish DEF Publish, Step
    <3>4. /\ \A i \in Instances : n \notin Held(i)
          /\ \A s \in Sockets : n \notin live[s]
      BY <3>3 DEF CopyInv
    <3>5. /\ Queued(j)' \subseteq Queued(j) \cup {n}
          /\ \A i \in Instances \ {j} : Queued(i)' = Queued(i)
          /\ \A i \in Instances : Taken(i)' = Taken(i)
      <4>1. ASSUME NEW k \in DOMAIN chan'[j]
            PROVE  chan'[j][k].notification \in Queued(j) \cup {n}
        <5>1. CASE k \in DOMAIN chan[j]
          BY <3>2, <5>1 DEF Queued
        <5>2. CASE k = Len(chan[j]) + 1
          BY <3>2, <5>2
        <5> QED BY <3>2, <5>1, <5>2
      <4>2. Queued(j)' \subseteq Queued(j) \cup {n}
        BY <4>1 DEF Queued
      <4> QED BY <2>0, <3>2, <4>2 DEF Queued, Taken
    <3>6. \A i \in Instances : \A k, l \in DOMAIN chan'[i] :
            chan'[i][k].notification = chan'[i][l].notification => k = l
      <4>1. ASSUME NEW k \in 1 .. Len(chan[j]) PROVE chan[j][k].notification # n
        BY <3>1, <3>2, <3>4, <4>1 DEF Held, Queued
      <4> QED BY <3>1, <3>2, <4>1 DEF CopyInv
    <3>7. \E q \in published' : nid(q)' = n
      BY <3>0, <3>1, RequestsKeep
    <3>8. /\ Held(j)' \subseteq Held(j) \cup {n} /\ Queued(j)' \cap Taken(j)' = {}
          /\ \A i \in Instances \ {j} : Held(i)' = Held(i)
      BY <3>4, <3>5 DEF CopyInv, Held
    <3>9. /\ \A i \in Instances : Queued(i)' \cap Taken(i)' = {}
          /\ \A h, i \in Instances : h # i => Held(h)' \cap Held(i)' = {}
          /\ \A i \in Instances, s \in Sockets : Held(i)' \cap live'[s] = {}
      BY <2>0, <3>4, <3>5, <3>8 DEF CopyInv
    <3>10. /\ \A i \in Instances : \A h \in Held(i)' : \E q \in published' : nid(q)' = h
           /\ \A s \in Sockets : \A h \in live'[s] : \E q \in published' : nid(q)' = h
      BY <2>0, <3>7, <3>8, RequestsKeep DEF CopyInv
    <3> QED BY <2>0, <3>6, <3>9, <3>10 DEF CopyInv
  <2> QED BY <2>1, <2>2
<1>4. ASSUME NEW i \in Instances, TakeMessage(i) PROVE CopyInv'
  <2> DEFINE n == chan[i][1].notification
  <2>1. /\ Len(chan[i]) \in Nat \ {0} /\ DOMAIN chan[i] = 1 .. Len(chan[i])
        /\ chan[i][1] \in Message /\ n \in Notifications /\ Head(chan[i]) = chan[i][1]
        /\ DOMAIN chan'[i] = 1 .. Len(chan[i]) - 1
        /\ \A k \in 1 .. Len(chan[i]) - 1 : chan'[i][k] = chan[i][k + 1]
        /\ \A j \in Instances \ {i} : chan'[j] = chan[j]
    BY <1>0, <1>4, FirstMessage DEF Message
  <2>2. /\ live' = live /\ sending[i] = None
        /\ sending'[i] = None \/ sending'[i].notification = n
        /\ \A j \in Instances \ {i} : sending'[j] = sending[j]
    BY <1>0, <1>4, <2>1 DEF TakeMessage
  <2>3. \A j \in Instances : \A k, l \in DOMAIN chan'[j] :
          chan'[j][k].notification = chan'[j][l].notification => k = l
    <3>1. ASSUME NEW k \in DOMAIN chan'[i], NEW l \in DOMAIN chan'[i],
                 chan'[i][k].notification = chan'[i][l].notification
          PROVE  k = l
      <4>1. k + 1 \in DOMAIN chan[i] /\ l + 1 \in DOMAIN chan[i] /\ k \in Nat /\ l \in Nat
        BY <2>1
      <4>2. chan[i][k + 1].notification = chan[i][l + 1].notification
        BY <2>1, <3>1
      <4>3. k + 1 = l + 1
        BY <4>1, <4>2 DEF CopyInv
      <4> QED BY <4>1, <4>3
    <3> QED BY <2>1, <3>1 DEF CopyInv
  <2>4. /\ Queued(i)' \subseteq Queued(i) /\ n \in Queued(i) /\ n \notin Queued(i)'
        /\ Taken(i)' \subseteq {n}
        /\ \A j \in Instances \ {i} : Queued(j)' = Queued(j) /\ Taken(j)' = Taken(j)
    <3>1. ASSUME NEW k \in DOMAIN chan'[i]
          PROVE  /\ chan'[i][k].notification \in Queued(i)
                 /\ chan'[i][k].notification # n
      <4>1. k + 1 \in DOMAIN chan[i] /\ 1 \in DOMAIN chan[i] /\ k + 1 # 1
        BY <2>1
      <4> QED BY <2>1, <4>1 DEF Queued, CopyInv
    <3>2. n \in Queued(i)
      BY <2>1 DEF Queued
    <3>3. Queued(i)' \subseteq Queued(i) /\ n \notin Queued(i)'
      BY <3>1 DEF Queued
    <3>4. Taken(i)' \subseteq {n}
      BY <2>2 DEF Taken
    <3>5. \A j \in Instances \ {i} : Queued(j)' = Queued(j) /\ Taken(j)' = Taken(j)
      BY <2>1, <2>2 DEF Queued, Taken
    <3> QED BY <3>2, <3>3, <3>4, <3>5
  <2> QED BY <2>2, <2>3, <2>4, RequestsKeep DEF CopyInv, Held
<1>5. ASSUME NEW i \in Instances, SendCompletes(i) PROVE CopyInv'
  <2> DEFINE n == sending[i].notification
             s == sending[i].socket
  <2>1. /\ chan' = chan /\ sending[i] # None /\ n \in Notifications /\ s \in Sockets
        /\ sending' = [sending EXCEPT ![i] = None]
        /\ live' = [live EXCEPT ![s] = live[s] \cup {n}]
    BY <1>0, <1>5 DEF SendCompletes, pubsubVars, Sending
  <2>2. /\ \A j \in Instances : Queued(j)' = Queued(j)
        /\ Taken(i) = {n} /\ Taken(i)' = {}
        /\ \A j \in Instances \ {i} : Taken(j)' = Taken(j)
    BY <1>0, <2>1 DEF Queued, Taken
  <2>3. /\ live'[s] = live[s] \cup {n}
        /\ \A t \in Sockets \ {s} : live'[t] = live[t]
    BY <1>0, <2>1
  <2>4. /\ \A j \in Instances \ {i} : n \notin Held(j)
        /\ n \notin Queued(i) /\ \A t \in Sockets : n \notin live[t]
        /\ \E r \in published : nid(r) = n
    BY <2>2 DEF CopyInv, Held
  <2>5. \A j \in Instances : \A k, l \in DOMAIN chan'[j] :
          chan'[j][k].notification = chan'[j][l].notification => k = l
    BY <2>1 DEF CopyInv
  <2> QED BY <2>2, <2>3, <2>4, <2>5, RequestsKeep DEF CopyInv, Held
<1> QED
  BY <1>1, <1>2, <1>3, <1>4, <1>5, DeliveryMoves

-----------------------------------------------------------------------------
\* A socket counts as intact only while it is routed, from its registration on.
LEMMA IntactMoves ==
    ASSUME TypeOK, DeliveryInv, [Next]_vars, NEW s \in intact'
    PROVE  /\ s \in Sockets /\ Routed(s)'
           /\ s \in intact \/ hpc[s] \in {"register", "mark_online", "get_backlog"}
<1>1. CASE Observe
  BY <1>1 DEF Observe
<1>2. CASE UNCHANGED vars
  <2>1. s \in intact /\ s \in Sockets
    BY <1>2 DEF vars, TypeOK
  <2>2. UNCHANGED <<hpc, who, inst, registry, alive, subscribed, connections>>
    BY <1>2 DEF vars, gatewayVars, handlerVars, registryVars, pubsubVars
  <2> QED BY <2>1, <2>2 DEF DeliveryInv, Routed, get
<1> QED
  BY <1>1, <1>2 DEF Next, Handler, Request, KeyExpires, Lifespan, Deliver, GatewayFrame, ApiFrame,
     RegistryFrame

\* A process that is down has no subscription.
LEMMA SubscriptionStep ==
    ASSUME TypeOK, [Next]_vars, \A i \in subscribed : phase[i] # "down"
    PROVE  \A i \in subscribed' : phase'[i] # "down"
<1>0. phase \in [Instances -> Phase] /\ subscribed \subseteq Instances
  BY DEF TypeOK, ApiTypeOK, PubSubTypeOK
<1>1. CASE UNCHANGED <<subscribed, phase>>
  BY <1>1
<1>2. ASSUME NEW r \in Requests, Request(r) PROVE UNCHANGED <<subscribed, phase>>
  BY <1>2 DEF Request, ApiFrame, AllowRequest, Handle, HasSeen, Create, MarkSeen, Lookup, IsAlive,
     Publish, publish_to_instance, MarkDeliveredLive, Respond, CallFails, storeVars, lifespanVars,
     pubsubVars
<1>3. ASSUME NEW i \in Instances, Lifespan(i) PROVE \A j \in subscribed' : phase'[j] # "down"
  <2>1. CASE StartSubscriber(i) \/ StopSubscriber(i) \/ Exit(i)
    BY <1>0, <2>1 DEF StartSubscriber, StopSubscriber, Exit, subscribe, unsubscribe
  <2> QED
    BY <1>0, <1>3, <2>1 DEF Lifespan, StartLiveness, RefreshLiveness, BeginShutdown,
       CloseConnection, UnregisterClosed, MarkOfflineClosed, ShutdownFails, Stopped, Crash,
       pubsubVars, lifespanVars
<1>4. ASSUME NEW i \in Instances, Deliver(i) \/ SubscriberDies(i)
      PROVE  subscribed' \subseteq subscribed /\ phase' = phase
  BY <1>4 DEF Deliver, TakeMessage, next_message, SendCompletes, SendFails, SubscriberDies,
     unsubscribe, pubsubVars, lifespanVars
<1>5. CASE KeyExpires \/ \E s \in Sockets : Handler(s)
  BY <1>1, <1>5 DEF KeyExpires, Handler, GatewayFrame, ApiFrame, RegistryFrame, lifespanVars,
     pubsubVars
<1> QED
  BY <1>1, <1>2, <1>3, <1>4, <1>5 DEF Next, vars, pubsubVars, lifespanVars

\* A handler past its backlog query stays there or ran the query just now.
LEMMA PastTheQuery ==
    ASSUME TypeOK, [Next]_vars, NEW s \in Sockets, hpc'[s] \in {"send_backlog", "receive"}
    PROVE  hpc[s] \in {"send_backlog", "receive"} \/ GetBacklog(s)
<1>0. hpc \in [Sockets -> HandlerPc]
  BY DEF TypeOK, GatewayTypeOK
<1>1. UNCHANGED hpc => hpc[s] \in {"send_backlog", "receive"}
  OBVIOUS
<1>2. ASSUME NEW t \in Sockets, Handler(t)
      PROVE  hpc[s] \in {"send_backlog", "receive"} \/ GetBacklog(s)
  BY <1>0, <1>1, <1>2 DEF Handler, Connect, Reject, Register, MarkOnline, GetBacklog, SendBacklog,
     PresenceUpdate, ReadReceipt, Leave, Unregister, MarkOffline, HandlerFails, Goto, Resumes,
     handlerVars
<1>3. ASSUME NEW i \in Instances, Lifespan(i) PROVE hpc[s] \in {"send_backlog", "receive"}
  BY <1>0, <1>1, <1>3 DEF Lifespan, StartSubscriber, StartLiveness, RefreshLiveness, BeginShutdown,
     CloseConnection, UnregisterClosed, MarkOfflineClosed, StopSubscriber, ShutdownFails, Stopped,
     Crash, Exit, handlerVars, gatewayVars
<1>4. ASSUME NEW i \in Instances, Deliver(i) \/ SubscriberDies(i) PROVE UNCHANGED hpc
  BY <1>4 DEF Deliver, TakeMessage, SendCompletes, SendFails, SubscriberDies, handlerVars, gatewayVars
<1> QED
  BY <1>1, <1>2, <1>3, <1>4 DEF Next, vars, Request, ApiFrame, KeyExpires, RegistryFrame,
     handlerVars, gatewayVars

\* What is read stays read.
LEMMA ReadStays ==
    ASSUME TypeOK, [Next]_vars
    PROVE  read \subseteq read'
<1>1. [ApiNext]_apiVars
  BY ApiStepOrNone DEF TypeOK
<1> QED
  BY <1>1 DEF ApiNext, ApiStep, Handle, AllowRequest, HasSeen, Create, create, MarkSeen, Lookup,
     IsAlive, Publish, MarkDeliveredLive, mark_delivered_live, Respond, CallFails, DedupExpires,
     RegistryMoves, SubscribersMove, ReadersMove, ReadNext, mark_read, apiVars, storeVars,
     repositoryVars

\* The control point of a request moves only with its own step.
LEMMA RequestMoves ==
    ASSUME TypeOK, [Next]_vars, NEW r \in Requests
    PROVE  \/ pc'[r] = pc[r] /\ owner'[r] = owner[r] /\ inserted'[r] = inserted[r]
           \/ AllowRequest(r) \/ Handle(r) \/ CallFails(r)
<1>1. [ApiNext]_apiVars /\ ApiTypeOK
  BY ApiStepOrNone DEF TypeOK
<1>2. UNCHANGED requestVars => pc'[r] = pc[r] /\ owner'[r] = owner[r] /\ inserted'[r] = inserted[r]
  BY DEF requestVars
<1>3. ASSUME NEW q \in Requests, AllowRequest(q) \/ Handle(q) \/ CallFails(q), q # r
      PROVE  pc'[r] = pc[r] /\ owner'[r] = owner[r] /\ inserted'[r] = inserted[r]
  BY <1>1, <1>3 DEF ApiTypeOK, Handle, AllowRequest, HasSeen, Create, MarkSeen, Lookup, IsAlive,
     Publish, MarkDeliveredLive, Respond, CallFails, Step
<1> QED
  BY <1>1, <1>2, <1>3, OthersEffect DEF ApiNext, ApiStep, apiVars

\* A request on its way to a socket that stays routed gets one step closer, and
\* so does its message.
LEMMA RequestStaysOnItsWay ==
    ASSUME TypeOK, ApiInv, [Next]_vars, NEW s \in Sockets, NEW r \in Requests,
           Routed(s), inserted[r], target(r) = who[s],
           \/ pc[r] \in {"mark_seen", "lookup", "failed"}
           \/ pc[r] \in {"is_alive", "publish"} /\ owner[r] = inst[s]
    PROVE  OnItsWay(r, s)'
<1>0. /\ inst' = inst /\ nid(r)' = nid(r) /\ nid(r) \in Notifications /\ target(r) \in Users
      /\ ApiTypeOK /\ PubSubTypeOK /\ inst[s] \in Instances /\ inst[s] # None
      /\ registry[who[s]] = inst[s] /\ inst[s] \in alive /\ inst[s] \in subscribed
  BY SocketsFixed, RequestsKeep, DomainAssumption DEF TypeOK, ApiTypeOK, GatewayTypeOK, Routed
<1>1. CASE pc'[r] = pc[r] /\ owner'[r] = owner[r] /\ inserted'[r] = inserted[r]
  BY <1>0, <1>1 DEF OnItsWay
<1>2. CASE AllowRequest(r) \/ CallFails(r)
  BY <1>0, <1>2 DEF AllowRequest, CallFails, Step, OnItsWay, ApiTypeOK
<1>3. CASE HasSeen(r) \/ Create(r) \/ MarkDeliveredLive(r) \/ Respond(r)
  BY <1>3 DEF HasSeen, Create, MarkDeliveredLive, Respond, Step
<1>4. CASE MarkSeen(r)
  BY <1>0, <1>4 DEF MarkSeen, Step, OnItsWay, ApiTypeOK
<1>5. CASE Lookup(r)
  BY <1>0, <1>5 DEF Lookup, lookup, Step, OnItsWay, ApiTypeOK
<1>6. CASE IsAlive(r)
  BY <1>0, <1>6 DEF IsAlive, is_alive, Step, OnItsWay, ApiTypeOK
<1>7. CASE Publish(r)
  <2> DEFINE m == [user_id |-> target(r), notification |-> nid(r)]
             i == inst[s]
  <2>1. chan' = [chan EXCEPT ![i] = Append(chan[i], m)] /\ chan[i] \in Seq(Message) /\ m \in Message
    BY <1>0, <1>7 DEF Publish, publish_to_instance, Step, PubSubTypeOK, Message
  <2>2. /\ Len(chan[i]) + 1 \in DOMAIN chan'[i]
        /\ chan'[i][Len(chan[i]) + 1].notification = nid(r)
    BY <1>0, <2>1 DEF PubSubTypeOK
  <2>3. InTransit(nid(r), s)'
    BY <1>0, <2>2 DEF InTransit
  <2> QED BY <2>3 DEF OnItsWay
<1> QED
  BY <1>1, <1>2, <1>3, <1>4, <1>5, <1>6, <1>7, RequestMoves DEF Handle

LEMMA MessageStaysOnItsWay ==
    ASSUME TypeOK, ApiInv, MatchInv, DeliveryInv, [Next]_vars, NEW s \in Sockets,
           NEW n \in Notifications, Routed(s), Routed(s)', user_id[n] = who[s],
           n \in live[s] \/ InTransit(n, s)
    PROVE  n \in live'[s] \/ InTransit(n, s)'
<1>0. PICK i \in Instances : i = inst[s]
  BY DEF TypeOK, GatewayTypeOK
<1>1. /\ inst' = inst /\ who' = who /\ who[s] \in Users /\ PubSubTypeOK
      /\ sending \in [Instances -> Sending \cup {None}]
      /\ live \in [Sockets -> SUBSET Notifications]
      /\ connections \in [Instances -> [Users -> Sockets \cup {None}]]
      /\ i \in subscribed /\ i \in subscribed' /\ get(i, who[s]) = s /\ s # None
      /\ connections'[i][who[s]] = s
  BY <1>0, SocketsFixed, SocketsAssumption
     DEF TypeOK, GatewayTypeOK, ApiTypeOK, ConnectionsTypeOK, Routed, get
<1>2. CASE UNCHANGED <<chan, sending, live>>
  BY <1>1, <1>2 DEF InTransit
<1>3. ASSUME NEW r \in Requests, Publish(r), ApiFrame PROVE n \in live'[s] \/ InTransit(n, s)'
  <2>1. /\ sending' = sending /\ live' = live
        /\ chan' = chan \/ chan' = [chan EXCEPT ![owner[r]] =
             Append(chan[owner[r]], [user_id |-> target(r), notification |-> nid(r)])]
    BY <1>3 DEF Publish, publish_to_instance, ApiFrame, deliveryVars
  <2>2. chan[i] \in Seq(Message) /\ [user_id |-> target(r), notification |-> nid(r)] \in Message
    BY <1>1, RequestsKeep DEF PubSubTypeOK, Message
  <2>3. \A k \in DOMAIN chan[i] : k \in DOMAIN chan'[i] /\ chan'[i][k] = chan[i][k]
    <3>1. CASE chan'[i] = chan[i]
      BY <3>1
    <3>2. CASE chan'[i] = Append(chan[i], [user_id |-> target(r), notification |-> nid(r)])
      BY <2>2, <3>2
    <3> QED BY <1>1, <2>1, <3>1, <3>2 DEF PubSubTypeOK
  <2> QED BY <1>0, <1>1, <2>1, <2>3 DEF InTransit
<1>4. ASSUME NEW j \in Instances, Lost(j) PROVE n \in live'[s] \/ InTransit(n, s)'
  <2>1. j # i
    BY <1>1, <1>4 DEF Lost, DeliveryInv
  <2>2. chan'[i] = chan[i] /\ sending'[i] = sending[i] /\ live' = live
    BY <1>1, <1>4, <2>1 DEF Lost, PubSubTypeOK
  <2> QED BY <1>0, <1>1, <2>2 DEF InTransit
<1>5. ASSUME NEW j \in Instances, TakeMessage(j) PROVE n \in live'[s] \/ InTransit(n, s)'
  <2>0. live' = live /\ sending[j] = None
    BY <1>5 DEF TakeMessage
  <2>1. CASE j # i
    <3>1. chan'[i] = chan[i] /\ sending'[i] = sending[i]
      BY <1>1, <1>5, <2>1, FirstMessage DEF TakeMessage
    <3> QED BY <1>0, <1>1, <2>0, <3>1 DEF InTransit
  <2>2. ASSUME j = i, NEW k \in DOMAIN chan[i], chan[i][k].notification = n
        PROVE  InTransit(n, s)'
    <3>1. /\ Len(chan[i]) \in Nat \ {0} /\ DOMAIN chan[i] = 1 .. Len(chan[i])
          /\ Head(chan[i]) = chan[i][1] /\ DOMAIN chan'[i] = 1 .. Len(chan[i]) - 1
          /\ \A l \in 1 .. Len(chan[i]) - 1 : chan'[i][l] = chan[i][l + 1]
      BY <1>1, <1>5, <2>2, FirstMessage
    <3>2. chan[i][k].user_id = who[s]
      BY <2>2 DEF ApiInv, QueuedMessagesMatchRows
    <3>3. CASE k = 1
      <4>1. sending'[i] = [socket |-> s, user_id |-> who[s], notification |-> n]
        BY <1>1, <1>5, <2>2, <3>1, <3>2, <3>3 DEF TakeMessage
      <4>2. sending'[i] # None
        BY <4>1, <1>1, SendingAssumption DEF Sending
      <4> QED BY <1>0, <1>1, <4>1, <4>2 DEF InTransit
    <3>4. CASE k # 1
      <4>1. k - 1 \in DOMAIN chan'[i] /\ chan'[i][k - 1].notification = n
        BY <2>2, <3>1, <3>4
      <4> QED BY <1>0, <1>1, <4>1 DEF InTransit
    <3> QED BY <3>3, <3>4
  <2> QED BY <1>0, <2>0, <2>1, <2>2 DEF InTransit
<1>6. ASSUME NEW j \in Instances, SendCompletes(j) PROVE n \in live'[s] \/ InTransit(n, s)'
  <2>1. /\ chan' = chan /\ sending' = [sending EXCEPT ![j] = None]
        /\ sending[j] \in Sending
        /\ live' = [live EXCEPT ![sending[j].socket] = @ \cup {sending[j].notification}]
    BY <1>1, <1>6 DEF SendCompletes, pubsubVars
  <2>2. live[s] \subseteq live'[s]
    BY <1>1, <2>1 DEF Sending
  <2>3. CASE j = i /\ sending[i].socket = s /\ sending[i].notification = n
    BY <1>1, <2>1, <2>3
  <2>4. CASE ~(j = i /\ sending[i].socket = s /\ sending[i].notification = n)
    BY <1>0, <1>1, <2>1, <2>2, <2>4 DEF InTransit
  <2> QED BY <2>3, <2>4
<1>7. ASSUME NEW j \in Instances, SendFails(j) PROVE n \in live'[s] \/ InTransit(n, s)'
  <2>1. /\ chan' = chan /\ sending' = [sending EXCEPT ![j] = None] /\ live' = live
        /\ sending[j] # None /\ sending[j] \in Sending
        /\ connections' = [connections EXCEPT ![j][sending[j].user_id] = None]
    BY <1>1, <1>7 DEF SendFails, pubsubVars, remove
  <2>2. ~(j = i /\ sending[i].socket = s)
    BY <1>1, <2>1 DEF MatchInv, SendingMatches, Sending
  <2> QED BY <1>0, <1>1, <2>1, <2>2 DEF InTransit
<1> QED
  BY <1>2, <1>3, <1>4, <1>5, <1>6, <1>7, DeliveryMoves

\* Only a full backlog frame leaves rows out, those unread at the query.
LEMMA LeftOutMoves ==
    ASSUME TypeOK, [Next]_vars, NEW s \in Sockets
    PROVE  /\ GetBacklog(s) /\ Cardinality(backlog'[s]) >= BacklogLimit =>
                leftOut'[s] = Unread(who[s]) \ backlog'[s]
           /\ hpc[s] # "get_backlog" => leftOut'[s] = leftOut[s]
<1>0. hpc \in [Sockets -> HandlerPc]
  BY DEF TypeOK, GatewayTypeOK
<1>1. CASE Observe
  BY <1>0, <1>1 DEF Observe, GetBacklog, Goto
<1>2. CASE UNCHANGED vars
  BY <1>0, <1>2 DEF vars, gatewayVars, handlerVars, GetBacklog, Goto
<1> QED
  BY <1>1, <1>2 DEF Next, Handler, Request, KeyExpires, Lifespan, Deliver, GatewayFrame, ApiFrame,
     RegistryFrame

\* Nothing falls between the backlog query and live delivery in any step.
LEMMA DeliveryStep ==
    ASSUME TypeOK, ApiInv, MatchInv, DeliveryInv, [Next]_vars
    PROVE  DeliveryInv'
<1>1. \A i \in subscribed' : phase'[i] # "down"
  BY SubscriptionStep DEF DeliveryInv
<1>2. \A s \in intact' : Routed(s)'
  BY IntactMoves
<1>3. ASSUME NEW s \in intact', NEW r \in Requests, hpc'[s] \in {"send_backlog", "receive"},
             inserted'[r], user_id'[nid(r)'] = who'[s],
             nid(r)' \notin read' \cup backlog'[s] \cup leftOut'[s]
      PROVE  OnItsWay(r, s)'
  <2>0. PICK n \in Notifications : n = nid(r) /\ n = nid(r)'
    BY RequestsKeep
  <2>1. /\ s \in Sockets /\ Routed(s)' /\ who' = who /\ who[s] \in Users /\ n \notin read
        /\ target(r) \in Users /\ ApiTypeOK
    BY <1>3, <2>0, IntactMoves, SocketsFixed, ReadStays, RequestsKeep DEF TypeOK, GatewayTypeOK
  <2>2. CASE GetBacklog(s)
    <3>1. user_id' = user_id /\ backlog'[s] \in get_unread_backlog(who[s])
      BY <2>1, <2>2 DEF GetBacklog, repositoryVars, TypeOK, GatewayTypeOK
    <3>2. n \in Unread(who[s])
      BY <1>3, <2>0, <2>1, <3>1 DEF Unread
    <3>3. CASE Cardinality(backlog'[s]) >= BacklogLimit
      BY <1>3, <2>0, <2>1, <2>2, <3>2, <3>3, LeftOutMoves
    <3>4. CASE ~(Cardinality(backlog'[s]) >= BacklogLimit)
      <4>1. backlog'[s] = Unread(who[s])
        BY <3>1, <3>4, RepositoryAssumption DEF get_unread_backlog, IsUnreadBacklog
      <4> QED BY <1>3, <2>0, <3>2, <4>1
    <3> QED BY <3>3, <3>4
  <2>3. CASE hpc[s] \in {"send_backlog", "receive"}
    <3>1. s \in intact /\ Routed(s)
      BY <2>3, IntactMoves DEF DeliveryInv
    <3>2. backlog'[s] = backlog[s] /\ leftOut'[s] = leftOut[s]
      BY <2>1, <2>3, BacklogMoves, LeftOutMoves DEF GetBacklog
    <3>3. CASE ~inserted[r]
      <4>1. Create(r)
        BY <1>3, <3>3, RequestMoves
           DEF AllowRequest, Handle, HasSeen, MarkSeen, Lookup, IsAlive, Publish,
               MarkDeliveredLive, Respond, CallFails
      <4> QED BY <2>1, <4>1 DEF Create, Step, OnItsWay, ApiTypeOK
    <3>4. CASE inserted[r]
      <4>1. user_id[n] = target(r) /\ user_id'[n] = user_id[n]
        BY <2>0, <2>1, <3>4, RowsKeepUsers, DomainAssumption DEF ApiInv, InsertedRows, Persisted
      <4>2. user_id[n] = who[s] /\ target(r) = who[s]
        BY <1>3, <2>0, <2>1, <4>1
      <4>3. OnItsWay(r, s)
        BY <1>3, <2>0, <2>1, <2>3, <3>1, <3>2, <3>4, <4>2 DEF DeliveryInv
      <4>4. CASE n \in live[s] \/ InTransit(n, s)
        BY <2>0, <2>1, <3>1, <4>2, <4>4, MessageStaysOnItsWay DEF OnItsWay
      <4> QED BY <2>0, <2>1, <3>1, <3>4, <4>2, <4>3, <4>4, RequestStaysOnItsWay DEF OnItsWay
    <3> QED BY <3>3, <3>4
  <2>4. CASE hpc[s] \notin {"send_backlog", "receive"}
    BY <1>3, <2>1, <2>2, <2>4, PastTheQuery
  <2> QED BY <2>3, <2>4
<1> QED
  BY <1>1, <1>2, <1>3 DEF DeliveryInv

LEMMA PlatformInvInit == Init => PlatformInv
<1> SUFFICES ASSUME Init PROVE PlatformInv
  OBVIOUS
<1>1. /\ connections = [i \in Instances |-> [u \in Users |-> None]]
      /\ sending = [i \in Instances |-> None] /\ live = [s \in Sockets |-> {}]
      /\ backlog = [s \in Sockets |-> {}] /\ chan = [i \in Instances |-> << >>]
      /\ subscribed = {} /\ intact = {}
  BY DEF Init, ApiInit, PubSubInit, GatewayInit, ConnectionsInit
<1>2. MatchInv
  BY <1>1 DEF MatchInv, DictMatches, SendingMatches, NoMisdelivery, get
<1>3. CopyInv
  <2>1. \A i \in Instances : Queued(i) = {} /\ Taken(i) = {} /\ chan[i] = << >>
    BY <1>1 DEF Queued, Taken
  <2> QED BY <1>1, <2>1 DEF CopyInv, Held
<1>4. DeliveryInv
  BY <1>1 DEF DeliveryInv
<1> QED
  BY <1>2, <1>3, <1>4 DEF PlatformInv

-----------------------------------------------------------------------------
\* Who is served where, where every copy is and how far every request has come:
\* the inductive invariant of the platform, whatever fails, lapses or crashes.
THEOREM PlatformInvariant == Spec => []PlatformInv
<1>1. TypeOK /\ ApiInv /\ PlatformInv /\ [Next]_vars => PlatformInv'
  BY MatchStep, CopyStep, DeliveryStep DEF PlatformInv
<1> QED
  BY <1>1, PlatformInvInit, PlatformTypeCorrect, PlatformKeepsApiInv, PTL DEF Spec

\* A socket is only ever sent notifications of its own user, live (send_json) or
\* in the backlog frame, however dict entries are replaced and removed meanwhile.
THEOREM NeverMisdelivered == Spec => []NoMisdelivery
<1>1. PlatformInv => NoMisdelivery
  BY DEF PlatformInv, MatchInv
<1> QED BY <1>1, PlatformInvariant, PTL

\* While a user's route to a socket holds from its registration on, every unread
\* notification a request stored and routed is in the backlog frame, sent or on
\* its way: registering before the backlog query (gateway.py) leaves no gap.
THEOREM DeliveryIsComplete == Spec => []DeliveryComplete
<1>1. TypeOK /\ ApiInv /\ PlatformInv => DeliveryComplete
  <2> SUFFICES ASSUME TypeOK, ApiInv, DeliveryInv, NEW s \in intact, NEW n \in Notifications,
                      hpc[s] = "receive", user_id[n] = who[s],
                      n \notin read \cup leftOut[s], n \notin backlog[s],
                      NEW r \in Requests, nid(r) = n, inserted[r], Routing(r)
               PROVE  n \in live[s] \/ InTransit(n, s)
    BY DEF PlatformInv, DeliveryComplete
  <2>1. OnItsWay(r, s)
    BY DEF DeliveryInv
  <2> QED BY <2>1 DEF OnItsWay, Routing
<1> QED BY <1>1, PlatformInvariant, PlatformTypeCorrect, PlatformKeepsApiInv, PTL

\* No notification is sent live twice, whatever is retried, replayed or reconnected:
\* there is at most one copy of it in all channels, sends and sockets.
THEOREM SentAtMostOnce == Spec => []LiveAtMostOnce
<1>1. TypeOK /\ PlatformInv => LiveAtMostOnce
  <2> SUFFICES ASSUME TypeOK, CopyInv, NEW n \in Notifications PROVE Copies(n) <= 1
    BY DEF PlatformInv, LiveAtMostOnce
  <2> DEFINE at(i)  == {k \in DOMAIN chan[i] : chan[i][k].notification = n}
             queued == UNION {{i} \X at(i) : i \in Instances}
             taken  == {i \in Instances : sending[i] # None /\ sending[i].notification = n}
             sent   == {s \in Sockets : n \in live[s]}
             Small(S) == S = {} \/ \E x : S = {x}
  <2>1. \A i \in Instances : (at(i) # {} => n \in Queued(i)) /\ (i \in taken => n \in Taken(i))
    BY DEF Queued, Taken
  <2>2. \A x \in queued : \E i \in Instances : \E k \in at(i) : x = <<i, k>>
    OBVIOUS
  <2>3. \A x, y \in queued : x = y
    <3> SUFFICES ASSUME NEW i \in Instances, NEW k \in at(i), NEW j \in Instances, NEW l \in at(j)
                 PROVE  i = j /\ k = l
      BY <2>2
    <3>1. i = j
      BY <2>1 DEF CopyInv, Held
    <3> QED BY <3>1 DEF CopyInv
  <2>4. /\ \A i, j \in taken : i = j
        /\ \A s, t \in sent : s = t
    BY <2>1 DEF CopyInv, Held
  <2>5. /\ queued # {} => taken = {} /\ sent = {}
        /\ taken # {} => sent = {}
    <3>1. queued # {} => \E i \in Instances : n \in Queued(i)
      BY <2>1, <2>2
    <3>2. ASSUME NEW i \in Instances, n \in Held(i) PROVE sent = {}
      BY <3>2 DEF CopyInv
    <3>3. ASSUME NEW i \in Instances, n \in Queued(i) PROVE taken = {}
      BY <2>1, <3>3 DEF CopyInv, Held
    <3> QED BY <2>1, <3>1, <3>2, <3>3 DEF Held
  <2>6. Small(queued) /\ Small(taken) /\ Small(sent)
    <3>1. ASSUME NEW S, \A x, y \in S : x = y PROVE Small(S)
      <4>1. CASE \E x : x \in S
        <5>1. PICK x : x \in S
          BY <4>1
        <5>2. S = {x}
          BY <3>1, <5>1
        <5> QED BY <5>2
      <4> QED BY <4>1
    <3> HIDE DEF queued, taken, sent, Small
    <3> QED BY <2>3, <2>4, <3>1
  <2>7. ASSUME NEW S, Small(S)
        PROVE  Cardinality(S) = IF S = {} THEN 0 ELSE 1
    BY <2>7, FS_EmptySet, FS_Singleton
  <2>8. Cardinality(queued) + Cardinality(taken) + Cardinality(sent) <= 1
    <3> HIDE DEF queued, taken, sent, Small
    <3> QED BY <2>5, <2>6, <2>7
  <2> QED BY <2>8 DEF Copies
<1> QED BY <1>1, PlatformInvariant, PlatformTypeCorrect, PTL
=============================================================================
