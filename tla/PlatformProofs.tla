--------------------------- MODULE PlatformProofs ---------------------------
(***************************************************************************)
(* Proofs about Platform, for every value of the constants: it implements  *)
(* NotificationApi, so what is proved of the endpoint holds in the whole   *)
(* system; its types; and which steps move which variables.                *)
(***************************************************************************)
EXTENDS PlatformInvariants, NotificationApiProofs

\* A socket keeps its user and its instance.
LEMMA SocketsFixed ==
    ASSUME [Next]_vars
    PROVE  who' = who /\ inst' = inst
<1> USE DEF handlerVars, gatewayVars
<1>1. ASSUME NEW s \in Sockets, Handler(s) PROVE who' = who /\ inst' = inst
  BY <1>1 DEF Handler, Connect, Reject, Register, MarkOnline, GetBacklog, SendBacklog,
     PresenceUpdate, ReadReceipt, Leave, Unregister, MarkOffline, HandlerFails
<1>2. ASSUME NEW i \in Instances, Lifespan(i) PROVE who' = who /\ inst' = inst
  BY <1>2 DEF Lifespan, StartSubscriber, StartLiveness, RefreshLiveness, BeginShutdown,
     CloseConnection, UnregisterClosed, MarkOfflineClosed, StopSubscriber, ShutdownFails, Stopped,
     Crash, Exit
<1>3. ASSUME NEW i \in Instances, Deliver(i) \/ SubscriberDies(i) PROVE who' = who /\ inst' = inst
  BY <1>3 DEF Deliver, TakeMessage, SendCompletes, SendFails, SubscriberDies
<1> QED
  BY <1>1, <1>2, <1>3 DEF Next, vars, Request, ApiFrame, KeyExpires, RegistryFrame

\* Every step of the platform is, for the endpoint, a request's step, one of the
\* moves NotificationApi allows the rest of the world, or none.
LEMMA ApiStepOrNone ==
    ASSUME GatewayTypeOK, [Next]_vars
    PROVE  [ApiNext]_apiVars
<1> USE DEF apiVars, storeVars
<1>0. /\ \A s \in Sockets : who[s] \in Users /\ inst[s] \in Instances
  BY DEF GatewayTypeOK
<1>1. ASSUME NEW s \in Sockets, Handler(s) PROVE [ApiNext]_apiVars
  <2>1. CASE Register(s) /\ GatewayFrame
    <3>1. RegistryMoves
      BY <1>0, <2>1 DEF Register, GatewayFrame, RegistryMoves, RegistryNext
    <3> QED BY <3>1 DEF ApiNext
  <2>2. CASE Unregister(s) /\ GatewayFrame
    <3>1. RegistryMoves
      BY <1>0, <2>2 DEF Unregister, GatewayFrame, RegistryMoves, RegistryNext
    <3> QED BY <3>1 DEF ApiNext
  <2>3. CASE ReadReceipt(s) /\ GatewayFrame
    <3>1. ReadersMove
      BY <1>0, <2>3 DEF ReadReceipt, GatewayFrame, ReadersMove, ReadNext
    <3> QED BY <3>1 DEF ApiNext
  <2> QED
    BY <1>1, <2>1, <2>2, <2>3 DEF Handler, GatewayFrame, Connect, Reject, MarkOnline, GetBacklog,
       SendBacklog, PresenceUpdate, Leave, MarkOffline, HandlerFails
<1>2. ASSUME NEW r \in Requests, Request(r) PROVE [ApiNext]_apiVars
  BY <1>2 DEF Request, ApiNext, ApiStep
<1>3. ASSUME NEW i \in Instances, Lifespan(i) PROVE [ApiNext]_apiVars
  <2>1. CASE StartSubscriber(i) \/ StopSubscriber(i) \/ Stopped(i) \/ Crash(i)
    <3>1. SubscribersMove
      BY <2>1 DEF StartSubscriber, StopSubscriber, Stopped, Crash, Exit, SubscribersMove,
         PubSubNext, gatewayVars
    <3> QED BY <3>1 DEF ApiNext
  <2>2. CASE StartLiveness(i) \/ RefreshLiveness(i) \/ \E u \in Users : UnregisterClosed(i, u)
    <3>1. RegistryMoves
      BY <2>2 DEF StartLiveness, RefreshLiveness, UnregisterClosed, RegistryMoves, RegistryNext
    <3> QED BY <3>1 DEF ApiNext
  <2>3. CASE \/ BeginShutdown(i) \/ MarkOfflineClosed(i) \/ ShutdownFails(i)
             \/ \E u \in Users : CloseConnection(i, u)
    BY <2>3 DEF BeginShutdown, CloseConnection, MarkOfflineClosed, ShutdownFails, gatewayVars
  <2> QED
    BY <1>3, <2>1, <2>2, <2>3 DEF Lifespan
<1>4. ASSUME NEW i \in Instances, Deliver(i) \/ SubscriberDies(i) PROVE [ApiNext]_apiVars
  <2>1. CASE TakeMessage(i) \/ SubscriberDies(i)
    <3>1. SubscribersMove
      BY <2>1 DEF TakeMessage, SubscriberDies, SubscribersMove, PubSubNext, gatewayVars
    <3> QED BY <3>1 DEF ApiNext
  <2>2. CASE SendCompletes(i) \/ SendFails(i)
    BY <2>2 DEF SendCompletes, SendFails, gatewayVars
  <2> QED
    BY <1>4, <2>1, <2>2 DEF Deliver
<1>5. CASE KeyExpires
  <2>1. ASSUME NEW u \in Users, ExpireEntry(u), RegistryFrame PROVE RegistryMoves
    BY <2>1 DEF ExpireEntry, RegistryFrame, GatewayFrame, RegistryMoves, RegistryNext
  <2>2. ASSUME NEW i \in Instances, ExpireLiveness(i), RegistryFrame PROVE RegistryMoves
    BY <2>2 DEF RegistryFrame, GatewayFrame, RegistryMoves, RegistryNext
  <2>3. ASSUME NEW u \in Users, UNCHANGED <<registryVars, repositoryVars>>, GatewayFrame
        PROVE  UNCHANGED apiVars
    BY <2>3 DEF GatewayFrame
  <2> QED
    BY <1>5, <2>1, <2>2, <2>3 DEF KeyExpires, ApiNext, DedupExpires
<1>6. CASE UNCHANGED vars
  BY <1>6 DEF vars, gatewayVars
<1> QED
  BY <1>1, <1>2, <1>3, <1>4, <1>5, <1>6 DEF Next

-----------------------------------------------------------------------------
\* The steps of a handler keep the types of what a handler moves.
LEMMA HandlerTypes ==
    ASSUME TypeOK, NEW s \in Sockets, Handler(s)
    PROVE  GatewayTypeOK'
<1>0. GatewayTypeOK /\ UNCHANGED <<who, inst>>
  BY SocketsFixed DEF TypeOK, Next
<1> USE DEF GatewayTypeOK, HandlerPc, PresenceTypeOK, PresenceStatus, ConnectionsTypeOK, Goto,
            Resumes, handlerVars
<1>1. CASE Connect(s)          BY <1>0, <1>1 DEF Connect, add
<1>2. CASE Reject(s)           BY <1>0, <1>2 DEF Reject
<1>3. CASE Register(s)         BY <1>0, <1>3 DEF Register
<1>4. CASE MarkOnline(s)       BY <1>0, <1>4 DEF MarkOnline, mark_online
<1>5. CASE GetBacklog(s)       BY <1>0, <1>5 DEF GetBacklog, get_unread_backlog, Unread
<1>6. CASE SendBacklog(s)      BY <1>0, <1>6 DEF SendBacklog
<1>7. CASE PresenceUpdate(s)   BY <1>0, <1>7 DEF PresenceUpdate, mark_online, mark_away
<1>8. CASE ReadReceipt(s)      BY <1>0, <1>8 DEF ReadReceipt
<1>9. CASE Leave(s)            BY <1>0, <1>9 DEF Leave, remove
<1>10. CASE Unregister(s)      BY <1>0, <1>10 DEF Unregister
<1>11. CASE MarkOffline(s)     BY <1>0, <1>11 DEF MarkOffline, mark_offline
<1>12. CASE HandlerFails(s)    BY <1>0, <1>12 DEF HandlerFails
<1> QED
  BY <1>1, <1>2, <1>3, <1>4, <1>5, <1>6, <1>7, <1>8, <1>9, <1>10, <1>11, <1>12 DEF Handler

\* The lifespan and delivery variables.
LifespanTypeOK == phase \in [Instances -> Phase] /\ shutdown \in [Instances -> Shutdown]

DeliveryTypeOK ==
    /\ sending \in [Instances -> Sending \cup {None}]
    /\ live \in [Sockets -> SUBSET Notifications]

\* A snapshot only shrinks; a user it names goes through the clean-up.
LEMMA ShutdownTypes ==
    ASSUME shutdown \in [Instances -> Shutdown], NEW i \in Instances, NEW u \in Users
    PROVE  /\ NoShutdown \in Shutdown
           /\ [close |-> connected_user_ids(i), clear |-> connected_user_ids(i),
               offline |-> None] \in Shutdown
           /\ [shutdown EXCEPT ![i].close = @ \ {u}] \in [Instances -> Shutdown]
           /\ [shutdown EXCEPT ![i].clear = @ \ {u}, ![i].offline = u] \in [Instances -> Shutdown]
           /\ [shutdown EXCEPT ![i].offline = None] \in [Instances -> Shutdown]
BY DEF Shutdown, NoShutdown, connected_user_ids

\* The steps of the lifespan keep every type.
LEMMA LifespanTypes ==
    ASSUME TypeOK, NEW i \in Instances, Lifespan(i)
    PROVE  GatewayTypeOK' /\ LifespanTypeOK' /\ DeliveryTypeOK'
<1>0. GatewayTypeOK /\ LifespanTypeOK /\ DeliveryTypeOK /\ UNCHANGED <<who, inst>>
  BY SocketsFixed DEF TypeOK, LifespanTypeOK, DeliveryTypeOK, Next
<1>a. UNCHANGED <<handlerVars, presence, connections>> => GatewayTypeOK'
  BY <1>0 DEF handlerVars, GatewayTypeOK, PresenceTypeOK, ConnectionsTypeOK
<1>b. UNCHANGED deliveryVars => DeliveryTypeOK'
  BY <1>0 DEF deliveryVars, DeliveryTypeOK
<1> USE DEF LifespanTypeOK, Phase
<1>1. CASE StartSubscriber(i)
  BY <1>0, <1>1, <1>a, <1>b DEF StartSubscriber, gatewayVars
<1>2. CASE StartLiveness(i)
  BY <1>0, <1>2, <1>a, <1>b DEF StartLiveness
<1>3. CASE RefreshLiveness(i)
  BY <1>0, <1>3, <1>a, <1>b DEF RefreshLiveness, lifespanVars
<1>4. CASE BeginShutdown(i)
  <2>1. [close |-> connected_user_ids(i), clear |-> connected_user_ids(i), offline |-> None]
          \in Shutdown
    BY DEF Shutdown, connected_user_ids
  <2> QED BY <1>0, <1>4, <1>a, <1>b, <2>1 DEF BeginShutdown, gatewayVars
<1>5. ASSUME NEW u \in Users, CloseConnection(i, u)
      PROVE  GatewayTypeOK' /\ LifespanTypeOK' /\ DeliveryTypeOK'
  <2>1. GatewayTypeOK'
    BY <1>0, <1>5 DEF CloseConnection, remove, handlerVars, GatewayTypeOK, PresenceTypeOK,
       ConnectionsTypeOK
  <2> QED BY <1>0, <1>5, <1>b, <2>1, ShutdownTypes DEF CloseConnection
<1>6. ASSUME NEW u \in Users, UnregisterClosed(i, u)
      PROVE  GatewayTypeOK' /\ LifespanTypeOK' /\ DeliveryTypeOK'
  BY <1>0, <1>6, <1>a, <1>b, ShutdownTypes DEF UnregisterClosed
<1>7. CASE MarkOfflineClosed(i)
  <2>1. shutdown[i].offline \in Users
    BY <1>0, <1>7 DEF MarkOfflineClosed, Shutdown
  <2>2. GatewayTypeOK'
    BY <1>0, <1>7, <2>1 DEF MarkOfflineClosed, mark_offline, handlerVars, GatewayTypeOK,
       PresenceTypeOK, PresenceStatus, ConnectionsTypeOK
  <2> QED BY <1>0, <1>7, <1>b, <2>1, <2>2, ShutdownTypes DEF MarkOfflineClosed
<1>8. CASE StopSubscriber(i)
  <2>1. DeliveryTypeOK'
    BY <1>0, <1>8 DEF StopSubscriber, DeliveryTypeOK
  <2> QED BY <1>0, <1>8, <1>a, <2>1 DEF StopSubscriber, gatewayVars
<1>9. CASE Exit(i)
  <2>1. GatewayTypeOK'
    BY <1>0, <1>9 DEF Exit, GatewayTypeOK, HandlerPc, PresenceTypeOK, ConnectionsTypeOK
  <2>2. LifespanTypeOK' /\ DeliveryTypeOK'
    <3>1. NoShutdown \in Shutdown
      BY DEF NoShutdown, Shutdown
    <3> QED BY <1>0, <1>9, <3>1 DEF Exit, DeliveryTypeOK
  <2> QED BY <2>1, <2>2
<1>10. CASE ShutdownFails(i)
  <2>1. NoShutdown \in Shutdown
    BY DEF NoShutdown, Shutdown
  <2> QED BY <1>0, <1>10, <1>a, <1>b, <2>1 DEF ShutdownFails, gatewayVars
<1> QED
  BY <1>1, <1>2, <1>3, <1>4, <1>5, <1>6, <1>7, <1>8, <1>9, <1>10 DEF Lifespan, Stopped, Crash

\* So do the subscriber tasks: a message taken becomes a send to a socket.
LEMMA DeliverTypes ==
    ASSUME TypeOK, NEW i \in Instances, Deliver(i) \/ SubscriberDies(i)
    PROVE  GatewayTypeOK' /\ LifespanTypeOK' /\ DeliveryTypeOK'
<1>0. GatewayTypeOK /\ LifespanTypeOK /\ DeliveryTypeOK /\ PubSubTypeOK
  BY DEF TypeOK, LifespanTypeOK, DeliveryTypeOK, ApiTypeOK
<1>a. UNCHANGED gatewayVars => GatewayTypeOK'
  BY <1>0 DEF gatewayVars, handlerVars, GatewayTypeOK, PresenceTypeOK, ConnectionsTypeOK
<1>b. UNCHANGED lifespanVars => LifespanTypeOK'
  BY <1>0 DEF lifespanVars, LifespanTypeOK
<1>1. CASE TakeMessage(i)
  <2>1. Head(chan[i]) \in Message
    BY <1>0, <1>1 DEF TakeMessage, next_message, PubSubTypeOK
  <2> DEFINE m == Head(chan[i])
             s == get(i, m.user_id)
  <2>2. s \in Sockets \cup {None} /\ m.user_id \in Users /\ m.notification \in Notifications
    BY <1>0, <2>1 DEF Message, get, GatewayTypeOK, ConnectionsTypeOK
  <2>3. s # None => [socket |-> s, user_id |-> m.user_id, notification |-> m.notification] \in Sending
    BY <2>2 DEF Sending
  <2>4. DeliveryTypeOK'
    BY <1>0, <1>1, <2>3 DEF TakeMessage, DeliveryTypeOK
  <2> QED BY <1>1, <1>a, <1>b, <2>4 DEF TakeMessage
<1>2. CASE SendCompletes(i)
  <2>1. sending[i].socket \in Sockets /\ sending[i].notification \in Notifications
    BY <1>0, <1>2 DEF SendCompletes, DeliveryTypeOK, Sending
  <2>2. DeliveryTypeOK'
    BY <1>0, <1>2, <2>1 DEF SendCompletes, DeliveryTypeOK
  <2> QED BY <1>2, <1>a, <1>b, <2>2 DEF SendCompletes
<1>3. CASE SendFails(i)
  <2>1. sending[i].user_id \in Users
    BY <1>0, <1>3 DEF SendFails, DeliveryTypeOK, Sending
  <2>2. GatewayTypeOK'
    BY <1>0, <1>3, <2>1 DEF SendFails, remove, handlerVars, GatewayTypeOK, PresenceTypeOK,
       ConnectionsTypeOK
  <2>3. DeliveryTypeOK'
    BY <1>0, <1>3 DEF SendFails, DeliveryTypeOK
  <2> QED BY <1>3, <1>b, <2>2, <2>3 DEF SendFails
<1>4. CASE SubscriberDies(i)
  BY <1>0, <1>4, <1>a, <1>b DEF SubscriberDies, deliveryVars, DeliveryTypeOK
<1> QED
  BY <1>1, <1>2, <1>3, <1>4 DEF Deliver

LEMMA PlatformTypeStep ==
    ASSUME TypeOK, [Next]_vars
    PROVE  TypeOK'
<1>0. /\ GatewayTypeOK /\ LifespanTypeOK /\ DeliveryTypeOK
      /\ intact \in SUBSET Sockets /\ leftOut \in [Sockets -> SUBSET Notifications]
  BY DEF TypeOK, LifespanTypeOK, DeliveryTypeOK
<1>1. ApiTypeOK'
  BY <1>0, ApiStepOrNone, ApiTypeStep DEF TypeOK
<1>2. intact' \in SUBSET Sockets /\ leftOut' \in [Sockets -> SUBSET Notifications]
  <2>1. CASE Observe
    BY <1>0, <2>1 DEF Observe, Unread
  <2> QED BY <1>0, <2>1 DEF Next, vars, Handler, Request, KeyExpires, Lifespan, Deliver, GatewayFrame,
     ApiFrame, RegistryFrame
<1>3. GatewayTypeOK' /\ LifespanTypeOK' /\ DeliveryTypeOK'
  <2>a. UNCHANGED <<handlerVars, presence, connections>> => GatewayTypeOK'
    BY <1>0 DEF handlerVars, GatewayTypeOK, PresenceTypeOK, ConnectionsTypeOK
  <2>b. UNCHANGED <<lifespanVars, deliveryVars>> => LifespanTypeOK' /\ DeliveryTypeOK'
    BY <1>0 DEF lifespanVars, deliveryVars, LifespanTypeOK, DeliveryTypeOK
  <2>1. ASSUME NEW s \in Sockets, Handler(s)
        PROVE  GatewayTypeOK' /\ LifespanTypeOK' /\ DeliveryTypeOK'
    BY <2>1, <2>b, HandlerTypes DEF Handler, GatewayFrame
  <2>2. ASSUME NEW r \in Requests, Request(r)
        PROVE  GatewayTypeOK' /\ LifespanTypeOK' /\ DeliveryTypeOK'
    BY <2>2, <2>a, <2>b DEF Request, ApiFrame
  <2>3. CASE KeyExpires
    <3>1. ASSUME NEW u \in Users, ExpirePresence(u),
                 UNCHANGED <<handlerVars, registryVars, repositoryVars, connections>>
          PROVE  GatewayTypeOK'
      BY <1>0, <3>1 DEF ExpirePresence, mark_offline, handlerVars, GatewayTypeOK, PresenceTypeOK,
         PresenceStatus, ConnectionsTypeOK
    <3> QED BY <2>3, <2>a, <2>b, <3>1 DEF KeyExpires, GatewayFrame, ApiFrame, RegistryFrame
  <2>4. CASE UNCHANGED vars
    BY <2>4, <2>a, <2>b DEF vars, gatewayVars
  <2> QED BY <2>1, <2>2, <2>3, <2>4, LifespanTypes, DeliverTypes DEF Next
<1> QED
  BY <1>1, <1>2, <1>3 DEF TypeOK, LifespanTypeOK, DeliveryTypeOK

LEMMA PlatformTypeInit == Init => TypeOK
<1> SUFFICES ASSUME Init PROVE TypeOK
  OBVIOUS
<1>1. ApiTypeOK
  BY ApiTypeInit DEF Init
<1>2. GatewayTypeOK
  BY DEF Init, GatewayInit, PresenceInit, ConnectionsInit, GatewayTypeOK, HandlerPc,
     PresenceTypeOK, PresenceStatus, ConnectionsTypeOK
<1>3. NoShutdown \in Shutdown
  BY DEF NoShutdown, Shutdown
<1> QED
  BY <1>1, <1>2, <1>3 DEF Init, TypeOK, Phase

\* Every variable of the platform, the locals of handlers, requests, shutdowns and
\* sends included, holds only values the code can put there.
THEOREM PlatformTypeCorrect == Spec => []TypeOK
  BY PlatformTypeInit, PlatformTypeStep, PTL DEF Spec

-----------------------------------------------------------------------------
\* The platform implements NotificationApi: whatever gateways, subscribers and
\* processes do, an endpoint sees only moves its own specification allows.
THEOREM PlatformImplementsApi == Spec => PlatformRefinesApi
<1>1. Init => ApiInit
  BY DEF Init
<1>2. TypeOK /\ [Next]_vars => [ApiNext]_apiVars
  BY ApiStepOrNone DEF TypeOK
<1> QED
  BY <1>1, <1>2, PlatformTypeCorrect, PTL DEF Spec, ApiSpec, PlatformRefinesApi

\* So what is proved of the endpoint alone holds of it in the platform.
THEOREM PlatformKeepsApiInv == Spec => []ApiInv
  BY PlatformImplementsApi, ApiInvariant, PTL DEF PlatformRefinesApi

-----------------------------------------------------------------------------
\* A stored row keeps its user.
LEMMA RowsKeepUsers ==
    ASSUME TypeOK, [Next]_vars, NEW n \in Notifications, Persisted(n)
    PROVE  user_id'[n] = user_id[n]
<1>1. [ApiNext]_apiVars /\ ApiTypeOK /\ RepositoryTypeOK
  BY ApiStepOrNone DEF TypeOK, ApiTypeOK
<1>2. ASSUME NEW r \in Requests, Create(r) PROVE user_id'[n] = user_id[n]
  <2>1. nid(r) \in Notifications /\ target(r) \in Users
    BY <1>1 DEF ApiTypeOK, Body, nid, target
  <2> QED BY <1>1, <1>2, <2>1, CreateEffect DEF Create
<1>3. CASE UNCHANGED user_id
  BY <1>3
<1> QED
  BY <1>1, <1>2, <1>3, OthersEffect
     DEF ApiNext, ApiStep, Handle, AllowRequest, HasSeen, MarkSeen, Lookup, IsAlive, Publish,
         MarkDeliveredLive, mark_delivered_live, Respond, CallFails, storeVars, repositoryVars

\* A dict entry stays, goes, or is the socket that connects.
LEMMA DictMoves ==
    ASSUME TypeOK, [Next]_vars, NEW i \in Instances, NEW u \in Users
    PROVE  \/ get(i, u)' = get(i, u) \/ get(i, u)' = None
           \/ \E s \in Sockets : Connect(s) /\ inst[s] = i /\ who[s] = u /\ get(i, u)' = s
<1>0. /\ connections \in [Instances -> [Users -> Sockets \cup {None}]]
      /\ \A s \in Sockets : who[s] \in Users /\ inst[s] \in Instances
  BY DEF TypeOK, GatewayTypeOK, ConnectionsTypeOK
<1>1. UNCHANGED connections => get(i, u)' = get(i, u)
  BY DEF get
<1>2. ASSUME NEW j \in Instances, NEW v \in Users, remove(j, v)
      PROVE  get(i, u)' = get(i, u) \/ get(i, u)' = None
  BY <1>0, <1>2 DEF remove, get
<1>3. ASSUME NEW s \in Sockets, Handler(s)
      PROVE  \/ get(i, u)' = get(i, u) \/ get(i, u)' = None
             \/ Connect(s) /\ inst[s] = i /\ who[s] = u /\ get(i, u)' = s
  <2>1. CASE Connect(s)
    BY <1>0, <2>1 DEF Connect, add, get
  <2>2. CASE Leave(s)
    BY <1>0, <1>2, <2>2 DEF Leave
  <2> QED
    BY <1>1, <1>3, <2>1, <2>2 DEF Handler, Reject, Register, MarkOnline, GetBacklog, SendBacklog,
       PresenceUpdate, ReadReceipt, Unregister, MarkOffline, HandlerFails
<1>4. ASSUME NEW j \in Instances, Lifespan(j)
      PROVE  get(i, u)' = get(i, u) \/ get(i, u)' = None
  <2>1. CASE \E v \in Users : CloseConnection(j, v)
    BY <1>2, <2>1 DEF CloseConnection
  <2>2. CASE Exit(j)
    BY <1>0, <2>2 DEF Exit, get
  <2> QED
    BY <1>1, <1>4, <2>1, <2>2 DEF Lifespan, StartSubscriber, StartLiveness, RefreshLiveness,
       BeginShutdown, UnregisterClosed, MarkOfflineClosed, StopSubscriber, ShutdownFails, Stopped,
       Crash, gatewayVars
<1>5. ASSUME NEW j \in Instances, Deliver(j) \/ SubscriberDies(j)
      PROVE  get(i, u)' = get(i, u) \/ get(i, u)' = None
  <2>1. CASE SendFails(j)
    <3>1. sending[j].user_id \in Users
      BY <2>1 DEF SendFails, TypeOK, Sending
    <3> QED BY <1>2, <2>1, <3>1 DEF SendFails
  <2> QED
    BY <1>1, <1>5, <2>1 DEF Deliver, TakeMessage, SendCompletes, SubscriberDies, gatewayVars
<1> QED
  BY <1>1, <1>3, <1>4, <1>5 DEF Next, vars, gatewayVars, Request, ApiFrame, KeyExpires, RegistryFrame

\* Only a PUBLISH, the subscriber task and the lifespan move messages.
Lost(i) ==
    /\ subscribed' = subscribed \ {i} \/ phase[i] = "down"
    /\ chan' = [chan EXCEPT ![i] = << >>]
    /\ sending' = sending \/ sending' = [sending EXCEPT ![i] = None]
    /\ live' = live

LEMMA DeliveryMoves ==
    ASSUME [Next]_vars
    PROVE  \/ UNCHANGED <<chan, sending, live>>
           \/ \E r \in Requests : Publish(r) /\ ApiFrame
           \/ \E i \in Instances : Lost(i) \/ TakeMessage(i) \/ SendCompletes(i) \/ SendFails(i)
<1> USE DEF pubsubVars, deliveryVars
<1>1. ASSUME NEW s \in Sockets, Handler(s) PROVE UNCHANGED <<chan, sending, live>>
  BY <1>1 DEF Handler, GatewayFrame
<1>2. ASSUME NEW r \in Requests, Request(r)
      PROVE  UNCHANGED <<chan, sending, live>> \/ (Publish(r) /\ ApiFrame)
  BY <1>2 DEF Request, ApiFrame, AllowRequest, Handle, HasSeen, Create, MarkSeen, Lookup, IsAlive,
     MarkDeliveredLive, Respond, CallFails, storeVars
<1>3. ASSUME NEW i \in Instances, Lifespan(i)
      PROVE  UNCHANGED <<chan, sending, live>> \/ Lost(i)
  <2>1. CASE StartSubscriber(i) \/ StopSubscriber(i) \/ Exit(i)
    BY <2>1 DEF StartSubscriber, StopSubscriber, Exit, subscribe, unsubscribe, Lost
  <2> QED
    BY <1>3, <2>1 DEF Lifespan, StartLiveness, RefreshLiveness, BeginShutdown, CloseConnection,
       UnregisterClosed, MarkOfflineClosed, ShutdownFails, Stopped, Crash
<1>4. ASSUME NEW i \in Instances, SubscriberDies(i) PROVE Lost(i)
  BY <1>4 DEF SubscriberDies, unsubscribe, Lost
<1> QED
  BY <1>1, <1>2, <1>3, <1>4
     DEF Next, vars, Deliver, KeyExpires, GatewayFrame, ApiFrame, RegistryFrame
=============================================================================
