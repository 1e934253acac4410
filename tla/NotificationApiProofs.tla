----------------------- MODULE NotificationApiProofs ------------------------
(***************************************************************************)
(* Proofs about NotificationApi, for any sets of users, instances, ids and *)
(* requests: its type invariant, the safety invariants TLC checks on small *)
(* instances, and that the endpoint implements NotificationLedger.         *)
(***************************************************************************)
EXTENDS NotificationApi, TLAPS

\* The notification a request is about never changes.
LEMMA BodyFixed ==
    ASSUME ApiTypeOK, ApiNext
    PROVE  /\ body' = body
           /\ \A r \in Requests : /\ nid(r) \in Notifications /\ target(r) \in Users
                                  /\ nid(r)' = nid(r) /\ target(r)' = target(r)
<1>1. body' = body
  BY DEF ApiNext, ApiStep, AllowRequest, Handle, HasSeen, Create, MarkSeen, Lookup, IsAlive,
         Publish, MarkDeliveredLive, Respond, CallFails, DedupExpires, RegistryMoves,
         Step, SubscribersMove, ReadersMove, requestVars
<1>2. \A r \in Requests : nid(r) \in Notifications /\ target(r) \in Users
  BY DEF ApiTypeOK, Body, nid, target
<1> QED
  BY <1>1, <1>2 DEF nid, target

-----------------------------------------------------------------------------
\* Each operation of the components keeps the component's type.
LEMMA RegistryTyped ==
    ASSUME RegistryTypeOK, [RegistryNext]_registryVars
    PROVE  RegistryTypeOK'
<1>1. ASSUME NEW u \in Users, NEW i \in Instances, register(u, i) PROVE RegistryTypeOK'
  BY <1>1 DEF register, RegistryTypeOK
<1>2. ASSUME NEW u \in Users, unregister(u) PROVE RegistryTypeOK'
  BY <1>2 DEF unregister, RegistryTypeOK
<1>3. ASSUME NEW i \in Instances, mark_alive(i) PROVE RegistryTypeOK'
  BY <1>3 DEF mark_alive, RegistryTypeOK
<1>4. ASSUME NEW i \in Instances, ExpireLiveness(i) PROVE RegistryTypeOK'
  BY <1>4 DEF ExpireLiveness, RegistryTypeOK
<1>5. CASE UNCHANGED registryVars
  BY <1>5 DEF registryVars, RegistryTypeOK
<1> QED
  BY <1>1, <1>2, <1>3, <1>4, <1>5 DEF RegistryNext

LEMMA PublishTyped ==
    ASSUME PubSubTypeOK, NEW i \in Instances \cup {None}, NEW m \in Message,
           publish_to_instance(i, m)
    PROVE  PubSubTypeOK'
<1>1. i \in Instances => Append(chan[i], m) \in Seq(Message)
  BY DEF PubSubTypeOK
<1>2. i \in subscribed => i \in Instances
  BY DomainAssumption DEF PubSubTypeOK
<1> QED
  BY <1>1, <1>2 DEF publish_to_instance, PubSubTypeOK

LEMMA PubSubTyped ==
    ASSUME PubSubTypeOK, [PubSubNext]_pubsubVars
    PROVE  PubSubTypeOK'
<1>1. << >> \in Seq(Message)
  OBVIOUS
<1>2. ASSUME NEW i \in Instances, subscribe(i) \/ unsubscribe(i) PROVE PubSubTypeOK'
  BY <1>1, <1>2 DEF subscribe, unsubscribe, PubSubTypeOK
<1>3. ASSUME NEW i \in Instances, next_message(i) PROVE PubSubTypeOK'
  <2>1. Tail(chan[i]) \in Seq(Message)
    BY <1>3 DEF next_message, PubSubTypeOK
  <2> QED
    BY <1>3, <2>1 DEF next_message, PubSubTypeOK
<1>4. CASE UNCHANGED pubsubVars
  BY <1>4 DEF pubsubVars, PubSubTypeOK
<1> QED
  BY <1>2, <1>3, <1>4 DEF PubSubNext

LEMMA RepositoryTyped ==
    ASSUME RepositoryTypeOK, NEW n \in Notifications, NEW u \in Users,
           create(n, u) \/ mark_delivered_live(n) \/ mark_read(n, u)
    PROVE  RepositoryTypeOK'
<1>1. CASE create(n, u)
  BY <1>1 DEF create, RepositoryTypeOK
<1>2. CASE mark_delivered_live(n)
  BY <1>2 DEF mark_delivered_live, RepositoryTypeOK
<1>3. CASE mark_read(n, u)
  <2>1. read_receipts[n] + 1 \in 0 .. MaxReceipts
    BY <1>3, RepositoryAssumption DEF mark_read, RepositoryTypeOK
  <2> QED
    BY <1>3, <2>1 DEF mark_read, RepositoryTypeOK
<1> QED
  BY <1>1, <1>2, <1>3

\* Every variable keeps its type.
LEMMA ApiTypeStep ==
    ASSUME ApiTypeOK, [ApiNext]_apiVars
    PROVE  ApiTypeOK'
<1> USE DEF ApiTypeOK
<1>1. ASSUME NEW r \in Requests,
             AllowRequest(r) \/ HasSeen(r) \/ Lookup(r) \/ IsAlive(r) \/ Respond(r) \/ CallFails(r)
      PROVE  ApiTypeOK'
  <2>1. pc' \in [Requests -> ApiPc]
    BY <1>1 DEF AllowRequest, HasSeen, Lookup, IsAlive, Respond, CallFails, Step, storeVars, ApiPc
  <2>2. owner' \in [Requests -> Instances \cup {None}]
    <3>1. lookup(target(r)) \in Instances \cup {None}
      BY DEF lookup, target, Body, RegistryTypeOK
    <3> QED
      BY <1>1, <3>1 DEF AllowRequest, HasSeen, Lookup, IsAlive, Respond, CallFails
  <2>3. UNCHANGED <<body, inserted, published, registryVars, pubsubVars, repositoryVars, seen>>
    BY <1>1 DEF AllowRequest, HasSeen, Lookup, IsAlive, Respond, CallFails, storeVars, Step
  <2> QED
    BY <2>1, <2>2, <2>3 DEF registryVars, pubsubVars, repositoryVars, RegistryTypeOK,
       PubSubTypeOK, RepositoryTypeOK, GuardTypeOK
<1>2. ASSUME NEW r \in Requests, Create(r) PROVE ApiTypeOK'
  <2>1. /\ pc' \in [Requests -> ApiPc]
        /\ inserted' \in [Requests -> BOOLEAN]
    BY <1>2 DEF Create, Step, storeVars, ApiPc, Persisted
  <2>2. RepositoryTypeOK'
    BY <1>2, RepositoryTyped DEF Create, nid, target, Body
  <2> QED
    BY <1>2, <2>1, <2>2 DEF Create, Step, registryVars, pubsubVars, RegistryTypeOK, PubSubTypeOK,
       GuardTypeOK
<1>3. ASSUME NEW r \in Requests, MarkSeen(r) PROVE ApiTypeOK'
  <2>1. /\ pc' \in [Requests -> ApiPc]
        /\ GuardTypeOK'
    BY <1>3 DEF MarkSeen, Step, storeVars, ApiPc, mark_seen, GuardTypeOK, nid, Body
  <2> QED
    BY <1>3, <2>1 DEF MarkSeen, Step, registryVars, pubsubVars, repositoryVars, RegistryTypeOK,
       PubSubTypeOK, RepositoryTypeOK
<1>4. ASSUME NEW r \in Requests, Publish(r) PROVE ApiTypeOK'
  <2>1. /\ pc' \in [Requests -> ApiPc]
        /\ published' \in SUBSET Requests
    BY <1>4 DEF Publish, Step, storeVars, ApiPc
  <2>2. [user_id |-> target(r), notification |-> nid(r)] \in Message
    BY DEF Message, nid, target, Body
  <2>3. PubSubTypeOK'
    BY <1>4, <2>2, PublishTyped DEF Publish
  <2> QED
    BY <1>4, <2>1, <2>3 DEF Publish, Step, registryVars, repositoryVars, RegistryTypeOK,
       RepositoryTypeOK, GuardTypeOK
<1>5. ASSUME NEW r \in Requests, MarkDeliveredLive(r) PROVE ApiTypeOK'
  <2>1. pc' \in [Requests -> ApiPc]
    BY <1>5 DEF MarkDeliveredLive, Step, storeVars, ApiPc
  <2>2. RepositoryTypeOK'
    BY <1>5, RepositoryTyped DEF MarkDeliveredLive, nid, target, Body
  <2> QED
    BY <1>5, <2>1, <2>2 DEF MarkDeliveredLive, Step, registryVars, pubsubVars, RegistryTypeOK,
       PubSubTypeOK, GuardTypeOK
<1>6. CASE DedupExpires
  <2>1. GuardTypeOK'
    BY <1>6 DEF DedupExpires, ExpireSeen, GuardTypeOK
  <2> QED
    BY <1>6, <2>1 DEF DedupExpires, requestVars, registryVars, pubsubVars, repositoryVars,
       RegistryTypeOK, PubSubTypeOK, RepositoryTypeOK
<1>7. CASE RegistryMoves
  BY <1>7, RegistryTyped DEF RegistryMoves, requestVars, pubsubVars, repositoryVars,
     PubSubTypeOK, RepositoryTypeOK, GuardTypeOK
<1>8. CASE SubscribersMove
  BY <1>8, PubSubTyped DEF SubscribersMove, requestVars, registryVars, repositoryVars,
     RegistryTypeOK, RepositoryTypeOK, GuardTypeOK
<1>9. CASE ReadersMove
  BY <1>9, RepositoryTyped DEF ReadersMove, ReadNext, requestVars, registryVars, pubsubVars,
     RegistryTypeOK, PubSubTypeOK, GuardTypeOK
<1>10. CASE UNCHANGED apiVars
  BY <1>10 DEF apiVars, storeVars, requestVars, registryVars, pubsubVars, repositoryVars,
     RegistryTypeOK, PubSubTypeOK, RepositoryTypeOK, GuardTypeOK
<1> QED
  BY <1>1, <1>2, <1>3, <1>4, <1>5, <1>6, <1>7, <1>8, <1>9, <1>10
     DEF ApiNext, ApiStep, Handle

LEMMA ApiTypeInit == ApiInit => ApiTypeOK
<1> SUFFICES ASSUME ApiInit PROVE ApiTypeOK
  OBVIOUS
<1>1. RegistryTypeOK /\ PubSubTypeOK /\ GuardTypeOK
  BY DEF ApiInit, RegistryInit, RegistryTypeOK, PubSubInit, PubSubTypeOK, GuardInit,
     GuardTypeOK
<1>2. RepositoryTypeOK
  <2>1. (CHOOSE t \in Times : TRUE) \in Times
    BY RepositoryAssumption
  <2>2. 0 \in 0 .. MaxReceipts
    BY RepositoryAssumption
  <2> QED
    BY <2>1, <2>2 DEF ApiInit, RepositoryInit, RepositoryTypeOK
<1> QED
  BY <1>1, <1>2 DEF ApiInit, RequestInit, ApiTypeOK, ApiPc

\* pc, body, owner, the tables and the channels always hold values the code can
\* put there.
THEOREM ApiTypeCorrect == ApiSpec => []ApiTypeOK
  BY ApiTypeInit, ApiTypeStep, PTL DEF ApiSpec
-----------------------------------------------------------------------------
\* What an insert does to the table, seen from any row.
LEMMA CreateEffect ==
    ASSUME RepositoryTypeOK, NEW n \in Notifications, NEW u \in Users, create(n, u)
    PROVE  /\ \A m \in Notifications : Persisted(m) => user_id'[m] = user_id[m]
           /\ ~Persisted(n) => user_id'[n] = u
           /\ \A m \in Notifications : Persisted(m) => Persisted(m)'
           /\ Persisted(n)'
           /\ delivered_live' = delivered_live
  BY DomainAssumption DEF create, Persisted, RepositoryTypeOK

\* The moves of the rest of the world leave the requests, the flags and the
\* owners of the rows alone, and the dedup keys only disappear.
LEMMA OthersEffect ==
    ASSUME DedupExpires \/ RegistryMoves \/ SubscribersMove \/ ReadersMove \/ UNCHANGED apiVars
    PROVE  UNCHANGED <<requestVars, user_id, delivered_live>> /\ seen' \subseteq seen
<1>1. CASE DedupExpires
  BY <1>1 DEF DedupExpires, ExpireSeen, repositoryVars
<1>2. CASE RegistryMoves \/ SubscribersMove \/ UNCHANGED apiVars
  BY <1>2 DEF RegistryMoves, SubscribersMove, apiVars, storeVars, repositoryVars
<1>3. CASE ReadersMove
  BY <1>3 DEF ReadersMove, ReadNext, mark_read
<1> QED
  BY <1>1, <1>2, <1>3

\* Queued messages keep naming stored rows: only Publish adds one, for a row its
\* request inserted, and no step changes the user of a stored row.
LEMMA QueueStep ==
    ASSUME ApiInv, [ApiNext]_apiVars
    PROVE  QueuedMessagesMatchRows'
<1> USE DEF ApiInv
<1> PubSubTypeOK /\ RepositoryTypeOK
  BY DEF ApiTypeOK
<1> SUFFICES ASSUME NEW i \in Instances, NEW k \in DOMAIN chan'[i]
             PROVE  user_id'[chan'[i][k].notification] = chan'[i][k].user_id
  BY DEF QueuedMessagesMatchRows
<1> DEFINE Stored(m) == m \in Message /\ user_id[m.notification] = m.user_id
<1>1. \A j \in DOMAIN chan[i] : Stored(chan[i][j])
  BY DEF QueuedMessagesMatchRows, PubSubTypeOK
<1>2. \A m \in Message : Stored(m) => user_id'[m.notification] = m.user_id
  <2>1. CASE \E r \in Requests : Create(r)
    <3>1. PICK r \in Requests : Create(r)
      BY <2>1
    <3>2. \A m \in Notifications : Persisted(m) => user_id'[m] = user_id[m]
      BY <3>1, CreateEffect DEF Create, nid, target, Body, ApiTypeOK
    <3> QED
      BY <3>2, DomainAssumption DEF Message, Persisted
  <2>2. CASE UNCHANGED user_id
    BY <2>2
  <2> QED
    BY <2>1, <2>2, OthersEffect
       DEF ApiNext, ApiStep, Handle, AllowRequest, HasSeen, MarkSeen, Lookup, IsAlive, Publish,
           MarkDeliveredLive, mark_delivered_live, Respond, CallFails, storeVars,
       repositoryVars
<1>3. Stored(chan'[i][k])
  <2>1. CASE \E r \in Requests : Publish(r)
    <3>1. PICK r \in Requests : Publish(r)
      BY <2>1
    <3>2. Stored([user_id |-> target(r), notification |-> nid(r)])
      BY <3>1 DEF Publish, Step, PcMeaning, AtPc, InsertedRows, Message, nid, target, Body,
         ApiTypeOK
    <3>3. CASE i \in subscribed /\ i = owner[r]
      <4>1. chan'[i] = Append(chan[i], [user_id |-> target(r), notification |-> nid(r)])
        BY <3>1, <3>3 DEF Publish, publish_to_instance, PubSubTypeOK
      <4> QED
        BY <1>1, <3>2, <4>1 DEF PubSubTypeOK
    <3>4. CASE chan'[i] = chan[i]
      BY <1>1, <3>4
    <3> QED
      BY <3>1, <3>3, <3>4 DEF Publish, publish_to_instance, PubSubTypeOK
  <2>2. CASE SubscribersMove
    <3>1. CASE chan'[i] = << >>
      BY <3>1
    <3>2. CASE chan'[i] = chan[i]
      BY <1>1, <3>2
    <3>3. CASE chan[i] # << >> /\ chan'[i] = Tail(chan[i])
      <4>1. k + 1 \in DOMAIN chan[i] /\ chan'[i][k] = chan[i][k + 1]
        BY <3>3 DEF PubSubTypeOK
      <4> QED
        BY <1>1, <4>1
    <3> QED
      BY <2>2, <3>1, <3>2, <3>3
         DEF SubscribersMove, PubSubNext, subscribe, unsubscribe, next_message, PubSubTypeOK
  <2>3. CASE UNCHANGED chan
    BY <1>1, <2>3
  <2> QED
    BY <2>1, <2>2, <2>3
       DEF ApiNext, ApiStep, Handle, AllowRequest, HasSeen, Create, MarkSeen, Lookup, IsAlive,
           MarkDeliveredLive, Respond, CallFails, DedupExpires, RegistryMoves, ReadersMove,
           apiVars, storeVars, pubsubVars
<1> QED
  BY <1>2, <1>3
\* The invariant is inductive, one step per action of the endpoint.
LEMMA ApiInvStep ==
    ASSUME ApiInv, [ApiNext]_apiVars
    PROVE  ApiInv'
<1> USE DEF ApiInv
<1> DEFINE Rest == /\ SeenImpliesPersisted /\ InsertedRows /\ OneInserter
                   /\ PcMeaning /\ PublishMeaning /\ FlagMeaning
<1>1. ApiTypeOK' /\ QueuedMessagesMatchRows'
  BY ApiTypeStep, QueueStep
<1>2. SUFFICES Rest'
  BY <1>1
<1>3. CASE DedupExpires \/ RegistryMoves \/ SubscribersMove \/ ReadersMove \/ UNCHANGED apiVars
  <2>1. UNCHANGED <<requestVars, user_id, delivered_live>> /\ seen' \subseteq seen
    BY <1>3, OthersEffect
  <2> QED
    BY <2>1 DEF requestVars, SeenImpliesPersisted, has_seen, Persisted, InsertedRows, OneInserter,
       PcMeaning, PublishMeaning, FlagMeaning, AtPc, nid, target
<1> SUFFICES ASSUME NEW r \in Requests, AllowRequest(r) \/ Handle(r) \/ CallFails(r)
             PROVE  Rest'
  BY <1>3 DEF ApiNext, ApiStep
<1>4. /\ body' = body
      /\ \A q \in Requests : /\ nid(q) \in Notifications /\ target(q) \in Users
                             /\ nid(q)' = nid(q) /\ target(q)' = target(q)
  BY BodyFixed DEF ApiNext, ApiStep
<1>5. CASE AllowRequest(r) \/ HasSeen(r) \/ Lookup(r) \/ IsAlive(r) \/ Respond(r) \/ CallFails(r)
  <2>1. UNCHANGED <<inserted, published, user_id, delivered_live, seen>>
    BY <1>5 DEF AllowRequest, HasSeen, Lookup, IsAlive, Respond, CallFails, storeVars,
       repositoryVars
  <2>2. \A q \in Requests \ {r} : pc'[q] = pc[q] /\ owner'[q] = owner[q]
    BY <1>5 DEF AllowRequest, HasSeen, Lookup, IsAlive, Respond, CallFails, Step, storeVars,
       ApiTypeOK
  <2>3. SeenImpliesPersisted' /\ InsertedRows' /\ OneInserter'
    BY <1>4, <2>1 DEF SeenImpliesPersisted, has_seen, Persisted, InsertedRows, OneInserter
  <2>4. PcMeaning'
    <3>1. \A q \in Requests : inserted[q] => Persisted(nid(q))
      BY <1>4, DomainAssumption DEF InsertedRows, Persisted
    <3>2. \A q \in Requests : Persisted(nid(q))' = Persisted(nid(q))
      BY <1>4, <2>1 DEF Persisted
    <3> QED
      BY <1>4, <1>5, <2>1, <2>2, <3>1, <3>2
         DEF AllowRequest, HasSeen, Lookup, IsAlive, Respond, CallFails, Step, storeVars, ApiTypeOK,
             PcMeaning, AtPc, SeenImpliesPersisted, has_seen
  <2>5. PublishMeaning'
    BY <1>4, <1>5, <2>1, <2>2
       DEF AllowRequest, HasSeen, Lookup, IsAlive, Respond, CallFails, Step, storeVars, ApiTypeOK,
           PcMeaning, PublishMeaning, FlagMeaning, OneInserter, AtPc
  <2>6. FlagMeaning'
    BY <1>4, <1>5, <2>1, <2>2
       DEF AllowRequest, HasSeen, Lookup, IsAlive, Respond, CallFails, Step, storeVars, ApiTypeOK,
           FlagMeaning, AtPc
  <2> QED
    BY <2>3, <2>4, <2>5, <2>6
<1>6. CASE Create(r)
  <2>1. /\ \A m \in Notifications : Persisted(m) => user_id'[m] = user_id[m]
        /\ ~Persisted(nid(r)) => user_id'[nid(r)] = target(r)
        /\ \A m \in Notifications : Persisted(m) => Persisted(m)'
        /\ Persisted(nid(r))'
        /\ delivered_live' = delivered_live
    BY <1>4, <1>6, CreateEffect DEF Create, ApiTypeOK
  <2>2. /\ \A q \in Requests \ {r} : pc'[q] = pc[q] /\ inserted'[q] = inserted[q]
        /\ pc[r] = "create" /\ pc'[r] \in {"mark_seen", "failed"}
        /\ inserted'[r] <=> ~Persisted(nid(r))
        /\ UNCHANGED <<owner, published, seen>>
    BY <1>6 DEF Create, Step, storeVars, ApiTypeOK, Persisted
  <2>3. \A q \in Requests : inserted[q] => Persisted(nid(q))
    BY <1>4, DomainAssumption DEF InsertedRows, Persisted
  <2>4. SeenImpliesPersisted' /\ InsertedRows' /\ OneInserter'
    BY <1>4, <2>1, <2>2, <2>3
       DEF SeenImpliesPersisted, has_seen, InsertedRows, OneInserter, PcMeaning, AtPc
  <2>5. PcMeaning'
    BY <1>4, <2>1, <2>2 DEF PcMeaning, AtPc
  <2>6. PublishMeaning' /\ FlagMeaning'
    BY <1>4, <2>1, <2>2 DEF PublishMeaning, PcMeaning, FlagMeaning, AtPc, ApiTypeOK
  <2> QED
    BY <2>4, <2>5, <2>6
<1>7. CASE MarkSeen(r)
  <2>1. /\ \A q \in Requests \ {r} : pc'[q] = pc[q]
        /\ pc[r] = "mark_seen"
        /\ pc'[r] \in {IF inserted[r] THEN "lookup" ELSE "respond", "failed"}
        /\ seen' = seen \cup {nid(r)}
        /\ UNCHANGED <<inserted, owner, published, user_id, delivered_live>>
    BY <1>7 DEF MarkSeen, mark_seen, Step, storeVars, ApiTypeOK, repositoryVars
  <2>2. SeenImpliesPersisted' /\ InsertedRows' /\ OneInserter'
    BY <1>4, <2>1 DEF SeenImpliesPersisted, has_seen, Persisted, InsertedRows, OneInserter,
       PcMeaning, AtPc
  <2>3. PcMeaning' /\ PublishMeaning' /\ FlagMeaning'
    BY <1>4, <2>1 DEF PcMeaning, PublishMeaning, FlagMeaning, AtPc, Persisted, ApiTypeOK
  <2> QED
    BY <2>2, <2>3
<1>8. CASE Publish(r)
  <2>1. /\ \A q \in Requests \ {r} : pc'[q] = pc[q]
        /\ pc[r] = "publish" /\ pc'[r] \in {"mark_delivered_live", "failed"}
        /\ published' = published \cup {r}
        /\ UNCHANGED <<inserted, owner, user_id, delivered_live, seen>>
    BY <1>8 DEF Publish, Step, storeVars, ApiTypeOK, repositoryVars
  <2>2. SeenImpliesPersisted' /\ InsertedRows' /\ OneInserter'
    BY <1>4, <2>1 DEF SeenImpliesPersisted, has_seen, Persisted, InsertedRows, OneInserter
  <2>3. PcMeaning' /\ PublishMeaning' /\ FlagMeaning'
    BY <1>4, <2>1 DEF PcMeaning, PublishMeaning, FlagMeaning, AtPc, Persisted, ApiTypeOK
  <2> QED
    BY <2>2, <2>3
<1>9. CASE MarkDeliveredLive(r)
  <2>1. /\ \A q \in Requests \ {r} : pc'[q] = pc[q]
        /\ pc[r] = "mark_delivered_live" /\ pc'[r] \in {"respond", "failed"}
        /\ delivered_live' = delivered_live \cup {nid(r)}
        /\ UNCHANGED <<inserted, owner, published, user_id, seen>>
    BY <1>9 DEF MarkDeliveredLive, mark_delivered_live, Step, storeVars, ApiTypeOK
  <2>2. SeenImpliesPersisted' /\ InsertedRows' /\ OneInserter'
    BY <1>4, <2>1 DEF SeenImpliesPersisted, has_seen, Persisted, InsertedRows, OneInserter
  <2>3. PcMeaning'
    BY <1>4, <2>1, DomainAssumption DEF PcMeaning, AtPc, Persisted, InsertedRows
  <2>4. PublishMeaning'
    BY <1>4, <2>1 DEF PcMeaning, PublishMeaning, OneInserter, AtPc
  <2>5. FlagMeaning'
    BY <1>4, <2>1 DEF PublishMeaning, FlagMeaning, AtPc, ApiTypeOK
  <2> QED
    BY <2>2, <2>3, <2>4, <2>5
<1> QED
  BY <1>5, <1>6, <1>7, <1>8, <1>9 DEF Handle

LEMMA ApiInvInit == ApiInit => ApiInv
  BY ApiTypeInit DEF ApiInit, RequestInit, RepositoryInit, GuardInit, PubSubInit, ApiInv,
     SeenImpliesPersisted, has_seen, InsertedRows, OneInserter, PcMeaning, PublishMeaning,
     FlagMeaning, QueuedMessagesMatchRows, AtPc

\* The inductive invariant holds in every reachable state.
THEOREM ApiInvariant == ApiSpec => []ApiInv
  BY ApiInvInit, ApiInvStep, PTL DEF ApiSpec

\* The dedup key of an id is present only when its row is.
THEOREM SeenOnlyAfterCommit == ApiSpec => []SeenImpliesPersisted
<1>1. ApiInv => SeenImpliesPersisted
  BY DEF ApiInv
<1> QED
  BY <1>1, ApiInvariant, PTL

\* Any answer means the row exists; persisted=True means under the caller's user.
THEOREM AnswersAreDurable == ApiSpec => []AnsweredImpliesPersisted
<1>1. ApiInv => AnsweredImpliesPersisted
  BY DEF ApiInv, AnsweredImpliesPersisted, Answered, PcMeaning, InsertedRows, AtPc
<1> QED
  BY <1>1, ApiInvariant, PTL

\* One request per notification_id inserts and one at most publishes.
THEOREM OncePerNotification == ApiSpec => []InsertedAndPublishedOnce
<1>1. ApiInv => InsertedAndPublishedOnce
  BY DEF ApiInv, InsertedAndPublishedOnce, OneInserter, PublishMeaning
<1> QED
  BY <1>1, ApiInvariant, PTL

\* What waits in a channel names a stored row and that row's user.
THEOREM QueuesMatchRows == ApiSpec => []QueuedMessagesMatchRows
<1>1. ApiInv => QueuedMessagesMatchRows
  BY DEF ApiInv
<1> QED
  BY <1>1, ApiInvariant, PTL

\* The delivered_live answered is the one stored, and stored only if published.
THEOREM FlagsAreTruthful == ApiSpec => []DeliveredLiveIsTruthful
<1>1. ApiInv => DeliveredLiveIsTruthful
  BY DEF ApiInv, DeliveredLiveIsTruthful, Answered, PublishMeaning, FlagMeaning, AtPc
<1> QED
  BY <1>1, ApiInvariant, PTL
-----------------------------------------------------------------------------
\* What the invariant says about the ledger entry of the notification of a
\* request that inserted it: no other request is behind its status or its claim.
LEMMA InserterOwnsEntry ==
    ASSUME ApiInv, NEW r \in Requests, inserted[r]
    PROVE  /\ Persisted(nid(r))
           /\ (\E q \in published : nid(q) = nid(r)) <=> r \in published
           /\ nid(r) \in ledgerClaimed <=> Answered(r)
           /\ nid(r) \in delivered_live => r \in published /\ AtPc(r, {"respond", "done", "failed"})
<1> USE DEF ApiInv
<1>1. nid(r) \in Notifications /\ target(r) \in Users
  BY DEF ApiTypeOK, Body, nid, target
<1>2. Persisted(nid(r))
  BY <1>1, DomainAssumption DEF InsertedRows, Persisted
<1>3. \A q \in Requests : inserted[q] /\ nid(q) = nid(r) => q = r
  BY DEF OneInserter
<1>4. published \subseteq Requests
  BY DEF ApiTypeOK
<1>5. (\E q \in published : nid(q) = nid(r)) <=> r \in published
  BY <1>3, <1>4 DEF PublishMeaning
<1>6. nid(r) \in ledgerClaimed <=> Answered(r)
  BY <1>1, <1>3 DEF ledgerClaimed
<1>7. nid(r) \in delivered_live => r \in published /\ AtPc(r, {"respond", "done", "failed"})
  BY <1>3, <1>4 DEF FlagMeaning, PublishMeaning
<1> QED
  BY <1>2, <1>5, <1>6, <1>7

\* A step of the endpoint is a step of the ledger or leaves it unchanged.
LEMMA LedgerStep ==
    ASSUME ApiInv, ApiInv', [ApiNext]_apiVars
    PROVE  [Ledger!Next]_(Ledger!vars)
<1> DEFINE Same == UNCHANGED <<ledgerStatus, ledgerClaimed, ledgerRefused>>
<1> SUFFICES Same \/ \E n \in Notifications :
                        \/ Ledger!Store(n) \/ Ledger!Publish(n) \/ Ledger!Flag(n)
                        \/ Ledger!Claim(n) \/ Ledger!Refuse(n)
  BY DEF Ledger!Next, Ledger!vars
<1>1. CASE DedupExpires \/ RegistryMoves \/ SubscribersMove \/ ReadersMove \/ UNCHANGED apiVars
  <2>1. UNCHANGED <<requestVars, user_id, delivered_live>>
    BY <1>1, OthersEffect
  <2> QED
    BY <2>1 DEF requestVars, ledgerStatus, ledgerClaimed, ledgerRefused, Persisted, Answered, nid
<1> SUFFICES ASSUME NEW r \in Requests, AllowRequest(r) \/ Handle(r) \/ CallFails(r)
             PROVE  Same \/ \E n \in Notifications :
                               \/ Ledger!Store(n) \/ Ledger!Publish(n) \/ Ledger!Flag(n)
                               \/ Ledger!Claim(n) \/ Ledger!Refuse(n)
  BY <1>1 DEF ApiNext, ApiStep
<1>2. ApiTypeOK /\ published \subseteq Requests
  BY DEF ApiInv, ApiTypeOK
<1>3. /\ body' = body
      /\ \A q \in Requests : nid(q) \in Notifications /\ nid(q)' = nid(q)
  BY <1>2, BodyFixed DEF ApiNext, ApiStep
<1> DEFINE n == nid(r)
<1>4. CASE AllowRequest(r) \/ HasSeen(r) \/ MarkSeen(r) \/ Lookup(r) \/ IsAlive(r) \/ CallFails(r)
  <2>1. UNCHANGED <<inserted, published, user_id, delivered_live>>
    BY <1>4 DEF AllowRequest, HasSeen, MarkSeen, Lookup, IsAlive, CallFails, storeVars,
       repositoryVars
  <2>2. \A q \in Requests : Answered(q)' <=> Answered(q)
    BY <1>2, <1>4 DEF AllowRequest, HasSeen, MarkSeen, Lookup, IsAlive, CallFails, Step, storeVars,
       Answered, ApiTypeOK
  <2> QED
    BY <1>2, <1>3, <2>1, <2>2 DEF ledgerStatus, ledgerClaimed, ledgerRefused, Persisted
<1>5. CASE Create(r)
  <2>1. /\ \A q \in Requests : Answered(q)' <=> Answered(q)
        /\ \A q \in Requests : Answered(q) => inserted'[q] = inserted[q]
        /\ UNCHANGED <<published, delivered_live>>
    BY <1>2, <1>5 DEF Create, create, Step, storeVars, Answered, ApiTypeOK
  <2>2. UNCHANGED <<ledgerClaimed, ledgerRefused>>
    BY <1>3, <2>1 DEF ledgerClaimed, ledgerRefused
  <2>3. CASE Persisted(n)
    <3>1. UNCHANGED user_id
      BY <1>5, <2>3 DEF Create, create
    <3> QED
      BY <1>2, <1>3, <2>1, <2>2, <3>1 DEF ledgerStatus, Persisted
  <2>4. CASE ~Persisted(n)
    <3>1. \A m \in Notifications : Persisted(m)' <=> Persisted(m) \/ m = n
      BY <1>2, <1>3, <1>5, <2>4, DomainAssumption
         DEF Create, create, Persisted, ApiTypeOK, RepositoryTypeOK, Body, target
    <3>2. \A q \in published : nid(q) # n
      BY <1>2, <2>4, InserterOwnsEntry DEF ApiInv, PublishMeaning
    <3>3. n \notin delivered_live
      BY <3>2 DEF ApiInv, FlagMeaning
    <3>4. ledgerStatus[n] = "absent" /\ ledgerStatus' = [ledgerStatus EXCEPT ![n] = "stored"]
      BY <1>2, <1>3, <2>1, <2>4, <3>1, <3>2, <3>3 DEF ledgerStatus
    <3> QED
      BY <1>3, <2>2, <3>4 DEF Ledger!Store, Ledger!Move
  <2> QED
    BY <2>3, <2>4
<1>6. CASE Publish(r)
  <2>1. /\ inserted[r] /\ ~Answered(r) /\ r \notin published /\ n \notin delivered_live
        /\ Persisted(n) /\ n \notin ledgerClaimed
    BY <1>6, InserterOwnsEntry DEF Publish, Step, ApiInv, PcMeaning, PublishMeaning, AtPc, Answered
  <2>2. /\ \A q \in Requests : Answered(q)' <=> Answered(q)
        /\ published' = published \cup {r}
        /\ UNCHANGED <<inserted, user_id, delivered_live>>
    BY <1>2, <1>6 DEF Publish, Step, storeVars, Answered, ApiTypeOK, repositoryVars
  <2>3. UNCHANGED <<ledgerClaimed, ledgerRefused>>
    BY <1>3, <2>2 DEF ledgerClaimed, ledgerRefused
  <2>4. \A q \in published : nid(q) # n
    BY <2>1, InserterOwnsEntry
  <2>5. ledgerStatus[n] = "stored" /\ ledgerStatus' = [ledgerStatus EXCEPT ![n] = "published"]
    BY <1>2, <1>3, <2>1, <2>2, <2>4 DEF ledgerStatus, Persisted
  <2> QED
    BY <1>3, <2>1, <2>3, <2>5 DEF Ledger!Publish, Ledger!Move
<1>7. CASE MarkDeliveredLive(r)
  <2>1. /\ inserted[r] /\ ~Answered(r) /\ r \in published /\ n \notin delivered_live
        /\ Persisted(n) /\ n \notin ledgerClaimed
    BY <1>7, InserterOwnsEntry
       DEF MarkDeliveredLive, Step, ApiInv, PcMeaning, PublishMeaning, AtPc, Answered
  <2>2. /\ \A q \in Requests : Answered(q)' <=> Answered(q)
        /\ delivered_live' = delivered_live \cup {n}
        /\ UNCHANGED <<inserted, published, user_id>>
    BY <1>2, <1>7 DEF MarkDeliveredLive, mark_delivered_live, Step, storeVars, Answered, ApiTypeOK
  <2>3. UNCHANGED <<ledgerClaimed, ledgerRefused>>
    BY <1>3, <2>2 DEF ledgerClaimed, ledgerRefused
  <2>4. ledgerStatus[n] = "published" /\ ledgerStatus' = [ledgerStatus EXCEPT ![n] = "flagged"]
    BY <1>2, <1>3, <2>1, <2>2 DEF ledgerStatus, Persisted
  <2> QED
    BY <1>3, <2>1, <2>3, <2>4 DEF Ledger!Flag, Ledger!Move
<1>8. CASE Respond(r)
  <2>a. pc[r] = "respond" /\ UNCHANGED <<inserted, published, user_id, delivered_live>>
    BY <1>8 DEF Respond, Step, storeVars, repositoryVars
  <2>b. CASE \A q \in Requests : Answered(q)' <=> Answered(q)
    BY <1>2, <1>3, <2>a, <2>b DEF ledgerStatus, ledgerClaimed, ledgerRefused, Persisted
  <2> SUFFICES ASSUME \A q \in Requests : Answered(q)' <=> Answered(q) \/ q = r
               PROVE  Same \/ Ledger!Claim(n) \/ Ledger!Refuse(n)
    BY <1>2, <1>3, <1>8, <2>b DEF Respond, Step, Answered, ApiTypeOK
  <2>1. /\ \A q \in Requests : Answered(q)' <=> Answered(q) \/ q = r
        /\ ~Answered(r) /\ Persisted(n)
        /\ UNCHANGED <<inserted, published, user_id, delivered_live>>
    BY <2>a DEF Answered, ApiInv, PcMeaning, AtPc
  <2>2. UNCHANGED ledgerStatus
    BY <1>2, <1>3, <2>1 DEF ledgerStatus, Persisted
  <2>3. CASE inserted[r]
    <3>1. n \notin ledgerClaimed /\ ledgerStatus[n] \in {"stored", "flagged"}
      BY <1>3, <2>a, <2>1, <2>3, InserterOwnsEntry
         DEF ledgerStatus, ApiInv, PublishMeaning, AtPc
    <3>2. ledgerClaimed' = ledgerClaimed \cup {n} /\ UNCHANGED ledgerRefused
      BY <1>3, <2>1, <2>3 DEF ledgerClaimed, ledgerRefused
    <3> QED
      BY <1>3, <2>2, <3>1, <3>2 DEF Ledger!Claim
  <2>4. CASE ~inserted[r]
    <3>1. ledgerStatus[n] # "absent"
      BY <1>3, <2>1 DEF ledgerStatus
    <3>2. ledgerRefused' = ledgerRefused \cup {n} /\ UNCHANGED ledgerClaimed
      BY <1>3, <2>1, <2>4 DEF ledgerClaimed, ledgerRefused
    <3> QED
      BY <1>3, <2>2, <3>1, <3>2 DEF Ledger!Refuse
  <2> QED
    BY <2>3, <2>4
<1> QED
  BY <1>4, <1>5, <1>6, <1>7, <1>8 DEF Handle

\* POST /notifications implements the ledger.
THEOREM EndpointImplementsLedger == ApiSpec => ImplementsLedger
<1>1. ApiInit => Ledger!Init
  BY DEF ApiInit, RequestInit, RepositoryInit, Ledger!Init, ledgerStatus, ledgerClaimed,
     ledgerRefused, Persisted, Answered
<1> QED
  BY <1>1, ApiInvariant, LedgerStep, PTL DEF ApiSpec, ImplementsLedger, Ledger!Spec
=============================================================================
