-------------------------- MODULE NotificationApi ---------------------------
(***************************************************************************)
(* app/api/routes/notifications.py: POST /notifications.  A request is cut *)
(* at every await; between two of its steps any other request, connection  *)
(* handler or instance may run.  pc names the call a request waits for.    *)
(* A call can fail before or after its effect (Redis or PostgreSQL error,  *)
(* answer lost, serving process killed): the request then ends in          *)
(* "failed", the caller sees an error, and may retry the same              *)
(* notification_id, here as another request.                               *)
(***************************************************************************)
EXTENDS InstanceRegistry, PubSub, Repository, IdempotencyGuard

CONSTANT Requests       \* the POSTs, retries and duplicates included

VARIABLES pc,            \* [Requests -> ApiPc]
          body,          \* [Requests -> the notification_id and user_id posted]
          inserted,      \* [Requests -> BOOLEAN]: repository.create returned a row
          owner,         \* [Requests -> owning_instance]
          published      \* history: the requests whose PUBLISH took effect

requestVars == <<pc, body, inserted, owner, published>>
storeVars == <<registryVars, pubsubVars, repositoryVars, seen>>
apiVars == <<requestVars, storeVars>>

ApiPc == {"idle", "rejected", "has_seen", "create", "mark_seen", "lookup", "is_alive",
          "publish", "mark_delivered_live", "respond", "done", "failed"}

Body == [notification_id : Notifications, user_id : Users]

ApiTypeOK ==
    /\ pc \in [Requests -> ApiPc]
    /\ body \in [Requests -> Body]
    /\ inserted \in [Requests -> BOOLEAN]
    /\ owner \in [Requests -> Instances \cup {None}]
    /\ published \in SUBSET Requests
    /\ RegistryTypeOK /\ PubSubTypeOK /\ RepositoryTypeOK /\ GuardTypeOK

RequestInit ==
    /\ pc = [r \in Requests |-> "idle"]
    /\ body \in [Requests -> Body]
    /\ inserted = [r \in Requests |-> FALSE]
    /\ owner = [r \in Requests |-> None]
    /\ published = {}

ApiInit ==
    /\ RequestInit
    /\ RegistryInit /\ PubSubInit /\ RepositoryInit /\ GuardInit

nid(r) == body[r].notification_id
target(r) == body[r].user_id

-----------------------------------------------------------------------------
\* The call request r waits for has taken effect: r goes on to the next one, or
\* the answer is lost and r ends in an exception.
Step(r, call, next) ==
    /\ pc[r] = call
    /\ \/ pc' = [pc EXCEPT ![r] = next]
       \/ CallsMayFail /\ pc' = [pc EXCEPT ![r] = "failed"]
    /\ UNCHANGED body

Answered(r) == pc[r] = "done"

\* The request arrives and asks the API rate limiter, which may deny it (429).
AllowRequest(r) ==
    /\ \E next \in {"has_seen", "rejected"} : Step(r, "idle", next)
    /\ UNCHANGED <<inserted, owner, published, storeVars>>

HasSeen(r) ==
    /\ Step(r, "has_seen", IF has_seen(nid(r)) THEN "respond" ELSE "create")
    /\ UNCHANGED <<inserted, owner, published, storeVars>>

Create_IgnoringConflict(r) ==
    /\ Step(r, "create", "mark_seen") /\ create(nid(r), target(r))
    /\ inserted' = [inserted EXCEPT ![r] = TRUE]
    /\ UNCHANGED <<owner, published, registryVars, pubsubVars, seen>>

Create_MarkingFirst(r) ==
    /\ Step(r, "create", "mark_seen") /\ mark_seen(nid(r))
    /\ create(nid(r), target(r)) \/ UNCHANGED repositoryVars
    /\ inserted' = [inserted EXCEPT ![r] = ~Persisted(nid(r))]
    /\ UNCHANGED <<owner, published, registryVars, pubsubVars>>

Create(r) ==
    /\ Step(r, "create", "mark_seen") /\ create(nid(r), target(r))
    /\ inserted' = [inserted EXCEPT ![r] = ~Persisted(nid(r))]
    /\ UNCHANGED <<owner, published, registryVars, pubsubVars, seen>>

\* A conflict (row is None) answers persisted=False right after mark_seen.
MarkSeen(r) ==
    /\ Step(r, "mark_seen", IF inserted[r] THEN "lookup" ELSE "respond")
    /\ mark_seen(nid(r))
    /\ UNCHANGED <<inserted, owner, published, registryVars, pubsubVars, repositoryVars>>

Lookup(r) ==
    /\ Step(r, "lookup", IF lookup(target(r)) = None THEN "respond" ELSE "is_alive")
    /\ owner' = [owner EXCEPT ![r] = lookup(target(r))]
    /\ UNCHANGED <<inserted, published, storeVars>>

IsAlive_KeepsOwner(r) ==
    /\ Step(r, "is_alive", IF is_alive(owner[r]) THEN "publish" ELSE "respond")
    /\ UNCHANGED <<inserted, owner, published, storeVars>>

IsAlive_Inverted(r) ==
    /\ Step(r, "is_alive", IF is_alive(owner[r]) THEN "respond" ELSE "publish")
    /\ owner' = [owner EXCEPT ![r] = IF is_alive(@) THEN None ELSE @]
    /\ UNCHANGED <<inserted, published, storeVars>>

\* An owner without a liveness key is treated as offline.
IsAlive(r) ==
    /\ Step(r, "is_alive", IF is_alive(owner[r]) THEN "publish" ELSE "respond")
    /\ owner' = [owner EXCEPT ![r] = IF is_alive(@) THEN @ ELSE None]
    /\ UNCHANGED <<inserted, published, storeVars>>

Publish(r) ==
    /\ Step(r, "publish", "mark_delivered_live")
    /\ publish_to_instance(owner[r], [user_id |-> target(r), notification |-> nid(r)])
    /\ published' = published \cup {r}
    /\ UNCHANGED <<inserted, owner, registryVars, repositoryVars, seen>>

MarkDeliveredLive(r) ==
    /\ Step(r, "mark_delivered_live", "respond") /\ mark_delivered_live(nid(r))
    /\ UNCHANGED <<inserted, owner, published, registryVars, pubsubVars, seen>>

\* persisted = inserted[r], delivered_live = (owner[r] # None).
Respond(r) ==
    /\ Step(r, "respond", "done")
    /\ UNCHANGED <<inserted, owner, published, storeVars>>

\* The call the request waits for fails without effect.
CallFails(r) ==
    /\ CallsMayFail
    /\ pc[r] \notin {"rejected", "done", "failed"}
    /\ pc' = [pc EXCEPT ![r] = "failed"]
    /\ UNCHANGED <<body, inserted, owner, published, storeVars>>

Handle(r) ==
    \/ HasSeen(r) \/ Create(r) \/ MarkSeen(r) \/ Lookup(r) \/ IsAlive(r)
    \/ Publish(r) \/ MarkDeliveredLive(r) \/ Respond(r)

ApiStep == \E r \in Requests : AllowRequest(r) \/ Handle(r) \/ CallFails(r)

-----------------------------------------------------------------------------
\* The rest of the system as a request sees it: connections come and go, keys
\* lapse, subscribers drain their channels, clients read.
DedupExpires ==
    /\ \E n \in Notifications : ExpireSeen(n)
    /\ UNCHANGED <<requestVars, registryVars, pubsubVars, repositoryVars>>

RegistryMoves ==
    /\ RegistryNext
    /\ UNCHANGED <<requestVars, pubsubVars, repositoryVars, seen>>

SubscribersMove ==
    /\ PubSubNext
    /\ UNCHANGED <<requestVars, registryVars, repositoryVars, seen>>

ReadersMove ==
    /\ ReadNext
    /\ UNCHANGED <<requestVars, registryVars, pubsubVars, seen>>

ApiNext == ApiStep \/ DedupExpires \/ RegistryMoves \/ SubscribersMove \/ ReadersMove

ApiSpec == ApiInit /\ [][ApiNext]_apiVars

-----------------------------------------------------------------------------
\* The dedup key of an id exists only once its row does: a retry of a request
\* that failed before the commit is never answered "duplicate" from Redis
\* (the order create, mark_seen of lines 37-43).
SeenImpliesPersisted == \A n \in Notifications : has_seen(n) => Persisted(n)

\* Whatever a caller is answered, the row exists; and a caller told
\* persisted=True finds it under its own user_id, also when two callers race
\* with the same notification_id and different users.
AnsweredImpliesPersisted ==
    \A r \in Requests :
        /\ Answered(r) => Persisted(nid(r))
        /\ Answered(r) /\ inserted[r] => user_id[nid(r)] = target(r)

\* Of all the requests with one notification_id, racing or retried, with the
\* dedup key present or expired, one at most inserts and one at most publishes.
InsertedAndPublishedOnce ==
    \A r1, r2 \in Requests :
        nid(r1) = nid(r2) /\ r1 # r2 => /\ ~(inserted[r1] /\ inserted[r2])
                                        /\ ~(r1 \in published /\ r2 \in published)

\* A queued message names a stored row and the user that row belongs to: what
\* subscribers deliver can always be found again in the backlog of that user.
QueuedMessagesMatchRows ==
    \A i \in Instances : \A k \in DOMAIN chan[i] :
        user_id[chan[i][k].notification] = chan[i][k].user_id

\* The delivered_live of a 200 answer agrees with the column of the row, and the
\* column is set only for what was published.
DeliveredLiveIsTruthful ==
    /\ \A r \in Requests :
        Answered(r) /\ inserted[r] => (owner[r] # None <=> nid(r) \in delivered_live)
    /\ \A n \in delivered_live : \E r \in published : nid(r) = n

\* The inductive invariant behind the properties above: what the control point
\* of a request says about the tables, and who may be behind a flag.
AtPc(r, S) == pc[r] \in S

InsertedRows == \A r \in Requests : inserted[r] => user_id[nid(r)] = target(r)

OneInserter ==
    \A r1, r2 \in Requests : inserted[r1] /\ inserted[r2] /\ nid(r1) = nid(r2) => r1 = r2

PcMeaning ==
    \A r \in Requests :
        /\ AtPc(r, {"idle", "rejected", "has_seen", "create"}) => ~inserted[r]
        /\ AtPc(r, {"mark_seen", "respond", "done"}) => Persisted(nid(r))
        /\ AtPc(r, {"lookup", "is_alive", "publish", "mark_delivered_live"}) => inserted[r]
        /\ AtPc(r, {"is_alive", "publish", "mark_delivered_live"}) => owner[r] # None

PublishMeaning ==
    \A r \in Requests :
        /\ r \in published =>
             inserted[r] /\ AtPc(r, {"mark_delivered_live", "respond", "done", "failed"})
        /\ AtPc(r, {"mark_delivered_live"}) => r \in published
        /\ AtPc(r, {"respond", "done"}) /\ inserted[r] =>
             /\ r \in published <=> owner[r] # None
             /\ r \in published <=> nid(r) \in delivered_live

FlagMeaning ==
    \A n \in delivered_live :
        \E r \in published : nid(r) = n /\ AtPc(r, {"respond", "done", "failed"})

ApiInv ==
    /\ ApiTypeOK /\ SeenImpliesPersisted /\ InsertedRows /\ OneInserter
    /\ PcMeaning /\ PublishMeaning /\ FlagMeaning /\ QueuedMessagesMatchRows

ledgerStatus ==
    [n \in Notifications |->
        IF ~Persisted(n) THEN "absent"
        ELSE IF n \in delivered_live THEN "flagged"
        ELSE IF \E r \in published : nid(r) = n THEN "published" ELSE "stored"]

ledgerClaimed ==
    {n \in Notifications : \E r \in Requests : nid(r) = n /\ Answered(r) /\ inserted[r]}

ledgerRefused ==
    {n \in Notifications : \E r \in Requests : nid(r) = n /\ Answered(r) /\ ~inserted[r]}

Ledger == INSTANCE NotificationLedger
    WITH status <- ledgerStatus, claimed <- ledgerClaimed, refused <- ledgerRefused

\* The endpoint implements the ledger, whatever the other parts do meanwhile.
ImplementsLedger == Ledger!Spec
=============================================================================
