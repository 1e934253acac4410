------------------------------ MODULE Platform ------------------------------
(***************************************************************************)
(* The whole system: gateway instances as app/main.py starts and stops     *)
(* them, their subscriber tasks delivering to local sockets, the WebSocket *)
(* handlers (Gateway) and the notification requests (NotificationApi),     *)
(* over one Redis and one PostgreSQL.                                      *)
(***************************************************************************)
EXTENDS Gateway, NotificationApi

CONSTANTS MayCrash,     \* may an instance process die at any moment?
          ServerDrains  \* TRUE: the ASGI server ends the handlers before lifespan
                        \* shutdown (uvicorn); FALSE: it need not

ASSUME PlatformAssumption == MayCrash \in BOOLEAN /\ ServerDrains \in BOOLEAN

VARIABLES phase,        \* [Instances -> Phase], progress of the lifespan
          shutdown,     \* [Instances -> the local variables of the shutdown]
          sending,      \* [Instances -> the send _listen waits for, or None]
          live,         \* [Sockets -> the notifications sent live on it]
          intact,       \* history: sockets routable without a break, see Observe
          leftOut       \* history: [Sockets -> unread rows cut from its backlog]

lifespanVars == <<phase, shutdown>>
deliveryVars == <<sending, live>>
vars == <<gatewayVars, requestVars, pubsubVars, seen, lifespanVars, deliveryVars, intact,
          leftOut>>

Phase == {"down", "booting", "up", "closing", "stopping", "aborted"}

Shutdown == [close : SUBSET Users, clear : SUBSET Users, offline : Users \cup {None}]

NoShutdown == [close |-> {}, clear |-> {}, offline |-> None]

Sending == [socket : Sockets, user_id : Users, notification : Notifications]

ASSUME SendingAssumption == None \notin Sending

TypeOK ==
    /\ ApiTypeOK /\ GatewayTypeOK
    /\ phase \in [Instances -> Phase]
    /\ shutdown \in [Instances -> Shutdown]
    /\ sending \in [Instances -> Sending \cup {None}]
    /\ live \in [Sockets -> SUBSET Notifications]
    /\ intact \in SUBSET Sockets
    /\ leftOut \in [Sockets -> SUBSET Notifications]

Init ==
    /\ ApiInit /\ GatewayInit
    /\ phase = [i \in Instances |-> "down"]
    /\ shutdown = [i \in Instances |-> NoShutdown]
    /\ sending = [i \in Instances |-> None]
    /\ live = [s \in Sockets |-> {}]
    /\ intact = {}
    /\ leftOut = [s \in Sockets |-> {}]

-----------------------------------------------------------------------------
\* A publisher that looks up the user of s now reaches s (the user id of the
\* ticket and that of the request body are spelled alike, see Domain).
Routed(s) ==
    /\ hpc[s] \in {"mark_online", "get_backlog", "send_backlog", "receive"}
    /\ registry[who[s]] = inst[s]
    /\ inst[s] \in alive \cap subscribed
    /\ get(inst[s], who[s]) = s

\* Bookkeeping for the properties: s is intact while it has been routed without
\* a break, counting from any moment between its registration and its query;
\* leftOut is what a backlog query that returned BacklogLimit rows did not return.
Observe ==
    /\ intact' = {s \in Sockets :
                    /\ Routed(s)'
                    /\ s \in intact \/ hpc[s] \in {"register", "mark_online", "get_backlog"}}
    /\ leftOut' = [s \in Sockets |->
                     IF /\ hpc[s] = "get_backlog" /\ hpc'[s] = "send_backlog"
                        /\ Cardinality(backlog'[s]) >= BacklogLimit
                     THEN Unread(who[s]) \ backlog'[s] ELSE leftOut[s]]

-----------------------------------------------------------------------------
\* Lifespan start-up: subscribe first, then advertise the instance.  (subscribe()
\* returns once SUBSCRIBE is sent; Redis is taken to have handled it before it
\* handles what the instance sends next.)
StartSubscriber(i) ==
    /\ phase[i] = "down"
    /\ subscribe(i)
    /\ phase' = [phase EXCEPT ![i] = "booting"]
    /\ UNCHANGED <<gatewayVars, requestVars, seen, shutdown, deliveryVars>>

StartLiveness(i) ==
    /\ phase[i] = "booting"
    /\ mark_alive(i)
    /\ phase' = [phase EXCEPT ![i] = "up"]
    /\ UNCHANGED <<handlerVars, repositoryVars, presence, connections,
                   requestVars, pubsubVars, seen, shutdown, deliveryVars>>

\* One round of InstanceLivenessLoop._run; a round that raises is only logged.
RefreshLiveness(i) ==
    /\ phase[i] \in {"up", "closing", "aborted"}
    /\ mark_alive(i)
    /\ UNCHANGED <<handlerVars, repositoryVars, presence, connections,
                   requestVars, pubsubVars, seen, lifespanVars, deliveryVars>>

\* The server stops accepting and lifespan shutdown begins with the snapshot
\* of the connected users that close_all works through.  A draining server has
\* first seen every handler to its end.
BeginShutdown(i) ==
    /\ phase[i] = "up"
    /\ ServerDrains => \A s \in Sockets : inst[s] = i => Finished(s)
    /\ phase' = [phase EXCEPT ![i] = "closing"]
    /\ shutdown' = [shutdown EXCEPT ![i] = [close |-> connected_user_ids(i),
                                            clear |-> connected_user_ids(i),
                                            offline |-> None]]
    /\ UNCHANGED <<gatewayVars, requestVars, pubsubVars, seen, deliveryVars>>

CloseConnection(i, u) ==
    /\ phase[i] = "closing"
    /\ u \in shutdown[i].close
    /\ remove(i, u)
    /\ shutdown' = [shutdown EXCEPT ![i].close = @ \ {u}]
    /\ UNCHANGED <<handlerVars, registryVars, repositoryVars, presence,
                   requestVars, pubsubVars, seen, phase, deliveryVars>>

UnregisterClosed(i, u) ==
    /\ phase[i] = "closing"
    /\ shutdown[i].close = {} /\ shutdown[i].offline = None
    /\ u \in shutdown[i].clear
    /\ unregister(u)
    /\ shutdown' = [shutdown EXCEPT ![i].clear = @ \ {u}, ![i].offline = u]
    /\ UNCHANGED <<handlerVars, repositoryVars, presence, connections,
                   requestVars, pubsubVars, seen, phase, deliveryVars>>

MarkOfflineClosed(i) ==
    /\ phase[i] = "closing"
    /\ shutdown[i].offline # None
    /\ mark_offline(shutdown[i].offline)
    /\ shutdown' = [shutdown EXCEPT ![i].offline = None]
    /\ UNCHANGED <<handlerVars, registryVars, repositoryVars, connections,
                   requestVars, pubsubVars, seen, phase, deliveryVars>>

\* liveness_loop.stop (the key is left to its TTL), then subscriber.stop, which
\* cancels a send in progress.
StopSubscriber(i) ==
    /\ phase[i] = "closing"
    /\ shutdown[i] = NoShutdown
    /\ unsubscribe(i)
    /\ sending' = [sending EXCEPT ![i] = None]
    /\ phase' = [phase EXCEPT ![i] = "stopping"]
    /\ UNCHANGED <<gatewayVars, requestVars, seen, shutdown, live>>

\* A call of the shutdown raises, without effect here or after the effect of one
\* of the steps above: the rest of `finally' is skipped and the process ends with
\* its subscription and its liveness loop still running.
ShutdownFails(i) ==
    /\ CallsMayFail
    /\ phase[i] = "closing" /\ shutdown[i].close = {}
    /\ phase' = [phase EXCEPT ![i] = "aborted"]
    /\ shutdown' = [shutdown EXCEPT ![i] = NoShutdown]
    /\ UNCHANGED <<gatewayVars, requestVars, pubsubVars, seen, deliveryVars>>

\* The process ends; with it go its dict, its handlers and its subscription.
Exit(i) ==
    /\ phase' = [phase EXCEPT ![i] = "down"]
    /\ shutdown' = [shutdown EXCEPT ![i] = NoShutdown]
    /\ connections' = [connections EXCEPT ![i] = [u \in Users |-> None]]
    /\ hpc' = [s \in Sockets |->
                 IF inst[s] = i /\ hpc[s] # "new" THEN "closed" ELSE hpc[s]]
    /\ unsubscribe(i)
    /\ sending' = [sending EXCEPT ![i] = None]
    /\ UNCHANGED <<who, inst, backlog, registryVars, repositoryVars, presence,
                   requestVars, seen, live>>

\* Nothing waits for handlers here: without a draining server some may be running.
Stopped(i) ==
    /\ phase[i] \in {"stopping", "aborted"}
    /\ Exit(i)

Crash(i) ==
    /\ MayCrash
    /\ phase[i] # "down"
    /\ Exit(i)

-----------------------------------------------------------------------------
\* Subscriber._listen -> deliver -> ConnectionManager.send_json: the next message
\* is sent to the socket in the dict now, or dropped when there is none.
TakeMessage(i) ==
    /\ sending[i] = None
    /\ next_message(i)
    /\ LET m == Head(chan[i])
           s == get(i, m.user_id)
       IN  sending' = [sending EXCEPT ![i] =
                         IF s = None THEN None
                         ELSE [socket |-> s, user_id |-> m.user_id,
                               notification |-> m.notification]]
    /\ UNCHANGED <<gatewayVars, requestVars, seen, lifespanVars, live>>

SendCompletes(i) ==
    /\ sending[i] # None
    /\ hpc[sending[i].socket] # "closed"
    /\ live' = [live EXCEPT ![sending[i].socket] = @ \cup {sending[i].notification}]
    /\ sending' = [sending EXCEPT ![i] = None]
    /\ UNCHANGED <<gatewayVars, requestVars, pubsubVars, seen, lifespanVars>>

\* The socket is gone: send_json removes whatever the dict now has for the user.
SendFails(i) ==
    /\ sending[i] # None
    /\ remove(i, sending[i].user_id)
    /\ sending' = [sending EXCEPT ![i] = None]
    /\ UNCHANGED <<handlerVars, registryVars, repositoryVars, presence,
                   requestVars, pubsubVars, seen, lifespanVars, live>>

\* The Redis connection of the subscription drops: listen() raises, the task
\* ends, nothing restarts it.
SubscriberDies(i) ==
    /\ CallsMayFail
    /\ phase[i] \in {"booting", "up", "closing", "aborted"}
    /\ i \in subscribed /\ sending[i] = None
    /\ unsubscribe(i)
    /\ UNCHANGED <<gatewayVars, requestVars, seen, lifespanVars, deliveryVars>>

-----------------------------------------------------------------------------
\* The variables the handlers, the requests, the lapsing keys leave alone.
GatewayFrame ==
    UNCHANGED <<requestVars, pubsubVars, seen, lifespanVars, deliveryVars>> /\ Observe

ApiFrame ==
    UNCHANGED <<handlerVars, presence, connections, lifespanVars, deliveryVars>> /\ Observe

RegistryFrame ==
    /\ UNCHANGED <<handlerVars, repositoryVars, presence, connections>>
    /\ GatewayFrame

\* Sockets are accepted while the instance is up.  The handler adds its socket
\* only after two awaits, so without a draining server a socket accepted in time
\* is added while the shutdown is already under way.
Accepting(i) ==
    phase[i] \in {"up"} \cup IF ServerDrains THEN {} ELSE {"closing", "stopping", "aborted"}

Handler(s) ==
    \/ Accepting(inst[s]) /\ Connect(s) /\ GatewayFrame
    \/ Accepting(inst[s]) /\ Reject(s) /\ GatewayFrame
    \/ Register(s) /\ GatewayFrame
    \/ MarkOnline(s) /\ GatewayFrame
    \/ GetBacklog(s) /\ GatewayFrame
    \/ SendBacklog(s) /\ GatewayFrame
    \/ PresenceUpdate(s) /\ GatewayFrame
    \/ ReadReceipt(s) /\ GatewayFrame
    \/ Leave(s) /\ GatewayFrame
    \/ Unregister(s) /\ GatewayFrame
    \/ MarkOffline(s) /\ GatewayFrame
    \/ HandlerFails(s) /\ GatewayFrame

Request(r) ==
    \/ AllowRequest(r) /\ ApiFrame
    \/ Handle(r) /\ ApiFrame
    \/ CallFails(r) /\ ApiFrame

KeyExpires ==
    \/ \E n \in Notifications :
         ExpireSeen(n) /\ UNCHANGED <<requestVars, registryVars, pubsubVars, repositoryVars>>
                       /\ ApiFrame
    \/ \E u \in Users : ExpireEntry(u) /\ RegistryFrame
    \/ \E i \in Instances : ExpireLiveness(i) /\ RegistryFrame
    \/ \E u \in Users : /\ ExpirePresence(u)
                        /\ UNCHANGED <<handlerVars, registryVars, repositoryVars, connections>>
                        /\ GatewayFrame

Lifespan(i) ==
    \/ StartSubscriber(i) /\ Observe
    \/ StartLiveness(i) /\ Observe
    \/ RefreshLiveness(i) /\ Observe
    \/ BeginShutdown(i) /\ Observe
    \/ \E u \in Users : CloseConnection(i, u) /\ Observe
    \/ \E u \in Users : UnregisterClosed(i, u) /\ Observe
    \/ MarkOfflineClosed(i) /\ Observe
    \/ StopSubscriber(i) /\ Observe
    \/ ShutdownFails(i) /\ Observe
    \/ Stopped(i) /\ Observe
    \/ Crash(i) /\ Observe

Deliver(i) ==
    \/ TakeMessage(i) /\ Observe
    \/ SendCompletes(i) /\ Observe
    \/ SendFails(i) /\ Observe

Next ==
    \/ \E s \in Sockets : Handler(s)
    \/ \E r \in Requests : Request(r)
    \/ \E i \in Instances : Lifespan(i)
    \/ \E i \in Instances : Deliver(i)
    \/ \E i \in Instances : SubscriberDies(i) /\ Observe
    \/ KeyExpires

Spec == Init /\ [][Next]_vars

-----------------------------------------------------------------------------
\* A copy of n is on its way to socket s.
InTransit(n, s) ==
    \/ \E k \in DOMAIN chan[inst[s]] : chan[inst[s]][k].notification = n
    \/ /\ sending[inst[s]] # None
       /\ sending[inst[s]].socket = s /\ sending[inst[s]].notification = n

\* The request that stored n has got past the publishing part of the endpoint.
Routing(r) == pc[r] \in {"mark_delivered_live", "respond", "done"}

\* No notification falls between the backlog query and live delivery.  While the
\* user's route to a socket holds from its registration on, an unread
\* notification that a request stored and routed is in the socket's backlog, has
\* been sent live or is on its way, however storing, looking up, registering,
\* querying, restarts and expiries interleave.  Only the rows that a full backlog
\* frame left out at the moment of the query wait for the next connection; those
\* stored later come live, full frame or not.
DeliveryComplete ==
    \A s \in intact, n \in Notifications :
        /\ hpc[s] = "receive"
        /\ user_id[n] = who[s] /\ n \notin read \cup leftOut[s]
        /\ \E r \in Requests : nid(r) = n /\ inserted[r] /\ Routing(r)
        => n \in backlog[s] \cup live[s] \/ InTransit(n, s)

\* A socket is only ever sent notifications of its own user, live or in the
\* backlog, whatever the dict of the instance held when the message was taken.
NoMisdelivery ==
    \A s \in Sockets : \A n \in backlog[s] \cup live[s] : user_id[n] = who[s]

Copies(n) ==
    LET queued == UNION {{i} \X {k \in DOMAIN chan[i] : chan[i][k].notification = n} :
                            i \in Instances}
        taken  == {i \in Instances : sending[i] # None /\ sending[i].notification = n}
        sent   == {s \in Sockets : n \in live[s]}
    IN  Cardinality(queued) + Cardinality(taken) + Cardinality(sent)

\* A notification is sent live at most once, on one socket of one instance,
\* whatever is retried.
LiveAtMostOnce == \A n \in Notifications : Copies(n) <= 1

\* A registry entry always has a handler behind it that will remove it: without
\* crashes and failing calls, and with a draining server, no route outlives the
\* connections of its user, overlapping reconnects and restarts included.
NoOrphanRoute ==
    \A u \in Users : registry[u] # None =>
        \E s \in Sockets : /\ who[s] = u /\ inst[s] = registry[u]
                           /\ hpc[s] \in {"mark_online", "get_backlog", "send_backlog",
                                          "receive", "unregister"}

\* Likewise for presence: a user shown online or away has a handler that will
\* clear it.
NoGhostPresence ==
    \A u \in Users : presence[u] # "offline" =>
        \E s \in Sockets : /\ who[s] = u
                           /\ hpc[s] \in {"get_backlog", "send_backlog", "receive",
                                          "unregister", "mark_offline"}

\* The dict of an instance holds sockets its handlers are serving, each under
\* the user it was opened for: the manager "tracks the WebSocket connections
\* held by this gateway instance".
TracksHeldSockets ==
    \A i \in Instances, u \in Users : get(i, u) # None =>
        LET s == get(i, u)
        IN  who[s] = u /\ inst[s] = i /\ hpc[s] \notin {"new", "unregister",
                                                         "mark_offline", "closed"}

\* The registry "maps a connected user to the gateway instance holding their
\* live socket": a user with a socket in its receive loop is routed to the
\* instance of such a socket.
RegistryMapsConnectedUsers ==
    \A s \in Sockets : hpc[s] = "receive" /\ phase[inst[s]] = "up" =>
        \E t \in Sockets : /\ who[t] = who[s] /\ registry[who[s]] = inst[t]
                           /\ hpc[t] \in {"mark_online", "get_backlog", "send_backlog",
                                          "receive"}

\* Such a user is online or away, too.
ConnectedUsersArePresent ==
    \A s \in Sockets : hpc[s] = "receive" /\ phase[inst[s]] = "up" =>
        presence[who[s]] # "offline"

\* "after the instance registers itself and before accepting live traffic, the
\* gateway queries unread notifications and pushes them down the newly opened
\* socket": nothing is sent live on a socket before its backlog frame.
BacklogPrecedesLive ==
    \A s \in Sockets : hpc[s] \in {"register", "mark_online", "get_backlog", "send_backlog"}
        => live[s] = {}

\* Fairness: asyncio resumes the subscriber task whenever a message or the end
\* of a send is ready, and Redis and PostgreSQL answer every call of a request
\* or let it fail.
FairSpec ==
    /\ Spec
    /\ \A i \in Instances : WF_vars(Deliver(i))
    /\ \A r \in Requests : WF_vars(Handle(r) /\ ApiFrame)

\* What a request has stored for the user of a socket past its backlog query ends
\* up at that socket, unless the route breaks, the user reads it elsewhere or the
\* request fails before it has published.
StoredArrives ==
    \A s \in Sockets, r \in Requests :
        LET n == nid(r)
            missed == /\ s \in intact /\ hpc[s] = "receive" /\ target(r) = who[s]
                      /\ inserted[r] /\ n \notin backlog[s] \cup leftOut[s] \cup read
        IN  missed ~> n \in live[s] \cup read \/ s \notin intact \/ pc[r] = "failed"

\* Every step of the system is, for the endpoint, a step of a request or one of
\* the moves NotificationApi allows the rest of the world.
PlatformRefinesApi == ApiSpec
=============================================================================
