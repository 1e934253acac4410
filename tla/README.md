# A verification project for the real-time notification platform

TLA+ modules, TLC configurations and TLAPS proofs for the Python service in
`app/`: WebSocket gateways that deliver notifications live through Redis Pub/Sub
and keep them durably in PostgreSQL.

## 1. Inventory

| component (source) | state it keeps | operations | what must hold |
|---|---|---|---|
| instance registry (`pubsub/instance_registry.py`) | Redis `user:{id}` -> instance, `instance:{id}:alive`, both with a TTL | register, refresh, unregister, lookup, mark_alive, is_alive | no route outlives its connections; a connected user is routed |
| Pub/Sub (`pubsub/publisher.py`, `subscriber.py`) | subscriptions, messages in flight | publish, start, stop, listen | at most once, to the right user |
| notification endpoint (`api/routes/notifications.py`) | the local state of each request | POST /notifications | one insert, one publish, one `persisted=True` per id; truthful answers |
| idempotency guard (`core/idempotency.py`) | Redis `notification_dedup:{id}` | has_seen, mark_seen | never says "seen" of a row that does not exist |
| repository (`db/repository.py`, `models.py`) | tables notifications, read_receipts | create, mark_delivered_live, mark_read, backlog, history, receipts | insert once, unread rows wait in the backlog |
| gateway (`websocket/gateway.py`) | a handler task per socket | connect, backlog, receive loop, clean-up | no notification between backlog and live |
| connection manager (`websocket/connection_manager.py`) | dict user -> socket of a process | add, remove, send_json, close_all | holds exactly sockets being served |
| message router (`websocket/message_router.py`) | none | heartbeat, presence_update, read_receipt | |
| presence (`presence/`) | Redis `presence:{id}`, `presence:last_seen:{id}` | online, away, heartbeat, offline, get | no ghost: present users have a connection |
| lifespan (`main.py`) | the process | start, graceful shutdown | advertised only once it listens; leaves nothing behind |
| liveness, heartbeat, reconciliation (`websocket/heartbeat.py`) | timers | refresh loops | crash noticed within the TTL, one failed refresh tolerated, drift reported |
| rate limiter (`core/rate_limiter.py`) | Redis counter per window | allow | less than twice the limit in any window, and the window ends |
| tickets (`websocket/auth_handshake.py`, `api/routes/auth.py`) | Redis `ws_ticket:{t}` | issue, redeem | one ticket opens one socket |
| history API (`api/routes/history.py`) | none | pages, receipts | pages cover the history |
| health, metrics, middleware, logging, schemas, configuration | | | not modelled |

Interaction. A request and a connection never call each other: they meet in
Redis and PostgreSQL. The request stores a row, looks the user up, checks the
owner's liveness key, publishes to the owner's channel. The connection adds its
socket to the dict of its process, registers itself, queries the unread rows,
sends them, then serves frames. A third task, the subscriber of the instance,
moves messages from the channel to whatever socket the dict holds. Each `await`
is a point where all the others may run, and each call can fail before or
after its effect; processes crash and restart; keys lapse. That is where the
hard behaviour is, and where the properties below aim.

## 2. Modules

`Domain` declares the shared identifiers and the switches `KeysExpire` and
`CallsMayFail`. The component modules keep the names of the Python methods and
columns.

| module | models | extends |
|---|---|---|
| `InstanceRegistry` | the two families of Redis keys | `Domain` |
| `PubSub` | channels and subscriptions | `Domain` |
| `Repository` | the tables, a variable per column | `Domain` |
| `IdempotencyGuard` | the dedup keys | `Domain` |
| `Presence`, `ConnectionManager` | presence keys; the dict of each process | `Domain` |
| `NotificationApi` | POST /notifications; the rest of the world as the moves of the four components it touches | the first four |
| `NotificationLedger` | abstract specification of what the endpoint promises | |
| `NotificationApiProofs` | theorems about `NotificationApi` | `NotificationApi`, `TLAPS` |
| `Gateway` | the WebSocket handler | registry, repository, presence, dict |
| `Redis`, `RateLimiter`, `WSTicketAuth` | TTLs as countdowns; the limiter's Lua script; the ticket keys and the exchange of a bearer token | `Domain` |
| `TimedGateway` | the gateway with a clock: TTLs, heartbeats, limiter, tickets, liveness and reconciliation loops | `Gateway`, `RateLimiter`, `WSTicketAuth` |
| `TimedGatewayProofs` | theorems about `TimedGateway` | `TimedGateway`, `TLAPS` |
| `Platform` | instances (`main.py`), subscriber tasks, and everything above composed | `Gateway`, `NotificationApi` |
| `PlatformInvariants` | the inductive invariants of `Platform`, and the mapping to the next module | `Platform` |
| `AtMostOnceDelivery` | abstract specification of live delivery: stored, published once, then sent once or lost | |
| `PlatformProofs` | types of `Platform`, its refinement of `NotificationApi`, which steps move which variables | `PlatformInvariants`, `NotificationApiProofs` |
| `DeliveryProofs` | theorems about what is delivered | `PlatformProofs` |
| `DeliveryRefinementProofs` | `Platform` implements `AtMostOnceDelivery` and the ledger | `DeliveryProofs` |
| `SessionProofs` | theorems about dicts, registry and presence | `PlatformProofs` |
| `History` | a client's walk through GET /notifications/history | `Repository` |
| `HistoryProofs` | theorems about `History` | `History`, `TLAPS` |
| `MCNotificationApi`, `MCPlatform`, `MCHistory`, `MCTimedGateway` | instances for TLC, symmetry sets | |

**Granularity.** An action is the code from the completion of one awaited call to
the start of the next one, taken with the effect of that call. Nothing but local
variables is touched between a call's effect and the handler's resumption, so
merging the two loses no interleaving. `pc[r]` (requests) and `hpc[s]` (handlers)
name the call a task waits for. A failing call is either an effect whose answer is
lost (`Step`, `Resumes`) or no effect at all (`CallFails`, `HandlerFails`). A
handler that raises inside its `try` block runs its `finally` (`Leave`), one that
raises before it, or inside `finally`, simply ends: the socket stays in the dict.

**Delivery.** `ConnectionManager.send_json` is two steps: the socket is fetched
from the dict before the await (`TakeMessage`), and a failed send removes
whatever the dict holds for the user afterwards (`SendFails`).

**Lifespan.** `StartSubscriber`, `StartLiveness`, `RefreshLiveness`,
`BeginShutdown`, `CloseConnection`, `UnregisterClosed`, `MarkOfflineClosed`,
`StopSubscriber`, `Stopped`, and `Crash` at any moment. Whether the ASGI server ends
the handlers before lifespan shutdown is the switch `ServerDrains`: uvicorn, which
`docker/Dockerfile.gateway` runs, does (TRUE); ASGI itself does not promise it (FALSE).
Nothing in `main.py` waits for handlers. So where the server does not drain, a socket
accepted in time is added to the dict during the shutdown, because two awaits come before
`add` (`Accepting`), and `Stopped` cuts off the handlers that still run. A call
of the shutdown that raises skips the rest of `finally` (`ShutdownFails`): the process
ends from the phase "aborted", its subscription and its liveness loop running until
then. `subscribe()` of redis-py returns once SUBSCRIBE is sent; Redis is taken to
handle it before what the instance sends afterwards, so `StartSubscriber` opens the
subscription at once.

**Time.** In `Platform` there is none: a key with a TTL may lapse at any moment
(`KeysExpire`), which covers every TTL and every missed refresh, and a heartbeat
(EXPIRE) changes nothing. `TimedGateway` is the complement: no requests and no rows,
but every TTL is a countdown that `Tick` moves. `Tick` waits for handlers between
two calls and for loops whose sleep is over, so a call takes less than a tick. The
steps of `Gateway` are reused as they are, each conjoined with what it does to the
TTLs (`ServeSocket`). A frame passes the limiter (`ReceiveFrame`) before its calls; a
heartbeat is two calls (`HeartbeatPresence`, `HeartbeatRegistry`), `presence_update`
sets the presence key and leaves the registry entry alone (`RoutePresenceUpdate`). The
liveness loop sleeps `Interval` ticks and refreshes, or fails and sleeps again
(`RefreshAlive`). A reconciliation pass (`BeginSweep`, `SweepOne`, `SweepFails`) works
through a snapshot of the dict and only warns; when it wakes up is left open, which
includes the interval of the code.

**Data.** A notification is its id, a message its user and its id, `created_at`
any member of `Times` (it is the start of the transaction and does not follow
commit order), the payload is dropped. A user id is a model value, so the model takes
all its spellings to be one: section 4 says what the code does with another.

**History variables.** `published` (requests whose PUBLISH took effect), `live`
(what was sent live on a socket), `intact` (sockets routable without a break since
their registration), `leftOut` (the unread rows a full backlog frame did not hold); in
`TimedGateway` `opener` (the ticket of a socket), `quiet` and
`late` (ticks since the last heartbeat, whether a gap reached the TTL), `down`, and the
observer `span`, `passed` of the limiter. They are written and never read by the model.

## 3. Runs

Bounds: one or two users, one or two instances, two or three sockets, one to
three requests, one or two ids. A run gives full freedom to the dimension it is
about and closes others by switches. Two instances and two sockets are enough for
every kind of reconnect (same or other instance, overlapping or not); two requests
for every race on an id; the theorems cover all sizes.

| run | question | result |
|---|---|---|
| `api` | Three POSTs of one id for two users, failing anywhere, with everything around them moving: do the endpoint's invariants and the ledger hold? | holds |
| `sessions` | Three overlapping sockets, two instances starting, shutting down behind a draining server, no failing calls: can a route, a presence key or a dict entry be left without a handler that removes it? | no |
| `faults` | Two overlapping sockets, two instances crashing and restarting, a request, any key lapsing: are `DeliveryComplete` and the inductive invariant behind it (`PlatformInv`) kept, is anything sent live twice? | kept; no |
| `queues` | Two users, two ids, two requests, one instance, no overlap, draining server, backlog frames of one row: lost, doubled or misdirected messages? Is a served user registered and present? Are `PlatformInv` and `SessionInv` kept? | none; yes; yes |
| `arrival` | With failing calls, dying subscribers, crashes, a server that does not drain and shutdowns cut short, two sockets used one after the other: is `DeliveryComplete` kept, does a stored notification reach an intact socket (under fairness), and is every step of the system one that `NotificationApi` and `AtMostOnceDelivery` allow? | yes |
| `history` | Four rows of two users inserted with any of three times during a walk whose limit changes from page to page: does the walk end, repeat rows, miss more than ties? | ends; no; no |
| `timed` | Two sockets, two tickets, one instance, failing calls and crashes, against the clock: what do the TTLs guarantee? | see below |
| `timed_liveness` | Two overlapping sockets of one user and two tickets, lookups that fail: under fairness, does a limited client get through again, is the drift of a user in the dict reported? Can a ticket open two sockets? | yes; yes; no |
| `late_heartbeat` | `BeatingUsersAreOnline` | violated, finding 4 |
| `overlapping_reconnect` | `RegistryMapsConnectedUsers` with overlapping connections | violated, finding 1 |
| `backlog_order` | `BacklogPrecedesLive` | violated, finding 2 |
| `history_ties` | `WalkReachesEveryRow`: two rows with one `created_at`, pages of one | violated, finding 3 |

`DeliveryComplete` is the central property. Its hypothesis is that the route of
the socket held without a break from a moment before its backlog query: registry
entry, liveness key, subscription and dict entry. Under it every unread
notification of the user that a request stored and routed is in the backlog
frame, was sent live, or is on its way. It rests on two orders in the code:
register before query, insert before lookup. A full backlog frame excuses only the
rows that it left out at the moment of its query (`leftOut`); what is stored later has
to come live as after any other. It says nothing of a request that died between its commit and its
PUBLISH: its row waits for the next connection, because the retry meets a conflict.

The timed run shows four things. A client that does not overlap its connections and whose heartbeats are handled less than the TTL apart keeps both its keys
(`RoutedWhileBeating`), whatever it sends besides and whatever failed before. A route
nobody holds is trusted for less than `LivenessTtl` after its instance went down, as
`README.md:632-633` says, but when the instance is back under its id by then, or a
clean-up failed, up to `PresenceTtl` after the last heartbeat (`DeadRoutesLapse`). A running
instance never looks dead unless two refreshes in a row fail, for a TTL of three or more
(`OneMissIsTolerated`). The limiter, a fixed window although it is called a token bucket,
lets fewer than twice the limit through in any stretch of a window's length
(`FewerThanTwiceTheLimit`). Bounds: `PresenceTtl` 4 and `LivenessTtl` 3, so that, as with
the defaults of 30 and 15, an instance can be found dead, or come back, while entries
still point at it; `Limit` and `Window` 2, the smallest values with a call on each side of a
boundary; two tickets and sockets, so that a client comes back after any failure. More
than two misses in a row are counted as `MaxMisses` = 2, more calls than `Limit + 1` as
`Limit + 1`. `Watched` are the callers whose calls the observer of the limiter counts,
`SweepsMayFail` lets the lookups of a reconciliation pass fail.

`timed_liveness` is about overlap, so there the other calls do not fail: two sockets of
one user on one instance, two tickets, all TTLs, limit and window as small as their
relations allow. `TicketsOpenOneSocket` holds when two upgrades carry one ticket at the
same time, because GETDEL answers one of them. `DriftIsNoticed` speaks of the users of the
dict, which is all that a pass looks at: with one instance, drift means that the registry
has no entry, and the user may leave and come back while a pass works through its
snapshot.

**Fairness.** `arrival` assumes weak fairness of the subscriber task of each
instance (asyncio resumes a task whose message or send is ready; the send ends, well
or badly) and of each admitted request (Redis and PostgreSQL answer or fail). No
fairness is assumed of clients, restarts, expiry or failures, with one exception:
`WalkEnds` is about a reader that keeps asking for the next page. `timed_liveness` assumes
that the clock never stops for good (strong, because every call makes it wait), that
waiting handlers are answered or fail, that the loops wake up, and that a lookup
which pass after pass tries again succeeds at some point (strong, because a failing one
ends the pass).

**Deadlock** is checked in every run.

## 4. Findings

1. *Overlapping reconnect.* The `finally` of `websocket_endpoint` deletes the dict
   entry, the registry entry and the presence key of its user without looking
   whether they are its own. A client that reconnects before the old handler has
   finished is left connected, unregistered and offline; heartbeats only extend
   TTLs and the reconciliation loop only logs. When both connections are on one instance
   it does not even log: the new socket is no longer in the dict, so no pass looks at it.
2. *Backlog order.* The socket is in the dict and registered before the backlog is
   queried, so a live frame can precede the backlog frame, against `README.md:289-291`.
3. *History ties.* The next page is `created_at < before`; rows that tie with the
   last row of a full page and did not fit on it are on no page. `created_at` is
   the start of a transaction, and two transactions can share it.
4. *Late heartbeat.* A heartbeat is an EXPIRE of both keys, which does nothing once a
   key has lapsed, where `README.md:247-248` describes a SET. A client that pauses for
   the TTL, or loses heartbeats to the rate limiter, and then goes on beating stays
   offline and unrouted while it is connected; while its socket is in the dict, the
   reconciliation loop reports it (`DriftIsNoticed`), and repairs nothing. `presence_update` brings back the presence
   key alone.

Seen while modelling, without a run: a second acknowledgement inserts a second
receipt row, where `README.md:470-471` promises one entry per user; a failing `register` or `mark_online`
leaves the socket in the dict (`TracksHeldSockets` needs `CallsMayFail = FALSE`); a
send that fails late removes the newer socket of a user who has reconnected, which from
then on gets no live frame and which no reconciliation pass reports; `decode_user_id` only
checks that the subject claim parses as a UUID and returns it as spelled (`auth.py:46`),
while `create_notification` looks users up as `str(UUID)` (`notifications.py:53`), so a user
whose token has another spelling (upper case, braces, no dashes) gets backlogs and no live
notification; without a draining server a shutdown can end a handler that is about to
unregister, or clear the keys of a user who is connected elsewhere by then.

## 5. Proofs

`NotificationApiProofs` proves, for every value of the constants that meets
`DomainAssumption` and `RepositoryAssumption`:

- `ApiTypeCorrect`: the type invariant.
- `ApiInvariant`: the inductive invariant `ApiInv`. The properties are not inductive
  alone: "one insert per id" needs to know that whoever is past `create` has a row
  under its id and that only an inserter can be past `mark_seen`; "flag only after
  publish" needs to know where the publisher is. `ApiInv` says what each control
  point implies (`PcMeaning`, `PublishMeaning`), that an id has one inserter
  (`OneInserter`) whose row carries its user (`InsertedRows`), and that a flag has a
  publisher behind it who is past flagging (`FlagMeaning`).
- `SeenOnlyAfterCommit`, `AnswersAreDurable`, `OncePerNotification`, `QueuesMatchRows`,
  `FlagsAreTruthful`: consequences of `ApiInv`.
- `EndpointImplementsLedger`: the refinement. Every action maps to one ledger step
  or to none; `InserterOwnsEntry` is the lemma that makes the mapping work.

`HistoryProofs` proves `HistoryInvariant` under `HistoryAssumption` as well. That a
finished walk misses only ties (`OnlyTiesAreMissed`) is not inductive: in the middle
of a walk one has to know that every row still missing lies before the cursor, or
ties with one already handed out, and that no row fetched lies before it
(`RemainderAhead`). `NoRowTwice` follows from the second half.

`TimedGatewayProofs` proves, under `DomainAssumption`, `RepositoryAssumption`,
`LimiterAssumption`, `TicketAssumption`, `SweepAssumption` and `TimedAssumption` (TTLs, limit and window are
not zero, connection ids are callers of the limiter, `None` is no frame), the type
invariant (`TimedTypeCorrect`) and the inductive invariant `TimedInv` (`TimedInvariant`),
whose parts are proved one lemma each. The properties speak of one moment; the
invariant says where the clocks stand on the way there:

- `LimitHolds`, from `LimiterInv`: a stretch under observation lies in the present
  window and has counted no more than the window has, or it has crossed the end of an
  earlier window, and then the present one outlasts it, so it never crosses a second end.
- `TicketsAreSingleUse`, from `TicketInv`: the ticket of an open socket is drawn and gone,
  and a drawn value is never drawn again.
- `DeadRoutesEnd`, from `KeyInv` and `LoopInv`: while an entry exists, its TTL and the
  silence of its user add up to at most the full TTL; likewise the liveness key and the
  absence of its instance.
- `OneMissTolerated`, from `LoopInv`: with at most one miss the key outlasts the rest of
  the loop's sleep, because two intervals are shorter than the TTL (`IntervalBounds`; false
  for a TTL below three, where `max(1, ttl // 3)` is one).
- `BeatingKeepsTheRoute`, from `BeatInv`, which holds where clients do not overlap their
  connections: a user then has one unfinished handler, nobody else touches its keys, and
  each key's TTL plus the silence is at least the full TTL. Between the two calls of a
  heartbeat the presence key is already full, which is why the second one may reset the
  silence. The property itself does not survive a step without these sums.

**The whole system.** `PlatformProofs`, `DeliveryProofs`, `DeliveryRefinementProofs` and
`SessionProofs` prove, under the assumptions of the component modules,
`PlatformAssumption` and `SendingAssumption` (`None` is not a send):

- `PlatformTypeCorrect`, and `PlatformImplementsApi`: every step of the platform is for an
  endpoint a step of a request, a move `NotificationApi` allows the rest of the world, or
  none. So every theorem about the endpoint alone holds in the platform
  (`PlatformKeepsApiInv`, `PlatformImplementsLedger`).
- `PlatformInvariant`: the inductive invariant `PlatformInv`, with no restriction on
  faults: calls fail, keys lapse, processes crash, connections overlap. It has three parts.
  - `MatchInv`: a dict entry, a send in progress and a socket name one user and one
    instance. `NoMisdelivery` alone is not inductive: a send waiting for its await has
    to be known to be for its socket's user. `NeverMisdelivered` follows.
  - `CopyInv`: the copies of a notification, queued, in a send or sent, are in one place,
    and each has a request behind it that has published. A second PUBLISH would have to
    come from a second inserter, which `ApiInv` excludes (`FirstToPublish`).
    `SentAtMostOnce` follows.
  - `DeliveryInv`: for a routed socket past its query, each unread row the query did not
    see has its inserter before the lookup, between lookup and PUBLISH with the instance of
    this socket as owner, or failed, or its copy is sent or in transit (`OnItsWay`).
    `DeliveryComplete` speaks of requests that are through; its invariant has to follow
    them there. The backlog query starts it off: a frame that is not full is all unread
    rows, and what a full one left out is recorded (`LeftOutMoves`). Each step then moves request or message one step on
    (`RequestStaysOnItsWay`, `MessageStaysOnItsWay`) or breaks the route. A process that is
    down has no subscription, so `Subscriber.start` empties no queue of a routed socket.
    `DeliveryIsComplete` follows.
- `PlatformImplementsDelivery`: the refinement of `AtMostOnceDelivery`. A notification is
  sent if a socket has it, pending if a channel or a send holds it, lost if it was
  published and is nowhere. INSERT, PUBLISH and the end of a send are one abstract step
  each; a stop, a crash or a dead subscriber loses all that was pending at an instance in
  one step; `TakeMessage` is a loss or no step.
- `HeldSocketsAreTracked`, where no call fails; `NoRouteIsOrphaned` and
  `NoPresenceIsGhost`, where `FaultFree` holds: no call fails, no process crashes, the
  server drains. The hypotheses are needed: a call that raises outside the `try` block or
  in `finally`, a crash, or a process that exits under its handlers ends the handler that
  would have cleaned up. The first is inductive on top of the types; the other two need
  `Drained` as well (`ShutdownFindsNoHandler`): from the moment the shutdown of an
  instance begins none of its handlers is running. Overlaps, lapsing keys and shutdowns
  are allowed.
- `SessionInvariant`, `ConnectedUsersAreMapped` and `ConnectedUsersAreShown` hold where
  `Orderly` does: a client reconnects only after its old handler has finished, no call
  fails, no key lapses, the server drains. Crashes are allowed. `SessionInv` says that a
  user then has one unfinished handler, so no other handler deletes its keys, and that a
  shutdown finds no user to clear, because a drained instance has an empty dict
  (`TracksHeldSockets`). Without overlap excluded the property is false (finding 1). A
  failed `register` leaves a dict entry behind, for which a later shutdown deletes the
  keys of a user who is by then connected elsewhere: hence no failing calls.

Only model-checked, because liveness under fairness is outside the prover's reach:
`StoredArrives`, `WalkEnds`, `LimitedCallersGetThrough` and `DriftIsNoticed`.

## 6. Plan

1. Action properties of the composed system: what a single step of a handler, a request
   or a shutdown may never do to the keys of another user.
2. The composition of the clock with the requests: whether a publisher's check of the
   liveness key and its PUBLISH straddle the end of the TTL matters only for how long a
   message waits in the backlog, which `Platform` already leaves open.
3. A repeated acknowledgement (`repository.py:82`) and a failed send after a reconnect
   (`connection_manager.py:52`) as findings with runs of their own.

## 7. Not modelled

- `presence:last_seen` and GET /presence: written with every presence change, shown to
  callers, read by no other part.
- Health, metrics, middleware, logging: they read or count, and change nothing the other
  parts read.
- Schemas, configuration, connection pool: validation ends a request before its first
  call (`ReceiveFrame` has the rejected frame); the settings that matter are CONSTANTS.
- GET /notifications/{id}/read-receipts: one plain read.
- The limiter in front of POST /notifications is the same class with another key;
  its verdict is a free choice in `NotificationApi`.
- Deployment, migrations and load tests are not part of the running program.
