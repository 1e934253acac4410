---------------------------- MODULE TimedGateway ----------------------------
(***************************************************************************)
(* The gateway with a clock: the TTLs of the registry, presence and        *)
(* liveness keys, the frames of message_router.py that extend them, and    *)
(* the two loops of heartbeat.py.  The actions of Gateway are reused, each *)
(* with what it does to the TTLs.  No row is ever stored here, so backlogs *)
(* are empty and a read receipt changes nothing.                           *)
(*                                                                         *)
(* A tick is the grain of the TTLs.  Calls to Redis take less than a tick: *)
(* the clock waits for a handler between two calls and for a loop whose    *)
(* sleep is over.                                                          *)
(***************************************************************************)
EXTENDS Gateway, RateLimiter, WSTicketAuth

CONSTANTS PresenceTtl,  \* settings.presence_ttl_seconds, of both user keys
          LivenessTtl,  \* settings.instance_liveness_ttl_seconds
          MaxMisses,    \* misses are counted up to this bound
          SweepsMayFail \* may a lookup of the reconciliation loop raise?

ASSUME TimedAssumption ==
    /\ PresenceTtl \in Nat \ {0} /\ LivenessTtl \in Nat \ {0} /\ MaxMisses \in Nat \ {0, 1}
    /\ Sockets \subseteq Callers
    /\ None \notin {"heartbeat", "refresh", "presence_update"}

ASSUME SweepAssumption == SweepsMayFail \in BOOLEAN

VARIABLES entryTtl, presenceTtl,  \* [Users -> ticks left]
          aliveTtl,               \* [Instances -> ticks left]
          frame,                  \* [Sockets -> the frame being routed]
          up,                     \* the instances running
          sleep,                  \* [Instances -> ticks InstanceLivenessLoop sleeps on]
          misses,                 \* [Instances -> refreshes failed in a row]
          sweep,                  \* [Instances -> users a reconciliation pass has left]
          warned,                 \* [Instances -> users the current pass has warned of]
          opener,                 \* history: the ticket that opened a socket
          quiet,                  \* history: ticks since an entry was set or a heartbeat handled
          late,                   \* history: users with a gap of PresenceTtl since they registered
          down                    \* history: ticks since the instance last ran

userKeys == <<entryTtl, presenceTtl, quiet, late>>
loopVars == <<aliveTtl, up, sleep, misses, down>>
sweepVars == <<sweep, warned>>
timedVars == <<gatewayVars, limiterVars, ticketVars, opener, userKeys, frame, loopVars, sweepVars>>

Interval_LastMoment == LivenessTtl - 1

\* self._interval_seconds = max(1, ttl_seconds // 3).
Interval == IF LivenessTtl \div 3 > 1 THEN LivenessTtl \div 3 ELSE 1

ClockTypeOK ==
    /\ entryTtl \in [Users -> 0 .. PresenceTtl] /\ presenceTtl \in [Users -> 0 .. PresenceTtl]
    /\ quiet \in [Users -> 0 .. PresenceTtl] /\ late \in SUBSET Users
    /\ aliveTtl \in [Instances -> 0 .. LivenessTtl] /\ down \in [Instances -> 0 .. LivenessTtl]
    /\ frame \in [Sockets -> {"heartbeat", "refresh", "presence_update", None}]
    /\ opener \in [Sockets -> Tickets \cup {None}]
    /\ up \in SUBSET Instances
    /\ sleep \in [Instances -> 0 .. Interval] /\ misses \in [Instances -> 0 .. MaxMisses]
    /\ sweep \in [Instances -> SUBSET Users] /\ warned \in [Instances -> SUBSET Users]

TimedTypeOK ==
    /\ GatewayTypeOK /\ RegistryTypeOK /\ RepositoryTypeOK /\ LimiterTypeOK /\ TicketTypeOK
    /\ ClockTypeOK

TimedInit ==
    /\ GatewayInit /\ RegistryInit /\ RepositoryInit /\ LimiterInit /\ TicketInit
    /\ entryTtl = [u \in Users |-> 0] /\ presenceTtl = entryTtl
    /\ quiet = [u \in Users |-> PresenceTtl] /\ late = {}
    /\ frame = [s \in Sockets |-> None] /\ opener = frame
    /\ aliveTtl = [i \in Instances |-> 0] /\ sleep = aliveTtl /\ misses = aliveTtl
    /\ up = {} /\ down = [i \in Instances |-> LivenessTtl]
    /\ sweep = [i \in Instances |-> {}] /\ warned = sweep

-----------------------------------------------------------------------------
\* The commands on the two keys of a user, with the bookkeeping of heartbeats.
SetEntry(u) ==
    /\ entryTtl' = SetEx(entryTtl, u, PresenceTtl)
    /\ quiet' = [quiet EXCEPT ![u] = 0]
    /\ late' = late \ {u}
    /\ UNCHANGED presenceTtl

refresh_Forgotten(u) == UNCHANGED entryTtl

\* EXPIRE user:{u}: an entry that has lapsed stays away.
refresh(u) == entryTtl' = Expire(entryTtl, u, PresenceTtl)

SetPresence(u) ==
    /\ presenceTtl' = SetEx(presenceTtl, u, PresenceTtl)
    /\ UNCHANGED <<entryTtl, quiet, late>>

\* EXPIRE presence:{u}, likewise.
heartbeat(u) ==
    /\ presenceTtl' = Expire(presenceTtl, u, PresenceTtl)
    /\ UNCHANGED <<entryTtl, quiet, late>>

mark_alive_ex_PresenceTtl(i) == mark_alive(i) /\ aliveTtl' = SetEx(aliveTtl, i, PresenceTtl)

mark_alive_ex(i) == mark_alive(i) /\ aliveTtl' = SetEx(aliveTtl, i, LivenessTtl)

-----------------------------------------------------------------------------
IssueTicket ==
    /\ \E c \in Credentials : issue_ws_ticket(c)
    /\ UNCHANGED <<gatewayVars, limiterVars, opener, userKeys, frame, loopVars, sweepVars>>

\* The upgrade: redeem the ticket, then serve the socket or close it.  A GETDEL
\* or an accept that raises ends the handler, with or without the ticket.
Upgrade(s, t) ==
    /\ inst[s] \in up
    /\ \/ /\ ticket[t] = who[s]
          /\ redeem_ticket(t)
          /\ Connect(s)
          /\ opener' = [opener EXCEPT ![s] = t]
       \/ /\ ticket[t] = None
          /\ Reject(s)
          /\ UNCHANGED <<ticketVars, opener>>
       \/ /\ CallsMayFail
          /\ redeem_ticket(t) \/ UNCHANGED ticketVars
          /\ Reject(s)
          /\ UNCHANGED opener
    /\ UNCHANGED <<limiterVars, userKeys, frame, loopVars, sweepVars>>

HandlerFrame == UNCHANGED <<limiterVars, ticketVars, opener, loopVars, sweepVars>>

\* A handler outside its receive loop: Gateway's steps and what they do to TTLs.
ServeSocket(s) ==
    /\ \/ Register(s) /\ SetEntry(who[s])
       \/ MarkOnline(s) /\ SetPresence(who[s])
       \/ (GetBacklog(s) \/ SendBacklog(s)) /\ UNCHANGED userKeys
       \/ /\ Unregister(s)
          /\ entryTtl' = Del(entryTtl, who[s])
          /\ UNCHANGED <<presenceTtl, quiet, late>>
       \/ /\ MarkOffline(s)
          /\ presenceTtl' = Del(presenceTtl, who[s])
          /\ UNCHANGED <<entryTtl, quiet, late>>
       \/ HandlerFails(s) /\ UNCHANGED userKeys
    /\ UNCHANGED frame
    /\ HandlerFrame

\* The limiter counts a frame; one over the limit is dropped.  Read receipts,
\* unknown and malformed frames change nothing here.
ReceiveFrame(s) ==
    /\ hpc[s] = "receive" /\ frame[s] = None
    /\ allow(s)
    /\ \E f \in {"heartbeat", "presence_update", None} :
         frame' = [frame EXCEPT ![s] = IF Allowed(s) THEN f ELSE None]
    /\ UNCHANGED <<gatewayVars, ticketVars, opener, userKeys, loopVars, sweepVars>>

\* HeartbeatHandler.handle: the presence key, then the registry entry.
HeartbeatPresence(s) ==
    /\ frame[s] = "heartbeat"
    /\ heartbeat(who[s])
    /\ frame' = [frame EXCEPT ![s] = "refresh"]
    /\ UNCHANGED gatewayVars
    /\ HandlerFrame

HeartbeatRegistry(s) ==
    /\ frame[s] = "refresh"
    /\ refresh(who[s])
    /\ quiet' = [quiet EXCEPT ![who[s]] = 0]
    /\ frame' = [frame EXCEPT ![s] = None]
    /\ UNCHANGED <<gatewayVars, presenceTtl, late>>
    /\ HandlerFrame

\* presence_update sets the presence key and leaves the registry entry alone.
RoutePresenceUpdate(s) ==
    /\ frame[s] = "presence_update"
    /\ PresenceUpdate(s) /\ SetPresence(who[s])
    /\ frame' = [frame EXCEPT ![s] = None]
    /\ HandlerFrame

\* The client is gone, or a call of a frame raises.
LeaveLoop(s) ==
    /\ frame[s] = None \/ CallsMayFail
    /\ Leave(s)
    /\ frame' = [frame EXCEPT ![s] = None]
    /\ UNCHANGED userKeys
    /\ HandlerFrame

Handler(s) ==
    \/ ServeSocket(s)
    \/ HeartbeatPresence(s)
    \/ HeartbeatRegistry(s)
    \/ RoutePresenceUpdate(s)

-----------------------------------------------------------------------------
LoopFrame ==
    UNCHANGED <<limiterVars, ticketVars, opener, userKeys, repositoryVars, presence>>

\* liveness_loop.start(): the first refresh is awaited before the instance serves.
StartInstance(i) ==
    /\ i \notin up
    /\ mark_alive_ex(i)
    /\ up' = up \cup {i}
    /\ sleep' = [sleep EXCEPT ![i] = Interval]
    /\ down' = [down EXCEPT ![i] = 0]
    /\ UNCHANGED <<handlerVars, connections, frame, misses, sweepVars>>
    /\ LoopFrame

\* The process dies: its dict, its handlers and its loops with it, but no key.
CrashInstance(i) ==
    /\ i \in up
    /\ up' = up \ {i}
    /\ sleep' = [sleep EXCEPT ![i] = 0]
    /\ misses' = [misses EXCEPT ![i] = 0]
    /\ connections' = [connections EXCEPT ![i] = [u \in Users |-> None]]
    /\ hpc' = [s \in Sockets |-> IF inst[s] = i /\ hpc[s] # "new" THEN "closed" ELSE hpc[s]]
    /\ frame' = [s \in Sockets |-> IF inst[s] = i THEN None ELSE frame[s]]
    /\ sweep' = [sweep EXCEPT ![i] = {}] /\ warned' = [warned EXCEPT ![i] = {}]
    /\ UNCHANGED <<who, inst, backlog, registryVars, aliveTtl, down>>
    /\ LoopFrame

\* One round of InstanceLivenessLoop._run: a refresh that raises is only logged.
RefreshAlive(i) ==
    /\ i \in up /\ sleep[i] = 0
    /\ \/ /\ mark_alive_ex(i)
          /\ misses' = [misses EXCEPT ![i] = 0]
       \/ /\ CallsMayFail
          /\ misses' = [misses EXCEPT ![i] = IF @ < MaxMisses THEN @ + 1 ELSE @]
          /\ UNCHANGED <<registryVars, aliveTtl>>
    /\ sleep' = [sleep EXCEPT ![i] = Interval]
    /\ UNCHANGED <<handlerVars, connections, frame, up, down, sweepVars>>
    /\ LoopFrame

SweepFrame ==
    UNCHANGED <<gatewayVars, limiterVars, ticketVars, opener, userKeys, frame, loopVars>>

\* ReconciliationLoop._reconcile works through a snapshot of the dict; when the
\* loop wakes up is left open.
BeginSweep(i) ==
    /\ i \in up
    /\ sweep[i] = {} /\ connected_user_ids(i) # {}
    /\ sweep' = [sweep EXCEPT ![i] = connected_user_ids(i)]
    /\ warned' = [warned EXCEPT ![i] = {}]
    /\ SweepFrame

Drifted_Foreign(i, u) == lookup(u) \notin {i, None}

Drifted(i, u) == lookup(u) # i

\* A drift is logged, not repaired.
SweepOne(i, u) ==
    /\ u \in sweep[i]
    /\ sweep' = [sweep EXCEPT ![i] = @ \ {u}]
    /\ warned' = [warned EXCEPT ![i] = IF Drifted(i, u) THEN @ \cup {u} ELSE @]
    /\ SweepFrame

\* A lookup that raises ends the pass.
SweepFails(i) ==
    /\ SweepsMayFail
    /\ sweep[i] # {}
    /\ sweep' = [sweep EXCEPT ![i] = {}]
    /\ UNCHANGED warned
    /\ SweepFrame

-----------------------------------------------------------------------------
Idle(s) == hpc[s] \in {"new", "receive", "closed"} /\ frame[s] = None

Tick ==
    /\ \A s \in Sockets : Idle(s)
    /\ \A i \in up : sleep[i] > 0
    /\ LimiterTick /\ TicketTick
    /\ entryTtl' = Decay(entryTtl)
    /\ registry' = [u \in Users |-> IF entryTtl'[u] = 0 THEN None ELSE registry[u]]
    /\ presenceTtl' = Decay(presenceTtl)
    /\ presence' = [u \in Users |-> IF presenceTtl'[u] = 0 THEN "offline" ELSE presence[u]]
    /\ aliveTtl' = Decay(aliveTtl)
    /\ alive' = {i \in alive : aliveTtl'[i] > 0}
    /\ sleep' = Decay(sleep)
    /\ quiet' = [u \in Users |-> IF quiet[u] < PresenceTtl THEN quiet[u] + 1 ELSE PresenceTtl]
    /\ late' = late \cup {u \in Users : quiet'[u] = PresenceTtl}
    /\ down' = [i \in Instances |-> IF i \notin up /\ down[i] < LivenessTtl THEN down[i] + 1
                                    ELSE down[i]]
    /\ UNCHANGED <<handlerVars, repositoryVars, connections, frame, up, misses, sweepVars, opener>>

TimedNext ==
    \/ IssueTicket
    \/ \E s \in Sockets, t \in Tickets : Upgrade(s, t)
    \/ \E s \in Sockets : Handler(s) \/ ReceiveFrame(s) \/ LeaveLoop(s)
    \/ \E i \in Instances : StartInstance(i) \/ CrashInstance(i) \/ RefreshAlive(i)
    \/ \E i \in Instances : BeginSweep(i) \/ SweepFails(i) \/ \E u \in Users : SweepOne(i, u)
    \/ Tick

TimedSpec == TimedInit /\ [][TimedNext]_timedVars

\* Fairness: the clock never stops for good, Redis answers a waiting handler or
\* the call raises, the loops wake up, and a lookup that pass after pass tries
\* again succeeds at some point.
TimedFairSpec ==
    /\ TimedSpec
    /\ SF_timedVars(Tick)
    /\ \A s \in Sockets : WF_timedVars(Handler(s))
    /\ \A i \in Instances : WF_timedVars(RefreshAlive(i)) /\ WF_timedVars(BeginSweep(i))
    /\ \A i \in Instances, u \in Users : SF_timedVars(SweepOne(i, u))

-----------------------------------------------------------------------------
\* Tickets: one that opened a socket is drawn and gone.
TicketInv ==
    /\ \A t \in Tickets : ticket[t] # None => t \in issued
    /\ \A s \in Sockets : opener[s] # None => opener[s] \in issued /\ ticket[opener[s]] = None
    /\ \A s, t \in Sockets : s # t /\ opener[s] # None => opener[s] # opener[t]

\* Keys exist while their TTL runs, and an entry ages with the silence of its user.
KeyInv ==
    /\ \A u \in Users :
         /\ registry[u] = None <=> entryTtl[u] = 0
         /\ presence[u] = "offline" <=> presenceTtl[u] = 0
         /\ registry[u] # None => entryTtl[u] + quiet[u] <= PresenceTtl
    /\ \A i \in Instances : i \in alive <=> aliveTtl[i] > 0

\* A liveness key ages with the sleep of its loop, or with its instance's absence.
LoopInv ==
    \A i \in Instances :
        /\ i \in up => down[i] = 0
        /\ i \notin up /\ i \in alive => aliveTtl[i] + down[i] <= LivenessTtl
        /\ i \in up /\ LivenessTtl >= 3 =>
             /\ misses[i] = 0 => aliveTtl[i] + Interval >= LivenessTtl + sleep[i]
             /\ misses[i] = 1 => aliveTtl[i] + Interval + Interval >= LivenessTtl + sleep[i]

\* Without overlap a user has one connection, whose keys age with its silence.
BeatInv ==
    /\ \A s, t \in Sockets : who[s] = who[t] /\ ~Finished(s) /\ ~Finished(t) => s = t
    /\ \A s \in Sockets :
         LET u == who[s]
         IN  /\ hpc[s] \in {"mark_online", "get_backlog", "send_backlog", "receive"} /\ u \notin late =>
                  registry[u] = inst[s] /\ quiet[u] < PresenceTtl
                  /\ entryTtl[u] + quiet[u] >= PresenceTtl
             /\ hpc[s] \in {"get_backlog", "send_backlog", "receive"} /\ u \notin late =>
                  presenceTtl[u] + quiet[u] >= PresenceTtl
             /\ frame[s] = "refresh" /\ u \notin late => presenceTtl[u] = PresenceTtl
             /\ frame[s] # None => hpc[s] = "receive"

\* The inductive invariant behind the properties below.
TimedInv == LimiterInv /\ TicketInv /\ KeyInv /\ LoopInv /\ (~Overlap => BeatInv)

\* A ticket opens one socket, however many upgrades carry it.
TicketsOpenOneSocket ==
    \A s, t \in Sockets : s # t /\ opener[s] # None => opener[s] # opener[t]

\* A client whose heartbeats are handled in time keeps both its keys: as long as
\* no gap since its registration reached the TTL, a served user is registered at
\* the instance of its socket and present, whatever it sends besides, whichever
\* calls fail and whatever became of its earlier connections.  This holds where
\* clients do not overlap their connections (~Overlap): an old handler deletes the
\* keys of a newer connection however well that one beats.
RoutedWhileBeating ==
    \A s \in Sockets : hpc[s] \in {"get_backlog", "send_backlog", "receive"} /\ who[s] \notin late =>
        registry[who[s]] = inst[s] /\ presence[who[s]] # "offline"

\* Somebody serves u on instance i, or is about to clean up after it.
Held(u, i) == \E s \in Sockets : /\ who[s] = u /\ inst[s] = i
                                 /\ hpc[s] \in {"mark_online", "get_backlog", "send_backlog",
                                                "receive", "unregister"}

\* How long a publisher trusts a route nobody holds: less than LivenessTtl after
\* the instance went down, and, when the instance is back under its id before
\* that or the clean-up of the handler failed, less than PresenceTtl after the
\* last heartbeat.
DeadRoutesLapse ==
    \A u \in Users, i \in Instances : registry[u] = i /\ i \in alive /\ ~Held(u, i) =>
        quiet[u] < PresenceTtl /\ (i \notin up => down[i] < LivenessTtl)

\* The refresh interval tolerates one failed refresh: a running instance is not
\* taken for dead unless two in a row have failed (for a TTL of three ticks or more).
OneMissIsTolerated ==
    LivenessTtl >= 3 => \A i \in up : misses[i] <= 1 => i \in alive

\* A user in the dict of an instance whom the registry places elsewhere or nowhere
\* is reported by that instance, unless the entry comes back or the socket leaves
\* the dict first.  The sweep sees the dict alone: a served socket that the clean-up
\* of an older one has popped is never reported.
DriftIsNoticed ==
    \A s \in Sockets :
        LET drift == /\ hpc[s] = "receive" /\ get(inst[s], who[s]) = s
                     /\ registry[who[s]] # inst[s]
        IN  drift ~> ~drift \/ who[s] \in warned[inst[s]]

\* "online: heartbeat received within the TTL window": a served user whose last
\* heartbeat is younger than the TTL is not offline.
BeatingUsersAreOnline ==
    \A s \in Sockets : hpc[s] = "receive" /\ quiet[who[s]] < PresenceTtl =>
        presence[who[s]] # "offline"
=============================================================================
