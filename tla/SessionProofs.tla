--------------------------- MODULE SessionProofs ----------------------------
(***************************************************************************)
(* What the dicts, the registry and presence say of the connected users,   *)
(* for every value of the constants.  Each theorem names the faults it     *)
(* excludes: runs that allow them violate the property.                    *)
(***************************************************************************)
EXTENDS PlatformProofs

\* How a handler moves where no call fails.
LEMMA HandlerMoves ==
    ASSUME TypeOK, ~CallsMayFail, [Next]_vars, NEW s \in Sockets
    PROVE  \/ hpc'[s] = hpc[s]
           \/ Connect(s) /\ hpc'[s] = "register"
           \/ Reject(s) /\ hpc'[s] = "closed"
           \/ Register(s) /\ hpc'[s] = "mark_online"
           \/ MarkOnline(s) /\ hpc'[s] = "get_backlog"
           \/ GetBacklog(s) /\ hpc'[s] = "send_backlog"
           \/ SendBacklog(s) /\ hpc'[s] = "receive"
           \/ Leave(s) /\ hpc'[s] = "unregister"
           \/ Unregister(s) /\ hpc'[s] = "mark_offline"
           \/ MarkOffline(s) /\ hpc'[s] = "closed"
           \/ Exit(inst[s]) /\ hpc'[s] = "closed" /\ (Stopped(inst[s]) \/ Crash(inst[s]))
<1>0. hpc \in [Sockets -> HandlerPc] /\ inst[s] \in Instances
  BY DEF TypeOK, GatewayTypeOK
<1> USE DEF handlerVars, gatewayVars
<1>1. ASSUME NEW t \in Sockets, Handler(t), t # s PROVE hpc'[s] = hpc[s]
  BY <1>0, <1>1 DEF Handler, Connect, Reject, Register, MarkOnline, GetBacklog, SendBacklog,
     PresenceUpdate, ReadReceipt, Leave, Unregister, MarkOffline, HandlerFails, Goto, Resumes
<1>2. CASE Handler(s)
  BY <1>0, <1>2 DEF Handler, Connect, Reject, Register, MarkOnline, GetBacklog, SendBacklog,
     PresenceUpdate, ReadReceipt, Leave, Unregister, MarkOffline, HandlerFails, Goto, Resumes
<1>3. ASSUME NEW i \in Instances, Lifespan(i)
      PROVE  \/ hpc'[s] = hpc[s]
             \/ Exit(inst[s]) /\ hpc'[s] = "closed" /\ (Stopped(inst[s]) \/ Crash(inst[s]))
  <2>1. CASE Stopped(i) \/ Crash(i)
    <3>1. Exit(i)
      BY <2>1 DEF Stopped, Crash
    <3>2. hpc' = [t \in Sockets |-> IF inst[t] = i /\ hpc[t] # "new" THEN "closed" ELSE hpc[t]]
      BY <3>1 DEF Exit
    <3>3. CASE inst[s] = i /\ hpc[s] # "new"
      BY <2>1, <3>1, <3>2, <3>3
    <3>4. CASE ~(inst[s] = i /\ hpc[s] # "new")
      BY <3>2, <3>4
    <3> QED BY <3>3, <3>4
  <2> QED
    BY <1>3, <2>1 DEF Lifespan, StartSubscriber, StartLiveness, RefreshLiveness, BeginShutdown,
       CloseConnection, UnregisterClosed, MarkOfflineClosed, StopSubscriber, ShutdownFails
<1>4. ASSUME NEW i \in Instances, Deliver(i) \/ SubscriberDies(i) PROVE hpc' = hpc
  BY <1>4 DEF Deliver, TakeMessage, SendCompletes, SendFails, SubscriberDies
<1> QED
  BY <1>1, <1>2, <1>3, <1>4 DEF Next, vars, Request, ApiFrame, KeyExpires, RegistryFrame

\* Who moves the registry entry of a user.
LEMMA EntryMoves ==
    ASSUME TypeOK, [Next]_vars, NEW u \in Users
    PROVE  \/ registry'[u] = registry[u]
           \/ \E t \in Sockets : Register(t) /\ who[t] = u /\ registry'[u] = inst[t]
           \/ /\ registry'[u] = None
              /\ \/ \E t \in Sockets : Unregister(t) /\ who[t] = u
                 \/ \E i \in Instances : u \in shutdown[i].clear
                 \/ KeysExpire
<1>0. /\ registry \in [Users -> Instances \cup {None}]
      /\ \A t \in Sockets : who[t] \in Users /\ inst[t] \in Instances
  BY DEF TypeOK, ApiTypeOK, RegistryTypeOK, GatewayTypeOK
<1> USE DEF gatewayVars, registryVars
<1>1. ASSUME NEW s \in Sockets, Handler(s)
      PROVE  \/ registry'[u] = registry[u]
             \/ Register(s) /\ who[s] = u /\ registry'[u] = inst[s]
             \/ registry'[u] = None /\ Unregister(s) /\ who[s] = u
  <2>1. CASE Register(s)
    BY <1>0, <2>1 DEF Register, register
  <2>2. CASE Unregister(s)
    BY <1>0, <2>2 DEF Unregister, unregister
  <2> QED
    BY <1>1, <2>1, <2>2 DEF Handler, Connect, Reject, MarkOnline, GetBacklog, SendBacklog,
       PresenceUpdate, ReadReceipt, Leave, MarkOffline, HandlerFails
<1>2. ASSUME NEW r \in Requests, Request(r) PROVE registry' = registry
  BY <1>2 DEF Request, AllowRequest, Handle, HasSeen, Create, MarkSeen, Lookup, IsAlive, Publish,
     MarkDeliveredLive, Respond, CallFails, storeVars
<1>3. ASSUME NEW i \in Instances, Lifespan(i)
      PROVE  registry'[u] = registry[u] \/ (registry'[u] = None /\ u \in shutdown[i].clear)
  <2>1. ASSUME NEW v \in Users, UnregisterClosed(i, v)
        PROVE  registry'[u] = registry[u] \/ (registry'[u] = None /\ u \in shutdown[i].clear)
    <3>1. registry' = [registry EXCEPT ![v] = None] /\ v \in shutdown[i].clear
      BY <2>1 DEF UnregisterClosed, unregister
    <3> QED BY <1>0, <3>1
  <2>2. CASE \/ StartSubscriber(i) \/ StartLiveness(i) \/ RefreshLiveness(i) \/ BeginShutdown(i)
             \/ (\E v \in Users : CloseConnection(i, v)) \/ MarkOfflineClosed(i)
             \/ StopSubscriber(i) \/ ShutdownFails(i) \/ Exit(i)
    <3>1. registry' = registry
      BY <2>2 DEF StartSubscriber, StartLiveness, RefreshLiveness, mark_alive, BeginShutdown,
         CloseConnection, MarkOfflineClosed, StopSubscriber, ShutdownFails, Exit
    <3> QED BY <3>1
  <2> QED BY <1>3, <2>1, <2>2 DEF Lifespan, Stopped, Crash
<1>4. ASSUME NEW i \in Instances, Deliver(i) \/ SubscriberDies(i) PROVE registry' = registry
  BY <1>4 DEF Deliver, TakeMessage, SendCompletes, SendFails, SubscriberDies
<1>5. CASE KeyExpires
  BY <1>0, <1>5 DEF KeyExpires, ExpireEntry, unregister, ExpireLiveness
<1> QED
  BY <1>1, <1>2, <1>3, <1>4, <1>5 DEF Next, vars

\* Who moves the presence key of a user.
LEMMA PresenceMoves ==
    ASSUME TypeOK, [Next]_vars, NEW u \in Users
    PROVE  \/ presence'[u] = presence[u]
           \/ \E t \in Sockets : /\ MarkOnline(t) \/ PresenceUpdate(t)
                                 /\ who[t] = u /\ presence'[u] # "offline"
           \/ /\ presence'[u] = "offline"
              /\ \/ \E t \in Sockets : MarkOffline(t) /\ who[t] = u
                 \/ \E i \in Instances : shutdown[i].offline = u
                 \/ KeysExpire
<1>0. /\ presence \in [Users -> PresenceStatus]
      /\ \A t \in Sockets : who[t] \in Users
  BY DEF TypeOK, PresenceTypeOK, GatewayTypeOK
<1> USE DEF gatewayVars
<1>1. ASSUME NEW s \in Sockets, Handler(s)
      PROVE  \/ presence'[u] = presence[u]
             \/ (MarkOnline(s) \/ PresenceUpdate(s)) /\ who[s] = u /\ presence'[u] # "offline"
             \/ presence'[u] = "offline" /\ MarkOffline(s) /\ who[s] = u
  <2>1. CASE MarkOnline(s)
    BY <1>0, <2>1 DEF MarkOnline, mark_online
  <2>2. CASE PresenceUpdate(s)
    BY <1>0, <2>2 DEF PresenceUpdate, mark_online, mark_away
  <2>3. CASE MarkOffline(s)
    BY <1>0, <2>3 DEF MarkOffline, mark_offline
  <2> QED
    BY <1>1, <2>1, <2>2, <2>3 DEF Handler, Connect, Reject, Register, GetBacklog, SendBacklog,
       ReadReceipt, Leave, Unregister, HandlerFails
<1>2. ASSUME NEW i \in Instances, Lifespan(i)
      PROVE  presence'[u] = presence[u] \/ (presence'[u] = "offline" /\ shutdown[i].offline = u)
  <2>1. CASE MarkOfflineClosed(i)
    <3>1. presence' = [presence EXCEPT ![shutdown[i].offline] = "offline"]
      BY <2>1 DEF MarkOfflineClosed, mark_offline
    <3> QED BY <1>0, <3>1
  <2>2. CASE \/ StartSubscriber(i) \/ StartLiveness(i) \/ RefreshLiveness(i) \/ BeginShutdown(i)
             \/ (\E v \in Users : CloseConnection(i, v) \/ UnregisterClosed(i, v))
             \/ StopSubscriber(i) \/ ShutdownFails(i) \/ Exit(i)
    <3>1. presence' = presence
      BY <2>2 DEF StartSubscriber, StartLiveness, RefreshLiveness, BeginShutdown, CloseConnection,
         UnregisterClosed, StopSubscriber, ShutdownFails, Exit
    <3> QED BY <3>1
  <2> QED BY <1>2, <2>1, <2>2 DEF Lifespan, Stopped, Crash
<1>3. ASSUME NEW i \in Instances, Deliver(i) \/ SubscriberDies(i) PROVE presence' = presence
  BY <1>3 DEF Deliver, TakeMessage, SendCompletes, SendFails, SubscriberDies
<1>4. CASE KeyExpires
  BY <1>0, <1>4 DEF KeyExpires, ExpirePresence, mark_offline, ApiFrame, RegistryFrame
<1> QED
  BY <1>1, <1>2, <1>3, <1>4 DEF Next, vars, Request, ApiFrame

-----------------------------------------------------------------------------
\* A handler that has not begun or has ended starts only where sockets are accepted.
LEMMA FinishedMoves ==
    ASSUME TypeOK, [Next]_vars, NEW s \in Sockets, Finished(s)
    PROVE  Finished(s)' \/ (Accepting(inst[s]) /\ Connect(s) /\ GatewayFrame)
<1>0. hpc \in [Sockets -> HandlerPc]
  BY DEF TypeOK, GatewayTypeOK
<1> USE DEF handlerVars, gatewayVars, Finished
<1>1. ASSUME NEW t \in Sockets, Handler(t)
      PROVE  Finished(s)' \/ (Accepting(inst[s]) /\ Connect(s) /\ GatewayFrame)
  BY <1>0, <1>1 DEF Handler, Connect, Reject, Register, MarkOnline, GetBacklog, SendBacklog,
     PresenceUpdate, ReadReceipt, Leave, Unregister, MarkOffline, HandlerFails, Goto, Resumes
<1>2. ASSUME NEW i \in Instances, Lifespan(i) PROVE Finished(s)'
  BY <1>0, <1>2 DEF Lifespan, StartSubscriber, StartLiveness, RefreshLiveness, BeginShutdown,
     CloseConnection, UnregisterClosed, MarkOfflineClosed, StopSubscriber, ShutdownFails, Stopped,
     Crash, Exit
<1>3. ASSUME NEW i \in Instances, Deliver(i) \/ SubscriberDies(i) PROVE hpc' = hpc
  BY <1>3 DEF Deliver, TakeMessage, SendCompletes, SendFails, SubscriberDies
<1> QED
  BY <1>1, <1>2, <1>3 DEF Next, vars, Request, ApiFrame, KeyExpires, RegistryFrame

\* A shutdown goes on until the process ends; it begins with BeginShutdown.
LEMMA ShutdownMoves ==
    ASSUME TypeOK, [Next]_vars, NEW i \in Instances,
           phase'[i] \in {"closing", "stopping", "aborted"}
    PROVE  phase[i] \in {"closing", "stopping", "aborted"} \/ BeginShutdown(i)
<1>0. phase \in [Instances -> Phase]
  BY DEF TypeOK
<1> USE DEF lifespanVars
<1>1. ASSUME NEW j \in Instances, Lifespan(j)
      PROVE  phase[i] \in {"closing", "stopping", "aborted"} \/ BeginShutdown(i)
  BY <1>0, <1>1 DEF Lifespan, StartSubscriber, StartLiveness, RefreshLiveness, BeginShutdown,
     CloseConnection, UnregisterClosed, MarkOfflineClosed, StopSubscriber, ShutdownFails, Stopped,
     Crash, Exit
<1>2. ASSUME NEW j \in Instances, Deliver(j) \/ SubscriberDies(j) PROVE phase' = phase
  BY <1>2 DEF Deliver, TakeMessage, SendCompletes, SendFails, SubscriberDies
<1> QED
  BY <1>1, <1>2 DEF Next, vars, Handler, Request, KeyExpires, GatewayFrame, ApiFrame, RegistryFrame

LEMMA DrainedStep ==
    ASSUME TypeOK, Drained, [Next]_vars
    PROVE  Drained'
<1> DEFINE Ending == {"closing", "stopping", "aborted"}
<1> SUFFICES ASSUME ServerDrains, NEW s \in Sockets, phase'[inst[s]] \in Ending
             PROVE  Finished(s)'
  BY SocketsFixed DEF Drained
<1>0. inst[s] \in Instances
  BY DEF TypeOK, GatewayTypeOK
<1>1. CASE phase[inst[s]] \in Ending
  <2>1. Finished(s) /\ ~Accepting(inst[s])
    BY <1>1 DEF Drained, Accepting
  <2> QED BY <2>1, FinishedMoves
<1>2. CASE BeginShutdown(inst[s])
  <2>1. Finished(s) /\ hpc' = hpc
    BY <1>2 DEF BeginShutdown, gatewayVars, handlerVars
  <2> QED BY <2>1 DEF Finished
<1> QED
  BY <1>0, <1>1, <1>2, ShutdownMoves

\* With a draining server no handler of an instance is running from the moment its
\* shutdown begins (main.py, `finally'): the end of a process cuts none off.
LEMMA ShutdownFindsNoHandler == Spec => []Drained
<1>1. Init => Drained
  BY DEF Init, GatewayInit, Drained, Finished
<1>2. TypeOK /\ Drained /\ [Next]_vars => Drained'
  BY DrainedStep
<1> QED
  BY <1>1, <1>2, PlatformTypeCorrect, PTL DEF Spec

\* There a handler that is served or cleaning up ends with its process only by a crash.
LEMMA DrainedAtExit ==
    ASSUME ~MayCrash, ServerDrains, Drained, NEW s \in Sockets, ~Finished(s)
    PROVE  ~(Stopped(inst[s]) \/ Crash(inst[s]))
BY DEF Stopped, Crash, Drained

LEMMA TracksStep ==
    ASSUME TypeOK, ~CallsMayFail, TracksHeldSockets, [Next]_vars
    PROVE  TracksHeldSockets'
<1> DEFINE Over == {"new", "unregister", "mark_offline", "closed"}
<1> SUFFICES ASSUME NEW i \in Instances, NEW u \in Users, NEW s, s = get(i, u)', s # None
             PROVE  who'[s] = u /\ inst'[s] = i /\ hpc'[s] \notin Over
  BY DEF TracksHeldSockets
<1>0. /\ who' = who /\ inst' = inst
      /\ connections \in [Instances -> [Users -> Sockets \cup {None}]]
      /\ hpc \in [Sockets -> HandlerPc]
  BY SocketsFixed DEF TypeOK, GatewayTypeOK, ConnectionsTypeOK
<1>1. CASE s = get(i, u)
  <2>1. s \in Sockets /\ who[s] = u /\ inst[s] = i /\ hpc[s] \notin Over
    BY <1>0, <1>1 DEF TracksHeldSockets, get
  <2>2. ~Leave(s)
    BY <1>0, <2>1 DEF Leave, remove, get
  <2>3. ~Exit(i)
    BY <1>0, <2>1 DEF Exit, get
  <2>4. hpc'[s] \notin Over
    BY <2>1, <2>2, <2>3, HandlerMoves DEF Reject, Unregister, MarkOffline
  <2> QED BY <1>0, <2>1, <2>4
<1>2. ASSUME NEW t \in Sockets, Connect(t), inst[t] = i, who[t] = u, s = t
      PROVE  who'[s] = u /\ inst'[s] = i /\ hpc'[s] \notin Over
  BY <1>0, <1>2 DEF Connect, Goto
<1> QED
  BY <1>1, <1>2, DictMoves

LEMMA OrphanStep ==
    ASSUME TypeOK, FaultFree, Drained, NoOrphanRoute, [Next]_vars
    PROVE  NoOrphanRoute'
<1> DEFINE Behind == {"mark_online", "get_backlog", "send_backlog", "receive", "unregister"}
<1>0. /\ who' = who /\ inst' = inst /\ hpc \in [Sockets -> HandlerPc]
      /\ registry \in [Users -> Instances \cup {None}]
  BY SocketsFixed DEF TypeOK, GatewayTypeOK, ApiTypeOK, RegistryTypeOK
<1> SUFFICES ASSUME NEW u \in Users, registry'[u] # None
             PROVE  \E s \in Sockets : who[s] = u /\ inst[s] = registry'[u] /\ hpc'[s] \in Behind
  BY <1>0 DEF NoOrphanRoute
<1>1. CASE registry'[u] = registry[u]
  <2>1. PICK s \in Sockets : who[s] = u /\ inst[s] = registry[u] /\ hpc[s] \in Behind
    BY <1>1 DEF NoOrphanRoute
  <2>2. ~Unregister(s)
    BY <1>0, <2>1 DEF Unregister, unregister
  <2>3. ~(Stopped(inst[s]) \/ Crash(inst[s]))
    BY <2>1, DrainedAtExit DEF FaultFree, Finished
  <2>4. hpc'[s] \in Behind
    BY <2>1, <2>2, <2>3, HandlerMoves DEF FaultFree, Connect, Reject, Register, MarkOffline
  <2> QED BY <1>1, <2>1, <2>4
<1>2. ASSUME NEW t \in Sockets, Register(t), who[t] = u, registry'[u] = inst[t]
      PROVE  hpc'[t] \in Behind
  BY <1>0, <1>2 DEF FaultFree, Register, Resumes, Goto
<1> QED
  BY <1>1, <1>2, EntryMoves

LEMMA GhostStep ==
    ASSUME TypeOK, FaultFree, Drained, NoGhostPresence, [Next]_vars
    PROVE  NoGhostPresence'
<1> DEFINE Behind == {"get_backlog", "send_backlog", "receive", "unregister", "mark_offline"}
<1>0. /\ who' = who /\ hpc \in [Sockets -> HandlerPc] /\ presence \in [Users -> PresenceStatus]
  BY SocketsFixed DEF TypeOK, GatewayTypeOK, PresenceTypeOK
<1> SUFFICES ASSUME NEW u \in Users, presence'[u] # "offline"
             PROVE  \E s \in Sockets : who[s] = u /\ hpc'[s] \in Behind
  BY <1>0 DEF NoGhostPresence
<1>1. CASE presence'[u] = presence[u]
  <2>1. PICK s \in Sockets : who[s] = u /\ hpc[s] \in Behind
    BY <1>1 DEF NoGhostPresence
  <2>2. ~MarkOffline(s)
    BY <1>0, <2>1 DEF MarkOffline, mark_offline
  <2>3. ~(Stopped(inst[s]) \/ Crash(inst[s]))
    BY <2>1, DrainedAtExit DEF FaultFree, Finished
  <2>4. hpc'[s] \in Behind
    BY <2>1, <2>2, <2>3, HandlerMoves DEF FaultFree, Connect, Reject, Register, MarkOnline
  <2> QED BY <2>1, <2>4
<1>2. ASSUME NEW t \in Sockets, MarkOnline(t) \/ PresenceUpdate(t) PROVE hpc'[t] \in Behind
  BY <1>0, <1>2 DEF FaultFree, MarkOnline, PresenceUpdate, handlerVars, Resumes, Goto
<1> QED
  BY <1>1, <1>2, PresenceMoves

-----------------------------------------------------------------------------
\* Where no call fails, the dict of an instance holds sockets its handlers are
\* serving, under their own users, through overlaps, crashes and shutdowns: `finally'
\* (gateway.py) always reaches manager.remove.
THEOREM HeldSocketsAreTracked == Spec /\ ~CallsMayFail => []TracksHeldSockets
<1>1. Init => TracksHeldSockets
  BY DEF Init, GatewayInit, ConnectionsInit, TracksHeldSockets, get
<1>2. TypeOK /\ ~CallsMayFail /\ TracksHeldSockets /\ [Next]_vars => TracksHeldSockets'
  BY TracksStep
<1>3. ~CallsMayFail => [](~CallsMayFail)
  OBVIOUS
<1> QED
  BY <1>1, <1>2, <1>3, PlatformTypeCorrect, PTL DEF Spec

\* Where no process crashes, no call fails and the server drains, every registry
\* entry has a handler behind it that will remove it (gateway.py, `finally'): no
\* route outlives the connections of its user.
THEOREM NoRouteIsOrphaned == Spec /\ FaultFree => []NoOrphanRoute
<1>1. Init => NoOrphanRoute
  BY DEF Init, ApiInit, RegistryInit, NoOrphanRoute
<1>2. TypeOK /\ FaultFree /\ Drained /\ NoOrphanRoute /\ [Next]_vars => NoOrphanRoute'
  BY OrphanStep
<1>3. FaultFree => []FaultFree
  BY DEF FaultFree
<1> QED
  BY <1>1, <1>2, <1>3, PlatformTypeCorrect, ShutdownFindsNoHandler, PTL DEF Spec

\* Likewise no user is shown online or away without a handler that will clear it.
THEOREM NoPresenceIsGhost == Spec /\ FaultFree => []NoGhostPresence
<1>1. Init => NoGhostPresence
  BY DEF Init, GatewayInit, PresenceInit, NoGhostPresence
<1>2. TypeOK /\ FaultFree /\ Drained /\ NoGhostPresence /\ [Next]_vars => NoGhostPresence'
  BY GhostStep
<1>3. FaultFree => []FaultFree
  BY DEF FaultFree
<1> QED
  BY <1>1, <1>2, <1>3, PlatformTypeCorrect, ShutdownFindsNoHandler, PTL DEF Spec

-----------------------------------------------------------------------------
\* A handler that starts finds the earlier ones of its user finished.
LEMMA OneHandlerStep ==
    ASSUME TypeOK, Orderly, SessionInv, [Next]_vars, NEW s \in Sockets, NEW t \in Sockets,
           who[s] = who[t], ~Finished(s)', ~Finished(t)'
    PROVE  s = t
<1>0. ~CallsMayFail /\ ~Overlap /\ hpc \in [Sockets -> HandlerPc]
  BY DEF Orderly, TypeOK, GatewayTypeOK
<1>1. ASSUME NEW x \in Sockets, ~Finished(x)' PROVE ~Finished(x) \/ Connect(x)
  BY <1>0, <1>1, HandlerMoves
     DEF Finished, Register, MarkOnline, GetBacklog, SendBacklog, Leave, Unregister
<1>2. ASSUME NEW x \in Sockets, NEW y \in Sockets, Connect(x), who[x] = who[y], ~Finished(y)'
      PROVE  x = y
  BY <1>0, <1>2 DEF Connect, Goto, Finished
<1>3. CASE ~Finished(s) /\ ~Finished(t)
  BY <1>3 DEF SessionInv
<1> QED
  BY <1>1, <1>2, <1>3

\* A server that drains its handlers first leaves the shutdown nothing to close.
LEMMA NothingToCloseStep ==
    ASSUME TypeOK, Orderly, TracksHeldSockets, SessionInv, [Next]_vars, NEW i \in Instances
    PROVE  shutdown'[i] = NoShutdown
<1>0. /\ shutdown \in [Instances -> Shutdown] /\ ServerDrains
      /\ \A j \in Instances : shutdown[j] = NoShutdown
      /\ connections \in [Instances -> [Users -> Sockets \cup {None}]]
  BY DEF TypeOK, GatewayTypeOK, ConnectionsTypeOK, Orderly, SessionInv
<1>1. CASE UNCHANGED shutdown
  BY <1>0, <1>1
<1>2. ASSUME NEW j \in Instances, Lifespan(j) PROVE shutdown'[i] = NoShutdown
  <2>1. CASE BeginShutdown(j)
    <3>1. connected_user_ids(j) = {}
      BY <1>0, <2>1 DEF BeginShutdown, Finished, connected_user_ids, TracksHeldSockets, get
    <3>2. shutdown' = [shutdown EXCEPT ![j] = NoShutdown]
      BY <2>1, <3>1 DEF BeginShutdown, NoShutdown
    <3> QED BY <1>0, <3>2
  <2>2. CASE Exit(j)
    BY <1>0, <2>2 DEF Exit
  <2>3. ASSUME NEW u \in Users, CloseConnection(j, u) \/ UnregisterClosed(j, u) PROVE FALSE
    <3>1. u \in shutdown[j].close \cup shutdown[j].clear
      BY <2>3 DEF CloseConnection, UnregisterClosed
    <3> QED BY <1>0, <3>1 DEF NoShutdown
  <2>4. ~MarkOfflineClosed(j)
    <3>1. shutdown[j].offline = None
      BY <1>0 DEF NoShutdown
    <3> QED BY <3>1 DEF MarkOfflineClosed
  <2>5. StartSubscriber(j) \/ StartLiveness(j) \/ RefreshLiveness(j) \/ StopSubscriber(j)
          => UNCHANGED shutdown
    BY DEF StartSubscriber, StartLiveness, RefreshLiveness, StopSubscriber, lifespanVars
  <2>6. ~ShutdownFails(j)
    BY DEF ShutdownFails, Orderly
  <2> QED
    BY <1>1, <1>2, <2>1, <2>2, <2>3, <2>4, <2>5, <2>6 DEF Lifespan, Stopped, Crash
<1>3. ASSUME NEW j \in Instances, Deliver(j) \/ SubscriberDies(j) PROVE UNCHANGED shutdown
  BY <1>3 DEF Deliver, TakeMessage, SendCompletes, SendFails, SubscriberDies, lifespanVars
<1> QED
  BY <1>1, <1>2, <1>3
     DEF Next, vars, Handler, Request, KeyExpires, GatewayFrame, ApiFrame, RegistryFrame, lifespanVars

LEMMA SessionStep ==
    ASSUME TypeOK, Orderly, TracksHeldSockets, SessionInv, [Next]_vars
    PROVE  SessionInv'
<1>0. /\ who' = who /\ inst' = inst /\ hpc \in [Sockets -> HandlerPc]
      /\ ~CallsMayFail /\ ~KeysExpire
      /\ \A s \in Sockets : who[s] \in Users
      /\ registry \in [Users -> Instances \cup {None}] /\ presence \in [Users -> PresenceStatus]
  BY SocketsFixed DEF Orderly, TypeOK, GatewayTypeOK, PresenceTypeOK, ApiTypeOK, RegistryTypeOK
<1>1. \A s, t \in Sockets : who'[s] = who'[t] /\ ~Finished(s)' /\ ~Finished(t)' => s = t
  BY <1>0, OneHandlerStep
<1>2. \A i \in Instances : shutdown'[i] = NoShutdown
  BY NothingToCloseStep
<1>3. \A i \in Instances : shutdown[i].clear = {} /\ shutdown[i].offline = None
  BY DEF SessionInv, NoShutdown
<1>4. ASSUME NEW s \in Sockets,
             hpc'[s] \in {"mark_online", "get_backlog", "send_backlog", "receive"}
      PROVE  registry'[who[s]] = inst[s]
  <2>1. CASE Register(s)
    BY <1>0, <2>1 DEF Register, register
  <2>2. CASE ~Register(s)
    <3>1. hpc[s] \in {"mark_online", "get_backlog", "send_backlog", "receive"}
      BY <1>0, <1>4, <2>2, HandlerMoves DEF MarkOnline, GetBacklog, SendBacklog
    <3>2. registry[who[s]] = inst[s]
      BY <3>1 DEF SessionInv
    <3>3. ASSUME NEW t \in Sockets, Register(t) \/ Unregister(t), who[t] = who[s] PROVE FALSE
      <4>1. hpc[t] \in {"register", "unregister"}
        BY <3>3 DEF Register, Unregister
      <4> QED BY <3>1, <3>3, <4>1 DEF SessionInv, Finished
    <3> QED BY <1>0, <1>3, <3>2, <3>3, EntryMoves
  <2> QED BY <2>1, <2>2
<1>5. ASSUME NEW s \in Sockets, hpc'[s] \in {"get_backlog", "send_backlog", "receive"}
      PROVE  presence'[who[s]] # "offline"
  <2>1. CASE MarkOnline(s)
    BY <1>0, <2>1 DEF MarkOnline, mark_online
  <2>2. CASE ~MarkOnline(s)
    <3>1. hpc[s] \in {"get_backlog", "send_backlog", "receive"}
      BY <1>0, <1>5, <2>2, HandlerMoves DEF GetBacklog, SendBacklog
    <3>2. presence[who[s]] # "offline"
      BY <3>1 DEF SessionInv
    <3>3. ASSUME NEW t \in Sockets, MarkOffline(t), who[t] = who[s] PROVE FALSE
      <4>1. hpc[t] = "mark_offline"
        BY <3>3 DEF MarkOffline
      <4> QED BY <3>1, <3>3, <4>1 DEF SessionInv, Finished
    <3> QED BY <1>0, <1>3, <3>2, <3>3, PresenceMoves, DomainAssumption
  <2> QED BY <2>1, <2>2
<1> QED
  BY <1>0, <1>1, <1>2, <1>4, <1>5 DEF SessionInv

\* With orderly clients and a server that drains, crashes allowed: one handler per
\* user at a time, nothing left for the shutdown to close, and a served user's
\* registry entry and presence key are its own.
THEOREM SessionInvariant == Spec /\ Orderly => []SessionInv
<1>1. Init => SessionInv
  BY DEF Init, GatewayInit, SessionInv, Finished
<1>2. TypeOK /\ Orderly /\ TracksHeldSockets /\ SessionInv /\ [Next]_vars => SessionInv'
  BY SessionStep
<1>3. Orderly => ~CallsMayFail
  BY DEF Orderly
<1>4. Orderly => []Orderly
  BY DEF Orderly
<1> QED
  BY <1>1, <1>2, <1>3, <1>4, HeldSocketsAreTracked, PlatformTypeCorrect, PTL DEF Spec

\* A user with a socket in its receive loop is routed to the instance of it.
THEOREM ConnectedUsersAreMapped == Spec /\ Orderly => []RegistryMapsConnectedUsers
<1>1. SessionInv => RegistryMapsConnectedUsers
  BY DEF SessionInv, RegistryMapsConnectedUsers
<1> QED BY <1>1, SessionInvariant, PTL

\* Such a user is shown online or away.
THEOREM ConnectedUsersAreShown == Spec /\ Orderly => []ConnectedUsersArePresent
<1>1. SessionInv => ConnectedUsersArePresent
  BY DEF SessionInv, ConnectedUsersArePresent
<1> QED BY <1>1, SessionInvariant, PTL
=============================================================================
