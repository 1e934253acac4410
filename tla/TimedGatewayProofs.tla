------------------------ MODULE TimedGatewayProofs --------------------------
(***************************************************************************)
(* What the clocked gateway guarantees, for every value of the constants:  *)
(* types, the inductive invariant TimedInv part by part, and the safety    *)
(* properties of TimedGateway that follow from it.                         *)
(***************************************************************************)
EXTENDS TimedGateway, TLAPS

\* The sleep of the liveness loop is at least a tick, and with a TTL of three or
\* more two sleeps are shorter than the TTL.
LEMMA IntervalBounds ==
    /\ Interval \in Nat \ {0}
    /\ LivenessTtl >= 3 => Interval + Interval < LivenessTtl
BY TimedAssumption DEF Interval

-----------------------------------------------------------------------------
\* The steps of Gateway that TimedGateway uses.
GatewayStep(s) ==
    \/ Connect(s) \/ Reject(s) \/ Register(s) \/ MarkOnline(s) \/ GetBacklog(s)
    \/ SendBacklog(s) \/ PresenceUpdate(s) \/ Leave(s) \/ Unregister(s)
    \/ MarkOffline(s) \/ HandlerFails(s)

\* They keep the types of the untimed variables.
LEMMA GatewayTypes ==
    ASSUME GatewayTypeOK, RegistryTypeOK, RepositoryTypeOK, NEW s \in Sockets, GatewayStep(s)
    PROVE  GatewayTypeOK' /\ RegistryTypeOK' /\ RepositoryTypeOK'
<1> USE DEF GatewayTypeOK, RegistryTypeOK, RepositoryTypeOK, HandlerPc, PresenceTypeOK,
            PresenceStatus, ConnectionsTypeOK, registryVars, repositoryVars, Goto, Resumes
<1>1. CASE Connect(s)          BY <1>1 DEF Connect, add
<1>2. CASE Reject(s)           BY <1>2 DEF Reject
<1>3. CASE Register(s)         BY <1>3 DEF Register, register
<1>4. CASE MarkOnline(s)       BY <1>4 DEF MarkOnline, mark_online
<1>5. CASE GetBacklog(s)       BY <1>5 DEF GetBacklog, get_unread_backlog, Unread
<1>6. CASE SendBacklog(s)      BY <1>6 DEF SendBacklog
<1>7. CASE PresenceUpdate(s)   BY <1>7 DEF PresenceUpdate, mark_online, mark_away, handlerVars
<1>8. CASE Leave(s)            BY <1>8 DEF Leave, remove
<1>9. CASE Unregister(s)       BY <1>9 DEF Unregister, unregister
<1>10. CASE MarkOffline(s)     BY <1>10 DEF MarkOffline, mark_offline
<1>11. CASE HandlerFails(s)    BY <1>11 DEF HandlerFails
<1> QED
  BY <1>1, <1>2, <1>3, <1>4, <1>5, <1>6, <1>7, <1>8, <1>9, <1>10, <1>11 DEF GatewayStep

\* Every step of the system is a step of a handler, of an upgrade, of a loop, of a
\* process or of the clock.
LEMMA GatewayMoves ==
    ASSUME NEW s \in Sockets, ServeSocket(s) \/ LeaveLoop(s) \/ RoutePresenceUpdate(s)
                              \/ \E t \in Tickets : Upgrade(s, t)
    PROVE  GatewayStep(s)
BY DEF GatewayStep, ServeSocket, LeaveLoop, RoutePresenceUpdate, Upgrade

-----------------------------------------------------------------------------
\* Every step keeps the types.
LEMMA TypeStep ==
    ASSUME TimedTypeOK, [TimedNext]_timedVars
    PROVE  TimedTypeOK'
<1> DEFINE Untimed == GatewayTypeOK /\ RegistryTypeOK /\ RepositoryTypeOK
<1>0. /\ Untimed /\ LimiterTypeOK /\ TicketTypeOK /\ ClockTypeOK
      /\ Untimed' /\ LimiterTypeOK' /\ TicketTypeOK' /\ ClockTypeOK' => TimedTypeOK'
  BY DEF TimedTypeOK
<1>a. UNCHANGED gatewayVars => Untimed'
  BY <1>0 DEF gatewayVars, handlerVars, registryVars, repositoryVars, GatewayTypeOK,
     RegistryTypeOK, RepositoryTypeOK, PresenceTypeOK, ConnectionsTypeOK
<1>b. UNCHANGED limiterVars => LimiterTypeOK'
  BY <1>0 DEF limiterVars, LimiterTypeOK
<1>c. UNCHANGED ticketVars => TicketTypeOK'
  BY <1>0 DEF ticketVars, TicketTypeOK
<1>d. HandlerFrame => LimiterTypeOK' /\ TicketTypeOK'
  BY <1>b, <1>c DEF HandlerFrame
<1>e. LoopFrame => LimiterTypeOK' /\ TicketTypeOK'
  BY <1>b, <1>c DEF LoopFrame
<1>f. SweepFrame => Untimed' /\ LimiterTypeOK' /\ TicketTypeOK'
  BY <1>a, <1>b, <1>c DEF SweepFrame
<1>1. CASE IssueTicket
  <2>0. PICK c \in Credentials : issue_ws_ticket(c)
    BY <1>1 DEF IssueTicket
  <2>1. TicketTypeOK'
    <3>1. decode_user_id(c) \in Users
      BY <2>0 DEF issue_ws_ticket, decode_user_id
    <3> QED BY <1>0, <2>0, <3>1, TicketAssumption DEF issue_ws_ticket, TicketTypeOK, SetEx
  <2>2. ClockTypeOK'
    BY <1>0, <1>1 DEF IssueTicket, ClockTypeOK, userKeys, loopVars, sweepVars
  <2> QED BY <1>0, <1>1, <1>a, <1>b, <2>1, <2>2 DEF IssueTicket
<1>2. ASSUME NEW s \in Sockets, NEW t \in Tickets, Upgrade(s, t) PROVE TimedTypeOK'
  <2>1. Untimed'
    BY <1>0, <1>2, GatewayMoves, GatewayTypes
  <2>2. TicketTypeOK'
    BY <1>0, <1>2, <1>c, TicketAssumption DEF Upgrade, redeem_ticket, TicketTypeOK, Del
  <2>3. ClockTypeOK'
    BY <1>0, <1>2 DEF Upgrade, ClockTypeOK, userKeys, loopVars, sweepVars
  <2> QED BY <1>0, <1>2, <1>b, <2>1, <2>2, <2>3 DEF Upgrade
<1>3. ASSUME NEW s \in Sockets, ServeSocket(s) PROVE TimedTypeOK'
  <2>1. Untimed'
    BY <1>0, <1>3, GatewayMoves, GatewayTypes
  <2>2. who[s] \in Users
    BY <1>0 DEF GatewayTypeOK
  <2>3. ClockTypeOK'
    BY <1>0, <1>3, <2>2, TimedAssumption DEF ServeSocket, HandlerFrame, ClockTypeOK, userKeys,
       loopVars, sweepVars, SetEntry, SetPresence, SetEx, Del
  <2> QED BY <1>0, <1>3, <1>d, <2>1, <2>3 DEF ServeSocket
<1>4. ASSUME NEW s \in Sockets,
             HeartbeatPresence(s) \/ HeartbeatRegistry(s) \/ RoutePresenceUpdate(s) \/ LeaveLoop(s)
      PROVE  TimedTypeOK'
  <2>1. Untimed'
    BY <1>0, <1>4, <1>a, GatewayMoves, GatewayTypes DEF HeartbeatPresence, HeartbeatRegistry
  <2>2. who[s] \in Users
    BY <1>0 DEF GatewayTypeOK
  <2>3. HandlerFrame
    BY <1>4 DEF HeartbeatPresence, HeartbeatRegistry, RoutePresenceUpdate, LeaveLoop
  <2>4. ClockTypeOK'
    BY <1>0, <1>4, <2>2, <2>3, TimedAssumption DEF HeartbeatPresence, HeartbeatRegistry,
       RoutePresenceUpdate, LeaveLoop, HandlerFrame, ClockTypeOK, userKeys, loopVars, sweepVars,
       heartbeat, refresh, SetPresence, SetEx, Expire
  <2> QED BY <1>0, <1>d, <2>1, <2>3, <2>4
<1>5. ASSUME NEW s \in Sockets, ReceiveFrame(s) PROVE TimedTypeOK'
  <2>1. LimiterTypeOK'
    <3>1. s \in Callers
      BY TimedAssumption
    <3> QED BY <1>0, <1>5, <3>1, LimiterAssumption
            DEF ReceiveFrame, allow, Watch, LimiterTypeOK, SetEx
  <2>2. ClockTypeOK'
    BY <1>0, <1>5 DEF ReceiveFrame, ClockTypeOK, userKeys, loopVars, sweepVars
  <2> QED BY <1>0, <1>5, <1>a, <1>c, <2>1, <2>2 DEF ReceiveFrame
<1>6. ASSUME NEW i \in Instances, StartInstance(i) \/ CrashInstance(i) \/ RefreshAlive(i)
      PROVE  TimedTypeOK'
  <2> USE DEF mark_alive_ex, mark_alive, GatewayTypeOK, RegistryTypeOK, RepositoryTypeOK,
              PresenceTypeOK, ConnectionsTypeOK, handlerVars, registryVars, repositoryVars
  <2>1. ASSUME StartInstance(i) PROVE Untimed'
    BY <1>0, <2>1 DEF StartInstance, LoopFrame
  <2>2. ASSUME CrashInstance(i) PROVE Untimed'
    BY <1>0, <2>2 DEF CrashInstance, LoopFrame, HandlerPc
  <2>3. ASSUME RefreshAlive(i) PROVE Untimed'
    BY <1>0, <2>3 DEF RefreshAlive, LoopFrame
  <2> HIDE DEF mark_alive, GatewayTypeOK, RegistryTypeOK, RepositoryTypeOK
  <2>4. LoopFrame
    BY <1>6 DEF StartInstance, CrashInstance, RefreshAlive
  <2>5. ClockTypeOK'
    <3>1. CASE StartInstance(i)
      BY <1>0, <3>1, IntervalBounds, TimedAssumption DEF StartInstance, LoopFrame, ClockTypeOK,
         userKeys, sweepVars, SetEx
    <3>2. CASE CrashInstance(i)
      BY <1>0, <3>2, IntervalBounds, TimedAssumption DEF CrashInstance, LoopFrame, ClockTypeOK,
         userKeys
    <3>3. CASE RefreshAlive(i)
      BY <1>0, <3>3, IntervalBounds, TimedAssumption DEF RefreshAlive, LoopFrame, ClockTypeOK,
         userKeys, sweepVars, SetEx
    <3> QED BY <1>6, <3>1, <3>2, <3>3
  <2> QED BY <1>0, <1>6, <1>e, <2>1, <2>2, <2>3, <2>4, <2>5
<1>7. ASSUME NEW i \in Instances,
             BeginSweep(i) \/ SweepFails(i) \/ \E u \in Users : SweepOne(i, u)
      PROVE  TimedTypeOK'
  <2>1. SweepFrame
    BY <1>7 DEF BeginSweep, SweepFails, SweepOne
  <2>2. ClockTypeOK'
    BY <1>0, <1>7 DEF BeginSweep, SweepFails, SweepOne, connected_user_ids, SweepFrame,
       ClockTypeOK, userKeys, loopVars
  <2> QED BY <1>0, <1>f, <2>1, <2>2
<1>8. CASE Tick
  <2>1. Untimed'
    BY <1>0, <1>8 DEF Tick, GatewayTypeOK, RegistryTypeOK, RepositoryTypeOK, PresenceTypeOK,
       PresenceStatus, ConnectionsTypeOK, handlerVars, repositoryVars
  <2>2. LimiterTypeOK'
    BY <1>0, <1>8, LimiterAssumption DEF Tick, LimiterTick, LimiterTypeOK, Decay
  <2>3. TicketTypeOK'
    BY <1>0, <1>8, TicketAssumption DEF Tick, TicketTick, TicketTypeOK, Decay
  <2>4. ClockTypeOK'
    BY <1>0, <1>8, IntervalBounds, TimedAssumption DEF Tick, ClockTypeOK, Decay, sweepVars
  <2> QED BY <1>0, <2>1, <2>2, <2>3, <2>4
<1>9. CASE UNCHANGED timedVars
  <2>1. ClockTypeOK'
    BY <1>0, <1>9 DEF timedVars, ClockTypeOK, userKeys, loopVars, sweepVars
  <2> QED BY <1>0, <1>9, <1>a, <1>b, <1>c, <2>1 DEF timedVars
<1> QED
  BY <1>1, <1>2, <1>3, <1>4, <1>5, <1>6, <1>7, <1>8, <1>9 DEF TimedNext, Handler

\* Variables of one part that the steps of the others leave alone.
LEMMA LeftAlone ==
    ASSUME NEW s \in Sockets, Handler(s) \/ LeaveLoop(s)
    PROVE  UNCHANGED <<limiterVars, ticketVars, opener, loopVars, sweepVars>> /\ alive' = alive
<1>1. HandlerFrame
  BY DEF Handler, ServeSocket, HeartbeatPresence, HeartbeatRegistry, RoutePresenceUpdate, LeaveLoop
<1>2. alive' = alive
  BY DEF Handler, ServeSocket, HeartbeatPresence, HeartbeatRegistry, RoutePresenceUpdate,
     LeaveLoop, Register, register, MarkOnline, GetBacklog, SendBacklog, Unregister, unregister,
     MarkOffline, HandlerFails, PresenceUpdate, Leave, gatewayVars, registryVars
<1> QED BY <1>1, <1>2 DEF HandlerFrame

-----------------------------------------------------------------------------
\* The limiter's script and the clock keep what LimiterInv says of a caller.
LEMMA LimiterStep ==
    ASSUME TimedTypeOK, LimiterInv, [TimedNext]_timedVars
    PROVE  LimiterInv'
<1>0. LimiterTypeOK
  BY DEF TimedTypeOK
<1>1. CASE UNCHANGED limiterVars
  BY <1>1 DEF LimiterInv, Counted, limiterVars
<1>2. ASSUME NEW s \in Sockets, ReceiveFrame(s) PROVE LimiterInv'
  <2>0. s \in Callers /\ allow(s)
    BY <1>2, TimedAssumption DEF ReceiveFrame
  <2>1. ASSUME NEW c \in Callers, c # s
        PROVE  /\ count'[c] = count[c] /\ window'[c] = window[c]
               /\ span'[c] = span[c] /\ passed'[c] = passed[c]
    BY <1>0, <2>0, <2>1 DEF allow, Watch, SetEx, LimiterTypeOK
  <2>2. /\ count'[s] = IF count[s] <= Limit THEN count[s] + 1 ELSE count[s]
        /\ window'[s] = IF count[s] = 0 THEN Window ELSE window[s]
        /\ \/ /\ count[s] < Limit /\ span[s] > 0
              /\ passed'[s] = passed[s] + 1 /\ span'[s] = span[s]
           \/ /\ count[s] < Limit /\ span[s] = 0
              /\ passed'[s] = 1 /\ span'[s] = Window
           \/ /\ count[s] < Limit => span[s] = 0
              /\ passed'[s] = passed[s] /\ span'[s] = span[s]
    BY <1>0, <2>0 DEF allow, Watch, Allowed, SetEx, LimiterTypeOK
  <2>3. /\ count[s] \in 0 .. Limit + 1 /\ window[s] \in 0 .. Window
        /\ span[s] \in 0 .. Window /\ passed[s] \in Nat
    BY <1>0, <2>0 DEF LimiterTypeOK
  <2> QED BY <2>0, <2>1, <2>2, <2>3, LimiterAssumption DEF LimiterInv, Counted
<1>3. CASE Tick
  <2> SUFFICES ASSUME NEW c \in Callers
               PROVE  /\ count'[c] = 0 <=> window'[c] = 0
                      /\ span'[c] = 0 => passed'[c] = 0
                      /\ span'[c] > 0 =>
                           \/ /\ passed'[c] <= Counted(c)' /\ count'[c] > 0
                              /\ passed'[c] < Counted(c)' \/ window'[c] >= span'[c]
                           \/ /\ passed'[c] < Limit + Counted(c)'
                              /\ window'[c] = 0 \/ window'[c] >= span'[c]
    BY DEF LimiterInv
  <2>1. /\ count[c] \in 0 .. Limit + 1 /\ window[c] \in 0 .. Window
        /\ span[c] \in 0 .. Window /\ passed[c] \in Nat
    BY <1>0 DEF LimiterTypeOK
  <2>2. /\ window'[c] = IF window[c] = 0 THEN 0 ELSE window[c] - 1
        /\ count'[c] = IF window'[c] = 0 THEN 0 ELSE count[c]
        /\ span'[c] = IF span[c] = 0 THEN 0 ELSE span[c] - 1
        /\ passed'[c] = IF span'[c] = 0 THEN 0 ELSE passed[c]
    BY <1>0, <1>3 DEF Tick, LimiterTick, Decay, LimiterTypeOK
  <2> QED BY <2>1, <2>2, LimiterAssumption DEF LimiterInv, Counted
<1> QED
  BY <1>1, <1>2, <1>3, LeftAlone DEF TimedNext, timedVars, IssueTicket, Upgrade, StartInstance,
     CrashInstance, RefreshAlive, LoopFrame, BeginSweep, SweepOne, SweepFails, SweepFrame

-----------------------------------------------------------------------------
\* A ticket is issued with a fresh value and gone once it has been redeemed.
LEMMA TicketStep ==
    ASSUME TimedTypeOK, TicketInv, [TimedNext]_timedVars
    PROVE  TicketInv'
<1>0. /\ TicketTypeOK /\ opener \in [Sockets -> Tickets \cup {None}]
      /\ who \in [Sockets -> Users]
  BY DEF TimedTypeOK, ClockTypeOK, GatewayTypeOK
<1>1. CASE UNCHANGED <<ticketVars, opener>>
  BY <1>1 DEF TicketInv, ticketVars
<1>2. CASE IssueTicket
  <2>1. PICK c \in Credentials : issue_ws_ticket(c)
    BY <1>2 DEF IssueTicket
  <2>2. opener' = opener
    BY <1>2 DEF IssueTicket
  <2> QED BY <1>0, <2>1, <2>2 DEF issue_ws_ticket, TicketInv, TicketTypeOK
<1>3. ASSUME NEW s \in Sockets, NEW t \in Tickets, Upgrade(s, t) PROVE TicketInv'
  <2>1. CASE ticket[t] = who[s] /\ redeem_ticket(t) /\ opener' = [opener EXCEPT ![s] = t]
    <3>1. ticket[t] # None
      BY <1>0, <2>1, DomainAssumption
    <3>2. t \in issued
      BY <3>1 DEF TicketInv
    <3> QED BY <1>0, <2>1, <3>1, <3>2, TicketAssumption DEF redeem_ticket, TicketInv, TicketTypeOK
  <2>2. CASE redeem_ticket(t) /\ opener' = opener
    BY <1>0, <2>2 DEF redeem_ticket, TicketInv, TicketTypeOK
  <2> QED BY <1>1, <1>3, <2>1, <2>2 DEF Upgrade
<1>4. CASE Tick
  BY <1>0, <1>4, TicketAssumption DEF Tick, TicketTick, TicketInv, TicketTypeOK
<1> QED
  BY <1>1, <1>2, <1>3, <1>4, LeftAlone DEF TimedNext, timedVars, ReceiveFrame, StartInstance,
     CrashInstance, RefreshAlive, LoopFrame, BeginSweep, SweepOne, SweepFails, SweepFrame

-----------------------------------------------------------------------------
\* A command on a key and the variable that holds the key's value agree.
LEMMA KeyStep ==
    ASSUME TimedTypeOK, KeyInv, [TimedNext]_timedVars
    PROVE  KeyInv'
<1>0. /\ registry \in [Users -> Instances \cup {None}] /\ alive \in SUBSET Instances
      /\ presence \in [Users -> PresenceStatus]
      /\ who \in [Sockets -> Users] /\ inst \in [Sockets -> Instances]
      /\ entryTtl \in [Users -> 0 .. PresenceTtl] /\ presenceTtl \in [Users -> 0 .. PresenceTtl]
      /\ quiet \in [Users -> 0 .. PresenceTtl] /\ aliveTtl \in [Instances -> 0 .. LivenessTtl]
  BY DEF TimedTypeOK, ClockTypeOK, GatewayTypeOK, RegistryTypeOK, PresenceTypeOK
<1> DEFINE EntryInv == \A u \in Users :
             /\ registry[u] = None <=> entryTtl[u] = 0
             /\ registry[u] # None => entryTtl[u] + quiet[u] <= PresenceTtl
           PresInv == \A u \in Users : presence[u] = "offline" <=> presenceTtl[u] = 0
           AliveInv == \A i \in Instances : i \in alive <=> aliveTtl[i] > 0
<1>1. EntryInv /\ PresInv /\ AliveInv /\ (EntryInv' /\ PresInv' /\ AliveInv' => KeyInv')
  BY DEF KeyInv
<1>2. /\ UNCHANGED <<registry, entryTtl, quiet>> => EntryInv'
      /\ UNCHANGED <<presence, presenceTtl>> => PresInv'
      /\ UNCHANGED <<alive, aliveTtl>> => AliveInv'
  BY <1>1
<1>3. ASSUME NEW s \in Sockets, Handler(s) \/ LeaveLoop(s) PROVE KeyInv'
  <2>0. AliveInv'
    BY <1>2, <1>3, LeftAlone DEF loopVars
  <2>1. who[s] \in Users /\ inst[s] \in Instances /\ inst[s] # None
    BY <1>0, DomainAssumption
  <2>2. CASE Register(s) /\ SetEntry(who[s])
    <3>1. PresInv'
      BY <1>2, <2>2 DEF Register, SetEntry
    <3>2. EntryInv'
      BY <1>0, <1>1, <2>1, <2>2, TimedAssumption DEF Register, register, SetEntry, SetEx
    <3> QED BY <1>1, <2>0, <3>1, <3>2
  <2>3. CASE (MarkOnline(s) \/ PresenceUpdate(s)) /\ SetPresence(who[s])
    <3>1. EntryInv'
      BY <1>2, <2>3 DEF MarkOnline, PresenceUpdate, SetPresence, registryVars
    <3>2. PresInv'
      BY <1>0, <1>1, <2>1, <2>3, TimedAssumption DEF MarkOnline, PresenceUpdate, mark_online,
         mark_away, SetPresence, SetEx
    <3> QED BY <1>1, <2>0, <3>1, <3>2
  <2>4. CASE (GetBacklog(s) \/ SendBacklog(s) \/ HandlerFails(s) \/ Leave(s)) /\ UNCHANGED userKeys
    BY <1>1, <1>2, <2>0, <2>4 DEF GetBacklog, SendBacklog, HandlerFails, Leave, userKeys,
       registryVars
  <2>5. CASE Unregister(s) /\ entryTtl' = Del(entryTtl, who[s])
             /\ UNCHANGED <<presenceTtl, quiet, late>>
    <3>1. PresInv'
      BY <1>2, <2>5 DEF Unregister
    <3>2. EntryInv'
      BY <1>0, <1>1, <2>1, <2>5 DEF Unregister, unregister, Del
    <3> QED BY <1>1, <2>0, <3>1, <3>2
  <2>6. CASE MarkOffline(s) /\ presenceTtl' = Del(presenceTtl, who[s])
             /\ UNCHANGED <<entryTtl, quiet, late>>
    <3>1. EntryInv'
      BY <1>2, <2>6 DEF MarkOffline, registryVars
    <3>2. PresInv'
      BY <1>0, <1>1, <2>1, <2>6 DEF MarkOffline, mark_offline, Del
    <3> QED BY <1>1, <2>0, <3>1, <3>2
  <2>7. CASE HeartbeatPresence(s)
    <3>1. EntryInv'
      BY <1>2, <2>7 DEF HeartbeatPresence, heartbeat, gatewayVars, registryVars
    <3>2. PresInv'
      BY <1>0, <1>1, <2>1, <2>7, TimedAssumption DEF HeartbeatPresence, heartbeat, Expire,
         gatewayVars
    <3> QED BY <1>1, <2>0, <3>1, <3>2
  <2>8. CASE HeartbeatRegistry(s)
    <3>1. PresInv'
      BY <1>2, <2>8 DEF HeartbeatRegistry, gatewayVars
    <3>2. EntryInv'
      BY <1>0, <1>1, <2>1, <2>8, TimedAssumption DEF HeartbeatRegistry, refresh, Expire,
         gatewayVars, registryVars
    <3> QED BY <1>1, <2>0, <3>1, <3>2
  <2> QED BY <1>3, <2>2, <2>3, <2>4, <2>5, <2>6, <2>7, <2>8
          DEF Handler, ServeSocket, RoutePresenceUpdate, LeaveLoop
<1>4. ASSUME NEW i \in Instances, StartInstance(i) \/ CrashInstance(i) \/ RefreshAlive(i)
      PROVE  KeyInv'
  <2>1. EntryInv' /\ PresInv'
    BY <1>2, <1>4 DEF StartInstance, CrashInstance, RefreshAlive, LoopFrame, userKeys,
       mark_alive_ex, mark_alive, registryVars
  <2>2. AliveInv'
    BY <1>0, <1>1, <1>4, TimedAssumption DEF StartInstance, CrashInstance, RefreshAlive,
       mark_alive_ex, mark_alive, registryVars, SetEx
  <2> QED BY <1>1, <2>1, <2>2
<1>5. CASE Tick
  <2>1. EntryInv'
    <3> SUFFICES ASSUME NEW u \in Users
                 PROVE  /\ registry'[u] = None <=> entryTtl'[u] = 0
                        /\ registry'[u] # None => entryTtl'[u] + quiet'[u] <= PresenceTtl
      OBVIOUS
    <3>1. /\ entryTtl'[u] = IF entryTtl[u] = 0 THEN 0 ELSE entryTtl[u] - 1
          /\ registry'[u] = IF entryTtl'[u] = 0 THEN None ELSE registry[u]
          /\ quiet'[u] = IF quiet[u] < PresenceTtl THEN quiet[u] + 1 ELSE PresenceTtl
      BY <1>0, <1>5 DEF Tick, Decay
    <3> QED BY <1>0, <1>1, <3>1, TimedAssumption
  <2>2. PresInv'
    BY <1>0, <1>1, <1>5 DEF Tick, Decay
  <2>3. AliveInv'
    BY <1>0, <1>1, <1>5 DEF Tick, Decay
  <2> QED BY <1>1, <2>1, <2>2, <2>3
<1>6. CASE UNCHANGED <<registry, alive, presence, entryTtl, presenceTtl, quiet, aliveTtl>>
  BY <1>1, <1>2, <1>6
<1> QED
  BY <1>3, <1>4, <1>5, <1>6 DEF TimedNext, timedVars, gatewayVars, registryVars, userKeys, loopVars,
     IssueTicket, Upgrade, Connect, Reject, ReceiveFrame, BeginSweep, SweepOne, SweepFails,
     SweepFrame

-----------------------------------------------------------------------------
\* A liveness key is refreshed each time the loop wakes up, and nobody touches it
\* once the instance is down.
LEMMA LoopStep ==
    ASSUME TimedTypeOK, KeyInv, LoopInv, [TimedNext]_timedVars
    PROVE  LoopInv'
<1>0. /\ alive \in SUBSET Instances /\ up \in SUBSET Instances
      /\ aliveTtl \in [Instances -> 0 .. LivenessTtl] /\ down \in [Instances -> 0 .. LivenessTtl]
      /\ sleep \in [Instances -> 0 .. Interval] /\ misses \in [Instances -> 0 .. MaxMisses]
  BY DEF TimedTypeOK, ClockTypeOK, RegistryTypeOK
<1>1. CASE UNCHANGED <<alive, loopVars>>
  BY <1>1 DEF LoopInv, loopVars
<1>2. ASSUME NEW i \in Instances, StartInstance(i) \/ CrashInstance(i) \/ RefreshAlive(i)
      PROVE  LoopInv'
  <2> SUFFICES ASSUME NEW j \in Instances
               PROVE  /\ j \in up' => down'[j] = 0
                      /\ j \notin up' /\ j \in alive' => aliveTtl'[j] + down'[j] <= LivenessTtl
                      /\ j \in up' /\ LivenessTtl >= 3 =>
                           /\ misses'[j] = 0 => aliveTtl'[j] + Interval >= LivenessTtl + sleep'[j]
                           /\ misses'[j] = 1 =>
                                aliveTtl'[j] + Interval + Interval >= LivenessTtl + sleep'[j]
    BY DEF LoopInv
  <2>1. ASSUME j # i
        PROVE  /\ j \in up' <=> j \in up
               /\ j \in alive' <=> j \in alive
               /\ aliveTtl'[j] = aliveTtl[j] /\ down'[j] = down[j]
               /\ sleep'[j] = sleep[j] /\ misses'[j] = misses[j]
    BY <1>0, <1>2, <2>1 DEF StartInstance, CrashInstance, RefreshAlive, mark_alive_ex, mark_alive,
       registryVars, SetEx
  <2>2. CASE j # i
    BY <2>1, <2>2 DEF LoopInv
  <2>3. CASE j = i /\ StartInstance(i)
    <3>1. /\ j \in up' /\ down'[j] = 0 /\ aliveTtl'[j] = LivenessTtl /\ sleep'[j] = Interval
      BY <1>0, <2>3 DEF StartInstance, mark_alive_ex, SetEx
    <3> QED BY <3>1, IntervalBounds, TimedAssumption
  <2>4. CASE j = i /\ CrashInstance(i)
    <3>1. j \in up /\ j \notin up' /\ down'[j] = down[j] /\ aliveTtl'[j] = aliveTtl[j]
      BY <1>0, <2>4 DEF CrashInstance
    <3> QED BY <1>0, <3>1, TimedAssumption DEF LoopInv
  <2>5. CASE j = i /\ RefreshAlive(i)
    <3>1. /\ j \in up /\ j \in up' /\ down'[j] = down[j] /\ sleep[j] = 0 /\ sleep'[j] = Interval
          /\ \/ misses'[j] = 0 /\ aliveTtl'[j] = LivenessTtl
             \/ /\ aliveTtl'[j] = aliveTtl[j]
                /\ misses'[j] = IF misses[j] < MaxMisses THEN misses[j] + 1 ELSE misses[j]
      BY <1>0, <2>5 DEF RefreshAlive, mark_alive_ex, SetEx
    <3> QED BY <1>0, <3>1, IntervalBounds, TimedAssumption DEF LoopInv
  <2> QED BY <1>2, <2>2, <2>3, <2>4, <2>5
<1>3. CASE Tick
  <2> SUFFICES ASSUME NEW j \in Instances
               PROVE  /\ j \in up' => down'[j] = 0
                      /\ j \notin up' /\ j \in alive' => aliveTtl'[j] + down'[j] <= LivenessTtl
                      /\ j \in up' /\ LivenessTtl >= 3 =>
                           /\ misses'[j] = 0 => aliveTtl'[j] + Interval >= LivenessTtl + sleep'[j]
                           /\ misses'[j] = 1 =>
                                aliveTtl'[j] + Interval + Interval >= LivenessTtl + sleep'[j]
    BY DEF LoopInv
  <2>1. /\ up' = up /\ misses' = misses /\ (j \in up => sleep[j] > 0)
        /\ aliveTtl'[j] = IF aliveTtl[j] = 0 THEN 0 ELSE aliveTtl[j] - 1
        /\ j \in alive' <=> j \in alive /\ aliveTtl'[j] > 0
        /\ sleep'[j] = IF sleep[j] = 0 THEN 0 ELSE sleep[j] - 1
        /\ down'[j] = IF j \notin up /\ down[j] < LivenessTtl THEN down[j] + 1 ELSE down[j]
    BY <1>0, <1>3 DEF Tick, Decay
  <2>2. j \in alive <=> aliveTtl[j] > 0
    BY DEF KeyInv
  <2> QED BY <1>0, <2>1, <2>2, IntervalBounds, TimedAssumption DEF LoopInv
<1> QED
  BY <1>1, <1>2, <1>3, LeftAlone DEF TimedNext, timedVars, gatewayVars, registryVars, loopVars,
     IssueTicket, Upgrade, Connect, Reject, ReceiveFrame, BeginSweep, SweepOne, SweepFails,
     SweepFrame

-----------------------------------------------------------------------------
\* What BeatInv says of one socket.
Beats(s) ==
    LET u == who[s]
    IN  /\ hpc[s] \in {"mark_online", "get_backlog", "send_backlog", "receive"} /\ u \notin late =>
             registry[u] = inst[s] /\ quiet[u] < PresenceTtl
             /\ entryTtl[u] + quiet[u] >= PresenceTtl
        /\ hpc[s] \in {"get_backlog", "send_backlog", "receive"} /\ u \notin late =>
             presenceTtl[u] + quiet[u] >= PresenceTtl
        /\ frame[s] = "refresh" /\ u \notin late => presenceTtl[u] = PresenceTtl
        /\ frame[s] # None => hpc[s] = "receive"

OnePerUser == \A s, t \in Sockets : who[s] = who[t] /\ ~Finished(s) /\ ~Finished(t) => s = t

\* The types the steps below rely on.
BeatTypes ==
    /\ hpc \in [Sockets -> HandlerPc]
    /\ frame \in [Sockets -> {"heartbeat", "refresh", "presence_update", None}]
    /\ who \in [Sockets -> Users] /\ inst \in [Sockets -> Instances]
    /\ registry \in [Users -> Instances \cup {None}] /\ late \in SUBSET Users
    /\ entryTtl \in [Users -> 0 .. PresenceTtl] /\ presenceTtl \in [Users -> 0 .. PresenceTtl]
    /\ quiet \in [Users -> 0 .. PresenceTtl]

\* A handler moves its own socket and the keys of its own user.
LEMMA OnlyItsOwn ==
    ASSUME BeatTypes, NEW s \in Sockets, Handler(s) \/ LeaveLoop(s)
    PROVE  /\ who' = who /\ inst' = inst
           /\ \A r \in Sockets \ {s} : hpc'[r] = hpc[r] /\ frame'[r] = frame[r]
           /\ \A u \in Users \ {who[s]} :
                /\ registry'[u] = registry[u] /\ entryTtl'[u] = entryTtl[u]
                /\ presenceTtl'[u] = presenceTtl[u] /\ quiet'[u] = quiet[u]
                /\ u \in late' <=> u \in late
<1> USE DEF BeatTypes, Goto, Resumes, userKeys, registryVars
<1>1. CASE Register(s) /\ SetEntry(who[s]) /\ UNCHANGED frame
  BY <1>1 DEF Register, register, SetEntry, SetEx
<1>2. CASE MarkOnline(s) /\ SetPresence(who[s]) /\ UNCHANGED frame
  BY <1>2 DEF MarkOnline, SetPresence, SetEx
<1>3. CASE (GetBacklog(s) \/ SendBacklog(s) \/ HandlerFails(s)) /\ UNCHANGED <<userKeys, frame>>
  BY <1>3 DEF GetBacklog, SendBacklog, HandlerFails
<1>4. CASE Unregister(s) /\ entryTtl' = Del(entryTtl, who[s])
           /\ UNCHANGED <<presenceTtl, quiet, late, frame>>
  BY <1>4 DEF Unregister, unregister, Del
<1>5. CASE MarkOffline(s) /\ presenceTtl' = Del(presenceTtl, who[s])
           /\ UNCHANGED <<entryTtl, quiet, late, frame>>
  BY <1>5 DEF MarkOffline, Del
<1>6. CASE HeartbeatPresence(s)
  BY <1>6 DEF HeartbeatPresence, heartbeat, Expire, gatewayVars, handlerVars
<1>7. CASE HeartbeatRegistry(s)
  BY <1>7 DEF HeartbeatRegistry, refresh, Expire, gatewayVars, handlerVars
<1>8. CASE RoutePresenceUpdate(s)
  BY <1>8 DEF RoutePresenceUpdate, PresenceUpdate, SetPresence, SetEx, handlerVars
<1>9. CASE LeaveLoop(s)
  BY <1>9 DEF LeaveLoop, Leave
<1> QED
  BY <1>1, <1>2, <1>3, <1>4, <1>5, <1>6, <1>7, <1>8, <1>9 DEF Handler, ServeSocket

\* The handler's own socket: a registration starts the count, a heartbeat starts
\* it again, presence key first, and no other step of it touches a count that matters.
LEMMA OwnBeat ==
    ASSUME BeatTypes, NEW s \in Sockets, Beats(s), Handler(s) \/ LeaveLoop(s)
    PROVE  Beats(s)' /\ ~Finished(s)
<1>0. who[s] \in Users /\ who'[s] = who[s] /\ inst'[s] = inst[s]
  BY OnlyItsOwn DEF BeatTypes
<1> USE DEF Beats, BeatTypes, Goto, Resumes, Finished, HandlerPc
<1>1. CASE Register(s) /\ SetEntry(who[s]) /\ UNCHANGED frame
  <2>1. /\ hpc[s] = "register" /\ hpc'[s] \in {"mark_online", "closed"} /\ frame'[s] = frame[s]
        /\ registry'[who[s]] = inst[s] /\ entryTtl'[who[s]] = PresenceTtl /\ quiet'[who[s]] = 0
    BY <1>0, <1>1 DEF Register, register, SetEntry, SetEx
  <2> QED BY <1>0, <2>1, TimedAssumption
<1>2. CASE MarkOnline(s) /\ SetPresence(who[s]) /\ UNCHANGED frame
  <2>1. /\ hpc[s] = "mark_online" /\ hpc'[s] \in {"get_backlog", "closed"} /\ frame'[s] = frame[s]
        /\ UNCHANGED <<registry, entryTtl, quiet, late>> /\ presenceTtl'[who[s]] = PresenceTtl
    BY <1>0, <1>2 DEF MarkOnline, SetPresence, SetEx, registryVars
  <2> QED BY <1>0, <2>1, TimedAssumption
<1>3. CASE (GetBacklog(s) \/ SendBacklog(s)) /\ UNCHANGED <<userKeys, frame>>
  <2>1. /\ hpc[s] \in {"get_backlog", "send_backlog"} /\ hpc'[s] \in {"send_backlog", "receive"}
        /\ UNCHANGED <<registry, entryTtl, presenceTtl, quiet, late, frame>>
    BY <1>0, <1>3 DEF GetBacklog, SendBacklog, userKeys, registryVars
  <2> QED BY <1>0, <2>1
<1>4. CASE (Unregister(s) \/ MarkOffline(s) \/ HandlerFails(s)) /\ UNCHANGED frame
  <2>1. /\ hpc[s] \in {"register", "mark_online", "unregister", "mark_offline"}
        /\ hpc'[s] \in {"mark_offline", "closed"} /\ frame'[s] = frame[s]
    BY <1>4 DEF Unregister, MarkOffline, HandlerFails
  <2> QED BY <2>1, TimedAssumption
<1>5. CASE HeartbeatPresence(s)
  <2>1. /\ frame[s] = "heartbeat" /\ frame'[s] = "refresh"
        /\ UNCHANGED <<hpc, registry, entryTtl, quiet, late>>
        /\ presenceTtl'[who[s]] = IF presenceTtl[who[s]] = 0 THEN 0 ELSE PresenceTtl
    BY <1>0, <1>5 DEF HeartbeatPresence, heartbeat, Expire, gatewayVars, handlerVars, registryVars
  <2>2. hpc[s] = "receive"
    BY <2>1, TimedAssumption
  <2> QED BY <1>0, <2>1, <2>2, TimedAssumption
<1>6. CASE HeartbeatRegistry(s)
  <2>1. /\ frame[s] = "refresh" /\ frame'[s] = None
        /\ UNCHANGED <<hpc, registry, presenceTtl, late>> /\ quiet'[who[s]] = 0
        /\ entryTtl'[who[s]] = IF entryTtl[who[s]] = 0 THEN 0 ELSE PresenceTtl
    BY <1>0, <1>6 DEF HeartbeatRegistry, refresh, Expire, gatewayVars, handlerVars, registryVars
  <2>2. hpc[s] = "receive"
    BY <2>1, TimedAssumption
  <2> QED BY <1>0, <2>1, <2>2, TimedAssumption
<1>7. CASE RoutePresenceUpdate(s)
  <2>1. /\ hpc[s] = "receive" /\ frame'[s] = None
        /\ UNCHANGED <<hpc, registry, entryTtl, quiet, late>>
        /\ presenceTtl'[who[s]] = PresenceTtl
    BY <1>0, <1>7 DEF RoutePresenceUpdate, PresenceUpdate, SetPresence, SetEx, handlerVars, registryVars
  <2> QED BY <1>0, <2>1, TimedAssumption
<1>8. CASE LeaveLoop(s)
  <2>1. /\ hpc[s] \in {"get_backlog", "send_backlog", "receive"} /\ hpc'[s] = "unregister"
        /\ frame'[s] = None
    BY <1>8 DEF LeaveLoop, Leave
  <2> QED BY <2>1, TimedAssumption
<1> QED
  BY <1>1, <1>2, <1>3, <1>4, <1>5, <1>6, <1>7, <1>8 DEF Handler, ServeSocket

\* Without overlapping connections, no step of anybody else reaches the keys of a
\* user who is being served, so only the clock ages them.
LEMMA BeatStep ==
    ASSUME TimedTypeOK, ~Overlap, BeatInv, [TimedNext]_timedVars
    PROVE  BeatInv'
<1>0. BeatTypes
  BY DEF BeatTypes, TimedTypeOK, ClockTypeOK, GatewayTypeOK, RegistryTypeOK
<1>1. OnePerUser /\ \A s \in Sockets : Beats(s)
  BY DEF BeatInv, OnePerUser, Beats
<1>2. SUFFICES OnePerUser' /\ \A s \in Sockets : Beats(s)'
  BY DEF BeatInv, OnePerUser, Beats
<1>3. CASE UNCHANGED <<hpc, who, inst, frame, registry, userKeys>>
  BY <1>1, <1>3 DEF OnePerUser, Beats, Finished, userKeys
<1>4. ASSUME NEW s \in Sockets, Handler(s) \/ LeaveLoop(s)
      PROVE  OnePerUser' /\ \A r \in Sockets : Beats(r)'
  <2>1. Beats(s)' /\ ~Finished(s)
    BY <1>0, <1>1, <1>4, OwnBeat
  <2>2. /\ who' = who /\ inst' = inst
        /\ \A r \in Sockets \ {s} : hpc'[r] = hpc[r] /\ frame'[r] = frame[r]
        /\ \A u \in Users \ {who[s]} :
             /\ registry'[u] = registry[u] /\ entryTtl'[u] = entryTtl[u]
             /\ presenceTtl'[u] = presenceTtl[u] /\ quiet'[u] = quiet[u]
             /\ u \in late' <=> u \in late
    BY <1>0, <1>4, OnlyItsOwn
  <2>3. ASSUME NEW r \in Sockets \ {s} PROVE Beats(r)'
    <3>1. CASE who[r] = who[s]
      <4>1. hpc[r] \in {"new", "closed"}
        BY <1>1, <2>1, <3>1 DEF OnePerUser, Finished
      <4>2. frame[r] = None
        BY <1>1, <4>1 DEF Beats
      <4> QED BY <2>2, <4>1, <4>2, TimedAssumption DEF Beats
    <3>2. CASE who[r] # who[s]
      <4>1. who[r] \in Users \ {who[s]}
        BY <1>0, <3>2 DEF BeatTypes
      <4>2. Beats(r)
        BY <1>1
      <4> QED BY <2>2, <4>1, <4>2 DEF Beats
    <3> QED BY <3>1, <3>2
  <2>4. OnePerUser'
    BY <1>1, <2>1, <2>2 DEF OnePerUser, Finished
  <2> QED BY <2>1, <2>3, <2>4
<1>5. ASSUME NEW s \in Sockets, NEW t \in Tickets, Upgrade(s, t)
      PROVE  OnePerUser' /\ \A r \in Sockets : Beats(r)'
  <2>1. /\ UNCHANGED <<who, inst, frame, registry, userKeys>> /\ hpc[s] = "new"
        /\ hpc'[s] \in {"register", "closed"}
        /\ \A r \in Sockets \ {s} : hpc'[r] = hpc[r]
    BY <1>0, <1>5 DEF Upgrade, Connect, Reject, Goto, registryVars, BeatTypes
  <2>2. hpc'[s] = "closed" \/ \A r \in Sockets : who[r] = who[s] => Finished(r)
    BY <1>0, <1>5 DEF Upgrade, Connect, Reject, Goto, BeatTypes
  <2>3. OnePerUser'
    BY <1>1, <2>1, <2>2 DEF OnePerUser, Finished
  <2>4. Beats(s)'
    <3>1. frame[s] = None
      BY <1>1, <2>1 DEF Beats
    <3> QED BY <2>1, <3>1, TimedAssumption DEF Beats
  <2>5. ASSUME NEW r \in Sockets \ {s} PROVE Beats(r)'
    BY <1>1, <2>1 DEF Beats, userKeys
  <2> QED BY <2>3, <2>4, <2>5
<1>6. ASSUME NEW s \in Sockets, ReceiveFrame(s)
      PROVE  OnePerUser' /\ \A r \in Sockets : Beats(r)'
  <2>1. /\ UNCHANGED <<hpc, who, inst, registry, userKeys>> /\ hpc[s] = "receive"
        /\ frame'[s] \in {"heartbeat", "presence_update", None}
        /\ \A r \in Sockets \ {s} : frame'[r] = frame[r]
    BY <1>0, <1>6 DEF ReceiveFrame, BeatTypes, gatewayVars, handlerVars, registryVars
  <2>2. OnePerUser'
    BY <1>1, <2>1 DEF OnePerUser, Finished
  <2>3. Beats(s)'
    BY <1>1, <2>1, TimedAssumption DEF Beats, userKeys
  <2>4. ASSUME NEW r \in Sockets \ {s} PROVE Beats(r)'
    BY <1>1, <2>1 DEF Beats, userKeys
  <2> QED BY <2>2, <2>3, <2>4
<1>7. ASSUME NEW i \in Instances, CrashInstance(i)
      PROVE  OnePerUser' /\ \A r \in Sockets : Beats(r)'
  <2>1. /\ UNCHANGED <<who, inst, registry, userKeys>>
        /\ \A r \in Sockets : \/ hpc'[r] = hpc[r] /\ frame'[r] = frame[r]
                              \/ hpc'[r] \in {"new", "closed"} /\ frame'[r] = None
    BY <1>0, <1>7 DEF CrashInstance, LoopFrame, BeatTypes, registryVars
  <2>2. OnePerUser'
    BY <1>1, <2>1 DEF OnePerUser, Finished
  <2>3. ASSUME NEW r \in Sockets PROVE Beats(r)'
    BY <1>1, <2>1, TimedAssumption DEF Beats, userKeys
  <2> QED BY <2>2, <2>3
<1>8. CASE Tick
  <2>1. UNCHANGED <<hpc, who, inst, frame>> /\ \A s \in Sockets : frame[s] = None
    BY <1>8 DEF Tick, handlerVars, Idle
  <2>2. OnePerUser'
    BY <1>1, <2>1 DEF OnePerUser, Finished
  <2>3. ASSUME NEW s \in Sockets PROVE Beats(s)'
    <3> DEFINE u == who[s]
    <3>0. u \in Users
      BY <1>0 DEF BeatTypes
    <3>1. /\ entryTtl'[u] = IF entryTtl[u] = 0 THEN 0 ELSE entryTtl[u] - 1
          /\ presenceTtl'[u] = IF presenceTtl[u] = 0 THEN 0 ELSE presenceTtl[u] - 1
          /\ registry'[u] = IF entryTtl'[u] = 0 THEN None ELSE registry[u]
          /\ quiet'[u] = IF quiet[u] < PresenceTtl THEN quiet[u] + 1 ELSE PresenceTtl
          /\ u \in late' <=> u \in late \/ quiet'[u] = PresenceTtl
      BY <1>0, <1>8, <3>0 DEF Tick, Decay, BeatTypes
    <3>2. /\ entryTtl[u] \in 0 .. PresenceTtl /\ presenceTtl[u] \in 0 .. PresenceTtl
          /\ quiet[u] \in 0 .. PresenceTtl
      BY <1>0, <3>0 DEF BeatTypes
    <3>3. Beats(s)
      BY <1>1
    <3> QED BY <2>1, <3>1, <3>2, <3>3, TimedAssumption DEF Beats
  <2> QED BY <2>2, <2>3
<1>9. ASSUME NEW i \in Instances, StartInstance(i) \/ RefreshAlive(i)
      PROVE  UNCHANGED <<hpc, who, inst, frame, registry, userKeys>>
  BY <1>9 DEF StartInstance, RefreshAlive, LoopFrame, mark_alive_ex, mark_alive, handlerVars,
     registryVars
<1> QED
  BY <1>3, <1>4, <1>5, <1>6, <1>7, <1>8, <1>9 DEF TimedNext, timedVars, gatewayVars, handlerVars,
     registryVars, IssueTicket, BeginSweep, SweepOne, SweepFails, SweepFrame

-----------------------------------------------------------------------------
\* A system nobody has used yet satisfies types and invariant.
LEMMA TimedStart ==
    ASSUME TimedInit
    PROVE  TimedTypeOK /\ TimedInv
<1>1. GatewayTypeOK /\ RegistryTypeOK /\ RepositoryTypeOK
  BY RepositoryAssumption DEF TimedInit, GatewayInit, RegistryInit, RepositoryInit, PresenceInit,
     ConnectionsInit, GatewayTypeOK, RegistryTypeOK, RepositoryTypeOK, PresenceTypeOK,
     PresenceStatus, ConnectionsTypeOK, HandlerPc
<1>2. LimiterTypeOK /\ LimiterInv
  BY LimiterAssumption DEF TimedInit, LimiterInit, LimiterTypeOK, LimiterInv, Counted
<1>3. TicketTypeOK
  BY TicketAssumption DEF TimedInit, TicketInit, TicketTypeOK
<1>4. ClockTypeOK
  BY TimedAssumption, IntervalBounds DEF TimedInit, ClockTypeOK
<1>5. TicketInv
  BY DEF TimedInit, TicketInit, TicketInv
<1>6. KeyInv
  BY TimedAssumption DEF TimedInit, RegistryInit, GatewayInit, PresenceInit, KeyInv
<1>7. LoopInv
  BY TimedAssumption DEF TimedInit, RegistryInit, LoopInv
<1>8. BeatInv
  BY TimedAssumption DEF TimedInit, GatewayInit, BeatInv, Finished
<1> QED BY <1>1, <1>2, <1>3, <1>4, <1>5, <1>6, <1>7, <1>8 DEF TimedTypeOK, TimedInv

-----------------------------------------------------------------------------
\* Every value the gateway, the limiter, the tickets, the loops and the clock keep
\* stays within its type, TTLs within the TTL they were set to.
THEOREM TimedTypeCorrect == TimedSpec => []TimedTypeOK
<1>1. TimedInit => TimedTypeOK
  BY TimedStart
<1>2. TimedTypeOK /\ [TimedNext]_timedVars => TimedTypeOK'
  BY TypeStep
<1> QED BY <1>1, <1>2, PTL DEF TimedSpec

\* The inductive invariant: counters against the observed calls, tickets against
\* the sockets they opened, the keys of heartbeat.py and instance_registry.py
\* against the clocks of those who refresh them.
THEOREM TimedInvariant == TimedSpec => []TimedInv
<1>1. TimedInit => TimedInv
  BY TimedStart
<1>2. TimedTypeOK /\ TimedInv /\ [TimedNext]_timedVars => TimedInv'
  <2> SUFFICES ASSUME TimedTypeOK, TimedInv, [TimedNext]_timedVars PROVE TimedInv'
    OBVIOUS
  <2>1. LimiterInv' /\ TicketInv' /\ KeyInv' /\ LoopInv'
    BY LimiterStep, TicketStep, KeyStep, LoopStep DEF TimedInv
  <2>2. ~Overlap => BeatInv'
    BY BeatStep DEF TimedInv
  <2> QED BY <2>1, <2>2 DEF TimedInv
<1> QED BY <1>1, <1>2, TimedTypeCorrect, PTL DEF TimedSpec

\* rate_limiter.py: no stretch of Window ticks lets twice the limit through.
THEOREM LimitHolds == TimedSpec => []FewerThanTwiceTheLimit
<1>1. TimedTypeOK /\ TimedInv => FewerThanTwiceTheLimit
  <2> SUFFICES ASSUME TimedTypeOK, TimedInv, NEW c \in Callers PROVE passed[c] < 2 * Limit
    BY DEF FewerThanTwiceTheLimit
  <2>1. count[c] \in 0 .. Limit + 1 /\ span[c] \in 0 .. Window /\ passed[c] \in Nat
    BY DEF TimedTypeOK, LimiterTypeOK
  <2> QED BY <2>1, LimiterAssumption DEF TimedInv, LimiterInv, Counted
<1> QED BY <1>1, TimedTypeCorrect, TimedInvariant, PTL

\* auth_handshake.py: a ticket opens one socket, however many upgrades carry it.
THEOREM TicketsAreSingleUse == TimedSpec => []TicketsOpenOneSocket
<1>1. TimedInv => TicketsOpenOneSocket
  BY DEF TimedInv, TicketInv, TicketsOpenOneSocket
<1> QED BY <1>1, TimedInvariant, PTL

\* heartbeat.py: one failed refresh in a row never makes a running instance look
\* dead, for every TTL of three ticks or more.
THEOREM OneMissTolerated == TimedSpec => []OneMissIsTolerated
<1>1. TimedTypeOK /\ TimedInv => OneMissIsTolerated
  <2> SUFFICES ASSUME TimedTypeOK, TimedInv, LivenessTtl >= 3, NEW i \in up, misses[i] <= 1
               PROVE  i \in alive
    BY DEF OneMissIsTolerated
  <2>1. /\ i \in Instances /\ aliveTtl[i] \in 0 .. LivenessTtl
        /\ sleep[i] \in 0 .. Interval /\ misses[i] \in 0 .. MaxMisses
    BY DEF TimedTypeOK, ClockTypeOK
  <2>2. aliveTtl[i] > 0
    BY <2>1, IntervalBounds, TimedAssumption DEF TimedInv, LoopInv
  <2> QED BY <2>1, <2>2 DEF TimedInv, KeyInv
<1> QED BY <1>1, TimedTypeCorrect, TimedInvariant, PTL

\* instance_registry.py: a route nobody holds any more is believed for a bounded
\* time after its instance went down or its user fell silent.
THEOREM DeadRoutesEnd == TimedSpec => []DeadRoutesLapse
<1>1. TimedTypeOK /\ TimedInv => DeadRoutesLapse
  <2> SUFFICES ASSUME TimedTypeOK, TimedInv, NEW u \in Users, NEW i \in Instances,
                      registry[u] = i, i \in alive
               PROVE  quiet[u] < PresenceTtl /\ (i \notin up => down[i] < LivenessTtl)
    BY DEF DeadRoutesLapse
  <2>1. /\ entryTtl[u] \in 0 .. PresenceTtl /\ quiet[u] \in 0 .. PresenceTtl
        /\ aliveTtl[i] \in 0 .. LivenessTtl /\ down[i] \in 0 .. LivenessTtl
    BY DEF TimedTypeOK, ClockTypeOK
  <2>2. registry[u] # None
    BY DomainAssumption
  <2>3. /\ entryTtl[u] > 0 /\ entryTtl[u] + quiet[u] <= PresenceTtl
        /\ aliveTtl[i] > 0 /\ (i \notin up => aliveTtl[i] + down[i] <= LivenessTtl)
    BY <2>1, <2>2 DEF TimedInv, KeyInv, LoopInv
  <2> QED BY <2>1, <2>3, TimedAssumption
<1> QED BY <1>1, TimedTypeCorrect, TimedInvariant, PTL

\* presence_manager.py and message_router.py: where a client does not open a second
\* connection before the first is cleaned up, one whose heartbeats are handled in
\* time stays registered at its instance and present.
THEOREM BeatingKeepsTheRoute == TimedSpec /\ ~Overlap => []RoutedWhileBeating
<1>1. TimedTypeOK /\ TimedInv /\ ~Overlap => RoutedWhileBeating
  <2> SUFFICES ASSUME TimedTypeOK, TimedInv, ~Overlap, NEW s \in Sockets, who[s] \notin late,
                      hpc[s] \in {"get_backlog", "send_backlog", "receive"}
               PROVE  registry[who[s]] = inst[s] /\ presence[who[s]] # "offline"
    BY DEF RoutedWhileBeating
  <2>1. /\ who[s] \in Users /\ quiet[who[s]] \in 0 .. PresenceTtl
        /\ presenceTtl[who[s]] \in 0 .. PresenceTtl
    BY DEF TimedTypeOK, GatewayTypeOK, ClockTypeOK
  <2>2. /\ registry[who[s]] = inst[s] /\ quiet[who[s]] < PresenceTtl
        /\ presenceTtl[who[s]] + quiet[who[s]] >= PresenceTtl
    BY DEF TimedInv, BeatInv
  <2>3. presenceTtl[who[s]] # 0
    BY <2>1, <2>2, TimedAssumption
  <2> QED BY <2>1, <2>2, <2>3 DEF TimedInv, KeyInv
<1>2. TimedSpec => [](TimedTypeOK /\ TimedInv)
  BY TimedTypeCorrect, TimedInvariant, PTL
<1>3. ~Overlap => [](~Overlap)
  OBVIOUS
<1> QED BY <1>1, <1>2, <1>3, PTL
=============================================================================
