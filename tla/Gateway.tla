------------------------------ MODULE Gateway -------------------------------
(***************************************************************************)
(* app/websocket/gateway.py with message_router.py: the handler task of a  *)
(* WebSocket, cut at every await.  hpc names the call the handler waits    *)
(* for.  Up to mark_online the handler runs outside its try block: a call  *)
(* that raises there ends it without the clean-up of `finally'.            *)
(***************************************************************************)
EXTENDS InstanceRegistry, Repository, Presence, ConnectionManager

CONSTANT Overlap        \* may a client open a socket while an earlier one of
                        \* the same user is still being served or cleaned up?

ASSUME GatewayAssumption == Overlap \in BOOLEAN

VARIABLES hpc,          \* [Sockets -> HandlerPc]
          who,          \* [Sockets -> Users]: the user the ticket was issued to
          inst,         \* [Sockets -> Instances]: where the load balancer sent it
          backlog       \* [Sockets -> the rows of the backlog query]

handlerVars == <<hpc, who, inst, backlog>>
gatewayVars == <<handlerVars, registryVars, repositoryVars, presence, connections>>

HandlerPc == {"new", "register", "mark_online", "get_backlog", "send_backlog", "receive",
              "unregister", "mark_offline", "closed"}

GatewayTypeOK ==
    /\ hpc \in [Sockets -> HandlerPc]
    /\ who \in [Sockets -> Users]
    /\ inst \in [Sockets -> Instances]
    /\ backlog \in [Sockets -> SUBSET Notifications]
    /\ PresenceTypeOK /\ ConnectionsTypeOK

GatewayInit ==
    /\ hpc = [s \in Sockets |-> "new"]
    /\ who \in [Sockets -> Users]
    /\ inst \in [Sockets -> Instances]
    /\ backlog = [s \in Sockets |-> {}]
    /\ PresenceInit /\ ConnectionsInit

Finished(s) == hpc[s] \in {"new", "closed"}

Goto(s, next) == hpc' = [hpc EXCEPT ![s] = next]

\* The awaited call has taken effect and the handler goes on, or the call has
\* taken effect but raises, which ends a handler outside its try block.
Resumes(s, next) == Goto(s, next) \/ (CallsMayFail /\ Goto(s, "closed"))

-----------------------------------------------------------------------------
\* The ticket is redeemed, the socket accepted and added to the local dict.
Connect(s) ==
    /\ hpc[s] = "new"
    /\ Overlap \/ \A t \in Sockets : who[t] = who[s] => Finished(t)
    /\ add(inst[s], who[s], s)
    /\ Goto(s, "register")
    /\ UNCHANGED <<who, inst, backlog, registryVars, repositoryVars, presence>>

\* The ticket is unknown, expired or already used: close 1008.
Reject(s) ==
    /\ hpc[s] = "new"
    /\ Goto(s, "closed")
    /\ UNCHANGED <<who, inst, backlog, registryVars, repositoryVars, presence, connections>>

Register_Skipped(s) ==
    /\ hpc[s] = "register"
    /\ Resumes(s, "mark_online")
    /\ UNCHANGED <<who, inst, backlog, registryVars, repositoryVars, presence, connections>>

Register(s) ==
    /\ hpc[s] = "register"
    /\ register(who[s], inst[s])
    /\ Resumes(s, "mark_online")
    /\ UNCHANGED <<who, inst, backlog, repositoryVars, presence, connections>>

MarkOnline(s) ==
    /\ hpc[s] = "mark_online"
    /\ mark_online(who[s])
    /\ Resumes(s, "get_backlog")
    /\ UNCHANGED <<who, inst, backlog, registryVars, repositoryVars, connections>>

GetBacklog(s) ==
    /\ hpc[s] = "get_backlog"
    /\ \E B \in get_unread_backlog(who[s]) : backlog' = [backlog EXCEPT ![s] = B]
    /\ Goto(s, "send_backlog")
    /\ UNCHANGED <<who, inst, registryVars, repositoryVars, presence, connections>>

SendBacklog_MarksRead(s) ==
    /\ hpc[s] = "send_backlog"
    /\ read' = read \cup backlog[s]
    /\ Goto(s, "receive")
    /\ UNCHANGED <<who, inst, backlog, registryVars, user_id, created_at, delivered_live,
                   read_receipts, presence, connections>>

SendBacklog(s) ==
    /\ hpc[s] = "send_backlog"
    /\ Goto(s, "receive")
    /\ UNCHANGED <<who, inst, backlog, registryVars, repositoryVars, presence, connections>>

\* Client frames that change state here (a heartbeat extends TTLs, a
\* rate-limited, malformed or unknown frame is answered and changes nothing).
PresenceUpdate(s) ==
    /\ hpc[s] = "receive"
    /\ mark_online(who[s]) \/ mark_away(who[s])
    /\ UNCHANGED <<handlerVars, registryVars, repositoryVars, connections>>

ReadReceipt(s) ==
    /\ hpc[s] = "receive"
    /\ \E n \in Notifications : mark_read(n, who[s])
    /\ UNCHANGED <<handlerVars, registryVars, presence, connections>>

\* Inside the try block the client disconnects, or a call or a send raises:
\* `finally' removes the socket and waits for unregister.
Leave(s) ==
    /\ hpc[s] \in {"get_backlog", "send_backlog", "receive"}
    /\ remove(inst[s], who[s])
    /\ Goto(s, "unregister")
    /\ UNCHANGED <<who, inst, backlog, registryVars, repositoryVars, presence>>

Unregister(s) ==
    /\ hpc[s] = "unregister"
    /\ unregister(who[s])
    /\ Resumes(s, "mark_offline")
    /\ UNCHANGED <<who, inst, backlog, repositoryVars, presence, connections>>

MarkOffline(s) ==
    /\ hpc[s] = "mark_offline"
    /\ mark_offline(who[s])
    /\ Goto(s, "closed")
    /\ UNCHANGED <<who, inst, backlog, registryVars, repositoryVars, connections>>

\* A call outside the try block, or in `finally', raises without effect.
HandlerFails(s) ==
    /\ CallsMayFail
    /\ hpc[s] \in {"register", "mark_online", "unregister", "mark_offline"}
    /\ Goto(s, "closed")
    /\ UNCHANGED <<who, inst, backlog, registryVars, repositoryVars, presence, connections>>
=============================================================================
