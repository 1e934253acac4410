------------------------- MODULE ConnectionManager --------------------------
(***************************************************************************)
(* app/websocket/connection_manager.py: the dict of each instance process  *)
(* from user_id to the WebSocket it sends to.  One socket per user: a      *)
(* second `add' replaces the first.                                        *)
(***************************************************************************)
EXTENDS Domain

CONSTANT Sockets        \* the WebSocket connections, one handler task each

ASSUME SocketsAssumption == None \notin Sockets

VARIABLE connections    \* [Instances -> [Users -> Sockets or None]]

ConnectionsTypeOK == connections \in [Instances -> [Users -> Sockets \cup {None}]]

ConnectionsInit == connections = [i \in Instances |-> [u \in Users |-> None]]

add(i, u, s) == connections' = [connections EXCEPT ![i][u] = s]

remove_Forgotten(i, u) == UNCHANGED connections

\* pop(user_id): whichever socket is there.
remove(i, u) == connections' = [connections EXCEPT ![i][u] = None]

get(i, u) == connections[i][u]

connected_user_ids(i) == {u \in Users : get(i, u) # None}
=============================================================================
