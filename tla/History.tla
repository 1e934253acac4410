------------------------------ MODULE History -------------------------------
(***************************************************************************)
(* app/api/routes/history.py over the repository: a client walks through   *)
(* GET /notifications/history page by page, passing next_cursor on as      *)
(* before, while requests keep inserting rows.  A GET is one query, hence  *)
(* one step.                                                               *)
(***************************************************************************)
EXTENDS Repository

CONSTANT MaxLimit       \* the largest limit the route accepts (le=200)

ASSUME HistoryAssumption == MaxLimit \in Nat \ {0} /\ None \notin Times

VARIABLES reader,       \* the user_id of the walk
          before,       \* the cursor of the next GET; None: not given
          walk,         \* "first": no page fetched yet, "next", "end": null cursor
          got,          \* the rows of the pages so far
          start,        \* history: the user's rows when the first page was read
          cursors       \* history: the cursors handed out so far

walkVars == <<reader, before, walk, got, start, cursors>>
historyVars == <<repositoryVars, walkVars>>

HistoryTypeOK ==
    /\ RepositoryTypeOK
    /\ reader \in Users
    /\ before \in Times \cup {None}
    /\ walk \in {"first", "next", "end"}
    /\ got \subseteq Notifications
    /\ start \subseteq Notifications
    /\ cursors \subseteq Times

HistoryInit ==
    /\ RepositoryInit
    /\ reader \in Users
    /\ before = None /\ walk = "first"
    /\ got = {} /\ start = {} /\ cursors = {}

-----------------------------------------------------------------------------
Rows(u) == {n \in Notifications : user_id[n] = u}

Older_Inclusive(u, b) == {n \in Rows(u) : b = None \/ created_at[n] <= b}

\* The WHERE clause of get_history.
Older(u, b) == {n \in Rows(u) : b = None \/ created_at[n] < b}

IsPage_OldestFirst(P, u, b, limit) ==
    /\ P \subseteq Older(u, b)
    /\ P = Older(u, b) \/ Cardinality(P) = limit
    /\ Cardinality(P) <= limit
    /\ \A n \in P, m \in Older(u, b) \ P : created_at[n] <= created_at[m]

\* P is what get_history may return: the newest limit rows before b (rows with
\* equal created_at come in any order).
IsPage(P, u, b, limit) ==
    /\ P \subseteq Older(u, b)
    /\ P = Older(u, b) \/ Cardinality(P) = limit
    /\ Cardinality(P) <= limit
    /\ \A n \in P, m \in Older(u, b) \ P : created_at[m] <= created_at[n]

\* c is created_at of the last row of page P.
IsCursor(c, P) == \E n \in P : c = created_at[n] /\ \A m \in P : c <= created_at[m]

\* A GET that returns page P; a full page carries a cursor, a short one null.
GetHistory(P, limit) ==
    /\ walk # "end"
    /\ IsPage(P, reader, before, limit)
    /\ got' = got \cup P
    /\ start' = IF walk = "first" THEN Rows(reader) ELSE start
    /\ IF Cardinality(P) = limit
       THEN \E c \in Times : /\ IsCursor(c, P)
                             /\ before' = c /\ cursors' = cursors \cup {c}
                             /\ walk' = "next"
       ELSE walk' = "end" /\ UNCHANGED <<before, cursors>>
    /\ UNCHANGED <<reader, repositoryVars>>

Fetch == \E limit \in 1 .. MaxLimit, P \in SUBSET Notifications : GetHistory(P, limit)

\* The client starts over, perhaps for another user.
StartOver ==
    /\ walk = "end"
    /\ reader' \in Users
    /\ before' = None /\ walk' = "first"
    /\ got' = {} /\ start' = {} /\ cursors' = {}
    /\ UNCHANGED repositoryVars

Insert == (\E n \in Notifications, u \in Users : create(n, u)) /\ UNCHANGED walkVars

HistoryNext == Fetch \/ StartOver \/ Insert

HistorySpec == HistoryInit /\ [][HistoryNext]_historyVars

\* The client keeps asking until it is told there is nothing more.
HistoryFairSpec == HistorySpec /\ WF_historyVars(Fetch)

-----------------------------------------------------------------------------
\* A walk misses nothing that was there when it began but rows whose created_at
\* equals a cursor it was handed: only a tie across a page boundary is lost,
\* whatever is inserted meanwhile, wherever its created_at falls.
MissedRowsTieWithCursor ==
    walk = "end" => \A n \in start \ got : created_at[n] \in cursors

\* No page repeats a row of an earlier one.
PagesNeverRepeat == walk = "next" => Older(reader, before) \cap got = {}

\* Inductive: what is still missing lies before the cursor or ties with one.
RemainderAhead ==
    /\ got \cup start \subseteq Rows(reader)
    /\ walk = "first" => before = None /\ got = {}
    /\ walk = "next" => /\ before \in cursors
                        /\ \A n \in got : before <= created_at[n]
                        /\ \A n \in start \ got : \/ created_at[n] < before
                                                  \/ created_at[n] \in cursors

HistoryInv == HistoryTypeOK /\ RemainderAhead /\ MissedRowsTieWithCursor

\* A walk ends: the cursor moves strictly back, so writers cannot keep a reader
\* paging for ever.
WalkEnds == walk = "next" ~> walk = "end"

\* Following next_cursor until it is null reaches every row that was there.
WalkReachesEveryRow == walk = "end" => start \subseteq got
=============================================================================
