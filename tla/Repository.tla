----------------------------- MODULE Repository -----------------------------
(***************************************************************************)
(* app/db/repository.py over app/db/models.py: the notifications table, a  *)
(* variable per column the code decides on, and the rows of read_receipts. *)
(* Each operation is one PostgreSQL transaction, hence one atomic effect.  *)
(***************************************************************************)
EXTENDS Domain, Naturals, FiniteSets

CONSTANTS Times,        \* the values created_at can take
          BacklogLimit, \* settings.backlog_limit
          MaxReceipts   \* bound on the read_receipts rows of a notification

ASSUME RepositoryAssumption ==
    /\ Times \subseteq Nat /\ Times # {}
    /\ BacklogLimit \in Nat \ {0}
    /\ MaxReceipts \in Nat

VARIABLES user_id,        \* [Notifications -> Users or None]; None: no such row
          created_at,     \* [Notifications -> Times]
          delivered_live, \* the notifications flagged delivered_live
          read,           \* the notifications whose read_at is not null
          read_receipts   \* [Notifications -> number of read_receipts rows]

repositoryVars == <<user_id, created_at, delivered_live, read, read_receipts>>

RepositoryTypeOK ==
    /\ user_id \in [Notifications -> Users \cup {None}]
    /\ created_at \in [Notifications -> Times]
    /\ delivered_live \in SUBSET Notifications
    /\ read \in SUBSET Notifications
    /\ read_receipts \in [Notifications -> 0 .. MaxReceipts]

RepositoryInit ==
    /\ user_id = [n \in Notifications |-> None]
    /\ created_at = [n \in Notifications |-> CHOOSE t \in Times : TRUE]
    /\ delivered_live = {}
    /\ read = {}
    /\ read_receipts = [n \in Notifications |-> 0]

Persisted(n) == user_id[n] # None

-----------------------------------------------------------------------------
\* INSERT ... ON CONFLICT DO NOTHING.  created_at is now() of the transaction's
\* start, so it need not follow the order of the commits and it may tie.
create(n, u) ==
    /\ IF Persisted(n)
       THEN UNCHANGED <<user_id, created_at>>
       ELSE /\ user_id' = [user_id EXCEPT ![n] = u]
            /\ \E t \in Times : created_at' = [created_at EXCEPT ![n] = t]
    /\ UNCHANGED <<delivered_live, read, read_receipts>>

mark_delivered_live(n) ==
    /\ delivered_live' = delivered_live \cup {n}
    /\ UNCHANGED <<user_id, created_at, read, read_receipts>>

\* Both writes in one transaction, only for the row's own user; a call for
\* another user's notification updates no row and is a stuttering step.
mark_read(n, u) ==
    /\ Persisted(n) /\ user_id[n] = u
    /\ read_receipts[n] < MaxReceipts
    /\ read' = read \cup {n}
    /\ read_receipts' = [read_receipts EXCEPT ![n] = @ + 1]
    /\ UNCHANGED <<user_id, created_at, delivered_live>>

Unread_NotDeliveredLive(u) ==
    {n \in Notifications : user_id[n] = u /\ n \notin read \cup delivered_live}

Unread_Everyone(u) == {n \in Notifications : user_id[n] # None /\ n \notin read}

Unread(u) == {n \in Notifications : user_id[n] = u /\ n \notin read}

\* B is what get_unread_backlog may return for u: the oldest BacklogLimit unread
\* rows (rows with equal created_at come in any order).
IsUnreadBacklog(B, u) ==
    /\ B \subseteq Unread(u)
    /\ Cardinality(B) <= BacklogLimit
    /\ B = Unread(u) \/ Cardinality(B) = BacklogLimit
    /\ \A n \in B, m \in Unread(u) \ B : created_at[n] <= created_at[m]

get_unread_backlog(u) == {B \in SUBSET Unread(u) : IsUnreadBacklog(B, u)}

\* What readers do to the table, one transaction at a time.
ReadNext == \E n \in Notifications, u \in Users : mark_read(n, u)
=============================================================================
