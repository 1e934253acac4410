--------------------------- MODULE HistoryProofs ----------------------------
(***************************************************************************)
(* Proofs about History, for any sets of users, rows and times and any     *)
(* largest limit.                                                          *)
(***************************************************************************)
EXTENDS History, TLAPS

\* An insert changes no row that exists.
LEMMA InsertKeepsRows ==
    ASSUME HistoryTypeOK, Insert
    PROVE  /\ RepositoryTypeOK'
           /\ \A n \in Rows(reader) : user_id'[n] = reader /\ created_at'[n] = created_at[n]
<1>1. PICK n \in Notifications, u \in Users : create(n, u)
  BY DEF Insert
<1>2. RepositoryTypeOK'
  BY <1>1 DEF create, HistoryTypeOK, RepositoryTypeOK
<1>3. \A m \in Rows(reader) : user_id'[m] = reader /\ created_at'[m] = created_at[m]
  BY <1>1, DomainAssumption DEF create, Persisted, Rows, HistoryTypeOK, RepositoryTypeOK
<1> QED
  BY <1>2, <1>3

\* Times compare as the natural numbers they are.
LEMMA TimesAreNat == HistoryTypeOK => \A n \in Notifications : created_at[n] \in Nat
  BY RepositoryAssumption DEF HistoryTypeOK, RepositoryTypeOK

LEMMA HistoryInvInit == HistoryInit => HistoryInv
<1> SUFFICES ASSUME HistoryInit PROVE HistoryInv
  OBVIOUS
<1>1. (CHOOSE t \in Times : TRUE) \in Times /\ 0 \in 0 .. MaxReceipts
  BY RepositoryAssumption
<1>2. HistoryTypeOK
  BY <1>1 DEF HistoryInit, RepositoryInit, HistoryTypeOK, RepositoryTypeOK
<1> QED
  BY <1>2 DEF HistoryInit, HistoryInv, RemainderAhead, MissedRowsTieWithCursor

\* The invariant is inductive.
LEMMA HistoryInvStep ==
    ASSUME HistoryInv, [HistoryNext]_historyVars
    PROVE  HistoryInv'
<1> HistoryTypeOK /\ RemainderAhead /\ MissedRowsTieWithCursor
  BY DEF HistoryInv
<1>1. CASE Insert
  <2>1. /\ RepositoryTypeOK' /\ UNCHANGED <<reader, before, walk, got, start, cursors>>
        /\ \A n \in Rows(reader) : user_id'[n] = reader /\ created_at'[n] = created_at[n]
    BY <1>1, InsertKeepsRows DEF Insert, walkVars
  <2>2. got \cup start \subseteq Rows(reader) /\ Rows(reader) \subseteq Notifications
    BY DEF RemainderAhead, Rows
  <2>3. HistoryTypeOK' /\ MissedRowsTieWithCursor'
    BY <2>1, <2>2 DEF HistoryTypeOK, MissedRowsTieWithCursor
  <2>4. RemainderAhead'
    BY <2>1, <2>2 DEF RemainderAhead, Rows
  <2> QED
    BY <2>3, <2>4 DEF HistoryInv
<1>2. CASE StartOver
  BY <1>2 DEF StartOver, repositoryVars, HistoryInv, HistoryTypeOK, RepositoryTypeOK,
     RemainderAhead, MissedRowsTieWithCursor
<1>3. CASE UNCHANGED historyVars
  BY <1>3 DEF historyVars, repositoryVars, walkVars, HistoryInv, HistoryTypeOK, RepositoryTypeOK,
     RemainderAhead, Rows, MissedRowsTieWithCursor
<1>4. CASE Fetch
  <2>1. PICK limit \in 1 .. MaxLimit, P \in SUBSET Notifications : GetHistory(P, limit)
    BY <1>4 DEF Fetch
  <2>2. /\ walk # "end" /\ IsPage(P, reader, before, limit)
        /\ got' = got \cup P
        /\ start' = IF walk = "first" THEN Rows(reader) ELSE start
        /\ UNCHANGED <<reader, user_id, created_at, delivered_live, read, read_receipts>>
    BY <2>1 DEF GetHistory, repositoryVars
  <2>3. got' \cup start' \subseteq Rows(reader) /\ Rows(reader)' = Rows(reader)
    BY <2>2 DEF IsPage, Older, Rows, RemainderAhead
  \* What the walk had still to cover is in the range of this query, or tied.
  <2>4. \A n \in start' \ got : n \in Older(reader, before) \/ created_at[n] \in cursors
    BY <2>2, <2>3 DEF Older, Rows, RemainderAhead, HistoryTypeOK
  <2>5. \A n \in Notifications : created_at[n] \in Nat
    BY TimesAreNat
  <2>6. CASE Cardinality(P) = limit
    <3>1. PICK c \in Times : /\ IsCursor(c, P) /\ before' = c
                             /\ cursors' = cursors \cup {c} /\ walk' = "next"
      BY <2>1, <2>6 DEF GetHistory
    <3>2. PICK n \in P : c = created_at[n] /\ \A m \in P : c <= created_at[m]
      BY <3>1 DEF IsCursor
    <3>3. HistoryTypeOK'
      BY <2>2, <2>3, <3>1 DEF HistoryTypeOK, RepositoryTypeOK, Rows
    <3>4. \A m \in got : c <= created_at[m]
      <4>1. CASE walk = "first"
        BY <4>1 DEF RemainderAhead
      <4>2. CASE walk = "next"
        <5>1. before \in Times /\ before # None /\ \A m \in got : before <= created_at[m]
          BY <4>2, HistoryAssumption DEF RemainderAhead, HistoryTypeOK
        <5>2. c < before
          BY <2>2, <3>2, <5>1 DEF IsPage, Older
        <5> QED
          BY <2>5, <3>2, <5>1, <5>2, RepositoryAssumption DEF HistoryTypeOK
      <4> QED
        BY <2>2, <4>1, <4>2 DEF HistoryTypeOK
    <3>5. \A m \in Older(reader, before) \ P : created_at[m] <= c
      BY <2>2, <3>2 DEF IsPage
    <3>6. \A m \in start' \ got' : created_at[m] < c \/ created_at[m] \in cursors'
      BY <2>2, <2>3, <2>4, <2>5, <3>1, <3>2, <3>5 DEF Rows
    <3>7. RemainderAhead'
      BY <2>2, <2>3, <3>1, <3>2, <3>4, <3>6 DEF RemainderAhead
    <3> QED
      BY <3>1, <3>3, <3>7 DEF HistoryInv, MissedRowsTieWithCursor
  <2>7. CASE Cardinality(P) # limit
    <3>1. walk' = "end" /\ UNCHANGED <<before, cursors>> /\ P = Older(reader, before)
      BY <2>1, <2>2, <2>7 DEF GetHistory, IsPage
    <3>2. HistoryTypeOK'
      BY <2>2, <2>3, <3>1 DEF HistoryTypeOK, RepositoryTypeOK, Rows
    <3>3. RemainderAhead' /\ MissedRowsTieWithCursor'
      BY <2>2, <2>3, <2>4, <3>1 DEF RemainderAhead, MissedRowsTieWithCursor
    <3> QED
      BY <3>2, <3>3 DEF HistoryInv
  <2> QED
    BY <2>6, <2>7
<1> QED
  BY <1>1, <1>2, <1>3, <1>4 DEF HistoryNext

\* The inductive invariant of a walk holds in every reachable state.
THEOREM HistoryInvariant == HistorySpec => []HistoryInv
  BY HistoryInvInit, HistoryInvStep, PTL DEF HistorySpec

\* Whatever is inserted during a walk, it misses at most rows tied with a cursor.
THEOREM OnlyTiesAreMissed == HistorySpec => []MissedRowsTieWithCursor
<1>1. HistoryInv => MissedRowsTieWithCursor
  BY DEF HistoryInv
<1> QED
  BY <1>1, HistoryInvariant, PTL

\* No page of a walk repeats a row of an earlier page.
THEOREM NoRowTwice == HistorySpec => []PagesNeverRepeat
<1>1. HistoryInv => PagesNeverRepeat
  <2> SUFFICES ASSUME HistoryInv, walk = "next", NEW n \in Older(reader, before), n \in got
               PROVE  FALSE
    BY DEF PagesNeverRepeat
  <2>1. before \in Nat /\ before # None /\ created_at[n] \in Nat
    BY TimesAreNat, RepositoryAssumption, HistoryAssumption
       DEF HistoryInv, HistoryTypeOK, RemainderAhead
  <2> QED
    BY <2>1 DEF HistoryInv, RemainderAhead, Older
<1> QED
  BY <1>1, HistoryInvariant, PTL
=============================================================================
