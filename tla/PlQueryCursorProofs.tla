------------------------- MODULE PlQueryCursorProofs -------------------------
(***************************************************************************)
(* Proofs about one query cursor: the type invariant, and that the row     *)
(* index follows the scan and a live scan belongs to the owner, for any    *)
(* number of rows, threads and fetch-count arguments.                      *)
(***************************************************************************)
EXTENDS PlQueryCursor, TLAPS

\* A live scan is only ever found under a cursor marked open: close and
\* change_owner close the scan of an open cursor, so none outlives it.
ScanOnlyWhenOpened == scan = "open" => opened

IInv ==
  /\ TypeOK
  /\ ScanOnlyWhenOpened
  /\ RowIndexMatchesScan
  /\ OpenScanOwnedByOwner

USE DEF IInv, TypeOK, ScanOnlyWhenOpened, RowIndexMatchesScan, OpenScanOwnedByOwner

\* the width of int, used without expanding the numeral
LEMMA Int32Facts ==
  INT32_MAX \in Nat /\ INITIAL_FETCH_COUNT \in Nat /\ INITIAL_FETCH_COUNT < INT32_MAX
  BY SMT DEF INT32_MAX, INITIAL_FETCH_COUNT

LEMMA InitIInv == Init => IInv
  <1> SUFFICES ASSUME Init PROVE IInv
    OBVIOUS
  <1>1. fetch_count \in Nat /\ fetch_count < INT32_MAX
    BY Int32Facts DEF Init
  <1>2. pos \in 0..(NumRows + 1)
    BY RowsAssumption DEF Init
  <1>3. TypeOK
    <2>1. owner \in Threads /\ opened \in BOOLEAN /\ entry \in BOOLEAN
      BY DEF Init
    <2>2. scan \in {"none", "open", "closed"} /\ last \in Results
      BY DEF Init, Results
    <2>3. scan_thread \in Threads \cup {NoThread} /\ row_index \in Int
      BY DEF Init
    <2>4. QED
      BY <1>1, <1>2, <2>1, <2>2, <2>3
  <1>4. ScanOnlyWhenOpened /\ RowIndexMatchesScan /\ OpenScanOwnedByOwner
    BY DEF Init
  <1>5. QED
    BY <1>3, <1>4

LEMMA OpenIInv ==
  ASSUME IInv, Open
  PROVE  IInv'
  <1>1. CASE opened
    BY <1>1 DEF Open, Results
  <1>2. CASE ~opened
    <2>1. row_index' = 0 /\ UNCHANGED <<owner, fetch_count>>
      BY <1>2 DEF Open
    <2>2. CASE entry' = TRUE /\ opened' = TRUE /\ scan' = "open"
               /\ scan_thread' = owner /\ pos' = 0 /\ last' = "NO_ERROR"
      BY <2>1, <2>2, RowsAssumption DEF Results
    <2>3. CASE /\ entry' \in BOOLEAN /\ last' = "ER_FAILED"
               /\ UNCHANGED <<opened, scan, scan_thread, pos>>
      <3>1. TypeOK'
        BY <1>2, <2>1, <2>3 DEF Results
      <3>2. ScanOnlyWhenOpened' /\ RowIndexMatchesScan' /\ OpenScanOwnedByOwner'
        BY <1>2, <2>1, <2>3
      <3>3. QED
        BY <3>1, <3>2
    <2>4. QED
      BY <1>2, <2>2, <2>3, Zenon DEF Open
  <1>3. QED
    BY <1>1, <1>2

\* close () on an open cursor: the scan is closed and the cursor cleared
LEMMA CloseOpenedFacts ==
  ASSUME opened, CloseCursor
  PROVE  /\ scan' = "closed" /\ opened' = FALSE /\ entry' = FALSE
         /\ row_index' = 0 /\ fetch_count' = 0
  BY Zenon DEF CloseCursor, Clear

\* any state of a closed cursor with well-typed fields satisfies IInv
LEMMA ClosedIInv ==
  ASSUME owner' \in Threads, scan_thread' \in Threads \cup {NoThread},
         pos' \in 0..(NumRows + 1), last' \in Results,
         scan' = "closed", opened' = FALSE, entry' = FALSE,
         row_index' = 0, fetch_count' = 0
  PROVE  IInv'
  <1>1. 0 < INT32_MAX
    BY Int32Facts
  <1>2. fetch_count' \in Nat /\ fetch_count' < INT32_MAX /\ row_index' \in Int
    BY <1>1
  <1>3. TypeOK'
    BY <1>2, Zenon
  <1>4. QED
    BY <1>3

LEMMA CloseIInv ==
  ASSUME IInv, Close
  PROVE  IInv'
  <1>1. CASE opened
    BY <1>1, CloseOpenedFacts, ClosedIInv DEF Close, Results
  <1>2. CASE ~opened
    BY <1>2 DEF Close, CloseCursor, Results
  <1>3. QED
    BY <1>1, <1>2

LEMMA NextRowIInv ==
  ASSUME IInv, NextRow
  PROVE  IInv'
  <1> USE RowsAssumption
  <1>1. UNCHANGED <<owner, scan_thread>>
    BY DEF NextRow
  <1>2. CASE ~opened
    BY <1>1, <1>2 DEF NextRow, Results
  <1>3. CASE opened /\ scan = "open" /\ pos < NumRows /\ pos' = pos + 1
             /\ last' = "S_SUCCESS" /\ row_index' = row_index + 1
             /\ UNCHANGED <<opened, scan, fetch_count, entry>>
    BY <1>1, <1>3 DEF Results
  <1>4. CASE opened /\ scan = "open" /\ pos < NumRows /\ pos' = pos + 1
             /\ last' = "S_ERROR" /\ CloseCursor
    BY <1>1, <1>4, CloseOpenedFacts, ClosedIInv DEF Results
  <1>5. CASE opened /\ scan = "open" /\ pos >= NumRows /\ pos' = NumRows + 1
             /\ last' = "S_END" /\ CloseCursor
    BY <1>1, <1>5, CloseOpenedFacts, ClosedIInv DEF Results
  <1>6. CASE opened /\ scan = "closed" /\ last' = "S_ERROR" /\ CloseCursor
             /\ UNCHANGED pos
    BY <1>1, <1>6, CloseOpenedFacts, ClosedIInv DEF Results
  <1>7. QED
    BY <1>2, <1>3, <1>4, <1>5, <1>6, Zenon DEF NextRow

LEMMA PrevRowIInv ==
  ASSUME IInv, PrevRow
  PROVE  IInv'
  <1> USE RowsAssumption
  <1>1. UNCHANGED <<owner, scan_thread>>
    BY DEF PrevRow
  <1>2. CASE ~opened
    BY <1>1, <1>2 DEF PrevRow, Results
  <1>3. CASE /\ opened /\ scan = "open" /\ pos > 1
             /\ pos' = pos - 1 /\ row_index' = row_index - 1
             /\ last' \in {"S_SUCCESS", "S_ERROR"} /\ scan' \in {"open", "closed"}
             /\ UNCHANGED <<opened, fetch_count, entry>>
    BY <1>1, <1>3 DEF Results
  <1>4. CASE opened /\ scan = "open" /\ pos <= 1 /\ pos' = 0
             /\ last' = "S_END" /\ CloseCursor
    BY <1>1, <1>4, CloseOpenedFacts, ClosedIInv DEF Results
  <1>5. CASE opened /\ scan = "closed" /\ last' = "S_ERROR"
             /\ UNCHANGED <<opened, scan, pos, row_index, fetch_count, entry>>
    BY <1>1, <1>5 DEF Results
  <1>6. QED
    BY <1>2, <1>3, <1>4, <1>5, Zenon DEF PrevRow

LEMMA ChangeOwnerIInv ==
  ASSUME IInv, NEW t \in Threads, ChangeOwner(t)
  PROVE  IInv'
  <1>1. CASE opened
    BY <1>1, CloseOpenedFacts, ClosedIInv DEF ChangeOwner, Results
  <1>2. CASE ~opened
    \* an unopened cursor has no live scan (ScanOnlyWhenOpened), so the
    \* new owner inherits none
    BY <1>2 DEF ChangeOwner, CloseCursor, Results
  <1>3. QED
    BY <1>1, <1>2

LEMMA SetFetchCountIInv ==
  ASSUME IInv, NEW cnt \in FetchCountArgs, SetFetchCount(cnt)
  PROVE  IInv'
  <1>1. cnt \in Int
    BY FetchArgsAssumption
  <1>2. CASE 0 < cnt /\ cnt < INT32_MAX /\ fetch_count' = cnt
    BY <1>1, <1>2 DEF SetFetchCount, Results
  <1>3. CASE UNCHANGED fetch_count
    BY <1>3 DEF SetFetchCount, Results
  <1>4. QED
    BY <1>2, <1>3, Zenon DEF SetFetchCount

LEMMA NextIInv == IInv /\ [Next]_vars => IInv'
  <1> SUFFICES ASSUME IInv, [Next]_vars PROVE IInv'
    OBVIOUS
  <1>1. CASE UNCHANGED vars
    BY <1>1 DEF vars
  <1>2. QED
    BY <1>1, OpenIInv, CloseIInv, NextRowIInv, PrevRowIInv, ChangeOwnerIInv,
       SetFetchCountIInv DEF Next

\* Type correctness of query_cursor: in particular m_fetch_count stays a
\* count set_fetch_count or the constructor gave it, or the 0 of clear().
THEOREM CursorTypeCorrect == Spec => []TypeOK
  BY InitIInv, NextIInv, PTL DEF Spec

\* next_row and prev_row keep m_current_row_index equal to the scan
\* position while the cursor is open on a live scan, through every
\* success, end and error path.
THEOREM RowIndexInvariant == Spec => []RowIndexMatchesScan
  BY InitIInv, NextIInv, PTL DEF Spec

\* change_owner never hands a thread a scan opened for another thread.
THEOREM ScanOwnershipInvariant == Spec => []OpenScanOwnedByOwner
  BY InitIInv, NextIInv, PTL DEF Spec
=============================================================================
