--------------------------- MODULE PlQueryCursor ---------------------------
(***************************************************************************)
(* One server-side query cursor of the PL runtime (cubpl::query_cursor,    *)
(* src/sp/pl_query_cursor.cpp): a scrollable iterator over the list file   *)
(* of one query's result.                                                  *)
(*                                                                         *)
(* The cursor is not synchronized; it is used by its owner thread, and     *)
(* change_owner closes it before handing it to another thread.  The list   *)
(* file scan (qfile_open_list_scan, qfile_scan_list_next/prev, outside     *)
(* src/) is abstracted to a position over NumRows rows; decoding a tuple   *)
(* either succeeds or fails, which is all the cursor's control depends on. *)
(***************************************************************************)
EXTENDS Integers

CONSTANTS
  Threads,        \* worker threads that may own the cursor
  NumRows,        \* rows in the query result
  FetchCountArgs  \* arguments passed to set_fetch_count

ASSUME RowsAssumption == NumRows \in Nat

ASSUME FetchArgsAssumption == FetchCountArgs \subseteq Int

\* int is 32 bits wide; set_fetch_count rejects INT32_MAX and above
INT32_MAX == 2147483647

\* the constructor's fixed fetch count (FIXME in the source)
INITIAL_FETCH_COUNT == 1000

NoThread == "NoThread"

\* return values: NO_ERROR / ER_FAILED of open, the SCAN_CODEs of the
\* scans, and "none" after a void call
Results == {"none", "NO_ERROR", "ER_FAILED", "S_SUCCESS", "S_END", "S_ERROR"}

VARIABLES
  owner,        \* m_thread
  opened,       \* m_is_opened
  scan,         \* state of m_scan_id: never opened, open, closed
  scan_thread,  \* the thread the scan was opened for
  pos,          \* scan position: 0 before the first row, NumRows + 1 after the last
  row_index,    \* m_current_row_index
  fetch_count,  \* m_fetch_count
  entry,        \* m_query_entry is set
  last          \* value returned by the last call

vars == <<owner, opened, scan, scan_thread, pos, row_index, fetch_count, entry, last>>

TypeOK ==
  /\ owner \in Threads
  /\ opened \in BOOLEAN
  /\ scan \in {"none", "open", "closed"}
  /\ scan_thread \in Threads \cup {NoThread}
  /\ pos \in 0..(NumRows + 1)
  /\ row_index \in Int
  /\ fetch_count \in Nat /\ fetch_count < INT32_MAX
  /\ entry \in BOOLEAN
  /\ last \in Results

\* query_cursor (thread_p, qid, oid_included), lines 33-43
Init ==
  /\ owner \in Threads
  /\ opened = FALSE
  /\ scan = "none"
  /\ scan_thread = NoThread
  /\ pos = 0
  /\ row_index = 0
  /\ fetch_count = INITIAL_FETCH_COUNT
  /\ entry = FALSE
  /\ last = "none"

-----------------------------------------------------------------------------
(* Helpers *)

\* clear (), lines 104-111
Clear ==
  /\ entry' = FALSE
  /\ row_index' = 0
  /\ fetch_count' = 0

\* close (), lines 83-96: an open cursor closes its scan (and the list
\* file) and is cleared
CloseCursor ==
  \/ /\ opened
     /\ scan' = "closed"
     /\ Clear
     /\ opened' = FALSE
  \/ /\ ~opened
     /\ UNCHANGED <<scan, entry, row_index, fetch_count, opened>>

-----------------------------------------------------------------------------
(* Operations *)

\* open (), lines 70-81, with reset (), lines 50-68: the query entry is
\* looked up again and the scan opened; either may fail
Open ==
  \/ /\ opened
     /\ last' = "NO_ERROR"
     /\ UNCHANGED <<owner, opened, scan, scan_thread, pos, row_index, fetch_count, entry>>
  \/ /\ ~opened
     /\ row_index' = 0
     /\ \/ /\ entry' = FALSE
           /\ last' = "ER_FAILED"
           /\ UNCHANGED <<opened, scan, scan_thread, pos>>
        \/ /\ entry' = TRUE
           /\ last' = "ER_FAILED"
           /\ UNCHANGED <<opened, scan, scan_thread, pos>>
        \/ /\ entry' = TRUE
           /\ opened' = TRUE
           /\ scan' = "open"
           /\ scan_thread' = owner
           /\ pos' = 0
           /\ last' = "NO_ERROR"
     /\ UNCHANGED <<owner, fetch_count>>

\* close () called directly (also the destructor, lines 45-48)
Close ==
  /\ CloseCursor
  /\ last' = "none"
  /\ UNCHANGED <<owner, scan_thread, pos>>

\* next_row (), lines 172-230: a decode error and the end of the scan
\* both close the cursor
NextRow ==
  /\ \/ /\ ~opened
        /\ last' = "S_END"
        /\ UNCHANGED <<opened, scan, pos, row_index, fetch_count, entry>>
     \/ /\ opened
        /\ scan = "open"
        /\ pos < NumRows
        /\ pos' = pos + 1
        /\ \/ /\ last' = "S_SUCCESS"
              /\ row_index' = row_index + 1
              /\ UNCHANGED <<opened, scan, fetch_count, entry>>
           \/ /\ last' = "S_ERROR"
              /\ CloseCursor
     \/ /\ opened
        /\ scan = "open"
        /\ pos >= NumRows
        /\ pos' = NumRows + 1
        /\ last' = "S_END"
        /\ CloseCursor
     \* a scan already closed by prev_row fails
     \/ /\ opened
        /\ scan = "closed"
        /\ last' = "S_ERROR"
        /\ CloseCursor
        /\ UNCHANGED pos
  /\ UNCHANGED <<owner, scan_thread>>

\* mutant: the row index is moved only once every column is decoded
PrevRowLateDecrement ==
  /\ \/ /\ ~opened
        /\ last' = "S_END"
        /\ UNCHANGED <<opened, scan, pos, row_index, fetch_count, entry>>
     \/ /\ opened
        /\ scan = "open"
        /\ pos > 1
        /\ pos' = pos - 1
        /\ \/ /\ last' = "S_SUCCESS"
              /\ row_index' = row_index - 1
              /\ UNCHANGED scan
           \/ /\ last' = "S_ERROR"
              /\ scan' = "closed"
              /\ UNCHANGED row_index
           \/ /\ last' = "S_ERROR"
              /\ UNCHANGED <<scan, row_index>>
        /\ UNCHANGED <<opened, fetch_count, entry>>
     \/ /\ opened
        /\ scan = "open"
        /\ pos <= 1
        /\ pos' = 0
        /\ last' = "S_END"
        /\ CloseCursor
     \/ /\ opened
        /\ scan = "closed"
        /\ last' = "S_ERROR"
        /\ UNCHANGED <<opened, scan, pos, row_index, fetch_count, entry>>
  /\ UNCHANGED <<owner, scan_thread>>

\* prev_row (), lines 113-170: the row index is decremented before the
\* tuple is decoded; a missing domain closes the scan only (line 142), a
\* failed read leaves it open (line 153); only the end of the scan closes
\* the cursor
PrevRow ==
  /\ \/ /\ ~opened
        /\ last' = "S_END"
        /\ UNCHANGED <<opened, scan, pos, row_index, fetch_count, entry>>
     \/ /\ opened
        /\ scan = "open"
        /\ pos > 1
        /\ pos' = pos - 1
        /\ row_index' = row_index - 1
        /\ \/ /\ last' = "S_SUCCESS"
              /\ UNCHANGED scan
           \/ /\ last' = "S_ERROR"
              /\ scan' = "closed"
           \/ /\ last' = "S_ERROR"
              /\ UNCHANGED scan
        /\ UNCHANGED <<opened, fetch_count, entry>>
     \/ /\ opened
        /\ scan = "open"
        /\ pos <= 1
        /\ pos' = 0
        /\ last' = "S_END"
        /\ CloseCursor
     \* a scan already closed by an earlier prev_row fails and stays so
     \/ /\ opened
        /\ scan = "closed"
        /\ last' = "S_ERROR"
        /\ UNCHANGED <<opened, scan, pos, row_index, fetch_count, entry>>
  /\ UNCHANGED <<owner, scan_thread>>

\* mutant: the cursor changes hands without being closed
ChangeOwnerNoClose(t) ==
  /\ owner # t
  /\ owner' = t
  /\ last' = "none"
  /\ UNCHANGED <<opened, scan, scan_thread, pos, row_index, fetch_count, entry>>

\* change_owner (thread_p), lines 232-244: another thread takes the
\* cursor, which is closed first; the same thread is a no-op
ChangeOwner(t) ==
  /\ owner # t
  /\ CloseCursor
  /\ owner' = t
  /\ last' = "none"
  /\ UNCHANGED <<scan_thread, pos>>

\* mutant: only the lower bound of the count is checked
SetFetchCountNoUpper(cnt) ==
  /\ \/ cnt > 0 /\ fetch_count' = cnt
     \/ ~(cnt > 0) /\ UNCHANGED fetch_count
  /\ last' = "none"
  /\ UNCHANGED <<owner, opened, scan, scan_thread, pos, row_index, entry>>

\* set_fetch_count (cnt), lines 304-311: an invalid count is ignored
SetFetchCount(cnt) ==
  /\ \/ 0 < cnt /\ cnt < INT32_MAX /\ fetch_count' = cnt
     \/ ~(0 < cnt /\ cnt < INT32_MAX) /\ UNCHANGED fetch_count
  /\ last' = "none"
  /\ UNCHANGED <<owner, opened, scan, scan_thread, pos, row_index, entry>>

Next ==
  \/ Open
  \/ Close
  \/ NextRow
  \/ PrevRow
  \/ \E t \in Threads : ChangeOwner(t)
  \/ \E cnt \in FetchCountArgs : SetFetchCount(cnt)

Spec == Init /\ [][Next]_vars

-----------------------------------------------------------------------------
(* Properties *)

\* While the cursor is open on a live scan, m_current_row_index is the
\* scan's position: next_row and prev_row keep the index and the list file
\* scan in step through every success and error path.
RowIndexMatchesScan ==
  (opened /\ scan = "open") => row_index = pos

\* A live scan always belongs to the cursor's current owner: change_owner
\* never hands a thread a scan opened for another (spec 4.3, 5: "owned by
\* exactly one thread at a time", enforced by close-before-reassignment).
OpenScanOwnedByOwner ==
  scan = "open" => scan_thread = owner

\* next_row and prev_row close the cursor when they reach the end of the
\* scan or fail to decode a row, so the scan is never left half-open
\* (spec 4.3).
ErrorOrEndCloses ==
  [][last' \in {"S_END", "S_ERROR"} => ~opened']_vars

\* An open cursor has a fetch count that set_fetch_count would accept
\* (spec 4.3: only 0 < n < max_int32; anything else keeps the old value).
OpenCursorFetchCountValid ==
  opened => fetch_count \in 1..(INT32_MAX - 1)

=============================================================================
