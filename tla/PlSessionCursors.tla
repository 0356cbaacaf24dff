------------------------- MODULE PlSessionCursors -------------------------
(***************************************************************************)
(* The cursor registry of a PL session (src/sp/pl_session.cpp, lines      *)
(* 412-557): m_cursor_map from query ids to server-side query cursors and *)
(* the set m_session_cursors of promoted query ids, both guarded by the   *)
(* session's m_mutex, composed with the ownership part of each cursor     *)
(* (query_cursor::change_owner and close, pl_query_cursor.cpp).          *)
(*                                                                         *)
(* m_mutex is a std::mutex, which is not recursive; it is modelled by its *)
(* owner so that a thread locking it twice blocks on itself.  Each method *)
(* that takes the lock and releases it before returning is one step.      *)
(* Cursor objects are numbered in creation order so that a deleted object *)
(* is told apart from a new one registered under the same query id.       *)
(***************************************************************************)
EXTENDS Integers, FiniteSets

CONSTANTS
  Threads,     \* worker threads calling into the session
  QueryIds,    \* query ids passed in, NULL_QUERY_ID and large ids included
  SHRT_MAX,    \* create_cursor refuses ids from here on
  MaxCursors   \* bound on the cursor objects created

ASSUME CursorsAssumption == MaxCursors \in Nat

\* QUERY_ID of no query
NULL_QUERY_ID == -1

NoThread == "NoThread"

\* cursor objects; 0 stands for a null pointer
CursorObjs == 1..MaxCursors
NoCursor == 0

VARIABLES
  mutex,            \* the thread holding m_mutex, or NoThread
  cursor_map,       \* m_cursor_map: query id -> cursor object, NoCursor if absent
  session_cursors,  \* m_session_cursors
  cur_state,        \* lifetime of each cursor object
  cur_owner,        \* query_cursor::m_thread
  cur_open,         \* query_cursor::m_is_opened
  cur_opener,       \* the thread the cursor's scan was opened for
  next_cursor,      \* the next object new returns
  pc                \* where each thread is in destroy_all_cursors

vars == <<mutex, cursor_map, session_cursors, cur_state, cur_owner, cur_open,
          cur_opener, next_cursor, pc>>

TypeOK ==
  /\ mutex \in Threads \cup {NoThread}
  /\ cursor_map \in [QueryIds -> CursorObjs \cup {NoCursor}]
  /\ session_cursors \in SUBSET (QueryIds \ {NULL_QUERY_ID})
  /\ cur_state \in [CursorObjs -> {"unused", "live", "deleted"}]
  /\ cur_owner \in [CursorObjs -> Threads \cup {NoThread}]
  /\ cur_open \in [CursorObjs -> BOOLEAN]
  /\ cur_opener \in [CursorObjs -> Threads \cup {NoThread}]
  /\ next_cursor \in 1..(MaxCursors + 1)
  /\ pc \in [Threads -> {"idle", "dac_iter", "dac_relock"}]

\* session::session, lines 66-81: both registries start empty
Init ==
  /\ mutex = NoThread
  /\ cursor_map = [q \in QueryIds |-> NoCursor]
  /\ session_cursors = {}
  /\ cur_state = [o \in CursorObjs |-> "unused"]
  /\ cur_owner = [o \in CursorObjs |-> NoThread]
  /\ cur_open = [o \in CursorObjs |-> FALSE]
  /\ cur_opener = [o \in CursorObjs |-> NoThread]
  /\ next_cursor = 1
  /\ pc = [t \in Threads |-> "idle"]

-----------------------------------------------------------------------------
(* Helpers *)

\* std::lock_guard over a whole call: the mutex is free and the caller is
\* not inside destroy_all_cursors
CanLock(t) == mutex = NoThread /\ pc[t] = "idle"

\* query_cursor::change_owner, pl_query_cursor.cpp lines 232-244: a
\* cursor taken by another thread is closed first
ChangeCursorOwner(o, t) ==
  \/ /\ cur_owner[o] = t
     /\ UNCHANGED <<cur_owner, cur_open>>
  \/ /\ cur_owner[o] # t
     /\ cur_open' = [cur_open EXCEPT ![o] = FALSE]
     /\ cur_owner' = [cur_owner EXCEPT ![o] = t]

\* mutant: the cursor is deleted but its entry stays in the map
DestroyCursorInternalKeepEntry(q) ==
  /\ cursor_map[q] # NoCursor
  /\ cur_state' = [cur_state EXCEPT ![cursor_map[q]] = "deleted"]
  /\ cur_open' = [cur_open EXCEPT ![cursor_map[q]] = FALSE]
  /\ UNCHANGED cursor_map

\* destroy_cursor_internal, lines 483-499: the cursor found is deleted (its
\* destructor closes it) and its entry erased
DestroyCursorInternal(q) ==
  /\ cursor_map[q] # NoCursor
  /\ cur_state' = [cur_state EXCEPT ![cursor_map[q]] = "deleted"]
  /\ cur_open' = [cur_open EXCEPT ![cursor_map[q]] = FALSE]
  /\ cursor_map' = [cursor_map EXCEPT ![q] = NoCursor]

-----------------------------------------------------------------------------
(* Operations *)

\* mutant: a new cursor is constructed with no owner thread
CreateCursorNoOwner(t, q) ==
  /\ CanLock(t)
  /\ q # NULL_QUERY_ID /\ q < SHRT_MAX
  /\ \/ /\ cursor_map[q] # NoCursor
        /\ ChangeCursorOwner(cursor_map[q], t)
        /\ UNCHANGED <<cursor_map, cur_state, next_cursor>>
     \/ /\ cursor_map[q] = NoCursor
        /\ next_cursor <= MaxCursors
        /\ cursor_map' = [cursor_map EXCEPT ![q] = next_cursor]
        /\ cur_state' = [cur_state EXCEPT ![next_cursor] = "live"]
        /\ next_cursor' = next_cursor + 1
        /\ UNCHANGED <<cur_owner, cur_open>>
  /\ UNCHANGED <<mutex, session_cursors, cur_opener, pc>>

\* create_cursor, lines 433-468: an id of no query or past SHRT_MAX gets
\* no cursor; a registered cursor is handed to the caller; otherwise a
\* new cursor is created and registered
CreateCursor(t, q) ==
  /\ CanLock(t)
  /\ q # NULL_QUERY_ID /\ q < SHRT_MAX
  /\ \/ /\ cursor_map[q] # NoCursor
        /\ ChangeCursorOwner(cursor_map[q], t)
        /\ UNCHANGED <<cursor_map, cur_state, next_cursor>>
     \/ /\ cursor_map[q] = NoCursor
        /\ next_cursor <= MaxCursors
        /\ cursor_map' = [cursor_map EXCEPT ![q] = next_cursor]
        /\ cur_state' = [cur_state EXCEPT ![next_cursor] = "live"]
        /\ cur_owner' = [cur_owner EXCEPT ![next_cursor] = t]
        /\ next_cursor' = next_cursor + 1
        /\ UNCHANGED cur_open
  /\ UNCHANGED <<mutex, session_cursors, cur_opener, pc>>

\* destroy_cursor, lines 470-481
DestroyCursor(t, q) ==
  /\ CanLock(t)
  /\ q # NULL_QUERY_ID
  /\ DestroyCursorInternal(q)
  /\ UNCHANGED <<mutex, session_cursors, cur_owner, cur_opener, next_cursor, pc>>

\* mutant: the id of no query is not filtered out
AddSessionCursorNoNullCheck(t, q) ==
  /\ CanLock(t)
  /\ session_cursors' = session_cursors \cup {q}
  /\ UNCHANGED <<mutex, cursor_map, cur_state, cur_owner, cur_open, cur_opener,
                 next_cursor, pc>>

\* add_session_cursor and remove_session_cursor, lines 501-525
AddSessionCursor(t, q) ==
  /\ CanLock(t)
  /\ q # NULL_QUERY_ID
  /\ session_cursors' = session_cursors \cup {q}
  /\ UNCHANGED <<mutex, cursor_map, cur_state, cur_owner, cur_open, cur_opener,
                 next_cursor, pc>>

RemoveSessionCursor(t, q) ==
  /\ CanLock(t)
  /\ q # NULL_QUERY_ID
  /\ session_cursors' = session_cursors \ {q}
  /\ UNCHANGED <<mutex, cursor_map, cur_state, cur_owner, cur_open, cur_opener,
                 next_cursor, pc>>

\* the owner looks its cursor up (get_cursor, lines 412-431, under the
\* lock) and opens it (query_cursor::open) for itself
OpenCursor(t, q) ==
  /\ CanLock(t)
  /\ cursor_map[q] # NoCursor
  /\ LET o == cursor_map[q]
     IN  /\ cur_owner[o] = t
         /\ cur_open' = [cur_open EXCEPT ![o] = TRUE]
         /\ cur_opener' = [cur_opener EXCEPT ![o] = t]
  /\ UNCHANGED <<mutex, cursor_map, session_cursors, cur_state, cur_owner,
                 next_cursor, pc>>

\* the owner's scan reaches its end and the cursor closes itself
\* (query_cursor::next_row, lines 224-227)
CursorScanEnds(t, q) ==
  /\ pc[t] = "idle"
  /\ cursor_map[q] # NoCursor
  /\ cur_owner[cursor_map[q]] = t
  /\ cur_open[cursor_map[q]]
  /\ cur_open' = [cur_open EXCEPT ![cursor_map[q]] = FALSE]
  /\ UNCHANGED <<mutex, cursor_map, session_cursors, cur_state, cur_owner,
                 cur_opener, next_cursor, pc>>

\* destroy_all_cursors, line 544: m_mutex is taken for the whole loop
DestroyAllCursorsLock(t) ==
  /\ CanLock(t)
  /\ mutex' = t
  /\ pc' = [pc EXCEPT ![t] = "dac_iter"]
  /\ UNCHANGED <<cursor_map, session_cursors, cur_state, cur_owner, cur_open,
                 cur_opener, next_cursor>>

\* lines 546-556: for a registered cursor, destroy_cursor is called, which
\* locks m_mutex again (line 479) and blocks; an empty map is cleared with
\* the promoted ids and the lock released
DestroyAllCursorsIter(t) ==
  /\ pc[t] = "dac_iter"
  /\ \/ /\ \E q \in QueryIds : cursor_map[q] # NoCursor
        /\ pc' = [pc EXCEPT ![t] = "dac_relock"]
        /\ UNCHANGED <<mutex, session_cursors>>
     \/ /\ \A q \in QueryIds : cursor_map[q] = NoCursor
        /\ session_cursors' = {}
        /\ mutex' = NoThread
        /\ pc' = [pc EXCEPT ![t] = "idle"]
  /\ UNCHANGED <<cursor_map, cur_state, cur_owner, cur_open, cur_opener, next_cursor>>

Next ==
  \E t \in Threads :
    \/ \E q \in QueryIds :
         \/ CreateCursor(t, q)
         \/ DestroyCursor(t, q)
         \/ AddSessionCursor(t, q)
         \/ RemoveSessionCursor(t, q)
         \/ OpenCursor(t, q)
         \/ CursorScanEnds(t, q)
    \/ DestroyAllCursorsLock(t)
    \/ DestroyAllCursorsIter(t)

Spec == Init /\ [][Next]_vars

-----------------------------------------------------------------------------
(* Properties *)

\* The registry and the heap agree: every entry of m_cursor_map points at a
\* live cursor, and every live cursor is registered under exactly one query
\* id, so get_cursor never returns a deleted cursor and no cursor leaks.
RegistryMatchesCursors ==
  /\ \A q \in QueryIds : cursor_map[q] # NoCursor => cur_state[cursor_map[q]] = "live"
  /\ \A o \in CursorObjs :
       cur_state[o] = "live" => Cardinality({q \in QueryIds : cursor_map[q] = o}) = 1

\* No thread waits for m_mutex while it holds it: a std::mutex locked
\* again by its owner never returns, and every other caller of the
\* session then blocks behind it.
NoSelfDeadlock ==
  \A t \in Threads : pc[t] = "dac_relock" => mutex # t

-----------------------------------------------------------------------------
(* The registry as the table of CursorTable *)

\* the ids with a registered cursor, each with its cursor's owner and open flag
AbsCursors ==
  [q \in {x \in QueryIds : cursor_map[x] # NoCursor} |->
     [owner |-> cur_owner[cursor_map[q]], open |-> cur_open[cursor_map[q]]]]

Table == INSTANCE CursorTable
           WITH cursors <- AbsCursors, promoted <- session_cursors,
                Creatable <- {q \in QueryIds : q # NULL_QUERY_ID /\ q < SHRT_MAX},
                Null <- NULL_QUERY_ID

\* The registry behaves as a table of independent cursors, one per query
\* id: create_cursor hands a thread the id's cursor (closed if it changes
\* hands) or a new closed one, destroy_cursor removes only that id's
\* cursor, and no call on one id changes the cursor of another, which
\* needs each cursor object to be registered under one id only.
CursorTableRefined == Table!Spec

=============================================================================
