----------------------- MODULE PlSessionCursorsProofs -----------------------
(***************************************************************************)
(* Proofs about the cursor registry of a session: the type invariant and *)
(* the registry invariant, for any number of threads, query ids and       *)
(* cursor objects.                                                        *)
(***************************************************************************)
EXTENDS PlSessionCursors, FiniteSetTheorems, TLAPS

\* an open cursor is open for the thread that owns it: change_owner closes
\* a cursor create_cursor hands to another thread
OpenOnlyForOwner ==
  \A o \in CursorObjs : cur_open[o] => cur_opener[o] = cur_owner[o]

\* a cursor object not created yet is closed, so create_cursor hands out
\* a closed cursor
FreshClosed == \A o \in CursorObjs : o >= next_cursor => ~cur_open[o]

\* every registered cursor was created before: new hands out objects in
\* order and an erased entry maps to no object
MappedCreated ==
  \A q \in QueryIds : cursor_map[q] # NoCursor => cursor_map[q] < next_cursor

IInv == TypeOK /\ OpenOnlyForOwner /\ FreshClosed /\ MappedCreated

\* every entry of m_cursor_map names a live cursor
MappedLive ==
  \A q \in QueryIds : cursor_map[q] # NoCursor => cur_state[cursor_map[q]] = "live"

\* every live cursor is registered under some query id
LiveMapped ==
  \A o \in CursorObjs : cur_state[o] = "live" => \E q \in QueryIds : cursor_map[q] = o

\* no cursor is registered under two query ids
MapInjective ==
  \A q1, q2 \in QueryIds :
    cursor_map[q1] # NoCursor /\ cursor_map[q1] = cursor_map[q2] => q1 = q2

(***************************************************************************)
(* RegistryMatchesCursors counts the query ids of each live cursor, which  *)
(* is not preserved step by step as it stands: a new cursor takes an id   *)
(* whose entry is free, and the count stays 1 only if the object is not   *)
(* already registered elsewhere (MappedCreated) and the map is injective. *)
(* RInv states the count as its three parts.                               *)
(***************************************************************************)
RInv == IInv /\ MappedLive /\ LiveMapped /\ MapInjective

LEMMA InitIInv == Init => IInv
  BY CursorsAssumption DEF Init, IInv, TypeOK, OpenOnlyForOwner, FreshClosed, MappedCreated,
     CursorObjs

\* every step of the registry preserves IInv
LEMMA CreateCursorIInv ==
  ASSUME IInv, NEW t \in Threads, NEW q \in QueryIds, CreateCursor(t, q)
  PROVE  IInv'
  <1> USE CursorsAssumption DEF IInv, TypeOK, OpenOnlyForOwner, FreshClosed, MappedCreated,
          CursorObjs
  <1>1. CASE cursor_map[q] # NoCursor /\ cur_owner[cursor_map[q]] = t
             /\ UNCHANGED <<cur_owner, cur_open>>
             /\ UNCHANGED <<cursor_map, cur_state, next_cursor>>
    BY <1>1 DEF CreateCursor, CanLock
  <1>2. CASE cursor_map[q] # NoCursor /\ cur_owner[cursor_map[q]] # t
             /\ cur_open' = [cur_open EXCEPT ![cursor_map[q]] = FALSE]
             /\ cur_owner' = [cur_owner EXCEPT ![cursor_map[q]] = t]
             /\ UNCHANGED <<cursor_map, cur_state, next_cursor>>
    BY <1>2 DEF CreateCursor, CanLock, NoCursor
  <1>3. CASE cursor_map[q] = NoCursor /\ next_cursor <= MaxCursors
             /\ cursor_map' = [cursor_map EXCEPT ![q] = next_cursor]
             /\ cur_state' = [cur_state EXCEPT ![next_cursor] = "live"]
             /\ cur_owner' = [cur_owner EXCEPT ![next_cursor] = t]
             /\ next_cursor' = next_cursor + 1
             /\ UNCHANGED cur_open
    BY <1>3 DEF CreateCursor, CanLock, NoCursor
  <1>4. QED
    BY <1>1, <1>2, <1>3, Zenon DEF CreateCursor, ChangeCursorOwner

LEMMA DestroyCursorIInv ==
  ASSUME IInv, NEW t \in Threads, NEW q \in QueryIds, DestroyCursor(t, q)
  PROVE  IInv'
  BY CursorsAssumption DEF IInv, TypeOK, OpenOnlyForOwner, FreshClosed, MappedCreated,
     CursorObjs, NoCursor, DestroyCursor, DestroyCursorInternal, CanLock

LEMMA SessionCursorIInv ==
  ASSUME IInv, NEW t \in Threads, NEW q \in QueryIds,
         AddSessionCursor(t, q) \/ RemoveSessionCursor(t, q)
  PROVE  IInv'
  <1> USE DEF IInv, TypeOK, OpenOnlyForOwner, FreshClosed, MappedCreated
  <1>1. session_cursors' \subseteq QueryIds \ {NULL_QUERY_ID}
    BY Zenon DEF AddSessionCursor, RemoveSessionCursor
  <1>2. UNCHANGED <<mutex, cursor_map, cur_state, cur_owner, cur_open,
                    cur_opener, next_cursor, pc>>
    BY Zenon DEF AddSessionCursor, RemoveSessionCursor
  <1>3. QED
    BY <1>1, <1>2

LEMMA OpenCursorIInv ==
  ASSUME IInv, NEW t \in Threads, NEW q \in QueryIds, OpenCursor(t, q)
  PROVE  IInv'
  BY CursorsAssumption DEF IInv, TypeOK, OpenOnlyForOwner, FreshClosed, MappedCreated,
     CursorObjs, NoCursor, OpenCursor

LEMMA CursorScanEndsIInv ==
  ASSUME IInv, NEW t \in Threads, NEW q \in QueryIds, CursorScanEnds(t, q)
  PROVE  IInv'
  BY CursorsAssumption DEF IInv, TypeOK, OpenOnlyForOwner, FreshClosed, MappedCreated,
     CursorObjs, NoCursor, CursorScanEnds

LEMMA DestroyAllCursorsIInv ==
  ASSUME IInv, NEW t \in Threads,
         DestroyAllCursorsLock(t) \/ DestroyAllCursorsIter(t)
  PROVE  IInv'
  BY DEF IInv, TypeOK, OpenOnlyForOwner, FreshClosed, MappedCreated, DestroyAllCursorsLock,
     DestroyAllCursorsIter, CanLock

LEMMA NextIInv == IInv /\ [Next]_vars => IInv'
  <1> SUFFICES ASSUME IInv, [Next]_vars PROVE IInv'
    OBVIOUS
  <1>1. CASE UNCHANGED vars
    BY <1>1 DEF vars, IInv, TypeOK, OpenOnlyForOwner, FreshClosed, MappedCreated
  <1>2. QED
    BY <1>1, CreateCursorIInv, DestroyCursorIInv, SessionCursorIInv,
       OpenCursorIInv, CursorScanEndsIInv, DestroyAllCursorsIInv DEF Next

\* Type correctness of the registry: m_cursor_map maps ids to cursor
\* objects and m_session_cursors never holds NULL_QUERY_ID.
THEOREM RegistryTypeCorrect == Spec => []TypeOK
  BY InitIInv, NextIInv, PTL DEF Spec, IInv

-----------------------------------------------------------------------------
(* The registry matches the cursors *)

\* the three parts give the count: a live cursor's set of query ids is the
\* one id LiveMapped names, by injectivity
LEMMA RegistryFromParts ==
  ASSUME MappedLive, LiveMapped, MapInjective
  PROVE  RegistryMatchesCursors
  <1>1. \A q \in QueryIds : cursor_map[q] # NoCursor => cur_state[cursor_map[q]] = "live"
    BY DEF MappedLive
  <1>2. ASSUME NEW o \in CursorObjs, cur_state[o] = "live"
        PROVE  Cardinality({q \in QueryIds : cursor_map[q] = o}) = 1
    <2>1. PICK q0 \in QueryIds : cursor_map[q0] = o
      BY <1>2 DEF LiveMapped
    <2>2. o # NoCursor
      BY DEF CursorObjs, NoCursor
    <2>3. {q \in QueryIds : cursor_map[q] = o} = {q0}
      BY <2>1, <2>2 DEF MapInjective
    <2>. QED  BY <2>3, FS_Singleton
  <1>. QED  BY <1>1, <1>2 DEF RegistryMatchesCursors

LEMMA InitRInv == Init => RInv
  BY InitIInv DEF Init, RInv, MappedLive, LiveMapped, MapInjective, NoCursor, CursorObjs

\* the registry parts, across each step; IInv' is given by NextIInv
LEMMA CreateCursorRInv ==
  ASSUME RInv, NEW t \in Threads, NEW q \in QueryIds, CreateCursor(t, q)
  PROVE  (MappedLive /\ LiveMapped /\ MapInjective)'
  <1> USE DEF RInv, IInv, TypeOK, MappedCreated, MappedLive, LiveMapped, MapInjective
  <1>1. CASE cursor_map[q] # NoCursor /\ UNCHANGED <<cursor_map, cur_state, next_cursor>>
    BY <1>1
  <1>2. CASE cursor_map[q] = NoCursor /\ next_cursor <= MaxCursors
             /\ cursor_map' = [cursor_map EXCEPT ![q] = next_cursor]
             /\ cur_state' = [cur_state EXCEPT ![next_cursor] = "live"]
             /\ next_cursor' = next_cursor + 1
    <2>1. next_cursor \in CursorObjs /\ next_cursor # NoCursor
      BY <1>2, CursorsAssumption DEF CursorObjs, NoCursor
    <2>2. \A q2 \in QueryIds : cursor_map[q2] # next_cursor
      BY <2>1
    <2>3. MappedLive'
      BY <1>2, <2>1
    <2>4. LiveMapped'
      <3> SUFFICES ASSUME NEW o \in CursorObjs, cur_state'[o] = "live"
                   PROVE  \E q2 \in QueryIds : cursor_map'[q2] = o
        OBVIOUS
      <3>1. CASE o = next_cursor
        BY <1>2, <2>1, <3>1
      <3>2. CASE o # next_cursor
        <4>1. PICK q2 \in QueryIds : cursor_map[q2] = o
          BY <1>2, <3>2
        <4>2. q2 # q /\ cursor_map'[q2] = o
          BY <1>2, <4>1 DEF CursorObjs, NoCursor
        <4>. QED  BY <4>2
      <3>. QED  BY <3>1, <3>2
    <2>5. MapInjective'
      BY <1>2, <2>1, <2>2
    <2>. QED  BY <2>3, <2>4, <2>5
  <1>. QED  BY <1>1, <1>2 DEF CreateCursor
LEMMA DestroyCursorRInv ==
  ASSUME RInv, NEW t \in Threads, NEW q \in QueryIds, DestroyCursor(t, q)
  PROVE  (MappedLive /\ LiveMapped /\ MapInjective)'
  <1> DEFINE o == cursor_map[q]
  <1> USE DEF RInv, IInv, TypeOK, MappedLive, LiveMapped, MapInjective
  <1>1. /\ o # NoCursor
        /\ cur_state' = [cur_state EXCEPT ![o] = "deleted"]
        /\ cursor_map' = [cursor_map EXCEPT ![q] = NoCursor]
    BY DEF DestroyCursor, DestroyCursorInternal
  <1>2. o \in CursorObjs
    BY <1>1
  \* no other id maps to the destroyed cursor
  <1>3. \A q2 \in QueryIds : q2 # q => cursor_map[q2] # o
    BY <1>1
  <1>4. MappedLive'
    BY <1>1, <1>2, <1>3
  <1>5. LiveMapped'
    <2> SUFFICES ASSUME NEW o2 \in CursorObjs, cur_state'[o2] = "live"
                 PROVE  \E q2 \in QueryIds : cursor_map'[q2] = o2
      OBVIOUS
    <2>1. o2 # o /\ cur_state[o2] = "live"
      BY <1>1, <1>2
    <2>2. PICK q2 \in QueryIds : cursor_map[q2] = o2
      BY <2>1
    <2>3. q2 # q /\ cursor_map'[q2] = o2
      BY <1>1, <2>1, <2>2
    <2>. QED  BY <2>3
  <1>6. MapInjective'
    BY <1>1
  <1>. QED  BY <1>4, <1>5, <1>6

\* the other steps leave m_cursor_map and the cursors' lifetimes alone
LEMMA OtherStepsRInv ==
  ASSUME RInv, UNCHANGED <<cursor_map, cur_state>>
  PROVE  (MappedLive /\ LiveMapped /\ MapInjective)'
  BY DEF RInv, MappedLive, LiveMapped, MapInjective

LEMMA NextRInv == RInv /\ [Next]_vars => RInv'
  <1> SUFFICES ASSUME RInv, [Next]_vars PROVE RInv'
    OBVIOUS
  <1>1. IInv'
    BY NextIInv DEF RInv
  <1>2. ASSUME NEW t \in Threads, NEW q \in QueryIds, CreateCursor(t, q)
        PROVE  RInv'
    BY <1>1, <1>2, CreateCursorRInv DEF RInv
  <1>3. ASSUME NEW t \in Threads, NEW q \in QueryIds, DestroyCursor(t, q)
        PROVE  RInv'
    BY <1>1, <1>3, DestroyCursorRInv DEF RInv
  <1>4. ASSUME NEW t \in Threads, NEW q \in QueryIds,
               \/ AddSessionCursor(t, q) \/ RemoveSessionCursor(t, q)
               \/ OpenCursor(t, q) \/ CursorScanEnds(t, q)
        PROVE  RInv'
    <2>1. UNCHANGED <<cursor_map, cur_state>>
      BY <1>4 DEF AddSessionCursor, RemoveSessionCursor, OpenCursor, CursorScanEnds
    <2>. QED  BY <1>1, <2>1, OtherStepsRInv DEF RInv
  <1>5. ASSUME NEW t \in Threads, DestroyAllCursorsLock(t) \/ DestroyAllCursorsIter(t)
        PROVE  RInv'
    <2>1. UNCHANGED <<cursor_map, cur_state>>
      BY <1>5 DEF DestroyAllCursorsLock, DestroyAllCursorsIter
    <2>. QED  BY <1>1, <2>1, OtherStepsRInv DEF RInv
  <1>6. CASE UNCHANGED vars
    BY <1>1, <1>6, OtherStepsRInv DEF vars, RInv
  <1>. QED  BY <1>2, <1>3, <1>4, <1>5, <1>6 DEF Next

\* The registry and the heap agree in every reachable state, for any number
\* of threads, query ids and cursor objects: every entry of m_cursor_map
\* names a live cursor and every live cursor is registered under exactly
\* one query id, whatever the order of create_cursor, destroy_cursor and
\* the other calls of the session's threads (RegistryMatchesCursors,
\* checked by registry_safety).
THEOREM RegistryInvariantCursors == Spec => []RegistryMatchesCursors
  <1>1. RInv => RegistryMatchesCursors
    BY RegistryFromParts DEF RInv
  <1>. QED  BY <1>1, InitRInv, NextRInv, PTL DEF Spec
=============================================================================
