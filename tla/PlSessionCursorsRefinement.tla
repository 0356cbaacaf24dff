--------------------- MODULE PlSessionCursorsRefinement ---------------------
(***************************************************************************)
(* The cursor registry implements CursorTable: under the mapping cursors   *)
(* <- AbsCursors (each registered query id with its cursor's owner and    *)
(* open flag) and promoted <- m_session_cursors, the initial state is the *)
(* empty table and every step is a CursorTable step or leaves the table   *)
(* unchanged.  A step on one cursor object changes the entry of one query *)
(* id only because no object is registered under two ids (MapInjective)   *)
(* and a new object is registered nowhere yet (MappedCreated); both are   *)
(* parts of the inductive invariant RInv of PlSessionCursorsProofs.        *)
(***************************************************************************)
EXTENDS PlSessionCursorsProofs

\* the query ids with a registered cursor, the domain of the mapped table
Registered == {x \in QueryIds : cursor_map[x] # NoCursor}

LEMMA AbsDomain ==
  /\ DOMAIN AbsCursors = Registered
  /\ \A x \in Registered :
       AbsCursors[x] = [owner |-> cur_owner[cursor_map[x]], open |-> cur_open[cursor_map[x]]]
  BY DEF AbsCursors, Registered

\* a step that leaves the map, the owners, the open flags and the promoted
\* ids alone is a stuttering step of the table
LEMMA MappedUnchanged ==
  ASSUME UNCHANGED <<cursor_map, cur_owner, cur_open, session_cursors>>
  PROVE  UNCHANGED Table!tableVars
  BY DEF Table!tableVars, AbsCursors

\* a step that changes only the cursor object registered under q, and
\* leaves the map alone, changes the table at q only
LEMMA OneObjectStep ==
  ASSUME RInv, NEW q \in QueryIds, cursor_map[q] # NoCursor,
         UNCHANGED cursor_map,
         \A o \in CursorObjs : o # cursor_map[q] =>
            cur_owner'[o] = cur_owner[o] /\ cur_open'[o] = cur_open[o]
  PROVE  /\ DOMAIN AbsCursors' = DOMAIN AbsCursors
         /\ \A x \in DOMAIN AbsCursors : x # q => AbsCursors'[x] = AbsCursors[x]
  <1>1. \A x \in Registered : x # q => cursor_map[x] # cursor_map[q]
    BY DEF RInv, MapInjective, Registered
  <1>2. \A x \in Registered : cursor_map[x] \in CursorObjs
    BY DEF RInv, IInv, TypeOK, Registered
  <1>. QED  BY <1>1, <1>2 DEF AbsCursors, Registered

-----------------------------------------------------------------------------
(* create_cursor is Take *)

LEMMA CreateCursorRefines ==
  ASSUME RInv, NEW t \in Threads, NEW q \in QueryIds, CreateCursor(t, q)
  PROVE  Table!Take(t, q)
  <1> DEFINE taken == [x \in DOMAIN AbsCursors \cup {q} |->
                       IF x # q THEN AbsCursors[x]
                       ELSE IF q \notin DOMAIN AbsCursors THEN [owner |-> t, open |-> FALSE]
                       ELSE [owner |-> t, open |-> AbsCursors[q].open /\ AbsCursors[q].owner = t]]
  <1>1. q \in {x \in QueryIds : x # NULL_QUERY_ID /\ x < SHRT_MAX}
    BY DEF CreateCursor
  <1>2. UNCHANGED session_cursors
    BY DEF CreateCursor
  <1>3. AbsCursors' = taken
    <2>1. CASE cursor_map[q] # NoCursor
      <3> DEFINE o == cursor_map[q]
      <3>1. UNCHANGED cursor_map /\ ChangeCursorOwner(o, t)
        BY <2>1 DEF CreateCursor
      <3>2. o \in CursorObjs /\ q \in DOMAIN AbsCursors
        BY <2>1 DEF RInv, IInv, TypeOK, AbsCursors
      <3>3. \A p \in CursorObjs : p # o =>
                cur_owner'[p] = cur_owner[p] /\ cur_open'[p] = cur_open[p]
        BY <3>1, <3>2 DEF ChangeCursorOwner, RInv, IInv, TypeOK
      <3>4. /\ DOMAIN AbsCursors' = DOMAIN AbsCursors
             /\ \A x \in DOMAIN AbsCursors : x # q => AbsCursors'[x] = AbsCursors[x]
        BY <2>1, <3>1, <3>3, OneObjectStep
      <3>5. AbsCursors'[q] = [owner |-> t, open |-> cur_open[o] /\ cur_owner[o] = t]
        BY <2>1, <3>1, <3>2 DEF ChangeCursorOwner, AbsCursors, RInv, IInv, TypeOK
      <3>6. AbsCursors[q] = [owner |-> cur_owner[o], open |-> cur_open[o]]
        BY <3>2 DEF AbsCursors
      <3>7. DOMAIN AbsCursors \cup {q} = DOMAIN AbsCursors
        BY <3>2
      <3>8. DOMAIN AbsCursors' = DOMAIN taken
        BY <3>4, <3>7
      <3>9. \A x \in DOMAIN taken : AbsCursors'[x] = taken[x]
        BY <3>2, <3>4, <3>5, <3>6, <3>7
      <3>. QED  BY <3>8, <3>9 DEF AbsCursors
    <2>2. CASE cursor_map[q] = NoCursor
      <3> DEFINE n == next_cursor
      <3>1. /\ n \in CursorObjs
             /\ cursor_map' = [cursor_map EXCEPT ![q] = n]
             /\ cur_owner' = [cur_owner EXCEPT ![n] = t]
             /\ UNCHANGED cur_open
        BY <2>2 DEF CreateCursor, RInv, IInv, TypeOK, CursorObjs
      <3>2. ~cur_open[n]
        BY <3>1 DEF RInv, IInv, FreshClosed, CursorObjs
      \* the new object is registered under no other id
      <3>3. \A x \in Registered : cursor_map[x] # n
        BY DEF RInv, IInv, MappedCreated, Registered, TypeOK, CursorObjs, NoCursor
      <3>4. q \notin DOMAIN AbsCursors
        BY <2>2 DEF AbsCursors
      <3>5. Registered' = Registered \cup {q}
        BY <3>1 DEF Registered, RInv, IInv, TypeOK, NoCursor, CursorObjs
      <3>6. \A x \in Registered : x # q /\ cursor_map[x] \in CursorObjs
        BY <2>2 DEF Registered, RInv, IInv, TypeOK
      <3>7. \A x \in Registered : AbsCursors'[x] = AbsCursors[x]
        BY <3>1, <3>3, <3>6, <3>5 DEF AbsCursors, Registered
      <3>8. AbsCursors'[q] = [owner |-> t, open |-> FALSE]
        BY <3>1, <3>2, <3>5 DEF AbsCursors, Registered, RInv, IInv, TypeOK
      <3>9. DOMAIN AbsCursors' = DOMAIN taken
        BY <3>5 DEF AbsCursors, Registered
      <3>10. \A x \in DOMAIN taken : AbsCursors'[x] = taken[x]
        BY <3>4, <3>7, <3>8 DEF AbsCursors, Registered
      <3>. QED  BY <3>9, <3>10 DEF AbsCursors
    <2>. QED  BY <2>1, <2>2
  <1>. QED  BY <1>1, <1>2, <1>3 DEF Table!Take

-----------------------------------------------------------------------------
(* destroy_cursor, open and the end of a scan *)

\* destroy_cursor_internal erases the entry of q and deletes its object
LEMMA DestroyCursorRefines ==
  ASSUME RInv, NEW t \in Threads, NEW q \in QueryIds, DestroyCursor(t, q)
  PROVE  Table!Destroy(q)
  <1> DEFINE o == cursor_map[q]
  <1>1. /\ o # NoCursor
        /\ cursor_map' = [cursor_map EXCEPT ![q] = NoCursor]
        /\ cur_open' = [cur_open EXCEPT ![o] = FALSE]
        /\ UNCHANGED <<cur_owner, session_cursors>>
    BY DEF DestroyCursor, DestroyCursorInternal
  <1>2. o \in CursorObjs /\ q \in DOMAIN AbsCursors
    BY <1>1 DEF RInv, IInv, TypeOK, AbsCursors
  \* no other id names the destroyed object
  <1>3. \A x \in Registered : x # q => cursor_map[x] # o /\ cursor_map[x] \in CursorObjs
    BY DEF RInv, MapInjective, IInv, TypeOK, Registered
  <1>4. Registered' = Registered \ {q}
    BY <1>1 DEF Registered, RInv, IInv, TypeOK
  <1>5. DOMAIN AbsCursors' = DOMAIN AbsCursors \ {q}
    BY <1>4 DEF AbsCursors, Registered
  <1>6. \A x \in DOMAIN AbsCursors \ {q} : AbsCursors'[x] = AbsCursors[x]
    BY <1>1, <1>3, <1>4 DEF AbsCursors, Registered, RInv, IInv, TypeOK
  <1>7. AbsCursors' = [x \in DOMAIN AbsCursors \ {q} |-> AbsCursors[x]]
    BY <1>5, <1>6 DEF AbsCursors
  <1>. QED  BY <1>1, <1>2, <1>7 DEF Table!Destroy

\* a step that sets the open flag of q's cursor and nothing else the
\* table reads sets the open field of q's entry
LEMMA SetOpenStep ==
  ASSUME RInv, NEW q \in QueryIds, cursor_map[q] # NoCursor, NEW b \in BOOLEAN,
         UNCHANGED <<cursor_map, cur_owner>>,
         cur_open' = [cur_open EXCEPT ![cursor_map[q]] = b]
  PROVE  AbsCursors' = [AbsCursors EXCEPT ![q].open = b]
  <1> DEFINE o == cursor_map[q]
  <1>1. o \in CursorObjs /\ q \in DOMAIN AbsCursors
    BY DEF RInv, IInv, TypeOK, AbsCursors
  <1>2. \A p \in CursorObjs : p # o =>
           cur_owner'[p] = cur_owner[p] /\ cur_open'[p] = cur_open[p]
    BY <1>1 DEF RInv, IInv, TypeOK
  <1>3. /\ DOMAIN AbsCursors' = DOMAIN AbsCursors
        /\ \A x \in DOMAIN AbsCursors : x # q => AbsCursors'[x] = AbsCursors[x]
    BY <1>2, OneObjectStep
  <1>4. AbsCursors'[q] = [owner |-> cur_owner[o], open |-> b]
    BY <1>1 DEF AbsCursors, RInv, IInv, TypeOK
  <1>5. AbsCursors[q] = [owner |-> cur_owner[o], open |-> cur_open[o]]
    BY <1>1 DEF AbsCursors
  <1> DEFINE set == [AbsCursors EXCEPT ![q].open = b]
  <1>6. set[q] = [owner |-> cur_owner[o], open |-> b]
    BY <1>1, <1>5
  <1>7. DOMAIN set = DOMAIN AbsCursors /\ \A x \in DOMAIN set : x # q => set[x] = AbsCursors[x]
    OBVIOUS
  <1>8. \A x \in DOMAIN set : AbsCursors'[x] = set[x]
    BY <1>3, <1>4, <1>6, <1>7
  <1>. QED  BY <1>3, <1>7, <1>8 DEF AbsCursors

\* the owner opens the cursor it looked up
LEMMA OpenCursorRefines ==
  ASSUME RInv, NEW t \in Threads, NEW q \in QueryIds, OpenCursor(t, q)
  PROVE  Table!SetOpen(t, q, TRUE)
  <1>1. /\ cursor_map[q] # NoCursor /\ cur_owner[cursor_map[q]] = t
        /\ UNCHANGED <<cursor_map, cur_owner, session_cursors>>
        /\ cur_open' = [cur_open EXCEPT ![cursor_map[q]] = TRUE]
    BY DEF OpenCursor
  <1>2. q \in DOMAIN AbsCursors /\ AbsCursors[q].owner = t
    BY <1>1 DEF AbsCursors
  <1>. QED  BY <1>1, <1>2, SetOpenStep DEF Table!SetOpen

\* the owner's scan ends and its cursor closes
LEMMA CursorScanEndsRefines ==
  ASSUME RInv, NEW t \in Threads, NEW q \in QueryIds, CursorScanEnds(t, q)
  PROVE  Table!SetOpen(t, q, FALSE)
  <1>1. /\ cursor_map[q] # NoCursor /\ cur_owner[cursor_map[q]] = t
        /\ UNCHANGED <<cursor_map, cur_owner, session_cursors>>
        /\ cur_open' = [cur_open EXCEPT ![cursor_map[q]] = FALSE]
    BY DEF CursorScanEnds
  <1>2. q \in DOMAIN AbsCursors /\ AbsCursors[q].owner = t
    BY <1>1 DEF AbsCursors
  <1>. QED  BY <1>1, <1>2, SetOpenStep DEF Table!SetOpen

-----------------------------------------------------------------------------
(* the promoted ids and destroy_all_cursors *)

LEMMA SessionCursorRefines ==
  ASSUME NEW t \in Threads, NEW q \in QueryIds
  PROVE  /\ AddSessionCursor(t, q) => Table!Promote(q)
         /\ RemoveSessionCursor(t, q) => Table!Demote(q)
  <1>1. AddSessionCursor(t, q) \/ RemoveSessionCursor(t, q) => UNCHANGED AbsCursors
    BY DEF AddSessionCursor, RemoveSessionCursor, AbsCursors
  <1>. QED  BY <1>1 DEF AddSessionCursor, RemoveSessionCursor, Table!Promote, Table!Demote

\* taking the lock, and blocking on it again, change nothing the table
\* reads; the loop that finds the map empty forgets the promoted ids
LEMMA DestroyAllCursorsRefines ==
  ASSUME NEW t \in Threads, DestroyAllCursorsLock(t) \/ DestroyAllCursorsIter(t)
  PROVE  Table!ClearPromoted \/ UNCHANGED Table!tableVars
  <1>1. CASE DestroyAllCursorsLock(t)
    BY <1>1, MappedUnchanged DEF DestroyAllCursorsLock
  <1>2. CASE DestroyAllCursorsIter(t) /\ \E q \in QueryIds : cursor_map[q] # NoCursor
    BY <1>2, MappedUnchanged DEF DestroyAllCursorsIter
  <1>3. CASE DestroyAllCursorsIter(t) /\ \A q \in QueryIds : cursor_map[q] = NoCursor
    <2>1. /\ session_cursors' = {}
          /\ UNCHANGED <<cursor_map, cur_owner, cur_open>>
      BY <1>3 DEF DestroyAllCursorsIter
    <2>2. DOMAIN AbsCursors = {}
      BY <1>3 DEF AbsCursors
    <2>3. UNCHANGED AbsCursors
      BY <2>1 DEF AbsCursors
    <2>. QED  BY <2>1, <2>2, <2>3 DEF Table!ClearPromoted
  <1>. QED  BY <1>1, <1>2, <1>3

-----------------------------------------------------------------------------
(* The refinement *)

LEMMA InitRefines == Init => Table!Init
  <1> SUFFICES ASSUME Init PROVE Table!Init
    OBVIOUS
  <1>1. DOMAIN AbsCursors = {}
    BY DEF Init, AbsCursors
  <1>2. AbsCursors = [q \in {} |-> FALSE]
    BY <1>1 DEF AbsCursors
  <1>. QED  BY <1>2 DEF Init, Table!Init

LEMMA NextRefines == RInv /\ [Next]_vars => [Table!Next]_Table!tableVars
  <1> SUFFICES ASSUME RInv, [Next]_vars PROVE [Table!Next]_Table!tableVars
    OBVIOUS
  <1>1. ASSUME NEW t \in Threads, NEW q \in QueryIds, CreateCursor(t, q)
        PROVE  Table!Next
    BY <1>1, CreateCursorRefines DEF Table!Next
  <1>2. ASSUME NEW t \in Threads, NEW q \in QueryIds, DestroyCursor(t, q)
        PROVE  Table!Next
    BY <1>2, DestroyCursorRefines DEF Table!Next
  <1>3. ASSUME NEW t \in Threads, NEW q \in QueryIds, OpenCursor(t, q)
        PROVE  Table!Next
    BY <1>3, OpenCursorRefines DEF Table!Next
  <1>4. ASSUME NEW t \in Threads, NEW q \in QueryIds, CursorScanEnds(t, q)
        PROVE  Table!Next
    BY <1>4, CursorScanEndsRefines DEF Table!Next
  <1>5. ASSUME NEW t \in Threads, NEW q \in QueryIds,
               AddSessionCursor(t, q) \/ RemoveSessionCursor(t, q)
        PROVE  Table!Next
    BY <1>5, SessionCursorRefines DEF Table!Next
  <1>6. ASSUME NEW t \in Threads, DestroyAllCursorsLock(t) \/ DestroyAllCursorsIter(t)
        PROVE  [Table!Next]_Table!tableVars
    BY <1>6, DestroyAllCursorsRefines DEF Table!Next
  <1>7. CASE UNCHANGED vars
    BY <1>7, MappedUnchanged DEF vars
  <1>. QED  BY <1>1, <1>2, <1>3, <1>4, <1>5, <1>6, <1>7 DEF Next

\* The registry implements CursorTable for any number of threads, query
\* ids and cursor objects: create_cursor hands a thread the id's cursor,
\* closed when it changes hands, or a new closed one; destroy_cursor
\* removes one id's cursor; only the owner opens or closes it; and no call
\* on one query id changes the cursor of another (CursorTableRefined,
\* checked by registry_safety).
THEOREM TableRefinement == Spec => CursorTableRefined
  <1>1. Spec => []RInv
    BY InitRInv, NextRInv, PTL DEF Spec
  <1>. QED  BY <1>1, InitRefines, NextRefines, PTL DEF Spec, CursorTableRefined, Table!Spec

=============================================================================
