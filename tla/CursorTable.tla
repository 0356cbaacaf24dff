---------------------------- MODULE CursorTable ----------------------------
(***************************************************************************)
(* What a PL session's cursor registry promises its callers, with the     *)
(* mutex, the heap and the object identities left out: each query id has  *)
(* at most one cursor, owned by one thread and open or closed; a thread   *)
(* that takes the cursor of a query id becomes its owner, and a cursor    *)
(* that changes hands is closed; only the owner opens or closes it; an    *)
(* entry leaves the table only when destroyed; the promoted ids are a set *)
(* of their own, emptied only when no cursor is left.                     *)
(***************************************************************************)
CONSTANTS Threads,    \* the threads calling into the session
          QueryIds,   \* every query id a caller may pass
          Creatable,  \* the ids that may be given a cursor
          Null        \* the id of no query, never promoted

VARIABLES cursors,   \* the ids with a cursor -> [owner, open]
          promoted   \* query ids whose cursors outlive their call

tableVars == <<cursors, promoted>>

Init ==
  /\ cursors = [q \in {} |-> FALSE]
  /\ promoted = {}

\* a thread takes the cursor of q: a new closed one if q has none,
\* otherwise the existing one, closed if it was another thread's
Take(t, q) ==
  /\ q \in Creatable
  /\ cursors' = [x \in DOMAIN cursors \cup {q} |->
                   IF x # q THEN cursors[x]
                   ELSE IF q \notin DOMAIN cursors THEN [owner |-> t, open |-> FALSE]
                   ELSE [owner |-> t, open |-> cursors[q].open /\ cursors[q].owner = t]]
  /\ UNCHANGED promoted

\* the cursor of q is destroyed
Destroy(q) ==
  /\ q \in DOMAIN cursors
  /\ cursors' = [x \in DOMAIN cursors \ {q} |-> cursors[x]]
  /\ UNCHANGED promoted

\* the owner opens its cursor, or the cursor of an open scan closes
SetOpen(t, q, b) ==
  /\ q \in DOMAIN cursors
  /\ cursors[q].owner = t
  /\ cursors' = [cursors EXCEPT ![q].open = b]
  /\ UNCHANGED promoted

\* a query id is promoted to a session cursor, or demoted
Promote(q) ==
  /\ q # Null
  /\ promoted' = promoted \cup {q}
  /\ UNCHANGED cursors

Demote(q) ==
  /\ q # Null
  /\ promoted' = promoted \ {q}
  /\ UNCHANGED cursors

\* the promoted ids are forgotten once no cursor is left
ClearPromoted ==
  /\ DOMAIN cursors = {}
  /\ promoted' = {}
  /\ UNCHANGED cursors

Next ==
  \/ \E t \in Threads, q \in QueryIds :
       Take(t, q) \/ SetOpen(t, q, TRUE) \/ SetOpen(t, q, FALSE)
  \/ \E q \in QueryIds : Destroy(q) \/ Promote(q) \/ Demote(q)
  \/ ClearPromoted

Spec == Init /\ [][Next]_tableVars

=============================================================================
