# Formal model of the CUBRID PL session

This directory holds TLA+ models of the server-side part of CUBRID's
stored-procedure (PL) runtime found under `src/`. It also holds the TLC
configurations that model-check them and TLAPS proofs of their main
invariants.

## The system

A *PL session* (`src/src/sp/pl_session.cpp`, class `cubpl::session`) belongs
to one database session. It coordinates the nested stored-procedure calls
running in that session:

* **Execution stack of calls.** Each PL call gets an `execution_stack`
  frame.
  * `create_and_push_stack` registers the frame in `m_stack_map` and puts
    its id in the next slot of `m_exec_stack`.
  * A nested call (a stored procedure that calls another) pushes above its
    caller, and the depth is bounded by `METHOD_MAX_RECURSION_DEPTH`.
  * When a call body ends, its thread calls `pop_and_destroy_stack`. That
    waits on `m_cond_var` until the frame is on top, then frees the slot and
    unregisters the frame.
  * Calls may run on different worker threads (a nested call can be served
    by another thread), so several threads can wait there at once.
* **Interrupt.** `set_interrupt(reason)` records the first interrupt reason
  of the running chain of calls.
  * Callers: the depth check, the PL-server connection code, session expiry
    and server shutdown.
  * It then sends a DESTROY request to the PL server (`destroy_pl_context_jvm`)
    on a connection claimed from the session's queue or the global pool
    (`claim_connection`/`release_connection`).
  * A refused nested call, `notify_waiting_stacks` and `wait_for_interrupt`
    wake the threads blocked on the condition variable.
  * `wait_for_interrupt` blocks until the session no longer runs.
* **Cursor registry.** This is `m_cursor_map` and `m_session_cursors` of
  server-side query cursors. Each cursor is a `query_cursor`
  (`pl_query_cursor.cpp`).
* **Session parameters.** These are copies of system parameters sent to
  the PL server.

The **stored-procedure catalog** (`src/src/sp/sp_catalog.cpp`) writes the
catalog rows of a procedure when it is created, and of the built-in
`DBMS_OUTPUT` procedures when a database is created:

* `sp_add_stored_procedure_internal` disables authorization, optionally
  takes a system savepoint, creates the `_db_stored_procedure` object, adds
  one `_db_stored_procedure_args` row per argument, flushes the procedure
  row and then links every argument row back to it (`sp_of`). Any step may
  fail and jump to one error label, which rolls back to the savepoint if
  the caller asked for one.
* `sp_add_stored_procedure` calls it with a savepoint; `sp_builtin_install`
  calls it once per built-in without one.
* `sp_add_stored_procedure_code` and `sp_edit_stored_procedure_code` write
  and update the compiled-code row.
* `sp_split_target_signature` splits a Java target `pkg.Cls.m(int)` into
  class and method.

The other files under `src/` are owner authentication
(`authenticate_owner.cpp`), process utilities (`process_util.c`), the
execution-stack class declaration and log type definitions
(`log_common_impl.h`). They are listed in `PROJECT.json` as not modelled.

## Modules

| module | models |
|---|---|
| `PlSession` | the execution stack, the interrupt, the connection claim, and the wake-ups of `pl_session.cpp` lines 66-392 |
| `MC_PlSession` | the TLC instance: two threads, one connection, depth limit 1, at most 4 frames |
| `PlSessionProofs` | the inductive invariant of `PlSession` and the TLAPS proofs of its theorems |
| `PlQueryCursor` | one `query_cursor` of `pl_query_cursor.cpp`: open, close, `next_row`, `prev_row`, `change_owner`, `set_fetch_count` |
| `MC_PlQueryCursor` | the TLC instance: two threads, three rows, fetch-count arguments 0, 5 and `INT32_MAX` |
| `PlQueryCursorProofs` | the inductive invariant of `PlQueryCursor` and the TLAPS proofs of its theorems |
| `PlSessionCursors` | the cursor registry of `pl_session.cpp` lines 412-557, composed with the ownership part of each cursor |
| `MC_PlSessionCursors` | the TLC instance: two threads, query ids `-1, 1, 2, 3`, `SHRT_MAX = 3`, three cursor objects |
| `PlSessionCursorsProofs` | the inductive invariant of `PlSessionCursors` and the TLAPS proofs of its theorems |
| `SpCatalog` | `sp_catalog.cpp` lines 81-961: adding a procedure step by step with every failure point, the built-in install loop, adding and editing code |
| `MC_SpCatalog` | the TLC instance: two user procedures, three of the built-ins, one code id, at most 6 calls |
| `SpCatalogProofs` | the inductive invariant of `SpCatalog` and the TLAPS proofs of its theorems |
| `SpSignature` | `sp_split_target_signature` (lines 970-996) and a reference definition of its result; `MC_SpCatalog` instantiates it with every string of up to 7 characters over `a`, space, `.` and `(` |
| `CallStack` | the abstract specification of what a session promises about nested calls: a stack of frames, newest on top, and an interrupt flag |
| `PlSessionRefinement` | the TLAPS proof that `PlSession` implements `CallStack` |
| `CursorTable` | the abstract specification of what the cursor registry promises: a table from query ids to an owner and an open flag, and the set of promoted ids |
| `PlSessionCursorsRefinement` | the TLAPS proof that `PlSessionCursors` implements `CursorTable` |
| `SpSignatureProofs` | the TLAPS proof that `sp_split_target_signature` returns the reference split for every string |

### State of `PlSession`

| variable | code |
|---|---|
| `exec_stack` | `m_exec_stack`: a sequence of frame ids, `-1` (`NoFrame`) for a freed slot. The vector keeps freed slots, as the code does |
| `stack_idx` | `m_stack_idx` |
| `stack_map` | the key set of `m_stack_map` |
| `is_running`, `is_interrupted`, `interrupt_id` | `m_is_running`, `m_is_interrupted`, `m_interrupt_id` |
| `session_connections` | the `m_session_connections` queue |
| `pool` | the global connection pool |
| `next_id` | the frame-id generator of `execution_stack`, which is not under `src/` |
| `pc`, `reason`, `popping`, `conn` | per-thread program counter, argument of `set_interrupt`, frame being popped, claimed connection |
| `waiters` | the threads blocked in `m_cond_var.wait`. `notify_all` empties it |
| `call`, `thread_of` | the environment: the state of each frame's call body and the thread running it |

### Actions of `PlSession`

**Critical sections.** Each section run under `m_mutex` is one atomic step:

* `PushTooDeep`, `PushRefused` and `PushFrame` are the three outcomes of
  `create_and_push_stack`.
* `PopDestroy` is the destroying half of `pop_and_destroy_stack`.
* `PopWait` blocks on the condition variable.
* `ClaimConnection` is part of the step that calls it.

**Code without the lock** is split where the code reads and later writes
shared state:

* `set_interrupt` is `SetInterruptCheck` (line 300) followed by
  `SetInterruptWrite` (lines 306-339, including the claim). The release of
  the connection is `DestroyContextRelease`.
* `EndCall` is the end of a call body followed by the unlocked read of
  `m_stack_idx` at line 159. The locked part of the pop happens in a later
  step, so any push or pop of another thread can come between the read and
  the lock. `EndedCallIsPopped` checks that the read never takes the early
  return for a frame that is still registered.
* `WaitForInterrupt` covers the unlocked read of `is_running` at line 383
  and the notify. `WaitForInterruptWake` covers the wait of lines 390-391.

**Environment requests** are `CanStartCall`/`EndCall` and
`ExternalSetInterrupt`:

* A call starts only as the outermost call, or as a nested call while some
  call body runs.
* Only the innermost running call ends, on the thread that runs it.
* `ExternalSetInterrupt` uses a reason from `ExternalReasons`, one
  recognised and one unknown (`ER_FAILED`).

Spurious wake-ups are not modelled. They could only hide the missed
wake-up found below.

### `PlQueryCursor`

The cursor is not synchronized; only its owner thread uses it. So each
method is one step, and the model has a single cursor.

* **State.** `owner`, `opened`, `row_index`, `fetch_count` and `entry` are
  `m_thread`, `m_is_opened`, `m_current_row_index`, `m_fetch_count` and
  whether `m_query_entry` is set.
* **The scan.** The list-file scan (`qfile_*`, outside `src/`) is abstracted.
  * `scan` says whether `m_scan_id` was never opened, is open or is closed.
  * `pos` is its position over `NumRows` rows: 0 before the first row,
    `NumRows + 1` after the last.
  * `scan_thread` is the thread it was opened for.
* **Outcomes.** Decoding a tuple succeeds or fails nondeterministically,
  and so does finding the query entry or opening the scan. The cursor's
  control depends only on that. `last` is the value the call returned.
* **Actions.** Each of `Open`, `Close`, `NextRow`, `PrevRow`, `ChangeOwner`
  and `SetFetchCount` is one method. Each takes every branch of the method,
  with the `close()` and `clear()` it calls (`CloseCursor`, `Clear`).
* **Bound.** `INT32_MAX` is the literal 2147483647, because
  `set_fetch_count` compares with it.

### `PlSessionCursors`

`m_mutex` is a `std::mutex`, which is not recursive. It is modelled by its
owner (`mutex`), so that a thread locking it twice blocks.

* **Methods.** Every method that takes the lock and releases it before
  returning is one step. These are `CreateCursor`, `DestroyCursor`,
  `AddSessionCursor`, `RemoveSessionCursor` and `OpenCursor` (the
  `get_cursor` lookup followed by the owner's open).
* **`destroy_all_cursors`.** It keeps the lock across its loop, so it is
  split at the points where it interacts:
  * `DestroyAllCursorsLock` takes the lock (line 544);
  * `DestroyAllCursorsIter` either reaches the nested `destroy_cursor` with
    the lock held (pc `dac_relock`), or finds the map empty and clears it.
* **Cursor objects.** They are numbered in creation order, so a deleted
  object is told apart from a new one registered under the same id.
* **Ownership.** `cur_owner`, `cur_open` and `cur_opener` are the ownership
  part of each cursor, and `ChangeCursorOwner` is `change_owner`.
* **Environment.** `CursorScanEnds` is the owner's scan reaching its end,
  which closes the cursor.

### `SpCatalog`

The catalog is abstracted to sets of row identities: `sp_rows` (one per
procedure, named by procedure and by the call that wrote it), `arg_rows`,
`linked` (argument rows whose `sp_of` was set) and `code_rows`. A
procedure's argument list is a sequence of `<<type, mode>>` pairs, so that
`sp_check_param_type_supported` (`ParamTypeSupported`) decides as in the
code. The built-ins are the seven definitions of `sp_builtin_init`.

* **Control.** `pc` is the label of `sp_add_stored_procedure_internal`
  the running call is at; one action per block of the function
  (`FindClass`, `Savepoint`, `CreateTemplate`, `PutAttributes`,
  `CreateArgSequence`, `ArgCheck`/`ArgAdd`/`ArgPut` for the argument loop,
  `ArgsDone`, `PutRest`, `FinishObject`, `FlushObject`, `LinkArg`/`LinkDone`
  for the reverse loop, `ErrorPath` for the error label). Every block can
  fail and go to `error`, as every `goto error` of the code does.
* **Savepoint.** `saved` is the catalog at the latest savepoint named
  `SAVEPOINT_ADD_STORED_PROC` of the transaction, and `taken` whether the
  running call took it. The error label restores `saved` when
  `has_savepoint` holds and a savepoint exists; `TranCommit` (the
  transaction ending between calls) drops it.
* **Authorization.** `au` is the `AU_DISABLE` state, `au_save` the value
  saved by the running call; `mop_list` whether its `malloc` is live.
* **Entry points.** `AddStoredProcedure(p)`, `BuiltinInstall` with
  `InstallNext`/`InstallDone` (once, with no savepoint),
  `AddStoredProcedureCode(c)` and `EditStoredProcedureCode(c)`, whose many
  failure points collapse to their effect on the code row;
  `ReturnToCaller` hands the result back.
* **Signature.** `SpSignature` translates `sp_split_target_signature`
  index for index (`FindLastOf`, `RTrim`, `LTrim`) and checks it against
  `ReferenceSplit`, which describes the result by the decomposition
  *spaces, class, `.`, method, spaces, last `(`, rest* of the input.
  The `std::string` searches return the largest or smallest index of a set
  (`LastOf`, `FirstOf`), 0 standing for `npos`; no recursion is used, so
  the module can be reasoned about. The characters `' '`, `.` and `(` are
  named (`Space`, `Dot`, `Paren`) so that the proofs can keep them opaque.
* **Assumptions.** `CodeAssumption` (there is a code row for `Init` to
  name) and `ArgsAssumption` (each user procedure's arguments are
  `<<type, mode>>` pairs) state what the proofs need of the constants.
  `ArgRowIds` bounds an argument row's index by its own procedure's list.

## Runs

The first five runs use `MC_PlSession`. Two threads are the smallest number at which
calls of two threads nest, two pops wait on each other and two
`set_interrupt` calls race.

* **Depth limit.** It is 1, so a third push hits it and exercises
  `PushTooDeep`.
* **Frames.** `MaxFrames = 4` allows a push, pop and push again (slot
  reuse), plus a nested chain.
* **Connections.** One connection is enough for the claim to take both
  branches, the session queue and the pool.
* **Symmetry.** Thread symmetry is sound because no thread is distinguished
  by the code.

| run | cfg | expect | what it shows |
|---|---|---|---|
| `session_safety` | `PlSession_safety.cfg` | pass | `TypeOK`, `StackMatchesRegistry` (slots `0..m_stack_idx` hold exactly the registered frames in push order, the slots above are freed, and `m_is_running` holds exactly while a frame is on the stack), `EndedCallIsPopped` (a frame whose call has returned stays registered only while its thread waits in `pop_and_destroy_stack` for it: the unlocked read of `m_stack_idx` at line 159 never abandons it), `PopDestroysNewest` (a frame is destroyed only when every frame pushed after it is gone, whichever thread ends first), `CallStackRefined` (`PlSession` implements `CallStack` under the mapping `stack <- SubSeq(exec_stack, 1, stack_idx + 1)`, `interrupted <- is_interrupted`). 74 171 distinct states |
| `session_pop_liveness` | `PlSession_pop_liveness.cfg` | violation | `PopCompletes` fails under weak fairness of every thread. See finding 1 |
| `session_first_interrupt` | `PlSession_first_interrupt.cfg` | violation | `FirstInterruptWins` fails. See finding 2 |
| `session_top_stack` | `PlSession_top_stack.cfg` | violation | `TopStackInBounds` fails. See finding 3 |
| `session_destroy_unknown` | `PlSession_destroy_unknown.cfg` | violation | `DestroyOnlyWhenInterrupted` fails. See finding 4 |

The query-cursor runs use `MC_PlQueryCursor`.

* Three rows let a scan move forward and back between rows, and reach both
  ends.
* The fetch-count arguments are one valid count, 0, and `INT32_MAX`: both
  edges of the check at line 306.
* Two threads are enough for `change_owner` to hand the cursor over.

The registry runs use `MC_PlSessionCursors`.

* Id 3 equals the scaled-down `SHRT_MAX`, so `create_cursor` refuses it.
* `-1` is `NULL_QUERY_ID`.
* Three cursor objects allow an id to be destroyed and given a new cursor
  while another id holds one.

| run | cfg | expect | what it shows |
|---|---|---|---|
| `cursor_safety` | `PlQueryCursor_safety.cfg` | pass | `TypeOK`; `RowIndexMatchesScan` (while open on a live scan, the row index is the scan position); `OpenScanOwnedByOwner` (a live scan belongs to the current owner) |
| `cursor_error_closes` | `PlQueryCursor_error_closes.cfg` | violation | `ErrorOrEndCloses` fails. See finding 5 |
| `cursor_fetch_count` | `PlQueryCursor_fetch_count.cfg` | violation | `OpenCursorFetchCountValid` fails. See finding 6 |
| `registry_safety` | `PlSessionCursors_safety.cfg` | pass | `TypeOK`; `RegistryMatchesCursors` (every entry names a live cursor and every live cursor has exactly one entry); `CursorTableRefined` (every step is a step of `CursorTable` under the mapping below) |
| `registry_destroy_all` | `PlSessionCursors_destroy_all.cfg` | violation | `NoSelfDeadlock` fails. See finding 7 |

The catalog runs use `MC_SpCatalog`. Procedure `p1` has an `INTEGER IN`
and a `RESULTSET OUT` argument, so the argument and linking loops run
twice; `p2` has a `RESULTSET IN` argument, which the type check refuses.
Three built-ins (none, one and two arguments) and six calls let the
install loop run next to a user add, a retry of the same name, and a
commit in between. `signature_split` enumerates all 21 845 strings of up
to 7 characters over the four characters that matter to the algorithm.

| run | cfg | expect | what it shows |
|---|---|---|---|
| `catalog_safety` | `SpCatalog_safety.cfg` | pass | `TypeOK`; `AddAllOrNothing` (a successful add or install leaves the procedure and all its argument rows linked; a failed add after its savepoint leaves the catalog exactly as before the call); `AuRestored` (authorization is back on at every return); `SplitMatchesReference` (in every state, the code's index arithmetic gives the class and method of the decomposition, for every target; its quantified part `SplitAgrees` is a constant formula TLC evaluates once). 780 989 distinct states |
| `catalog_stale_savepoint` | `SpCatalog_stale_savepoint.cfg` | violation | `FailedAddKeepsCatalog` fails. See finding 11 |

`SpCatalog` also states `InstallReportsFailure`, `MopListFreed` and
`EditFailureKeepsRow`. A copy of `SpCatalog_stale_savepoint.cfg` naming
one of them instead makes TLC report it violated (findings 8 to 10). They
are not kept as runs: each follows from a single line of the code, and the
run list keeps one violation run per component for the deepest question.

`registry_safety` sets `CHECK_DEADLOCK FALSE`, because the code really
stops there: a thread in `destroy_all_cursors` with a registered cursor
blocks on itself, and so does every later caller (finding 7).

Every property of a passing run has a mutant in `PROJECT.json`: a plausible
bug in the mapped code that TLC shows breaks it.

* `PushFrameDepthOffByOne`: `<=` for `<` in the depth check.
* `DestroyTopKeepsRegistry`: the frame is not erased from `m_stack_map`.
* `EndCallReturnsAtZero`: the early return of line 159 tests `m_stack_idx <= 0`.
* `PopDestroyNoWait`: the pop does not wait for its frame to be on top.
* `SetFetchCountNoUpper`: `set_fetch_count` checks only `cnt > 0`.
* `PrevRowLateDecrement`: `prev_row` moves the index only after decoding.
* `ChangeOwnerNoClose`: `change_owner` does not close the cursor.
* `AddSessionCursorNoNullCheck`: `NULL_QUERY_ID` is not filtered out.
* `DestroyCursorInternalKeepEntry`: the cursor is deleted, but its entry is
  not erased.
* `FlushObjectKeepIndex`: the reverse loop starts at `i` instead of `i - 1`.
* `ErrorPathNoRollback`: the error label skips the savepoint rollback.
* `LinkDoneNoAuEnable`: the success path forgets `AU_ENABLE`.
* `RTrimKeep`: the right trim before `(` is forgotten.
* `PushNewFrameNoReset`: `push_frame` forgets `clear_interrupt` when it
  starts an outermost call, so a stale interrupt survives into the new call
  chain, which `CallStack` forbids (`CallStackRefined`).

**Fairness.** `FairSpec` assumes weak fairness of every thread's own steps
(`ThreadStep`) and of the end of the running call (`EndCall`):

* A thread the OS can run eventually runs.
* A call body eventually returns, because the PL server answers or the
  polling read gives up.

Starting calls, external interrupts and notifications are requests that
nobody is obliged to make, so they get no fairness.

### Findings

1. **Missed wake-up** (`pl_session.cpp:186`). `pop_and_destroy_stack`
   never notifies `m_cond_var` after removing the top frame.
   * Suppose a nested call ran on thread B while its caller's frame belongs
     to thread A, and A reached the pop first. Then A waits until some
     unrelated `notify_all`, and may wait forever.
   * The spec (section 4.1) says the pop must wake the waiting threads.
2. **Interrupt race** (`pl_session.cpp:300`). `set_interrupt` checks and
   writes `m_is_interrupted` without the mutex. Line 105 even releases the
   mutex before calling it.
   * Two concurrent interrupts both pass the check, and the second reason
     overwrites the first.
3. **Out-of-bounds read** (`pl_session.cpp:268`). `top_stack_internal`
   guards with `m_exec_stack.empty()`, but freed slots stay in the vector.
   * After one call has been pushed and popped, it reads
     `m_exec_stack[-1]`.
4. **DESTROY for ignored reasons** (`pl_session.cpp:339`). The switch
   ignores unknown reasons, but `destroy_pl_context_jvm` runs anyway.
   * The PL server's context of a session that is not interrupted is torn
     down.

5. **`prev_row` leaves the cursor open on error**
   (`pl_query_cursor.cpp:153`).
   * A missing domain closes only the scan (line 142), and a failed read
     closes nothing. Either way `m_is_opened` stays true.
   * `next_row` closes the cursor on the same errors (line 224).
   * The spec (4.3) says a decode error closes the cursor.
6. **Fetch count 0 after a reopen** (`pl_query_cursor.cpp:110`).
   * `clear()` sets `m_fetch_count` to 0 on every close, and `open()` does
     not restore it.
   * A reopened cursor reports a count that `set_fetch_count` would reject.
7. **Self-deadlock in `destroy_all_cursors`** (`pl_session.cpp:551`).
   * It holds `m_mutex` and calls `destroy_cursor`, which locks the same
     non-recursive mutex again (line 479).
   * Had the call returned, line 552 would delete the cursor a second time.
8. **Install hides failures** (`sp_catalog.cpp:296`). `sp_builtin_install`
   returns only the last call's error (the `assert` is compiled out in
   release builds). An earlier built-in that failed is reported as
   installed, and the rows it wrote before failing stay, since the calls
   take no savepoint.
9. **`mop_list` leaks** (`sp_catalog.cpp:468`). The list `malloc`'ed at
   line 468 is freed only on the success path (line 614); the error label
   (lines 621-640) does not free it.
10. **A failed edit deletes the code** (`sp_catalog.cpp:946`).
    `sp_edit_stored_procedure_code` handles a failed flush like the add
    functions and calls `obj_delete` on the object, which is the existing
    code row.
11. **Rollback to a stale savepoint** (`sp_catalog.cpp:634`). With
    `has_savepoint` true, the error label rolls back even when the failure
    (`db_find_class`, line 357) came before this call's
    `tran_system_savepoint` (line 367). The savepoint of that name is then
    an earlier call's, and the rollback removes rows that calls in between
    added.

## What is proved

`PlSessionProofs` proves for every value of the constants. The only
assumptions are `METHOD_MAX_RECURSION_DEPTH \in Nat` and `MaxFrames \in Nat`.

* `TypeCorrect`: `Spec => []TypeOK`.
* `RegistryInvariant`: `Spec => []StackMatchesRegistry`.
* `LifoTeardown`: `Spec => PopDestroysNewest`.
* `EndedCallsPopped`: `Spec => []EndedCallIsPopped`.

**Why the invariant must be strengthened.** Neither invariant is inductive
alone. The pop destroys `popping[t]`, and nothing in `StackMatchesRegistry`
says that frame is still registered. The push registers `next_id`, and
nothing says that id is fresh. The inductive invariant `IInv` adds:

* every registered frame id is below `next_id`, so a push appends the
  largest id and keeps the slots ordered;
* a thread in `pop_wait` names a registered, returned frame, and no two such
  threads name the same frame;
* a thread about to release a connection holds one;
* every registered frame runs on a thread, and `EndedCallIsPopped` itself.
  It is inductive with the rest: `EndCall` of a registered frame sees
  `stack_idx >= 0` by `StackMatchesRegistry`, so it moves to `pop_wait`,
  and only the `PopDestroy` of that frame moves its thread on.

TLC checked `IInv` as an invariant of the instance before the proof.

**Structure of the proof.**

* One lemma per action shows that the action preserves `IInv`.
* `NextIInv` combines those lemmas.
* The theorems follow by `PTL`.
* `LifoTeardown` adds that only `PopDestroy` shrinks the registry, and
  that the frame it removes is in the top slot. By the ordering conjunct,
  that frame is the largest registered id.

`PlQueryCursorProofs` proves, assuming only `NumRows \in Nat` and
`FetchCountArgs \subseteq Int`:

* `CursorTypeCorrect`: `Spec => []TypeOK`.
* `RowIndexInvariant`: `Spec => []RowIndexMatchesScan`.
* `ScanOwnershipInvariant`: `Spec => []OpenScanOwnedByOwner`.

Its `IInv` adds `ScanOnlyWhenOpened`: a live scan exists only under a cursor
marked open. Without it, `ChangeOwner` on an unopened cursor could leave a
live scan of the old owner. Closing an open cursor is factored into
`CloseOpenedFacts`, and the state it leaves into `ClosedIInv`. Every path
of `next_row`, `prev_row` and `change_owner` that closes is discharged by
those two lemmas. `INT32_MAX` stays opaque in the proofs (`Int32Facts`).

`PlSessionCursorsProofs` proves, assuming only `MaxCursors \in Nat`:

* `RegistryTypeCorrect`: `Spec => []TypeOK`.

Its `IInv` adds three conjuncts:

* `OpenOnlyForOwner`: an open cursor is open for its owner, since
  `change_owner` closes a cursor handed to another thread.

* `FreshClosed`: objects not created yet are closed, so a new cursor starts
  closed.
* `MappedCreated`: every registered object was already created, so the
  cursor `OpenCursor` opens is not one `CreateCursor` will later hand out
  as new.

`PlSessionRefinement` proves, from the same assumptions:

* `Refinement`: `Spec => CallStackRefined`, where `CallStackRefined` is
  `CallStack!Spec` under the mapping above.

**Argument.** The initial state maps to the empty stack, uninterrupted.
Every step, under `IInv` of `PlSessionProofs`, maps to a step of `CallStack`
or a stutter:

* `PushFrame` appends `next_id` in slot `stack_idx + 1`. `IInv` says every
  registered id is below `next_id`, so the appended frame is newer than all
  below it. The depth guard of the code gives the depth bound of `Push`.
  On an empty stack the interrupt is cleared; on a non-empty one the code
  refuses the push when interrupted.
* `PopDestroy` removes the top slot (the slot its frame is in, by the
  `StackMatchesRegistry` conjunct), which is `Pop`. It clears the interrupt
  exactly when the stack drains.
* `set_interrupt` is `Interrupt`.
* Every other step leaves `exec_stack` up to `stack_idx`, `stack_idx` and
  `is_interrupted` unchanged (lemma `MappedUnchanged`). So it stutters.

The lemma `LivePrefix` states what `SubSeq` of the stack is after a slot is
written or `stack_idx` moves. The step lemmas `PushFrameRefines`,
`PopDestroyRefines` and `SetInterruptWriteRefines` use it, and
`NextRefines` combines them.

`PlSessionCursorsProofs` also proves `RegistryInvariantCursors`:
`Spec => []RegistryMatchesCursors`. The count of query ids mapped to a live
cursor is not inductive. `RInv` strengthens it with three conjuncts:

* `MappedLive`: every mapped object is live.
* `LiveMapped`: every live object is mapped.
* `MapInjective`: no two ids map to the same object.

From these the preimage of each live object is a singleton, and
`FS_Singleton` gives its cardinality (lemma `RegistryFromParts`).
`destroy_cursor` uses injectivity: no other id still names the destroyed
object. TLC checked `RInv` before the proof.

`SpCatalogProofs` proves three theorems, assuming `MaxCalls \in Nat`,
`CodeIds # {}` and `UserArgs \in [UserProcs -> Seq(STRING \X STRING)]`:

* `CatalogTypeCorrect`: `Spec => []TypeOK`.
* `AuRestoredInvariant`: `Spec => []AuRestored`.
* `AllOrNothingInvariant`: `Spec => []AddAllOrNothing`.

Its `IInv` adds these groups:

* `CallInv`: the call and the call counter are set while the code runs.
* `AuInv`: the saved bypass flag is always false. So the restore at every
  exit switches the bypass off.
* `SavepointInv`: no savepoint is taken before `tran_system_savepoint`. Once
  one is taken, `saved` is the catalog the add started from.
* `ArgsInv`: at each loop label, argument rows `0..idx-1` exist. The link
  loop has linked every row after `idx`. A success return therefore finds
  every row in place.

For the proof, an argument row's index ranges over the positions of that
procedure's own argument list (`ArgRowIds`), not over a global maximum.
There is one lemma per action, and `NextIInv` combines them.

`PlSessionCursorsRefinement` proves, assuming only `MaxCursors \in Nat`:

* `TableRefinement`: `Spec => CursorTableRefined`, where
  `CursorTableRefined` is `CursorTable!Spec` under the mapping
  `cursors <- AbsCursors`, `promoted <- session_cursors`. `AbsCursors`
  maps each query id that `m_cursor_map` holds to the owner and open flag
  of its cursor object; `Creatable` is the ids `create_cursor` accepts
  (not `NULL_QUERY_ID`, below `SHRT_MAX`).

**Argument.** Every step, under `RInv` (the invariants of
`PlSessionCursorsProofs` together), maps to a step of `CursorTable` or a
stutter:

* `CreateCursor` is `Take`. For a registered id, `MapInjective` says no
  other id names the same object, so changing that object's owner changes
  one entry of the table (lemma `OneObjectStep`). For a new id,
  `FreshClosed` says the new object is closed and `MappedCreated` says no
  registered id names it, so the other entries are unchanged.
* `DestroyCursor` is `Destroy`. The step of `destroy_all_cursors` that
  finds the map empty and clears `m_session_cursors` is `ClearPromoted`;
  its other steps stutter.
* `OpenCursor` and `CursorScanEnds` are `SetOpen` by the owner
  (lemma `SetOpenStep`); `add_session_cursor` and `remove_session_cursor`
  are `Promote` and `Demote`.
* Lock and unlock steps leave the map and the objects' fields alone.

`SpSignatureProofs` proves, for every alphabet that holds `' '`, `.` and
`(` and every string over it, of any length:

* `SplitCorrect`: `SplitTargetSignature(s) = ReferenceSplit(s)`.
* `SplitAgreesHolds`: `SplitAgrees`, every string up to `MaxLen`.
* `SplitReferenceInvariant`: `Spec => []SplitMatchesReference`, the
  invariant the catalog run checks for strings of up to 7 characters.
  The module extends `MC_SpCatalog` for this name only; its constants stay
  free, so the theorem holds for every value of them.

**Argument.** It is an argument about four cut points, not an induction
over strings. `TrimFacts` shows that the two trims leave the part of `s`
from its first to its last non-space before the last `(`. `CutForced`
shows that every decomposition has exactly the cut points the code's
positions give: its `(` is the last one, its first and last non-spaces
before the `(` are where the trims cut, and its dot is the last dot of
`tmp`. `CutExists` shows that when the code finds a `(` and a dot, these
positions satisfy every condition of `Cuts`. So the reference's `CHOOSE`
picks exactly them, and `SubSeqShift` shows the two parts agree index for
index. When the code finds no `(` or no dot, `CutForced` says no
decomposition exists. The only fact about numbers beyond arithmetic is that
a non-empty set of indices has a largest and a smallest element
(`IndexSetHasMax`, `NatSetHasMin`, from the well-foundedness of `<` on
`Nat`).

**Only model-checked.** These stay with TLC:

* liveness (`PopCompletes`). It needs ENABLED and fairness, which are
  beyond the prover.
* the properties whose runs fail.

## Not modelled, and the plan

* **Composition.** The query cursor and the registry are separate modules.
  The registry carries only the ownership part of each cursor. A module
  instantiating one `PlQueryCursor` per registered object would check
  the two together.
* **Left out.** The request id counter (`m_req_id`, incremented without the
  lock) and the read-only getters are not modelled.
* **Catalog details.** `sp_normalize_name` only calls `sm_downcase_name`
  (outside `src/`), and the entry-name getters index a table. The pending
  error read by `sp_check_param_type_supported` for `RESULTSET OUT` is
  taken to be none.
* **Out of scope.** The session parameters, the execution-stack class,
  owner authentication and log definitions are I/O or plain data with no
  state machine of interest.
* **Process utilities (`process_util.c`).** `create_child_process` forks,
  redirects the child's standard streams and waits for it. Its behaviour
  is decided by the OS (fork, dup2, execv, waitpid and the process-wide
  SIGCHLD disposition), and none of its callers is under `src/`. Two
  hazards are listed in `PROJECT.json` for a later model of it:
  * a child whose redirection or `execv` fails returns 1 or -1 from
    `create_child_process` instead of exiting, so it goes on running the
    caller's code as a copy of the parent;
  * the function sets SIGCHLD to `SIG_IGN` when it does not wait and to
    `SIG_DFL` when it does. A call that waits can race one that does not:
    with SIGCHLD ignored, the waited child is reaped by the kernel, and
    `waitpid` fails.
