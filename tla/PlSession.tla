----------------------------- MODULE PlSession -----------------------------
(***************************************************************************)
(* cubpl::session (src/src/sp/pl_session.cpp): the stack of execution     *)
(* frames of nested stored-procedure calls of one database session, the   *)
(* condition variable that makes their teardown LIFO, the session         *)
(* interrupt, and the session's queue of PL-server connections that       *)
(* set_interrupt uses to tell the PL server to drop the session.          *)
(*                                                                         *)
(* Every step of a thread is one critical section of m_mutex, or one      *)
(* stretch of code that runs without it (set_interrupt is called after    *)
(* the lock is released, and takes none).  The call bodies themselves     *)
(* (the PL server executing a procedure) are the environment: a nested    *)
(* call is started by the innermost running call, and a call body ends    *)
(* only after every call it started has ended.                            *)
(***************************************************************************)
EXTENDS Integers, Sequences, FiniteSets

CONSTANTS
  Threads,                    \* worker threads that run calls of the session
  Conns,                      \* connections the global connection pool holds
  METHOD_MAX_RECURSION_DEPTH, \* the depth limit create_and_push_stack checks
  MaxFrames,                  \* bound: execution_stack objects created in a run
  ExternalReasons             \* reason codes other code passes to set_interrupt

ASSUME DepthAssumption == METHOD_MAX_RECURSION_DEPTH \in Nat
ASSUME FramesAssumption == MaxFrames \in Nat

\* the value pop_and_destroy_stack writes into a freed slot (line 179)
NoFrame == -1
NoConn == "NoConn"
NoThread == "NoThread"
NO_ERROR == "NO_ERROR"

\* execution_stack ids: minted in creation order by the execution_stack
\* constructor, so a frame pushed later has a larger id
FrameIds == 1..MaxFrames

\* the cases of the switch in set_interrupt (lines 306-330)
NoArgReasons == {"ER_INTERRUPTED", "ER_SP_TOO_MANY_NESTED_CALL",
                 "ER_NET_SERVER_SHUTDOWN", "ER_SP_NOT_RUNNING_PL_SERVER",
                 "ER_SES_SESSION_EXPIRED"}
OneArgReasons == {"ER_SP_CANNOT_CONNECT_PL_SERVER", "ER_SP_NETWORK_ERROR",
                  "ER_OUT_OF_VIRTUAL_MEMORY"}
RecognizedReasons == NoArgReasons \cup OneArgReasons

VARIABLES
  exec_stack,          \* m_exec_stack: frame ids, slot i+1 holds depth i
  stack_idx,           \* m_stack_idx: index of the top slot, -1 when empty
  stack_map,           \* keys of m_stack_map: the registered frames
  is_running,          \* m_is_running
  is_interrupted,      \* m_is_interrupted
  interrupt_id,        \* m_interrupt_id
  session_connections, \* m_session_connections: FIFO of idle connections
  pool,                \* connections left in the global connection pool
  next_id,             \* id the next execution_stack will get
  pc,                  \* where each thread is
  reason,              \* argument of the set_interrupt a thread is in
  popping,             \* argument of the pop_and_destroy_stack a thread is in
  conn,                \* connection a thread claimed in destroy_pl_context_jvm
  waiters,             \* threads blocked in m_cond_var.wait
  call,                \* state of the call body of each frame (environment)
  thread_of            \* thread that runs each frame (execution_stack::m_thread_p)

sessionVars == <<exec_stack, stack_idx, stack_map, is_running, is_interrupted,
                 interrupt_id, session_connections, pool, next_id>>
threadVars == <<pc, reason, popping, conn, waiters>>
envVars == <<call, thread_of>>
vars == <<sessionVars, threadVars, envVars>>

PCs == {"idle", "si_check", "si_write", "jvm_release", "pop_wait", "wfi_wait"}
CallStates == {"none", "running", "returned", "destroyed"}

TypeOK ==
  /\ exec_stack \in Seq(FrameIds \cup {NoFrame})
  /\ stack_idx \in -1..METHOD_MAX_RECURSION_DEPTH
  /\ stack_map \in SUBSET FrameIds
  /\ is_running \in BOOLEAN
  /\ is_interrupted \in BOOLEAN
  /\ interrupt_id \in RecognizedReasons \cup {NO_ERROR}
  /\ session_connections \in Seq(Conns)
  /\ pool \in SUBSET Conns
  /\ next_id \in 1..(MaxFrames + 1)
  /\ pc \in [Threads -> PCs]
  /\ reason \in [Threads -> ExternalReasons \cup RecognizedReasons \cup {NO_ERROR}]
  /\ popping \in [Threads -> FrameIds \cup {NoFrame}]
  /\ conn \in [Threads -> Conns \cup {NoConn}]
  /\ waiters \in SUBSET Threads
  /\ call \in [FrameIds -> CallStates]
  /\ thread_of \in [FrameIds -> Threads \cup {NoThread}]

Init ==
  /\ exec_stack = <<>>
  /\ stack_idx = -1
  /\ stack_map = {}
  /\ is_running = FALSE
  /\ is_interrupted = FALSE
  /\ interrupt_id = NO_ERROR
  /\ session_connections = <<>>
  /\ pool = Conns
  /\ next_id = 1
  /\ pc = [t \in Threads |-> "idle"]
  /\ reason = [t \in Threads |-> NO_ERROR]
  /\ popping = [t \in Threads |-> NoFrame]
  /\ conn = [t \in Threads |-> NoConn]
  /\ waiters = {}
  /\ call = [f \in FrameIds |-> "none"]
  /\ thread_of = [f \in FrameIds |-> NoThread]

-----------------------------------------------------------------------------
(* Helpers *)

\* the frame in the top slot, as the predicate of pop_and_destroy_stack
\* reads it (m_exec_stack[m_stack_idx])
TopSlot == exec_stack[stack_idx + 1]

\* a call body is running: the innermost one may start a nested call
SomeCallRunning == \E f \in stack_map : call[f] = "running"

\* m_cond_var.notify_all (): every blocked thread re-checks its predicate
NotifyAll == waiters' = {}

\* claim_connection (lines 209-231): the front of the session queue, or a
\* connection drawn from the global pool when the queue is empty
ClaimConnection(t) ==
  \/ /\ session_connections # <<>>
     /\ conn' = [conn EXCEPT ![t] = Head(session_connections)]
     /\ session_connections' = Tail(session_connections)
     /\ UNCHANGED pool
  \/ /\ session_connections = <<>>
     /\ \E c \in pool :
          /\ conn' = [conn EXCEPT ![t] = c]
          /\ pool' = pool \ {c}
     /\ UNCHANGED session_connections
  \/ /\ session_connections = <<>>
     /\ pool = {}
     /\ UNCHANGED <<conn, session_connections, pool>>

-----------------------------------------------------------------------------
(* create_and_push_stack (lines 92-154).  A call is started by a thread   *)
(* that is not blocked, as the outermost call or as a nested call of the  *)
(* innermost running call.                                                *)

CanStartCall(t) ==
  /\ pc[t] = "idle"
  /\ stack_idx = -1 \/ SomeCallRunning

\* lines 103-108: the depth limit is hit; the lock is released and
\* set_interrupt (ER_SP_TOO_MANY_NESTED_CALL) runs without it
PushTooDeep(t) ==
  /\ CanStartCall(t)
  /\ stack_idx >= METHOD_MAX_RECURSION_DEPTH
  /\ pc' = [pc EXCEPT ![t] = "si_check"]
  /\ reason' = [reason EXCEPT ![t] = "ER_SP_TOO_MANY_NESTED_CALL"]
  /\ UNCHANGED <<sessionVars, popping, conn, waiters, envVars>>

\* lines 111-124: an interrupted session refuses a nested call and wakes
\* the waiting threads
PushRefused(t) ==
  /\ CanStartCall(t)
  /\ stack_idx < METHOD_MAX_RECURSION_DEPTH
  /\ ~(~is_running /\ stack_idx = -1)
  /\ is_interrupted /\ stack_idx > -1
  /\ NotifyAll
  /\ UNCHANGED <<sessionVars, pc, reason, popping, conn, envVars>>

\* mutant: a fresh outermost call does not clear the interrupt left by the
\* previous chain (clear_interrupt at line 114 dropped)
PushNewFrameNoReset(t) ==
  /\ next_id <= MaxFrames
  /\ LET fresh == ~is_running /\ stack_idx = -1
         sid == next_id
         idx == stack_idx + 1
     IN  /\ ~(is_interrupted /\ ~fresh /\ stack_idx > -1)
         /\ UNCHANGED <<is_interrupted, interrupt_id>>
         /\ stack_map' = stack_map \cup {sid}
         /\ stack_idx' = idx
         /\ exec_stack' = IF idx < Len(exec_stack)
                            THEN [exec_stack EXCEPT ![idx + 1] = sid]
                            ELSE Append(exec_stack, sid)
         /\ is_running' = TRUE
         /\ next_id' = next_id + 1
         /\ call' = [call EXCEPT ![sid] = "running"]
         /\ thread_of' = [thread_of EXCEPT ![sid] = t]
  /\ UNCHANGED <<session_connections, pool, threadVars>>

\* lines 111-115 and 126-147: a fresh outermost call clears the old
\* interrupt; the new frame is registered and put in the next slot
PushNewFrame(t) ==
  /\ next_id <= MaxFrames
  /\ LET fresh == ~is_running /\ stack_idx = -1
         sid == next_id
         idx == stack_idx + 1
     IN  /\ ~(is_interrupted /\ ~fresh /\ stack_idx > -1)
         /\ is_interrupted' = (is_interrupted /\ ~fresh)
         /\ interrupt_id' = IF fresh THEN NO_ERROR ELSE interrupt_id
         /\ stack_map' = stack_map \cup {sid}
         /\ stack_idx' = idx
         /\ exec_stack' = IF idx < Len(exec_stack)
                            THEN [exec_stack EXCEPT ![idx + 1] = sid]
                            ELSE Append(exec_stack, sid)
         /\ is_running' = TRUE
         /\ next_id' = next_id + 1
         /\ call' = [call EXCEPT ![sid] = "running"]
         /\ thread_of' = [thread_of EXCEPT ![sid] = t]
  /\ UNCHANGED <<session_connections, pool, threadVars>>

\* mutant: the depth check lets one frame more through (> for >=)
PushFrameDepthOffByOne(t) ==
  /\ CanStartCall(t)
  /\ stack_idx <= METHOD_MAX_RECURSION_DEPTH
  /\ PushNewFrame(t)

PushFrame(t) ==
  /\ CanStartCall(t)
  /\ stack_idx < METHOD_MAX_RECURSION_DEPTH
  /\ PushNewFrame(t)

CreateAndPushStack(t) == PushTooDeep(t) \/ PushRefused(t) \/ PushFrame(t)

-----------------------------------------------------------------------------
(* pop_and_destroy_stack (lines 156-193), called by the thread of a frame *)
(* when its call body ends.                                               *)

\* mutant: the early return of line 159 tests m_stack_idx <= 0, so the
\* outermost frame is never torn down
EndCallReturnsAtZero(t) ==
  /\ pc[t] = "idle"
  /\ \E f \in stack_map :
       /\ call[f] = "running"
       /\ thread_of[f] = t
       /\ \A g \in stack_map : call[g] = "running" => g <= f
       /\ call' = [call EXCEPT ![f] = "returned"]
       /\ popping' = [popping EXCEPT ![t] = f]
       /\ pc' = [pc EXCEPT ![t] = IF stack_idx <= 0 THEN "idle" ELSE "pop_wait"]
  /\ UNCHANGED <<sessionVars, reason, conn, waiters, thread_of>>

\* the innermost running call ends on its thread; line 159 reads
\* m_stack_idx without the lock and returns at once when it is -1
EndCall(t) ==
  /\ pc[t] = "idle"
  /\ \E f \in stack_map :
       /\ call[f] = "running"
       /\ thread_of[f] = t
       /\ \A g \in stack_map : call[g] = "running" => g <= f
       /\ call' = [call EXCEPT ![f] = "returned"]
       /\ popping' = [popping EXCEPT ![t] = f]
       /\ pc' = [pc EXCEPT ![t] = IF stack_idx = -1 THEN "idle" ELSE "pop_wait"]
  /\ UNCHANGED <<sessionVars, reason, conn, waiters, thread_of>>

\* lines 172-173: the predicate is false; the thread blocks on m_cond_var
PopWait(t) ==
  /\ pc[t] = "pop_wait"
  /\ t \notin waiters
  /\ TopSlot # popping[t]
  /\ waiters' = waiters \cup {t}
  /\ UNCHANGED <<sessionVars, pc, reason, popping, conn, envVars>>

\* mutant: the frame is unregistered only from the slot, not from m_stack_map
DestroyTopKeepsRegistry(t) ==
  /\ exec_stack' = [exec_stack EXCEPT ![stack_idx + 1] = NoFrame]
  /\ stack_idx' = stack_idx - 1
  /\ UNCHANGED stack_map
  /\ is_running' = (is_running /\ stack_idx - 1 >= 0)
  /\ is_interrupted' = (is_interrupted /\ stack_idx - 1 >= 0)
  /\ interrupt_id' = IF stack_idx - 1 < 0 THEN NO_ERROR ELSE interrupt_id
  /\ call' = [call EXCEPT ![popping[t]] = "destroyed"]
  /\ pc' = [pc EXCEPT ![t] = "idle"]
  /\ popping' = [popping EXCEPT ![t] = NoFrame]
  /\ UNCHANGED <<session_connections, pool, next_id, reason, conn, waiters,
                 thread_of>>

\* lines 177-192: the top slot is invalidated, the depth decremented, the
\* frame unregistered; an empty stack stops the session and clears the
\* interrupt.  No notify follows.
DestroyTop(t) ==
  /\ exec_stack' = [exec_stack EXCEPT ![stack_idx + 1] = NoFrame]
  /\ stack_idx' = stack_idx - 1
  /\ stack_map' = stack_map \ {popping[t]}
  /\ is_running' = (is_running /\ stack_idx - 1 >= 0)
  /\ is_interrupted' = (is_interrupted /\ stack_idx - 1 >= 0)
  /\ interrupt_id' = IF stack_idx - 1 < 0 THEN NO_ERROR ELSE interrupt_id
  /\ call' = [call EXCEPT ![popping[t]] = "destroyed"]
  /\ pc' = [pc EXCEPT ![t] = "idle"]
  /\ popping' = [popping EXCEPT ![t] = NoFrame]
  /\ UNCHANGED <<session_connections, pool, next_id, reason, conn, waiters,
                 thread_of>>

\* mutant: the thread does not wait for its frame to be on top
PopDestroyNoWait(t) ==
  /\ pc[t] = "pop_wait"
  /\ t \notin waiters
  /\ DestroyTop(t)

\* line 175: the frame is on top, so it is destroyed
PopDestroy(t) ==
  /\ pc[t] = "pop_wait"
  /\ t \notin waiters
  /\ TopSlot = popping[t]
  /\ DestroyTop(t)

PopAndDestroyStack(t) == PopWait(t) \/ PopDestroy(t)

-----------------------------------------------------------------------------
(* set_interrupt (lines 297-340) and destroy_pl_context_jvm (244-258).    *)
(* Neither takes m_mutex, so the check and the write are two steps.       *)

\* another component (the interrupt check of a frame polling the PL
\* server, session expiry, server shutdown) calls set_interrupt
ExternalSetInterrupt(t) ==
  /\ pc[t] = "idle"
  /\ \E r \in ExternalReasons :
       /\ pc' = [pc EXCEPT ![t] = "si_check"]
       /\ reason' = [reason EXCEPT ![t] = r]
  /\ UNCHANGED <<sessionVars, popping, conn, waiters, envVars>>

\* lines 300-304: an interrupt already set is not overwritten
SetInterruptCheck(t) ==
  /\ pc[t] = "si_check"
  /\ pc' = [pc EXCEPT ![t] = IF is_interrupted THEN "idle" ELSE "si_write"]
  /\ UNCHANGED <<sessionVars, reason, popping, conn, waiters, envVars>>

\* lines 306-339 with the claim of lines 247-251: a recognized reason is
\* recorded; for any reason a DESTROY request is sent to the PL server on a
\* claimed connection
SetInterruptWrite(t) ==
  /\ pc[t] = "si_write"
  /\ LET known == reason[t] \in RecognizedReasons
     IN  /\ is_interrupted' = (is_interrupted \/ known)
         /\ interrupt_id' = IF known THEN reason[t] ELSE interrupt_id
  /\ ClaimConnection(t)
  /\ pc' = [pc EXCEPT ![t] = IF conn'[t] = NoConn THEN "idle" ELSE "jvm_release"]
  /\ UNCHANGED <<exec_stack, stack_idx, stack_map, is_running, next_id,
                 reason, popping, waiters, envVars>>

\* lines 252-256: send on the connection, then release_connection
\* (lines 233-242) puts it at the back of the session queue
DestroyContextRelease(t) ==
  /\ pc[t] = "jvm_release"
  /\ session_connections' = Append(session_connections, conn[t])
  /\ conn' = [conn EXCEPT ![t] = NoConn]
  /\ pc' = [pc EXCEPT ![t] = "idle"]
  /\ UNCHANGED <<exec_stack, stack_idx, stack_map, is_running, is_interrupted,
                 interrupt_id, pool, next_id, reason, popping, waiters, envVars>>

SetInterrupt(t) ==
  SetInterruptCheck(t) \/ SetInterruptWrite(t) \/ DestroyContextRelease(t)

-----------------------------------------------------------------------------
(* notify_waiting_stacks (lines 203-207) and wait_for_interrupt (374-392) *)

NotifyWaitingStacks(t) ==
  /\ pc[t] = "idle"
  /\ waiters # {}
  /\ NotifyAll
  /\ UNCHANGED <<sessionVars, pc, reason, popping, conn, envVars>>

\* lines 383-388: is_running is read without the lock; when it is set,
\* the waiting threads are woken before the caller waits itself.  The
\* caller is a thread that runs none of the session's frames.
WaitForInterrupt(t) ==
  /\ pc[t] = "idle"
  /\ \A f \in stack_map : thread_of[f] # t
  /\ is_running
  /\ NotifyAll
  /\ pc' = [pc EXCEPT ![t] = "wfi_wait"]
  /\ UNCHANGED <<sessionVars, reason, popping, conn, envVars>>

\* lines 390-391: wait until the session no longer runs
WaitForInterruptWake(t) ==
  /\ pc[t] = "wfi_wait"
  /\ t \notin waiters
  /\ IF is_running
       THEN /\ waiters' = waiters \cup {t}
            /\ UNCHANGED pc
       ELSE /\ pc' = [pc EXCEPT ![t] = "idle"]
            /\ UNCHANGED waiters
  /\ UNCHANGED <<sessionVars, reason, popping, conn, envVars>>

-----------------------------------------------------------------------------

\* steps of the code of this file, taken by thread t
ThreadStep(t) ==
  \/ PopAndDestroyStack(t)
  \/ SetInterrupt(t)
  \/ WaitForInterruptWake(t)

\* calls into the session made by the rest of the server
CallerStep(t) ==
  \/ CreateAndPushStack(t)
  \/ EndCall(t)
  \/ ExternalSetInterrupt(t)
  \/ NotifyWaitingStacks(t)
  \/ WaitForInterrupt(t)

Next == \E t \in Threads : ThreadStep(t) \/ CallerStep(t)

Spec == Init /\ [][Next]_vars

\* A thread that can run eventually does: the code of this file never
\* stops by itself, and a call body eventually ends (the PL server answers
\* or the polling read of the frame gives up).  Starting calls, external
\* interrupts and notifications are requests nobody is obliged to make.
Fairness == \A t \in Threads : WF_vars(ThreadStep(t)) /\ WF_vars(EndCall(t))

FairSpec == Spec /\ Fairness

-----------------------------------------------------------------------------
(* Properties *)

\* The slots 0..m_stack_idx of m_exec_stack list exactly the frames of
\* m_stack_map, in the order they were pushed; every slot above is freed;
\* the session runs exactly when a frame is on the stack; the depth never
\* exceeds the limit create_and_push_stack checks.  This is what
\* top_stack and the predicate of pop_and_destroy_stack rely on.
StackMatchesRegistry ==
  /\ stack_idx + 1 <= Len(exec_stack)
  /\ \A i \in 1..Len(exec_stack) : (i <= stack_idx + 1) <=> (exec_stack[i] # NoFrame)
  /\ {exec_stack[i] : i \in 1..(stack_idx + 1)} = stack_map
  /\ \A i, j \in 1..(stack_idx + 1) : i < j => exec_stack[i] < exec_stack[j]
  /\ is_running <=> stack_idx >= 0

\* LIFO teardown (spec section 8): pop_and_destroy_stack destroys a frame
\* only when every frame pushed after it has been destroyed, whichever
\* threads run the frames and in whatever order their calls end.
PopDestroysNewest ==
  [][\A f \in stack_map \ stack_map' : \A g \in stack_map : g <= f]_vars

\* No call is abandoned: pop_and_destroy_stack reads m_stack_idx before it
\* takes m_mutex (line 159) and returns without destroying anything when it
\* sees -1.  Whatever pushes and pops other threads interleave with that
\* read, a frame whose call body has returned is still registered only
\* while its own thread is inside pop_and_destroy_stack for it, so it is
\* eventually unregistered and its slot freed.
EndedCallIsPopped ==
  \A f \in stack_map :
    call[f] = "returned" =>
      /\ pc[thread_of[f]] = "pop_wait"
      /\ popping[thread_of[f]] = f

\* Every pop_and_destroy_stack returns: once the calls pushed after its
\* frame have ended, the blocked thread is woken and destroys its frame
\* (spec: the pop "must wake any other thread waiting on this condition").
PopCompletes ==
  \A t \in Threads : (pc[t] = "pop_wait") ~> (pc[t] = "idle")

\* First interrupt wins (spec 4.1): while the session is interrupted, the
\* recorded reason is never replaced by a later set_interrupt.
FirstInterruptWins ==
  [][(is_interrupted /\ is_interrupted') => interrupt_id' = interrupt_id]_vars

\* top_stack_internal reads m_exec_stack[m_stack_idx] whenever the vector
\* is not empty (lines 263-268); that read must be in bounds.
TopStackInBounds ==
  Len(exec_stack) > 0 => stack_idx >= 0

\* set_interrupt sends the PL server the DESTROY request for the session
\* only when the session becomes (or is) interrupted; a reason it does not
\* recognize is ignored (spec 4.1).
DestroyOnlyWhenInterrupted ==
  [][\A t \in Threads : (pc[t] = "si_write" /\ pc'[t] # "si_write") => is_interrupted']_vars

-----------------------------------------------------------------------------
(* Refinement.  The live slots 0..m_stack_idx of m_exec_stack are the     *)
(* abstract stack of calls, and m_is_interrupted its interrupt flag.      *)

AbsStack == SubSeq(exec_stack, 1, stack_idx + 1)

Abstract == INSTANCE CallStack
              WITH stack <- AbsStack, interrupted <- is_interrupted,
                   Frames <- FrameIds, MaxDepth <- METHOD_MAX_RECURSION_DEPTH

\* The session implements the call stack of CallStack: every step of
\* create_and_push_stack, pop_and_destroy_stack and set_interrupt, taken by
\* any thread in any interleaving, is a push of a newer frame within the
\* depth limit and only on an uninterrupted or empty stack, a pop of the
\* top frame, a raise of the interrupt, or changes neither; the interrupt
\* is cleared only by the pop that empties the stack or a fresh call.
CallStackRefined == Abstract!Spec

=============================================================================
