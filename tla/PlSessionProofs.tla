-------------------------- MODULE PlSessionProofs --------------------------
(* Proofs about PlSession: the type invariant, the registry invariant and *)
(* the invariant that no ended call is abandoned hold in every reachable  *)
(* state, and teardown is LIFO, for every value of the constants.         *)
EXTENDS PlSession, SequenceTheorems, TLAPS

\* What a thread in the middle of pop_and_destroy_stack or of
\* destroy_pl_context_jvm holds: the frame it pops is registered, its call
\* has ended and no other thread pops it; the connection it releases is one;
\* every registered frame runs on a thread, and one whose call has ended
\* is the one its thread pops.
ThreadsConsistent ==
  /\ \A t \in Threads : pc[t] = "pop_wait" =>
        /\ popping[t] \in stack_map
        /\ call[popping[t]] = "returned"
  /\ \A t, u \in Threads :
        (t # u /\ pc[t] = "pop_wait" /\ pc[u] = "pop_wait") => popping[t] # popping[u]
  /\ \A t \in Threads : pc[t] = "jvm_release" => conn[t] \in Conns
  /\ \A f \in stack_map : thread_of[f] \in Threads
  /\ EndedCallIsPopped

\* Inductive invariant: the registry invariant, the fact that every
\* registered frame has an id below the next one, and the above.
IInv ==
  /\ TypeOK
  /\ StackMatchesRegistry
  /\ \A f \in stack_map : f < next_id
  /\ ThreadsConsistent

-----------------------------------------------------------------------------
(* The initial state *)

LEMMA InitIInv == Init => IInv
  <1> SUFFICES ASSUME Init PROVE IInv
    OBVIOUS
  <1>1. TypeOK
    <2>1. exec_stack \in Seq(FrameIds \cup {NoFrame}) /\ session_connections \in Seq(Conns)
      BY EmptySeq DEF Init
    <2>2. stack_idx \in -1..METHOD_MAX_RECURSION_DEPTH /\ next_id \in 1..(MaxFrames + 1)
      BY DepthAssumption, FramesAssumption DEF Init
    <2>3. /\ pc \in [Threads -> PCs]
          /\ reason \in [Threads -> ExternalReasons \cup RecognizedReasons \cup {NO_ERROR}]
          /\ popping \in [Threads -> FrameIds \cup {NoFrame}]
          /\ conn \in [Threads -> Conns \cup {NoConn}]
          /\ call \in [FrameIds -> CallStates]
          /\ thread_of \in [FrameIds -> Threads \cup {NoThread}]
      BY DEF Init, PCs, CallStates
    <2>4. QED
      BY <2>1, <2>2, <2>3 DEF Init, TypeOK
  <1>2. StackMatchesRegistry
    BY DEF Init, StackMatchesRegistry
  <1>3. ThreadsConsistent
    BY DEF Init, ThreadsConsistent, EndedCallIsPopped
  <1>4. QED
    BY <1>1, <1>2, <1>3 DEF Init, IInv

-----------------------------------------------------------------------------
(* Steps that leave the stack and the registry alone *)

\* a step that changes neither the session state nor the frames' calls
\* keeps the registry invariant and the bound on frame ids
LEMMA SessionUnchanged ==
  ASSUME IInv, UNCHANGED sessionVars
  PROVE  /\ StackMatchesRegistry'
         /\ \A f \in stack_map' : f < next_id'
  BY DEF IInv, StackMatchesRegistry, sessionVars

LEMMA PushTooDeepIInv ==
  ASSUME IInv, NEW t \in Threads, PushTooDeep(t)
  PROVE  IInv'
  <1>1. UNCHANGED sessionVars
    BY DEF PushTooDeep
  <1>2. TypeOK'
    BY DEF IInv, PushTooDeep, CanStartCall, TypeOK, PCs, RecognizedReasons,
           NoArgReasons, sessionVars, envVars
  <1>3. ThreadsConsistent'
    BY DEF IInv, PushTooDeep, CanStartCall, ThreadsConsistent, EndedCallIsPopped, sessionVars, envVars
  <1>4. QED
    BY <1>1, <1>2, <1>3, SessionUnchanged DEF IInv

LEMMA PushRefusedIInv ==
  ASSUME IInv, NEW t \in Threads, PushRefused(t)
  PROVE  IInv'
  <1>1. UNCHANGED sessionVars
    BY DEF PushRefused
  <1>2. TypeOK'
    BY DEF IInv, PushRefused, NotifyAll, TypeOK, sessionVars, envVars
  <1>3. ThreadsConsistent'
    BY DEF IInv, PushRefused, ThreadsConsistent, EndedCallIsPopped, sessionVars, envVars
  <1>4. QED
    BY <1>1, <1>2, <1>3, SessionUnchanged DEF IInv

LEMMA EndCallIInv ==
  ASSUME IInv, NEW t \in Threads, EndCall(t)
  PROVE  IInv'
  <1>1. UNCHANGED sessionVars
    BY DEF EndCall
  <1>2. PICK f \in stack_map :
          /\ call[f] = "running"
          /\ thread_of[f] = t
          /\ call' = [call EXCEPT ![f] = "returned"]
          /\ popping' = [popping EXCEPT ![t] = f]
          /\ pc' = [pc EXCEPT ![t] = IF stack_idx = -1 THEN "idle" ELSE "pop_wait"]
    BY DEF EndCall
  <1>3. TypeOK'
    BY <1>1, <1>2 DEF IInv, EndCall, TypeOK, PCs, CallStates, sessionVars
  <1>4. ThreadsConsistent'
    BY <1>1, <1>2 DEF IInv, EndCall, ThreadsConsistent, EndedCallIsPopped, TypeOK, StackMatchesRegistry, sessionVars
  <1>5. QED
    BY <1>1, <1>3, <1>4, SessionUnchanged DEF IInv

LEMMA PopWaitIInv ==
  ASSUME IInv, NEW t \in Threads, PopWait(t)
  PROVE  IInv'
  <1>1. UNCHANGED sessionVars
    BY DEF PopWait
  <1>2. TypeOK'
    BY DEF IInv, PopWait, TypeOK, sessionVars, envVars
  <1>3. ThreadsConsistent'
    BY DEF IInv, PopWait, ThreadsConsistent, EndedCallIsPopped, sessionVars, envVars
  <1>4. QED
    BY <1>1, <1>2, <1>3, SessionUnchanged DEF IInv

LEMMA ExternalSetInterruptIInv ==
  ASSUME IInv, NEW t \in Threads, ExternalSetInterrupt(t)
  PROVE  IInv'
  <1>1. UNCHANGED sessionVars
    BY DEF ExternalSetInterrupt
  <1>2. TypeOK'
    BY DEF IInv, ExternalSetInterrupt, TypeOK, PCs, sessionVars, envVars
  <1>3. ThreadsConsistent'
    BY DEF IInv, ExternalSetInterrupt, ThreadsConsistent, EndedCallIsPopped, sessionVars, envVars
  <1>4. QED
    BY <1>1, <1>2, <1>3, SessionUnchanged DEF IInv

LEMMA SetInterruptCheckIInv ==
  ASSUME IInv, NEW t \in Threads, SetInterruptCheck(t)
  PROVE  IInv'
  <1>1. UNCHANGED sessionVars
    BY DEF SetInterruptCheck
  <1>2. TypeOK'
    BY DEF IInv, SetInterruptCheck, TypeOK, PCs, sessionVars, envVars
  <1>3. ThreadsConsistent'
    BY DEF IInv, SetInterruptCheck, ThreadsConsistent, EndedCallIsPopped, sessionVars, envVars
  <1>4. QED
    BY <1>1, <1>2, <1>3, SessionUnchanged DEF IInv

LEMMA NotifyWaitingStacksIInv ==
  ASSUME IInv, NEW t \in Threads, NotifyWaitingStacks(t)
  PROVE  IInv'
  <1>1. UNCHANGED sessionVars
    BY DEF NotifyWaitingStacks
  <1>2. TypeOK'
    BY DEF IInv, NotifyWaitingStacks, NotifyAll, TypeOK, sessionVars, envVars
  <1>3. ThreadsConsistent'
    BY DEF IInv, NotifyWaitingStacks, ThreadsConsistent, EndedCallIsPopped, sessionVars, envVars
  <1>4. QED
    BY <1>1, <1>2, <1>3, SessionUnchanged DEF IInv

LEMMA WaitForInterruptIInv ==
  ASSUME IInv, NEW t \in Threads, WaitForInterrupt(t)
  PROVE  IInv'
  <1>1. UNCHANGED sessionVars
    BY DEF WaitForInterrupt
  <1>2. TypeOK'
    BY DEF IInv, WaitForInterrupt, NotifyAll, TypeOK, PCs, sessionVars, envVars
  <1>3. ThreadsConsistent'
    BY DEF IInv, WaitForInterrupt, ThreadsConsistent, EndedCallIsPopped, sessionVars, envVars
  <1>4. QED
    BY <1>1, <1>2, <1>3, SessionUnchanged DEF IInv

LEMMA WaitForInterruptWakeIInv ==
  ASSUME IInv, NEW t \in Threads, WaitForInterruptWake(t)
  PROVE  IInv'
  <1>1. UNCHANGED sessionVars
    BY DEF WaitForInterruptWake
  <1>2. TypeOK'
    BY DEF IInv, WaitForInterruptWake, TypeOK, PCs, sessionVars, envVars
  <1>3. ThreadsConsistent'
    BY DEF IInv, TypeOK, WaitForInterruptWake, ThreadsConsistent, EndedCallIsPopped, sessionVars, envVars
  <1>4. QED
    BY <1>1, <1>2, <1>3, SessionUnchanged DEF IInv

-----------------------------------------------------------------------------
(* set_interrupt and destroy_pl_context_jvm: only the connections move *)

\* the stack, the registry and next_id are untouched
LEMMA StackUnchanged ==
  ASSUME IInv, UNCHANGED <<exec_stack, stack_idx, stack_map, is_running, next_id>>
  PROVE  /\ StackMatchesRegistry'
         /\ \A f \in stack_map' : f < next_id'
  BY DEF IInv, StackMatchesRegistry

\* claim_connection hands out a connection of the pool or none, and keeps
\* the session queue a sequence of connections
LEMMA ClaimConnectionType ==
  ASSUME TypeOK, NEW t \in Threads, ClaimConnection(t)
  PROVE  /\ conn' \in [Threads -> Conns \cup {NoConn}]
         /\ session_connections' \in Seq(Conns)
         /\ pool' \in SUBSET Conns
         /\ \A u \in Threads \ {t} : conn'[u] = conn[u]
  <1>1. CASE session_connections # <<>>
    <2>1. Head(session_connections) \in Conns /\ Tail(session_connections) \in Seq(Conns)
      BY <1>1, HeadTailProperties DEF TypeOK
    <2>2. QED
      BY <1>1, <2>1 DEF ClaimConnection, TypeOK
  <1>2. CASE session_connections = <<>>
    BY <1>2 DEF ClaimConnection, TypeOK
  <1>3. QED
    BY <1>1, <1>2

LEMMA SetInterruptWriteIInv ==
  ASSUME IInv, NEW t \in Threads, SetInterruptWrite(t)
  PROVE  IInv'
  <1>1. UNCHANGED <<exec_stack, stack_idx, stack_map, is_running, next_id>>
    BY DEF SetInterruptWrite
  <1>2. /\ conn' \in [Threads -> Conns \cup {NoConn}]
        /\ session_connections' \in Seq(Conns)
        /\ pool' \in SUBSET Conns
        /\ \A u \in Threads \ {t} : conn'[u] = conn[u]
    BY ClaimConnectionType DEF SetInterruptWrite, IInv
  <1>3. TypeOK'
    BY <1>1, <1>2 DEF IInv, SetInterruptWrite, TypeOK, PCs, envVars
  <1>4. ThreadsConsistent'
    <2>1. pc'[t] = "jvm_release" => conn'[t] \in Conns
      BY <1>2 DEF SetInterruptWrite, IInv, TypeOK
    <2>2. \A u \in Threads \ {t} : pc'[u] = pc[u] /\ conn'[u] = conn[u]
      BY <1>2 DEF SetInterruptWrite, IInv, TypeOK
    <2>3. pc'[t] # "pop_wait"
      BY DEF SetInterruptWrite, IInv, TypeOK
    <2>4. QED
      BY <1>1, <2>1, <2>2, <2>3 DEF IInv, SetInterruptWrite, ThreadsConsistent, EndedCallIsPopped, envVars
  <1>5. QED
    BY <1>1, <1>3, <1>4, StackUnchanged DEF IInv

LEMMA DestroyContextReleaseIInv ==
  ASSUME IInv, NEW t \in Threads, DestroyContextRelease(t)
  PROVE  IInv'
  <1>1. UNCHANGED <<exec_stack, stack_idx, stack_map, is_running, next_id>>
    BY DEF DestroyContextRelease
  <1>2. conn[t] \in Conns
    BY DEF IInv, DestroyContextRelease, ThreadsConsistent, EndedCallIsPopped
  <1>3. session_connections' \in Seq(Conns)
    BY <1>2, AppendProperties DEF IInv, TypeOK, DestroyContextRelease
  <1>4. TypeOK'
    BY <1>1, <1>3 DEF IInv, DestroyContextRelease, TypeOK, PCs, envVars
  <1>5. ThreadsConsistent'
    BY <1>1 DEF IInv, TypeOK, DestroyContextRelease, ThreadsConsistent, EndedCallIsPopped, envVars
  <1>6. QED
    BY <1>1, <1>4, <1>5, StackUnchanged DEF IInv

-----------------------------------------------------------------------------
(* create_and_push_stack: a frame is pushed *)

LEMMA PushFrameIInv ==
  ASSUME IInv, NEW t \in Threads, PushFrame(t)
  PROVE  IInv'
  <1> DEFINE nsid == next_id
             nidx == stack_idx + 1
             E == exec_stack
             L == Len(exec_stack)
  <1> USE DEF IInv
  <1>1. /\ next_id <= MaxFrames
        /\ stack_idx < METHOD_MAX_RECURSION_DEPTH
        /\ stack_map' = stack_map \cup {nsid}
        /\ stack_idx' = nidx
        /\ exec_stack' = IF nidx < L THEN [E EXCEPT ![nidx + 1] = nsid]
                                     ELSE Append(E, nsid)
        /\ is_running' = TRUE
        /\ is_interrupted' \in BOOLEAN
        /\ interrupt_id' \in RecognizedReasons \cup {NO_ERROR}
        /\ next_id' = next_id + 1
        /\ call' = [call EXCEPT ![nsid] = "running"]
        /\ thread_of' = [thread_of EXCEPT ![nsid] = t]
        /\ UNCHANGED <<session_connections, pool, pc, reason, popping, conn, waiters>>
    BY DEF PushFrame, PushNewFrame, threadVars, TypeOK
  <1>2. /\ nsid \in FrameIds
        /\ \A f \in stack_map : f < nsid
        /\ nsid # NoFrame
        /\ nidx \in 0..METHOD_MAX_RECURSION_DEPTH
        /\ L \in Nat
        /\ nidx <= L
    BY <1>1, DepthAssumption, FramesAssumption
    DEF TypeOK, FrameIds, NoFrame, StackMatchesRegistry
  \* the new slot holds the new frame, every other slot is kept
  <1>3. /\ exec_stack' \in Seq(FrameIds \cup {NoFrame})
        /\ Len(exec_stack') \in {L, L + 1}
        /\ nidx + 1 <= Len(exec_stack')
        /\ exec_stack'[nidx + 1] = nsid
        /\ \A i \in 1..Len(exec_stack') :
              i # nidx + 1 => (i \in 1..L /\ exec_stack'[i] = E[i])
    <2>1. CASE nidx < L
      BY <1>1, <1>2, <2>1, ExceptSeq DEF TypeOK
    <2>2. CASE ~(nidx < L)
      <3>1. L = nidx
        BY <1>2, <2>2
      <3>2. QED
        BY <1>1, <1>2, <2>2, <3>1, AppendProperties DEF TypeOK
    <2>3. QED
      BY <2>1, <2>2
  <1>4. TypeOK'
    <2>1. stack_idx' \in -1..METHOD_MAX_RECURSION_DEPTH /\ next_id' \in 1..(MaxFrames + 1)
      BY <1>1, <1>2, DepthAssumption, FramesAssumption DEF TypeOK
    <2>2. stack_map' \in SUBSET FrameIds
      BY <1>1, <1>2 DEF TypeOK
    <2>3. call' \in [FrameIds -> CallStates] /\ thread_of' \in [FrameIds -> Threads \cup {NoThread}]
      BY <1>1, <1>2 DEF TypeOK, CallStates
    <2>4. QED
      BY <1>1, <1>3, <2>1, <2>2, <2>3 DEF TypeOK
  <1>5. StackMatchesRegistry'
    <2>1. stack_idx' + 1 <= Len(exec_stack')
      BY <1>1, <1>3
    <2>2. \A i \in 1..Len(exec_stack') :
             (i <= stack_idx' + 1) <=> (exec_stack'[i] # NoFrame)
      BY <1>1, <1>2, <1>3 DEF StackMatchesRegistry
    <2>3. {exec_stack'[i] : i \in 1..(stack_idx' + 1)} = stack_map'
      <3>1. \A i \in 1..nidx : exec_stack'[i] = E[i]
        BY <1>2, <1>3
      <3>2. {exec_stack'[i] : i \in 1..nidx} = stack_map
        BY <3>1 DEF StackMatchesRegistry
      <3>3. 1..(nidx + 1) = (1..nidx) \cup {nidx + 1}
        BY <1>2
      <3>4. QED
        BY <1>1, <1>3, <3>2, <3>3
    <2>4. \A i, j \in 1..(stack_idx' + 1) : i < j => exec_stack'[i] < exec_stack'[j]
      <3> SUFFICES ASSUME NEW i \in 1..(nidx + 1), NEW j \in 1..(nidx + 1), i < j
                   PROVE  exec_stack'[i] < exec_stack'[j]
        BY <1>1
      <3>1. i \in 1..nidx /\ exec_stack'[i] = E[i] /\ E[i] \in stack_map
        BY <1>2, <1>3 DEF StackMatchesRegistry
      <3>2. CASE j = nidx + 1
        BY <1>2, <1>3, <3>1, <3>2 DEF TypeOK, FrameIds
      <3>3. CASE j # nidx + 1
        <4>1. j \in 1..Len(exec_stack')
          BY <1>2, <1>3
        <4>2. j \in 1..nidx /\ exec_stack'[j] = E[j]
          BY <1>2, <1>3, <3>3, <4>1
        <4>3. E[i] < E[j]
          BY <3>1, <4>2 DEF StackMatchesRegistry
        <4>4. QED
          BY <3>1, <4>2, <4>3
      <3>4. QED
        BY <3>2, <3>3
    <2>5. is_running' <=> stack_idx' >= 0
      BY <1>1, <1>2
    <2>6. QED
      BY <2>1, <2>2, <2>3, <2>4, <2>5 DEF StackMatchesRegistry
  <1>6. \A f \in stack_map' : f < next_id'
    BY <1>1, <1>2 DEF TypeOK, FrameIds
  <1>7. ThreadsConsistent'
    BY <1>1, <1>2 DEF ThreadsConsistent, EndedCallIsPopped, TypeOK
  <1>8. QED
    BY <1>4, <1>5, <1>6, <1>7

-----------------------------------------------------------------------------
(* pop_and_destroy_stack: the top frame is destroyed *)

LEMMA PopDestroyIInv ==
  ASSUME IInv, NEW t \in Threads, PopDestroy(t)
  PROVE  IInv'
  <1> DEFINE f == popping[t]
             top == stack_idx + 1
             E == exec_stack
             L == Len(exec_stack)
  <1> USE DEF IInv
  <1>1. /\ pc[t] = "pop_wait"
        /\ E[top] = f
        /\ exec_stack' = [E EXCEPT ![top] = NoFrame]
        /\ stack_idx' = stack_idx - 1
        /\ stack_map' = stack_map \ {f}
        /\ is_running' = (is_running /\ stack_idx - 1 >= 0)
        /\ is_interrupted' \in BOOLEAN
        /\ interrupt_id' \in RecognizedReasons \cup {NO_ERROR}
        /\ call' = [call EXCEPT ![f] = "destroyed"]
        /\ pc' = [pc EXCEPT ![t] = "idle"]
        /\ popping' = [popping EXCEPT ![t] = NoFrame]
        /\ UNCHANGED <<session_connections, pool, next_id, reason, conn, waiters,
                       thread_of>>
    BY DEF PopDestroy, DestroyTop, TopSlot, TypeOK
  <1>2. f \in stack_map /\ call[f] = "returned"
    BY <1>1 DEF ThreadsConsistent, EndedCallIsPopped
  \* the frame is registered, so the stack is not empty
  <1>3. stack_idx \in 0..METHOD_MAX_RECURSION_DEPTH /\ top \in 1..L /\ L \in Nat
    <2>1. stack_idx # -1
      <3>1. SUFFICES ASSUME stack_idx = -1 PROVE FALSE
        OBVIOUS
      <3>2. {E[i] : i \in 1..(stack_idx + 1)} = {}
        BY <3>1
      <3>3. QED
        BY <1>2, <3>2 DEF StackMatchesRegistry
    <2>2. QED
      BY <2>1 DEF TypeOK, StackMatchesRegistry
  <1>4. /\ exec_stack' \in Seq(FrameIds \cup {NoFrame})
        /\ Len(exec_stack') = L
        /\ \A i \in 1..L : exec_stack'[i] = IF i = top THEN NoFrame ELSE E[i]
    BY <1>1, <1>3, ExceptSeq DEF TypeOK, NoFrame
  <1>5. TypeOK'
    <2>1. stack_idx' \in -1..METHOD_MAX_RECURSION_DEPTH /\ stack_map' \in SUBSET FrameIds
      <3>1. stack_idx' \in -1..METHOD_MAX_RECURSION_DEPTH
        BY <1>1, <1>3, DepthAssumption
      <3>2. stack_map' \in SUBSET FrameIds
        BY <1>1 DEF TypeOK
      <3>3. QED
        BY <3>1, <3>2
    <2>2. is_running' \in BOOLEAN
      BY <1>1 DEF TypeOK
    <2>3. /\ call' \in [FrameIds -> CallStates]
          /\ pc' \in [Threads -> PCs]
          /\ popping' \in [Threads -> FrameIds \cup {NoFrame}]
      BY <1>1, <1>2 DEF TypeOK, PCs, CallStates
    <2>4. QED
      BY <1>1, <1>4, <2>1, <2>2, <2>3 DEF TypeOK
  <1>6. StackMatchesRegistry'
    <2>1. stack_idx' + 1 <= Len(exec_stack')
      BY <1>1, <1>3, <1>4
    <2>2. \A i \in 1..Len(exec_stack') :
             (i <= stack_idx' + 1) <=> (exec_stack'[i] # NoFrame)
      BY <1>1, <1>3, <1>4 DEF StackMatchesRegistry
    <2>3. {exec_stack'[i] : i \in 1..(stack_idx' + 1)} = stack_map'
      <3>1. \A i \in 1..stack_idx : exec_stack'[i] = E[i] /\ E[i] < f
        BY <1>1, <1>3, <1>4 DEF StackMatchesRegistry
      <3>2. \A x \in stack_map : \E i \in 1..top : E[i] = x
        BY DEF StackMatchesRegistry
      <3>3. \A i \in 1..top : E[i] \in stack_map
        BY DEF StackMatchesRegistry
      <3>4. \A x \in stack_map \ {f} : \E i \in 1..stack_idx : E[i] = x
        BY <1>1, <1>3, <3>2
      <3>5. ASSUME NEW i \in 1..stack_idx PROVE exec_stack'[i] \in stack_map \ {f}
        <4>1. i \in 1..top
          BY <1>3
        <4>2. E[i] \in stack_map /\ E[i] < f /\ exec_stack'[i] = E[i]
          <5>1. E[i] \in stack_map
            BY <3>3, <4>1
          <5>2. E[i] < f /\ exec_stack'[i] = E[i]
            BY <3>1
          <5>3. QED
            BY <5>1, <5>2
        <4>3. f \in Int
          <5>1. stack_map \subseteq FrameIds
            BY DEF TypeOK
          <5>2. f \in FrameIds
            BY <1>2, <5>1, Zenon
          <5>3. QED
            BY <5>2, FramesAssumption DEF FrameIds
        <4>4. QED
          BY <4>2, <4>3
      <3>6. \A x \in stack_map \ {f} : \E i \in 1..stack_idx : exec_stack'[i] = x
        BY <3>1, <3>4
      <3>7. 1..(stack_idx' + 1) = 1..stack_idx
        BY <1>1, <1>3
      <3>8. {exec_stack'[i] : i \in 1..stack_idx} = stack_map \ {f}
        BY <3>5, <3>6, Zenon
      <3>9. QED
        BY <1>1, <3>7, <3>8
    <2>4. \A i, j \in 1..(stack_idx' + 1) : i < j => exec_stack'[i] < exec_stack'[j]
      BY <1>1, <1>3, <1>4 DEF StackMatchesRegistry
    <2>5. is_running' <=> stack_idx' >= 0
      <3>1. is_running
        BY <1>3 DEF StackMatchesRegistry
      <3>2. QED
        BY <1>1, <1>3, <3>1
    <2>6. QED
      BY <2>1, <2>2, <2>3, <2>4, <2>5 DEF StackMatchesRegistry
  <1>7. \A g \in stack_map' : g < next_id'
    BY <1>1
  <1>8. ThreadsConsistent'
    <2>1. \A u \in Threads \ {t} : pc[u] = "pop_wait" => popping[u] # f
      BY <1>1 DEF ThreadsConsistent, EndedCallIsPopped
    <2>2. QED
      BY <1>1, <1>2, <2>1 DEF ThreadsConsistent, EndedCallIsPopped, TypeOK
  <1>9. QED
    BY <1>5, <1>6, <1>7, <1>8
-----------------------------------------------------------------------------
(* Every step of the session keeps the inductive invariant.               *)

LEMMA StutterIInv ==
  ASSUME IInv, UNCHANGED vars
  PROVE  IInv'
  <1>1. TypeOK' /\ StackMatchesRegistry' /\ \A f \in stack_map' : f < next_id'
    BY DEF IInv, TypeOK, StackMatchesRegistry, vars, sessionVars, threadVars, envVars
  <1>2. ThreadsConsistent'
    BY DEF IInv, ThreadsConsistent, EndedCallIsPopped, vars, sessionVars,
           threadVars, envVars
  <1>3. QED
    BY <1>1, <1>2 DEF IInv

LEMMA NextIInv == IInv /\ [Next]_vars => IInv'
  <1> SUFFICES ASSUME IInv, [Next]_vars PROVE IInv'
    OBVIOUS
  <1>1. CASE UNCHANGED vars
    BY <1>1, StutterIInv
  <1>2. ASSUME NEW t \in Threads, ThreadStep(t) PROVE IInv'
    BY <1>2, PopWaitIInv, PopDestroyIInv, SetInterruptCheckIInv,
       SetInterruptWriteIInv, DestroyContextReleaseIInv, WaitForInterruptWakeIInv
    DEF ThreadStep, PopAndDestroyStack, SetInterrupt
  <1>3. ASSUME NEW t \in Threads, CallerStep(t) PROVE IInv'
    BY <1>3, PushTooDeepIInv, PushRefusedIInv, PushFrameIInv, EndCallIInv,
       ExternalSetInterruptIInv, NotifyWaitingStacksIInv, WaitForInterruptIInv
    DEF CallerStep, CreateAndPushStack
  <1>4. QED
    BY <1>1, <1>2, <1>3 DEF Next

\* Type correctness of the session: m_exec_stack, m_stack_idx, m_stack_map
\* and every thread's state stay within their declared ranges in every
\* reachable state, for any number of threads, connections and any depth
\* limit.
THEOREM TypeCorrect == Spec => []TypeOK
  <1>1. IInv => TypeOK
    BY DEF IInv
  <1>2. QED
    BY InitIInv, NextIInv, <1>1, PTL DEF Spec

\* The stack of a session and its registry agree in every reachable state:
\* the live slots of m_exec_stack are exactly the frames of m_stack_map, in
\* increasing push order, every slot above m_stack_idx is freed, and
\* m_is_running holds exactly while a frame is on the stack.  This is what
\* create_and_push_stack and pop_and_destroy_stack must maintain together.
THEOREM RegistryInvariant == Spec => []StackMatchesRegistry
  <1>1. IInv => StackMatchesRegistry
    BY DEF IInv
  <1>2. QED
    BY InitIInv, NextIInv, <1>1, PTL DEF Spec

\* No ended call is abandoned, for any number of threads and frames: the
\* unlocked read of m_stack_idx at the start of pop_and_destroy_stack
\* (line 159) never takes the early return for a registered frame, because
\* a registered frame keeps m_stack_idx at or above its slot whatever the
\* other threads push or pop; so a frame whose call has returned is
\* registered only while its thread waits in pop_and_destroy_stack for it.
THEOREM EndedCallsPopped == Spec => []EndedCallIsPopped
  <1>1. IInv => EndedCallIsPopped
    BY DEF IInv, ThreadsConsistent
  <1>2. QED
    BY InitIInv, NextIInv, <1>1, PTL DEF Spec
-----------------------------------------------------------------------------
(* LIFO teardown.  Only pop_and_destroy_stack removes frames from the     *)
(* registry, and the frame it removes is the one in the top slot, which   *)
(* by the ordering conjunct of StackMatchesRegistry is the newest.        *)

LifoStep == \A f \in stack_map \ stack_map' : \A g \in stack_map : g <= f

LEMMA PopDestroyLifo ==
  ASSUME IInv, NEW t \in Threads, PopDestroy(t)
  PROVE  LifoStep
  <1> DEFINE f == popping[t]
             top == stack_idx + 1
  <1>1. stack_map' = stack_map \ {f} /\ exec_stack[top] = f
    BY DEF PopDestroy, DestroyTop, TopSlot
  <1>2. SUFFICES ASSUME NEW g \in stack_map PROVE g <= f
    BY <1>1 DEF LifoStep
  <1>3. PICK i \in 1..top : exec_stack[i] = g
    BY DEF IInv, StackMatchesRegistry
  <1>4. stack_idx \in Int /\ g \in Int /\ f \in Int
    <2>1. /\ stack_idx \in -1..METHOD_MAX_RECURSION_DEPTH
          /\ stack_map \subseteq FrameIds
          /\ f \in stack_map
      BY DEF IInv, TypeOK, ThreadsConsistent, PopDestroy
    <2>2. g \in FrameIds /\ f \in FrameIds
      BY <2>1, Zenon
    <2>3. QED
      BY <2>1, <2>2, DepthAssumption, FramesAssumption DEF FrameIds
  <1>5. CASE i = top
    BY <1>1, <1>3, <1>4, <1>5
  <1>6. CASE i # top
    <2>1. i < top /\ top \in 1..top
      BY <1>4, <1>6
    <2>2. exec_stack[i] < exec_stack[top]
      BY <2>1 DEF IInv, StackMatchesRegistry
    <2>3. QED
      BY <1>1, <1>3, <1>4, <2>2
  <1>7. QED
    BY <1>5, <1>6

\* every other step leaves the registry unchanged or only adds to it
LEMMA OtherStepGrowsRegistry ==
  ASSUME NEW t \in Threads,
         \/ ThreadStep(t) /\ ~PopDestroy(t)
         \/ CallerStep(t)
  PROVE  stack_map \subseteq stack_map'
  BY DEF ThreadStep, CallerStep, PopAndDestroyStack, SetInterrupt,
         CreateAndPushStack, PushTooDeep, PushRefused, PushFrame, PushNewFrame,
         EndCall, PopWait, ExternalSetInterrupt, NotifyWaitingStacks,
         WaitForInterrupt, WaitForInterruptWake, SetInterruptCheck,
         SetInterruptWrite, DestroyContextRelease, sessionVars

LEMMA NextLifo == IInv /\ [Next]_vars => [LifoStep]_vars
  <1> SUFFICES ASSUME IInv, [Next]_vars PROVE [LifoStep]_vars
    OBVIOUS
  <1>1. CASE UNCHANGED vars
    BY <1>1
  <1>2. CASE \E t \in Threads : PopDestroy(t)
    BY <1>2, PopDestroyLifo
  <1>3. CASE stack_map \subseteq stack_map'
    BY <1>3 DEF LifoStep
  <1>4. QED
    BY <1>1, <1>2, <1>3, OtherStepGrowsRegistry DEF Next

\* LIFO teardown holds for any number of threads and any depth limit:
\* a frame leaves m_stack_map only when no frame pushed after it is still
\* registered, whichever threads run the frames and in whatever order
\* their calls end.
THEOREM LifoTeardown == Spec => PopDestroysNewest
  <1>1. Spec => []IInv
    BY InitIInv, NextIInv, PTL DEF Spec
  <1>2. QED
    BY <1>1, NextLifo, PTL DEF Spec, PopDestroysNewest, LifoStep
=============================================================================
