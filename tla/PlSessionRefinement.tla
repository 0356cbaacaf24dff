------------------------ MODULE PlSessionRefinement ------------------------
(* The session implements the abstract call stack: under the mapping      *)
(* stack <- AbsStack (the live slots of m_exec_stack) and interrupted <-   *)
(* m_is_interrupted, every initial state of PlSession is one of CallStack  *)
(* and every step is a CallStack step or leaves both unchanged.  The      *)
(* argument rests on the inductive invariant IInv of PlSessionProofs.      *)
EXTENDS PlSessionProofs

\* the part of the session state the mapping reads
mappedVars == <<exec_stack, stack_idx, is_interrupted>>

-----------------------------------------------------------------------------
(* Facts about the mapped stack *)

\* the live prefix of a stack of slots, whose slots 1..k hold frames, is a
\* sequence of k frames that agrees with the slots
LEMMA LivePrefix ==
  ASSUME NEW E, NEW k \in Nat, \A i \in 1..k : E[i] \in FrameIds
  PROVE  /\ SubSeq(E, 1, k) \in Seq(FrameIds)
         /\ Len(SubSeq(E, 1, k)) = k
         /\ \A i \in 1..k : SubSeq(E, 1, k)[i] = E[i]
  BY SubSeqProperties

\* the mapped stack has one element per live slot, each a registered frame
LEMMA AbsStackFacts ==
  ASSUME IInv
  PROVE  /\ stack_idx \in -1..METHOD_MAX_RECURSION_DEPTH
         /\ stack_idx + 1 \in Nat
         /\ AbsStack \in Seq(FrameIds)
         /\ Len(AbsStack) = stack_idx + 1
         /\ \A i \in 1..(stack_idx + 1) : AbsStack[i] = exec_stack[i]
         /\ \A i \in 1..(stack_idx + 1) : exec_stack[i] \in stack_map
  <1>1. stack_idx \in -1..METHOD_MAX_RECURSION_DEPTH /\ stack_idx + 1 \in Nat
    BY DepthAssumption DEF IInv, TypeOK
  <1>2. \A i \in 1..(stack_idx + 1) : exec_stack[i] \in stack_map
    BY DEF IInv, StackMatchesRegistry
  <1>3. stack_map \subseteq FrameIds
    BY DEF IInv, TypeOK
  <1>4. \A i \in 1..(stack_idx + 1) : exec_stack[i] \in FrameIds
    BY <1>2, <1>3
  <1>5. QED
    BY <1>1, <1>2, <1>4, LivePrefix DEF AbsStack

\* a step that leaves the mapped part alone is a stuttering step of CallStack
LEMMA MappedUnchanged ==
  ASSUME UNCHANGED mappedVars
  PROVE  UNCHANGED Abstract!absVars
  BY DEF mappedVars, Abstract!absVars, AbsStack

-----------------------------------------------------------------------------
(* create_and_push_stack pushes the new frame on the abstract stack *)

LEMMA PushFrameRefines ==
  ASSUME IInv, NEW t \in Threads, PushFrame(t)
  PROVE  Abstract!Push(next_id)
  <1> DEFINE n == stack_idx + 1
             E == exec_stack
  <1>1. /\ next_id <= MaxFrames
        /\ stack_idx < METHOD_MAX_RECURSION_DEPTH
        /\ ~(is_interrupted /\ ~(~is_running /\ stack_idx = -1) /\ stack_idx > -1)
        /\ is_interrupted' = (is_interrupted /\ ~(~is_running /\ stack_idx = -1))
        /\ stack_idx' = n
        /\ exec_stack' = IF n < Len(E) THEN [E EXCEPT ![n + 1] = next_id]
                                       ELSE Append(E, next_id)
    BY DEF PushFrame, PushNewFrame
  <1>2. /\ stack_idx \in -1..METHOD_MAX_RECURSION_DEPTH
        /\ n \in Nat
        /\ AbsStack \in Seq(FrameIds)
        /\ Len(AbsStack) = n
        /\ \A i \in 1..n : AbsStack[i] = E[i] /\ E[i] \in stack_map
    BY AbsStackFacts
  <1>3. /\ E \in Seq(FrameIds \cup {NoFrame})
        /\ n <= Len(E)
        /\ (is_running <=> stack_idx >= 0)
        /\ \A f \in stack_map : f < next_id
        /\ stack_map \subseteq FrameIds
        /\ next_id \in FrameIds
        /\ is_interrupted \in BOOLEAN /\ is_running \in BOOLEAN
    BY <1>1 DEF IInv, TypeOK, StackMatchesRegistry, FrameIds
  \* the new slot holds the new frame, the slots below are kept
  <1>4. /\ \A i \in 1..n : exec_stack'[i] = E[i]
        /\ exec_stack'[n + 1] = next_id
    <2>1. CASE n < Len(E)
      BY <1>1, <1>2, <1>3, <2>1
    <2>2. CASE ~(n < Len(E))
      BY <1>1, <1>2, <1>3, <2>2, AppendProperties
    <2>3. QED
      BY <2>1, <2>2
  <1>5. Len(AbsStack) <= METHOD_MAX_RECURSION_DEPTH
    BY <1>1, <1>2, DepthAssumption
  <1>6. \A i \in 1..Len(AbsStack) : AbsStack[i] < next_id
    BY <1>2, <1>3
  <1>7. AbsStack = << >> \/ ~is_interrupted
    <2>1. CASE stack_idx = -1
      BY <2>1, SubSeqEmpty DEF AbsStack
    <2>2. CASE stack_idx # -1
      BY <1>1, <1>2, <2>2
    <2>3. QED
      BY <2>1, <2>2
  <1>8. AbsStack' = Append(AbsStack, next_id)
    <2>1. \A i \in 1..(n + 1) : exec_stack'[i] \in FrameIds
      BY <1>2, <1>3, <1>4
    <2>2. /\ AbsStack' \in Seq(FrameIds)
          /\ Len(AbsStack') = n + 1
          /\ \A i \in 1..(n + 1) : AbsStack'[i] = exec_stack'[i]
      <3>1. AbsStack' = SubSeq(exec_stack', 1, n + 1)
        BY <1>1 DEF AbsStack
      <3>2. n + 1 \in Nat
        BY <1>2
      <3>3. QED
        BY <2>1, <3>1, <3>2, LivePrefix
    <2>3. /\ Append(AbsStack, next_id) \in Seq(FrameIds)
          /\ Len(Append(AbsStack, next_id)) = n + 1
          /\ \A i \in 1..n : Append(AbsStack, next_id)[i] = AbsStack[i]
          /\ Append(AbsStack, next_id)[n + 1] = next_id
      BY <1>2, <1>3, AppendProperties
    <2>4. \A i \in 1..(n + 1) : AbsStack'[i] = Append(AbsStack, next_id)[i]
      BY <1>2, <1>4, <2>2, <2>3
    <2>5. QED
      BY <2>2, <2>3, <2>4, SeqEqual
  <1>9. is_interrupted' = FALSE
    <2>1. CASE stack_idx = -1
      BY <1>1, <1>3, <2>1
    <2>2. CASE stack_idx # -1
      BY <1>1, <1>2, <1>3, <2>2
    <2>3. QED
      BY <2>1, <2>2
  <1>10. QED
    BY <1>5, <1>6, <1>7, <1>8, <1>9 DEF Abstract!Push

-----------------------------------------------------------------------------
(* pop_and_destroy_stack pops the abstract stack *)

LEMMA PopDestroyRefines ==
  ASSUME IInv, NEW t \in Threads, PopDestroy(t)
  PROVE  Abstract!Pop
  <1> DEFINE n == stack_idx + 1
             E == exec_stack
  <1>1. /\ pc[t] = "pop_wait"
        /\ exec_stack' = [E EXCEPT ![n] = NoFrame]
        /\ stack_idx' = stack_idx - 1
        /\ is_interrupted' = (is_interrupted /\ stack_idx - 1 >= 0)
    BY DEF PopDestroy, DestroyTop
  <1>2. /\ stack_idx \in -1..METHOD_MAX_RECURSION_DEPTH
        /\ n \in Nat
        /\ AbsStack \in Seq(FrameIds)
        /\ Len(AbsStack) = n
        /\ \A i \in 1..n : AbsStack[i] = E[i] /\ E[i] \in stack_map
    BY AbsStackFacts
  \* the frame being popped is registered, so the stack is not empty
  <1>3. n # 0
    <2>1. popping[t] \in stack_map
      BY <1>1 DEF IInv, ThreadsConsistent
    <2>2. SUFFICES ASSUME n = 0 PROVE FALSE
      OBVIOUS
    <2>3. {E[i] : i \in 1..n} = {}
      BY <2>2
    <2>4. QED
      BY <2>1, <2>3 DEF IInv, StackMatchesRegistry
  <1>4. /\ E \in Seq(FrameIds \cup {NoFrame})
        /\ n <= Len(E)
        /\ stack_map \subseteq FrameIds
    BY DEF IInv, TypeOK, StackMatchesRegistry
  <1>5. \A i \in 1..(n - 1) : exec_stack'[i] = E[i]
    BY <1>1, <1>2, <1>3, <1>4
  <1>6. AbsStack' = SubSeq(AbsStack, 1, Len(AbsStack) - 1)
    <2>1. \A i \in 1..(n - 1) : exec_stack'[i] \in FrameIds
      BY <1>2, <1>4, <1>5
    <2>2. /\ AbsStack' \in Seq(FrameIds)
          /\ Len(AbsStack') = n - 1
          /\ \A i \in 1..(n - 1) : AbsStack'[i] = exec_stack'[i]
      BY <1>1, <1>2, <1>3, <2>1, LivePrefix DEF AbsStack
    <2>3. \A i \in 1..(n - 1) : AbsStack[i] \in FrameIds
      BY <1>2, <1>4
    <2>4. /\ SubSeq(AbsStack, 1, n - 1) \in Seq(FrameIds)
          /\ Len(SubSeq(AbsStack, 1, n - 1)) = n - 1
          /\ \A i \in 1..(n - 1) : SubSeq(AbsStack, 1, n - 1)[i] = AbsStack[i]
      BY <1>2, <1>3, <2>3, LivePrefix
    <2>5. \A i \in 1..(n - 1) : AbsStack'[i] = SubSeq(AbsStack, 1, n - 1)[i]
      BY <1>2, <1>5, <2>2, <2>4
    <2>6. QED
      BY <1>2, <2>2, <2>4, <2>5, SeqEqual
  <1>7. AbsStack # << >>
    BY <1>2, <1>3
  <1>8. is_interrupted' = (is_interrupted /\ Len(AbsStack) > 1)
    BY <1>1, <1>2
  <1>9. QED
    BY <1>6, <1>7, <1>8 DEF Abstract!Pop

-----------------------------------------------------------------------------
(* set_interrupt raises the abstract interrupt, or changes nothing of it *)

LEMMA SetInterruptWriteRefines ==
  ASSUME IInv, NEW t \in Threads, SetInterruptWrite(t)
  PROVE  [Abstract!Next]_Abstract!absVars
  <1>1. /\ UNCHANGED <<exec_stack, stack_idx>>
        /\ is_interrupted' = (is_interrupted \/ reason[t] \in RecognizedReasons)
    BY DEF SetInterruptWrite
  <1>2. CASE reason[t] \in RecognizedReasons
    <2>1. Abstract!Interrupt
      BY <1>1, <1>2 DEF Abstract!Interrupt, AbsStack
    <2>2. QED
      BY <2>1 DEF Abstract!Next
  <1>3. CASE reason[t] \notin RecognizedReasons
    <2>1. is_interrupted \in BOOLEAN
      BY DEF IInv, TypeOK
    <2>2. UNCHANGED mappedVars
      BY <1>1, <1>3, <2>1 DEF mappedVars
    <2>3. QED
      BY <2>2, MappedUnchanged
  <1>4. QED
    BY <1>2, <1>3

-----------------------------------------------------------------------------
(* Every step of the session is a step of CallStack or a stutter *)

LEMMA NextRefines ==
  ASSUME IInv, [Next]_vars
  PROVE  [Abstract!Next]_Abstract!absVars
  <1>1. CASE UNCHANGED vars
    BY <1>1, MappedUnchanged DEF vars, sessionVars, mappedVars
  <1>2. ASSUME NEW t \in Threads, PushFrame(t)
        PROVE  [Abstract!Next]_Abstract!absVars
    <2>1. next_id \in FrameIds
      BY <1>2 DEF PushFrame, PushNewFrame, IInv, TypeOK, FrameIds
    <2>2. \E f \in FrameIds : Abstract!Push(f)
      BY <1>2, <2>1, PushFrameRefines
    <2>3. QED
      BY <2>2 DEF Abstract!Next
  <1>3. ASSUME NEW t \in Threads, PopDestroy(t)
        PROVE  [Abstract!Next]_Abstract!absVars
    BY <1>3, PopDestroyRefines DEF Abstract!Next
  <1>4. ASSUME NEW t \in Threads, SetInterruptWrite(t)
        PROVE  [Abstract!Next]_Abstract!absVars
    BY <1>4, SetInterruptWriteRefines
  \* every other step leaves the stack, its index and the flag alone
  <1>5. ASSUME NEW t \in Threads,
               \/ PushTooDeep(t) \/ PushRefused(t) \/ EndCall(t) \/ PopWait(t)
               \/ SetInterruptCheck(t) \/ DestroyContextRelease(t)
               \/ ExternalSetInterrupt(t) \/ NotifyWaitingStacks(t)
               \/ WaitForInterrupt(t) \/ WaitForInterruptWake(t)
        PROVE  [Abstract!Next]_Abstract!absVars
    <2>1. UNCHANGED mappedVars
      BY <1>5 DEF PushTooDeep, PushRefused, EndCall, PopWait, SetInterruptCheck,
                  DestroyContextRelease, ExternalSetInterrupt, NotifyWaitingStacks,
                  WaitForInterrupt, WaitForInterruptWake, sessionVars, mappedVars
    <2>2. QED
      BY <2>1, MappedUnchanged
  <1>6. QED
    BY <1>1, <1>2, <1>3, <1>4, <1>5
    DEF Next, ThreadStep, CallerStep, PopAndDestroyStack, SetInterrupt,
        CreateAndPushStack

-----------------------------------------------------------------------------
\* The session implements its abstract call stack (CallStackRefined, the
\* property session_safety checks): for any number of threads, frames and
\* any depth limit, create_and_push_stack pushes a newer frame within the
\* limit and never onto an interrupted chain, pop_and_destroy_stack removes
\* only the top frame, and the interrupt is cleared only when the stack
\* drains or a fresh outermost call starts.
THEOREM Refinement == Spec => CallStackRefined
  <1>1. Init => Abstract!Init
    BY SubSeqEmpty DEF Init, Abstract!Init, AbsStack
  <1>2. IInv /\ [Next]_vars => [Abstract!Next]_Abstract!absVars
    BY NextRefines
  <1>3. QED
    BY <1>1, <1>2, InitIInv, NextIInv, PTL
    DEF Spec, CallStackRefined, Abstract!Spec
=============================================================================
