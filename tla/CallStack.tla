----------------------------- MODULE CallStack -----------------------------
(***************************************************************************)
(* What a PL session promises its callers about nested calls, with the    *)
(* threads, the condition variable and the connections left out: the      *)
(* calls of a session form a stack of at most MaxDepth + 1 frames; a new  *)
(* frame is newer than every frame below it and is pushed only on an      *)
(* empty stack or an uninterrupted one; only the top frame is ever        *)
(* removed; the interrupt can be raised at any time and is cleared only   *)
(* when the stack drains or a fresh outermost call starts.                 *)
(***************************************************************************)
EXTENDS Integers, Sequences

CONSTANTS Frames,    \* frame identities, ordered by age
          MaxDepth   \* a push is allowed while the depth is at most this

VARIABLES stack,       \* the frames of the running calls, outermost first
          interrupted  \* the chain of calls has been told to stop

absVars == <<stack, interrupted>>

Init ==
  /\ stack = << >>
  /\ interrupted = FALSE

\* a call starts: as the outermost call, which forgets an old interrupt,
\* or nested in a chain that is not interrupted
Push(f) ==
  /\ Len(stack) <= MaxDepth
  /\ \A i \in 1..Len(stack) : stack[i] < f
  /\ stack = << >> \/ ~interrupted
  /\ stack' = Append(stack, f)
  /\ interrupted' = FALSE

\* the innermost call ends; the last one takes the interrupt with it
Pop ==
  /\ stack # << >>
  /\ stack' = SubSeq(stack, 1, Len(stack) - 1)
  /\ interrupted' = (interrupted /\ Len(stack) > 1)

\* someone stops the chain
Interrupt ==
  /\ interrupted' = TRUE
  /\ UNCHANGED stack

Next == (\E f \in Frames : Push(f)) \/ Pop \/ Interrupt

Spec == Init /\ [][Next]_absVars

=============================================================================
