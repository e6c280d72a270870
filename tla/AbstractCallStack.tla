-------------------------- MODULE AbstractCallStack --------------------------
(***************************************************************************)
(* What the executor promises: the workers of a thread call each other     *)
(* like functions.  Only the top of the stack runs; resuming or starting a *)
(* worker pushes it, and it must not be on the stack already ("workers     *)
(* cannot resume each other recursively", executor.rs); suspending or      *)
(* exiting pops it, so control returns to whoever resumed it.  A worker    *)
(* that exited never runs again.                                           *)
(***************************************************************************)
EXTENDS Sequences, Integers

CONSTANT Worker

VARIABLES stack, gone

Init == stack = <<>> /\ gone = {}

Resume(w) ==
    /\ w \notin gone
    /\ \A i \in 1..Len(stack) : stack[i] # w
    /\ stack' = Append(stack, w)
    /\ UNCHANGED gone

Pop == stack' = SubSeq(stack, 1, Len(stack) - 1)

Suspend ==
    /\ stack # <<>>
    /\ Pop
    /\ UNCHANGED gone

Exit ==
    /\ stack # <<>>
    /\ Pop
    /\ gone' = gone \cup {stack[Len(stack)]}

Next == (\E w \in Worker : Resume(w)) \/ Suspend \/ Exit

Spec == Init /\ [][Next]_<<stack, gone>>
=============================================================================
