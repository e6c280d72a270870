------------------------------ MODULE RawNotify ------------------------------
(***************************************************************************)
(* RawWaitList and the RawNotify / RcNotify built on it                    *)
(* (src/src/async_std/sync/wait_list.rs, notify.rs): the wait list of one  *)
(* thread, without locks, on the intrusive list of LinkedList.             *)
(*                                                                         *)
(* What makes it hard is re-entry: completing a waiter resumes its task at *)
(* once, inside the loop of wake_all, and that task may wait again, cancel *)
(* a waiter of the same round, notify again or close the list before the   *)
(* loop goes on.  stack is the thread's call stack: a frame is a task that *)
(* runs, or a wake_all in progress (its local list, and whether the next   *)
(* completion was the last).  The node of a waiter is named by its task.   *)
(***************************************************************************)
EXTENDS LinkedList

CONSTANTS
    Main,       \* the task at the bottom of the stack; it never waits
    Self,       \* RawWaitList.list
    MaxDepth    \* bound on the stack

ASSUME NotifyAssumption == Self \in List /\ Main \notin Base /\ MaxDepth \in Nat

VARIABLES
    count, closed,   \* the cells of RawWaitList
    interrupted,     \* the tasks whose context is interrupted
    started,         \* tasks that were spawned
    stack,           \* top first
    due              \* auxiliary: for the local list of a wake_all, the tasks
                     \* that waited when it was called, less those it resumed
                     \* and those that were cancelled since

nvars == <<count, closed, interrupted, started, stack, due>>
allvars == <<lvars, nvars>>

Local == List \ {Self}

Run(t) == [op |-> "run", task |-> t, list |-> Self]
Loop(l) == [op |-> "loop", task |-> Main, list |-> l]
Last(l) == [op |-> "last", task |-> Main, list |-> l]

\* LinkedList::new and pin of the local lists are part of the initial state:
\* a local list is empty again whenever its wake_all has returned
NotifyInit ==
    /\ prev = [x \in Base |-> IF x \in List THEN x ELSE Nil]
    /\ next = prev
    /\ items = [l \in List |-> <<>>]
    /\ count = 0
    /\ closed = FALSE
    /\ interrupted = {}
    /\ started = {}
    /\ stack = <<Run(Main)>>
    /\ due = [l \in Local |-> {}]

Running(t) == stack[1] = Run(t)
OnStack(t) == \E i \in 1..Len(stack) : stack[i] = Run(t)
InUse == {stack[i].list : i \in 1..Len(stack)}
NotDue(ts) == [l \in Local |-> due[l] \ ts]

\* Request::complete of u's waiter: u's context is resumed, wait takes its
\* place on the stack and lowers the count
Resume(u, below) ==
    /\ stack' = <<Run(u)>> \o below
    /\ count' = count - 1

-----------------------------------------------------------------------------
(* A running task *)

\* spawn: the new task runs at once
Spawn(t, u) ==
    /\ Running(t) /\ u \notin started /\ Len(stack) < MaxDepth
    /\ started' = started \cup {u}
    /\ stack' = <<Run(u)>> \o stack
    /\ UNCHANGED <<lvars, count, closed, interrupted, due>>

\* the task returns, or panics with the value a panicking clone left it
End(t) ==
    /\ Running(t) /\ t # Main
    /\ stack' = Tail(stack)
    /\ UNCHANGED <<lvars, count, closed, interrupted, started, due>>

\* RawWaitList::wait; closed and interrupted end it before it suspends
Wait(t) ==
    /\ Running(t) /\ t # Main /\ ~closed /\ t \notin interrupted
    /\ count' = count + 1
    /\ AppendNode(Self, t)
    /\ stack' = Tail(stack)
    /\ UNCHANGED <<closed, interrupted, started, due>>

\* clear_interrupt, by which a task goes on after a failed wait
ClearInterrupt(t) ==
    /\ Running(t) /\ t \in interrupted
    /\ interrupted' = interrupted \ {t}
    /\ UNCHANGED <<lvars, count, closed, started, stack, due>>

\* Context::interrupt of u by t; a waiting u is unlinked and resumed
Cancel(t, u) ==
    /\ Running(t) /\ t # u /\ (Linked(u) \/ OnStack(u))
    /\ interrupted' = interrupted \cup {u}
    /\ IF Linked(u)
         THEN /\ Len(stack) < MaxDepth
              /\ Unlink(u)
              /\ Resume(u, stack)
              /\ due' = NotDue({u})
         ELSE UNCHANGED <<lvars, stack, count, due>>
    /\ UNCHANGED <<closed, started>>

WakeOne(t) ==
    /\ Running(t) /\ Len(stack) < MaxDepth
    /\ PopFront(Self)
    /\ IF IsEmpty(Self)
         THEN UNCHANGED <<stack, count>>
         ELSE Resume(Head_(Self), stack)
    /\ UNCHANGED <<closed, interrupted, started, due>>

\* the local list of a wake_all
Fresh(l) == l \in Local \ InUse

\* a wake_all that walks the shared list instead of a list of its own
WakeAllShared(t, closing) ==
    /\ Running(t) /\ Len(stack) < MaxDepth
    /\ closed' = (closed \/ closing)
    /\ \E l \in Local :
         /\ Fresh(l)
         /\ due' = [due EXCEPT ![l] = {items[Self][i] : i \in 1..Len(items[Self])}]
         /\ stack' = <<[Loop(l) EXCEPT !.list = Self]>> \o stack
    /\ UNCHANGED <<lvars, count, interrupted, started>>

\* RawNotify::notify, which is wake_all, and close, which sets closed first
WakeAll(t, closing) ==
    /\ Running(t) /\ Len(stack) < MaxDepth
    /\ closed' = (closed \/ closing)
    /\ \E l \in Local :
         /\ Fresh(l)
         /\ MoveElements(Self, l)
         /\ due' = [due EXCEPT ![l] = {items[Self][i] : i \in 1..Len(items[Self])}]
         /\ stack' = <<Loop(l)>> \o stack
    /\ UNCHANGED <<count, interrupted, started>>

-----------------------------------------------------------------------------
(* The loop of wake_all *)

\* one round: pop a node, complete it; the last one takes the value itself and
\* ends the loop
WakeNext ==
    LET l == stack[1].list
        u == Head_(l)
        under == Tail(stack)
    IN
    /\ stack[1].op = "loop" /\ ~IsEmpty(l)
    /\ PopFront(l)
    /\ Resume(u, (IF next[u] = l THEN <<Last(l)>> ELSE <<Loop(l)>>) \o under)
    /\ due' = [due EXCEPT ![l] = @ \ {u}]
    /\ UNCHANGED <<closed, interrupted, started>>

\* wake_all returns
WakeReturn ==
    /\ stack[1].op = "last" \/ (stack[1].op = "loop" /\ IsEmpty(stack[1].list))
    /\ stack' = Tail(stack)
    /\ UNCHANGED <<lvars, count, closed, interrupted, started, due>>

-----------------------------------------------------------------------------

NotifyNext ==
    \/ \E t \in Node \cup {Main} :
         \/ End(t) \/ Wait(t) \/ ClearInterrupt(t) \/ WakeOne(t)
         \/ \E u \in Node : Spawn(t, u) \/ Cancel(t, u)
         \/ \E closing \in BOOLEAN : WakeAll(t, closing)
    \/ WakeNext
    \/ WakeReturn

NotifySpec == NotifyInit /\ [][NotifyNext]_allvars

-----------------------------------------------------------------------------
(* Properties *)

\* A notify resumes exactly the tasks that were waiting when it was called and
\* have not been cancelled since: a waiter that arrives while it runs, also one
\* that it has just resumed, is left for the next notify, one that is cancelled
\* by another waiter is skipped, a notify inside the notify takes nobody away,
\* and when wake_all returns nobody is left over in its list.
NotifyOwes ==
    \A l \in Local :
        /\ due[l] = {items[l][i] : i \in 1..Len(items[l])}
        /\ l \notin InUse => due[l] = {}
        /\ \A i \in 1..Len(stack) : stack[i] = Last(l) => due[l] = {}

\* The count that notify returns is the number of tasks inside wait, whatever
\* was nested or cancelled; a task whose node is linked is suspended (it is
\* nowhere on the stack), so that its node, which is on its stack frame, lives.
WaitersCounted ==
    /\ count = Cardinality({t \in Node : Linked(t)})
    /\ \A t \in Node : Linked(t) => t \in started /\ ~OnStack(t)
    /\ \A i, j \in 1..Len(stack) : stack[i] = stack[j] /\ stack[i].op = "run" => i = j

\* While the thread runs (Main is at the bottom of its stack), a notify resumes
\* exactly the tasks that waited when it was called and were not cancelled since,
\* and the count is the number of suspended waiters, whose nodes alone are linked.
NotifyExact == stack # <<>> => NotifyOwes /\ WaitersCounted
=============================================================================
