------------------------- MODULE ThreadSafeWaitList -------------------------
(***************************************************************************)
(* The list of suspended tasks behind the asynchronous mutex, the channels *)
(* and Notify (src/src/async_std/sync/wait_list.rs, ThreadSafeWaitList).   *)
(*                                                                         *)
(* A task t in Task is a coroutine or a blocked thread that calls the      *)
(* list; tasks run on different threads, so every access to shared memory  *)
(* is a step of its own.  Accesses made while the SpinMutex `list` is held *)
(* and invisible without it are merged into the step that releases it.     *)
(* Memory is sequentially consistent.                                      *)
(*                                                                         *)
(* wpc[t] is where t is inside the list's code:                            *)
(*   wait:     lock, locked, open, decide, append | leave, parked,         *)
(*             unlinked, ending                                            *)
(*   wake_one: (load is the call), pop, complete                           *)
(*   wake_all: all_load, all_lock, all_pop, all_complete                   *)
(***************************************************************************)
EXTENDS Integers, Sequences, FiniteSets

CONSTANTS Task, NoTask

ASSUME NoTaskAssumption == NoTask \notin Task
ASSUME TaskAssumption == IsFiniteSet(Task)

VARIABLES
    wlist,    \* LinkedList<Waiter>, guarded by spin; front first
    spin,     \* the holder of the SpinMutex, or NoTask
    empty,    \* AtomicBool: the lock-free hint that nobody waits
    closed,   \* AtomicBool
    count,    \* AtomicUsize: calls of wait in progress
    wpc,      \* position of each task in the list's code
    wres,     \* result of the task's wait, until it is returned
    target    \* node the task has popped and not completed yet

wvars == <<wlist, spin, empty, closed, count, wpc, wres, target>>

LockedPos == {"locked", "open", "decide", "append", "leave", "all_pop",
              "all_complete"}
WaitPos == {"lock", "locked", "open", "decide", "append", "leave", "parked",
            "unlinked", "ending"}
WakePos == {"pop", "complete", "all_load", "all_lock", "all_pop",
            "all_complete"}

WaitListInit ==
    /\ wlist = <<>>
    /\ spin = NoTask
    /\ empty = FALSE
    /\ closed = FALSE
    /\ count = 0
    /\ wpc = [t \in Task |-> "idle"]
    /\ wres = [t \in Task |-> "None"]
    /\ target = [t \in Task |-> NoTask]

-----------------------------------------------------------------------------
(* The intrusive list. *)

Nodes(s) == {s[i] : i \in 1..Len(s)}
Linked == Nodes(wlist)

\* Node::unlink: take t out of the middle of the list
Unlink(s, t) ==
    LET at == CHOOSE i \in 1..Len(s) : s[i] = t
    IN  [i \in 1..(Len(s) - 1) |-> IF i < at THEN s[i] ELSE s[i + 1]]

Goto(t, pos) == wpc' = [wpc EXCEPT ![t] = pos]

-----------------------------------------------------------------------------
(* wait / blocking_wait, and the future `suspend` they block on. *)

\* Counter::new
WaitBegin(t) ==
    /\ wpc[t] = "idle"
    /\ count' = count + 1
    /\ Goto(t, "lock")
    /\ UNCHANGED <<wlist, spin, empty, closed, wres, target>>

\* self.list.lock()
SuspendLock(t) ==
    /\ wpc[t] = "lock"
    /\ spin = NoTask
    /\ spin' = t
    /\ Goto(t, "locked")
    /\ UNCHANGED <<wlist, empty, closed, count, wres, target>>

\* if self.is_closed() { return Done(Err(Closed)) }
CheckClosed(t) ==
    /\ wpc[t] = "locked"
    /\ IF closed
         THEN /\ spin' = NoTask
              /\ wres' = [wres EXCEPT ![t] = "Closed"]
              /\ Goto(t, "ending")
         ELSE Goto(t, "open") /\ UNCHANGED <<spin, wres>>
    /\ UNCHANGED <<wlist, empty, closed, count, target>>

\* Empty::new stores false before the condition is evaluated
EmptyNew(t) ==
    /\ wpc[t] = "open"
    /\ empty' = FALSE
    /\ Goto(t, "decide")
    /\ UNCHANGED <<wlist, spin, closed, count, wres, target>>

\* the caller's should_block() returned b
ShouldBlock(t, b) ==
    /\ wpc[t] = "decide"
    /\ Goto(t, IF b THEN "append" ELSE "leave")
    /\ UNCHANGED <<wlist, spin, empty, closed, count, wres, target>>

\* forget(empty); list.append(waiter); the task suspends
Append_(t) ==
    /\ wpc[t] = "append"
    /\ wlist' = Append(wlist, t)
    /\ spin' = NoTask
    /\ Goto(t, "parked")
    /\ UNCHANGED <<empty, closed, count, wres, target>>

\* Drop for Empty, then Done(Err(Cancelled))
Leave(t) ==
    /\ wpc[t] = "leave"
    /\ empty' = (wlist = <<>>)
    /\ spin' = NoTask
    /\ wres' = [wres EXCEPT ![t] = "Cancelled"]
    /\ Goto(t, "ending")
    /\ UNCHANGED <<wlist, closed, count, target>>

\* cancel without the test that the node is still linked
CancelUnchecked(t) ==
    /\ wpc[t] = "parked"
    /\ spin = NoTask
    /\ wlist' = IF t \in Linked THEN Unlink(wlist, t) ELSE wlist
    /\ Goto(t, "unlinked")
    /\ UNCHANGED <<spin, empty, closed, count, wres, target>>

\* cancel that pops the front of the list instead of its own node
CancelPopsFront(t) ==
    /\ wpc[t] = "parked"
    /\ spin = NoTask
    /\ t \in Linked
    /\ wlist' = Tail(wlist)
    /\ Goto(t, "unlinked")
    /\ UNCHANGED <<spin, empty, closed, count, wres, target>>

\* cancel: takes the lock; only a node that is still linked is cancelled
CancelUnlink(t) ==
    /\ wpc[t] = "parked"
    /\ spin = NoTask
    /\ t \in Linked
    /\ wlist' = Unlink(wlist, t)
    /\ Goto(t, "unlinked")
    /\ UNCHANGED <<spin, empty, closed, count, wres, target>>

\* cancel: Request::complete after the lock is dropped
CancelComplete(t) ==
    /\ wpc[t] = "unlinked"
    /\ wres' = [wres EXCEPT ![t] = "Cancelled"]
    /\ Goto(t, "ending")
    /\ UNCHANGED <<wlist, spin, empty, closed, count, target>>

\* drop(counter); the result goes to the caller
WaitEnd(t) ==
    /\ wpc[t] = "ending"
    /\ count' = count - 1
    /\ wres' = [wres EXCEPT ![t] = "None"]
    /\ Goto(t, "idle")
    /\ UNCHANGED <<wlist, spin, empty, closed, target>>

-----------------------------------------------------------------------------
(* wake_one *)

WakeLoad(t) ==
    /\ wpc[t] = "idle"
    /\ Goto(t, IF empty THEN "idle" ELSE "pop")
    /\ UNCHANGED <<wlist, spin, empty, closed, count, wres, target>>

\* self.list.lock().pop_front(); the guard is a temporary
WakePop(t) ==
    /\ wpc[t] = "pop"
    /\ spin = NoTask
    /\ IF wlist = <<>>
         THEN Goto(t, "idle") /\ UNCHANGED <<wlist, target>>
         ELSE /\ wlist' = Tail(wlist)
              /\ target' = [target EXCEPT ![t] = Head(wlist)]
              /\ Goto(t, "complete")
    /\ UNCHANGED <<spin, empty, closed, count, wres>>

\* Waiter::complete_node: the target task is woken with Ok
WakeComplete(t) ==
    /\ wpc[t] = "complete"
    /\ wres' = [wres EXCEPT ![target[t]] = "Ok"]
    /\ wpc' = [wpc EXCEPT ![target[t]] = "ending", ![t] = "idle"]
    /\ target' = [target EXCEPT ![t] = NoTask]
    /\ UNCHANGED <<wlist, spin, empty, closed, count>>

-----------------------------------------------------------------------------
(* wake_all, and close which is wake_all after setting the flag. *)

CloseStore(t) ==
    /\ wpc[t] = "idle"
    /\ closed' = TRUE
    /\ Goto(t, "all_load")
    /\ UNCHANGED <<wlist, spin, empty, count, wres, target>>

WakeAllCall(t) ==
    /\ wpc[t] = "idle"
    /\ Goto(t, "all_load")
    /\ UNCHANGED <<wlist, spin, empty, closed, count, wres, target>>

\* the count it then loads is only the value returned to the caller
WakeAllLoad(t) ==
    /\ wpc[t] = "all_load"
    /\ Goto(t, IF empty THEN "idle" ELSE "all_lock")
    /\ UNCHANGED <<wlist, spin, empty, closed, count, wres, target>>

WakeAllLock(t) ==
    /\ wpc[t] = "all_lock"
    /\ spin = NoTask
    /\ spin' = t
    /\ Goto(t, "all_pop")
    /\ UNCHANGED <<wlist, empty, closed, count, wres, target>>

\* while let Some(node) = list.pop_front()
WakeAllPop(t) ==
    /\ wpc[t] = "all_pop"
    /\ IF wlist = <<>>
         THEN Goto(t, "idle") /\ spin' = NoTask /\ UNCHANGED <<wlist, target>>
         ELSE /\ wlist' = Tail(wlist)
              /\ target' = [target EXCEPT ![t] = Head(wlist)]
              /\ Goto(t, "all_complete")
              /\ UNCHANGED spin
    /\ UNCHANGED <<empty, closed, count, wres>>

\* the last node ends the loop and drops the guard
WakeAllComplete(t) ==
    /\ wpc[t] = "all_complete"
    /\ wres' = [wres EXCEPT ![target[t]] = "Ok"]
    /\ wpc' = [wpc EXCEPT ![target[t]] = "ending",
                          ![t] = IF wlist = <<>> THEN "idle" ELSE "all_pop"]
    /\ target' = [target EXCEPT ![t] = NoTask]
    /\ spin' = IF wlist = <<>> THEN NoTask ELSE spin
    /\ UNCHANGED <<wlist, empty, closed, count>>

-----------------------------------------------------------------------------
(* Any number of tasks use the list, each in any of its ways. *)

Wait(t) ==
    \/ WaitBegin(t) \/ SuspendLock(t) \/ CheckClosed(t) \/ EmptyNew(t)
    \/ \E b \in BOOLEAN : ShouldBlock(t, b)
    \/ Append_(t) \/ Leave(t) \/ WaitEnd(t)

Cancel(t) == CancelUnlink(t) \/ CancelComplete(t)

WakeOne(t) == WakeLoad(t) \/ WakePop(t) \/ WakeComplete(t)

WakeAll(t) ==
    WakeAllCall(t) \/ WakeAllLoad(t) \/ WakeAllLock(t) \/ WakeAllPop(t)
    \/ WakeAllComplete(t)

Close(t) == ~closed /\ CloseStore(t)

WaitListNext ==
    \E t \in Task : Wait(t) \/ Cancel(t) \/ WakeOne(t) \/ WakeAll(t) \/ Close(t)

WaitListSpec == WaitListInit /\ [][WaitListNext]_wvars

-----------------------------------------------------------------------------
(* Properties *)

\* The variables have their types.
WaitListTypeOK ==
    /\ wlist \in Seq(Task)
    /\ spin \in Task \cup {NoTask}
    /\ empty \in BOOLEAN
    /\ closed \in BOOLEAN
    /\ count \in Nat
    /\ wpc \in [Task -> {"idle"} \cup WaitPos \cup WakePos]
    /\ wres \in [Task -> {"None", "Ok", "Cancelled", "Closed"}]
    /\ target \in [Task -> Task \cup {NoTask}]

\* The SpinMutex protects the list: exactly the task that holds it is inside a
\* critical section.
SpinExclusive ==
    \A t \in Task : wpc[t] \in LockedPos <=> spin = t

\* A waker holds a node exactly between popping it and completing it.
TargetPos ==
    \A t \in Task : target[t] # NoTask <=> wpc[t] \in {"complete", "all_complete"}

\* A node is on the list at most once.
Distinct(s) == \A i, j \in 1..Len(s) : s[i] = s[j] => i = j
NoDuplicates == Distinct(wlist)

\* "the waiter may no longer be valid after this call" (wait_list.rs): every
\* node on the list or in a waker's hands belongs to a task that is still
\* suspended in wait, and exactly one of the list and the wakers has it, so a
\* waiter is completed once, never after its wait returned, whatever wake_one,
\* wake_all and cancel do to it at the same time.
CompletedOnce ==
    /\ \A t \in Linked : wpc[t] = "parked"
    /\ \A u \in Task : target[u] # NoTask =>
         /\ wpc[target[u]] = "parked"
         /\ target[u] \notin Linked
         /\ \A v \in Task : target[v] = target[u] => v = u

\* A suspended task is never forgotten: it is on the list, where the next wake
\* finds it, or some waker is about to complete it.
NobodyForgotten ==
    \A t \in Task : wpc[t] = "parked" =>
        t \in Linked \/ \E u \in Task : target[u] = t

\* wake_one and wake_all skip the lock when `empty` is set, so `empty` may not
\* be set while a task is on the list or is inside the section of `suspend` in
\* which it decides whether to go there.
EmptyFlagSound ==
    /\ wlist # <<>> => ~empty
    /\ \A t \in Task : wpc[t] \in {"decide", "append", "leave"} => ~empty

\* The number of waits in progress, which wake_all reports as the number of
\* tasks it woke, counts every wait that has begun and not ended.
Waiting == {t \in Task : wpc[t] \in WaitPos}
CountExact == count = Cardinality(Waiting)

\* What a task on the list relies on, on whichever thread wakes, cancels or
\* closes: a suspended task is on the list or about to be completed, the
\* lock-free test of `empty` in wake_one and wake_all cannot overlook it, and
\* the number that wake_all returns counts it.
WaitListSound == NobodyForgotten /\ EmptyFlagSound /\ CountExact

\* The inductive invariant of the list's code.
WaitListInv ==
    /\ WaitListTypeOK
    /\ SpinExclusive
    /\ TargetPos
    /\ NoDuplicates
    /\ CompletedOnce
    /\ NobodyForgotten
    /\ EmptyFlagSound
    /\ CountExact

\* "Wait for the channel to be closed" (channel/mp.rs): once a close has run to
\* its end, no task is left suspended on the list.
CloseWakesEveryone ==
    closed /\ (\A t \in Task : wpc[t] \notin WakePos) => wlist = <<>>
=============================================================================
