----------------------------- MODULE AsyncMutex -----------------------------
(***************************************************************************)
(* The asynchronous mutex (src/src/async_std/sync/mutex.rs) on top of the  *)
(* wait list it owns.  `lock` and `blocking_lock_cancellable` run the same *)
(* loop; the only difference, where the wish to give up comes from (the    *)
(* task's interrupt flag or should_cancel()), is the variable interrupted. *)
(*                                                                         *)
(* pc[t] is where t is in the mutex's code:                                *)
(*   idle     not in a call                                                *)
(*   spin     try_spin_lock: loading the state while it is Locked         *)
(*   swap     try_spin_lock: about to swap Contended in                    *)
(*   check    the lock was not obtained: about to test the interrupt flag  *)
(*   wait     in wait_list.wait; wpc[t] says where                         *)
(*   guard    the lock is held, the guard is not built yet                 *)
(*   map      the guard is built, PoisonFlag::map not read yet             *)
(*   cs       the caller has the guard                                     *)
(*   drop     MutexGuard::drop: poison.finish() done, unlock() not         *)
(*   wake     unlock found Contended: in wait_list.wake_one                *)
(***************************************************************************)
EXTENDS ThreadSafeWaitList

CONSTANTS
    Interruptible,  \* tasks that can be asked to give up; blocking_lock cannot
    MayPanic        \* tasks that may panic

ASSUME InterruptibleAssumption == Interruptible \subseteq Task
ASSUME MayPanicAssumption == MayPanic \subseteq Task

VARIABLES
    state,        \* AtomicU8: Unlocked, Locked or Contended
    failed,       \* PoisonFlag
    pc,
    result,       \* Ok or Poisoned, as the guard was returned, while it is held
    interrupted,  \* the task has been asked to give up
    entered       \* PoisonGuard.panicking, recorded when the guard was built

mvars == <<state, failed, pc, result, interrupted, entered>>
vars == <<wvars, mvars>>

Pcs == {"idle", "spin", "swap", "check", "wait", "guard", "map", "cs", "drop",
        "wake"}
HolderPos == {"guard", "map", "cs", "drop"}

Jump(t, pos) == pc' = [pc EXCEPT ![t] = pos]

Init ==
    /\ WaitListInit
    /\ state = "Unlocked"
    /\ failed = FALSE
    /\ pc = [t \in Task |-> "idle"]
    /\ result = [t \in Task |-> "None"]
    /\ interrupted = [t \in Task |-> FALSE]
    /\ entered = [t \in Task |-> FALSE]

-----------------------------------------------------------------------------
(* Acquiring *)

\* try_lock_internal by lock: the compare_exchange, or on to the slow path
Lock(t) ==
    /\ pc[t] = "idle"
    /\ IF state = "Unlocked"
         THEN state' = "Locked" /\ Jump(t, "guard")
         ELSE Jump(t, "spin") /\ UNCHANGED state
    /\ UNCHANGED <<wvars, failed, result, interrupted, entered>>

\* try_lock: the same compare_exchange; WouldBlock changes nothing
TryLock(t) ==
    /\ pc[t] = "idle"
    /\ state = "Unlocked"
    /\ state' = "Locked"
    /\ Jump(t, "guard")
    /\ UNCHANGED <<wvars, failed, result, interrupted, entered>>

\* the loads of try_spin_lock: any state but Locked ends the loop at once, and
\* 97 loads of Locked end it too; a load that repeats the loop is a stutter
SpinLoad(t) ==
    /\ pc[t] = "spin"
    /\ Jump(t, IF state = "Contended" THEN "check" ELSE "swap")
    /\ UNCHANGED <<wvars, state, failed, result, interrupted, entered>>

\* the swap takes a lock that was merely not contended
SwapTakesLocked(t) ==
    /\ pc[t] = "swap"
    /\ state' = "Contended"
    /\ Jump(t, IF state # "Contended" THEN "guard" ELSE "check")
    /\ UNCHANGED <<wvars, failed, result, interrupted, entered>>

\* a task that obtains the lock after contention forgets that others wait
SwapForgetsContention(t) ==
    /\ pc[t] = "swap"
    /\ state' = IF state = "Unlocked" THEN "Locked" ELSE "Contended"
    /\ Jump(t, IF state = "Unlocked" THEN "guard" ELSE "check")
    /\ UNCHANGED <<wvars, failed, result, interrupted, entered>>

\* the swap of try_spin_lock: what it replaced decides who owns the lock
SpinSwap(t) ==
    /\ pc[t] = "swap"
    /\ state' = "Contended"
    /\ Jump(t, IF state = "Unlocked" THEN "guard" ELSE "check")
    /\ UNCHANGED <<wvars, failed, result, interrupted, entered>>

\* is_interrupted() / should_cancel() in the loop of lock_contended; an
\* interrupted task returns WouldBlock
CheckInterrupt(t) ==
    /\ pc[t] = "check"
    /\ wpc[t] = "idle"
    /\ Jump(t, IF interrupted[t] THEN "idle" ELSE "wait")
    /\ UNCHANGED <<wvars, state, failed, result, interrupted, entered>>

\* wait: check_interrupt() returns at once for an interrupted task
WaitCall(t) ==
    /\ pc[t] = "wait"
    /\ wpc[t] = "idle"
    /\ IF interrupted[t]
         THEN Jump(t, "spin") /\ UNCHANGED wvars
         ELSE WaitBegin(t) /\ UNCHANGED pc
    /\ UNCHANGED <<state, failed, result, interrupted, entered>>

\* the steps inside wait; should_block is `state == Contended`
WaitStep(t) ==
    /\ pc[t] = "wait"
    /\ \/ SuspendLock(t) \/ CheckClosed(t) \/ EmptyNew(t)
       \/ ShouldBlock(t, state = "Contended")
       \/ Append_(t) \/ Leave(t)
    /\ UNCHANGED mvars

\* the result of wait is dropped: whatever it was, the loop starts again
WaitReturn(t) ==
    /\ pc[t] = "wait"
    /\ WaitEnd(t)
    /\ Jump(t, "spin")
    /\ UNCHANGED <<state, failed, result, interrupted, entered>>

\* interrupting a suspended task runs the cancel token of its wait
WaitCancel(t) ==
    /\ interrupted[t]
    /\ CancelUnlink(t) \/ CancelComplete(t)
    /\ UNCHANGED mvars

-----------------------------------------------------------------------------
(* Holding *)

\* MutexGuard::new records whether the thread is already panicking (p)
NewGuard(t, p) ==
    /\ pc[t] = "guard"
    /\ p => t \in MayPanic
    /\ entered' = [entered EXCEPT ![t] = p]
    /\ Jump(t, "map")
    /\ UNCHANGED <<wvars, state, failed, result, interrupted>>

\* the guard is returned without looking at the poison flag
MapIgnoresPoison(t) ==
    /\ pc[t] = "map"
    /\ result' = [result EXCEPT ![t] = "Ok"]
    /\ Jump(t, "cs")
    /\ UNCHANGED <<wvars, state, failed, interrupted, entered>>

\* poison.map(guard): Ok(guard) or Err(Poisoned(guard))
MapPoison(t) ==
    /\ pc[t] = "map"
    /\ result' = [result EXCEPT ![t] = IF failed THEN "Poisoned" ELSE "Ok"]
    /\ Jump(t, "cs")
    /\ UNCHANGED <<wvars, state, failed, interrupted, entered>>

\* Drop for MutexGuard: poison.finish(), with the thread panicking or not (p);
\* a thread that was panicking when the guard was built still is
Finish(t, p) ==
    /\ pc[t] = "cs"
    /\ entered[t] => p
    /\ p => t \in MayPanic
    /\ failed' = (failed \/ (~entered[t] /\ p))
    /\ Jump(t, "drop")
    /\ UNCHANGED <<wvars, state, result, interrupted, entered>>

\* unlock that wakes nobody
UnlockWithoutWake(t) ==
    /\ pc[t] = "drop"
    /\ state' = "Unlocked"
    /\ Jump(t, "idle")
    /\ result' = [result EXCEPT ![t] = "None"]
    /\ entered' = [entered EXCEPT ![t] = FALSE]
    /\ UNCHANGED <<wvars, failed, interrupted>>

\* Drop for MutexGuard: unlock()
Unlock(t) ==
    /\ pc[t] = "drop"
    /\ state' = "Unlocked"
    /\ Jump(t, IF state = "Contended" THEN "wake" ELSE "idle")
    /\ result' = [result EXCEPT ![t] = "None"]
    /\ entered' = [entered EXCEPT ![t] = FALSE]
    /\ UNCHANGED <<wvars, failed, interrupted>>

\* unlock's wake_one, after which unlock returns
Wake(t) ==
    /\ pc[t] = "wake"
    /\ WakeLoad(t) \/ WakePop(t) \/ WakeComplete(t)
    /\ Jump(t, IF wpc'[t] = "idle" THEN "idle" ELSE "wake")
    /\ UNCHANGED <<state, failed, result, interrupted, entered>>

-----------------------------------------------------------------------------
(* The surroundings *)

\* Context::interrupt, or a signal handler that makes should_cancel() true
Interrupt(t) ==
    /\ t \in Interruptible
    /\ ~interrupted[t]
    /\ interrupted' = [interrupted EXCEPT ![t] = TRUE]
    /\ UNCHANGED <<wvars, state, failed, pc, result, entered>>

ClearInterrupt(t) ==
    /\ pc[t] = "idle"
    /\ interrupted[t]
    /\ interrupted' = [interrupted EXCEPT ![t] = FALSE]
    /\ UNCHANGED <<wvars, state, failed, pc, result, entered>>

\* clear_poison
ClearPoison ==
    /\ failed
    /\ failed' = FALSE
    /\ UNCHANGED <<wvars, state, pc, result, interrupted, entered>>

\* what a thread inside the code does next
Run(t) ==
    \/ SpinLoad(t) \/ SpinSwap(t) \/ CheckInterrupt(t)
    \/ WaitCall(t) \/ WaitStep(t) \/ WaitReturn(t)
    \/ (\E p \in BOOLEAN : NewGuard(t, p) \/ Finish(t, p))
    \/ MapPoison(t) \/ Unlock(t) \/ Wake(t)

Environment(t) ==
    \/ Lock(t) \/ TryLock(t) \/ WaitCancel(t)
    \/ Interrupt(t) \/ ClearInterrupt(t)

Next == (\E t \in Task : Run(t) \/ Environment(t)) \/ ClearPoison

Spec == Init /\ [][Next]_vars

\* every task that is inside the mutex's code is eventually scheduled, and a
\* task does not keep a guard forever; nothing is assumed of the SpinMutex
\* beyond that a free lock is taken
Fairness == \A t \in Task : WF_vars(Run(t))

FairSpec == Spec /\ Fairness

-----------------------------------------------------------------------------
(* Properties *)

\* The variables have their types.
TypeOK ==
    /\ WaitListTypeOK
    /\ state \in {"Unlocked", "Locked", "Contended"}
    /\ failed \in BOOLEAN
    /\ pc \in [Task -> Pcs]
    /\ result \in [Task -> {"None", "Ok", "Poisoned"}]
    /\ interrupted \in [Task -> BOOLEAN]
    /\ entered \in [Task -> BOOLEAN]

Holders == {t \in Task : pc[t] \in HolderPos}

\* "must create atmost 1 guards after a successful locking of the mutex"
\* (mutex.rs): two tasks never hold the mutex together, and the mutex is
\* Unlocked only while nobody holds it.
MutualExclusion ==
    /\ \A t, u \in Holders : t = u
    /\ state = "Unlocked" <=> Holders = {}

\* A waiter blocks only on Contended, and unlock wakes one only on Contended.
\* When a task is on the wait list (or has decided to go there) while the state
\* is anything else, the wake that is due to it is under way: some task is about
\* to wake_one, holds a popped waiter, or was woken and will swap Contended in
\* before it can block again.
WakeupDue(u) ==
    \/ pc[u] = "wake"
    \/ pc[u] = "wait" /\ wpc[u] = "ending"
    \/ pc[u] \in {"spin", "swap"}

NoLostWakeup ==
    (wlist # <<>> \/ \E t \in Task : wpc[t] = "append") /\ state # "Contended"
        => \E u \in Task : WakeupDue(u)

\* A task is in the wait list's code exactly where the mutex calls it, and has a
\* verdict on the poison flag exactly while it has a guard.
PcMatches ==
    \A t \in Task :
        /\ pc[t] = "wait" => wpc[t] \in {"idle"} \cup WaitPos
        /\ pc[t] = "wake" => wpc[t] \in {"idle", "pop", "complete"}
        /\ pc[t] \notin {"wait", "wake"} => wpc[t] = "idle"
        /\ result[t] = "None" <=> pc[t] \notin {"cs", "drop"}

\* The inductive invariant of the mutex.
MutexInv ==
    /\ TypeOK
    /\ WaitListInv
    /\ PcMatches
    /\ MutualExclusion
    /\ NoLostWakeup

\* The abstract mutex, read off the implementation's state.
Owner == IF Holders = {} THEN NoTask ELSE CHOOSE t \in Holders : TRUE
Verdict == [t \in Task |-> IF pc[t] \in {"cs", "drop"} THEN result[t] ELSE "None"]

Abstract ==
    INSTANCE AbstractMutex WITH owner <- Owner, poison <- failed, verdict <- Verdict

\* The mutex implements AbstractMutex: in particular the poison of a panicking
\* owner is stored before the next owner can receive the value.
AbstractSpec == Abstract!Spec

\* A task that lock suspended is woken, even if nothing ever cancels it, as long
\* as the guards of other tasks are dropped (unlock's wake_one reaches it).
Woken == \A t \in Task : wpc[t] = "parked" ~> wpc[t] # "parked"
=============================================================================
