--------------------------- MODULE AsyncMutexProofs ---------------------------
(***************************************************************************)
(* Proofs about AsyncMutex for every set of tasks.  Every step of the      *)
(* mutex is a step of the wait list or leaves it alone, so WaitListInv     *)
(* comes from ThreadSafeWaitListProofs; what remains is the lock word.     *)
(***************************************************************************)
EXTENDS AsyncMutex, ThreadSafeWaitListProofs

\* The initial state satisfies the invariant.
LEMMA MutexInitInv == Init => MutexInv
<1> SUFFICES ASSUME Init PROVE MutexInv
  OBVIOUS
<1>1. WaitListInv
  BY WaitListInitInv DEF Init
<1>2. TypeOK
  BY <1>1 DEF Init, TypeOK, WaitListInv, Pcs
<1>3. PcMatches /\ MutualExclusion
  BY DEF Init, WaitListInit, PcMatches, MutualExclusion, Holders, HolderPos
<1>4. NoLostWakeup
  BY DEF Init, WaitListInit, NoLostWakeup
<1> QED BY <1>1, <1>2, <1>3, <1>4 DEF MutexInv

\* The mutex uses the wait list only through the list's own operations.
LEMMA MutexUsesWaitList == Next => [WaitListNext]_wvars
<1> SUFFICES ASSUME Next PROVE [WaitListNext]_wvars
  OBVIOUS
<1> USE DEF WaitListNext
<1>1. ASSUME NEW t \in Task, Run(t) PROVE [WaitListNext]_wvars
  <2> USE <1>1 DEF Wait, WakeOne
  <2>1. CASE SpinLoad(t) \/ SpinSwap(t) \/ CheckInterrupt(t)
    BY <2>1 DEF SpinLoad, SpinSwap, CheckInterrupt
  <2>2. CASE WaitCall(t) \/ WaitReturn(t)
    BY <2>2 DEF WaitCall, WaitReturn
  <2>3. CASE WaitStep(t)
    <3>1. CASE ShouldBlock(t, state = "Contended")
      <4>1. ShouldBlock(t, TRUE) \/ ShouldBlock(t, FALSE)
        BY <3>1 DEF ShouldBlock
      <4> QED BY <4>1
    <3> QED BY <2>3, <3>1 DEF WaitStep
  <2>4. CASE (\E p \in BOOLEAN : NewGuard(t, p) \/ Finish(t, p)) \/ MapPoison(t) \/ Unlock(t)
    BY <2>4 DEF NewGuard, Finish, MapPoison, Unlock
  <2>5. CASE Wake(t)
    BY <2>5 DEF Wake
  <2> QED BY <2>1, <2>2, <2>3, <2>4, <2>5 DEF Run
<1>2. ASSUME NEW t \in Task, Environment(t) PROVE [WaitListNext]_wvars
  <2>1. CASE WaitCancel(t)
    BY <2>1 DEF WaitCancel, Cancel
  <2> QED BY <1>2, <2>1 DEF Environment, Lock, TryLock, Interrupt, ClearInterrupt
<1>3. CASE ClearPoison
  BY <1>3 DEF ClearPoison
<1> QED BY <1>1, <1>2, <1>3 DEF Next

-----------------------------------------------------------------------------
(* Steps of the mutex that do not touch the wait list *)

\* The fast path of lock, or the entry of the slow one.
LEMMA LockStep ==
    ASSUME MutexInv, WaitListInv', NEW t \in Task, Lock(t)
    PROVE  MutexInv'
<1>0. TypeOK /\ WaitListTypeOK /\ PcMatches /\ MutualExclusion /\ NoLostWakeup
  BY DEF MutexInv, TypeOK
<1> USE <1>0 DEF Jump
<1> USE DEF Lock, wvars, Linked
<1>1. TypeOK'
  BY DEF MutexInv, WaitListInv, TypeOK, Pcs
<1>2. PcMatches'
  BY DEF PcMatches, TypeOK
<1>3. MutualExclusion'
  BY DEF MutualExclusion, Holders, HolderPos, TypeOK
<1>4. NoLostWakeup'
  BY DEF NoLostWakeup, WakeupDue, TypeOK
<1> QED BY <1>1, <1>2, <1>3, <1>4 DEF MutexInv

\* A successful try_lock.
LEMMA TryLockStep ==
    ASSUME MutexInv, WaitListInv', NEW t \in Task, TryLock(t)
    PROVE  MutexInv'
<1>0. TypeOK /\ WaitListTypeOK /\ PcMatches /\ MutualExclusion /\ NoLostWakeup
  BY DEF MutexInv, TypeOK
<1> USE <1>0 DEF Jump
<1> USE DEF TryLock, wvars, Linked
<1>1. TypeOK'
  BY DEF MutexInv, WaitListInv, TypeOK, Pcs
<1>2. PcMatches'
  BY DEF PcMatches, TypeOK
<1>3. MutualExclusion'
  BY DEF MutualExclusion, Holders, HolderPos, TypeOK
<1>4. NoLostWakeup'
  BY DEF NoLostWakeup, WakeupDue, TypeOK
<1> QED BY <1>1, <1>2, <1>3, <1>4 DEF MutexInv

\* The load of try_spin_lock.
LEMMA SpinLoadStep ==
    ASSUME MutexInv, WaitListInv', NEW t \in Task, SpinLoad(t)
    PROVE  MutexInv'
<1>0. TypeOK /\ WaitListTypeOK /\ PcMatches /\ MutualExclusion /\ NoLostWakeup
  BY DEF MutexInv, TypeOK
<1> USE <1>0 DEF Jump
<1> USE DEF SpinLoad, wvars, Linked
<1>1. TypeOK'
  BY DEF MutexInv, WaitListInv, TypeOK, Pcs
<1>2. PcMatches'
  BY DEF PcMatches, TypeOK
<1>3. MutualExclusion'
  BY DEF MutualExclusion, Holders, HolderPos, TypeOK
<1>4. NoLostWakeup'
  BY DEF NoLostWakeup, WakeupDue, TypeOK
<1> QED BY <1>1, <1>2, <1>3, <1>4 DEF MutexInv

\* The swap of try_spin_lock: from here on the holder's unlock wakes someone.
LEMMA SpinSwapStep ==
    ASSUME MutexInv, WaitListInv', NEW t \in Task, SpinSwap(t)
    PROVE  MutexInv'
<1>0. TypeOK /\ WaitListTypeOK /\ PcMatches /\ MutualExclusion /\ NoLostWakeup
  BY DEF MutexInv, TypeOK
<1> USE <1>0 DEF Jump
<1> USE DEF SpinSwap, wvars, Linked
<1>1. TypeOK'
  BY DEF MutexInv, WaitListInv, TypeOK, Pcs
<1>2. PcMatches'
  BY DEF PcMatches, TypeOK
<1>3. MutualExclusion'
  BY DEF MutualExclusion, Holders, HolderPos, TypeOK
<1>4. NoLostWakeup'
  BY DEF NoLostWakeup, WakeupDue, TypeOK
<1> QED BY <1>1, <1>2, <1>3, <1>4 DEF MutexInv

\* Giving up, or going to wait.
LEMMA CheckInterruptStep ==
    ASSUME MutexInv, WaitListInv', NEW t \in Task, CheckInterrupt(t)
    PROVE  MutexInv'
<1>0. TypeOK /\ WaitListTypeOK /\ PcMatches /\ MutualExclusion /\ NoLostWakeup
  BY DEF MutexInv, TypeOK
<1> USE <1>0 DEF Jump
<1> USE DEF CheckInterrupt, wvars, Linked
<1>1. TypeOK'
  BY DEF MutexInv, WaitListInv, TypeOK, Pcs
<1>2. PcMatches'
  BY DEF PcMatches, TypeOK
<1>3. MutualExclusion'
  BY DEF MutualExclusion, Holders, HolderPos, TypeOK
<1>4. NoLostWakeup'
  BY DEF NoLostWakeup, WakeupDue, TypeOK
<1> QED BY <1>1, <1>2, <1>3, <1>4 DEF MutexInv

\* Building the guard.
LEMMA NewGuardStep ==
    ASSUME MutexInv, WaitListInv', NEW t \in Task, NEW p \in BOOLEAN, NewGuard(t, p)
    PROVE  MutexInv'
<1>0. TypeOK /\ WaitListTypeOK /\ PcMatches /\ MutualExclusion /\ NoLostWakeup
  BY DEF MutexInv, TypeOK
<1> USE <1>0 DEF Jump
<1> USE DEF NewGuard, wvars, Linked
<1>1. TypeOK'
  BY DEF MutexInv, WaitListInv, TypeOK, Pcs
<1>2. PcMatches'
  BY DEF PcMatches, TypeOK
<1>3. MutualExclusion'
  BY DEF MutualExclusion, Holders, HolderPos, TypeOK
<1>4. NoLostWakeup'
  BY DEF NoLostWakeup, WakeupDue, TypeOK
<1> QED BY <1>1, <1>2, <1>3, <1>4 DEF MutexInv

\* Reading the poison flag.
LEMMA MapPoisonStep ==
    ASSUME MutexInv, WaitListInv', NEW t \in Task, MapPoison(t)
    PROVE  MutexInv'
<1>0. TypeOK /\ WaitListTypeOK /\ PcMatches /\ MutualExclusion /\ NoLostWakeup
  BY DEF MutexInv, TypeOK
<1> USE <1>0 DEF Jump
<1> USE DEF MapPoison, wvars, Linked
<1>1. TypeOK'
  BY DEF MutexInv, WaitListInv, TypeOK, Pcs
<1>2. PcMatches'
  BY DEF PcMatches, TypeOK
<1>3. MutualExclusion'
  BY DEF MutualExclusion, Holders, HolderPos, TypeOK
<1>4. NoLostWakeup'
  BY DEF NoLostWakeup, WakeupDue, TypeOK
<1> QED BY <1>1, <1>2, <1>3, <1>4 DEF MutexInv

\* Poisoning.
LEMMA FinishStep ==
    ASSUME MutexInv, WaitListInv', NEW t \in Task, NEW p \in BOOLEAN, Finish(t, p)
    PROVE  MutexInv'
<1>0. TypeOK /\ WaitListTypeOK /\ PcMatches /\ MutualExclusion /\ NoLostWakeup
  BY DEF MutexInv, TypeOK
<1> USE <1>0 DEF Jump
<1> USE DEF Finish, wvars, Linked
<1>1. TypeOK'
  BY DEF MutexInv, WaitListInv, TypeOK, Pcs
<1>2. PcMatches'
  BY DEF PcMatches, TypeOK
<1>3. MutualExclusion'
  BY DEF MutualExclusion, Holders, HolderPos, TypeOK
<1>4. NoLostWakeup'
  BY DEF NoLostWakeup, WakeupDue, TypeOK
<1> QED BY <1>1, <1>2, <1>3, <1>4 DEF MutexInv

\* Unlocking: a Contended mutex owes one wake.
LEMMA UnlockStep ==
    ASSUME MutexInv, WaitListInv', NEW t \in Task, Unlock(t)
    PROVE  MutexInv'
<1>0. TypeOK /\ WaitListTypeOK /\ PcMatches /\ MutualExclusion /\ NoLostWakeup
  BY DEF MutexInv, TypeOK
<1> USE <1>0 DEF Jump
<1> USE DEF Unlock, wvars, Linked
<1>1. TypeOK'
  BY DEF MutexInv, WaitListInv, TypeOK, Pcs
<1>2. PcMatches'
  BY DEF PcMatches, TypeOK
<1>3. MutualExclusion'
  BY DEF MutualExclusion, Holders, HolderPos, TypeOK
<1>4. NoLostWakeup'
  BY DEF NoLostWakeup, WakeupDue, TypeOK
<1> QED BY <1>1, <1>2, <1>3, <1>4 DEF MutexInv

\* Asking a task to give up.
LEMMA InterruptStep ==
    ASSUME MutexInv, WaitListInv', NEW t \in Task, Interrupt(t)
    PROVE  MutexInv'
<1>0. TypeOK /\ WaitListTypeOK /\ PcMatches /\ MutualExclusion /\ NoLostWakeup
  BY DEF MutexInv, TypeOK
<1> USE <1>0 DEF Jump
<1> USE DEF Interrupt, wvars, Linked
<1>1. TypeOK'
  BY DEF MutexInv, WaitListInv, TypeOK, Pcs
<1>2. PcMatches'
  BY DEF PcMatches, TypeOK
<1>3. MutualExclusion'
  BY DEF MutualExclusion, Holders, HolderPos, TypeOK
<1>4. NoLostWakeup'
  BY DEF NoLostWakeup, WakeupDue, TypeOK
<1> QED BY <1>1, <1>2, <1>3, <1>4 DEF MutexInv

\* Withdrawing that.
LEMMA ClearInterruptStep ==
    ASSUME MutexInv, WaitListInv', NEW t \in Task, ClearInterrupt(t)
    PROVE  MutexInv'
<1>0. TypeOK /\ WaitListTypeOK /\ PcMatches /\ MutualExclusion /\ NoLostWakeup
  BY DEF MutexInv, TypeOK
<1> USE <1>0 DEF Jump
<1> USE DEF ClearInterrupt, wvars, Linked
<1>1. TypeOK'
  BY DEF MutexInv, WaitListInv, TypeOK, Pcs
<1>2. PcMatches'
  BY DEF PcMatches, TypeOK
<1>3. MutualExclusion'
  BY DEF MutualExclusion, Holders, HolderPos, TypeOK
<1>4. NoLostWakeup'
  BY DEF NoLostWakeup, WakeupDue, TypeOK
<1> QED BY <1>1, <1>2, <1>3, <1>4 DEF MutexInv

\* Clearing the poison.
LEMMA ClearPoisonStep ==
    ASSUME MutexInv, WaitListInv', ClearPoison
    PROVE  MutexInv'
<1>1. TypeOK'
  BY DEF MutexInv, WaitListInv, TypeOK, ClearPoison
<1>2. PcMatches' /\ MutualExclusion' /\ NoLostWakeup'
  BY DEF MutexInv, PcMatches, MutualExclusion, Holders, NoLostWakeup, WakeupDue,
         ClearPoison, wvars
<1> QED BY <1>1, <1>2 DEF MutexInv

-----------------------------------------------------------------------------
(* Steps inside the wait list *)

\* A step of wait before the task sleeps.  Only ShouldBlock can create a sleeper,
\* and it does so only while the state is Contended.
LEMMA WaitStepStep ==
    ASSUME MutexInv, WaitListInv', NEW t \in Task, WaitStep(t)
    PROVE  MutexInv'
<1>0. TypeOK /\ WaitListTypeOK /\ PcMatches /\ MutualExclusion /\ NoLostWakeup
  BY DEF MutexInv, TypeOK
<1> USE <1>0
<1>1. pc[t] = "wait" /\ UNCHANGED mvars
  BY DEF WaitStep
<1>2. TypeOK' /\ MutualExclusion'
  BY <1>1 DEF MutexInv, WaitListInv, TypeOK, mvars, MutualExclusion, Holders
<1>3. PICK pos \in WaitPos : wpc' = [wpc EXCEPT ![t] = pos]
  BY DEF WaitStep, SuspendLock, CheckClosed, EmptyNew, ShouldBlock, Append_, Leave,
         Goto, WaitPos
<1>4. PcMatches'
  BY <1>1, <1>3 DEF PcMatches, mvars, WaitListTypeOK
<1>5. /\ wlist' # <<>> => wlist # <<>> \/ wpc[t] = "append"
      /\ pos = "append" => state = "Contended"
      /\ wpc[t] # "ending"
  BY <1>3 DEF WaitStep, SuspendLock, CheckClosed, EmptyNew, ShouldBlock, Append_,
              Leave, Goto, WaitListTypeOK
<1>6. NoLostWakeup'
  BY <1>1, <1>3, <1>5 DEF NoLostWakeup, WakeupDue, mvars, WaitListTypeOK
<1> QED BY <1>2, <1>4, <1>6 DEF MutexInv

\* Entering and leaving wait, and cancelling it.
LEMMA WaitEdgeStep ==
    ASSUME MutexInv, WaitListInv', NEW t \in Task,
           WaitCall(t) \/ WaitReturn(t) \/ WaitCancel(t)
    PROVE  MutexInv'
<1>0. TypeOK /\ WaitListTypeOK /\ PcMatches /\ MutualExclusion /\ NoLostWakeup
  BY DEF MutexInv, TypeOK
<1> USE <1>0
<1>1. CASE WaitCall(t)
  <2> USE <1>1 DEF WaitCall, WaitBegin, Goto, Jump
  <2>1. TypeOK'
    BY DEF MutexInv, WaitListInv, TypeOK, Pcs
  <2>2. PcMatches'
    BY DEF PcMatches, TypeOK, WaitListTypeOK, WaitPos, wvars
  <2>3. MutualExclusion'
    BY DEF MutualExclusion, Holders, HolderPos, TypeOK
  <2>4. NoLostWakeup'
    BY DEF NoLostWakeup, WakeupDue, TypeOK, WaitListTypeOK, wvars
  <2> QED BY <2>1, <2>2, <2>3, <2>4 DEF MutexInv
<1>2. CASE WaitReturn(t)
  <2> USE <1>2 DEF WaitReturn, WaitEnd, Goto, Jump
  <2>1. TypeOK'
    BY DEF MutexInv, WaitListInv, TypeOK, Pcs
  <2>2. PcMatches'
    BY DEF PcMatches, TypeOK, WaitListTypeOK
  <2>3. MutualExclusion'
    BY DEF MutualExclusion, Holders, HolderPos, TypeOK
  <2>4. NoLostWakeup'
    BY DEF NoLostWakeup, WakeupDue, TypeOK, WaitListTypeOK
  <2> QED BY <2>1, <2>2, <2>3, <2>4 DEF MutexInv
<1>3. CASE WaitCancel(t)
  <2>1. UNCHANGED mvars
    BY <1>3 DEF WaitCancel
  <2>2. /\ pc[t] = "wait" /\ wpc[t] # "ending"
        /\ wpc' = [wpc EXCEPT ![t] = "unlinked"] \/ wpc' = [wpc EXCEPT ![t] = "ending"]
        /\ wlist' # <<>> => wlist # <<>>
    <3>1. wpc[t] \in {"parked", "unlinked"}
      BY <1>3 DEF WaitCancel, CancelUnlink, CancelComplete
    <3>2. pc[t] = "wait"
      BY <3>1 DEF PcMatches
    <3>3. wlist = <<>> => t \notin Linked
      BY DEF Linked, Nodes
    <3> QED BY <1>3, <3>1, <3>2, <3>3 DEF WaitCancel, CancelUnlink, CancelComplete, Goto
  <2>3. TypeOK' /\ MutualExclusion'
    BY <2>1 DEF MutexInv, WaitListInv, TypeOK, mvars, MutualExclusion, Holders
  <2>4. PcMatches'
    BY <2>1, <2>2 DEF PcMatches, mvars, WaitListTypeOK, WaitPos
  <2>5. NoLostWakeup'
    BY <2>1, <2>2 DEF NoLostWakeup, WakeupDue, mvars, WaitListTypeOK
  <2> QED BY <2>3, <2>4, <2>5 DEF MutexInv
<1> QED BY <1>1, <1>2, <1>3

\* unlock's wake_one.  It may give up only when nobody sleeps (EmptyFlagSound),
\* and a popped sleeper is awake before wake_one returns.
LEMMA WakeStep ==
    ASSUME MutexInv, WaitListInv', NEW t \in Task, Wake(t)
    PROVE  MutexInv'
<1>0. /\ TypeOK /\ WaitListTypeOK /\ PcMatches /\ MutualExclusion /\ NoLostWakeup
      /\ EmptyFlagSound /\ CompletedOnce /\ TargetPos /\ SpinExclusive
  BY DEF MutexInv, TypeOK, WaitListInv
<1> USE <1>0
<1>1. /\ pc[t] = "wake"
      /\ pc' = [pc EXCEPT ![t] = IF wpc'[t] = "idle" THEN "idle" ELSE "wake"]
      /\ UNCHANGED <<state, failed, result, interrupted, entered>>
  BY DEF Wake, Jump
<1>2. TypeOK'
  BY <1>1 DEF MutexInv, WaitListInv, TypeOK, Pcs
<1>3. MutualExclusion'
  BY <1>1 DEF MutualExclusion, Holders, HolderPos, TypeOK
<1>4. CASE WakeLoad(t)
  <2> USE <1>4 DEF WakeLoad, Goto
  <2>1. PcMatches'
    BY <1>1 DEF PcMatches, TypeOK, WaitListTypeOK
  <2>2. NoLostWakeup'
    BY <1>1 DEF NoLostWakeup, WakeupDue, EmptyFlagSound, TypeOK, WaitListTypeOK
  <2> QED BY <1>2, <1>3, <2>1, <2>2 DEF MutexInv
<1>5. CASE WakePop(t)
  <2> USE <1>5 DEF WakePop, Goto
  <2>1. PcMatches'
    BY <1>1 DEF PcMatches, TypeOK, WaitListTypeOK
  <2>2. \A u \in Task : wpc[u] # "append"
    BY NoTaskAssumption DEF SpinExclusive, LockedPos
  <2>3. NoLostWakeup'
    BY <1>1, <2>2 DEF NoLostWakeup, WakeupDue, TypeOK, WaitListTypeOK
  <2> QED BY <1>2, <1>3, <2>1, <2>3 DEF MutexInv
<1>6. CASE WakeComplete(t)
  <2> DEFINE h == target[t]
  <2>1. /\ h \in Task /\ h # t /\ wpc[h] = "parked" /\ pc[h] = "wait"
    BY <1>6 DEF WakeComplete, TargetPos, CompletedOnce, WaitListTypeOK, PcMatches
  <2>2. /\ wpc'[h] = "ending" /\ wpc'[t] = "idle" /\ pc'[t] = "idle" /\ pc'[h] = "wait"
        /\ \A u \in Task \ {h, t} : wpc'[u] = wpc[u] /\ pc'[u] = pc[u]
    BY <1>1, <1>6, <2>1 DEF WakeComplete, TypeOK, WaitListTypeOK
  <2> HIDE DEF h
  <2>3. PcMatches'
    BY <1>1, <2>1, <2>2 DEF PcMatches, WaitPos
  <2>4. NoLostWakeup'
    BY <2>1, <2>2 DEF NoLostWakeup, WakeupDue
  <2> QED BY <1>2, <1>3, <2>3, <2>4 DEF MutexInv
<1> QED BY <1>4, <1>5, <1>6 DEF Wake

-----------------------------------------------------------------------------
(* The theorems *)

\* Every step of the mutex preserves the invariant.
LEMMA MutexStep == MutexInv /\ [Next]_vars => MutexInv'
<1> SUFFICES ASSUME MutexInv, [Next]_vars PROVE MutexInv'
  OBVIOUS
<1>1. CASE UNCHANGED vars
  BY <1>1 DEF vars, wvars, mvars, MutexInv, TypeOK, WaitListInv, WaitListTypeOK,
     SpinExclusive, TargetPos, NoDuplicates, CompletedOnce, NobodyForgotten,
     EmptyFlagSound, CountExact, Waiting, Linked, PcMatches, MutualExclusion, Holders, NoLostWakeup, WakeupDue
<1>2. CASE Next
  <2>1. WaitListInv'
    BY <1>2, MutexUsesWaitList, WaitListStep DEF MutexInv
  <2>2. ASSUME NEW t \in Task, Run(t) PROVE MutexInv'
    BY <2>1, <2>2, SpinLoadStep, SpinSwapStep, CheckInterruptStep, WaitEdgeStep,
       WaitStepStep, NewGuardStep, MapPoisonStep, FinishStep, UnlockStep, WakeStep
    DEF Run
  <2>3. ASSUME NEW t \in Task, Environment(t) PROVE MutexInv'
    BY <2>1, <2>3, LockStep, TryLockStep, WaitEdgeStep, InterruptStep, ClearInterruptStep
    DEF Environment
  <2> QED BY <1>2, <2>1, <2>2, <2>3, ClearPoisonStep DEF Next
<1> QED BY <1>1, <1>2

\* For every set of tasks, however they are interrupted and wherever they panic:
\* the types hold, and two guards of the mutex never exist together.
THEOREM MutexExclusive == Spec => [](TypeOK /\ MutualExclusion)
<1>1. MutexInv => TypeOK /\ MutualExclusion
  BY DEF MutexInv
<1> QED BY MutexInitInv, MutexStep, <1>1, PTL DEF Spec

\* For every set of tasks: while a task sleeps on a mutex that no holder is going
\* to hand over (the state is not Contended), a wake-up is under way, and every
\* sleeper is on the list or in a waker's hands.
THEOREM MutexWakes == Spec => [](NoLostWakeup /\ NobodyForgotten)
<1>1. MutexInv => NoLostWakeup /\ NobodyForgotten
  BY DEF MutexInv, WaitListInv
<1> QED BY MutexInitInv, MutexStep, <1>1, PTL DEF Spec

-----------------------------------------------------------------------------
(* Refinement *)

\* The owner is the one task that holds the lock word.
LEMMA OwnerIs ==
    ASSUME MutexInv, NEW t \in Task
    PROVE  /\ pc[t] \in HolderPos <=> Owner = t
           /\ Owner = NoTask <=> state = "Unlocked"
           /\ Owner \in Task \cup {NoTask}
<1>1. MutualExclusion
  BY DEF MutexInv
<1>2. CASE Holders = {}
  BY <1>1, <1>2, NoTaskAssumption DEF Owner, Holders, MutualExclusion
<1>3. CASE Holders # {}
  BY <1>1, <1>3, NoTaskAssumption DEF Owner, Holders, MutualExclusion
<1> QED BY <1>2, <1>3

\* What the refinement mapping sees of a step is which tasks hold the lock word,
\* the poison flag and the verdicts.
LEMMA OwnerStep ==
    ASSUME MutexInv, MutexInv', NEW t \in Task,
           \A u \in Task \ {t} : pc'[u] \in HolderPos <=> pc[u] \in HolderPos
    PROVE  /\ pc[t] \in HolderPos /\ pc'[t] \in HolderPos => Owner' = Owner
           /\ pc[t] \notin HolderPos /\ pc'[t] \notin HolderPos => Owner' = Owner
           /\ pc[t] \in HolderPos /\ pc'[t] \notin HolderPos => Owner = t /\ Owner' = NoTask
           /\ pc[t] \notin HolderPos /\ pc'[t] \in HolderPos => Owner' = t /\ state' # "Unlocked"
<1>1. MutualExclusion /\ MutualExclusion'
  BY DEF MutexInv
<1>2. \A u \in Task : pc[u] \in HolderPos <=> Owner = u
  BY OwnerIs
<1>3. \A u \in Task : pc'[u] \in HolderPos <=> Owner' = u
  <2>1. CASE Holders' = {}
    BY <1>1, <2>1, NoTaskAssumption DEF Owner, Holders, MutualExclusion
  <2>2. CASE Holders' # {}
    BY <1>1, <2>2, NoTaskAssumption DEF Owner, Holders, MutualExclusion
  <2> QED BY <2>1, <2>2
<1>4. Owner \in Task \cup {NoTask} /\ Owner' \in Task \cup {NoTask}
  <2>1. Holders' # {} => Owner' \in Task
    BY DEF Owner, Holders
  <2>2. Holders # {} => Owner \in Task
    BY DEF Owner, Holders
  <2>3. Holders' = {} => Owner' = NoTask
    BY DEF Owner
  <2> QED BY <2>1, <2>2, <2>3 DEF Owner
<1>5. state' = "Unlocked" => \A u \in Task : pc'[u] \notin HolderPos
  BY <1>1 DEF MutualExclusion, Holders
<1> QED BY <1>2, <1>3, <1>4, <1>5, NoTaskAssumption

\* A step that leaves the holders, their verdicts and the flag alone is invisible.
LEMMA Invisible ==
    ASSUME MutexInv, MutexInv', NEW t \in Task, NEW pos,
           pc' = [pc EXCEPT ![t] = pos], result' = result, failed' = failed,
           \/ pc[t] \notin HolderPos /\ pos \notin HolderPos
           \/ pc[t] \in {"guard", "map"} /\ pos \in {"guard", "map"}
           \/ pc[t] \in {"cs", "drop"} /\ pos \in {"cs", "drop"}
    PROVE  UNCHANGED <<Owner, failed, Verdict>>
<1>1. pc \in [Task -> Pcs]
  BY DEF MutexInv, TypeOK
<1>2. Owner' = Owner
  BY <1>1, OwnerStep DEF HolderPos
<1>3. Verdict' = Verdict
  BY <1>1 DEF Verdict, HolderPos
<1> QED BY <1>2, <1>3

\* Taking the lock word is Acquire.
LEMMA Acquires ==
    ASSUME MutexInv, MutexInv', NEW t \in Task,
           state = "Unlocked", pc[t] \notin HolderPos,
           pc' = [pc EXCEPT ![t] = "guard"], result' = result, failed' = failed
    PROVE  Abstract!Acquire(t)
<1>1. pc \in [Task -> Pcs]
  BY DEF MutexInv, TypeOK
<1>2. Owner = NoTask
  BY OwnerIs
<1>3. Owner' = t
  BY <1>1, OwnerStep DEF HolderPos
<1>4. Verdict' = Verdict
  BY <1>1 DEF Verdict, HolderPos
<1> QED BY <1>2, <1>3, <1>4 DEF Abstract!Acquire

\* Every step of the mutex is a step of the abstract mutex or is invisible to it.
LEMMA RefinementStep ==
    ASSUME MutexInv, MutexInv', Next
    PROVE  Abstract!Next \/ UNCHANGED <<Owner, failed, Verdict>>
<1>0. /\ pc \in [Task -> Pcs] /\ result \in [Task -> {"None", "Ok", "Poisoned"}]
      /\ failed \in BOOLEAN /\ PcMatches
  BY DEF MutexInv, TypeOK
<1> USE <1>0 DEF Jump
<1>1. ASSUME NEW t \in Task, Lock(t) \/ TryLock(t) \/ SpinSwap(t)
      PROVE  Abstract!Acquire(t) \/ UNCHANGED <<Owner, failed, Verdict>>
  <2>1. CASE state = "Unlocked"
    BY <1>1, <2>1, Acquires DEF Lock, TryLock, SpinSwap, HolderPos
  <2>2. CASE state # "Unlocked"
    <3>1. PICK pos \in {"spin", "check"} : pc' = [pc EXCEPT ![t] = pos]
      BY <1>1, <2>2 DEF Lock, TryLock, SpinSwap
    <3> QED BY <1>1, <2>2, <3>1, Invisible DEF Lock, TryLock, SpinSwap, HolderPos
  <2> QED BY <2>1, <2>2
<1>2. ASSUME NEW t \in Task,
             SpinLoad(t) \/ CheckInterrupt(t) \/ WaitCall(t) \/ WaitReturn(t) \/ Wake(t)
      PROVE  UNCHANGED <<Owner, failed, Verdict>>
  <2>1. PICK pos \in {"idle", "spin", "check", "swap", "wait", "wake"} :
            pc' = [pc EXCEPT ![t] = pos]
    BY <1>2 DEF SpinLoad, CheckInterrupt, WaitCall, WaitReturn, Wake
  <2>2. pc[t] \notin HolderPos /\ UNCHANGED <<result, failed>>
    BY <1>2 DEF SpinLoad, CheckInterrupt, WaitCall, WaitReturn, Wake, HolderPos
  <2> QED BY <2>1, <2>2, Invisible DEF HolderPos
<1>3. ASSUME NEW t \in Task,
             WaitStep(t) \/ WaitCancel(t) \/ Interrupt(t) \/ ClearInterrupt(t)
      PROVE  UNCHANGED <<Owner, failed, Verdict>>
  <2>1. UNCHANGED <<pc, result, failed>>
    BY <1>3 DEF WaitStep, WaitCancel, Interrupt, ClearInterrupt, mvars
  <2> QED BY <2>1 DEF Owner, Holders, Verdict
<1>4. ASSUME NEW t \in Task, NEW p \in BOOLEAN, NewGuard(t, p)
      PROVE  UNCHANGED <<Owner, failed, Verdict>>
  BY <1>4, Invisible DEF NewGuard, HolderPos
<1>5. ASSUME NEW t \in Task, MapPoison(t) PROVE Abstract!Return(t)
  <2>1. Owner = t
    BY <1>5, OwnerIs DEF MapPoison, HolderPos
  <2>2. Owner' = Owner
    BY <1>5, OwnerStep DEF MapPoison, HolderPos
  <2>3. /\ Verdict[t] = "None"
        /\ Verdict' = [Verdict EXCEPT ![t] = IF failed THEN "Poisoned" ELSE "Ok"]
    BY <1>5 DEF MapPoison, Verdict
  <2> QED BY <1>5, <2>1, <2>2, <2>3 DEF Abstract!Return, MapPoison
<1>6. ASSUME NEW t \in Task, NEW p \in BOOLEAN, Finish(t, p)
      PROVE  Abstract!Poison(t) \/ UNCHANGED <<Owner, failed, Verdict>>
  <2>1. Owner = t /\ pc[t] = "cs"
    BY <1>6, OwnerIs DEF Finish, HolderPos
  <2>2. Owner' = Owner
    BY <1>6, OwnerStep DEF Finish, HolderPos
  <2>3. Verdict[t] # "None" /\ Verdict' = Verdict
    BY <1>6, <2>1 DEF Finish, Verdict, PcMatches
  <2>4. failed' = failed \/ failed' = TRUE
    BY <1>6 DEF Finish
  <2> QED BY <2>1, <2>2, <2>3, <2>4 DEF Abstract!Poison
<1>7. ASSUME NEW t \in Task, Unlock(t) PROVE Abstract!Release(t)
  <2>1. PICK pos \in {"wake", "idle"} : pc' = [pc EXCEPT ![t] = pos]
    BY <1>7 DEF Unlock
  <2>2. Owner = t /\ Owner' = NoTask
    BY <1>7, <2>1, OwnerStep DEF Unlock, HolderPos
  <2>3. Verdict[t] # "None" /\ Verdict' = [Verdict EXCEPT ![t] = "None"]
    BY <1>7, <2>1 DEF Unlock, Verdict, PcMatches
  <2> QED BY <1>7, <2>2, <2>3 DEF Abstract!Release, Unlock
<1>8. CASE ClearPoison
  <2>1. UNCHANGED <<pc, result>> /\ failed' = FALSE
    BY <1>8 DEF ClearPoison
  <2>2. UNCHANGED <<Owner, Verdict>>
    BY <2>1 DEF Owner, Holders, Verdict
  <2> QED BY <2>1, <2>2 DEF Abstract!ClearPoison, Abstract!Next
<1> QED
  BY <1>1, <1>2, <1>3, <1>4, <1>5, <1>6, <1>7, <1>8
  DEF Next, Run, Environment, Abstract!Next

\* For every set of tasks the mutex implements AbstractMutex: one owner at a time,
\* poison stored before the value changes hands, and every owner told of it.
THEOREM MutexRefines == Spec => AbstractSpec
<1>1. Init => Abstract!Init
  <2> SUFFICES ASSUME Init PROVE Abstract!Init
    OBVIOUS
  <2>1. Owner = NoTask /\ Verdict = [t \in Task |-> "None"]
    BY DEF Init, Owner, Holders, HolderPos, Verdict
  <2> QED BY <2>1 DEF Init, Abstract!Init
<1>2. MutexInv /\ MutexInv' /\ [Next]_vars => [Abstract!Next]_(Abstract!avars)
  <2> SUFFICES ASSUME MutexInv, MutexInv', [Next]_vars
               PROVE  [Abstract!Next]_(Abstract!avars)
    OBVIOUS
  <2>1. CASE UNCHANGED vars
    BY <2>1 DEF vars, mvars, Abstract!avars, Owner, Holders, Verdict
  <2> QED BY <2>1, RefinementStep DEF Abstract!avars
<1> QED BY MutexInitInv, MutexStep, <1>1, <1>2, PTL DEF Spec, AbstractSpec, Abstract!Spec
=============================================================================
