---------------------- MODULE ThreadSafeWaitListProofs ----------------------
(***************************************************************************)
(* Proofs about ThreadSafeWaitList for every set of tasks: WaitListInv is  *)
(* inductive for the list's own steps, whoever calls them.                 *)
(***************************************************************************)
EXTENDS ThreadSafeWaitList, FiniteSetTheorems, TLAPS

(* The list operations. *)

\* append puts a new node on the list and keeps the others.
LEMMA AppendNodes ==
    ASSUME NEW S, NEW s \in Seq(S), NEW t \in S, Distinct(s), t \notin Nodes(s)
    PROVE  /\ Append(s, t) \in Seq(S)
           /\ Nodes(Append(s, t)) = Nodes(s) \cup {t}
           /\ Distinct(Append(s, t))
           /\ Append(s, t) # <<>>
<1>1. Append(s, t) \in Seq(S) /\ Len(Append(s, t)) = Len(s) + 1
  OBVIOUS
<1>2. \A i \in 1..Len(s) : Append(s, t)[i] = s[i]
  OBVIOUS
<1>3. Append(s, t)[Len(s) + 1] = t
  OBVIOUS
<1>4. Nodes(Append(s, t)) = Nodes(s) \cup {t}
  BY <1>1, <1>2, <1>3 DEF Nodes
<1>5. Distinct(Append(s, t))
  BY <1>1, <1>2, <1>3 DEF Distinct, Nodes
<1> QED BY <1>1, <1>4, <1>5

\* pop_front takes exactly the head off the list.
LEMMA TailNodes ==
    ASSUME NEW S, NEW s \in Seq(S), s # <<>>, Distinct(s)
    PROVE  /\ Tail(s) \in Seq(S)
           /\ Head(s) \in S
           /\ Head(s) \in Nodes(s)
           /\ Nodes(Tail(s)) = Nodes(s) \ {Head(s)}
           /\ Distinct(Tail(s))
<1>1. /\ Tail(s) \in Seq(S) /\ Head(s) = s[1] /\ Head(s) \in S
      /\ Len(s) \in Nat /\ Len(s) > 0 /\ Len(Tail(s)) = Len(s) - 1
  OBVIOUS
<1>2. \A i \in 1..(Len(s) - 1) : Tail(s)[i] = s[i + 1]
  OBVIOUS
<1>3. Distinct(Tail(s))
  BY <1>1, <1>2 DEF Distinct
<1>4. Nodes(Tail(s)) \subseteq Nodes(s) \ {Head(s)}
  BY <1>1, <1>2 DEF Nodes, Distinct
<1>5. ASSUME NEW x \in Nodes(s) \ {Head(s)} PROVE x \in Nodes(Tail(s))
  <2>1. PICK i \in 1..Len(s) : x = s[i]
    BY DEF Nodes
  <2>2. i # 1 /\ (i - 1) \in 1..Len(Tail(s)) /\ Tail(s)[i - 1] = s[i]
    BY <1>1, <1>2, <2>1
  <2> QED BY <2>1, <2>2 DEF Nodes
<1> QED BY <1>1, <1>3, <1>4, <1>5 DEF Nodes

\* unlink takes exactly the node t out of the list.
LEMMA UnlinkNodes ==
    ASSUME NEW S, NEW s \in Seq(S), NEW t \in Nodes(s), Distinct(s)
    PROVE  /\ Unlink(s, t) \in Seq(S)
           /\ Nodes(Unlink(s, t)) = Nodes(s) \ {t}
           /\ Distinct(Unlink(s, t))
<1> DEFINE at == CHOOSE i \in 1..Len(s) : s[i] = t
           u == Unlink(s, t)
<1>1. at \in 1..Len(s) /\ s[at] = t /\ Len(s) \in Nat
  BY DEF Nodes
<1>2. u = [i \in 1..(Len(s) - 1) |-> IF i < at THEN s[i] ELSE s[i + 1]]
  BY DEF Unlink
<1> HIDE DEF at, u
<1>3. \A i \in 1..(Len(s) - 1) : u[i] \in S
  BY <1>1, <1>2
<1>4. u \in Seq(S) /\ Len(u) = Len(s) - 1
  BY <1>1, <1>2, <1>3
<1>5. \A i \in 1..Len(u) : u[i] = IF i < at THEN s[i] ELSE s[i + 1]
  BY <1>2, <1>4
<1>6. Distinct(u)
  BY <1>1, <1>4, <1>5 DEF Distinct
<1>7. Nodes(u) \subseteq Nodes(s) \ {t}
  BY <1>1, <1>4, <1>5 DEF Nodes, Distinct
<1>8. ASSUME NEW x \in Nodes(s) \ {t} PROVE x \in Nodes(u)
  <2>1. PICK i \in 1..Len(s) : x = s[i]
    BY DEF Nodes
  <2>2. i # at
    BY <1>1, <2>1
  <2>3. CASE i < at
    BY <1>1, <1>4, <1>5, <2>1, <2>3 DEF Nodes
  <2>4. CASE i > at
    <3>1. (i - 1) \in 1..Len(u) /\ u[i - 1] = s[i]
      BY <1>1, <1>4, <1>5, <2>1, <2>4
    <3> QED BY <2>1, <3>1 DEF Nodes
  <2> QED BY <1>1, <2>1, <2>2, <2>3, <2>4
<1> QED BY <1>4, <1>6, <1>7, <1>8 DEF u

-----------------------------------------------------------------------------
(* The counter *)

\* A counter that is exact is a natural number.
LEMMA CountNat == CountExact => count \in Nat
<1>1. Waiting \subseteq Task
  BY DEF Waiting
<1>2. IsFiniteSet(Waiting)
  BY <1>1, TaskAssumption, FS_Subset
<1> QED BY <1>2, FS_CardinalityType DEF CountExact

\* The counter stays exact when one task moves and the counter follows it.
LEMMA CountMove ==
    ASSUME CountExact, NEW t \in Task, NEW pos, Goto(t, pos),
           wpc \in [Task -> {"idle"} \cup WaitPos \cup WakePos],
           \/ count' = count /\ (pos \in WaitPos <=> wpc[t] \in WaitPos)
           \/ count' = count + 1 /\ wpc[t] \notin WaitPos /\ pos \in WaitPos
           \/ count' = count - 1 /\ wpc[t] \in WaitPos /\ pos \notin WaitPos
    PROVE  CountExact' /\ count' \in Nat
<1>1. IsFiniteSet(Waiting) /\ IsFiniteSet(Waiting')
  <2>1. Waiting \subseteq Task /\ Waiting' \subseteq Task
    BY DEF Waiting
  <2> QED BY <2>1, TaskAssumption, FS_Subset
<1>2. count = Cardinality(Waiting) /\ count \in Nat
  BY CountNat DEF CountExact
<1>3. \A u \in Task : wpc'[u] = IF u = t THEN pos ELSE wpc[u]
  BY DEF Goto
<1>4. CASE count' = count /\ (pos \in WaitPos <=> wpc[t] \in WaitPos)
  <2>1. Waiting' = Waiting
    BY <1>3, <1>4 DEF Waiting
  <2> QED BY <1>2, <1>4, <2>1 DEF CountExact
<1>5. CASE count' = count + 1 /\ wpc[t] \notin WaitPos /\ pos \in WaitPos
  <2>1. Waiting' = Waiting \cup {t} /\ t \notin Waiting
    BY <1>3, <1>5 DEF Waiting
  <2>2. Cardinality(Waiting') = Cardinality(Waiting) + 1
    BY <1>1, <2>1, FS_AddElement
  <2> QED BY <1>2, <1>5, <2>2 DEF CountExact
<1>6. CASE count' = count - 1 /\ wpc[t] \in WaitPos /\ pos \notin WaitPos
  <2>1. Waiting' = Waiting \ {t} /\ t \in Waiting
    BY <1>3, <1>6 DEF Waiting
  <2>2. Cardinality(Waiting') = Cardinality(Waiting) - 1
    BY <1>1, <2>1, FS_RemoveElement
  <2>3. Cardinality(Waiting') \in Nat
    BY <1>1, FS_CardinalityType
  <2> QED BY <1>2, <1>6, <2>2, <2>3 DEF CountExact
<1> QED BY <1>4, <1>5, <1>6

-----------------------------------------------------------------------------
(* Initial states *)

\* A new list satisfies the invariant.
LEMMA WaitListInitInv == WaitListInit => WaitListInv
<1> SUFFICES ASSUME WaitListInit PROVE WaitListInv
  OBVIOUS
<1>1. Nodes(<<>>) = {} /\ Distinct(<<>>)
  BY DEF Nodes, Distinct
<1>2. WaitListTypeOK
  <2>1. wlist \in Seq(Task) /\ count \in Nat
    BY DEF WaitListInit
  <2>2. wpc \in [Task -> {"idle"} \cup WaitPos \cup WakePos]
    BY DEF WaitListInit
  <2> QED BY <2>1, <2>2 DEF WaitListInit, WaitListTypeOK
<1>3. CountExact
  <2>1. Waiting = {}
    BY DEF WaitListInit, Waiting, WaitPos
  <2> QED BY <2>1, FS_EmptySet DEF CountExact, WaitListInit
<1> QED
  BY <1>1, <1>2, <1>3, NoTaskAssumption
  DEF WaitListInit, WaitListInv, SpinExclusive, TargetPos, NoDuplicates,
      CompletedOnce, NobodyForgotten, EmptyFlagSound, Linked, LockedPos

-----------------------------------------------------------------------------
(* Steps that neither touch the list nor wake anyone *)

\* A task that only moves between positions, taking or releasing the SpinMutex
\* as the positions require, keeps the invariant.
LEMMA MoveStep ==
    ASSUME WaitListInv, NEW t \in Task, NEW pos \in {"idle"} \cup WaitPos \cup WakePos,
           wpc[t] \notin {"parked", "complete", "all_complete"},
           pos \notin {"parked", "complete", "all_complete"},
           Goto(t, pos),
           wlist' = wlist, target' = target, closed' \in BOOLEAN,
           \/ count' = count /\ (pos \in WaitPos <=> wpc[t] \in WaitPos)
           \/ count' = count + 1 /\ wpc[t] \notin WaitPos /\ pos \in WaitPos
           \/ count' = count - 1 /\ wpc[t] \in WaitPos /\ pos \notin WaitPos,
           wres' \in [Task -> {"None", "Ok", "Cancelled", "Closed"}],
           spin' \in Task \cup {NoTask}, empty' \in BOOLEAN,
           \/ spin' = spin /\ (pos \in LockedPos <=> wpc[t] \in LockedPos)
           \/ spin = NoTask /\ spin' = t /\ pos \in LockedPos
           \/ spin = t /\ spin' = NoTask /\ pos \notin LockedPos,
           \/ empty' = empty /\ (pos \in {"decide", "append", "leave"} =>
                                    wpc[t] \in {"decide", "append", "leave"})
           \/ empty' = FALSE
           \/ wpc[t] = "leave" /\ pos = "ending" /\ empty' = (wlist = <<>>)
    PROVE  WaitListInv'
<1> USE NoTaskAssumption
<1>1. wpc' = [wpc EXCEPT ![t] = pos] /\ wpc \in [Task -> {"idle"} \cup WaitPos \cup WakePos]
  BY DEF Goto, WaitListInv, WaitListTypeOK
<1>1a. CountExact' /\ count' \in Nat
  BY <1>1, CountMove DEF WaitListInv
<1>2. WaitListTypeOK'
  BY <1>1, <1>1a DEF WaitListInv, WaitListTypeOK
<1>3. SpinExclusive'
  BY <1>1 DEF WaitListInv, SpinExclusive, WaitListTypeOK
<1>4. TargetPos'
  BY <1>1 DEF WaitListInv, TargetPos
<1>5. NoDuplicates' /\ Linked' = Linked
  BY DEF WaitListInv, NoDuplicates, Linked
<1>6. CompletedOnce'
  BY <1>1, <1>5 DEF WaitListInv, CompletedOnce, WaitListTypeOK, Linked, Nodes
<1>7. NobodyForgotten'
  BY <1>1, <1>5 DEF WaitListInv, NobodyForgotten
<1>8. EmptyFlagSound'
  <2>1. CASE wpc[t] = "leave" /\ pos = "ending" /\ empty' = (wlist = <<>>)
    <3>1. \A u \in Task : wpc[u] \in LockedPos => u = t
      BY <2>1 DEF WaitListInv, SpinExclusive, LockedPos
    <3> QED BY <1>1, <2>1, <3>1 DEF EmptyFlagSound, LockedPos
  <2> QED BY <1>1, <2>1 DEF WaitListInv, EmptyFlagSound
<1> QED
  BY <1>2, <1>3, <1>4, <1>5, <1>6, <1>7, <1>8, <1>1a DEF WaitListInv

\* The steps of wait before the task is on the list and after it was completed.
LEMMA WaitMoves ==
    ASSUME WaitListInv, NEW t \in Task, NEW b \in BOOLEAN,
           \/ WaitBegin(t) \/ SuspendLock(t) \/ CheckClosed(t) \/ EmptyNew(t)
           \/ ShouldBlock(t, b) \/ Leave(t) \/ CancelComplete(t) \/ WaitEnd(t)
    PROVE  WaitListInv'
<1> USE NoTaskAssumption DEF WaitPos, WakePos, LockedPos
<1>0. /\ WaitListTypeOK /\ SpinExclusive
  BY DEF WaitListInv
<1>1. CASE WaitBegin(t)
  <2>1. count' = count + 1
    BY <1>1 DEF WaitBegin
  <2>2. UNCHANGED <<wlist, spin, empty, closed, wres, target>>
        /\ wpc[t] = "idle" /\ Goto(t, "lock")
    BY <1>1 DEF WaitBegin
  <2> QED BY <1>0, <2>1, <2>2, MoveStep DEF WaitListTypeOK
<1>2. CASE SuspendLock(t)
  BY <1>0, <1>2, MoveStep DEF SuspendLock, WaitListTypeOK
<1>3. CASE CheckClosed(t)
  BY <1>0, <1>3, MoveStep DEF CheckClosed, WaitListTypeOK, SpinExclusive
<1>4. CASE EmptyNew(t)
  BY <1>0, <1>4, MoveStep DEF EmptyNew, WaitListTypeOK
<1>5. CASE ShouldBlock(t, b)
  BY <1>0, <1>5, MoveStep DEF ShouldBlock, WaitListTypeOK
<1>6. CASE Leave(t)
  BY <1>0, <1>6, MoveStep DEF Leave, WaitListTypeOK, SpinExclusive
<1>7. CASE CancelComplete(t)
  BY <1>0, <1>7, MoveStep DEF CancelComplete, WaitListTypeOK
<1>8. CASE WaitEnd(t)
  <2>1. count' = count - 1
    BY <1>8 DEF WaitEnd
  <2>2. /\ UNCHANGED <<wlist, spin, empty, closed, target>>
        /\ wpc[t] = "ending" /\ Goto(t, "idle")
        /\ wres' = [wres EXCEPT ![t] = "None"]
    BY <1>8 DEF WaitEnd
  <2> QED BY <1>0, <2>1, <2>2, MoveStep DEF WaitListTypeOK
<1> QED BY <1>1, <1>2, <1>3, <1>4, <1>5, <1>6, <1>7, <1>8

-----------------------------------------------------------------------------
(* Steps that change the list *)

\* Going to sleep: the task is on the list from now on.
LEMMA AppendStep ==
    ASSUME WaitListInv, NEW t \in Task, Append_(t)
    PROVE  WaitListInv'
<1> USE NoTaskAssumption DEF Append_, Goto
<1>0. /\ WaitListTypeOK /\ SpinExclusive /\ TargetPos /\ NoDuplicates
      /\ CompletedOnce /\ NobodyForgotten /\ EmptyFlagSound /\ CountExact
  BY DEF WaitListInv
<1>1. spin = t /\ t \notin Linked /\ ~empty
  BY <1>0 DEF SpinExclusive, CompletedOnce, EmptyFlagSound, LockedPos
<1>2. /\ wlist' \in Seq(Task) /\ Linked' = Linked \cup {t}
      /\ NoDuplicates' /\ wlist' # <<>>
  BY <1>0, <1>1, AppendNodes DEF WaitListTypeOK, NoDuplicates, Linked
<1>3. WaitListTypeOK'
  BY <1>0, <1>2 DEF WaitListTypeOK, WaitPos
<1>4. SpinExclusive'
  BY <1>0, <1>1 DEF SpinExclusive, LockedPos, WaitListTypeOK
<1>5. TargetPos'
  BY <1>0 DEF TargetPos, WaitListTypeOK
<1>6. CompletedOnce'
  BY <1>0, <1>2 DEF CompletedOnce, WaitListTypeOK
<1>7. NobodyForgotten'
  BY <1>0, <1>2 DEF NobodyForgotten, WaitListTypeOK
<1>8. EmptyFlagSound'
  BY <1>0, <1>1 DEF EmptyFlagSound, WaitListTypeOK
<1>9. CountExact'
  BY <1>0, CountMove DEF WaitListTypeOK, WaitPos
<1> QED
  BY <1>2, <1>3, <1>4, <1>5, <1>6, <1>7, <1>8, <1>9 DEF WaitListInv

\* A cancelled task takes its own node off the list.
LEMMA CancelStep ==
    ASSUME WaitListInv, NEW t \in Task, CancelUnlink(t)
    PROVE  WaitListInv'
<1> USE NoTaskAssumption DEF CancelUnlink, Goto
<1>0. /\ WaitListTypeOK /\ SpinExclusive /\ TargetPos /\ NoDuplicates
      /\ CompletedOnce /\ NobodyForgotten /\ EmptyFlagSound /\ CountExact
  BY DEF WaitListInv
<1>1. /\ wlist' \in Seq(Task) /\ Linked' = Linked \ {t} /\ NoDuplicates'
  BY <1>0, UnlinkNodes DEF WaitListTypeOK, NoDuplicates, Linked
<1>2. WaitListTypeOK'
  BY <1>0, <1>1 DEF WaitListTypeOK, WaitPos
<1>3. SpinExclusive'
  BY <1>0 DEF SpinExclusive, LockedPos, WaitListTypeOK
<1>4. TargetPos'
  BY <1>0 DEF TargetPos, WaitListTypeOK
<1>5. CompletedOnce'
  BY <1>0, <1>1 DEF CompletedOnce, WaitListTypeOK
<1>6. NobodyForgotten'
  BY <1>0, <1>1 DEF NobodyForgotten, WaitListTypeOK
<1>7. wlist # <<>>
  BY <1>0 DEF Linked, Nodes
<1>8. EmptyFlagSound'
  BY <1>0, <1>7 DEF EmptyFlagSound, WaitListTypeOK
<1>9. CountExact'
  BY <1>0, CountMove DEF WaitListTypeOK, WaitPos
<1> QED
  BY <1>1, <1>2, <1>3, <1>4, <1>5, <1>6, <1>8, <1>9 DEF WaitListInv

\* Popping moves the head of the list into the waker's hands.
LEMMA PopStep ==
    ASSUME WaitListInv, NEW t \in Task,
           WakePop(t) \/ WakeAllPop(t), wlist # <<>>
    PROVE  WaitListInv'
<1> USE NoTaskAssumption
<1>0. /\ WaitListTypeOK /\ SpinExclusive /\ TargetPos /\ NoDuplicates
      /\ CompletedOnce /\ NobodyForgotten /\ EmptyFlagSound /\ CountExact
  BY DEF WaitListInv
<1> DEFINE h == Head(wlist)
<1>1. /\ wlist' = Tail(wlist)
      /\ target' = [target EXCEPT ![t] = h]
      /\ UNCHANGED <<spin, empty, closed, count, wres>>
      /\ \/ wpc[t] = "pop" /\ wpc' = [wpc EXCEPT ![t] = "complete"]
         \/ wpc[t] = "all_pop" /\ wpc' = [wpc EXCEPT ![t] = "all_complete"]
  BY DEF WakePop, WakeAllPop, Goto
<1>2. /\ wlist' \in Seq(Task) /\ Linked' = Linked \ {h} /\ NoDuplicates'
      /\ h \in Task /\ h \in Linked
  BY <1>0, <1>1, TailNodes DEF WaitListTypeOK, NoDuplicates, Linked
<1> HIDE DEF h
<1>3. h # t /\ wpc[h] = "parked"
  BY <1>0, <1>1, <1>2 DEF CompletedOnce
<1>4. WaitListTypeOK'
  BY <1>0, <1>1, <1>2 DEF WaitListTypeOK, WakePos
<1>5. SpinExclusive'
  BY <1>0, <1>1 DEF SpinExclusive, LockedPos, WaitListTypeOK
<1>6. TargetPos'
  BY <1>0, <1>1, <1>2 DEF TargetPos, WaitListTypeOK
<1>7. target[t] = NoTask
  BY <1>0, <1>1 DEF TargetPos
<1>8. CompletedOnce'
  <2>0. Linked \subseteq Task
    BY <1>0 DEF WaitListTypeOK, Linked, Nodes
  <2>1. \A x \in Linked' : wpc'[x] = "parked"
    BY <1>0, <1>1, <1>2, <2>0 DEF CompletedOnce, WaitListTypeOK
  <2>2. ASSUME NEW u \in Task, target'[u] # NoTask
        PROVE  /\ wpc'[target'[u]] = "parked"
               /\ target'[u] \notin Linked'
               /\ \A v \in Task : target'[v] = target'[u] => v = u
    <3>1. CASE u = t
      BY <1>0, <1>1, <1>2, <1>3, <3>1 DEF CompletedOnce, WaitListTypeOK
    <3>2. CASE u # t
      BY <1>0, <1>1, <1>2, <1>3, <2>2, <3>2 DEF CompletedOnce, WaitListTypeOK
    <3> QED BY <3>1, <3>2
  <2> QED BY <2>1, <2>2 DEF CompletedOnce
<1>9. NobodyForgotten'
  <2> SUFFICES ASSUME NEW x \in Task, wpc'[x] = "parked", x \notin Linked'
               PROVE  \E u \in Task : target'[u] = x
    BY DEF NobodyForgotten
  <2>1. wpc[x] = "parked"
    BY <1>0, <1>1 DEF WaitListTypeOK
  <2>2. CASE x = h
    BY <1>0, <1>1, <2>2 DEF WaitListTypeOK
  <2>3. CASE x # h
    BY <1>0, <1>1, <1>2, <1>7, <2>1, <2>3 DEF NobodyForgotten, WaitListTypeOK
  <2> QED BY <2>2, <2>3
<1>10. EmptyFlagSound'
  BY <1>0, <1>1 DEF EmptyFlagSound, WaitListTypeOK
<1>11. CountExact'
  <2>1. Waiting' = Waiting
    BY <1>0, <1>1 DEF Waiting, WaitPos, WaitListTypeOK
  <2> QED BY <1>0, <1>1, <2>1 DEF CountExact
<1> QED
  BY <1>2, <1>4, <1>5, <1>6, <1>8, <1>9, <1>10, <1>11 DEF WaitListInv

\* Completing a popped waiter hands its task the result, exactly once.
LEMMA CompleteStep ==
    ASSUME WaitListInv, NEW t \in Task, WakeComplete(t) \/ WakeAllComplete(t)
    PROVE  WaitListInv'
<1> USE NoTaskAssumption
<1>0. /\ WaitListTypeOK /\ SpinExclusive /\ TargetPos /\ NoDuplicates
      /\ CompletedOnce /\ NobodyForgotten /\ EmptyFlagSound /\ CountExact
  BY DEF WaitListInv
<1> DEFINE h == target[t]
<1>1. PICK pos \in {"idle", "all_pop"} :
      /\ wpc' = [wpc EXCEPT ![h] = "ending", ![t] = pos]
      /\ target' = [target EXCEPT ![t] = NoTask]
      /\ wres' = [wres EXCEPT ![h] = "Ok"]
      /\ UNCHANGED <<wlist, empty, closed, count>>
      /\ \/ wpc[t] = "complete" /\ pos = "idle" /\ spin' = spin
         \/ wpc[t] = "all_complete" /\ pos = "idle" /\ spin' = NoTask
         \/ wpc[t] = "all_complete" /\ pos = "all_pop" /\ spin' = spin
  BY DEF WakeComplete, WakeAllComplete
<1>2. /\ h \in Task /\ h # t /\ wpc[h] = "parked" /\ h \notin Linked
      /\ \A v \in Task : target[v] = h => v = t
  BY <1>0, <1>1 DEF TargetPos, CompletedOnce, WaitListTypeOK
<1> HIDE DEF h
<1>3. /\ wpc'[h] = "ending" /\ wpc'[t] = pos
      /\ \A u \in Task \ {h, t} : wpc'[u] = wpc[u]
      /\ target'[t] = NoTask
      /\ \A u \in Task \ {t} : target'[u] = target[u]
  BY <1>0, <1>1, <1>2 DEF WaitListTypeOK
<1>4. Linked' = Linked /\ NoDuplicates' /\ Linked \subseteq Task
  BY <1>0, <1>1 DEF Linked, NoDuplicates, WaitListTypeOK, Nodes
<1>5. WaitListTypeOK'
  BY <1>0, <1>1, <1>2 DEF WaitListTypeOK, WaitPos, WakePos
<1>6. SpinExclusive'
  BY <1>0, <1>1, <1>2, <1>3 DEF SpinExclusive, LockedPos
<1>7. TargetPos'
  BY <1>0, <1>1, <1>2, <1>3 DEF TargetPos
<1>8. CompletedOnce'
  <2>1. \A x \in Linked' : wpc'[x] = "parked"
    BY <1>0, <1>1, <1>2, <1>3, <1>4 DEF CompletedOnce
  <2>2. ASSUME NEW u \in Task, target'[u] # NoTask
        PROVE  /\ wpc'[target'[u]] = "parked"
               /\ target'[u] \notin Linked'
               /\ \A v \in Task : target'[v] = target'[u] => v = u
    <3>1. u # t /\ target'[u] = target[u] /\ target[u] # h /\ target[u] \in Task
      BY <1>0, <1>2, <1>3, <2>2 DEF WaitListTypeOK
    <3>2. wpc[target[u]] = "parked" /\ target[u] # t
      BY <1>0, <1>1, <2>2, <3>1 DEF CompletedOnce
    <3> QED BY <1>0, <1>3, <1>4, <3>1, <3>2 DEF CompletedOnce
  <2> QED BY <2>1, <2>2 DEF CompletedOnce
<1>9. NobodyForgotten'
  <2> SUFFICES ASSUME NEW x \in Task, wpc'[x] = "parked", x \notin Linked'
               PROVE  \E u \in Task : target'[u] = x
    BY DEF NobodyForgotten
  <2>1. x # h /\ x # t /\ wpc[x] = "parked"
    BY <1>1, <1>3
  <2>2. PICK u \in Task : target[u] = x
    BY <1>0, <1>4, <2>1 DEF NobodyForgotten
  <2>3. u # t
    BY <2>1, <2>2 DEF h
  <2> QED BY <1>3, <2>2, <2>3
<1>10. EmptyFlagSound'
  BY <1>0, <1>1, <1>3 DEF EmptyFlagSound
<1>11. CountExact'
  <2>1. Waiting' = Waiting
    BY <1>1, <1>2, <1>3 DEF Waiting, WaitPos
  <2> QED BY <1>0, <1>1, <2>1 DEF CountExact
<1> QED
  BY <1>4, <1>5, <1>6, <1>7, <1>8, <1>9, <1>10, <1>11 DEF WaitListInv

\* The steps of wake_one, wake_all and close that find nothing to pop.
LEMMA WakeMoves ==
    ASSUME WaitListInv, NEW t \in Task,
           \/ WakeLoad(t) \/ CloseStore(t) \/ WakeAllCall(t) \/ WakeAllLoad(t)
           \/ WakeAllLock(t)
           \/ (WakePop(t) \/ WakeAllPop(t)) /\ wlist = <<>>
    PROVE  WaitListInv'
<1> USE NoTaskAssumption DEF WaitPos, WakePos, LockedPos
<1>0. WaitListTypeOK /\ SpinExclusive
  BY DEF WaitListInv
<1>1. CASE WakeLoad(t)
  BY <1>0, <1>1, MoveStep DEF WakeLoad, WaitListTypeOK
<1>2. CASE CloseStore(t)
  BY <1>0, <1>2, MoveStep DEF CloseStore, WaitListTypeOK
<1>3. CASE WakeAllCall(t)
  BY <1>0, <1>3, MoveStep DEF WakeAllCall, WaitListTypeOK
<1>4. CASE WakeAllLoad(t)
  BY <1>0, <1>4, MoveStep DEF WakeAllLoad, WaitListTypeOK
<1>5. CASE WakeAllLock(t)
  BY <1>0, <1>5, MoveStep DEF WakeAllLock, WaitListTypeOK
<1>6. CASE WakePop(t) /\ wlist = <<>>
  BY <1>0, <1>6, MoveStep DEF WakePop, WaitListTypeOK
<1>7. CASE WakeAllPop(t) /\ wlist = <<>>
  BY <1>0, <1>7, MoveStep DEF WakeAllPop, WaitListTypeOK, SpinExclusive
<1> QED BY <1>1, <1>2, <1>3, <1>4, <1>5, <1>6, <1>7

-----------------------------------------------------------------------------
(* The invariant *)

\* Every step of the list's code preserves the invariant, whoever takes it.
LEMMA WaitListStep == WaitListInv /\ [WaitListNext]_wvars => WaitListInv'
<1> SUFFICES ASSUME WaitListInv, [WaitListNext]_wvars PROVE WaitListInv'
  OBVIOUS
<1>1. CASE UNCHANGED wvars
  BY <1>1 DEF wvars, WaitListInv, WaitListTypeOK, SpinExclusive, TargetPos,
              NoDuplicates, CompletedOnce, NobodyForgotten, EmptyFlagSound, Linked,
              CountExact, Waiting
<1>2. ASSUME NEW t \in Task, Wait(t) PROVE WaitListInv'
  BY <1>2, WaitMoves, AppendStep DEF Wait
<1>3. ASSUME NEW t \in Task, Cancel(t) PROVE WaitListInv'
  BY <1>3, WaitMoves, CancelStep DEF Cancel
<1>4. ASSUME NEW t \in Task, WakeOne(t) PROVE WaitListInv'
  BY <1>4, WakeMoves, PopStep, CompleteStep DEF WakeOne
<1>5. ASSUME NEW t \in Task, WakeAll(t) PROVE WaitListInv'
  BY <1>5, WakeMoves, PopStep, CompleteStep DEF WakeAll
<1>6. ASSUME NEW t \in Task, Close(t) PROVE WaitListInv'
  BY <1>6, WakeMoves DEF Close
<1> QED BY <1>1, <1>2, <1>3, <1>4, <1>5, <1>6 DEF WaitListNext

\* For every set of tasks: the types hold, and a waiter is completed exactly
\* once and never after its wait returned.
THEOREM WaitListCorrect == WaitListSpec => [](WaitListTypeOK /\ CompletedOnce)
<1>1. WaitListInv => WaitListTypeOK /\ CompletedOnce
  BY DEF WaitListInv
<1> QED BY WaitListInitInv, WaitListStep, <1>1, PTL DEF WaitListSpec

\* For every set of tasks: no suspended task is lost, the lock-free `empty` hint
\* never hides a waiter, and wake_all's count is exact.
THEOREM WaitListKeepsAll == WaitListSpec => []WaitListSound
<1>1. WaitListInv => WaitListSound
  BY DEF WaitListInv, WaitListSound
<1> QED BY WaitListInitInv, WaitListStep, <1>1, PTL DEF WaitListSpec
-----------------------------------------------------------------------------
(* What a close does for the tasks on the list *)

\* The tasks that are on the list or have decided to go there.
Going == Linked \cup {t \in Task : wpc[t] = "append"}

\* Somebody is about to take everyone off the list.
WakingAll ==
    \E t \in Task : \/ wpc[t] \in {"all_lock", "all_pop", "all_complete"}
                    \/ wpc[t] = "all_load" /\ ~empty

\* Only a task that found the list open before it was closed, and took `empty`
\* down after the close had read it, is overlooked.
LeavesOne ==
    closed /\ ~WakingAll =>
        \/ wlist = <<>>
        \/ Len(wlist) = 1 /\ \A t \in Task : wpc[t] \notin {"open", "decide", "append"}

\* The holder of the SpinMutex is alone in what it guards, and nobody has decided
\* to go on the list while it is free.
LEMMA Alone ==
    ASSUME WaitListInv, NEW t \in Task, spin = NoTask \/ wpc[t] \in LockedPos
    PROVE  \A u \in Task : wpc[u] \in {"open", "decide", "append"} => spin # NoTask /\ u = t
  BY NoTaskAssumption DEF WaitListInv, SpinExclusive, LockedPos

\* A task comes to wait by its own decision; before, it was not overlooked by a
\* wake_all that has ended.
LEMMA GoingStep ==
    ASSUME WaitListInv, [WaitListNext]_wvars, Going' # {}, ~WakingAll'
    PROVE  \/ Going # {} /\ ~WakingAll /\ closed' = closed
           \/ \E t \in Task : ShouldBlock(t, TRUE)
<1> SUFFICES ASSUME \A t \in Task : ~ShouldBlock(t, TRUE)
             PROVE  Going # {} /\ ~WakingAll /\ closed' = closed
  OBVIOUS
<1> USE NoTaskAssumption DEF Goto
<1>0. /\ WaitListTypeOK /\ SpinExclusive /\ EmptyFlagSound
      /\ wpc \in [Task -> {"idle"} \cup WaitPos \cup WakePos] /\ wlist \in Seq(Task) /\ closed \in BOOLEAN
  BY DEF WaitListInv, WaitListTypeOK
<1>1. Going = {} <=> wlist = <<>> /\ \A t \in Task : wpc[t] # "append"
  BY <1>0 DEF Going, Linked, Nodes
<1>2. (Going = {})' <=> wlist' = <<>> /\ \A t \in Task : wpc'[t] # "append"
  <2>1. wlist' \in Seq(Task)
    BY WaitListStep DEF WaitListInv, WaitListTypeOK
  <2> QED
    BY <2>1 DEF Going, Linked, Nodes
<1>3. empty => Going = {}
  BY <1>0, <1>1 DEF EmptyFlagSound
<1>4. CASE UNCHANGED wvars
  BY <1>1, <1>2, <1>4 DEF wvars, WakingAll
<1>5. ASSUME NEW t \in Task,
             \/ WaitBegin(t) \/ SuspendLock(t) \/ CheckClosed(t) \/ EmptyNew(t) \/ ShouldBlock(t, FALSE)
             \/ WaitEnd(t) \/ CancelComplete(t) \/ WakeLoad(t)
      PROVE  Going # {} /\ ~WakingAll /\ closed' = closed
  <2>1. /\ wlist' = wlist /\ closed' = closed /\ (empty' = empty \/ empty' = FALSE)
        /\ \E p : /\ wpc' = [wpc EXCEPT ![t] = p] /\ p \notin {"append", "all_load"}
                  /\ wpc[t] \notin WakePos
    BY <1>5 DEF WaitBegin, SuspendLock, CheckClosed, EmptyNew, ShouldBlock, WaitEnd, CancelComplete,
                WakeLoad, WakePos
  <2> QED
    BY <1>0, <1>1, <1>2, <2>1 DEF WakingAll, WakePos
<1>6. ASSUME NEW t \in Task, Append_(t)
      PROVE  Going # {} /\ ~WakingAll /\ closed' = closed
  BY <1>0, <1>1, <1>6 DEF Append_, WakingAll
<1>7. ASSUME NEW t \in Task, Leave(t)
      PROVE  Going # {} /\ ~WakingAll /\ closed' = closed
  <2>1. /\ wlist' = wlist /\ closed' = closed /\ empty' = (wlist = <<>>)
        /\ wpc[t] = "leave" /\ wpc' = [wpc EXCEPT ![t] = "ending"]
    BY <1>7 DEF Leave
  <2>2. \A u \in Task : wpc'[u] # "append"
    BY <1>0, <2>1 DEF SpinExclusive, LockedPos
  <2>3. wlist # <<>> /\ empty' = FALSE
    BY <1>2, <2>1, <2>2
  <2> QED
    BY <1>0, <1>1, <2>1, <2>3 DEF WakingAll
<1>8. ASSUME NEW t \in Task, CancelUnlink(t)
      PROVE  Going # {} /\ ~WakingAll /\ closed' = closed
  <2>1. /\ closed' = closed /\ empty' = empty /\ wpc[t] = "parked" /\ wpc' = [wpc EXCEPT ![t] = "unlinked"]
        /\ t \in Linked
    BY <1>8 DEF CancelUnlink
  <2> QED
    BY <1>0, <2>1 DEF WakingAll, Going
<1>9. ASSUME NEW t \in Task, WakePop(t)
      PROVE  Going # {} /\ ~WakingAll /\ closed' = closed
  <2>1. /\ closed' = closed /\ empty' = empty /\ wpc[t] = "pop"
        /\ \/ wpc' = [wpc EXCEPT ![t] = "idle"] /\ wlist' = wlist
           \/ wpc' = [wpc EXCEPT ![t] = "complete"] /\ wlist # <<>>
    BY <1>9 DEF WakePop
  <2> QED
    BY <1>0, <1>1, <1>2, <2>1 DEF WakingAll
<1>10. ASSUME NEW t \in Task, WakeComplete(t)
       PROVE  Going # {} /\ ~WakingAll /\ closed' = closed
  <2>1. /\ UNCHANGED <<wlist, empty, closed>> /\ wpc[t] = "complete"
        /\ wpc' = [wpc EXCEPT ![target[t]] = "ending", ![t] = "idle"]
    BY <1>10 DEF WakeComplete
  <2>2. target[t] \in Task /\ target[t] # t /\ wpc[target[t]] = "parked"
    BY <2>1 DEF WaitListInv, WaitListTypeOK, TargetPos, CompletedOnce
  <2>3. \A u \in Task : /\ wpc'[u] = "append" => wpc[u] = "append"
                        /\ wpc[u] \in {"all_load", "all_lock", "all_pop", "all_complete"} => wpc'[u] = wpc[u]
    BY <1>0, <2>1, <2>2
  <2> QED
    BY <1>1, <1>2, <2>1, <2>3 DEF WakingAll
<1>11. ASSUME NEW t \in Task, WakeAllCall(t) \/ CloseStore(t)
       PROVE  Going # {} /\ ~WakingAll /\ closed' = closed
  <2>1. /\ UNCHANGED <<wlist, empty>> /\ wpc[t] = "idle" /\ wpc' = [wpc EXCEPT ![t] = "all_load"]
    BY <1>11 DEF WakeAllCall, CloseStore
  <2>2. empty
    BY <1>0, <2>1 DEF WakingAll
  <2> QED
    BY <1>0, <1>1, <1>2, <1>3, <2>1, <2>2
<1>12. ASSUME NEW t \in Task, WakeAllLoad(t) \/ WakeAllLock(t)
       PROVE  Going # {} /\ ~WakingAll /\ closed' = closed
  <2>1. /\ UNCHANGED <<wlist, empty, closed>>
        /\ \/ wpc[t] = "all_load" /\ empty /\ wpc' = [wpc EXCEPT ![t] = "idle"]
           \/ \E p \in {"all_lock", "all_pop"} : wpc' = [wpc EXCEPT ![t] = p]
    BY <1>12 DEF WakeAllLoad, WakeAllLock
  <2> QED
    BY <1>0, <1>1, <1>2, <1>3, <2>1 DEF WakingAll
<1>13. ASSUME NEW t \in Task, WakeAllPop(t)
       PROVE  Going # {} /\ ~WakingAll /\ closed' = closed
  <2>1. wlist = <<>> /\ wlist' = wlist /\ wpc[t] = "all_pop" /\ wpc' = [wpc EXCEPT ![t] = "idle"]
    <3>1. \/ wlist = <<>> /\ wlist' = wlist /\ wpc[t] = "all_pop" /\ wpc' = [wpc EXCEPT ![t] = "idle"]
          \/ wpc' = [wpc EXCEPT ![t] = "all_complete"]
      BY <1>13 DEF WakeAllPop
    <3> QED
      BY <1>0, <3>1 DEF WakingAll
  <2>2. \A u \in Task : wpc'[u] # "append"
    BY <1>0, <2>1 DEF SpinExclusive, LockedPos
  <2> QED
    BY <1>2, <2>1, <2>2
<1>14. ASSUME NEW t \in Task, WakeAllComplete(t)
       PROVE  Going # {} /\ ~WakingAll /\ closed' = closed
  <2>1. /\ wlist' = wlist /\ wpc[t] = "all_complete"
        /\ wpc' = [wpc EXCEPT ![target[t]] = "ending", ![t] = IF wlist = <<>> THEN "idle" ELSE "all_pop"]
    BY <1>14 DEF WakeAllComplete
  <2>2. target[t] \in Task /\ target[t] # t
    BY <2>1 DEF WaitListInv, WaitListTypeOK, TargetPos, CompletedOnce
  <2>3. wlist = <<>>
    <3>1. wlist # <<>> => wpc'[t] = "all_pop"
      BY <1>0, <2>1, <2>2
    <3> QED
      BY <3>1 DEF WakingAll
  <2>4. \A u \in Task : wpc'[u] # "append"
    <3>1. \A u \in Task : wpc[u] = "append" => u = t
      BY <1>0, <2>1 DEF SpinExclusive, LockedPos
    <3> QED
      BY <1>0, <2>1, <2>2, <3>1
  <2> QED
    BY <1>2, <2>1, <2>3, <2>4
<1> QED
  <2>1. CASE \E t \in Task : Wait(t) \/ Cancel(t)
    BY <1>5, <1>6, <1>7, <1>8, <2>1 DEF Wait, Cancel
  <2>2. CASE \E t \in Task : WakeOne(t) \/ WakeAll(t) \/ Close(t)
    BY <1>5, <1>9, <1>10, <1>11, <1>12, <1>13, <1>14, <2>2 DEF WakeOne, WakeAll, Close
  <2> QED
    BY <1>4, <2>1, <2>2 DEF WaitListNext

\* Nobody else goes on the list but by its own decision.
LEMMA NoMoreGoing ==
    ASSUME WaitListInv, [WaitListNext]_wvars
    PROVE  Going' \subseteq Going \/ \E t \in Task : ShouldBlock(t, TRUE)
<1> SUFFICES ASSUME \A t \in Task : ~ShouldBlock(t, TRUE)
             PROVE  Going' \subseteq Going
  OBVIOUS
<1> USE DEF Goto
<1>0. /\ wlist \in Seq(Task) /\ Distinct(wlist) /\ wpc \in [Task -> {"idle"} \cup WaitPos \cup WakePos]
      /\ \A u \in Linked : wpc[u] = "parked"
  BY DEF WaitListInv, WaitListTypeOK, NoDuplicates, CompletedOnce
<1>1. ASSUME Linked' \subseteq Linked, \A u \in Task : wpc'[u] = "append" => wpc[u] = "append"
      PROVE  Going' \subseteq Going
  BY <1>1 DEF Going
<1>2. CASE UNCHANGED wvars
  BY <1>1, <1>2 DEF wvars, Linked
<1>3. ASSUME NEW t \in Task, Append_(t) PROVE Going' \subseteq Going
  <2>1. wpc[t] = "append" /\ wlist' = Append(wlist, t) /\ wpc' = [wpc EXCEPT ![t] = "parked"]
    BY <1>3 DEF Append_
  <2>2. Linked' = Linked \cup {t}
    BY <1>0, <2>1, AppendNodes DEF Linked
  <2> QED
    BY <1>0, <2>1, <2>2 DEF Going
<1>4. ASSUME NEW t \in Task, Wait(t) \/ Cancel(t), ~Append_(t) PROVE Going' \subseteq Going
  <2>1. /\ wlist' = wlist \/ (t \in Nodes(wlist) /\ wlist' = Unlink(wlist, t))
        /\ \E p \in WaitPos \cup {"idle"} : wpc' = [wpc EXCEPT ![t] = p] /\ p # "append"
    BY <1>4 DEF Wait, Cancel, WaitBegin, SuspendLock, CheckClosed, EmptyNew, ShouldBlock, Leave, WaitEnd,
                CancelUnlink, CancelComplete, Linked, WaitPos
  <2>2. Linked' \subseteq Linked
    BY <1>0, <2>1, UnlinkNodes DEF Linked
  <2>3. \A u \in Task : wpc'[u] = "append" => wpc[u] = "append"
    BY <1>0, <2>1
  <2> QED
    BY <1>1, <2>2, <2>3
<1>5. ASSUME NEW t \in Task, WakeOne(t) \/ WakeAll(t) \/ Close(t) PROVE Going' \subseteq Going
  <2>1. /\ wlist' = wlist \/ (wlist # <<>> /\ wlist' = Tail(wlist))
        /\ \E p \in WakePos \cup {"idle"} :
             \/ wpc' = [wpc EXCEPT ![t] = p]
             \/ wpc' = [wpc EXCEPT ![target[t]] = "ending", ![t] = p]
    BY <1>5 DEF WakeOne, WakeAll, Close, WakeLoad, WakePop, WakeComplete, CloseStore, WakeAllCall,
                WakeAllLoad, WakeAllLock, WakeAllPop, WakeAllComplete, WakePos
  <2>2. Linked' \subseteq Linked
    BY <1>0, <2>1, TailNodes DEF Linked
  <2>3. \A u \in Task : wpc'[u] = "append" => wpc[u] = "append"
    BY <1>0, <2>1 DEF WakePos
  <2> QED
    BY <1>1, <2>2, <2>3
<1> QED
  BY <1>2, <1>3, <1>4, <1>5 DEF WaitListNext

\* Who is overlooked is alone.
LEMMA OneGoing ==
    ASSUME WaitListInv, LeavesOne, closed, ~WakingAll
    PROVE  \A u, v \in Going : u = v
<1>0. wlist \in Seq(Task) /\ \A u \in Task : wpc[u] = "append" => spin = u
  BY DEF WaitListInv, WaitListTypeOK, SpinExclusive, LockedPos
<1>1. CASE wlist = <<>>
  <2>1. Linked = {}
    BY <1>1 DEF Linked, Nodes
  <2> QED
    BY <1>0, <2>1 DEF Going
<1>2. CASE Len(wlist) = 1 /\ \A t \in Task : wpc[t] \notin {"open", "decide", "append"}
  <2>1. Going = {wlist[1]}
    <3>1. Going = Linked
      BY <1>2 DEF Going
    <3>2. 1..1 = {1}
      OBVIOUS
    <3> QED
      BY <1>2, <3>1, <3>2 DEF Linked, Nodes
  <2> QED
    BY <2>1
<1> QED
  BY <1>1, <1>2 DEF LeavesOne

\* Once the list is closed nobody comes to stay who had not found it open.
LEMMA LeavesOneStep == WaitListInv /\ LeavesOne /\ [WaitListNext]_wvars => LeavesOne'
<1> SUFFICES ASSUME WaitListInv, LeavesOne, [WaitListNext]_wvars, closed', ~WakingAll', wlist' # <<>>
             PROVE  Len(wlist') = 1 /\ \A u \in Task : wpc'[u] \notin {"open", "decide", "append"}
  BY DEF LeavesOne
<1> USE DEF Goto
<1>0. /\ wpc \in [Task -> {"idle"} \cup WaitPos \cup WakePos] /\ wlist \in Seq(Task) /\ closed \in BOOLEAN
      /\ SpinExclusive
  BY DEF WaitListInv, WaitListTypeOK
<1>1. closed /\ ~WakingAll
  <2>1. wlist' \in Seq(Task)
    BY WaitListStep DEF WaitListInv, WaitListTypeOK
  <2>2. Going' # {}
    BY <2>1 DEF Going, Linked, Nodes
  <2>3. CASE \E t \in Task : ShouldBlock(t, TRUE)
    <3>1. PICK t \in Task : ShouldBlock(t, TRUE)
      BY <2>3
    <3>2. /\ closed' = closed /\ empty' = empty
          /\ wpc[t] = "decide" /\ wpc' = [wpc EXCEPT ![t] = "append"]
      BY <3>1 DEF ShouldBlock
    <3> QED
      BY <1>0, <3>2 DEF WakingAll
  <2> QED
    BY <1>0, <2>2, <2>3, GoingStep
<1>2. ASSUME NEW t \in Task, Append_(t)
      PROVE  Len(wlist') = 1 /\ \A u \in Task : wpc'[u] \notin {"open", "decide", "append"}
  <2>1. wpc[t] = "append" /\ wlist' = Append(wlist, t) /\ wpc' = [wpc EXCEPT ![t] = "parked"]
    BY <1>2 DEF Append_
  <2>2. wlist = <<>>
    BY <1>1, <2>1 DEF LeavesOne
  <2>3. \A u \in Task : wpc[u] \in {"open", "decide", "append"} => u = t
    BY <2>1, Alone DEF LockedPos
  <2> QED
    BY <1>0, <2>1, <2>2, <2>3
<1>3. CASE ~\E t \in Task : Append_(t)
  <2>1. Len(wlist') <= Len(wlist) /\ Len(wlist') \in Nat
    <3>1. wlist' \in Seq(Task)
      BY WaitListStep DEF WaitListInv, WaitListTypeOK
    <3>2. \/ wlist' = wlist
          \/ wlist # <<>> /\ wlist' = Tail(wlist)
          \/ \E t \in Linked : wlist' = Unlink(wlist, t)
      <4>1. ASSUME NEW t \in Task, Wait(t) \/ Cancel(t)
            PROVE  wlist' = wlist \/ \E u \in Linked : wlist' = Unlink(wlist, u)
        BY <1>3, <4>1 DEF Wait, Cancel, WaitBegin, SuspendLock, CheckClosed, EmptyNew, ShouldBlock,
                          Leave, WaitEnd, CancelUnlink, CancelComplete
      <4>2. ASSUME NEW t \in Task, WakeOne(t) \/ WakeAll(t) \/ Close(t)
            PROVE  wlist' = wlist \/ (wlist # <<>> /\ wlist' = Tail(wlist))
        BY <4>2 DEF WakeOne, WakeAll, Close, WakeLoad, WakePop, WakeComplete, CloseStore, WakeAllCall,
                    WakeAllLoad, WakeAllLock, WakeAllPop, WakeAllComplete
      <4> QED
        BY <4>1, <4>2 DEF WaitListNext, wvars
    <3>3. ASSUME NEW t \in Linked PROVE Len(Unlink(wlist, t)) = Len(wlist) - 1 /\ Len(wlist) > 0
      BY <1>0 DEF Unlink, Linked, Nodes
    <3> QED
      BY <1>0, <3>1, <3>2, <3>3
  <2>2. Len(wlist) = 1 /\ \A u \in Task : wpc[u] \notin {"open", "decide", "append"}
    <3>1. wlist # <<>>
      BY <2>1
    <3> QED
      BY <1>1, <3>1 DEF LeavesOne
  <2>3. Len(wlist') = 1
    <3>1. wlist' \in Seq(Task)
      BY WaitListStep DEF WaitListInv, WaitListTypeOK
    <3>2. \A s \in Seq(Task) : s # <<>> => Len(s) \in Nat /\ Len(s) > 0
      OBVIOUS
    <3>3. Len(wlist') \in Nat /\ Len(wlist') > 0
      BY <3>1, <3>2
    <3>4. \A n \in Nat : n > 0 /\ n <= 1 => n = 1
      OBVIOUS
    <3>5. Len(wlist') <= 1
      BY <2>1, <2>2, Zenon
    <3> QED
      BY <3>3, <3>4, <3>5
  <2>4. \A u \in Task : wpc'[u] \notin {"open", "decide", "append"}
    <3>1. CASE UNCHANGED wvars
      BY <2>2, <3>1 DEF wvars
    <3>2. ASSUME NEW t \in Task, Wait(t) \/ Cancel(t)
          PROVE  \A u \in Task : wpc'[u] \notin {"open", "decide", "append"}
      <4>1. \E p : wpc' = [wpc EXCEPT ![t] = p] /\ p \notin {"open", "decide", "append"}
        BY <1>1, <1>3, <2>2, <3>2
        DEF Wait, Cancel, WaitBegin, SuspendLock, CheckClosed, EmptyNew, ShouldBlock,
            Leave, WaitEnd, CancelUnlink, CancelComplete
      <4> QED
        BY <1>0, <2>2, <4>1
    <3>3. ASSUME NEW t \in Task, WakeOne(t) \/ WakeAll(t) \/ Close(t)
          PROVE  \A u \in Task : wpc'[u] \notin {"open", "decide", "append"}
      <4>1. \E p \in {"idle", "pop", "complete", "all_load", "all_lock", "all_pop", "all_complete"} :
              \/ wpc' = [wpc EXCEPT ![t] = p]
              \/ wpc' = [wpc EXCEPT ![target[t]] = "ending", ![t] = p]
        BY <3>3 DEF WakeOne, WakeAll, Close, WakeLoad, WakePop, WakeComplete, CloseStore, WakeAllCall,
                    WakeAllLoad, WakeAllLock, WakeAllPop, WakeAllComplete
      <4> QED
        BY <1>0, <2>2, <4>1
    <3> QED
      BY <3>1, <3>2, <3>3 DEF WaitListNext
  <2> QED
    BY <2>3, <2>4
<1> QED
  BY <1>2, <1>3

\* For every set of tasks: close may overlook a task (run wait_list_close), but
\* never more than one, the one that was deciding to wait when it came.
THEOREM CloseLeavesAtMostOne ==
    WaitListSpec => [](closed /\ (\A t \in Task : wpc[t] \notin WakePos) => Len(wlist) <= 1)
<1>1. WaitListInit => LeavesOne
  BY DEF WaitListInit, LeavesOne
<1>2. LeavesOne /\ WaitListInv => (closed /\ (\A t \in Task : wpc[t] \notin WakePos) => Len(wlist) <= 1)
  <2> SUFFICES ASSUME LeavesOne, WaitListInv, closed, \A t \in Task : wpc[t] \notin WakePos
               PROVE  Len(wlist) <= 1
    OBVIOUS
  <2>1. ~WakingAll
    BY DEF WakingAll, WakePos
  <2>2. Len(<<>>) = 0
    OBVIOUS
  <2>3. wlist = <<>> \/ Len(wlist) = 1
    BY <2>1 DEF LeavesOne
  <2>4. \A n : n = 0 \/ n = 1 => n <= 1
    OBVIOUS
  <2> QED
    BY <2>2, <2>3, <2>4, Zenon
<1> QED BY WaitListInitInv, WaitListStep, LeavesOneStep, <1>1, <1>2, PTL DEF WaitListSpec
=============================================================================
