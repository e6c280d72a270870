--------------------------- MODULE MpChannelProofs ---------------------------
(***************************************************************************)
(* Proofs about MpChannel, for any number of senders and receivers and any *)
(* size above one: a slot of the ring has one user at a time, the receiver *)
(* of a position is given the message that was sent at it (with one slot   *)
(* this is wrong: run mp_size_one), and nobody stays suspended beside a    *)
(* message or a free slot.                                                 *)
(***************************************************************************)
EXTENDS MpChannel, FiniteSetTheorems, TLAPS

Ring == 0..(Slots - 1)

\* t has claimed position p and not published it yet.
Holds(t, p) == InSlot(t) /\ pos[t] = p

RingTypeOK ==
    /\ head \in Nat /\ tail \in Nat
    /\ sequence \in [Ring -> Nat] /\ data \in [Ring -> Nat \cup {-1}]
    /\ pos \in [Task -> Nat] /\ DOMAIN pc = Task

\* The slot waits for the message of position sequence[i]; if that was claimed,
\* the sender is on its way.
Vacant(i) ==
    /\ Slot(sequence[i]) = i /\ data[i] = -1
    /\ head <= sequence[i] /\ sequence[i] < head + Slots
    /\ sequence[i] < tail <=> \E t \in Sender : Holds(t, sequence[i])

\* The slot has the message of position data[i]; if that was claimed, the
\* receiver is on its way.
Occupied(i) ==
    /\ Slot(data[i]) = i /\ data[i] \in Nat /\ sequence[i] = data[i] + 1
    /\ data[i] < tail /\ tail <= data[i] + Slots
    /\ data[i] < head <=> \E t \in Receiver : Holds(t, data[i])

\* Who has claimed a position finds its slot as it expects, until it publishes.
Claims ==
    /\ \A t \in Sender : InSlot(t) => sequence[Slot(pos[t])] = pos[t] /\ pos[t] < tail
    /\ \A t \in Receiver : InSlot(t) => sequence[Slot(pos[t])] = pos[t] + 1 /\ pos[t] < head
    /\ \A t, u \in Sender : InSlot(t) /\ Holds(u, pos[t]) => t = u
    /\ \A t, u \in Receiver : InSlot(t) /\ Holds(u, pos[t]) => t = u

InUse ==
    /\ Bounded /\ Claims
    /\ \A i \in Ring : Vacant(i) \/ Occupied(i)

\* After drop_all.
Dropped == AllGone /\ head = tail /\ \A i \in Ring : data[i] = -1

RingInv == RingTypeOK /\ (InUse \/ Dropped)

-----------------------------------------------------------------------------

\* Positions of a slot are at least a lap apart.
LEMMA RingFacts ==
  /\ Slots \in Nat \ {0}
  /\ \A p \in Nat : Slot(p) \in Ring
  /\ \A p \in Nat : Slot(p + Slots) = Slot(p)
  /\ \A p, q \in Nat : Slot(p) = Slot(q) /\ p < q => p + Slots <= q
<1>1. Slots \in Nat \ {0}
  BY SlotsAssumption, SizeAssumption
<1>2. \A p \in Nat : Slot(p) \in Ring
  BY <1>1 DEF Slot, Ring
<1>3. \A p \in Nat : p = Slots * (p \div Slots) + (p % Slots) /\ p \div Slots \in Nat
  BY <1>1
<1>4. \A a, b \in Nat : /\ a <= b => Slots * a <= Slots * b
                        /\ a > b => Slots * a - Slots * b >= Slots
                        /\ Slots * (a + 1) = Slots * a + Slots
  BY <1>1
<1>5. ASSUME NEW p \in Nat, NEW q \in Nat, Slot(p) = Slot(q), p < q PROVE p + Slots <= q
  <2>1. PICK a \in Nat, b \in Nat, m \in Nat : p = Slots * a + m /\ q = Slots * b + m
    <3>1. p % Slots = q % Slots /\ p % Slots \in Nat
      BY <1>1, <1>5 DEF Slot
    <3> QED
      BY <1>3, <3>1
  <2>2. Slots * a \in Nat /\ Slots * b \in Nat
    BY <1>1
  <2>3. b > a
    BY <1>4, <1>5, <2>1, <2>2
  <2>4. Slots * b - Slots * a >= Slots
    BY <1>4, <2>3
  <2> QED
    BY <1>1, <2>1, <2>2, <2>4
<1>6. ASSUME NEW p \in Nat PROVE Slot(p + Slots) = Slot(p)
  <2>1. PICK a \in Nat, b \in Nat, m \in Ring, n \in Ring :
           p = Slots * a + m /\ p + Slots = Slots * b + n /\ m = Slot(p) /\ n = Slot(p + Slots)
    <3>1. p + Slots \in Nat
      BY <1>1
    <3> QED
      BY <1>2, <1>3, <3>1 DEF Slot
  <2>2. Slots * a \in Nat /\ Slots * b \in Nat /\ Slots * (a + 1) = Slots * a + Slots /\ a + 1 \in Nat
    BY <1>1, <1>4
  <2>3. Slots * b + n = Slots * (a + 1) + m
    BY <1>1, <2>1, <2>2 DEF Ring
  <2>4. b <= a + 1
    <3> SUFFICES ASSUME b > a + 1 PROVE FALSE
      BY <2>2
    <3>1. Slots * b - Slots * (a + 1) >= Slots
      BY <1>4, <2>2
    <3> QED
      BY <1>1, <2>1, <2>2, <2>3, <3>1 DEF Ring
  <2>5. a + 1 <= b
    <3> SUFFICES ASSUME a + 1 > b PROVE FALSE
      BY <2>2
    <3>1. Slots * (a + 1) - Slots * b >= Slots
      BY <1>4, <2>2
    <3> QED
      BY <1>1, <2>1, <2>2, <2>3, <3>1 DEF Ring
  <2>6. b = a + 1
    BY <2>4, <2>5
  <2>7. Slots * b + n = Slots * b + m /\ n \in Nat /\ m \in Nat
    BY <1>1, <2>1, <2>3, <2>6 DEF Ring
  <2>8. n = m
    BY <2>2, <2>7
  <2> QED
    BY <2>1, <2>8
<1> QED
  BY <1>1, <1>2, <1>5, <1>6

\* With two slots or more, neighbours are in different slots.
LEMMA Neighbours == Size > 1 => \A p \in Nat : Slot(p + 1) # Slot(p)
<1>1. Size > 1 => Slots > 1
  BY SlotsAssumption, SizeAssumption
<1>2. ASSUME Size > 1, NEW p \in Nat, Slot(p + 1) = Slot(p) PROVE FALSE
  <2>1. p + 1 \in Nat /\ p < p + 1
    OBVIOUS
  <2>2. p + Slots <= p + 1
    BY <1>2, <2>1, RingFacts
  <2> QED
    BY <1>1, <1>2, <2>2, RingFacts
<1> QED
  BY <1>2

-----------------------------------------------------------------------------
(* Steps *)

\* Whatever a task does while it holds no slot, and wake_one while it holds one,
\* leaves the ring alone.
LEMMA BystanderKeeps ==
  ASSUME RingInv, UNCHANGED cvars, pos' \in [Task -> Nat], DOMAIN pc' = Task,
         \A t \in Task : /\ InSlot(t)' <=> InSlot(t)
                         /\ InSlot(t) => pos'[t] = pos[t],
         AllGone => AllGone'
  PROVE  RingInv'
<1>1. UNCHANGED <<head, tail, sequence, data>>
  BY DEF cvars
<1>2. RingTypeOK'
  BY <1>1 DEF RingInv, RingTypeOK
<1>4. ASSUME InUse PROVE InUse'
  <2>1. \A i \in Ring : (Vacant(i) => Vacant(i)') /\ (Occupied(i) => Occupied(i)')
    <3> SUFFICES ASSUME NEW i \in Ring
                 PROVE  (Vacant(i) => Vacant(i)') /\ (Occupied(i) => Occupied(i)')
      OBVIOUS
    <3>1. /\ \A t \in Sender : Holds(t, sequence[i])' <=> Holds(t, sequence[i])
          /\ \A t \in Receiver : Holds(t, data[i])' <=> Holds(t, data[i])
      BY <1>1 DEF Holds, Task
    <3> QED
      BY <1>1, <3>1 DEF Vacant, Occupied
  <2>2. Claims'
    BY <1>1, <1>4 DEF InUse, Claims, Holds, Task
  <2>3. Bounded'
    BY <1>1, <1>4 DEF InUse, Bounded
  <2> QED
    BY <1>4, <2>1, <2>2, <2>3 DEF InUse
<1>5. ASSUME Dropped PROVE Dropped'
  BY <1>1, <1>5 DEF Dropped
<1> QED
  BY <1>2, <1>4, <1>5 DEF RingInv

\* The steps of a call around its slot.
LEMMA CallInv ==
  ASSUME RingInv, NEW t \in Task,
         \/ SendCall(t) \/ RecvCall(t) \/ ClosedCall(t) \/ DropTask(t) \/ CloseCall(t)
         \/ WaitCancel(t) \/ Interrupt(t)
         \/ TestClosed(t) \/ Load(t) \/ ClaimFails(t) \/ WakeOther(t) \/ Failed(t)
         \/ WaitCall(t) \/ WaitStep(t) \/ CountFirst(t) \/ CountSecond(t) \/ WaitReturn(t)
         \/ ClosedTest(t) \/ ClosedBlock(t) \/ ClosedReturn(t) \/ Closing(t)
  PROVE  RingInv'
<1>0. /\ DOMAIN pc = Task /\ pos \in [Task -> Nat] /\ head \in Nat /\ tail \in Nat
  BY DEF RingInv, RingTypeOK
<1>1. UNCHANGED cvars
  BY DEF SendCall, RecvCall, ClosedCall, DropTask, CloseCall, WaitCancel, Interrupt, TestClosed, Load,
         ClaimFails, WakeOther, Failed, WaitCall, WaitStep, CountFirst, CountSecond, WaitReturn,
         ClosedTest, ClosedBlock, ClosedReturn, Closing
<1>2. \/ UNCHANGED <<pc, pos>>
      \/ /\ pc[t] \notin {"new", "gone", "wake", "access"} /\ UNCHANGED pos
         /\ \E p : Jump(t, p) /\ p \notin {"wake", "access"}
      \/ /\ pc[t] \in {"load", "wait"} /\ (Jump(t, "claim") \/ Jump(t, "count"))
         /\ pos' = [pos EXCEPT ![t] = IF t \in Sender THEN tail ELSE head]
      \/ pc[t] = "wake" /\ (Jump(t, "wake") \/ Jump(t, "access")) /\ UNCHANGED pos
  <2>1. CASE SendCall(t) \/ RecvCall(t) \/ ClosedCall(t)
    BY <2>1 DEF SendCall, RecvCall, ClosedCall
  <2>2. CASE DropTask(t) \/ CloseCall(t)
    BY <2>2 DEF DropTask, CloseCall
  <2>3. CASE WaitCancel(t) \/ Interrupt(t) \/ WaitStep(t) \/ ClosedBlock(t)
    BY <2>3 DEF WaitCancel, Interrupt, WaitStep, ClosedBlock
  <2>4. CASE TestClosed(t) \/ ClaimFails(t) \/ Failed(t)
    BY <2>4 DEF TestClosed, ClaimFails, Failed
  <2>5. CASE Load(t) \/ CountFirst(t)
    BY <2>5 DEF Load, CountFirst
  <2>6. CASE WakeOther(t)
    BY <2>6 DEF WakeOther
  <2>7. CASE WaitCall(t) \/ CountSecond(t) \/ WaitReturn(t)
    BY <2>7 DEF WaitCall, CountSecond, WaitReturn, Again
  <2>8. CASE ClosedTest(t) \/ ClosedReturn(t)
    BY <2>8 DEF ClosedTest, ClosedReturn
  <2>9. CASE Closing(t)
    BY <2>9 DEF Closing
  <2> QED
    BY <2>1, <2>2, <2>3, <2>4, <2>5, <2>6, <2>7, <2>8, <2>9
<1>3. pos' \in [Task -> Nat] /\ DOMAIN pc' = Task
  BY <1>0, <1>2 DEF Jump
<1>4. \A u \in Task : (InSlot(u)' <=> InSlot(u)) /\ (InSlot(u) => pos'[u] = pos[u])
  BY <1>0, <1>2 DEF Jump, InSlot
<1>5. AllGone => AllGone'
  BY <1>0, <1>2 DEF Jump, AllGone
<1> QED
  BY <1>1, <1>3, <1>4, <1>5, BystanderKeeps

\* Clone: a handle comes from one that is in use.
LEMMA CloneInv ==
  ASSUME RingInv, NEW t \in Task, NEW u \in Task, Clone(t, u)
  PROVE  RingInv'
<1>1. DOMAIN pc = Task /\ pos \in [Task -> Nat]
  BY DEF RingInv, RingTypeOK
<1>2. /\ pc[t] = "idle" /\ pc[u] = "new" /\ pc' = [pc EXCEPT ![u] = "idle"]
      /\ UNCHANGED cvars /\ pos' = pos
  BY DEF Clone, Jump
<1>3. \A x \in Task : (InSlot(x)' <=> InSlot(x)) /\ (InSlot(x) => pos'[x] = pos[x])
  BY <1>1, <1>2 DEF InSlot
<1>4. ~AllGone /\ pos' \in [Task -> Nat] /\ DOMAIN pc' = Task
  BY <1>1, <1>2 DEF AllGone
<1> QED
  BY <1>2, <1>3, <1>4, BystanderKeeps

\* A task that has a slot, or is about to, keeps the channel from being dropped.
LEMMA NotDropped ==
  ASSUME RingInv, NEW t \in Task, pc[t] \notin {"new", "gone"}
  PROVE  RingTypeOK /\ InUse
  BY DEF RingInv, Dropped, AllGone

\* compare_exchange of the tail: the slot is vacant, so there is room for it.
LEMMA ClaimSendInv ==
  ASSUME Size > 1, RingInv, NEW t \in Sender, ClaimSlot(t), tail = pos[t]
  PROVE  RingInv'
<1> DEFINE slot == Slot(tail)
<1>0. t \in Task /\ RingTypeOK /\ Bounded /\ Claims /\ \A i \in Ring : Vacant(i) \/ Occupied(i)
  BY NotDropped DEF Task, ClaimSlot, InUse
<1>1. /\ pc[t] = "claim" /\ sequence[slot] = tail /\ tail' = tail + 1 /\ pc' = [pc EXCEPT ![t] = "wake"]
      /\ UNCHANGED <<head, sequence, data, pos>>
  <2>1. sequence[slot] \in Nat /\ tail \in Nat
    BY <1>0, RingFacts DEF RingTypeOK
  <2> QED
    BY <2>1 DEF ClaimSlot, Jump, Diff, Expect
<1>2. head \in Nat /\ tail \in Nat /\ Slots \in Nat \ {0} /\ slot \in Ring
  BY <1>0, RingFacts DEF RingTypeOK
<1>3. RingTypeOK'
  BY <1>0, <1>1, <1>2 DEF RingTypeOK
<1>4. Vacant(slot)
  <2>1. ~Occupied(slot)
    <3> SUFFICES ASSUME Occupied(slot) PROVE FALSE
      OBVIOUS
    <3>1. data[slot] \in Nat /\ Slot(data[slot]) = slot /\ tail = data[slot] + 1
      BY <1>1 DEF Occupied
    <3> QED
      BY <3>1, Neighbours
  <2> QED
    BY <1>0, <1>2, <2>1
<1>5. Bounded'
  BY <1>0, <1>1, <1>2, <1>4 DEF Bounded, Vacant
<1>6. /\ InSlot(t)' /\ ~InSlot(t) /\ \A u \in Task : u # t => (InSlot(u)' <=> InSlot(u))
  BY <1>0, <1>1 DEF InSlot, RingTypeOK
<1>7. t \notin Receiver
  BY TasksAssumption
<1>8. Claims'
  <2>1. \A u \in Sender : InSlot(u)' => sequence'[Slot(pos'[u])] = pos'[u] /\ pos'[u] < tail'
    <3> SUFFICES ASSUME NEW u \in Sender, InSlot(u)' PROVE sequence[Slot(pos[u])] = pos[u] /\ pos[u] < tail'
      BY <1>1
    <3>1. CASE u = t
      BY <1>1, <1>2, <3>1
    <3>2. CASE u # t
      BY <1>0, <1>1, <1>2, <1>6, <3>2 DEF Claims, RingTypeOK, Task
    <3> QED
      BY <3>1, <3>2
  <2>2. \A u \in Receiver : InSlot(u)' => sequence'[Slot(pos'[u])] = pos'[u] + 1 /\ pos'[u] < head'
    BY <1>0, <1>1, <1>6, <1>7 DEF Claims, Task
  <2>3. ASSUME NEW u \in Sender, NEW v \in Sender, InSlot(u)', Holds(v, pos[u])' PROVE u = v
    <3>1. \A x \in Sender : InSlot(x) => pos[x] # tail
      BY <1>0, <1>2 DEF Claims, RingTypeOK, Task
    <3> QED
      BY <1>0, <1>1, <1>6, <2>3, <3>1 DEF Claims, Holds, Task
  <2>4. ASSUME NEW u \in Receiver, NEW v \in Receiver, InSlot(u)', Holds(v, pos[u])' PROVE u = v
    BY <1>0, <1>1, <1>6, <1>7, <2>4 DEF Claims, Holds, Task
  <2> QED
    BY <2>1, <2>2, <2>3, <2>4 DEF Claims
<1>9. ASSUME NEW i \in Ring, Vacant(i) PROVE Vacant(i)'
  <2>1. sequence[i] \in Nat
    BY <1>0 DEF RingTypeOK
  <2>2. CASE i = slot
    <3>1. sequence[i] < tail' /\ Holds(t, sequence[i])'
      BY <1>1, <1>2, <1>6, <2>2 DEF Holds
    <3> QED
      BY <1>1, <1>9, <3>1 DEF Vacant
  <2>3. CASE i # slot
    <3>1. sequence[i] # tail
      BY <1>9, <2>3 DEF Vacant
    <3>2. sequence[i] < tail' <=> sequence[i] < tail
      BY <1>1, <1>2, <2>1, <3>1
    <3>3. \A u \in Sender : Holds(u, sequence[i])' <=> Holds(u, sequence[i])
      BY <1>1, <1>6, <3>1 DEF Holds, Task
    <3> QED
      BY <1>1, <1>9, <3>2, <3>3 DEF Vacant
  <2> QED
    BY <2>2, <2>3
<1>10. ASSUME NEW i \in Ring, Occupied(i) PROVE Occupied(i)'
  <2>1. data[i] \in Nat /\ data[i] < tail /\ tail <= data[i] + Slots /\ Slot(data[i]) = i
    BY <1>10 DEF Occupied
  <2>2. tail # data[i] + Slots
    <3> SUFFICES ASSUME tail = data[i] + Slots PROVE FALSE
      OBVIOUS
    <3>1. slot = i
      BY <2>1, RingFacts
    <3>2. sequence[i] = data[i] + 1
      BY <1>10 DEF Occupied
    <3>3. Slots = 1
      BY <1>1, <1>2, <2>1, <3>1, <3>2
    <3> QED
      BY <3>3, SlotsAssumption, SizeAssumption
  <2>3. data[i] < tail' /\ tail' <= data[i] + Slots
    BY <1>1, <1>2, <2>1, <2>2
  <2>4. \A u \in Receiver : Holds(u, data[i])' <=> Holds(u, data[i])
    BY <1>1, <1>6, <1>7 DEF Holds, Task
  <2> QED
    BY <1>1, <1>10, <2>3, <2>4 DEF Occupied
<1> QED
  BY <1>0, <1>3, <1>5, <1>8, <1>9, <1>10 DEF RingInv, InUse

\* compare_exchange of the head: the slot is occupied, so there is a message.
LEMMA ClaimRecvInv ==
  ASSUME Size > 1, RingInv, NEW t \in Receiver, ClaimSlot(t), head = pos[t]
  PROVE  RingInv'
<1> DEFINE slot == Slot(head)
<1>0. /\ t \in Task /\ t \notin Sender
      /\ RingTypeOK /\ Bounded /\ Claims /\ \A i \in Ring : Vacant(i) \/ Occupied(i)
  BY NotDropped, TasksAssumption DEF Task, ClaimSlot, InUse
<1>1. /\ pc[t] = "claim" /\ sequence[slot] = head + 1 /\ head' = head + 1 /\ pc' = [pc EXCEPT ![t] = "wake"]
      /\ UNCHANGED <<tail, sequence, data, pos>>
  <2>1. sequence[slot] \in Nat /\ head \in Nat
    BY <1>0, RingFacts DEF RingTypeOK
  <2> QED
    BY <1>0, <2>1 DEF ClaimSlot, Jump, Diff, Expect
<1>2. head \in Nat /\ tail \in Nat /\ Slots \in Nat \ {0} /\ slot \in Ring
  BY <1>0, RingFacts DEF RingTypeOK
<1>3. RingTypeOK'
  BY <1>0, <1>1, <1>2 DEF RingTypeOK
<1>4. Occupied(slot) /\ data[slot] = head
  <2>1. ~Vacant(slot)
    BY <1>1, <1>2, Neighbours DEF Vacant
  <2>2. Occupied(slot)
    BY <1>0, <1>2, <2>1
  <2> QED
    BY <1>1, <1>2, <2>2 DEF Occupied
<1>5. Bounded'
  BY <1>0, <1>1, <1>2, <1>4 DEF Bounded, Occupied
<1>6. /\ InSlot(t)' /\ ~InSlot(t) /\ \A u \in Task : u # t => (InSlot(u)' <=> InSlot(u))
  BY <1>0, <1>1 DEF InSlot, RingTypeOK
<1>8. Claims'
  <2>1. \A u \in Receiver : InSlot(u)' => sequence'[Slot(pos'[u])] = pos'[u] + 1 /\ pos'[u] < head'
    <3> SUFFICES ASSUME NEW u \in Receiver, InSlot(u)' PROVE sequence[Slot(pos[u])] = pos[u] + 1 /\ pos[u] < head'
      BY <1>1
    <3>1. CASE u = t
      BY <1>1, <1>2, <3>1
    <3>2. CASE u # t
      BY <1>0, <1>1, <1>2, <1>6, <3>2 DEF Claims, RingTypeOK, Task
    <3> QED
      BY <3>1, <3>2
  <2>2. \A u \in Sender : InSlot(u)' => sequence'[Slot(pos'[u])] = pos'[u] /\ pos'[u] < tail'
    BY <1>0, <1>1, <1>6 DEF Claims, Task
  <2>3. ASSUME NEW u \in Receiver, NEW v \in Receiver, InSlot(u)', Holds(v, pos[u])' PROVE u = v
    <3>1. \A x \in Receiver : InSlot(x) => pos[x] # head
      BY <1>0, <1>2 DEF Claims, RingTypeOK, Task
    <3> QED
      BY <1>0, <1>1, <1>6, <2>3, <3>1 DEF Claims, Holds, Task
  <2>4. ASSUME NEW u \in Sender, NEW v \in Sender, InSlot(u)', Holds(v, pos[u])' PROVE u = v
    BY <1>0, <1>1, <1>6, <2>4 DEF Claims, Holds, Task
  <2> QED
    BY <2>1, <2>2, <2>3, <2>4 DEF Claims
<1>9. ASSUME NEW i \in Ring, Vacant(i) PROVE Vacant(i)'
  <2>1. sequence[i] \in Nat /\ head <= sequence[i] /\ sequence[i] < head + Slots /\ Slot(sequence[i]) = i
    BY <1>0, <1>9 DEF RingTypeOK, Vacant
  <2>2. sequence[i] # head
    BY <1>1, <1>2, <2>1
  <2>3. head' <= sequence[i] /\ sequence[i] < head' + Slots
    BY <1>1, <1>2, <2>1, <2>2
  <2>4. \A u \in Sender : Holds(u, sequence[i])' <=> Holds(u, sequence[i])
    BY <1>0, <1>1, <1>6 DEF Holds, Task
  <2> QED
    BY <1>1, <1>9, <2>3, <2>4 DEF Vacant
<1>10. ASSUME NEW i \in Ring, Occupied(i) PROVE Occupied(i)'
  <2>1. data[i] \in Nat /\ Slot(data[i]) = i
    BY <1>10 DEF Occupied
  <2>2. CASE i = slot
    <3>1. data[i] < head' /\ Holds(t, data[i])'
      BY <1>1, <1>2, <1>4, <1>6, <2>2 DEF Holds
    <3> QED
      BY <1>1, <1>10, <3>1 DEF Occupied
  <2>3. CASE i # slot
    <3>1. data[i] # head
      BY <2>1, <2>3
    <3>2. data[i] < head' <=> data[i] < head
      BY <1>1, <1>2, <2>1, <3>1
    <3>3. \A u \in Receiver : Holds(u, data[i])' <=> Holds(u, data[i])
      BY <1>1, <1>6, <3>1 DEF Holds, Task
    <3> QED
      BY <1>1, <1>10, <3>2, <3>3 DEF Occupied
  <2> QED
    BY <2>2, <2>3
<1> QED
  BY <1>0, <1>3, <1>5, <1>8, <1>9, <1>10 DEF RingInv, InUse

\* compare_exchange that fails: the counter has moved since it was loaded.
LEMMA ClaimStaleInv ==
  ASSUME RingInv, NEW t \in Task, ClaimSlot(t), (IF t \in Sender THEN tail ELSE head) # pos[t]
  PROVE  RingInv'
<1>1. DOMAIN pc = Task /\ pos \in [Task -> Nat]
  BY DEF RingInv, RingTypeOK
<1>2. pc[t] = "claim" /\ pc' = [pc EXCEPT ![t] = "load"] /\ UNCHANGED cvars /\ pos' = pos
  BY DEF ClaimSlot, Jump, cvars
<1>3. \A x \in Task : (InSlot(x)' <=> InSlot(x)) /\ (InSlot(x) => pos'[x] = pos[x])
  BY <1>1, <1>2 DEF InSlot
<1>4. ~AllGone /\ pos' \in [Task -> Nat] /\ DOMAIN pc' = Task
  BY <1>1, <1>2 DEF AllGone
<1> QED
  BY <1>2, <1>3, <1>4, BystanderKeeps

\* The message is written and its sequence published.
LEMMA AccessSendInv ==
  ASSUME Size > 1, RingInv, NEW t \in Sender, Access(t)
  PROVE  RingInv'
<1> DEFINE p == pos[t]
<1> DEFINE slot == Slot(p)
<1>0. /\ t \in Task /\ t \notin Receiver /\ InSlot(t)
      /\ RingTypeOK /\ Bounded /\ Claims /\ \A i \in Ring : Vacant(i) \/ Occupied(i)
  BY NotDropped, TasksAssumption DEF Task, Access, InUse, InSlot
<1>1. /\ pc' = [pc EXCEPT ![t] = "idle"] /\ UNCHANGED <<head, tail, pos>>
      /\ data' = [data EXCEPT ![slot] = p] /\ sequence' = [sequence EXCEPT ![slot] = p + 1]
  BY DEF Access, Jump, Publish
<1>2. /\ head \in Nat /\ tail \in Nat /\ Slots \in Nat \ {0} /\ p \in Nat /\ slot \in Ring
      /\ tail <= head + Slots /\ sequence[slot] = p /\ p < tail
  BY <1>0, RingFacts DEF RingTypeOK, Claims, Bounded
<1>3. head <= p
  <2>1. ~Occupied(slot)
    <3> SUFFICES ASSUME Occupied(slot) PROVE FALSE
      OBVIOUS
    <3>1. data[slot] \in Nat /\ Slot(data[slot]) = slot /\ p = data[slot] + 1
      BY <1>2 DEF Occupied
    <3> QED
      BY <3>1, Neighbours
  <2> QED
    BY <1>0, <1>2, <2>1 DEF Vacant
<1>4. RingTypeOK'
  BY <1>0, <1>1, <1>2 DEF RingTypeOK
<1>5. ~InSlot(t)' /\ \A u \in Task : u # t => (InSlot(u)' <=> InSlot(u))
  BY <1>0, <1>1 DEF InSlot, RingTypeOK
<1>6. \A u \in Task : u # t /\ InSlot(u) => Slot(pos[u]) # slot
  <2> SUFFICES ASSUME NEW u \in Task, u # t, InSlot(u), Slot(pos[u]) = slot PROVE FALSE
    OBVIOUS
  <2>1. pos[u] \in Nat
    BY <1>0 DEF RingTypeOK
  <2>2. CASE u \in Sender
    BY <1>0, <1>2, <2>1, <2>2 DEF Claims, Holds
  <2>3. CASE u \in Receiver
    BY <1>0, <1>2, <2>1, <2>3, Neighbours DEF Claims
  <2> QED
    BY <2>2, <2>3 DEF Task
<1> HIDE DEF slot, p
<1>7. /\ sequence'[slot] = p + 1 /\ data'[slot] = p
      /\ \A i \in Ring : i # slot => sequence'[i] = sequence[i] /\ data'[i] = data[i]
  BY <1>0, <1>1, <1>2 DEF RingTypeOK
<1>8. Bounded'
  BY <1>0, <1>1 DEF Bounded
<1>9. Claims'
  <2>1. \A u \in Task : InSlot(u)' => InSlot(u) /\ u # t /\ sequence'[Slot(pos[u])] = sequence[Slot(pos[u])]
    <3> SUFFICES ASSUME NEW u \in Task, InSlot(u)'
                 PROVE  InSlot(u) /\ u # t /\ sequence'[Slot(pos[u])] = sequence[Slot(pos[u])]
      OBVIOUS
    <3>1. InSlot(u) /\ u # t /\ pos[u] \in Nat
      BY <1>0, <1>5 DEF RingTypeOK
    <3>2. Slot(pos[u]) \in Ring /\ Slot(pos[u]) # slot
      BY <1>6, <3>1, RingFacts
    <3> QED
      BY <1>7, <3>1, <3>2
  <2> QED
    BY <1>0, <1>1, <2>1 DEF Claims, Holds, Task
<1>10. ASSUME NEW i \in Ring, i = slot PROVE Occupied(i)'
  <2>1. /\ Slot(p) = i /\ p < tail /\ tail <= p + Slots /\ ~(p < head)
    BY <1>2, <1>3, <1>10 DEF slot
  <2>2. \A u \in Receiver : ~Holds(u, p)'
    <3> SUFFICES ASSUME NEW u \in Receiver, Holds(u, p)' PROVE FALSE
      OBVIOUS
    <3>1. u \in Task /\ u # t /\ InSlot(u)' /\ pos[u] = p'
      BY <1>0, <1>1, <1>5 DEF Holds, Task
    <3>2. pos[u] = p
      BY <1>1, <3>1 DEF p
    <3> QED
      BY <1>5, <1>6, <3>1, <3>2 DEF slot
  <2>3. p' = p
    BY <1>1 DEF p
  <2>4. \A u \in Receiver : ~Holds(u, data[i])'
    BY <1>1, <1>7, <1>10, <2>2, <2>3 DEF Holds
  <2>5. data'[i] = p /\ sequence'[i] = p + 1 /\ p \in Nat
    BY <1>2, <1>7, <1>10
  <2> QED
    BY <1>1, <2>1, <2>4, <2>5 DEF Occupied
<1>11. ASSUME NEW i \in Ring, i # slot PROVE Vacant(i)' \/ Occupied(i)'
  <2>1. sequence'[i] = sequence[i] /\ data'[i] = data[i]
    BY <1>7, <1>11
  <2>2. CASE Vacant(i)
    <3>1. p # sequence[i]
      BY <1>11, <2>2 DEF Vacant, slot
    <3>2. \A u \in Sender : Holds(u, sequence[i])' <=> Holds(u, sequence[i])
      BY <1>1, <1>5, <2>1, <3>1 DEF Holds, Task, p
    <3> QED
      BY <1>1, <2>1, <2>2, <3>2 DEF Vacant
  <2>3. CASE Occupied(i)
    <3>1. \A u \in Receiver : Holds(u, data[i])' <=> Holds(u, data[i])
      BY <1>0, <1>1, <1>5, <2>1 DEF Holds, Task
    <3> QED
      BY <1>1, <2>1, <2>3, <3>1 DEF Occupied
  <2> QED
    BY <1>0, <2>2, <2>3
<1> QED
  BY <1>4, <1>8, <1>9, <1>10, <1>11 DEF RingInv, InUse

\* The message is read and the slot published for the next lap.
LEMMA AccessRecvInv ==
  ASSUME Size > 1, RingInv, NEW t \in Receiver, Access(t)
  PROVE  RingInv'
<1> DEFINE p == pos[t]
<1> DEFINE slot == Slot(p)
<1>0. /\ t \in Task /\ t \notin Sender /\ InSlot(t)
      /\ RingTypeOK /\ Bounded /\ Claims /\ \A i \in Ring : Vacant(i) \/ Occupied(i)
  BY NotDropped, TasksAssumption DEF Task, Access, InUse, InSlot
<1>1. /\ pc' = [pc EXCEPT ![t] = "idle"] /\ UNCHANGED <<head, tail, pos>>
      /\ data' = [data EXCEPT ![slot] = -1] /\ sequence' = [sequence EXCEPT ![slot] = p + Slots]
  BY <1>0 DEF Access, Jump, Publish
<1>2. /\ head \in Nat /\ tail \in Nat /\ Slots \in Nat \ {0} /\ p \in Nat /\ slot \in Ring
      /\ head <= tail /\ sequence[slot] = p + 1 /\ p < head
  BY <1>0, RingFacts DEF RingTypeOK, Claims, Bounded
<1>3. tail <= p + Slots
  <2>1. ~Vacant(slot)
    BY <1>2, Neighbours DEF Vacant
  <2>2. Occupied(slot)
    BY <1>0, <1>2, <2>1
  <2>3. data[slot] = p
    BY <1>2, <2>2 DEF Occupied
  <2> QED
    BY <2>2, <2>3 DEF Occupied
<1>4. RingTypeOK'
  BY <1>0, <1>1, <1>2 DEF RingTypeOK
<1>5. ~InSlot(t)' /\ \A u \in Task : u # t => (InSlot(u)' <=> InSlot(u))
  BY <1>0, <1>1 DEF InSlot, RingTypeOK
<1>6. \A u \in Task : u # t /\ InSlot(u) => Slot(pos[u]) # slot
  <2> SUFFICES ASSUME NEW u \in Task, u # t, InSlot(u), Slot(pos[u]) = slot PROVE FALSE
    OBVIOUS
  <2>1. pos[u] \in Nat
    BY <1>0 DEF RingTypeOK
  <2>2. CASE u \in Sender
    BY <1>0, <1>2, <2>1, <2>2, Neighbours DEF Claims
  <2>3. CASE u \in Receiver
    BY <1>0, <1>2, <2>1, <2>3 DEF Claims, Holds
  <2> QED
    BY <2>2, <2>3 DEF Task
<1> HIDE DEF slot, p
<1>7. /\ sequence'[slot] = p + Slots /\ data'[slot] = -1
      /\ \A i \in Ring : i # slot => sequence'[i] = sequence[i] /\ data'[i] = data[i]
  BY <1>0, <1>1, <1>2 DEF RingTypeOK
<1>8. Bounded'
  BY <1>0, <1>1 DEF Bounded
<1>9. Claims'
  <2>1. \A u \in Task : InSlot(u)' => InSlot(u) /\ u # t /\ sequence'[Slot(pos[u])] = sequence[Slot(pos[u])]
    <3> SUFFICES ASSUME NEW u \in Task, InSlot(u)'
                 PROVE  InSlot(u) /\ u # t /\ sequence'[Slot(pos[u])] = sequence[Slot(pos[u])]
      OBVIOUS
    <3>1. InSlot(u) /\ u # t /\ pos[u] \in Nat
      BY <1>0, <1>5 DEF RingTypeOK
    <3>2. Slot(pos[u]) \in Ring /\ Slot(pos[u]) # slot
      BY <1>6, <3>1, RingFacts
    <3> QED
      BY <1>7, <3>1, <3>2
  <2> QED
    BY <1>0, <1>1, <2>1 DEF Claims, Holds, Task
<1>10. ASSUME NEW i \in Ring, i = slot PROVE Vacant(i)'
  <2>1. Slot(p + Slots) = i /\ head <= p + Slots /\ p + Slots < head + Slots /\ ~(p + Slots < tail)
    BY <1>2, <1>3, <1>10, RingFacts DEF slot
  <2>2. ASSUME NEW u \in Sender, Holds(u, sequence[i])' PROVE FALSE
    <3>1. u \in Task /\ u # t /\ InSlot(u) /\ pos[u] = p + Slots
      BY <1>0, <1>1, <1>5, <1>7, <1>10, <2>2 DEF Holds, Task
    <3> QED
      BY <1>6, <1>10, <2>1, <3>1
  <2>3. data'[i] = -1 /\ sequence'[i] = p + Slots
    BY <1>7, <1>10
  <2> QED
    BY <1>1, <2>1, <2>2, <2>3 DEF Vacant
<1>11. ASSUME NEW i \in Ring, i # slot PROVE Vacant(i)' \/ Occupied(i)'
  <2>1. sequence'[i] = sequence[i] /\ data'[i] = data[i]
    BY <1>7, <1>11
  <2>2. CASE Vacant(i)
    <3>1. \A u \in Sender : Holds(u, sequence[i])' <=> Holds(u, sequence[i])
      BY <1>0, <1>1, <1>5, <2>1 DEF Holds, Task
    <3> QED
      BY <1>1, <2>1, <2>2, <3>1 DEF Vacant
  <2>3. CASE Occupied(i)
    <3>1. p # data[i]
      BY <1>11, <2>3 DEF Occupied, slot
    <3>2. \A u \in Receiver : Holds(u, data[i])' <=> Holds(u, data[i])
      BY <1>1, <1>5, <2>1, <3>1 DEF Holds, Task, p
    <3> QED
      BY <1>1, <2>1, <2>3, <3>2 DEF Occupied
  <2> QED
    BY <1>0, <2>2, <2>3
<1> QED
  BY <1>4, <1>8, <1>9, <1>10, <1>11 DEF RingInv, InUse

\* drop_all: the messages between the counters are all there is.
LEMMA DropAllInv ==
  ASSUME RingInv, DropAll
  PROVE  RingInv'
<1>0. RingTypeOK /\ AllGone /\ head # tail /\ InUse
  BY DEF RingInv, DropAll, Dropped
<1>1. /\ head' = tail /\ UNCHANGED <<tail, sequence, pc, pos>>
      /\ data' = [i \in DOMAIN data |-> IF \E p \in head..(tail - 1) : Slot(p) = i THEN -1 ELSE data[i]]
  BY DEF DropAll
<1>2. RingTypeOK' /\ AllGone'
  BY <1>0, <1>1 DEF RingTypeOK, AllGone
<1>3. ASSUME NEW i \in Ring PROVE data'[i] = -1
  <2>1. CASE Vacant(i)
    BY <1>0, <1>1, <2>1 DEF Vacant, RingTypeOK
  <2>2. CASE Occupied(i)
    <3>1. \A t \in Receiver : ~Holds(t, data[i])
      BY <1>0 DEF AllGone, Holds, InSlot, Task
    <3>2. data[i] \in head..(tail - 1) /\ Slot(data[i]) = i
      BY <1>0, <2>2, <3>1 DEF Occupied, RingTypeOK
    <3> QED
      BY <1>0, <1>1, <3>2 DEF RingTypeOK
  <2> QED
    BY <1>0, <2>1, <2>2 DEF InUse
<1> QED
  BY <1>1, <1>2, <1>3 DEF RingInv, Dropped

-----------------------------------------------------------------------------
(* The channel *)

\* A new ring: every slot waits for the position that is its index.
LEMMA RingInit == Init => RingInv
<1> SUFFICES ASSUME Init PROVE RingInv
  OBVIOUS
<1>0. Slots \in Nat \ {0}
  BY RingFacts
<1>1. RingTypeOK
  BY <1>0 DEF Init, RingTypeOK, Ring
<1>2. \A t \in Task : ~InSlot(t)
  BY DEF Init, InSlot
<1>3. \A i \in Ring : Vacant(i)
  <2> SUFFICES ASSUME NEW i \in Ring PROVE Vacant(i)
    OBVIOUS
  <2>1. sequence[i] = i /\ data[i] = -1 /\ i \in Nat /\ i < Slots /\ head = 0 /\ tail = 0
    BY <1>0 DEF Init, Ring
  <2>2. Slot(i) = i
    BY <1>0, <2>1 DEF Slot
  <2> QED
    BY <1>0, <1>2, <2>1, <2>2 DEF Vacant, Holds, Task
<1>4. Bounded /\ Claims
  BY <1>0, <1>2 DEF Init, Bounded, Claims, Task, Holds
<1> QED
  BY <1>1, <1>3, <1>4 DEF RingInv, InUse

\* Every step keeps the invariant, if there are two slots or more.
LEMMA RingNext == ASSUME Size > 1 PROVE RingInv /\ [Next]_vars => RingInv'
<1> SUFFICES ASSUME RingInv, [Next]_vars PROVE RingInv'
  OBVIOUS
<1>1. ASSUME NEW t \in Task, Run(t) \/ Environment(t) PROVE RingInv'
  <2>1. CASE ClaimSlot(t)
    <3>1. CASE t \in Sender
      BY <2>1, <3>1, ClaimSendInv, ClaimStaleInv
    <3>2. CASE t \in Receiver /\ t \notin Sender
      BY <2>1, <3>2, ClaimRecvInv, ClaimStaleInv
    <3> QED
      BY <3>1, <3>2 DEF Task
  <2>2. CASE Access(t)
    BY <2>2, AccessSendInv, AccessRecvInv DEF Task
  <2> QED
    BY <1>1, <2>1, <2>2, CallInv DEF Run, Environment
<1>2. ASSUME NEW t \in Task, NEW u \in Task, Clone(t, u) PROVE RingInv'
  BY <1>2, CloneInv
<1>3. CASE DropAll
  BY <1>3, DropAllInv
<1>4. CASE UNCHANGED vars
  <2>1. UNCHANGED cvars /\ UNCHANGED <<pc, pos>>
    BY <1>4 DEF vars
  <2>2. /\ pos' \in [Task -> Nat] /\ DOMAIN pc' = Task /\ (AllGone => AllGone')
        /\ \A t \in Task : (InSlot(t)' <=> InSlot(t)) /\ (InSlot(t) => pos'[t] = pos[t])
    BY <2>1 DEF RingInv, RingTypeOK, AllGone, InSlot
  <2> QED
    BY <2>1, <2>2, BystanderKeeps
<1> QED
  BY <1>1, <1>2, <1>3, <1>4 DEF Next

\* What the invariant says of a task with a slot, and of a channel nobody holds.
LEMMA RingExact == ASSUME Size > 1 PROVE RingInv => QueueSafe /\ Delivered
<1> SUFFICES ASSUME RingInv PROVE QueueSafe /\ Delivered
  OBVIOUS
<1>0. RingTypeOK /\ Slots \in Nat \ {0} /\ \A t \in Task : pos[t] \in Nat /\ Slot(pos[t]) \in Ring
  BY RingFacts DEF RingInv, RingTypeOK
<1>1. CASE Dropped
  <2>1. \A t \in Task : ~InSlot(t)
    BY <1>1 DEF Dropped, AllGone, InSlot
  <2>2. head \in Nat /\ tail = head /\ \A i \in DOMAIN data : data[i] = -1
    BY <1>0, <1>1 DEF Dropped, RingTypeOK
  <2>3. QueueSafe
    BY <1>0, <2>1, <2>2 DEF QueueSafe, SlotExclusive, Bounded
  <2>4. Delivered
    BY <2>1, <2>2 DEF Delivered
  <2> QED
    BY <2>3, <2>4
<1>2. CASE InUse
  <2>1. ASSUME NEW t \in Task, NEW u \in Task, InSlot(t), InSlot(u), Slot(pos[t]) = Slot(pos[u])
        PROVE  t = u
    <3>1. CASE (t \in Sender /\ u \in Sender) \/ (t \in Receiver /\ u \in Receiver)
      BY <1>0, <1>2, <2>1, <3>1 DEF InUse, Claims, Holds
    <3>2. CASE (t \in Sender /\ u \in Receiver) \/ (t \in Receiver /\ u \in Sender)
      BY <1>0, <1>2, <2>1, <3>2, Neighbours DEF InUse, Claims
    <3> QED
      BY <3>1, <3>2 DEF Task
  <2>2. QueueSafe
    BY <1>2, <2>1 DEF QueueSafe, SlotExclusive, InUse
  <2>3. ASSUME NEW t \in Task, InSlot(t)
        PROVE  data[Slot(pos[t])] = IF t \in Sender THEN -1 ELSE pos[t]
    <3>1. CASE t \in Sender
      <4>1. ~Occupied(Slot(pos[t]))
        BY <1>0, <1>2, <2>3, <3>1, Neighbours DEF InUse, Claims, Occupied
      <4> QED
        BY <1>0, <1>2, <3>1, <4>1 DEF InUse, Vacant
    <3>2. CASE t \in Receiver /\ t \notin Sender
      <4>1. ~Vacant(Slot(pos[t]))
        BY <1>0, <1>2, <2>3, <3>2, Neighbours DEF InUse, Claims, Vacant
      <4>2. Occupied(Slot(pos[t])) /\ sequence[Slot(pos[t])] = pos[t] + 1
        BY <1>0, <1>2, <2>3, <3>2, <4>1 DEF InUse, Claims
      <4> QED
        BY <1>0, <3>2, <4>2 DEF Occupied
    <3> QED
      BY <3>1, <3>2 DEF Task
  <2>4. ASSUME AllGone, NEW i \in Ring
        PROVE  data[i] # -1 <=> \E p \in head..(tail - 1) : Slot(p) = i /\ data[i] = p
    <3>1. CASE Vacant(i)
      BY <1>0, <3>1 DEF Vacant, RingTypeOK
    <3>2. CASE Occupied(i)
      <4>1. \A t \in Receiver : ~Holds(t, data[i])
        BY <2>4 DEF AllGone, Holds, InSlot, Task
      <4>2. data[i] \in head..(tail - 1) /\ Slot(data[i]) = i /\ data[i] # -1
        BY <1>0, <3>2, <4>1 DEF Occupied, RingTypeOK
      <4> QED
        BY <4>2
    <3> QED
      BY <1>2, <3>1, <3>2 DEF InUse
  <2>5. DOMAIN data = Ring
    BY <1>0 DEF RingTypeOK
  <2> QED
    BY <2>2, <2>3, <2>4, <2>5 DEF Delivered
<1> QED
  BY <1>1, <1>2 DEF RingInv

\* mpmc and mpsc, for any tasks and any size above one: between its claim and
\* its store of the sequence a task has the slot to itself, and there are never
\* more messages than slots.
THEOREM ChannelExclusive == ASSUME Size > 1 PROVE Spec => []QueueSafe
<1>1. RingInv /\ [Next]_vars => RingInv'
  BY RingNext
<1>2. RingInv => QueueSafe
  BY RingExact
<1> QED
  BY RingInit, <1>1, <1>2, PTL DEF Spec

\* mpmc and mpsc, for any tasks and any size above one: a receiver is given the
\* message that was sent at its position, a sender writes into an empty slot,
\* and drop_all drops exactly the messages that are left.
THEOREM ChannelDelivers == ASSUME Size > 1 PROVE Spec => []Delivered
<1>1. RingInv /\ [Next]_vars => RingInv'
  BY RingNext
<1>2. RingInv => Delivered
  BY RingExact
<1> QED
  BY RingInit, <1>1, <1>2, PTL DEF Spec
-----------------------------------------------------------------------------
(***************************************************************************)
(* Nobody sleeps beside what it waits for. The two wait lists share wpc,   *)
(* wres and target, so each side is first shown to be a ThreadSafeWaitList *)
(* of its own: Tx for the senders who wait for room and the receivers who  *)
(* wake them, Rx for the receivers who wait for messages and the senders   *)
(* who wake them.                                                          *)
(***************************************************************************)

\* The tasks inside the code of the list on which W waits.
On(W) == {t \in Task : pc[t] \in IF t \in W THEN {"wait", "count", "closed"}
                                           ELSE {"wake", "closing", "shut"}}

\* What they make of f; d for the others.
Only(S, f, d) == [t \in Task |-> IF t \in S THEN f[t] ELSE d]

TxPos == Only(On(Sender), wpc, "idle")
TxRes == Only(On(Sender), wres, "None")
TxTarget == Only(On(Sender), target, NoTask)
Tx == INSTANCE ThreadSafeWaitListProofs
        WITH wlist <- tlist, spin <- tspin, empty <- tempty, closed <- tclosed,
             count <- Cardinality({t \in Task : TxPos[t] \in T!WaitPos}),
             wpc <- TxPos, wres <- TxRes, target <- TxTarget

RxPos == Only(On(Receiver), wpc, "idle")
RxRes == Only(On(Receiver), wres, "None")
RxTarget == Only(On(Receiver), target, NoTask)
Rx == INSTANCE ThreadSafeWaitListProofs
        WITH wlist <- rlist, spin <- rspin, empty <- rempty, closed <- rclosed,
             count <- Cardinality({t \in Task : RxPos[t] \in T!WaitPos}),
             wpc <- RxPos, wres <- RxRes, target <- RxTarget

TaskPos == {"new", "idle", "gone", "test", "load", "claim", "wake", "access", "failed", "wait",
            "count", "closed", "closing", "shut"}
ListPos == {"idle"} \cup T!WaitPos \cup T!WakePos

SidesTypeOK ==
    /\ Task # {}
    /\ pc \in [Task -> TaskPos] /\ wpc \in [Task -> ListPos]
    /\ wres \in [Task -> {"None", "Ok", "Cancelled", "Closed"}]
    /\ target \in [Task -> Task \cup {NoTask}]
    /\ interrupted \in [Task -> BOOLEAN]

\* Who is in neither list's code has nothing to do with either.
Elsewhere ==
    \A t \in Task :
        /\ t \notin On(Sender) \cup On(Receiver) => wpc[t] = "idle" /\ target[t] = NoTask
        /\ pc[t] \in {"wait", "count", "closed"} => wpc[t] \in {"idle"} \cup T!WaitPos
        /\ pc[t] \in {"wake", "closing", "shut"} => wpc[t] \in {"idle"} \cup T!WakePos
        /\ wpc[t] # "ending" => wres[t] = "None"

\* Sender::closed is called by senders, and ends by a cancellation only after an
\* interrupt.
Watching ==
    \A t \in Task : pc[t] = "closed" =>
        t \in Sender /\ wpc[t] # "leave" /\ (wres[t] = "Cancelled" => interrupted[t])

SidesInv == SidesTypeOK /\ Elsewhere /\ Watching /\ Tx!WaitListInv /\ Rx!WaitListInv

\* A step outside the code of a list.
LEMMA OnlyKeeps ==
  ASSUME NEW S, NEW S2, NEW f, NEW f2, NEW d,
         \A u \in Task : \/ (u \in S <=> u \in S2) /\ (u \in S => f2[u] = f[u])
                         \/ (u \notin S \/ f[u] = d) /\ (u \notin S2 \/ f2[u] = d)
  PROVE  Only(S2, f2, d) = Only(S, f, d)
  BY DEF Only

\* The tasks of a channel are what the two lists assume.
LEMMA TasksFinite == IsFiniteSet(Task) /\ NoTask \notin Task
  BY TasksAssumption, FS_Union DEF Task

\* Each side keeps the invariant of its list.
LEMMA SidesKeep ==
  /\ Tx!WaitListInv /\ [Tx!WaitListNext]_Tx!wvars => Tx!WaitListInv'
  /\ Rx!WaitListInv /\ [Rx!WaitListNext]_Rx!wvars => Rx!WaitListInv'
<1>1. Tx!WaitListInv /\ [Tx!WaitListNext]_Tx!wvars => Tx!WaitListInv'
  BY Tx!WaitListStep, TasksFinite DEF Tx!IsFiniteSet, IsFiniteSet
<1>2. Rx!WaitListInv /\ [Rx!WaitListNext]_Rx!wvars => Rx!WaitListInv'
  BY Rx!WaitListStep, TasksFinite DEF Rx!IsFiniteSet, IsFiniteSet
<1> QED
  BY <1>1, <1>2

\* A task at rest holds nothing.
LEMMA AtRest ==
  ASSUME SidesInv, NEW t \in Task, wpc[t] = "idle"
  PROVE  wres[t] = "None" /\ target[t] = NoTask
<1>1. wres[t] = "None"
  BY DEF SidesInv, Elsewhere
<1>2. CASE t \in On(Sender)
  <2>1. TxPos[t] = "idle" /\ TxTarget[t] = target[t]
    BY <1>2 DEF TxPos, TxTarget, Only
  <2> QED
    BY <1>1, <2>1 DEF SidesInv, Tx!WaitListInv, Tx!TargetPos
<1>3. CASE t \in On(Receiver)
  <2>1. RxPos[t] = "idle" /\ RxTarget[t] = target[t]
    BY <1>3 DEF RxPos, RxTarget, Only
  <2> QED
    BY <1>1, <2>1 DEF SidesInv, Rx!WaitListInv, Rx!TargetPos
<1> QED
  BY <1>1, <1>2, <1>3 DEF SidesInv, Elsewhere
-----------------------------------------------------------------------------
(* The senders' side *)

\* A task moves in the code of tx_waiters; its results and its target may change
\* with it.
LEMMA TxMoves ==
  ASSUME SidesInv, NEW t \in Task, NEW p \in ListPos, wpc' = [wpc EXCEPT ![t] = p],
         t \in On(Sender) \/ wpc[t] = "idle", t \in On(Sender)' \/ p = "idle",
         \A u \in Task \ {t} : u \in On(Sender)' <=> u \in On(Sender)
  PROVE  /\ TxPos' = [TxPos EXCEPT ![t] = p] /\ TxPos[t] = wpc[t]
         /\ wres' = wres /\ (wpc[t] # "ending" \/ t \in On(Sender)') => TxRes' = TxRes
         /\ \A x : wres' = [wres EXCEPT ![t] = x] /\ (x = "None" \/ t \in On(Sender)')
                      => TxRes' = [TxRes EXCEPT ![t] = x]
         /\ target' = target /\ (t \in On(Sender)' \/ target[t] = NoTask) => TxTarget' = TxTarget
         /\ \A x : target' = [target EXCEPT ![t] = x] /\ t \in On(Sender)'
                      => TxTarget' = [TxTarget EXCEPT ![t] = x]
<1>0. /\ wpc \in [Task -> ListPos] /\ wres \in [Task -> {"None", "Ok", "Cancelled", "Closed"}]
      /\ target \in [Task -> Task \cup {NoTask}]
      /\ t \notin On(Sender) => wres[t] = "None" /\ target[t] = NoTask
      /\ wpc[t] # "ending" => wres[t] = "None"
  BY AtRest DEF SidesInv, SidesTypeOK, Elsewhere
<1>1. /\ TxPos' = [TxPos EXCEPT ![t] = p] /\ TxPos[t] = wpc[t]
  <2>1. \A u \in Task : wpc'[u] = IF u = t THEN p ELSE wpc[u]
    BY <1>0
  <2> QED
    BY <2>1 DEF TxPos, Only
<1>2. ASSUME wres' = wres, wpc[t] # "ending" \/ t \in On(Sender)' PROVE TxRes' = TxRes
  <2>1. \A u \in Task : \/ (u \in On(Sender) <=> u \in On(Sender)') /\ (u \in On(Sender) => wres'[u] = wres[u])
                        \/ (u \notin On(Sender) \/ wres[u] = "None") /\ (u \notin On(Sender)' \/ wres'[u] = "None")
    BY <1>0, <1>2
  <2> QED
    BY <2>1, OnlyKeeps DEF TxRes
<1>3. ASSUME NEW x, wres' = [wres EXCEPT ![t] = x], x = "None" \/ t \in On(Sender)'
      PROVE  TxRes' = [TxRes EXCEPT ![t] = x]
  <2>1. \A u \in Task : wres'[u] = IF u = t THEN x ELSE wres[u]
    BY <1>0, <1>3
  <2> QED
    BY <1>0, <1>3, <2>1 DEF TxRes, Only
<1>4. ASSUME target' = target, t \in On(Sender)' \/ target[t] = NoTask PROVE TxTarget' = TxTarget
  <2>1. \A u \in Task : \/ (u \in On(Sender) <=> u \in On(Sender)') /\ (u \in On(Sender) => target'[u] = target[u])
                        \/ (u \notin On(Sender) \/ target[u] = NoTask) /\ (u \notin On(Sender)' \/ target'[u] = NoTask)
    BY <1>0, <1>4
  <2> QED
    BY <2>1, OnlyKeeps DEF TxTarget
<1>5. ASSUME NEW x, target' = [target EXCEPT ![t] = x], t \in On(Sender)'
      PROVE  TxTarget' = [TxTarget EXCEPT ![t] = x]
  <2>1. \A u \in Task : target'[u] = IF u = t THEN x ELSE target[u]
    BY <1>0, <1>5
  <2> QED
    BY <1>0, <1>5, <2>1 DEF TxTarget, Only
<1> QED
  BY <1>1, <1>2, <1>3, <1>4, <1>5

\* The number of calls of wait in progress on this side.
LEMMA TxCounts ==
  ASSUME NEW t \in Task, NEW p, TxPos' = [TxPos EXCEPT ![t] = p]
  PROVE  LET n == Cardinality({u \in Task : TxPos[u] \in T!WaitPos})
         IN  /\ (p \in T!WaitPos <=> TxPos[t] \in T!WaitPos) => n' = n
             /\ p \in T!WaitPos /\ TxPos[t] \notin T!WaitPos => n' = n + 1
             /\ p \notin T!WaitPos /\ TxPos[t] \in T!WaitPos => n' = n - 1
<1> DEFINE C == {u \in Task : TxPos[u] \in T!WaitPos}
           D == {u \in Task : TxPos'[u] \in T!WaitPos}
<1>1. IsFiniteSet(C)
  BY TasksFinite, FS_Subset
<1>2. \A u \in Task : TxPos'[u] = IF u = t THEN p ELSE TxPos[u]
  BY DEF TxPos, Only
<1>3. (p \in T!WaitPos <=> TxPos[t] \in T!WaitPos) => D = C
  BY <1>2
<1>4. p \in T!WaitPos /\ TxPos[t] \notin T!WaitPos => D = C \cup {t} /\ t \notin C
  BY <1>2
<1>5. p \notin T!WaitPos /\ TxPos[t] \in T!WaitPos => D = C \ {t} /\ t \in C
  BY <1>2
<1> HIDE DEF C, D
<1>6. /\ t \notin C => Cardinality(C \cup {t}) = Cardinality(C) + 1
      /\ t \in C => Cardinality(C \ {t}) = Cardinality(C) - 1
  BY <1>1, FS_AddElement, FS_RemoveElement
<1>7. /\ (p \in T!WaitPos <=> TxPos[t] \in T!WaitPos) => Cardinality(D) = Cardinality(C)
      /\ p \in T!WaitPos /\ TxPos[t] \notin T!WaitPos => Cardinality(D) = Cardinality(C) + 1
      /\ p \notin T!WaitPos /\ TxPos[t] \in T!WaitPos => Cardinality(D) = Cardinality(C) - 1
  BY <1>3, <1>4, <1>5, <1>6
<1> QED
  BY <1>7 DEF C, D

\* The task moves in the code of tx_waiters, or enters it, or leaves it.
TxMover(t) ==
    /\ t \in On(Sender) \/ wpc[t] = "idle"
    /\ t \in On(Sender)' \/ wpc'[t] = "idle"
    /\ \A u \in Task \ {t} : u \in On(Sender)' <=> u \in On(Sender)

\* The steps on tx_waiters.
TxWait(t) ==
    \/ T!WaitBegin(t) \/ T!SuspendLock(t) \/ T!CheckClosed(t) \/ T!EmptyNew(t)
    \/ T!ShouldBlock(t, TRUE) \/ T!ShouldBlock(t, FALSE) \/ T!Append_(t) \/ T!Leave(t)
    \/ T!CancelUnlink(t) \/ T!CancelComplete(t) \/ T!WaitEnd(t)
TxWake(t) ==
    \/ T!WakeLoad(t) \/ T!WakePop(t) \/ T!WakeComplete(t) \/ T!CloseStore(t)
    \/ T!WakeAllLoad(t) \/ T!WakeAllLock(t) \/ T!WakeAllPop(t) \/ T!WakeAllComplete(t)

\* The steps of wait on tx_waiters.
LEMMA TxWaits ==
  ASSUME SidesInv, NEW t \in Task, TxMover(t), TxWait(t)
  PROVE  Tx!WaitListNext
<1> USE DEF T!Goto, Tx!Goto, ListPos, T!WaitPos, T!WakePos
<1>0. wpc \in [Task -> ListPos]
  BY DEF SidesInv, SidesTypeOK
<1>1. /\ t \in On(Sender) \/ wpc[t] = "idle"
      /\ t \in On(Sender)' \/ wpc'[t] = "idle"
      /\ \A u \in Task \ {t} : u \in On(Sender)' <=> u \in On(Sender)
  BY DEF TxMover
<1> DEFINE n == Cardinality({u \in Task : TxPos[u] \in T!WaitPos})
<1>2. ASSUME NEW p \in ListPos, wpc' = [wpc EXCEPT ![t] = p]
      PROVE  /\ TxPos' = [TxPos EXCEPT ![t] = p] /\ TxPos[t] = wpc[t]
             /\ wres' = wres /\ (wpc[t] # "ending" \/ p # "idle") => TxRes' = TxRes
             /\ \A x : wres' = [wres EXCEPT ![t] = x] /\ (x = "None" \/ p # "idle")
                          => TxRes' = [TxRes EXCEPT ![t] = x]
             /\ target' = target /\ (p # "idle" \/ target[t] = NoTask) => TxTarget' = TxTarget
             /\ (p \in T!WaitPos <=> wpc[t] \in T!WaitPos) => n' = n
             /\ p \in T!WaitPos /\ wpc[t] \notin T!WaitPos => n' = n + 1
             /\ p \notin T!WaitPos /\ wpc[t] \in T!WaitPos => n' = n - 1
  <2>1. wpc'[t] = p
    BY <1>0, <1>2
  <2>2. t \in On(Sender) \/ wpc[t] = "idle"
    BY <1>1
  <2>3. t \in On(Sender)' \/ p = "idle"
    BY <1>1, <2>1
  <2>4. \A u \in Task \ {t} : u \in On(Sender)' <=> u \in On(Sender)
    BY <1>1
  <2>5. /\ TxPos' = [TxPos EXCEPT ![t] = p] /\ TxPos[t] = wpc[t]
        /\ wres' = wres /\ (wpc[t] # "ending" \/ p # "idle") => TxRes' = TxRes
        /\ \A x : wres' = [wres EXCEPT ![t] = x] /\ (x = "None" \/ p # "idle")
                     => TxRes' = [TxRes EXCEPT ![t] = x]
        /\ target' = target /\ (p # "idle" \/ target[t] = NoTask) => TxTarget' = TxTarget
    BY <1>2, <2>2, <2>3, <2>4, TxMoves
  <2> QED
    BY <2>5, TxCounts
<1> HIDE DEF n
<1>3. ASSUME T!WaitBegin(t) PROVE Tx!WaitBegin(t)
  BY <1>2, <1>3 DEF T!WaitBegin, Tx!WaitBegin, n
<1>4. ASSUME T!SuspendLock(t) PROVE Tx!SuspendLock(t)
  BY <1>2, <1>4 DEF T!SuspendLock, Tx!SuspendLock, n
<1>5. ASSUME T!CheckClosed(t) PROVE Tx!CheckClosed(t)
  BY <1>2, <1>5 DEF T!CheckClosed, Tx!CheckClosed, n
<1>6. ASSUME T!EmptyNew(t) PROVE Tx!EmptyNew(t)
  BY <1>2, <1>6 DEF T!EmptyNew, Tx!EmptyNew, n
<1>7. ASSUME T!ShouldBlock(t, TRUE) PROVE Tx!ShouldBlock(t, TRUE)
  BY <1>2, <1>7 DEF T!ShouldBlock, Tx!ShouldBlock, n
<1>8. ASSUME T!ShouldBlock(t, FALSE) PROVE Tx!ShouldBlock(t, FALSE)
  BY <1>2, <1>8 DEF T!ShouldBlock, Tx!ShouldBlock, n
<1>9. ASSUME T!Append_(t) PROVE Tx!Append_(t)
  BY <1>2, <1>9 DEF T!Append_, Tx!Append_, n
<1>10. ASSUME T!Leave(t) PROVE Tx!Leave(t)
  BY <1>2, <1>10 DEF T!Leave, Tx!Leave, n
<1>11. ASSUME T!CancelUnlink(t) PROVE Tx!CancelUnlink(t)
  BY <1>2, <1>11 DEF T!CancelUnlink, Tx!CancelUnlink, n, T!Linked, Tx!Linked, T!Nodes, Tx!Nodes, T!Unlink, Tx!Unlink
<1>12. ASSUME T!CancelComplete(t) PROVE Tx!CancelComplete(t)
  BY <1>2, <1>12 DEF T!CancelComplete, Tx!CancelComplete, n
<1>13. ASSUME T!WaitEnd(t) PROVE Tx!WaitEnd(t)
  <2>1. wpc[t] = "ending" /\ t \in On(Sender)
    BY <1>1, <1>13 DEF T!WaitEnd
  <2>2. TxPos[t] = "ending" /\ TxTarget[t] = target[t]
    BY <2>1 DEF TxPos, TxTarget, Only
  <2>3. target[t] = NoTask
    BY <2>2 DEF SidesInv, Tx!WaitListInv, Tx!TargetPos
  <2>4. /\ wpc' = [wpc EXCEPT ![t] = "idle"] /\ wres' = [wres EXCEPT ![t] = "None"]
        /\ UNCHANGED <<tlist, tspin, tempty, tclosed, target>>
    BY <1>13 DEF T!WaitEnd
  <2>5. /\ TxPos' = [TxPos EXCEPT ![t] = "idle"] /\ TxRes' = [TxRes EXCEPT ![t] = "None"]
        /\ TxTarget' = TxTarget /\ n' = n - 1
    <3>1. "idle" \in ListPos /\ wpc[t] \in T!WaitPos /\ "idle" \notin T!WaitPos
      BY <2>1
    <3>2. TxPos' = [TxPos EXCEPT ![t] = "idle"]
      BY <1>2, <3>1, <2>4
    <3>3. TxTarget' = TxTarget
      BY <1>2, <3>1, <2>3, <2>4
    <3>4. n' = n - 1
      BY <1>2, <3>1, <2>4
    <3>5. TxRes' = [TxRes EXCEPT ![t] = "None"]
      BY <1>2, <3>1, <2>4
    <3> QED
      BY <3>2, <3>3, <3>4, <3>5
  <2> QED
    BY <2>2, <2>4, <2>5 DEF Tx!WaitEnd, n
<1> QED
  BY <1>3, <1>4, <1>5, <1>6, <1>7, <1>8, <1>9, <1>10, <1>11, <1>12, <1>13
  DEF TxWait, Tx!WaitListNext, Tx!Wait, Tx!Cancel

\* The steps of wake_one, wake_all and close on tx_waiters.
LEMMA TxWakes ==
  ASSUME SidesInv, NEW t \in Task, TxMover(t), TxWake(t)
  PROVE  Tx!WaitListNext
<1> USE DEF T!Goto, Tx!Goto, ListPos, T!WaitPos, T!WakePos
<1>0. wpc \in [Task -> ListPos] /\ target \in [Task -> Task \cup {NoTask}] /\ tclosed \in BOOLEAN
  BY DEF SidesInv, SidesTypeOK, Tx!WaitListInv, Tx!WaitListTypeOK
<1>1. /\ t \in On(Sender) \/ wpc[t] = "idle"
      /\ t \in On(Sender)' \/ wpc'[t] = "idle"
      /\ \A u \in Task \ {t} : u \in On(Sender)' <=> u \in On(Sender)
  BY DEF TxMover
<1> DEFINE n == Cardinality({u \in Task : TxPos[u] \in T!WaitPos})
<1>2. ASSUME NEW p \in ListPos, wpc' = [wpc EXCEPT ![t] = p], wpc[t] \notin T!WaitPos, p \notin T!WaitPos
      PROVE  /\ TxPos' = [TxPos EXCEPT ![t] = p] /\ TxPos[t] = wpc[t]
             /\ wres' = wres => TxRes' = TxRes
             /\ target' = target /\ (p # "idle" \/ target[t] = NoTask) => TxTarget' = TxTarget
             /\ \A x : target' = [target EXCEPT ![t] = x] /\ p # "idle" => TxTarget' = [TxTarget EXCEPT ![t] = x]
             /\ n' = n
  <2>1. wpc'[t] = p
    BY <1>0, <1>2
  <2>2. t \in On(Sender) \/ wpc[t] = "idle"
    BY <1>1
  <2>3. t \in On(Sender)' \/ p = "idle"
    BY <1>1, <2>1
  <2>4. \A u \in Task \ {t} : u \in On(Sender)' <=> u \in On(Sender)
    BY <1>1
  <2>5. /\ TxPos' = [TxPos EXCEPT ![t] = p] /\ TxPos[t] = wpc[t]
        /\ wres' = wres /\ wpc[t] # "ending" => TxRes' = TxRes
        /\ target' = target /\ (p # "idle" \/ target[t] = NoTask) => TxTarget' = TxTarget
        /\ \A x : target' = [target EXCEPT ![t] = x] /\ p # "idle" => TxTarget' = [TxTarget EXCEPT ![t] = x]
    BY <1>2, <2>2, <2>3, <2>4, TxMoves
  <2>6. n' = n
    BY <1>2, <2>5, TxCounts
  <2> QED
    BY <1>2, <2>5, <2>6
<1>3. wpc[t] \in {"idle", "pop", "all_load", "all_pop"} => target[t] = NoTask
  <2>1. CASE t \in On(Sender)
    <3>1. TxPos[t] = wpc[t] /\ TxTarget[t] = target[t]
      BY <2>1 DEF TxPos, TxTarget, Only
    <3> QED
      BY <3>1 DEF SidesInv, Tx!WaitListInv, Tx!TargetPos
  <2> QED
    BY <1>1, <2>1, AtRest
<1> HIDE DEF n
<1>4. ASSUME T!WakeLoad(t) PROVE Tx!WakeLoad(t)
  BY <1>2, <1>3, <1>4 DEF T!WakeLoad, Tx!WakeLoad, n
<1>5. ASSUME T!WakePop(t) PROVE Tx!WakePop(t)
  <2>1. wpc[t] = "pop" /\ tspin = NoTask /\ UNCHANGED <<tspin, tempty, tclosed, wres>>
    BY <1>5 DEF T!WakePop
  <2>2. CASE tlist = <<>>
    BY <1>2, <1>3, <1>5, <2>1, <2>2 DEF T!WakePop, Tx!WakePop, n
  <2>3. CASE tlist # <<>>
    <3>1. /\ tlist' = Tail(tlist) /\ target' = [target EXCEPT ![t] = Head(tlist)]
          /\ wpc' = [wpc EXCEPT ![t] = "complete"]
      BY <1>5, <2>3 DEF T!WakePop
    <3>2. "complete" \in ListPos /\ wpc[t] \notin T!WaitPos /\ "complete" \notin T!WaitPos
      BY <2>1
    <3>3. TxPos' = [TxPos EXCEPT ![t] = "complete"] /\ TxPos[t] = wpc[t] /\ TxRes' = TxRes /\ n' = n
      BY <1>2, <2>1, <3>1, <3>2
    <3>4. TxTarget' = [TxTarget EXCEPT ![t] = Head(tlist)]
      BY <1>2, <3>1, <3>2
    <3> QED
      BY <2>1, <2>3, <3>1, <3>3, <3>4 DEF Tx!WakePop, n
  <2> QED
    BY <2>2, <2>3
<1>6. ASSUME T!CloseStore(t) PROVE Tx!Close(t) \/ Tx!WakeAllCall(t)
  BY <1>0, <1>2, <1>3, <1>6 DEF T!CloseStore, Tx!CloseStore, Tx!Close, Tx!WakeAllCall, n
<1>7. ASSUME T!WakeAllLoad(t) PROVE Tx!WakeAllLoad(t)
  BY <1>2, <1>3, <1>7 DEF T!WakeAllLoad, Tx!WakeAllLoad, n
<1>8. ASSUME T!WakeAllLock(t) PROVE Tx!WakeAllLock(t)
  BY <1>2, <1>3, <1>8 DEF T!WakeAllLock, Tx!WakeAllLock, n
<1>9. ASSUME T!WakeAllPop(t) PROVE Tx!WakeAllPop(t)
  <2>1. wpc[t] = "all_pop" /\ UNCHANGED <<tempty, tclosed, wres>>
    BY <1>9 DEF T!WakeAllPop
  <2>2. CASE tlist = <<>>
    BY <1>2, <1>3, <1>9, <2>1, <2>2 DEF T!WakeAllPop, Tx!WakeAllPop, n
  <2>3. CASE tlist # <<>>
    <3>1. /\ tlist' = Tail(tlist) /\ target' = [target EXCEPT ![t] = Head(tlist)]
          /\ wpc' = [wpc EXCEPT ![t] = "all_complete"] /\ UNCHANGED tspin
      BY <1>9, <2>3 DEF T!WakeAllPop
    <3>2. "all_complete" \in ListPos /\ wpc[t] \notin T!WaitPos /\ "all_complete" \notin T!WaitPos
      BY <2>1
    <3>3. TxPos' = [TxPos EXCEPT ![t] = "all_complete"] /\ TxPos[t] = wpc[t] /\ TxRes' = TxRes /\ n' = n
      BY <1>2, <2>1, <3>1, <3>2
    <3>4. TxTarget' = [TxTarget EXCEPT ![t] = Head(tlist)]
      BY <1>2, <3>1, <3>2
    <3> QED
      BY <2>1, <2>3, <3>1, <3>3, <3>4 DEF Tx!WakeAllPop, n
  <2> QED
    BY <2>2, <2>3
<1>10. ASSUME wpc[t] \in {"complete", "all_complete"}, NEW p \in {"idle", "all_pop"},
              wpc' = [wpc EXCEPT ![target[t]] = "ending", ![t] = p],
              wres' = [wres EXCEPT ![target[t]] = "Ok"], target' = [target EXCEPT ![t] = NoTask]
       PROVE  /\ TxPos[t] = wpc[t] /\ TxTarget[t] = target[t]
              /\ TxPos' = [TxPos EXCEPT ![target[t]] = "ending", ![t] = p]
              /\ TxRes' = [TxRes EXCEPT ![target[t]] = "Ok"] /\ TxTarget' = [TxTarget EXCEPT ![t] = NoTask]
              /\ n' = n
  <2>1. t \in On(Sender) /\ TxPos[t] = wpc[t] /\ TxTarget[t] = target[t]
    BY <1>1, <1>10 DEF TxPos, TxTarget, Only
  <2>2. target[t] \in Task /\ target[t] # t /\ TxPos[target[t]] = "parked"
    <3>1. target[t] # NoTask /\ TxPos[target[t]] = "parked"
      BY <1>10, <2>1 DEF SidesInv, Tx!WaitListInv, Tx!TargetPos, Tx!CompletedOnce
    <3> QED
      BY <1>0, <1>10, <2>1, <3>1
  <2>3. PICK h \in Task : h = target[t] /\ h # t /\ TxPos[h] = "parked"
    BY <2>2
  <2>4. h \in On(Sender) /\ wpc[h] = "parked"
    BY <2>3 DEF TxPos, Only
  <2>5. h \in On(Sender)'
    BY <1>1, <2>3, <2>4
  <2>6. /\ \A u \in Task : wpc'[u] = IF u = t THEN p ELSE IF u = h THEN "ending" ELSE wpc[u]
        /\ \A u \in Task : wres'[u] = IF u = h THEN "Ok" ELSE wres[u]
        /\ \A u \in Task : target'[u] = IF u = t THEN NoTask ELSE target[u]
    BY <1>0, <1>10, <2>3 DEF SidesInv, SidesTypeOK
  <2>7. wres[t] = "None" /\ (t \in On(Sender)' \/ p = "idle")
    BY <1>1, <1>10, <2>3, <2>6 DEF SidesInv, Elsewhere
  <2>8. TxPos' = [TxPos EXCEPT ![h] = "ending", ![t] = p]
    BY <1>1, <2>1, <2>3, <2>4, <2>5, <2>6, <2>7 DEF TxPos, Only
  <2>9. TxRes' = [TxRes EXCEPT ![h] = "Ok"]
    BY <1>1, <2>1, <2>3, <2>4, <2>5, <2>6, <2>7 DEF TxRes, Only
  <2>10. TxTarget' = [TxTarget EXCEPT ![t] = NoTask]
    BY <1>1, <2>1, <2>6 DEF TxTarget, Only
  <2>11. \A u \in Task : TxPos'[u] \in T!WaitPos <=> TxPos[u] \in T!WaitPos
    <3>1. \A u \in Task : TxPos'[u] = IF u = t THEN p ELSE IF u = h THEN "ending" ELSE TxPos[u]
      <4>1. DOMAIN TxPos = Task
        BY DEF TxPos, Only
      <4> QED
        BY <2>3, <2>8, <4>1
    <3> QED
      BY <1>10, <2>1, <2>3, <3>1
  <2>12. n' = n
    <3>1. {u \in Task : TxPos'[u] \in T!WaitPos} = {u \in Task : TxPos[u] \in T!WaitPos}
      BY <2>11
    <3> QED
      BY <3>1 DEF n
  <2> QED
    BY <2>1, <2>3, <2>8, <2>9, <2>10, <2>12
<1>11. ASSUME T!WakeComplete(t) PROVE Tx!WakeComplete(t)
  BY <1>10, <1>11 DEF T!WakeComplete, Tx!WakeComplete, n
<1>12. ASSUME T!WakeAllComplete(t) PROVE Tx!WakeAllComplete(t)
  BY <1>10, <1>12 DEF T!WakeAllComplete, Tx!WakeAllComplete, n
<1> QED
  BY <1>4, <1>5, <1>6, <1>7, <1>8, <1>9, <1>11, <1>12
  DEF TxWake, Tx!WaitListNext, Tx!WakeOne, Tx!WakeAll

\* What a step of a task on tx_waiters does to the variables that both lists use:
\* of another task it can only end a wait on tx_waiters.
TxEffect(t) ==
    /\ wpc' \in [Task -> ListPos] /\ wres' \in [Task -> {"None", "Ok", "Cancelled", "Closed"}]
    /\ target' \in [Task -> Task \cup {NoTask}]
    /\ \A u \in Task \ {t} :
         /\ target'[u] = target[u]
         /\ \/ wpc'[u] = wpc[u] /\ wres'[u] = wres[u]
            \/ u \in On(Sender) /\ wpc[u] = "parked" /\ wpc'[u] = "ending" /\ wres'[u] = "Ok"
    /\ wpc'[t] # "ending" => wres'[t] = "None"
    /\ wpc'[t] = "idle" => target'[t] = NoTask

\* The steps of wait have that effect.
LEMMA TxWaitEffect ==
  ASSUME SidesInv, NEW t \in Task, t \in On(Sender) \/ wpc[t] = "idle", TxWait(t)
  PROVE  TxEffect(t) /\ wpc'[t] \in {"idle"} \cup T!WaitPos
<1>0. /\ wpc \in [Task -> ListPos] /\ wres \in [Task -> {"None", "Ok", "Cancelled", "Closed"}]
      /\ target \in [Task -> Task \cup {NoTask}]
      /\ wpc[t] # "ending" => wres[t] = "None"
  BY DEF SidesInv, SidesTypeOK, Elsewhere
<1>1. /\ \E p \in {"idle"} \cup T!WaitPos : wpc' = [wpc EXCEPT ![t] = p] /\ (p = "idle" => wpc[t] = "ending")
      /\ target' = target
      /\ \/ wres' = wres /\ wpc[t] # "ending"
         \/ \E x \in {"Cancelled", "Closed"} : wres' = [wres EXCEPT ![t] = x] /\ wpc' = [wpc EXCEPT ![t] = "ending"]
         \/ wres' = [wres EXCEPT ![t] = "None"]
  BY DEF TxWait, T!WaitBegin, T!SuspendLock, T!CheckClosed, T!EmptyNew, T!ShouldBlock, T!Append_, T!Leave,
         T!CancelUnlink, T!CancelComplete, T!WaitEnd, T!Goto, T!WaitPos
<1>2. wpc[t] = "ending" => target[t] = NoTask
  <2> SUFFICES ASSUME wpc[t] = "ending" PROVE target[t] = NoTask
    OBVIOUS
  <2>1. TxPos[t] = "ending" /\ TxTarget[t] = target[t]
    BY DEF TxPos, TxTarget, Only
  <2> QED
    BY <2>1 DEF SidesInv, Tx!WaitListInv, Tx!TargetPos
<1>3. PICK p \in {"idle"} \cup T!WaitPos : wpc' = [wpc EXCEPT ![t] = p] /\ (p = "idle" => wpc[t] = "ending")
  BY <1>1
<1>4. wpc'[t] = p /\ wpc' \in [Task -> ListPos] /\ \A u \in Task \ {t} : wpc'[u] = wpc[u]
  BY <1>0, <1>3 DEF ListPos
<1>5. /\ wres' \in [Task -> {"None", "Ok", "Cancelled", "Closed"}]
      /\ \A u \in Task \ {t} : wres'[u] = wres[u]
      /\ p # "ending" => wres'[t] = "None"
  <2>1. CASE wres' = wres /\ wpc[t] # "ending"
    BY <1>0, <2>1
  <2>2. ASSUME NEW x \in {"Cancelled", "Closed"}, wres' = [wres EXCEPT ![t] = x], wpc' = [wpc EXCEPT ![t] = "ending"]
        PROVE  /\ wres' \in [Task -> {"None", "Ok", "Cancelled", "Closed"}]
               /\ \A u \in Task \ {t} : wres'[u] = wres[u]
               /\ p = "ending"
    BY <1>0, <1>4, <2>2
  <2>3. CASE wres' = [wres EXCEPT ![t] = "None"]
    BY <1>0, <2>3
  <2> QED
    BY <1>1, <2>1, <2>2, <2>3
<1> QED
  BY <1>0, <1>1, <1>2, <1>3, <1>4, <1>5 DEF TxEffect

\* The steps of wake_one, wake_all and close have that effect.
LEMMA TxWakeEffect ==
  ASSUME SidesInv, NEW t \in Task, t \in On(Sender) \/ wpc[t] = "idle", TxWake(t)
  PROVE  TxEffect(t) /\ wpc'[t] \in {"idle"} \cup T!WakePos
<1>0. /\ wpc \in [Task -> ListPos] /\ wres \in [Task -> {"None", "Ok", "Cancelled", "Closed"}]
      /\ target \in [Task -> Task \cup {NoTask}] /\ tlist \in Seq(Task)
      /\ wpc[t] # "ending" => wres[t] = "None"
  BY DEF SidesInv, SidesTypeOK, Elsewhere, Tx!WaitListInv, Tx!WaitListTypeOK
<1>1. CASE T!WakeLoad(t) \/ T!WakePop(t) \/ T!CloseStore(t) \/ T!WakeAllLoad(t) \/ T!WakeAllLock(t) \/ T!WakeAllPop(t)
  <2>1. /\ wpc[t] \in {"idle"} \cup T!WakePos /\ wpc[t] \notin {"complete", "all_complete"}
        /\ wres' = wres
        /\ \E p \in {"idle"} \cup T!WakePos :
             /\ wpc' = [wpc EXCEPT ![t] = p]
             /\ target' = target \/ (p # "idle" /\ tlist # <<>> /\ target' = [target EXCEPT ![t] = Head(tlist)])
    BY <1>1 DEF T!WakeLoad, T!WakePop, T!CloseStore, T!WakeAllLoad, T!WakeAllLock, T!WakeAllPop, T!Goto, T!WakePos
  <2>2. target[t] = NoTask
    <3>1. CASE t \in On(Sender)
      <4>1. TxPos[t] = wpc[t] /\ TxTarget[t] = target[t]
        BY <3>1 DEF TxPos, TxTarget, Only
      <4> QED
        BY <2>1, <4>1 DEF SidesInv, Tx!WaitListInv, Tx!TargetPos
    <3> QED
      BY <3>1, AtRest
  <2>3. wpc[t] # "ending" /\ (tlist # <<>> => Head(tlist) \in Task)
    BY <1>0, <2>1 DEF T!WakePos
  <2>4. PICK p \in {"idle"} \cup T!WakePos :
             /\ wpc' = [wpc EXCEPT ![t] = p]
             /\ target' = target \/ (p # "idle" /\ tlist # <<>> /\ target' = [target EXCEPT ![t] = Head(tlist)])
    BY <2>1
  <2>5. wpc'[t] = p /\ wpc' \in [Task -> ListPos] /\ \A u \in Task \ {t} : wpc'[u] = wpc[u]
    BY <1>0, <2>4 DEF ListPos
  <2>6. /\ target' \in [Task -> Task \cup {NoTask}] /\ \A u \in Task \ {t} : target'[u] = target[u]
        /\ p = "idle" => target'[t] = NoTask
    BY <1>0, <2>2, <2>3, <2>4
  <2> QED
    BY <1>0, <2>1, <2>3, <2>5, <2>6 DEF TxEffect
<1>2. CASE T!WakeComplete(t) \/ T!WakeAllComplete(t)
  <2>1. /\ wpc[t] \in {"complete", "all_complete"}
        /\ \E p \in {"idle", "all_pop"} : wpc' = [wpc EXCEPT ![target[t]] = "ending", ![t] = p]
        /\ wres' = [wres EXCEPT ![target[t]] = "Ok"] /\ target' = [target EXCEPT ![t] = NoTask]
    BY <1>2 DEF T!WakeComplete, T!WakeAllComplete
  <2>2. t \in On(Sender) /\ TxPos[t] = wpc[t] /\ TxTarget[t] = target[t]
    BY <2>1 DEF TxPos, TxTarget, Only
  <2>3. target[t] # NoTask /\ TxPos[target[t]] = "parked"
    BY <2>1, <2>2 DEF SidesInv, Tx!WaitListInv, Tx!TargetPos, Tx!CompletedOnce
  <2>4. PICK h \in Task : h = target[t]
    BY <1>0, <2>3
  <2>5. h \in On(Sender) /\ wpc[h] = "parked" /\ h # t
    BY <2>1, <2>3, <2>4 DEF TxPos, Only
  <2>6. PICK p \in {"idle", "all_pop"} : wpc' = [wpc EXCEPT ![h] = "ending", ![t] = p]
    BY <2>1, <2>4
  <2>7. /\ wpc'[t] = p /\ wpc'[h] = "ending" /\ \A u \in Task \ {t, h} : wpc'[u] = wpc[u]
        /\ wpc' \in [Task -> ListPos]
    BY <1>0, <2>5, <2>6 DEF ListPos, T!WaitPos, T!WakePos
  <2>8. /\ wres'[h] = "Ok" /\ \A u \in Task \ {h} : wres'[u] = wres[u]
        /\ wres' \in [Task -> {"None", "Ok", "Cancelled", "Closed"}]
        /\ target'[t] = NoTask /\ \A u \in Task \ {t} : target'[u] = target[u]
        /\ target' \in [Task -> Task \cup {NoTask}]
    BY <1>0, <2>1, <2>4
  <2>9. wres'[t] = "None"
    BY <1>0, <2>1, <2>5, <2>8
  <2> QED
    BY <2>5, <2>7, <2>8, <2>9 DEF TxEffect, T!WakePos
<1> QED
  BY <1>1, <1>2 DEF TxWake

\* A step that has nothing to do with tx_waiters.
LEMMA TxUntouched ==
  ASSUME SidesInv, UNCHANGED tvars,
         \A u \in Task :
            \/ /\ u \in On(Sender) <=> u \in On(Sender)'
               /\ u \in On(Sender) => wpc'[u] = wpc[u] /\ wres'[u] = wres[u] /\ target'[u] = target[u]
            \/ wpc[u] = "idle" /\ wpc'[u] = wpc[u] /\ wres'[u] = wres[u] /\ target'[u] = target[u]
  PROVE  UNCHANGED Tx!wvars
<1>1. \A u \in Task : wpc[u] = "idle" => wres[u] = "None" /\ target[u] = NoTask
  BY AtRest
<1>2. TxPos' = TxPos
  BY OnlyKeeps DEF TxPos
<1>3. TxRes' = TxRes
  BY <1>1, OnlyKeeps DEF TxRes
<1>4. TxTarget' = TxTarget
  BY <1>1, OnlyKeeps DEF TxTarget
<1> QED
  BY <1>2, <1>3, <1>4 DEF Tx!wvars, tvars
-----------------------------------------------------------------------------
(* The receivers' side *)

\* A task moves in the code of rx_waiters; its results and its target may change
\* with it.
LEMMA RxMoves ==
  ASSUME SidesInv, NEW t \in Task, NEW p \in ListPos, wpc' = [wpc EXCEPT ![t] = p],
         t \in On(Receiver) \/ wpc[t] = "idle", t \in On(Receiver)' \/ p = "idle",
         \A u \in Task \ {t} : u \in On(Receiver)' <=> u \in On(Receiver)
  PROVE  /\ RxPos' = [RxPos EXCEPT ![t] = p] /\ RxPos[t] = wpc[t]
         /\ wres' = wres /\ (wpc[t] # "ending" \/ t \in On(Receiver)') => RxRes' = RxRes
         /\ \A x : wres' = [wres EXCEPT ![t] = x] /\ (x = "None" \/ t \in On(Receiver)')
                      => RxRes' = [RxRes EXCEPT ![t] = x]
         /\ target' = target /\ (t \in On(Receiver)' \/ target[t] = NoTask) => RxTarget' = RxTarget
         /\ \A x : target' = [target EXCEPT ![t] = x] /\ t \in On(Receiver)'
                      => RxTarget' = [RxTarget EXCEPT ![t] = x]
<1>0. /\ wpc \in [Task -> ListPos] /\ wres \in [Task -> {"None", "Ok", "Cancelled", "Closed"}]
      /\ target \in [Task -> Task \cup {NoTask}]
      /\ t \notin On(Receiver) => wres[t] = "None" /\ target[t] = NoTask
      /\ wpc[t] # "ending" => wres[t] = "None"
  BY AtRest DEF SidesInv, SidesTypeOK, Elsewhere
<1>1. /\ RxPos' = [RxPos EXCEPT ![t] = p] /\ RxPos[t] = wpc[t]
  <2>1. \A u \in Task : wpc'[u] = IF u = t THEN p ELSE wpc[u]
    BY <1>0
  <2> QED
    BY <2>1 DEF RxPos, Only
<1>2. ASSUME wres' = wres, wpc[t] # "ending" \/ t \in On(Receiver)' PROVE RxRes' = RxRes
  <2>1. \A u \in Task : \/ (u \in On(Receiver) <=> u \in On(Receiver)') /\ (u \in On(Receiver) => wres'[u] = wres[u])
                        \/ (u \notin On(Receiver) \/ wres[u] = "None") /\ (u \notin On(Receiver)' \/ wres'[u] = "None")
    BY <1>0, <1>2
  <2> QED
    BY <2>1, OnlyKeeps DEF RxRes
<1>3. ASSUME NEW x, wres' = [wres EXCEPT ![t] = x], x = "None" \/ t \in On(Receiver)'
      PROVE  RxRes' = [RxRes EXCEPT ![t] = x]
  <2>1. \A u \in Task : wres'[u] = IF u = t THEN x ELSE wres[u]
    BY <1>0, <1>3
  <2> QED
    BY <1>0, <1>3, <2>1 DEF RxRes, Only
<1>4. ASSUME target' = target, t \in On(Receiver)' \/ target[t] = NoTask PROVE RxTarget' = RxTarget
  <2>1. \A u \in Task : \/ (u \in On(Receiver) <=> u \in On(Receiver)') /\ (u \in On(Receiver) => target'[u] = target[u])
                        \/ (u \notin On(Receiver) \/ target[u] = NoTask) /\ (u \notin On(Receiver)' \/ target'[u] = NoTask)
    BY <1>0, <1>4
  <2> QED
    BY <2>1, OnlyKeeps DEF RxTarget
<1>5. ASSUME NEW x, target' = [target EXCEPT ![t] = x], t \in On(Receiver)'
      PROVE  RxTarget' = [RxTarget EXCEPT ![t] = x]
  <2>1. \A u \in Task : target'[u] = IF u = t THEN x ELSE target[u]
    BY <1>0, <1>5
  <2> QED
    BY <1>0, <1>5, <2>1 DEF RxTarget, Only
<1> QED
  BY <1>1, <1>2, <1>3, <1>4, <1>5

\* The number of calls of wait in progress on this side.
LEMMA RxCounts ==
  ASSUME NEW t \in Task, NEW p, RxPos' = [RxPos EXCEPT ![t] = p]
  PROVE  LET n == Cardinality({u \in Task : RxPos[u] \in T!WaitPos})
         IN  /\ (p \in T!WaitPos <=> RxPos[t] \in T!WaitPos) => n' = n
             /\ p \in T!WaitPos /\ RxPos[t] \notin T!WaitPos => n' = n + 1
             /\ p \notin T!WaitPos /\ RxPos[t] \in T!WaitPos => n' = n - 1
<1> DEFINE C == {u \in Task : RxPos[u] \in T!WaitPos}
           D == {u \in Task : RxPos'[u] \in T!WaitPos}
<1>1. IsFiniteSet(C)
  BY TasksFinite, FS_Subset
<1>2. \A u \in Task : RxPos'[u] = IF u = t THEN p ELSE RxPos[u]
  BY DEF RxPos, Only
<1>3. (p \in T!WaitPos <=> RxPos[t] \in T!WaitPos) => D = C
  BY <1>2
<1>4. p \in T!WaitPos /\ RxPos[t] \notin T!WaitPos => D = C \cup {t} /\ t \notin C
  BY <1>2
<1>5. p \notin T!WaitPos /\ RxPos[t] \in T!WaitPos => D = C \ {t} /\ t \in C
  BY <1>2
<1> HIDE DEF C, D
<1>6. /\ t \notin C => Cardinality(C \cup {t}) = Cardinality(C) + 1
      /\ t \in C => Cardinality(C \ {t}) = Cardinality(C) - 1
  BY <1>1, FS_AddElement, FS_RemoveElement
<1>7. /\ (p \in T!WaitPos <=> RxPos[t] \in T!WaitPos) => Cardinality(D) = Cardinality(C)
      /\ p \in T!WaitPos /\ RxPos[t] \notin T!WaitPos => Cardinality(D) = Cardinality(C) + 1
      /\ p \notin T!WaitPos /\ RxPos[t] \in T!WaitPos => Cardinality(D) = Cardinality(C) - 1
  BY <1>3, <1>4, <1>5, <1>6
<1> QED
  BY <1>7 DEF C, D

\* The task moves in the code of rx_waiters, or enters it, or leaves it.
RxMover(t) ==
    /\ t \in On(Receiver) \/ wpc[t] = "idle"
    /\ t \in On(Receiver)' \/ wpc'[t] = "idle"
    /\ \A u \in Task \ {t} : u \in On(Receiver)' <=> u \in On(Receiver)

\* The steps on rx_waiters.
RxWait(t) ==
    \/ R!WaitBegin(t) \/ R!SuspendLock(t) \/ R!CheckClosed(t) \/ R!EmptyNew(t)
    \/ R!ShouldBlock(t, TRUE) \/ R!ShouldBlock(t, FALSE) \/ R!Append_(t) \/ R!Leave(t)
    \/ R!CancelUnlink(t) \/ R!CancelComplete(t) \/ R!WaitEnd(t)
RxWake(t) ==
    \/ R!WakeLoad(t) \/ R!WakePop(t) \/ R!WakeComplete(t) \/ R!CloseStore(t)
    \/ R!WakeAllLoad(t) \/ R!WakeAllLock(t) \/ R!WakeAllPop(t) \/ R!WakeAllComplete(t)

\* The steps of wait on rx_waiters.
LEMMA RxWaits ==
  ASSUME SidesInv, NEW t \in Task, RxMover(t), RxWait(t)
  PROVE  Rx!WaitListNext
<1> USE DEF R!Goto, Rx!Goto, ListPos, T!WaitPos, T!WakePos
<1>0. wpc \in [Task -> ListPos]
  BY DEF SidesInv, SidesTypeOK
<1>1. /\ t \in On(Receiver) \/ wpc[t] = "idle"
      /\ t \in On(Receiver)' \/ wpc'[t] = "idle"
      /\ \A u \in Task \ {t} : u \in On(Receiver)' <=> u \in On(Receiver)
  BY DEF RxMover
<1> DEFINE n == Cardinality({u \in Task : RxPos[u] \in T!WaitPos})
<1>2. ASSUME NEW p \in ListPos, wpc' = [wpc EXCEPT ![t] = p]
      PROVE  /\ RxPos' = [RxPos EXCEPT ![t] = p] /\ RxPos[t] = wpc[t]
             /\ wres' = wres /\ (wpc[t] # "ending" \/ p # "idle") => RxRes' = RxRes
             /\ \A x : wres' = [wres EXCEPT ![t] = x] /\ (x = "None" \/ p # "idle")
                          => RxRes' = [RxRes EXCEPT ![t] = x]
             /\ target' = target /\ (p # "idle" \/ target[t] = NoTask) => RxTarget' = RxTarget
             /\ (p \in T!WaitPos <=> wpc[t] \in T!WaitPos) => n' = n
             /\ p \in T!WaitPos /\ wpc[t] \notin T!WaitPos => n' = n + 1
             /\ p \notin T!WaitPos /\ wpc[t] \in T!WaitPos => n' = n - 1
  <2>1. wpc'[t] = p
    BY <1>0, <1>2
  <2>2. t \in On(Receiver) \/ wpc[t] = "idle"
    BY <1>1
  <2>3. t \in On(Receiver)' \/ p = "idle"
    BY <1>1, <2>1
  <2>4. \A u \in Task \ {t} : u \in On(Receiver)' <=> u \in On(Receiver)
    BY <1>1
  <2>5. /\ RxPos' = [RxPos EXCEPT ![t] = p] /\ RxPos[t] = wpc[t]
        /\ wres' = wres /\ (wpc[t] # "ending" \/ p # "idle") => RxRes' = RxRes
        /\ \A x : wres' = [wres EXCEPT ![t] = x] /\ (x = "None" \/ p # "idle")
                     => RxRes' = [RxRes EXCEPT ![t] = x]
        /\ target' = target /\ (p # "idle" \/ target[t] = NoTask) => RxTarget' = RxTarget
    BY <1>2, <2>2, <2>3, <2>4, RxMoves
  <2> QED
    BY <2>5, RxCounts
<1> HIDE DEF n
<1>3. ASSUME R!WaitBegin(t) PROVE Rx!WaitBegin(t)
  BY <1>2, <1>3 DEF R!WaitBegin, Rx!WaitBegin, n
<1>4. ASSUME R!SuspendLock(t) PROVE Rx!SuspendLock(t)
  BY <1>2, <1>4 DEF R!SuspendLock, Rx!SuspendLock, n
<1>5. ASSUME R!CheckClosed(t) PROVE Rx!CheckClosed(t)
  BY <1>2, <1>5 DEF R!CheckClosed, Rx!CheckClosed, n
<1>6. ASSUME R!EmptyNew(t) PROVE Rx!EmptyNew(t)
  BY <1>2, <1>6 DEF R!EmptyNew, Rx!EmptyNew, n
<1>7. ASSUME R!ShouldBlock(t, TRUE) PROVE Rx!ShouldBlock(t, TRUE)
  BY <1>2, <1>7 DEF R!ShouldBlock, Rx!ShouldBlock, n
<1>8. ASSUME R!ShouldBlock(t, FALSE) PROVE Rx!ShouldBlock(t, FALSE)
  BY <1>2, <1>8 DEF R!ShouldBlock, Rx!ShouldBlock, n
<1>9. ASSUME R!Append_(t) PROVE Rx!Append_(t)
  BY <1>2, <1>9 DEF R!Append_, Rx!Append_, n
<1>10. ASSUME R!Leave(t) PROVE Rx!Leave(t)
  BY <1>2, <1>10 DEF R!Leave, Rx!Leave, n
<1>11. ASSUME R!CancelUnlink(t) PROVE Rx!CancelUnlink(t)
  BY <1>2, <1>11 DEF R!CancelUnlink, Rx!CancelUnlink, n, R!Linked, Rx!Linked, R!Nodes, Rx!Nodes, R!Unlink, Rx!Unlink
<1>12. ASSUME R!CancelComplete(t) PROVE Rx!CancelComplete(t)
  BY <1>2, <1>12 DEF R!CancelComplete, Rx!CancelComplete, n
<1>13. ASSUME R!WaitEnd(t) PROVE Rx!WaitEnd(t)
  <2>1. wpc[t] = "ending" /\ t \in On(Receiver)
    BY <1>1, <1>13 DEF R!WaitEnd
  <2>2. RxPos[t] = "ending" /\ RxTarget[t] = target[t]
    BY <2>1 DEF RxPos, RxTarget, Only
  <2>3. target[t] = NoTask
    BY <2>2 DEF SidesInv, Rx!WaitListInv, Rx!TargetPos
  <2>4. /\ wpc' = [wpc EXCEPT ![t] = "idle"] /\ wres' = [wres EXCEPT ![t] = "None"]
        /\ UNCHANGED <<rlist, rspin, rempty, rclosed, target>>
    BY <1>13 DEF R!WaitEnd
  <2>5. /\ RxPos' = [RxPos EXCEPT ![t] = "idle"] /\ RxRes' = [RxRes EXCEPT ![t] = "None"]
        /\ RxTarget' = RxTarget /\ n' = n - 1
    <3>1. "idle" \in ListPos /\ wpc[t] \in T!WaitPos /\ "idle" \notin T!WaitPos
      BY <2>1
    <3>2. RxPos' = [RxPos EXCEPT ![t] = "idle"]
      BY <1>2, <3>1, <2>4
    <3>3. RxTarget' = RxTarget
      BY <1>2, <3>1, <2>3, <2>4
    <3>4. n' = n - 1
      BY <1>2, <3>1, <2>4
    <3>5. RxRes' = [RxRes EXCEPT ![t] = "None"]
      BY <1>2, <3>1, <2>4
    <3> QED
      BY <3>2, <3>3, <3>4, <3>5
  <2> QED
    BY <2>2, <2>4, <2>5 DEF Rx!WaitEnd, n
<1> QED
  BY <1>3, <1>4, <1>5, <1>6, <1>7, <1>8, <1>9, <1>10, <1>11, <1>12, <1>13
  DEF RxWait, Rx!WaitListNext, Rx!Wait, Rx!Cancel

\* The steps of wake_one, wake_all and close on rx_waiters.
LEMMA RxWakes ==
  ASSUME SidesInv, NEW t \in Task, RxMover(t), RxWake(t)
  PROVE  Rx!WaitListNext
<1> USE DEF R!Goto, Rx!Goto, ListPos, T!WaitPos, T!WakePos
<1>0. wpc \in [Task -> ListPos] /\ target \in [Task -> Task \cup {NoTask}] /\ rclosed \in BOOLEAN
  BY DEF SidesInv, SidesTypeOK, Rx!WaitListInv, Rx!WaitListTypeOK
<1>1. /\ t \in On(Receiver) \/ wpc[t] = "idle"
      /\ t \in On(Receiver)' \/ wpc'[t] = "idle"
      /\ \A u \in Task \ {t} : u \in On(Receiver)' <=> u \in On(Receiver)
  BY DEF RxMover
<1> DEFINE n == Cardinality({u \in Task : RxPos[u] \in T!WaitPos})
<1>2. ASSUME NEW p \in ListPos, wpc' = [wpc EXCEPT ![t] = p], wpc[t] \notin T!WaitPos, p \notin T!WaitPos
      PROVE  /\ RxPos' = [RxPos EXCEPT ![t] = p] /\ RxPos[t] = wpc[t]
             /\ wres' = wres => RxRes' = RxRes
             /\ target' = target /\ (p # "idle" \/ target[t] = NoTask) => RxTarget' = RxTarget
             /\ \A x : target' = [target EXCEPT ![t] = x] /\ p # "idle" => RxTarget' = [RxTarget EXCEPT ![t] = x]
             /\ n' = n
  <2>1. wpc'[t] = p
    BY <1>0, <1>2
  <2>2. t \in On(Receiver) \/ wpc[t] = "idle"
    BY <1>1
  <2>3. t \in On(Receiver)' \/ p = "idle"
    BY <1>1, <2>1
  <2>4. \A u \in Task \ {t} : u \in On(Receiver)' <=> u \in On(Receiver)
    BY <1>1
  <2>5. /\ RxPos' = [RxPos EXCEPT ![t] = p] /\ RxPos[t] = wpc[t]
        /\ wres' = wres /\ wpc[t] # "ending" => RxRes' = RxRes
        /\ target' = target /\ (p # "idle" \/ target[t] = NoTask) => RxTarget' = RxTarget
        /\ \A x : target' = [target EXCEPT ![t] = x] /\ p # "idle" => RxTarget' = [RxTarget EXCEPT ![t] = x]
    BY <1>2, <2>2, <2>3, <2>4, RxMoves
  <2>6. n' = n
    BY <1>2, <2>5, RxCounts
  <2> QED
    BY <1>2, <2>5, <2>6
<1>3. wpc[t] \in {"idle", "pop", "all_load", "all_pop"} => target[t] = NoTask
  <2>1. CASE t \in On(Receiver)
    <3>1. RxPos[t] = wpc[t] /\ RxTarget[t] = target[t]
      BY <2>1 DEF RxPos, RxTarget, Only
    <3> QED
      BY <3>1 DEF SidesInv, Rx!WaitListInv, Rx!TargetPos
  <2> QED
    BY <1>1, <2>1, AtRest
<1> HIDE DEF n
<1>4. ASSUME R!WakeLoad(t) PROVE Rx!WakeLoad(t)
  BY <1>2, <1>3, <1>4 DEF R!WakeLoad, Rx!WakeLoad, n
<1>5. ASSUME R!WakePop(t) PROVE Rx!WakePop(t)
  <2>1. wpc[t] = "pop" /\ rspin = NoTask /\ UNCHANGED <<rspin, rempty, rclosed, wres>>
    BY <1>5 DEF R!WakePop
  <2>2. CASE rlist = <<>>
    BY <1>2, <1>3, <1>5, <2>1, <2>2 DEF R!WakePop, Rx!WakePop, n
  <2>3. CASE rlist # <<>>
    <3>1. /\ rlist' = Tail(rlist) /\ target' = [target EXCEPT ![t] = Head(rlist)]
          /\ wpc' = [wpc EXCEPT ![t] = "complete"]
      BY <1>5, <2>3 DEF R!WakePop
    <3>2. "complete" \in ListPos /\ wpc[t] \notin T!WaitPos /\ "complete" \notin T!WaitPos
      BY <2>1
    <3>3. RxPos' = [RxPos EXCEPT ![t] = "complete"] /\ RxPos[t] = wpc[t] /\ RxRes' = RxRes /\ n' = n
      BY <1>2, <2>1, <3>1, <3>2
    <3>4. RxTarget' = [RxTarget EXCEPT ![t] = Head(rlist)]
      BY <1>2, <3>1, <3>2
    <3> QED
      BY <2>1, <2>3, <3>1, <3>3, <3>4 DEF Rx!WakePop, n
  <2> QED
    BY <2>2, <2>3
<1>6. ASSUME R!CloseStore(t) PROVE Rx!Close(t) \/ Rx!WakeAllCall(t)
  BY <1>0, <1>2, <1>3, <1>6 DEF R!CloseStore, Rx!CloseStore, Rx!Close, Rx!WakeAllCall, n
<1>7. ASSUME R!WakeAllLoad(t) PROVE Rx!WakeAllLoad(t)
  BY <1>2, <1>3, <1>7 DEF R!WakeAllLoad, Rx!WakeAllLoad, n
<1>8. ASSUME R!WakeAllLock(t) PROVE Rx!WakeAllLock(t)
  BY <1>2, <1>3, <1>8 DEF R!WakeAllLock, Rx!WakeAllLock, n
<1>9. ASSUME R!WakeAllPop(t) PROVE Rx!WakeAllPop(t)
  <2>1. wpc[t] = "all_pop" /\ UNCHANGED <<rempty, rclosed, wres>>
    BY <1>9 DEF R!WakeAllPop
  <2>2. CASE rlist = <<>>
    BY <1>2, <1>3, <1>9, <2>1, <2>2 DEF R!WakeAllPop, Rx!WakeAllPop, n
  <2>3. CASE rlist # <<>>
    <3>1. /\ rlist' = Tail(rlist) /\ target' = [target EXCEPT ![t] = Head(rlist)]
          /\ wpc' = [wpc EXCEPT ![t] = "all_complete"] /\ UNCHANGED rspin
      BY <1>9, <2>3 DEF R!WakeAllPop
    <3>2. "all_complete" \in ListPos /\ wpc[t] \notin T!WaitPos /\ "all_complete" \notin T!WaitPos
      BY <2>1
    <3>3. RxPos' = [RxPos EXCEPT ![t] = "all_complete"] /\ RxPos[t] = wpc[t] /\ RxRes' = RxRes /\ n' = n
      BY <1>2, <2>1, <3>1, <3>2
    <3>4. RxTarget' = [RxTarget EXCEPT ![t] = Head(rlist)]
      BY <1>2, <3>1, <3>2
    <3> QED
      BY <2>1, <2>3, <3>1, <3>3, <3>4 DEF Rx!WakeAllPop, n
  <2> QED
    BY <2>2, <2>3
<1>10. ASSUME wpc[t] \in {"complete", "all_complete"}, NEW p \in {"idle", "all_pop"},
              wpc' = [wpc EXCEPT ![target[t]] = "ending", ![t] = p],
              wres' = [wres EXCEPT ![target[t]] = "Ok"], target' = [target EXCEPT ![t] = NoTask]
       PROVE  /\ RxPos[t] = wpc[t] /\ RxTarget[t] = target[t]
              /\ RxPos' = [RxPos EXCEPT ![target[t]] = "ending", ![t] = p]
              /\ RxRes' = [RxRes EXCEPT ![target[t]] = "Ok"] /\ RxTarget' = [RxTarget EXCEPT ![t] = NoTask]
              /\ n' = n
  <2>1. t \in On(Receiver) /\ RxPos[t] = wpc[t] /\ RxTarget[t] = target[t]
    BY <1>1, <1>10 DEF RxPos, RxTarget, Only
  <2>2. target[t] \in Task /\ target[t] # t /\ RxPos[target[t]] = "parked"
    <3>1. target[t] # NoTask /\ RxPos[target[t]] = "parked"
      BY <1>10, <2>1 DEF SidesInv, Rx!WaitListInv, Rx!TargetPos, Rx!CompletedOnce
    <3> QED
      BY <1>0, <1>10, <2>1, <3>1
  <2>3. PICK h \in Task : h = target[t] /\ h # t /\ RxPos[h] = "parked"
    BY <2>2
  <2>4. h \in On(Receiver) /\ wpc[h] = "parked"
    BY <2>3 DEF RxPos, Only
  <2>5. h \in On(Receiver)'
    BY <1>1, <2>3, <2>4
  <2>6. /\ \A u \in Task : wpc'[u] = IF u = t THEN p ELSE IF u = h THEN "ending" ELSE wpc[u]
        /\ \A u \in Task : wres'[u] = IF u = h THEN "Ok" ELSE wres[u]
        /\ \A u \in Task : target'[u] = IF u = t THEN NoTask ELSE target[u]
    BY <1>0, <1>10, <2>3 DEF SidesInv, SidesTypeOK
  <2>7. wres[t] = "None" /\ (t \in On(Receiver)' \/ p = "idle")
    BY <1>1, <1>10, <2>3, <2>6, ZenonT(30) DEF SidesInv, Elsewhere
  <2>8. RxPos' = [RxPos EXCEPT ![h] = "ending", ![t] = p]
    BY <1>1, <2>1, <2>3, <2>4, <2>5, <2>6, <2>7 DEF RxPos, Only
  <2>9. RxRes' = [RxRes EXCEPT ![h] = "Ok"]
    BY <1>1, <2>1, <2>3, <2>4, <2>5, <2>6, <2>7 DEF RxRes, Only
  <2>10. RxTarget' = [RxTarget EXCEPT ![t] = NoTask]
    BY <1>1, <2>1, <2>6 DEF RxTarget, Only
  <2>11. \A u \in Task : RxPos'[u] \in T!WaitPos <=> RxPos[u] \in T!WaitPos
    <3>1. \A u \in Task : RxPos'[u] = IF u = t THEN p ELSE IF u = h THEN "ending" ELSE RxPos[u]
      <4>1. DOMAIN RxPos = Task
        BY DEF RxPos, Only
      <4> QED
        BY <2>3, <2>8, <4>1
    <3> QED
      BY <1>10, <2>1, <2>3, <3>1
  <2>12. n' = n
    <3>1. {u \in Task : RxPos'[u] \in T!WaitPos} = {u \in Task : RxPos[u] \in T!WaitPos}
      BY <2>11
    <3> QED
      BY <3>1 DEF n
  <2> QED
    BY <2>1, <2>3, <2>8, <2>9, <2>10, <2>12
<1>11. ASSUME R!WakeComplete(t) PROVE Rx!WakeComplete(t)
  BY <1>10, <1>11 DEF R!WakeComplete, Rx!WakeComplete, n
<1>12. ASSUME R!WakeAllComplete(t) PROVE Rx!WakeAllComplete(t)
  BY <1>10, <1>12 DEF R!WakeAllComplete, Rx!WakeAllComplete, n
<1> QED
  BY <1>4, <1>5, <1>6, <1>7, <1>8, <1>9, <1>11, <1>12
  DEF RxWake, Rx!WaitListNext, Rx!WakeOne, Rx!WakeAll

\* What a step of a task on rx_waiters does to the variables that both lists use:
\* of another task it can only end a wait on rx_waiters.
RxEffect(t) ==
    /\ wpc' \in [Task -> ListPos] /\ wres' \in [Task -> {"None", "Ok", "Cancelled", "Closed"}]
    /\ target' \in [Task -> Task \cup {NoTask}]
    /\ \A u \in Task \ {t} :
         /\ target'[u] = target[u]
         /\ \/ wpc'[u] = wpc[u] /\ wres'[u] = wres[u]
            \/ u \in On(Receiver) /\ wpc[u] = "parked" /\ wpc'[u] = "ending" /\ wres'[u] = "Ok"
    /\ wpc'[t] # "ending" => wres'[t] = "None"
    /\ wpc'[t] = "idle" => target'[t] = NoTask

\* The steps of wait have that effect.
LEMMA RxWaitEffect ==
  ASSUME SidesInv, NEW t \in Task, t \in On(Receiver) \/ wpc[t] = "idle", RxWait(t)
  PROVE  RxEffect(t) /\ wpc'[t] \in {"idle"} \cup T!WaitPos
<1>0. /\ wpc \in [Task -> ListPos] /\ wres \in [Task -> {"None", "Ok", "Cancelled", "Closed"}]
      /\ target \in [Task -> Task \cup {NoTask}]
      /\ wpc[t] # "ending" => wres[t] = "None"
  BY DEF SidesInv, SidesTypeOK, Elsewhere
<1>1. /\ \E p \in {"idle"} \cup T!WaitPos : wpc' = [wpc EXCEPT ![t] = p] /\ (p = "idle" => wpc[t] = "ending")
      /\ target' = target
      /\ \/ wres' = wres /\ wpc[t] # "ending"
         \/ \E x \in {"Cancelled", "Closed"} : wres' = [wres EXCEPT ![t] = x] /\ wpc' = [wpc EXCEPT ![t] = "ending"]
         \/ wres' = [wres EXCEPT ![t] = "None"]
  BY DEF RxWait, R!WaitBegin, R!SuspendLock, R!CheckClosed, R!EmptyNew, R!ShouldBlock, R!Append_, R!Leave,
         R!CancelUnlink, R!CancelComplete, R!WaitEnd, R!Goto, T!WaitPos
<1>2. wpc[t] = "ending" => target[t] = NoTask
  <2> SUFFICES ASSUME wpc[t] = "ending" PROVE target[t] = NoTask
    OBVIOUS
  <2>1. RxPos[t] = "ending" /\ RxTarget[t] = target[t]
    BY DEF RxPos, RxTarget, Only
  <2> QED
    BY <2>1 DEF SidesInv, Rx!WaitListInv, Rx!TargetPos
<1>3. PICK p \in {"idle"} \cup T!WaitPos : wpc' = [wpc EXCEPT ![t] = p] /\ (p = "idle" => wpc[t] = "ending")
  BY <1>1
<1>4. wpc'[t] = p /\ wpc' \in [Task -> ListPos] /\ \A u \in Task \ {t} : wpc'[u] = wpc[u]
  BY <1>0, <1>3 DEF ListPos
<1>5. /\ wres' \in [Task -> {"None", "Ok", "Cancelled", "Closed"}]
      /\ \A u \in Task \ {t} : wres'[u] = wres[u]
      /\ p # "ending" => wres'[t] = "None"
  <2>1. CASE wres' = wres /\ wpc[t] # "ending"
    BY <1>0, <2>1
  <2>2. ASSUME NEW x \in {"Cancelled", "Closed"}, wres' = [wres EXCEPT ![t] = x], wpc' = [wpc EXCEPT ![t] = "ending"]
        PROVE  /\ wres' \in [Task -> {"None", "Ok", "Cancelled", "Closed"}]
               /\ \A u \in Task \ {t} : wres'[u] = wres[u]
               /\ p = "ending"
    BY <1>0, <1>4, <2>2
  <2>3. CASE wres' = [wres EXCEPT ![t] = "None"]
    BY <1>0, <2>3
  <2> QED
    BY <1>1, <2>1, <2>2, <2>3
<1> QED
  BY <1>0, <1>1, <1>2, <1>3, <1>4, <1>5 DEF RxEffect

\* The steps of wake_one, wake_all and close have that effect.
LEMMA RxWakeEffect ==
  ASSUME SidesInv, NEW t \in Task, t \in On(Receiver) \/ wpc[t] = "idle", RxWake(t)
  PROVE  RxEffect(t) /\ wpc'[t] \in {"idle"} \cup T!WakePos
<1>0. /\ wpc \in [Task -> ListPos] /\ wres \in [Task -> {"None", "Ok", "Cancelled", "Closed"}]
      /\ target \in [Task -> Task \cup {NoTask}] /\ rlist \in Seq(Task)
      /\ wpc[t] # "ending" => wres[t] = "None"
  BY DEF SidesInv, SidesTypeOK, Elsewhere, Rx!WaitListInv, Rx!WaitListTypeOK
<1>1. CASE R!WakeLoad(t) \/ R!WakePop(t) \/ R!CloseStore(t) \/ R!WakeAllLoad(t) \/ R!WakeAllLock(t) \/ R!WakeAllPop(t)
  <2>1. /\ wpc[t] \in {"idle"} \cup T!WakePos /\ wpc[t] \notin {"complete", "all_complete"}
        /\ wres' = wres
        /\ \E p \in {"idle"} \cup T!WakePos :
             /\ wpc' = [wpc EXCEPT ![t] = p]
             /\ target' = target \/ (p # "idle" /\ rlist # <<>> /\ target' = [target EXCEPT ![t] = Head(rlist)])
    BY <1>1 DEF R!WakeLoad, R!WakePop, R!CloseStore, R!WakeAllLoad, R!WakeAllLock, R!WakeAllPop, R!Goto, T!WakePos
  <2>2. target[t] = NoTask
    <3>1. CASE t \in On(Receiver)
      <4>1. RxPos[t] = wpc[t] /\ RxTarget[t] = target[t]
        BY <3>1 DEF RxPos, RxTarget, Only
      <4> QED
        BY <2>1, <4>1 DEF SidesInv, Rx!WaitListInv, Rx!TargetPos
    <3> QED
      BY <3>1, AtRest
  <2>3. wpc[t] # "ending" /\ (rlist # <<>> => Head(rlist) \in Task)
    BY <1>0, <2>1 DEF T!WakePos
  <2>4. PICK p \in {"idle"} \cup T!WakePos :
             /\ wpc' = [wpc EXCEPT ![t] = p]
             /\ target' = target \/ (p # "idle" /\ rlist # <<>> /\ target' = [target EXCEPT ![t] = Head(rlist)])
    BY <2>1
  <2>5. wpc'[t] = p /\ wpc' \in [Task -> ListPos] /\ \A u \in Task \ {t} : wpc'[u] = wpc[u]
    BY <1>0, <2>4 DEF ListPos
  <2>6. /\ target' \in [Task -> Task \cup {NoTask}] /\ \A u \in Task \ {t} : target'[u] = target[u]
        /\ p = "idle" => target'[t] = NoTask
    BY <1>0, <2>2, <2>3, <2>4
  <2> QED
    BY <1>0, <2>1, <2>3, <2>5, <2>6 DEF RxEffect
<1>2. CASE R!WakeComplete(t) \/ R!WakeAllComplete(t)
  <2>1. /\ wpc[t] \in {"complete", "all_complete"}
        /\ \E p \in {"idle", "all_pop"} : wpc' = [wpc EXCEPT ![target[t]] = "ending", ![t] = p]
        /\ wres' = [wres EXCEPT ![target[t]] = "Ok"] /\ target' = [target EXCEPT ![t] = NoTask]
    BY <1>2 DEF R!WakeComplete, R!WakeAllComplete
  <2>2. t \in On(Receiver) /\ RxPos[t] = wpc[t] /\ RxTarget[t] = target[t]
    BY <2>1 DEF RxPos, RxTarget, Only
  <2>3. target[t] # NoTask /\ RxPos[target[t]] = "parked"
    BY <2>1, <2>2 DEF SidesInv, Rx!WaitListInv, Rx!TargetPos, Rx!CompletedOnce
  <2>4. PICK h \in Task : h = target[t]
    BY <1>0, <2>3
  <2>5. h \in On(Receiver) /\ wpc[h] = "parked" /\ h # t
    BY <2>1, <2>3, <2>4 DEF RxPos, Only
  <2>6. PICK p \in {"idle", "all_pop"} : wpc' = [wpc EXCEPT ![h] = "ending", ![t] = p]
    BY <2>1, <2>4
  <2>7. /\ wpc'[t] = p /\ wpc'[h] = "ending" /\ \A u \in Task \ {t, h} : wpc'[u] = wpc[u]
        /\ wpc' \in [Task -> ListPos]
    BY <1>0, <2>5, <2>6 DEF ListPos, T!WaitPos, T!WakePos
  <2>8. /\ wres'[h] = "Ok" /\ \A u \in Task \ {h} : wres'[u] = wres[u]
        /\ wres' \in [Task -> {"None", "Ok", "Cancelled", "Closed"}]
        /\ target'[t] = NoTask /\ \A u \in Task \ {t} : target'[u] = target[u]
        /\ target' \in [Task -> Task \cup {NoTask}]
    BY <1>0, <2>1, <2>4
  <2>9. wres'[t] = "None"
    BY <1>0, <2>1, <2>5, <2>8
  <2> QED
    BY <2>5, <2>7, <2>8, <2>9 DEF RxEffect, T!WakePos
<1> QED
  BY <1>1, <1>2 DEF RxWake

\* A step that has nothing to do with rx_waiters.
LEMMA RxUntouched ==
  ASSUME SidesInv, UNCHANGED rvars,
         \A u \in Task :
            \/ /\ u \in On(Receiver) <=> u \in On(Receiver)'
               /\ u \in On(Receiver) => wpc'[u] = wpc[u] /\ wres'[u] = wres[u] /\ target'[u] = target[u]
            \/ wpc[u] = "idle" /\ wpc'[u] = wpc[u] /\ wres'[u] = wres[u] /\ target'[u] = target[u]
  PROVE  UNCHANGED Rx!wvars
<1>1. \A u \in Task : wpc[u] = "idle" => wres[u] = "None" /\ target[u] = NoTask
  BY AtRest
<1>2. RxPos' = RxPos
  BY OnlyKeeps DEF RxPos
<1>3. RxRes' = RxRes
  BY <1>1, OnlyKeeps DEF RxRes
<1>4. RxTarget' = RxTarget
  BY <1>1, OnlyKeeps DEF RxTarget
<1> QED
  BY <1>2, <1>3, <1>4 DEF Rx!wvars, rvars
-----------------------------------------------------------------------------
(* Both sides *)

\* A step is one of both lists, or leaves a list alone; it keeps the types and of the
\* other tasks it can only end a wait.
SidesStep(t) ==
    /\ [Tx!WaitListNext]_Tx!wvars /\ [Rx!WaitListNext]_Rx!wvars
    /\ wpc' \in [Task -> ListPos] /\ wres' \in [Task -> {"None", "Ok", "Cancelled", "Closed"}]
    /\ target' \in [Task -> Task \cup {NoTask}]
    /\ Elsewhere'
    /\ \A u \in Task \ {t} : \/ wpc'[u] = wpc[u] /\ wres'[u] = wres[u]
                             \/ wpc[u] = "parked" /\ wpc'[u] = "ending" /\ wres'[u] = "Ok"

\* A task is in the code of one list at a time.
LEMMA OneSide ==
  \A t \in Task : /\ t \in On(Sender) => t \notin On(Receiver)
                  /\ t \in On(Sender)' => t \notin On(Receiver)'
  BY TasksAssumption DEF On, Task

\* A step of t on one list does not move the other tasks between the lists.
LEMMA OthersStay ==
  ASSUME SidesInv, NEW t \in Task, NEW W, pc' \in [Task -> TaskPos],
         \A u \in Task \ {t} : pc'[u] = pc[u]
  PROVE  \A u \in Task \ {t} : u \in On(W)' <=> u \in On(W)
  BY DEF On

\* A step of t on tx_waiters.
LEMMA TxSideStep ==
  ASSUME SidesInv, NEW t \in Task, UNCHANGED rvars,
         pc' \in [Task -> TaskPos], \A u \in Task \ {t} : pc'[u] = pc[u],
         t \in On(Sender) \/ (wpc[t] = "idle" /\ t \notin On(Receiver)),
         t \in On(Sender)' \/ (wpc'[t] = "idle" /\ t \notin On(Receiver)'),
         \/ TxWait(t) /\ pc'[t] \notin {"wake", "closing", "shut"}
         \/ TxWake(t) /\ pc'[t] \notin {"wait", "count", "closed"}
  PROVE  SidesStep(t)
<1>1. TxMover(t)
  BY OthersStay DEF TxMover
<1>2. Tx!WaitListNext
  BY <1>1, TxWaits, TxWakes
<1>3. /\ TxEffect(t)
      /\ TxWait(t) => wpc'[t] \in {"idle"} \cup T!WaitPos
      /\ TxWake(t) => wpc'[t] \in {"idle"} \cup T!WakePos
  BY TxWaitEffect, TxWakeEffect
<1>4. \A u \in Task \ {t} : (u \in On(Receiver)' <=> u \in On(Receiver)) /\ (u \in On(Sender)' <=> u \in On(Sender))
  BY OthersStay
<1>5. t \notin On(Receiver) /\ t \notin On(Receiver)'
  BY OneSide
<1>6. UNCHANGED Rx!wvars
  <2>1. \A u \in Task :
            /\ u \in On(Receiver) <=> u \in On(Receiver)'
            /\ u \in On(Receiver) => wpc'[u] = wpc[u] /\ wres'[u] = wres[u] /\ target'[u] = target[u]
    BY <1>3, <1>4, <1>5, OneSide DEF TxEffect
  <2> QED
    BY <2>1, RxUntouched
<1>7. Elsewhere'
  <2> SUFFICES ASSUME NEW u \in Task
               PROVE  /\ u \notin On(Sender)' \cup On(Receiver)' => wpc'[u] = "idle" /\ target'[u] = NoTask
                      /\ pc'[u] \in {"wait", "count", "closed"} => wpc'[u] \in {"idle"} \cup T!WaitPos
                      /\ pc'[u] \in {"wake", "closing", "shut"} => wpc'[u] \in {"idle"} \cup T!WakePos
                      /\ wpc'[u] # "ending" => wres'[u] = "None"
    BY DEF Elsewhere
  <2>1. CASE u = t
    BY <1>3, <2>1 DEF TxEffect
  <2>2. CASE u # t
    <3>1. /\ u \notin On(Sender) \cup On(Receiver) => wpc[u] = "idle" /\ target[u] = NoTask
          /\ pc[u] \in {"wait", "count", "closed"} => wpc[u] \in {"idle"} \cup T!WaitPos
          /\ pc[u] \in {"wake", "closing", "shut"} => wpc[u] \in {"idle"} \cup T!WakePos
          /\ wpc[u] # "ending" => wres[u] = "None"
          /\ pc'[u] = pc[u]
      BY <2>2 DEF SidesInv, Elsewhere
    <3>2. target'[u] = target[u]
      BY <1>3, <2>2 DEF TxEffect
    <3>3. \/ wpc'[u] = wpc[u] /\ wres'[u] = wres[u]
          \/ u \in On(Sender) /\ wpc[u] = "parked" /\ wpc'[u] = "ending" /\ wres'[u] = "Ok"
      BY <1>3, <2>2 DEF TxEffect
    <3> QED
      BY <1>4, <2>2, <3>1, <3>2, <3>3 DEF T!WaitPos, T!WakePos
  <2> QED
    BY <2>1, <2>2
<1> QED
  BY <1>2, <1>3, <1>6, <1>7 DEF SidesStep, TxEffect

\* A step of t on rx_waiters.
LEMMA RxSideStep ==
  ASSUME SidesInv, NEW t \in Task, UNCHANGED tvars,
         pc' \in [Task -> TaskPos], \A u \in Task \ {t} : pc'[u] = pc[u],
         t \in On(Receiver) \/ (wpc[t] = "idle" /\ t \notin On(Sender)),
         t \in On(Receiver)' \/ (wpc'[t] = "idle" /\ t \notin On(Sender)'),
         \/ RxWait(t) /\ pc'[t] \notin {"wake", "closing", "shut"}
         \/ RxWake(t) /\ pc'[t] \notin {"wait", "count", "closed"}
  PROVE  SidesStep(t)
<1>1. RxMover(t)
  BY OthersStay DEF RxMover
<1>2. Rx!WaitListNext
  BY <1>1, RxWaits, RxWakes
<1>3. /\ RxEffect(t)
      /\ RxWait(t) => wpc'[t] \in {"idle"} \cup T!WaitPos
      /\ RxWake(t) => wpc'[t] \in {"idle"} \cup T!WakePos
  BY RxWaitEffect, RxWakeEffect
<1>4. \A u \in Task \ {t} : (u \in On(Sender)' <=> u \in On(Sender)) /\ (u \in On(Receiver)' <=> u \in On(Receiver))
  BY OthersStay
<1>5. t \notin On(Sender) /\ t \notin On(Sender)'
  BY OneSide
<1>6. UNCHANGED Tx!wvars
  <2>1. \A u \in Task :
            /\ u \in On(Sender) <=> u \in On(Sender)'
            /\ u \in On(Sender) => wpc'[u] = wpc[u] /\ wres'[u] = wres[u] /\ target'[u] = target[u]
    BY <1>3, <1>4, <1>5, OneSide DEF RxEffect
  <2> QED
    BY <2>1, TxUntouched
<1>7. Elsewhere'
  <2> SUFFICES ASSUME NEW u \in Task
               PROVE  /\ u \notin On(Receiver)' \cup On(Sender)' => wpc'[u] = "idle" /\ target'[u] = NoTask
                      /\ pc'[u] \in {"wait", "count", "closed"} => wpc'[u] \in {"idle"} \cup T!WaitPos
                      /\ pc'[u] \in {"wake", "closing", "shut"} => wpc'[u] \in {"idle"} \cup T!WakePos
                      /\ wpc'[u] # "ending" => wres'[u] = "None"
    BY DEF Elsewhere
  <2>1. CASE u = t
    BY <1>3, <2>1 DEF RxEffect
  <2>2. CASE u # t
    <3>1. /\ u \notin On(Receiver) \cup On(Sender) => wpc[u] = "idle" /\ target[u] = NoTask
          /\ pc[u] \in {"wait", "count", "closed"} => wpc[u] \in {"idle"} \cup T!WaitPos
          /\ pc[u] \in {"wake", "closing", "shut"} => wpc[u] \in {"idle"} \cup T!WakePos
          /\ wpc[u] # "ending" => wres[u] = "None"
          /\ pc'[u] = pc[u]
      BY <2>2 DEF SidesInv, Elsewhere
    <3>2. target'[u] = target[u]
      BY <1>3, <2>2 DEF RxEffect
    <3>3. \/ wpc'[u] = wpc[u] /\ wres'[u] = wres[u]
          \/ u \in On(Receiver) /\ wpc[u] = "parked" /\ wpc'[u] = "ending" /\ wres'[u] = "Ok"
      BY <1>3, <2>2 DEF RxEffect
    <3> QED
      BY <1>4, <2>2, <3>1, <3>2, <3>3 DEF T!WaitPos, T!WakePos
  <2> QED
    BY <2>1, <2>2
<1> QED
  BY <1>2, <1>3, <1>6, <1>7 DEF SidesStep, RxEffect

\* A step outside the code of both lists.
LEMMA OffLists ==
  ASSUME SidesInv, NEW t \in Task, UNCHANGED <<tvars, rvars, svars>>,
         pc' \in [Task -> TaskPos], \A u \in Task \ {t} : pc'[u] = pc[u],
         \/ wpc[t] = "idle"
         \/ pc'[t] = pc[t]
         \/ {pc[t], pc'[t]} \subseteq {"wait", "count"}
  PROVE  SidesStep(t)
<1>1. \A u \in Task \ {t} : (u \in On(Receiver)' <=> u \in On(Receiver)) /\ (u \in On(Sender)' <=> u \in On(Sender))
  BY OthersStay
<1>2. wpc[t] = "idle" \/ ((t \in On(Receiver)' <=> t \in On(Receiver)) /\ (t \in On(Sender)' <=> t \in On(Sender)))
  BY DEF On
<1>3. UNCHANGED <<wpc, wres, target>>
  BY DEF svars
<1>4. UNCHANGED Tx!wvars
  BY <1>1, <1>2, <1>3, TxUntouched
<1>5. UNCHANGED Rx!wvars
  BY <1>1, <1>2, <1>3, RxUntouched
<1>6. Elsewhere'
  <2> SUFFICES ASSUME NEW u \in Task
               PROVE  /\ u \notin On(Sender)' \cup On(Receiver)' => wpc[u] = "idle" /\ target[u] = NoTask
                      /\ pc'[u] \in {"wait", "count", "closed"} => wpc[u] \in {"idle"} \cup T!WaitPos
                      /\ pc'[u] \in {"wake", "closing", "shut"} => wpc[u] \in {"idle"} \cup T!WakePos
                      /\ wpc[u] # "ending" => wres[u] = "None"
    BY <1>3 DEF Elsewhere
  <2>1. /\ u \notin On(Sender) \cup On(Receiver) => wpc[u] = "idle" /\ target[u] = NoTask
        /\ pc[u] \in {"wait", "count", "closed"} => wpc[u] \in {"idle"} \cup T!WaitPos
        /\ pc[u] \in {"wake", "closing", "shut"} => wpc[u] \in {"idle"} \cup T!WakePos
        /\ wpc[u] # "ending" => wres[u] = "None"
        /\ wpc[u] = "idle" => target[u] = NoTask
    BY AtRest DEF SidesInv, Elsewhere
  <2>2. CASE u = t
    <3>1. CASE wpc[t] = "idle"
      BY <2>1, <2>2, <3>1
    <3>2. CASE pc'[t] = pc[t]
      BY <1>2, <2>1, <2>2, <3>2
    <3>3. CASE {pc[t], pc'[t]} \subseteq {"wait", "count"}
      BY <1>2, <2>1, <2>2, <3>3
    <3> QED
      BY <3>1, <3>2, <3>3
  <2>3. CASE u # t
    BY <1>1, <2>1, <2>3
  <2> QED
    BY <2>2, <2>3
<1> QED
  BY <1>3, <1>4, <1>5, <1>6 DEF SidesStep, SidesInv, SidesTypeOK

\* What an action does to pc.
LEMMA Jumps ==
  ASSUME SidesInv, NEW t \in Task, NEW p \in TaskPos, Jump(t, p)
  PROVE  pc' \in [Task -> TaskPos] /\ pc'[t] = p /\ \A u \in Task \ {t} : pc'[u] = pc[u]
  BY DEF SidesInv, SidesTypeOK, Jump

\* What is left to show of a step of t.
LEMMA SidesPreserved ==
  ASSUME SidesInv, NEW t \in Task, SidesStep(t),
         pc' \in [Task -> TaskPos], \A u \in Task \ {t} : pc'[u] = pc[u],
         \/ interrupted' = interrupted
         \/ interrupted' = [interrupted EXCEPT ![t] = TRUE],
         pc'[t] = "closed" => t \in Sender /\ wpc'[t] # "leave" /\ (wres'[t] = "Cancelled" => interrupted'[t])
  PROVE  SidesInv'
<1>1. Tx!WaitListInv' /\ Rx!WaitListInv'
  BY SidesKeep DEF SidesStep, SidesInv
<1>2. interrupted' \in [Task -> BOOLEAN] /\ \A u \in Task \ {t} : interrupted'[u] = interrupted[u]
  BY DEF SidesInv, SidesTypeOK
<1>3. SidesTypeOK'
  BY <1>2 DEF SidesStep, SidesTypeOK
<1>4. Watching'
  <2> SUFFICES ASSUME NEW u \in Task, pc'[u] = "closed"
               PROVE  u \in Sender /\ wpc'[u] # "leave" /\ (wres'[u] = "Cancelled" => interrupted'[u])
    BY DEF Watching
  <2>1. CASE u = t
    BY <2>1
  <2>2. CASE u # t
    BY <1>2, <2>2 DEF SidesInv, Watching, SidesStep
  <2> QED
    BY <2>1, <2>2
<1> QED
  BY <1>1, <1>3, <1>4 DEF SidesInv, SidesStep

\* A task is in the code of a list only where the channel calls it.
LEMMA Outside ==
  ASSUME SidesInv, NEW t \in Task, pc[t] \notin {"wait", "count", "closed", "wake", "closing", "shut"}
  PROVE  wpc[t] = "idle" /\ t \notin On(Sender) /\ t \notin On(Receiver)
<1>1. t \notin On(Sender) /\ t \notin On(Receiver)
  BY DEF On
<1> QED
  BY <1>1 DEF SidesInv, Elsewhere

\* Calls, the ring, and interrupts.
LEMMA SidesRing ==
  ASSUME SidesInv, NEW t \in Task,
         \/ SendCall(t) \/ RecvCall(t) \/ ClosedCall(t) \/ TestClosed(t) \/ Load(t) \/ ClaimSlot(t)
         \/ ClaimFails(t) \/ Access(t) \/ Failed(t) \/ CountFirst(t) \/ Interrupt(t)
  PROVE  SidesInv' /\ SidesStep(t)
<1>1. UNCHANGED <<tvars, rvars, svars>>
  BY DEF SendCall, RecvCall, ClosedCall, TestClosed, Load, ClaimSlot, ClaimFails, Access, Failed, CountFirst,
         Interrupt
<1>2. CASE Interrupt(t)
  <2>1. pc' = pc /\ interrupted' = [interrupted EXCEPT ![t] = TRUE] /\ pc' \in [Task -> TaskPos]
    BY <1>2 DEF Interrupt, SidesInv, SidesTypeOK
  <2>2. SidesStep(t)
    BY <1>1, <2>1, OffLists
  <2>3. pc'[t] = "closed" => t \in Sender /\ wpc'[t] # "leave" /\ (wres'[t] = "Cancelled" => interrupted'[t])
    BY <1>1, <2>1 DEF svars, SidesInv, SidesTypeOK, Watching
  <2> QED
    BY <2>1, <2>2, <2>3, SidesPreserved
<1>3. CASE CountFirst(t)
  <2>1. pc[t] = "wait" /\ Jump(t, "count") /\ interrupted' = interrupted
    BY <1>3 DEF CountFirst
  <2>2. pc' \in [Task -> TaskPos] /\ pc'[t] = "count" /\ \A u \in Task \ {t} : pc'[u] = pc[u]
    BY <2>1, Jumps DEF TaskPos
  <2>3. SidesStep(t)
    BY <1>1, <2>1, <2>2, OffLists
  <2> QED
    BY <2>1, <2>2, <2>3, SidesPreserved
<1>4. CASE ~Interrupt(t) /\ ~CountFirst(t)
  <2>1. /\ pc[t] \in {"idle", "test", "load", "claim", "access", "failed"} /\ interrupted' = interrupted
        /\ \E p \in TaskPos : Jump(t, p) /\ (p = "closed" => t \in Sender)
    BY <1>4, TasksAssumption DEF SendCall, RecvCall, ClosedCall, TestClosed, Load, ClaimSlot, ClaimFails, Access, Failed, TaskPos
  <2>2. PICK p \in TaskPos : Jump(t, p) /\ (p = "closed" => t \in Sender)
    BY <2>1
  <2>3. pc' \in [Task -> TaskPos] /\ pc'[t] = p /\ \A u \in Task \ {t} : pc'[u] = pc[u]
    BY <2>2, Jumps
  <2>4. wpc[t] = "idle" /\ wres[t] = "None"
    BY <2>1, Outside, AtRest
  <2>5. SidesStep(t)
    BY <1>1, <2>3, <2>4, OffLists
  <2> QED
    BY <1>1, <2>1, <2>2, <2>3, <2>4, <2>5, SidesPreserved DEF svars
<1> QED
  BY <1>2, <1>3, <1>4

\* A task in wait moves in the code of its own list.
LEMMA WaitSides ==
  ASSUME SidesInv, NEW t \in Task, pc[t] \in {"wait", "count", "closed"},
         pc' \in [Task -> TaskPos], \A u \in Task \ {t} : pc'[u] = pc[u],
         \/ pc'[t] \in {"wait", "count", "closed"}
         \/ wpc'[t] = "idle" /\ pc'[t] \in {"idle", "test", "load"},
         IF t \in Sender THEN TxWait(t) /\ UNCHANGED rvars ELSE RxWait(t) /\ UNCHANGED tvars
  PROVE  SidesStep(t)
<1>1. CASE t \in Sender
  <2>1. t \in On(Sender)
    BY <1>1 DEF On
  <2>2. t \in On(Sender)' \/ (wpc'[t] = "idle" /\ t \notin On(Receiver)')
    BY <1>1 DEF On
  <2> QED
    BY <1>1, <2>1, <2>2, TxSideStep
<1>2. CASE t \notin Sender
  <2>0. t \in Receiver
    BY <1>2 DEF Task
  <2>1. t \in On(Receiver)
    BY <2>0 DEF On
  <2>2. t \in On(Receiver)' \/ (wpc'[t] = "idle" /\ t \notin On(Sender)')
    BY <2>0 DEF On
  <2> QED
    BY <1>2, <2>1, <2>2, RxSideStep
<1> QED
  BY <1>1, <1>2

\* The steps of a send or a recv that waits.
LEMMA SidesWaits ==
  ASSUME SidesInv, NEW t \in Task,
         WaitCall(t) \/ WaitStep(t) \/ CountSecond(t) \/ WaitReturn(t) \/ WaitCancel(t)
  PROVE  SidesInv' /\ SidesStep(t)
<1>0. /\ pc \in [Task -> TaskPos] /\ wpc \in [Task -> ListPos]
      /\ wres \in [Task -> {"None", "Ok", "Cancelled", "Closed"}]
      /\ wpc[t] \in T!WaitPos => pc[t] \in {"wait", "count", "closed"}
  <2>1. wpc[t] \in T!WaitPos => wpc[t] # "idle" /\ wpc[t] \notin {"idle"} \cup T!WakePos
    BY DEF T!WaitPos, T!WakePos
  <2> QED
    BY <2>1, Outside DEF SidesInv, SidesTypeOK, Elsewhere
<1>1. interrupted' = interrupted
  BY DEF WaitCall, WaitStep, CountSecond, WaitReturn, WaitCancel
<1>2. CASE WaitCall(t)
  <2>1. pc[t] = "wait" /\ wpc[t] = "idle"
    BY <1>2 DEF WaitCall
  <2>2. CASE interrupted[t]
    <3>1. Jump(t, Again(t)) /\ UNCHANGED <<tvars, rvars, svars>> /\ Again(t) \in {"test", "load"}
      BY <1>2, <2>2 DEF WaitCall, Again
    <3>2. pc' \in [Task -> TaskPos] /\ pc'[t] = Again(t) /\ \A u \in Task \ {t} : pc'[u] = pc[u]
      BY <3>1, Jumps DEF TaskPos
    <3>3. SidesStep(t)
      BY <2>1, <3>1, <3>2, OffLists
    <3> QED
      BY <1>1, <3>1, <3>2, <3>3, SidesPreserved
  <2>3. CASE ~interrupted[t]
    <3>1. /\ pc' = pc
          /\ IF t \in Sender THEN TxWait(t) /\ UNCHANGED rvars ELSE RxWait(t) /\ UNCHANGED tvars
      BY <1>2, <2>3 DEF WaitCall, TxWait, RxWait
    <3>2. SidesStep(t)
      BY <1>0, <2>1, <3>1, WaitSides
    <3> QED
      BY <1>0, <1>1, <2>1, <3>1, <3>2, SidesPreserved
  <2> QED
    BY <2>2, <2>3
<1>3. CASE WaitStep(t)
  <2>1. /\ pc' = pc /\ pc[t] \in {"wait", "closed"}
        /\ IF t \in Sender THEN TxWait(t) /\ UNCHANGED rvars ELSE RxWait(t) /\ UNCHANGED tvars
    BY <1>3 DEF WaitStep, TxWait, RxWait
  <2>2. SidesStep(t)
    BY <1>0, <2>1, WaitSides
  <2>3. pc'[t] = "closed" => t \in Sender /\ wpc'[t] # "leave" /\ (wres'[t] = "Cancelled" => interrupted'[t])
    <3> SUFFICES ASSUME pc[t] = "closed"
                 PROVE  t \in Sender /\ wpc'[t] # "leave" /\ (wres'[t] = "Cancelled" => interrupted[t])
      BY <1>1, <2>1
    <3>1. t \in Sender /\ wpc[t] # "leave" /\ (wres[t] = "Cancelled" => interrupted[t])
      BY DEF SidesInv, Watching
    <3>2. /\ \E p \in {"locked", "open", "ending", "decide", "parked"} : wpc' = [wpc EXCEPT ![t] = p]
          /\ wres' = wres \/ wres' = [wres EXCEPT ![t] = "Closed"]
      BY <1>3, <3>1 DEF WaitStep, T!SuspendLock, T!CheckClosed, T!EmptyNew, T!Append_, T!Leave, T!Goto
    <3>3. wpc'[t] \in {"locked", "open", "ending", "decide", "parked"}
      BY <1>0, <3>2
    <3> QED
      BY <1>0, <3>1, <3>2, <3>3
  <2> QED
    BY <1>0, <1>1, <2>1, <2>2, <2>3, SidesPreserved
<1>4. CASE CountSecond(t)
  <2>1. /\ Jump(t, "wait") /\ pc[t] = "count"
        /\ IF t \in Sender THEN TxWait(t) /\ UNCHANGED rvars ELSE RxWait(t) /\ UNCHANGED tvars
    <3>1. ASSUME NEW b \in BOOLEAN, T!ShouldBlock(t, b) PROVE T!ShouldBlock(t, TRUE) \/ T!ShouldBlock(t, FALSE)
      BY <3>1
    <3>2. ASSUME NEW b \in BOOLEAN, R!ShouldBlock(t, b) PROVE R!ShouldBlock(t, TRUE) \/ R!ShouldBlock(t, FALSE)
      BY <3>2
    <3>3. (head + Slots = pos[t]) \in BOOLEAN /\ (tail = pos[t]) \in BOOLEAN
      OBVIOUS
    <3> QED
      BY <1>4, <3>1, <3>2, <3>3 DEF CountSecond, TxWait, RxWait
  <2>2. pc' \in [Task -> TaskPos] /\ pc'[t] = "wait" /\ \A u \in Task \ {t} : pc'[u] = pc[u]
    BY <2>1, Jumps DEF TaskPos
  <2>3. SidesStep(t)
    BY <2>1, <2>2, WaitSides
  <2> QED
    BY <1>1, <2>2, <2>3, SidesPreserved
<1>5. CASE WaitReturn(t)
  <2>1. /\ Jump(t, Again(t)) /\ pc[t] = "wait" /\ Again(t) \in {"test", "load"}
        /\ IF t \in Sender THEN TxWait(t) /\ UNCHANGED rvars ELSE RxWait(t) /\ UNCHANGED tvars
        /\ wpc' = [wpc EXCEPT ![t] = "idle"]
    BY <1>5 DEF WaitReturn, TxWait, RxWait, Again, T!WaitEnd, R!WaitEnd, T!Goto, R!Goto
  <2>2. pc' \in [Task -> TaskPos] /\ pc'[t] = Again(t) /\ \A u \in Task \ {t} : pc'[u] = pc[u]
    BY <2>1, Jumps DEF TaskPos
  <2>3. SidesStep(t)
    BY <1>0, <2>1, <2>2, WaitSides
  <2> QED
    BY <1>1, <2>1, <2>2, <2>3, SidesPreserved
<1>6. CASE WaitCancel(t)
  <2>1. /\ pc' = pc /\ interrupted[t] /\ wpc[t] \in T!WaitPos
        /\ IF t \in Sender THEN TxWait(t) /\ UNCHANGED rvars ELSE RxWait(t) /\ UNCHANGED tvars
        /\ \E p \in {"unlinked", "ending"} : wpc' = [wpc EXCEPT ![t] = p]
    BY <1>6 DEF WaitCancel, TxWait, RxWait, T!CancelUnlink, T!CancelComplete, R!CancelUnlink, R!CancelComplete,
                T!Goto, R!Goto, T!WaitPos
  <2>2. SidesStep(t)
    BY <1>0, <2>1, WaitSides
  <2>3. wpc'[t] # "leave"
    BY <1>0, <2>1
  <2> QED
    BY <1>0, <1>1, <2>1, <2>2, <2>3, SidesPreserved DEF SidesInv, Watching
<1> QED
  BY <1>2, <1>3, <1>4, <1>5, <1>6

\* The steps of Sender::closed.
LEMMA SidesClosed ==
  ASSUME SidesInv, NEW t \in Task, ClosedTest(t) \/ ClosedBlock(t) \/ ClosedReturn(t)
  PROVE  SidesInv' /\ SidesStep(t)
<1>0. /\ pc \in [Task -> TaskPos] /\ wpc \in [Task -> ListPos]
      /\ wres \in [Task -> {"None", "Ok", "Cancelled", "Closed"}]
  BY DEF SidesInv, SidesTypeOK
<1>1. interrupted' = interrupted /\ UNCHANGED rvars /\ pc[t] = "closed"
  BY DEF ClosedTest, ClosedBlock, ClosedReturn
<1>2. t \in Sender /\ wpc[t] # "leave" /\ (wres[t] = "Cancelled" => interrupted[t])
  BY <1>1 DEF SidesInv, Watching
<1>3. CASE ClosedTest(t) /\ (tclosed \/ interrupted[t])
  <2>1. Jump(t, "idle") /\ UNCHANGED <<tvars, svars>> /\ wpc[t] = "idle"
    BY <1>3 DEF ClosedTest
  <2>2. pc' \in [Task -> TaskPos] /\ pc'[t] = "idle" /\ \A u \in Task \ {t} : pc'[u] = pc[u]
    BY <2>1, Jumps DEF TaskPos
  <2>3. SidesStep(t)
    BY <1>1, <2>1, <2>2, OffLists
  <2> QED
    BY <1>1, <2>2, <2>3, SidesPreserved
<1>4. CASE ClosedBlock(t) \/ (ClosedTest(t) /\ ~(tclosed \/ interrupted[t]))
  <2>1. pc' = pc /\ TxWait(t) /\ wres' = wres /\ \E p \in {"lock", "append"} : wpc' = [wpc EXCEPT ![t] = p]
    BY <1>4 DEF ClosedTest, ClosedBlock, TxWait, T!WaitBegin, T!ShouldBlock, T!Goto
  <2>2. SidesStep(t)
    BY <1>0, <1>1, <1>2, <2>1, WaitSides
  <2>3. wpc'[t] # "leave"
    BY <1>0, <2>1
  <2> QED
    BY <1>0, <1>1, <1>2, <2>1, <2>2, <2>3, SidesPreserved
<1>5. CASE ClosedReturn(t)
  <2>1. /\ \E p \in {"idle", "closed"} : Jump(t, p)
        /\ TxWait(t) /\ wpc' = [wpc EXCEPT ![t] = "idle"] /\ wres' = [wres EXCEPT ![t] = "None"]
    BY <1>5 DEF ClosedReturn, TxWait, T!WaitEnd, T!Goto
  <2>2. PICK p \in {"idle", "closed"} : Jump(t, p)
    BY <2>1
  <2>3. pc' \in [Task -> TaskPos] /\ pc'[t] = p /\ \A u \in Task \ {t} : pc'[u] = pc[u]
    BY <2>2, Jumps DEF TaskPos
  <2>4. wpc'[t] = "idle" /\ wres'[t] = "None"
    BY <1>0, <2>1
  <2>5. SidesStep(t)
    BY <1>1, <1>2, <2>1, <2>3, <2>4, WaitSides
  <2> QED
    BY <1>1, <1>2, <2>3, <2>4, <2>5, SidesPreserved
<1> QED
  BY <1>3, <1>4, <1>5

\* A task wakes or closes the other direction.
LEMMA WakeSides ==
  ASSUME SidesInv, NEW t \in Task, pc[t] \in {"idle", "wake", "closing", "shut"},
         pc' \in [Task -> TaskPos], \A u \in Task \ {t} : pc'[u] = pc[u],
         \/ pc'[t] \in {"wake", "closing", "shut"}
         \/ wpc'[t] = "idle" /\ pc'[t] \in {"access", "gone", "idle"},
         IF t \in Sender THEN RxWake(t) /\ UNCHANGED tvars ELSE TxWake(t) /\ UNCHANGED rvars
  PROVE  SidesStep(t)
<1>0. pc[t] = "idle" => wpc[t] = "idle" /\ t \notin On(Sender) /\ t \notin On(Receiver)
  BY Outside
<1>1. CASE t \in Sender
  <2>0. t \notin Receiver
    BY <1>1, TasksAssumption
  <2>1. t \in On(Receiver) \/ (wpc[t] = "idle" /\ t \notin On(Sender))
    BY <1>0, <1>1, <2>0 DEF On
  <2>2. t \in On(Receiver)' \/ (wpc'[t] = "idle" /\ t \notin On(Sender)')
    BY <1>1, <2>0 DEF On
  <2> QED
    BY <1>1, <2>1, <2>2, RxSideStep
<1>2. CASE t \notin Sender
  <2>0. t \in Receiver
    BY <1>2 DEF Task
  <2>1. t \in On(Sender) \/ (wpc[t] = "idle" /\ t \notin On(Receiver))
    BY <1>0, <1>2, <2>0 DEF On
  <2>2. t \in On(Sender)' \/ (wpc'[t] = "idle" /\ t \notin On(Receiver)')
    BY <1>2, <2>0 DEF On
  <2> QED
    BY <1>2, <2>1, <2>2, TxSideStep
<1> QED
  BY <1>1, <1>2

\* The steps that wake, and those that close.
LEMMA SidesWake ==
  ASSUME SidesInv, NEW t \in Task,
         WakeOther(t) \/ DropTask(t) \/ CloseCall(t) \/ Closing(t)
  PROVE  SidesInv' /\ SidesStep(t)
<1>0. wpc \in [Task -> ListPos]
  BY DEF SidesInv, SidesTypeOK
<1>1. interrupted' = interrupted
  BY DEF WakeOther, DropTask, CloseCall, Closing
<1>2. CASE WakeOther(t) \/ Closing(t)
  <2>1. /\ pc[t] \in {"wake", "closing", "shut"}
        /\ IF t \in Sender THEN RxWake(t) /\ UNCHANGED tvars ELSE TxWake(t) /\ UNCHANGED rvars
        /\ \E p \in {"wake", "closing", "shut", "access", "gone", "idle"} :
             Jump(t, p) /\ (p \in {"wake", "closing", "shut"} \/ wpc'[t] = "idle")
    BY <1>2 DEF WakeOther, Closing, TxWake, RxWake
  <2>2. PICK p \in {"wake", "closing", "shut", "access", "gone", "idle"} :
             Jump(t, p) /\ (p \in {"wake", "closing", "shut"} \/ wpc'[t] = "idle")
    BY <2>1
  <2>3. pc' \in [Task -> TaskPos] /\ pc'[t] = p /\ \A u \in Task \ {t} : pc'[u] = pc[u]
    BY <2>2, Jumps DEF TaskPos
  <2>4. SidesStep(t)
    BY <2>1, <2>2, <2>3, WakeSides
  <2> QED
    BY <1>1, <2>3, <2>4, SidesPreserved
<1>3. CASE DropTask(t) \/ CloseCall(t)
  <2>1. pc[t] = "idle"
    BY <1>3 DEF DropTask, CloseCall
  <2>2. \/ Jump(t, "gone") /\ UNCHANGED <<tvars, rvars, svars>>
        \/ /\ \E p \in {"closing", "shut"} : Jump(t, p)
           /\ IF t \in Sender THEN RxWake(t) /\ UNCHANGED tvars ELSE TxWake(t) /\ UNCHANGED rvars
    BY <1>3, TasksAssumption DEF DropTask, CloseCall, TxWake, RxWake
  <2>3. CASE Jump(t, "gone") /\ UNCHANGED <<tvars, rvars, svars>>
    <3>1. pc' \in [Task -> TaskPos] /\ pc'[t] = "gone" /\ \A u \in Task \ {t} : pc'[u] = pc[u]
      BY <2>3, Jumps DEF TaskPos
    <3>2. SidesStep(t)
      BY <2>1, <2>3, <3>1, Outside, OffLists
    <3> QED
      BY <1>1, <3>1, <3>2, SidesPreserved
  <2>4. CASE /\ \E p \in {"closing", "shut"} : Jump(t, p)
             /\ IF t \in Sender THEN RxWake(t) /\ UNCHANGED tvars ELSE TxWake(t) /\ UNCHANGED rvars
    <3>1. PICK p \in {"closing", "shut"} : Jump(t, p)
      BY <2>4
    <3>2. pc' \in [Task -> TaskPos] /\ pc'[t] = p /\ \A u \in Task \ {t} : pc'[u] = pc[u]
      BY <3>1, Jumps DEF TaskPos
    <3>3. SidesStep(t)
      BY <2>1, <2>4, <3>2, WakeSides
    <3> QED
      BY <1>1, <3>2, <3>3, SidesPreserved
  <2> QED
    BY <2>2, <2>3, <2>4
<1> QED
  BY <1>2, <1>3

\* Clones, drop_all, and steps of nobody.
LEMMA SidesQuiet ==
  ASSUME SidesInv, NEW u \in Task,
         (\E t \in Task : Clone(t, u)) \/ DropAll \/ UNCHANGED vars
  PROVE  SidesInv' /\ SidesStep(u)
<1>1. UNCHANGED <<tvars, rvars, svars>> /\ interrupted' = interrupted
  BY DEF Clone, DropAll, vars
<1>2. CASE \E t \in Task : Clone(t, u)
  <2>1. pc[u] = "new" /\ Jump(u, "idle")
    BY <1>2 DEF Clone
  <2>2. pc' \in [Task -> TaskPos] /\ pc'[u] = "idle" /\ \A v \in Task \ {u} : pc'[v] = pc[v]
    BY <2>1, Jumps DEF TaskPos
  <2>3. SidesStep(u)
    BY <1>1, <2>1, <2>2, Outside, OffLists
  <2> QED
    BY <1>1, <2>2, <2>3, SidesPreserved
<1>3. CASE DropAll \/ UNCHANGED vars
  <2>1. pc' = pc /\ pc' \in [Task -> TaskPos]
    BY <1>3 DEF DropAll, vars, SidesInv, SidesTypeOK
  <2>2. SidesStep(u)
    BY <1>1, <2>1, OffLists
  <2>3. pc'[u] = "closed" => u \in Sender /\ wpc'[u] # "leave" /\ (wres'[u] = "Cancelled" => interrupted'[u])
    BY <1>1, <2>1 DEF svars, SidesInv, Watching
  <2> QED
    BY <1>1, <2>1, <2>2, <2>3, SidesPreserved
<1> QED
  BY <1>2, <1>3

\* Nobody has called anything yet.
LEMMA SidesListInit == Init => Tx!WaitListInit /\ Rx!WaitListInit
<1> SUFFICES ASSUME Init PROVE Tx!WaitListInit /\ Rx!WaitListInit
  OBVIOUS
<1>1. /\ tlist = <<>> /\ tspin = NoTask /\ tempty = FALSE /\ tclosed = FALSE
      /\ rlist = <<>> /\ rspin = NoTask /\ rempty = FALSE /\ rclosed = FALSE
      /\ pc \in [Task -> {"idle", "new"}]
  BY DEF Init, T!WaitListInit
<1>2. On(Sender) = {} /\ On(Receiver) = {}
  BY <1>1 DEF On
<1>3. /\ TxPos = [t \in Task |-> "idle"] /\ TxRes = [t \in Task |-> "None"] /\ TxTarget = [t \in Task |-> NoTask]
      /\ RxPos = [t \in Task |-> "idle"] /\ RxRes = [t \in Task |-> "None"] /\ RxTarget = [t \in Task |-> NoTask]
  BY <1>2 DEF TxPos, TxRes, TxTarget, RxPos, RxRes, RxTarget, Only
<1>4. /\ {t \in Task : TxPos[t] \in T!WaitPos} = {} /\ {t \in Task : RxPos[t] \in T!WaitPos} = {}
  BY <1>3 DEF T!WaitPos
<1>5. Cardinality({}) = 0
  BY FS_EmptySet
<1> QED
  BY <1>1, <1>3, <1>4, <1>5 DEF Tx!WaitListInit, Rx!WaitListInit

\* So it starts well.
LEMMA SidesInit == Init => SidesInv /\ Tx!LeavesOne /\ Rx!LeavesOne
<1> SUFFICES ASSUME Init PROVE SidesInv /\ Tx!LeavesOne /\ Rx!LeavesOne
  OBVIOUS
<1>1. /\ tlist = <<>> /\ rlist = <<>>
      /\ wpc = [t \in Task |-> "idle"] /\ wres = [t \in Task |-> "None"] /\ target = [t \in Task |-> NoTask]
      /\ pc \in [Task -> {"idle", "new"}] /\ interrupted = [t \in Task |-> FALSE]
      /\ Task # {}
  BY DEF Init, T!WaitListInit, Task
<1>2. On(Sender) = {} /\ On(Receiver) = {}
  BY <1>1 DEF On
<1>3. Tx!WaitListInv /\ Rx!WaitListInv
  BY SidesListInit, Tx!WaitListInitInv, Rx!WaitListInitInv, TasksFinite
  DEF Tx!IsFiniteSet, Rx!IsFiniteSet, IsFiniteSet
<1>4. SidesTypeOK /\ Elsewhere /\ Watching
  BY <1>1, <1>2 DEF SidesTypeOK, Elsewhere, Watching, TaskPos, ListPos
<1>5. Tx!LeavesOne /\ Rx!LeavesOne
  BY <1>1 DEF Tx!LeavesOne, Rx!LeavesOne
<1> QED
  BY <1>3, <1>4, <1>5 DEF SidesInv

\* Every step of the channel is one of its two wait lists, or none.
LEMMA SidesNext ==
  ASSUME SidesInv, [Next]_vars
  PROVE  SidesInv' /\ [Tx!WaitListNext]_Tx!wvars /\ [Rx!WaitListNext]_Rx!wvars
<1>1. ASSUME NEW t \in Task, Run(t) \/ Environment(t)
      PROVE  SidesInv' /\ SidesStep(t)
  BY <1>1, SidesRing, SidesWaits, SidesClosed, SidesWake DEF Run, Environment
<1>2. ASSUME NEW t \in Task, NEW u \in Task, Clone(t, u)
      PROVE  SidesInv' /\ SidesStep(u)
  BY <1>2, SidesQuiet
<1>3. PICK s \in Task : TRUE
  BY DEF SidesInv, SidesTypeOK
<1>4. CASE DropAll \/ UNCHANGED vars
  BY <1>3, <1>4, SidesQuiet DEF SidesStep
<1> QED
  BY <1>1, <1>2, <1>4 DEF Next, SidesStep

\* The steps of one task.
LEMMA SidesRun ==
  ASSUME SidesInv, NEW t \in Task, Run(t) \/ Environment(t)
  PROVE  /\ SidesInv' /\ SidesStep(t)
         /\ \A u \in Task \ {t} : pc'[u] = pc[u]
<1>1. SidesInv' /\ SidesStep(t)
  BY SidesRing, SidesWaits, SidesClosed, SidesWake DEF Run, Environment
<1>2. pc' = pc \/ \E p : Jump(t, p)
  BY DEF Run, Environment, TestClosed, Load, ClaimSlot, ClaimFails, WakeOther, Access, Failed, WaitCall, WaitStep,
         CountFirst, CountSecond, WaitReturn, ClosedTest, ClosedBlock, ClosedReturn, Closing, SendCall, RecvCall,
         ClosedCall, DropTask, CloseCall, WaitCancel, Interrupt
<1> QED
  BY <1>1, <1>2 DEF Jump, SidesInv, SidesTypeOK

\* Which of a list's steps it is.
LEMMA Touches ==
  ASSUME NEW t \in Task, Run(t) \/ Environment(t)
  PROVE  /\ TxWait(t) \/ TxWake(t) \/ UNCHANGED tvars
         /\ RxWait(t) \/ RxWake(t) \/ UNCHANGED rvars
<1>1. \A b \in BOOLEAN : /\ T!ShouldBlock(t, b) => T!ShouldBlock(t, TRUE) \/ T!ShouldBlock(t, FALSE)
                         /\ R!ShouldBlock(t, b) => R!ShouldBlock(t, TRUE) \/ R!ShouldBlock(t, FALSE)
  OBVIOUS
<1>2. (head + Slots = pos[t]) \in BOOLEAN /\ (tail = pos[t]) \in BOOLEAN
  OBVIOUS
<1>3. CASE CountSecond(t)
  BY <1>1, <1>2, <1>3 DEF CountSecond, TxWait, RxWait
<1>4. CASE WakeOther(t) \/ Closing(t) \/ DropTask(t) \/ CloseCall(t)
  BY <1>4 DEF WakeOther, Closing, DropTask, CloseCall, TxWake, RxWake
<1>5. CASE WaitCall(t) \/ WaitStep(t) \/ WaitReturn(t) \/ WaitCancel(t) \/ ClosedTest(t) \/ ClosedBlock(t) \/ ClosedReturn(t)
  BY <1>5 DEF WaitCall, WaitStep, WaitReturn, WaitCancel, ClosedTest, ClosedBlock, ClosedReturn, TxWait, RxWait
<1>6. CASE TestClosed(t) \/ Load(t) \/ ClaimSlot(t) \/ ClaimFails(t) \/ Access(t) \/ Failed(t) \/ CountFirst(t)
           \/ SendCall(t) \/ RecvCall(t) \/ ClosedCall(t) \/ Interrupt(t)
  BY <1>6 DEF TestClosed, Load, ClaimSlot, ClaimFails, Access, Failed, CountFirst, SendCall, RecvCall, ClosedCall, Interrupt
<1> QED
  BY <1>3, <1>4, <1>5, <1>6 DEF Run, Environment

-----------------------------------------------------------------------------
(* The promise: while somebody sleeps, what it waits for is somebody's. *)

Calm == \A t \in Task : ~interrupted[t]

\* The slots that are free, and the messages that are there.
TxRoom == head + Slots - tail
RxRoom == tail - head

\* Still in send, or in recv, and not about to sleep.
TxTrying == {"test", "load", "claim", "failed", "wait", "count"}
RxTrying == {"load", "claim", "failed", "wait", "count"}

\* Who will look for a free slot again, unless the channel is closed, or has yet
\* to wake a sender for one.
TxPayers ==
    {t \in Task : IF t \in Sender
                    THEN ~tclosed /\ pc[t] \in TxTrying /\ wpc[t] # "append" /\ t \notin Tx!Linked
                    ELSE pc[t] = "wake" /\ wpc[t] \in {"idle", "pop"}}

\* The same for messages and receivers.
RxPayers ==
    {t \in Task : IF t \in Receiver
                    THEN ~rclosed /\ pc[t] \in RxTrying /\ wpc[t] # "append" /\ t \notin Rx!Linked
                    ELSE pc[t] = "wake" /\ wpc[t] \in {"idle", "pop"}}

\* A wake-up may go to a task in closed(), which has no use for it.
TxWatched == \E w \in Sender : pc[w] = "closed" /\ (tclosed => w \in Tx!Going)

TxPromise == Calm /\ Tx!Going # {} /\ ~Tx!WakingAll /\ ~TxWatched => TxRoom <= Cardinality(TxPayers)
RxPromise == Calm /\ Rx!Going # {} /\ ~Rx!WakingAll => RxRoom <= Cardinality(RxPayers)

\* The counter that should_block loaded first has not gone back.
Counting == \A t \in Task : pc[t] = "count" => pos[t] <= IF t \in Sender THEN tail ELSE head

StallInv ==
    /\ RingInv /\ SidesInv /\ Counting /\ Tx!LeavesOne /\ Rx!LeavesOne
    /\ TxPromise /\ RxPromise

\* A free slot or a message changes hands, is taken or appears with somebody to
\* look after it.
LEMMA Pays ==
  ASSUME NEW C, NEW D, IsFiniteSet(C), IsFiniteSet(D), NEW r \in Int, NEW q \in Int, r <= Cardinality(C),
         \/ q = r /\ C \subseteq D
         \/ q = r - 1 /\ \E t : C \ {t} \subseteq D
         \/ q = r + 1 /\ \E t \in D \ C : C \subseteq D
         \/ q = r /\ \E t, h : h \in D \ C /\ C \ {t} \subseteq D
  PROVE  q <= Cardinality(D)
<1>0. Cardinality(C) \in Nat /\ Cardinality(D) \in Nat
  BY FS_CardinalityType
<1>1. CASE q = r /\ C \subseteq D
  <2>1. Cardinality(C) <= Cardinality(D)
    BY <1>1, FS_Subset
  <2> QED
    BY <1>0, <1>1, <2>1
<1>2. ASSUME NEW t, C \ {t} \subseteq D PROVE Cardinality(C) - 1 <= Cardinality(D)
  <2>1. Cardinality(C \ {t}) <= Cardinality(D)
    BY <1>2, FS_Subset
  <2>2. Cardinality(C \ {t}) \in {Cardinality(C), Cardinality(C) - 1}
    BY FS_RemoveElement
  <2> QED
    BY <1>0, <2>1, <2>2
<1>3. ASSUME NEW t \in D \ C, C \subseteq D PROVE Cardinality(C) + 1 <= Cardinality(D)
  <2>1. C \cup {t} \subseteq D
    BY <1>3
  <2>2. Cardinality(C \cup {t}) <= Cardinality(D)
    BY <2>1, FS_Subset
  <2>3. Cardinality(C \cup {t}) = Cardinality(C) + 1
    BY <1>3, FS_AddElement
  <2> QED
    BY <2>2, <2>3
<1>4. ASSUME NEW t, NEW h \in D \ C, C \ {t} \subseteq D PROVE Cardinality(C) <= Cardinality(D)
  <2>1. (C \ {t}) \cup {h} \subseteq D
    BY <1>4
  <2>2. Cardinality((C \ {t}) \cup {h}) <= Cardinality(D)
    BY <2>1, FS_Subset
  <2>3. IsFiniteSet(C \ {t}) /\ Cardinality(C \ {t}) \in {Cardinality(C), Cardinality(C) - 1}
    BY FS_RemoveElement
  <2>4. Cardinality((C \ {t}) \cup {h}) = Cardinality(C \ {t}) + 1
    BY <1>4, <2>3, FS_AddElement
  <2> QED
    BY <1>0, <2>2, <2>3, <2>4
<1>5. CASE q = r - 1 /\ \E t : C \ {t} \subseteq D
  BY <1>0, <1>2, <1>5
<1>6. CASE q = r + 1 /\ \E t \in D \ C : C \subseteq D
  BY <1>0, <1>3, <1>6
<1>7. CASE q = r /\ \E t, h : h \in D \ C /\ C \ {t} \subseteq D
  BY <1>0, <1>4, <1>7
<1> QED
  BY <1>1, <1>5, <1>6, <1>7

\* A task in the code of wait on tx_waiters is a sender there.
LEMMA TxAtWait ==
  ASSUME SidesInv, NEW t \in Task, TxPos[t] \in T!WaitPos
  PROVE  t \in Sender /\ pc[t] \in {"wait", "count", "closed"} /\ TxPos[t] = wpc[t]
<1>1. t \in On(Sender) /\ TxPos[t] = wpc[t]
  BY DEF TxPos, Only, T!WaitPos
<1>2. pc[t] \notin {"wake", "closing", "shut"}
  BY <1>1 DEF SidesInv, Elsewhere, T!WaitPos, T!WakePos
<1> QED
  BY <1>1, <1>2 DEF On

\* Who goes to sleep on tx_waiters is a sender in wait.
LEMMA TxGoers ==
  ASSUME SidesInv, NEW t \in Tx!Going
  PROVE  /\ t \in Sender /\ pc[t] \in {"wait", "count", "closed"} /\ TxPos[t] = wpc[t]
         /\ t \in Tx!Linked => wpc[t] = "parked"
<1>1. t \in Tx!Linked => TxPos[t] = "parked" /\ t \in Task
  BY DEF SidesInv, Tx!WaitListInv, Tx!CompletedOnce, Tx!Linked, Tx!Nodes, Tx!WaitListTypeOK
<1>2. t \in Task /\ TxPos[t] \in {"parked", "append"}
  BY <1>1 DEF Tx!Going
<1> QED
  BY <1>1, <1>2, TxAtWait DEF T!WaitPos

\* Only the task that appends itself comes onto the list.
LEMMA TxLinks ==
  ASSUME SidesInv, NEW t \in Task, TxWait(t) \/ TxWake(t) \/ UNCHANGED tvars
  PROVE  Tx!Linked' \subseteq Tx!Linked \cup {t} /\ (wpc[t] # "append" => Tx!Linked' \subseteq Tx!Linked)
<1>0. tlist \in Seq(Task) /\ Tx!Distinct(tlist)
  BY DEF SidesInv, Tx!WaitListInv, Tx!WaitListTypeOK, Tx!NoDuplicates
<1>1. CASE tlist' = tlist
  BY <1>1 DEF Tx!Linked
<1>2. CASE T!Append_(t)
  <2>1. tlist' = Append(tlist, t) /\ wpc[t] = "append"
    BY <1>2 DEF T!Append_
  <2>2. t \notin Tx!Nodes(tlist)
    BY <2>1, TxGoers DEF Tx!Going, Tx!Linked
  <2>3. Tx!Nodes(Append(tlist, t)) = Tx!Nodes(tlist) \cup {t}
    BY <1>0, <2>2, Tx!AppendNodes, TasksFinite DEF Tx!IsFiniteSet, IsFiniteSet
  <2> QED
    BY <2>1, <2>3 DEF Tx!Linked
<1>3. CASE T!CancelUnlink(t)
  <2>1. tlist' = Tx!Unlink(tlist, t) /\ t \in Tx!Nodes(tlist)
    BY <1>3 DEF T!CancelUnlink, T!Unlink, Tx!Unlink, T!Linked, T!Nodes, Tx!Nodes
  <2>2. Tx!Nodes(Tx!Unlink(tlist, t)) = Tx!Nodes(tlist) \ {t}
    BY <1>0, <2>1, Tx!UnlinkNodes, TasksFinite DEF Tx!IsFiniteSet, IsFiniteSet
  <2> QED
    BY <2>1, <2>2 DEF Tx!Linked
<1>4. CASE tlist # <<>> /\ tlist' = Tail(tlist)
  <2>1. Tx!Nodes(Tail(tlist)) = Tx!Nodes(tlist) \ {Head(tlist)}
    BY <1>0, <1>4, Tx!TailNodes, TasksFinite DEF Tx!IsFiniteSet, IsFiniteSet
  <2> QED
    BY <1>4, <2>1 DEF Tx!Linked
<1>5. TxWait(t) => tlist' = tlist \/ T!Append_(t) \/ T!CancelUnlink(t)
  BY DEF TxWait, T!WaitBegin, T!SuspendLock, T!CheckClosed, T!EmptyNew, T!ShouldBlock, T!Leave, T!CancelComplete,
         T!WaitEnd
<1>6. TxWake(t) => tlist' = tlist \/ (tlist # <<>> /\ tlist' = Tail(tlist))
  BY DEF TxWake, T!WakeLoad, T!WakePop, T!WakeComplete, T!CloseStore, T!WakeAllLoad, T!WakeAllLock, T!WakeAllPop,
         T!WakeAllComplete
<1> QED
  BY <1>1, <1>2, <1>3, <1>4, <1>5, <1>6 DEF tvars

\* The others keep what they promised.
LEMMA TxOthersPay ==
  ASSUME SidesInv, NEW t \in Task, SidesStep(t), \A u \in Task \ {t} : pc'[u] = pc[u],
         tclosed' = tclosed, Tx!Linked' \subseteq Tx!Linked \cup {t}
  PROVE  TxPayers \ {t} \subseteq TxPayers'
<1> SUFFICES ASSUME NEW u \in TxPayers, u # t PROVE u \in TxPayers'
  OBVIOUS
<1>1. u \in Task /\ pc'[u] = pc[u] /\ (u \notin Tx!Linked => u \notin Tx!Linked')
  BY DEF TxPayers
<1>2. wpc'[u] = wpc[u] \/ (wpc[u] = "parked" /\ wpc'[u] = "ending")
  BY <1>1 DEF SidesStep
<1> QED
  BY <1>1, <1>2 DEF TxPayers

\* And so does the task that moves, except where it claims or wakes.
LEMMA TxPayerStays ==
  ASSUME SidesInv, NEW t \in Task, Run(t) \/ Environment(t), t \in TxPayers,
         Calm, Calm', tclosed' = tclosed, t \in Sender => ~T!ShouldBlock(t, TRUE),
         t \in Sender \/ ~WakeOther(t),
         ClaimSlot(t) => pc'[t] # "wake"
  PROVE  t \in TxPayers'
<1>0. /\ pc \in [Task -> TaskPos] /\ wpc \in [Task -> ListPos]
      /\ ~interrupted[t] /\ ~Interrupt(t) /\ ~WaitCancel(t)
  BY DEF SidesInv, SidesTypeOK, Calm, Interrupt, WaitCancel
<1>1. CASE t \notin Sender
  <2>1. pc[t] = "wake"
    BY <1>1 DEF TxPayers
  <2> QED
    BY <1>0, <1>1, <2>1 DEF Run, Environment, TestClosed, Load, ClaimSlot, ClaimFails, Access, Failed, WaitCall,
         WaitStep, CountFirst, CountSecond, WaitReturn, ClosedTest, ClosedBlock, ClosedReturn, Closing, SendCall,
         RecvCall, ClosedCall, DropTask, CloseCall
<1>2. CASE t \in Sender
  <2>1. /\ ~tclosed /\ pc[t] \in TxTrying /\ wpc[t] # "append" /\ t \notin Tx!Linked
        /\ t \notin Receiver
    BY <1>2, TasksAssumption DEF TxPayers
  <2>2. t \notin Tx!Linked'
    BY <2>1, Touches, TxLinks
  <2> SUFFICES pc'[t] \in TxTrying /\ wpc'[t] # "append"
    BY <1>2, <2>1, <2>2 DEF TxPayers
  <2>3. CASE TestClosed(t) \/ Load(t) \/ ClaimSlot(t) \/ ClaimFails(t) \/ Failed(t) \/ CountFirst(t)
    <3>1. wpc' = wpc
      BY <2>3 DEF TestClosed, Load, ClaimSlot, ClaimFails, Failed, CountFirst, svars
    <3>2. CASE TestClosed(t)
      BY <1>0, <1>2, <2>1, <3>1, <3>2 DEF TestClosed, Jump, TxTrying
    <3>3. CASE ClaimSlot(t)
      BY <1>0, <1>2, <2>1, <3>1, <3>3 DEF ClaimSlot, Jump, TxTrying
    <3>4. CASE Load(t) \/ ClaimFails(t) \/ CountFirst(t)
      BY <1>0, <1>2, <2>1, <3>1, <3>4 DEF Load, ClaimFails, CountFirst, Jump, TxTrying
    <3>5. CASE Failed(t)
      BY <1>0, <1>2, <2>1, <3>1, <3>5 DEF Failed, Jump, TxTrying
    <3> QED
      BY <2>1, <2>3, <3>1, <3>2, <3>3, <3>4, <3>5
  <2>4. CASE WaitCall(t) \/ WaitStep(t)
    <3>1. pc' = pc
      BY <1>0, <2>4 DEF WaitCall, WaitStep
    <3>2. \E p \in {"lock", "locked", "open", "ending", "decide", "parked"} : wpc' = [wpc EXCEPT ![t] = p]
      BY <1>0, <1>2, <2>1, <2>4 DEF WaitCall, WaitStep, T!WaitBegin, T!SuspendLock, T!CheckClosed, T!EmptyNew,
           T!Append_, T!Leave, R!WaitBegin, R!SuspendLock, R!CheckClosed, R!EmptyNew,
           R!Append_, R!Leave, T!Goto, R!Goto
    <3> QED
      BY <1>0, <2>1, <3>1, <3>2
  <2>5. CASE CountSecond(t)
    <3>1. Jump(t, "wait") /\ wpc' = [wpc EXCEPT ![t] = "leave"]
      BY <1>2, <2>1, <2>5 DEF CountSecond, T!ShouldBlock, R!ShouldBlock, T!Goto, R!Goto
    <3> QED
      BY <1>0, <3>1 DEF Jump, TxTrying
  <2>6. CASE WaitReturn(t)
    <3>1. Jump(t, Again(t)) /\ wpc' = [wpc EXCEPT ![t] = "idle"]
      BY <1>2, <2>1, <2>6 DEF WaitReturn, T!WaitEnd, R!WaitEnd, T!Goto, R!Goto
    <3> QED
      BY <1>0, <1>2, <2>1, <3>1 DEF Jump, TxTrying, Again, Task
  <2> QED
    BY <1>0, <2>1, <2>3, <2>4, <2>5, <2>6 DEF Run, Environment, WakeOther, Access, ClosedTest, ClosedBlock,
       ClosedReturn, Closing, SendCall, RecvCall, ClosedCall, DropTask, CloseCall, TxTrying
<1> QED
  BY <1>1, <1>2

\* A task in the code of wait on rx_waiters is a sender there.
LEMMA RxAtWait ==
  ASSUME SidesInv, NEW t \in Task, RxPos[t] \in T!WaitPos
  PROVE  t \in Receiver /\ pc[t] \in {"wait", "count", "closed"} /\ RxPos[t] = wpc[t]
<1>1. t \in On(Receiver) /\ RxPos[t] = wpc[t]
  BY DEF RxPos, Only, T!WaitPos
<1>2. pc[t] \notin {"wake", "closing", "shut"}
  BY <1>1 DEF SidesInv, Elsewhere, T!WaitPos, T!WakePos
<1> QED
  BY <1>1, <1>2 DEF On

\* Who goes to sleep on rx_waiters is a sender in wait.
LEMMA RxGoers ==
  ASSUME SidesInv, NEW t \in Rx!Going
  PROVE  /\ t \in Receiver /\ pc[t] \in {"wait", "count", "closed"} /\ RxPos[t] = wpc[t]
         /\ t \in Rx!Linked => wpc[t] = "parked"
<1>1. t \in Rx!Linked => RxPos[t] = "parked" /\ t \in Task
  BY DEF SidesInv, Rx!WaitListInv, Rx!CompletedOnce, Rx!Linked, Rx!Nodes, Rx!WaitListTypeOK
<1>2. t \in Task /\ RxPos[t] \in {"parked", "append"}
  BY <1>1 DEF Rx!Going
<1> QED
  BY <1>1, <1>2, RxAtWait DEF T!WaitPos

\* Only the task that appends itself comes onto the list.
LEMMA RxLinks ==
  ASSUME SidesInv, NEW t \in Task, RxWait(t) \/ RxWake(t) \/ UNCHANGED rvars
  PROVE  Rx!Linked' \subseteq Rx!Linked \cup {t} /\ (wpc[t] # "append" => Rx!Linked' \subseteq Rx!Linked)
<1>0. rlist \in Seq(Task) /\ Rx!Distinct(rlist)
  BY DEF SidesInv, Rx!WaitListInv, Rx!WaitListTypeOK, Rx!NoDuplicates
<1>1. CASE rlist' = rlist
  BY <1>1 DEF Rx!Linked
<1>2. CASE R!Append_(t)
  <2>1. rlist' = Append(rlist, t) /\ wpc[t] = "append"
    BY <1>2 DEF R!Append_
  <2>2. t \notin Rx!Nodes(rlist)
    BY <2>1, RxGoers DEF Rx!Going, Rx!Linked
  <2>3. Rx!Nodes(Append(rlist, t)) = Rx!Nodes(rlist) \cup {t}
    BY <1>0, <2>2, Rx!AppendNodes, TasksFinite DEF Rx!IsFiniteSet, IsFiniteSet
  <2> QED
    BY <2>1, <2>3 DEF Rx!Linked
<1>3. CASE R!CancelUnlink(t)
  <2>1. rlist' = Rx!Unlink(rlist, t) /\ t \in Rx!Nodes(rlist)
    BY <1>3 DEF R!CancelUnlink, R!Unlink, Rx!Unlink, R!Linked, R!Nodes, Rx!Nodes
  <2>2. Rx!Nodes(Rx!Unlink(rlist, t)) = Rx!Nodes(rlist) \ {t}
    BY <1>0, <2>1, Rx!UnlinkNodes, TasksFinite DEF Rx!IsFiniteSet, IsFiniteSet
  <2> QED
    BY <2>1, <2>2 DEF Rx!Linked
<1>4. CASE rlist # <<>> /\ rlist' = Tail(rlist)
  <2>1. Rx!Nodes(Tail(rlist)) = Rx!Nodes(rlist) \ {Head(rlist)}
    BY <1>0, <1>4, Rx!TailNodes, TasksFinite DEF Rx!IsFiniteSet, IsFiniteSet
  <2> QED
    BY <1>4, <2>1 DEF Rx!Linked
<1>5. RxWait(t) => rlist' = rlist \/ R!Append_(t) \/ R!CancelUnlink(t)
  BY DEF RxWait, R!WaitBegin, R!SuspendLock, R!CheckClosed, R!EmptyNew, R!ShouldBlock, R!Leave, R!CancelComplete,
         R!WaitEnd
<1>6. RxWake(t) => rlist' = rlist \/ (rlist # <<>> /\ rlist' = Tail(rlist))
  BY DEF RxWake, R!WakeLoad, R!WakePop, R!WakeComplete, R!CloseStore, R!WakeAllLoad, R!WakeAllLock, R!WakeAllPop,
         R!WakeAllComplete
<1> QED
  BY <1>1, <1>2, <1>3, <1>4, <1>5, <1>6 DEF rvars

\* The others keep what they promised.
LEMMA RxOthersPay ==
  ASSUME SidesInv, NEW t \in Task, SidesStep(t), \A u \in Task \ {t} : pc'[u] = pc[u],
         rclosed' = rclosed, Rx!Linked' \subseteq Rx!Linked \cup {t}
  PROVE  RxPayers \ {t} \subseteq RxPayers'
<1> SUFFICES ASSUME NEW u \in RxPayers, u # t PROVE u \in RxPayers'
  OBVIOUS
<1>1. u \in Task /\ pc'[u] = pc[u] /\ (u \notin Rx!Linked => u \notin Rx!Linked')
  BY DEF RxPayers
<1>2. wpc'[u] = wpc[u] \/ (wpc[u] = "parked" /\ wpc'[u] = "ending")
  BY <1>1 DEF SidesStep
<1> QED
  BY <1>1, <1>2 DEF RxPayers

\* And so does the task that moves, except where it claims or wakes.
LEMMA RxPayerStays ==
  ASSUME SidesInv, NEW t \in Task, Run(t) \/ Environment(t), t \in RxPayers,
         Calm, Calm', rclosed' = rclosed, t \in Receiver => ~R!ShouldBlock(t, TRUE),
         t \in Receiver \/ ~WakeOther(t),
         ClaimSlot(t) => pc'[t] # "wake"
  PROVE  t \in RxPayers'
<1>0. /\ pc \in [Task -> TaskPos] /\ wpc \in [Task -> ListPos]
      /\ ~interrupted[t] /\ ~Interrupt(t) /\ ~WaitCancel(t)
  BY DEF SidesInv, SidesTypeOK, Calm, Interrupt, WaitCancel
<1>1. CASE t \notin Receiver
  <2>1. pc[t] = "wake"
    BY <1>1 DEF RxPayers
  <2> QED
    BY <1>0, <1>1, <2>1 DEF Run, Environment, TestClosed, Load, ClaimSlot, ClaimFails, Access, Failed, WaitCall,
         WaitStep, CountFirst, CountSecond, WaitReturn, ClosedTest, ClosedBlock, ClosedReturn, Closing, SendCall,
         RecvCall, ClosedCall, DropTask, CloseCall
<1>2. CASE t \in Receiver
  <2>1. /\ ~rclosed /\ pc[t] \in RxTrying /\ wpc[t] # "append" /\ t \notin Rx!Linked
        /\ t \notin Sender
    BY <1>2, TasksAssumption DEF RxPayers
  <2>2. t \notin Rx!Linked'
    BY <2>1, Touches, RxLinks
  <2> SUFFICES pc'[t] \in RxTrying /\ wpc'[t] # "append"
    BY <1>2, <2>1, <2>2 DEF RxPayers
  <2>3. CASE TestClosed(t) \/ Load(t) \/ ClaimSlot(t) \/ ClaimFails(t) \/ Failed(t) \/ CountFirst(t)
    <3>1. wpc' = wpc
      BY <2>3 DEF TestClosed, Load, ClaimSlot, ClaimFails, Failed, CountFirst, svars
    <3>2. CASE TestClosed(t)
      BY <1>0, <1>2, <2>1, <3>1, <3>2 DEF TestClosed, Jump, RxTrying
    <3>3. CASE ClaimSlot(t)
      BY <1>0, <1>2, <2>1, <3>1, <3>3 DEF ClaimSlot, Jump, RxTrying
    <3>4. CASE Load(t) \/ ClaimFails(t) \/ CountFirst(t)
      BY <1>0, <1>2, <2>1, <3>1, <3>4 DEF Load, ClaimFails, CountFirst, Jump, RxTrying
    <3>5. CASE Failed(t)
      BY <1>0, <1>2, <2>1, <3>1, <3>5 DEF Failed, Jump, RxTrying
    <3> QED
      BY <2>1, <2>3, <3>1, <3>2, <3>3, <3>4, <3>5
  <2>4. CASE WaitCall(t) \/ WaitStep(t)
    <3>1. pc' = pc
      BY <1>0, <2>4 DEF WaitCall, WaitStep
    <3>2. \E p \in {"lock", "locked", "open", "ending", "decide", "parked"} : wpc' = [wpc EXCEPT ![t] = p]
      BY <1>0, <1>2, <2>1, <2>4 DEF WaitCall, WaitStep, R!WaitBegin, R!SuspendLock, R!CheckClosed, R!EmptyNew,
           R!Append_, R!Leave, T!WaitBegin, T!SuspendLock, T!CheckClosed, T!EmptyNew,
           T!Append_, T!Leave, R!Goto, T!Goto
    <3> QED
      BY <1>0, <2>1, <3>1, <3>2
  <2>5. CASE CountSecond(t)
    <3>1. Jump(t, "wait") /\ wpc' = [wpc EXCEPT ![t] = "leave"]
      BY <1>2, <2>1, <2>5 DEF CountSecond, R!ShouldBlock, T!ShouldBlock, R!Goto, T!Goto
    <3> QED
      BY <1>0, <3>1 DEF Jump, RxTrying
  <2>6. CASE WaitReturn(t)
    <3>1. Jump(t, Again(t)) /\ wpc' = [wpc EXCEPT ![t] = "idle"]
      BY <1>2, <2>1, <2>6 DEF WaitReturn, R!WaitEnd, T!WaitEnd, R!Goto, T!Goto
    <3> QED
      BY <1>0, <1>2, <2>1, <3>1 DEF Jump, RxTrying, Again, Task
  <2> QED
    BY <1>0, <2>1, <2>3, <2>4, <2>5, <2>6 DEF Run, Environment, WakeOther, Access, ClosedTest, ClosedBlock,
       ClosedReturn, Closing, SendCall, RecvCall, ClosedCall, DropTask, CloseCall, RxTrying
<1> QED
  BY <1>1, <1>2

\* A waker finds the tasks that sleep, and those about to.
LEMMA TxFinds ==
  ASSUME SidesInv, Tx!Going # {}
  PROVE  ~tempty /\ (tspin = NoTask => tlist # <<>>)
<1>1. \/ tlist # <<>>
      \/ \E u \in Task : TxPos[u] = "append"
  BY DEF Tx!Going, Tx!Linked, Tx!Nodes
<1>2. \A u \in Task : TxPos[u] = "append" => tspin = u
  BY DEF SidesInv, Tx!WaitListInv, Tx!SpinExclusive, Tx!LockedPos
<1> QED
  BY <1>1, <1>2, TasksFinite DEF SidesInv, Tx!WaitListInv, Tx!EmptyFlagSound

\* A receiver pops a sender, who will look again.
LEMMA TxHandsOver ==
  ASSUME SidesInv, NEW t \in Task, t \notin Sender, WakeOther(t), T!WakePop(t),
         Tx!Going # {}, ~Tx!WakingAll, Tx!Going' # {}, Tx!LeavesOne, tclosed' = tclosed,
         ~tclosed => \A w \in Sender : pc[w] # "closed"
  PROVE  \E h : h \in TxPayers' \ TxPayers
<1>0. /\ tlist \in Seq(Task) /\ Tx!Distinct(tlist) /\ wpc \in [Task -> ListPos] /\ tspin = NoTask
      /\ \A u \in Task \ {t} : pc'[u] = pc[u]
  <2>1. Run(t)
    BY DEF Run
  <2> QED
    BY <2>1, SidesRun DEF SidesInv, SidesTypeOK, Tx!WaitListInv, Tx!WaitListTypeOK, Tx!NoDuplicates, T!WakePop
<1>1. /\ tlist # <<>> /\ tlist' = Tail(tlist) /\ wpc' = [wpc EXCEPT ![t] = "complete"] /\ wpc[t] = "pop"
  BY <1>0, TxFinds DEF T!WakePop, T!Goto
<1>2. PICK h : h = Head(tlist)
  OBVIOUS
<1>3. h \in Tx!Linked /\ h \notin Tx!Linked'
  BY <1>0, <1>1, <1>2, Tx!TailNodes, TasksFinite DEF Tx!IsFiniteSet, IsFiniteSet, Tx!Linked
<1>4. h \in Sender /\ h \in Task /\ h # t /\ pc[h] \in {"wait", "count", "closed"} /\ wpc[h] = "parked"
  BY <1>1, <1>3, TxGoers DEF Tx!Going, Task
<1>5. ~tclosed
  <2> SUFFICES ASSUME tclosed PROVE Tx!Going' = {}
    OBVIOUS
  <2>1. Len(tlist) = 1 /\ \A u \in Task : TxPos[u] \notin {"open", "decide", "append"}
    BY <1>1 DEF Tx!LeavesOne
  <2>2. tlist' = <<>>
    BY <1>0, <1>1, <2>1
  <2>3. ASSUME NEW u \in Task, TxPos'[u] = "append" PROVE FALSE
    <3>1. u \in On(Sender)' /\ wpc'[u] = "append"
      BY <2>3 DEF TxPos, Only
    <3>2. u # t /\ wpc[u] = "append"
      BY <1>0, <1>1, <3>1
    <3>3. u \in On(Sender)
      BY <1>0, <3>1, <3>2 DEF On
    <3>4. TxPos[u] = "append"
      BY <3>2, <3>3 DEF TxPos, Only
    <3> QED
      BY <2>1, <3>4
  <2>4. Tx!Linked' = {}
    BY <2>2 DEF Tx!Linked, Tx!Nodes
  <2> QED
    BY <2>3, <2>4 DEF Tx!Going
<1>6. pc'[h] \in {"wait", "count"} /\ wpc'[h] = "parked"
  BY <1>0, <1>1, <1>4, <1>5
<1> QED
  BY <1>3, <1>4, <1>5, <1>6 DEF TxPayers, TxTrying

\* No step leaves more room than there are tasks to use it or to tell of it.
LEMMA TxPay ==
  ASSUME SidesInv, RingTypeOK, NEW t \in Task, Run(t) \/ Environment(t), Calm, Calm',
         Tx!Going # {}, ~Tx!WakingAll, Tx!Going' # {}, Tx!LeavesOne, tclosed' = tclosed,
         ~tclosed => \A w \in Sender : pc[w] # "closed",
         t \in Sender => ~T!ShouldBlock(t, TRUE),
         TxRoom <= Cardinality(TxPayers)
  PROVE  TxRoom' <= Cardinality(TxPayers')
<1>0. /\ head \in Int /\ tail \in Int /\ Slots \in Int /\ pc \in [Task -> TaskPos] /\ wpc \in [Task -> ListPos]
      /\ IsFiniteSet(TxPayers) /\ IsFiniteSet(TxPayers')
  <2>1. TxPayers \subseteq Task /\ TxPayers' \subseteq Task
    BY DEF TxPayers
  <2> QED
    BY <2>1, TasksFinite, FS_Subset, RingFacts DEF RingTypeOK, SidesInv, SidesTypeOK
<1>1. TxRoom \in Int
  BY <1>0 DEF TxRoom
<1>2. TxPayers \ {t} \subseteq TxPayers'
  BY SidesRun, Touches, TxLinks, TxOthersPay
<1>3. CASE ClaimSlot(t) /\ pc'[t] = "wake"
  <2>1. /\ pc[t] = "claim" /\ wpc[t] = "idle" /\ wpc' = wpc
        /\ IF t \in Sender THEN tail' = tail + 1 /\ head' = head ELSE head' = head + 1 /\ tail' = tail
    BY <1>0, <1>3, Outside, TasksAssumption DEF ClaimSlot, Jump, svars, Task
  <2>2. CASE t \in Sender
    <3>1. tail' = tail + 1 /\ head' = head
      BY <2>1, <2>2
    <3>2. TxRoom' = TxRoom - 1 /\ TxRoom' \in Int
      BY <1>0, <3>1 DEF TxRoom
    <3> QED
      BY <1>0, <1>1, <1>2, <3>2, Pays
  <2>3. CASE t \in Receiver
    <3>0. t \notin Sender
      BY <2>3, TasksAssumption
    <3>1. head' = head + 1 /\ tail' = tail
      BY <2>1, <3>0
    <3>2. TxRoom' = TxRoom + 1 /\ TxRoom' \in Int
      BY <1>0, <3>1 DEF TxRoom
    <3>3. t \in TxPayers' /\ t \notin TxPayers
      BY <1>3, <2>1, <3>0 DEF TxPayers
    <3>4. TxPayers \subseteq TxPayers'
      BY <1>2, <3>3
    <3> QED
      BY <1>0, <1>1, <3>2, <3>3, <3>4, Pays
  <2> QED
    BY <2>2, <2>3 DEF Task
<1>4. ASSUME ~(ClaimSlot(t) /\ pc'[t] = "wake") PROVE TxRoom' = TxRoom /\ TxRoom' \in Int
  <2>1. head' = head /\ tail' = tail
    <3>1. CASE ClaimSlot(t)
      <4>1. pc'[t] # "wake"
        BY <1>4, <3>1
      <4>2. pc[t] = "claim" /\ IF t \in Sender
              THEN /\ tail' = (IF tail = pos[t] THEN tail + 1 ELSE tail) /\ head' = head
                   /\ pc' = [pc EXCEPT ![t] = IF tail = pos[t] THEN "wake" ELSE "load"]
              ELSE /\ head' = (IF head = pos[t] THEN head + 1 ELSE head) /\ tail' = tail
                   /\ pc' = [pc EXCEPT ![t] = IF head = pos[t] THEN "wake" ELSE "load"]
        BY <3>1, TasksAssumption DEF ClaimSlot, Jump, Task
      <4> QED
        BY <1>0, <4>1, <4>2
    <3>2. CASE ~ClaimSlot(t)
      BY <3>2 DEF Run, Environment, TestClosed, Load, ClaimFails, WakeOther, Access, Failed, WaitCall, WaitStep,
         CountFirst, CountSecond, WaitReturn, ClosedTest, ClosedBlock, ClosedReturn, Closing, SendCall, RecvCall,
         ClosedCall, DropTask, CloseCall, WaitCancel, Interrupt, cvars
    <3> QED
      BY <3>1, <3>2
  <2> QED
    BY <1>1, <2>1 DEF TxRoom
<1>5. CASE t \notin Sender /\ WakeOther(t)
  <2>0. pc[t] = "wake" /\ ~ClaimSlot(t) /\ (T!WakeLoad(t) \/ T!WakePop(t) \/ T!WakeComplete(t))
    BY <1>5, TasksAssumption DEF WakeOther, ClaimSlot, Task
  <2>1. CASE t \notin TxPayers
    <3>1. TxPayers \subseteq TxPayers'
      BY <1>2, <2>1
    <3> QED
      BY <1>0, <1>1, <1>4, <2>0, <3>1, Pays
  <2>2. CASE t \in TxPayers /\ T!WakeLoad(t)
    <3>1. wpc' = [wpc EXCEPT ![t] = "pop"]
      BY <2>2, TxFinds DEF T!WakeLoad, T!Goto
    <3>2. wpc'[t] = "pop" /\ pc'[t] = "wake"
      BY <1>0, <1>5, <3>1 DEF WakeOther, Jump
    <3>3. t \in TxPayers'
      BY <1>5, <3>2 DEF TxPayers
    <3>4. TxPayers \subseteq TxPayers'
      BY <1>2, <3>3
    <3> QED
      BY <1>0, <1>1, <1>4, <2>0, <3>4, Pays
  <2>3. CASE T!WakePop(t)
    <3>1. \E h : h \in TxPayers' \ TxPayers
      BY <1>5, <2>3, TxHandsOver
    <3> QED
      BY <1>0, <1>1, <1>2, <1>4, <2>0, <3>1, Pays
  <2>4. T!WakeComplete(t) => t \notin TxPayers
    BY <1>5 DEF T!WakeComplete, TxPayers
  <2> QED
    BY <2>0, <2>1, <2>2, <2>3, <2>4
<1>6. CASE ~(ClaimSlot(t) /\ pc'[t] = "wake") /\ ~(t \notin Sender /\ WakeOther(t))
  <2>1. t \in TxPayers => t \in TxPayers'
    BY <1>6, TxPayerStays
  <2>2. TxPayers \subseteq TxPayers'
    BY <1>2, <2>1
  <2> QED
    BY <1>0, <1>1, <1>4, <1>6, <2>2, Pays
<1> QED
  BY <1>3, <1>5, <1>6

\* A waker finds the tasks that sleep, and those about to.
LEMMA RxFinds ==
  ASSUME SidesInv, Rx!Going # {}
  PROVE  ~rempty /\ (rspin = NoTask => rlist # <<>>)
<1>1. \/ rlist # <<>>
      \/ \E u \in Task : RxPos[u] = "append"
  BY DEF Rx!Going, Rx!Linked, Rx!Nodes
<1>2. \A u \in Task : RxPos[u] = "append" => rspin = u
  BY DEF SidesInv, Rx!WaitListInv, Rx!SpinExclusive, Rx!LockedPos
<1> QED
  BY <1>1, <1>2, TasksFinite DEF SidesInv, Rx!WaitListInv, Rx!EmptyFlagSound

\* A receiver pops a sender, who will look again.
LEMMA RxHandsOver ==
  ASSUME SidesInv, NEW t \in Task, t \notin Receiver, WakeOther(t), R!WakePop(t),
         Rx!Going # {}, ~Rx!WakingAll, Rx!Going' # {}, Rx!LeavesOne, rclosed' = rclosed,
         ~rclosed => \A w \in Receiver : pc[w] # "closed"
  PROVE  \E h : h \in RxPayers' \ RxPayers
<1>0. /\ rlist \in Seq(Task) /\ Rx!Distinct(rlist) /\ wpc \in [Task -> ListPos] /\ rspin = NoTask
      /\ \A u \in Task \ {t} : pc'[u] = pc[u]
  <2>1. Run(t)
    BY DEF Run
  <2> QED
    BY <2>1, SidesRun DEF SidesInv, SidesTypeOK, Rx!WaitListInv, Rx!WaitListTypeOK, Rx!NoDuplicates, R!WakePop
<1>1. /\ rlist # <<>> /\ rlist' = Tail(rlist) /\ wpc' = [wpc EXCEPT ![t] = "complete"] /\ wpc[t] = "pop"
  BY <1>0, RxFinds DEF R!WakePop, R!Goto
<1>2. PICK h : h = Head(rlist)
  OBVIOUS
<1>3. h \in Rx!Linked /\ h \notin Rx!Linked'
  BY <1>0, <1>1, <1>2, Rx!TailNodes, TasksFinite DEF Rx!IsFiniteSet, IsFiniteSet, Rx!Linked
<1>4. h \in Receiver /\ h \in Task /\ h # t /\ pc[h] \in {"wait", "count", "closed"} /\ wpc[h] = "parked"
  BY <1>1, <1>3, RxGoers DEF Rx!Going, Task
<1>5. ~rclosed
  <2> SUFFICES ASSUME rclosed PROVE Rx!Going' = {}
    OBVIOUS
  <2>1. Len(rlist) = 1 /\ \A u \in Task : RxPos[u] \notin {"open", "decide", "append"}
    BY <1>1 DEF Rx!LeavesOne
  <2>2. rlist' = <<>>
    BY <1>0, <1>1, <2>1
  <2>3. ASSUME NEW u \in Task, RxPos'[u] = "append" PROVE FALSE
    <3>1. u \in On(Receiver)' /\ wpc'[u] = "append"
      BY <2>3 DEF RxPos, Only
    <3>2. u # t /\ wpc[u] = "append"
      BY <1>0, <1>1, <3>1
    <3>3. u \in On(Receiver)
      BY <1>0, <3>1, <3>2 DEF On
    <3>4. RxPos[u] = "append"
      BY <3>2, <3>3 DEF RxPos, Only
    <3> QED
      BY <2>1, <3>4
  <2>4. Rx!Linked' = {}
    BY <2>2 DEF Rx!Linked, Rx!Nodes
  <2> QED
    BY <2>3, <2>4 DEF Rx!Going
<1>6. pc'[h] \in {"wait", "count"} /\ wpc'[h] = "parked"
  BY <1>0, <1>1, <1>4, <1>5
<1> QED
  BY <1>3, <1>4, <1>5, <1>6 DEF RxPayers, RxTrying

\* No step leaves more room than there are tasks to use it or to tell of it.
LEMMA RxPay ==
  ASSUME SidesInv, RingTypeOK, NEW t \in Task, Run(t) \/ Environment(t), Calm, Calm',
         Rx!Going # {}, ~Rx!WakingAll, Rx!Going' # {}, Rx!LeavesOne, rclosed' = rclosed,
         ~rclosed => \A w \in Receiver : pc[w] # "closed",
         t \in Receiver => ~R!ShouldBlock(t, TRUE),
         RxRoom <= Cardinality(RxPayers)
  PROVE  RxRoom' <= Cardinality(RxPayers')
<1>0. /\ tail \in Int /\ head \in Int /\ Slots \in Int /\ pc \in [Task -> TaskPos] /\ wpc \in [Task -> ListPos]
      /\ IsFiniteSet(RxPayers) /\ IsFiniteSet(RxPayers')
  <2>1. RxPayers \subseteq Task /\ RxPayers' \subseteq Task
    BY DEF RxPayers
  <2> QED
    BY <2>1, TasksFinite, FS_Subset, RingFacts DEF RingTypeOK, SidesInv, SidesTypeOK
<1>1. RxRoom \in Int
  BY <1>0 DEF RxRoom
<1>2. RxPayers \ {t} \subseteq RxPayers'
  BY SidesRun, Touches, RxLinks, RxOthersPay
<1>3. CASE ClaimSlot(t) /\ pc'[t] = "wake"
  <2>1. /\ pc[t] = "claim" /\ wpc[t] = "idle" /\ wpc' = wpc
        /\ IF t \in Receiver THEN head' = head + 1 /\ tail' = tail ELSE tail' = tail + 1 /\ head' = head
    BY <1>0, <1>3, Outside, TasksAssumption DEF ClaimSlot, Jump, svars, Task
  <2>2. CASE t \in Receiver
    <3>1. head' = head + 1 /\ tail' = tail
      BY <2>1, <2>2
    <3>2. RxRoom' = RxRoom - 1 /\ RxRoom' \in Int
      BY <1>0, <3>1 DEF RxRoom
    <3> QED
      BY <1>0, <1>1, <1>2, <3>2, Pays
  <2>3. CASE t \in Sender
    <3>0. t \notin Receiver
      BY <2>3, TasksAssumption
    <3>1. tail' = tail + 1 /\ head' = head
      BY <2>1, <3>0
    <3>2. RxRoom' = RxRoom + 1 /\ RxRoom' \in Int
      BY <1>0, <3>1 DEF RxRoom
    <3>3. t \in RxPayers' /\ t \notin RxPayers
      BY <1>3, <2>1, <3>0 DEF RxPayers
    <3>4. RxPayers \subseteq RxPayers'
      BY <1>2, <3>3
    <3> QED
      BY <1>0, <1>1, <3>2, <3>3, <3>4, Pays
  <2> QED
    BY <2>2, <2>3 DEF Task
<1>4. ASSUME ~(ClaimSlot(t) /\ pc'[t] = "wake") PROVE RxRoom' = RxRoom /\ RxRoom' \in Int
  <2>1. tail' = tail /\ head' = head
    <3>1. CASE ClaimSlot(t)
      <4>1. pc'[t] # "wake"
        BY <1>4, <3>1
      <4>2. pc[t] = "claim" /\ IF t \in Receiver
              THEN /\ head' = (IF head = pos[t] THEN head + 1 ELSE head) /\ tail' = tail
                   /\ pc' = [pc EXCEPT ![t] = IF head = pos[t] THEN "wake" ELSE "load"]
              ELSE /\ tail' = (IF tail = pos[t] THEN tail + 1 ELSE tail) /\ head' = head
                   /\ pc' = [pc EXCEPT ![t] = IF tail = pos[t] THEN "wake" ELSE "load"]
        BY <3>1, TasksAssumption DEF ClaimSlot, Jump, Task
      <4> QED
        BY <1>0, <4>1, <4>2
    <3>2. CASE ~ClaimSlot(t)
      BY <3>2 DEF Run, Environment, TestClosed, Load, ClaimFails, WakeOther, Access, Failed, WaitCall, WaitStep,
         CountFirst, CountSecond, WaitReturn, ClosedTest, ClosedBlock, ClosedReturn, Closing, SendCall, RecvCall,
         ClosedCall, DropTask, CloseCall, WaitCancel, Interrupt, cvars
    <3> QED
      BY <3>1, <3>2
  <2> QED
    BY <1>1, <2>1 DEF RxRoom
<1>5. CASE t \notin Receiver /\ WakeOther(t)
  <2>0. pc[t] = "wake" /\ ~ClaimSlot(t) /\ (R!WakeLoad(t) \/ R!WakePop(t) \/ R!WakeComplete(t))
    BY <1>5, TasksAssumption DEF WakeOther, ClaimSlot, Task
  <2>1. CASE t \notin RxPayers
    <3>1. RxPayers \subseteq RxPayers'
      BY <1>2, <2>1
    <3> QED
      BY <1>0, <1>1, <1>4, <2>0, <3>1, Pays
  <2>2. CASE t \in RxPayers /\ R!WakeLoad(t)
    <3>1. wpc' = [wpc EXCEPT ![t] = "pop"]
      BY <2>2, RxFinds DEF R!WakeLoad, R!Goto
    <3>2. wpc'[t] = "pop" /\ pc'[t] = "wake"
      BY <1>0, <1>5, <3>1 DEF WakeOther, Jump
    <3>3. t \in RxPayers'
      BY <1>5, <3>2 DEF RxPayers
    <3>4. RxPayers \subseteq RxPayers'
      BY <1>2, <3>3
    <3> QED
      BY <1>0, <1>1, <1>4, <2>0, <3>4, Pays
  <2>3. CASE R!WakePop(t)
    <3>1. \E h : h \in RxPayers' \ RxPayers
      BY <1>5, <2>3, RxHandsOver
    <3> QED
      BY <1>0, <1>1, <1>2, <1>4, <2>0, <3>1, Pays
  <2>4. R!WakeComplete(t) => t \notin RxPayers
    BY <1>5 DEF R!WakeComplete, RxPayers
  <2> QED
    BY <2>0, <2>1, <2>2, <2>3, <2>4
<1>6. CASE ~(ClaimSlot(t) /\ pc'[t] = "wake") /\ ~(t \notin Receiver /\ WakeOther(t))
  <2>1. t \in RxPayers => t \in RxPayers'
    BY <1>6, RxPayerStays
  <2>2. RxPayers \subseteq RxPayers'
    BY <1>2, <2>1
  <2> QED
    BY <1>0, <1>1, <1>4, <1>6, <2>2, Pays
<1> QED
  BY <1>3, <1>5, <1>6
-----------------------------------------------------------------------------
(* Every step keeps the promise. *)

\* Interrupts are not taken back, and what a step of nobody leaves alone.
LEMMA StepFrame ==
  ASSUME SidesInv, [Next]_vars
  PROVE  /\ Calm' => Calm
         /\ (\A t \in Task : ~Run(t) /\ ~Environment(t)) =>
               /\ UNCHANGED <<tvars, rvars, svars>>
               /\ \A u \in Task : pc'[u] = pc[u] \/ (pc[u] = "new" /\ pc'[u] = "idle")
               /\ UNCHANGED cvars \/ DropAll
<1>1. interrupted' = interrupted \/ \E t \in Task : interrupted' = [interrupted EXCEPT ![t] = TRUE]
  BY DEF Next, Run, Environment, TestClosed, Load, ClaimSlot, ClaimFails, WakeOther, Access, Failed, WaitCall, WaitStep,
         CountFirst, CountSecond, WaitReturn, ClosedTest, ClosedBlock, ClosedReturn, Closing, SendCall, RecvCall,
         ClosedCall, DropTask, CloseCall, WaitCancel, Interrupt, Clone, DropAll, vars
<1>2. Calm' => Calm
  BY <1>1 DEF Calm, SidesInv, SidesTypeOK
<1>3. ASSUME \A t \in Task : ~Run(t) /\ ~Environment(t)
      PROVE  /\ UNCHANGED <<tvars, rvars, svars>>
             /\ \A u \in Task : pc'[u] = pc[u] \/ (pc[u] = "new" /\ pc'[u] = "idle")
             /\ UNCHANGED cvars \/ DropAll
  <2>1. (\E t, u \in Task : Clone(t, u)) \/ DropAll \/ UNCHANGED vars
    BY <1>3 DEF Next
  <2>2. CASE DropAll \/ UNCHANGED vars
    BY <2>2 DEF DropAll, vars
  <2>3. ASSUME NEW t \in Task, NEW u \in Task, Clone(t, u)
        PROVE  /\ UNCHANGED <<tvars, rvars, svars>>
               /\ \A v \in Task : pc'[v] = pc[v] \/ (pc[v] = "new" /\ pc'[v] = "idle")
               /\ UNCHANGED cvars
    BY <2>3 DEF Clone, Jump, SidesInv, SidesTypeOK
  <2> QED
    BY <2>1, <2>2, <2>3
<1> QED
  BY <1>2, <1>3

\* Only its own step takes a task from deciding to sleeping.
LEMMA DeciderSteps ==
  ASSUME SidesInv, [Next]_vars, NEW t \in Task, wpc[t] = "decide", wpc'[t] = "append"
  PROVE  CountSecond(t) \/ ClosedBlock(t)
<1>0. wpc[t] # wpc'[t] /\ wpc \in [Task -> ListPos] /\ wpc'[t] # "ending"
  BY DEF SidesInv, SidesTypeOK
<1>1. Run(t) \/ Environment(t)
  <2>1. CASE \A u \in Task : ~Run(u) /\ ~Environment(u)
    BY <1>0, <2>1, StepFrame DEF svars
  <2>2. ASSUME NEW u \in Task, Run(u) \/ Environment(u) PROVE u = t
    BY <1>0, <2>2, SidesRun DEF SidesStep
  <2> QED
    BY <2>1, <2>2
<1>2. pc[t] \in {"wait", "count", "closed"}
  BY Outside DEF SidesInv, Elsewhere, T!WakePos
<1>3. ~WaitCall(t) /\ ~WaitStep(t) /\ ~WaitReturn(t) /\ ~WaitCancel(t) /\ ~ClosedTest(t) /\ ~ClosedReturn(t)
  <2>1. ~WaitCall(t) /\ ~ClosedTest(t)
    BY <1>0 DEF WaitCall, ClosedTest
  <2>2. ~WaitStep(t)
    <3> SUFFICES ASSUME WaitStep(t) PROVE FALSE
      OBVIOUS
    <3>1. wpc' = [wpc EXCEPT ![t] = "ending"] \/ wpc[t] # "decide" \/ wpc' = [wpc EXCEPT ![t] = "locked"]
      BY DEF WaitStep, T!SuspendLock, T!CheckClosed, T!EmptyNew, T!Append_, T!Leave,
             R!SuspendLock, R!CheckClosed, R!EmptyNew, R!Append_, R!Leave
    <3> QED
      BY <1>0, <3>1
  <2>3. ~WaitReturn(t) /\ ~WaitCancel(t) /\ ~ClosedReturn(t)
    BY DEF WaitReturn, WaitCancel, ClosedReturn, T!WaitEnd, R!WaitEnd, T!CancelUnlink, R!CancelUnlink,
           T!CancelComplete, R!CancelComplete
  <2> QED
    BY <2>1, <2>2, <2>3
<1>4. ~TestClosed(t) /\ ~Load(t) /\ ~ClaimSlot(t) /\ ~ClaimFails(t) /\ ~Access(t) /\ ~Failed(t) /\ ~CountFirst(t)
      /\ ~SendCall(t) /\ ~RecvCall(t) /\ ~ClosedCall(t) /\ ~Interrupt(t)
  BY <1>0 DEF TestClosed, Load, ClaimSlot, ClaimFails, Access, Failed, CountFirst, SendCall, RecvCall, ClosedCall,
     Interrupt, svars
<1>5. ~WakeOther(t) /\ ~DropTask(t) /\ ~CloseCall(t) /\ ~Closing(t)
  BY <1>2 DEF WakeOther, DropTask, CloseCall, Closing
<1> QED
  BY <1>1, <1>3, <1>4, <1>5 DEF Run, Environment

\* It saw no room, or nothing to take, or is in closed().
LEMMA Decides ==
  ASSUME SidesInv, RingTypeOK, Counting, [Next]_vars, NEW t \in Task, wpc[t] = "decide", wpc'[t] = "append"
  PROVE  \/ t \in Sender /\ pc[t] = "closed" /\ pc'[t] = "closed"
         \/ IF t \in Sender THEN TxRoom' <= 0 ELSE RxRoom' <= 0
<1>0. /\ head \in Nat /\ tail \in Nat /\ pos[t] \in Nat /\ Slots \in Nat /\ wpc \in [Task -> ListPos]
  BY RingFacts DEF RingTypeOK, SidesInv, SidesTypeOK
<1>1. CASE ClosedBlock(t)
  BY <1>1 DEF ClosedBlock, SidesInv, Watching
<1>2. CASE CountSecond(t)
  <2>1. /\ head' = head /\ tail' = tail /\ pc[t] = "count"
        /\ wpc' = [wpc EXCEPT ![t] = IF (IF t \in Sender THEN head + Slots = pos[t] ELSE tail = pos[t])
                                       THEN "append" ELSE "leave"]
    BY <1>2 DEF CountSecond, cvars, T!ShouldBlock, R!ShouldBlock, T!Goto, R!Goto
  <2>2. IF t \in Sender THEN head + Slots = pos[t] ELSE tail = pos[t]
    BY <1>0, <2>1
  <2>3. pos[t] <= IF t \in Sender THEN tail ELSE head
    BY <2>1 DEF Counting
  <2>4. CASE t \in Sender
    <3>1. head + Slots - tail <= 0
      BY <1>0, <2>2, <2>3, <2>4
    <3> QED
      BY <2>1, <2>4, <3>1 DEF TxRoom
  <2>5. CASE t \notin Sender
    <3>1. tail - head <= 0
      BY <1>0, <2>2, <2>3, <2>5
    <3> QED
      BY <2>1, <2>5, <3>1 DEF RxRoom
  <2> QED
    BY <2>4, <2>5
<1> QED
  BY <1>1, <1>2, DeciderSteps

\* closed() goes on until the channel is closed.
LEMMA WatcherStays ==
  ASSUME SidesInv, [Next]_vars, Calm, Calm', NEW w \in Sender, pc[w] = "closed", tclosed => wpc[w] # "idle"
  PROVE  pc'[w] = "closed"
<1>0. w \in Task /\ pc \in [Task -> TaskPos] /\ ~interrupted[w] /\ ~interrupted'[w] /\ interrupted \in [Task -> BOOLEAN]
  BY DEF Task, SidesInv, SidesTypeOK, Calm
<1>1. CASE \A t \in Task : ~Run(t) /\ ~Environment(t)
  BY <1>0, <1>1, StepFrame
<1>2. ASSUME NEW t \in Task, Run(t) \/ Environment(t), t # w PROVE pc'[w] = "closed"
  BY <1>0, <1>2, SidesRun
<1>3. CASE Run(w) \/ Environment(w)
  <2>1. CASE ClosedTest(w)
    BY <1>0, <2>1 DEF ClosedTest
  <2>2. CASE ClosedReturn(w)
    <3>1. wres[w] # "Cancelled"
      BY <1>0 DEF SidesInv, Watching
    <3> QED
      BY <1>0, <2>2, <3>1 DEF ClosedReturn, Jump
  <2>3. CASE WaitStep(w) \/ ClosedBlock(w)
    BY <2>3 DEF WaitStep, ClosedBlock
  <2>4. ~WaitCancel(w) /\ ~Interrupt(w)
    BY <1>0 DEF WaitCancel, Interrupt
  <2> QED
    BY <1>3, <2>1, <2>2, <2>3, <2>4 DEF Run, Environment, TestClosed, Load, ClaimSlot, ClaimFails, WakeOther, Access,
       Failed, WaitCall, CountFirst, CountSecond, WaitReturn, Closing, SendCall, RecvCall, ClosedCall, DropTask,
       CloseCall
<1> QED
  BY <1>1, <1>2, <1>3

\* What a sender waits for stays promised.
LEMMA TxPromiseStep ==
  ASSUME SidesInv, RingTypeOK, RingTypeOK', Counting, Tx!LeavesOne, TxPromise, [Next]_vars
  PROVE  TxPromise'
<1> SUFFICES ASSUME Calm', Tx!Going' # {}, ~Tx!WakingAll', ~TxWatched'
             PROVE  TxRoom' <= Cardinality(TxPayers')
  BY DEF TxPromise
<1>0. /\ IsFiniteSet(TxPayers) /\ IsFiniteSet(TxPayers') /\ Cardinality(TxPayers') \in Nat
      /\ TxRoom \in Int /\ TxRoom' \in Int
  <2>1. TxPayers \subseteq Task /\ TxPayers' \subseteq Task
    BY DEF TxPayers
  <2>2. IsFiniteSet(TxPayers) /\ IsFiniteSet(TxPayers')
    BY <2>1, TasksFinite, FS_Subset
  <2>3. Cardinality(TxPayers') \in Nat
    BY <2>2, FS_CardinalityType
  <2> QED
    BY <2>2, <2>3, RingFacts DEF RingTypeOK, TxRoom
<1>1. Calm /\ Tx!WaitListInv /\ [Tx!WaitListNext]_Tx!wvars
  BY StepFrame, SidesNext DEF SidesInv
<1>2. ASSUME NEW t \in Sender, wpc[t] = "decide", wpc'[t] = "append"
      PROVE  TxRoom' <= Cardinality(TxPayers')
  <2>0. t \in Task
    BY DEF Task
  <2>1. CASE pc'[t] = "closed"
    <3>1. TxPos'[t] = "append"
      BY <1>2, <2>0, <2>1 DEF TxPos, Only, On
    <3>2. t \in Tx!Going'
      BY <2>0, <3>1 DEF Tx!Going
    <3> QED
      BY <2>1, <3>2 DEF TxWatched
  <2>2. CASE TxRoom' <= 0
    BY <1>0, <2>2
  <2> QED
    BY <1>2, <2>0, <2>1, <2>2, Decides
<1>3. ASSUME \A t \in Sender : ~(wpc[t] = "decide" /\ wpc'[t] = "append")
      PROVE  TxRoom' <= Cardinality(TxPayers')
  <2>1. ASSUME NEW t \in Task, Tx!ShouldBlock(t, TRUE) PROVE FALSE
    <3>1. TxPos[t] = "decide" /\ TxPos' = [TxPos EXCEPT ![t] = "append"]
      BY <2>1 DEF Tx!ShouldBlock, Tx!Goto
    <3>2. t \in Sender /\ wpc[t] = "decide"
      BY <3>1, TxAtWait DEF T!WaitPos
    <3>3. TxPos'[t] = "append"
      BY <3>1 DEF TxPos, Only
    <3>4. wpc'[t] = "append"
      BY <3>3 DEF TxPos, Only
    <3> QED
      BY <1>3, <3>2, <3>4
  <2>2. Tx!Going # {} /\ ~Tx!WakingAll /\ tclosed' = tclosed
    BY <1>1, <2>1, Tx!GoingStep, TasksFinite DEF Tx!IsFiniteSet, IsFiniteSet
  <2>3. Tx!Going' \subseteq Tx!Going
    BY <1>1, <2>1, Tx!NoMoreGoing, TasksFinite DEF Tx!IsFiniteSet, IsFiniteSet
  <2>4. ~TxWatched
    <3> SUFFICES ASSUME NEW w \in Sender, pc[w] = "closed", tclosed => w \in Tx!Going
                 PROVE  FALSE
      BY DEF TxWatched
    <3>1. tclosed => \A u, v \in Tx!Going : u = v
      BY <1>1, <2>2, Tx!OneGoing, TasksFinite DEF Tx!IsFiniteSet, IsFiniteSet
    <3>2. tclosed => w \in Tx!Going'
      BY <2>3, <3>1
    <3>3. w \in Tx!Going => wpc[w] # "idle"
      <4> SUFFICES ASSUME w \in Tx!Going PROVE wpc[w] # "idle"
        OBVIOUS
      <4>1. w \notin Tx!Linked => TxPos[w] = "append"
        BY DEF Tx!Going
      <4> QED
        BY <4>1, TxGoers
    <3>4. pc'[w] = "closed"
      BY <1>1, <3>3, WatcherStays
    <3> QED
      BY <2>2, <3>2, <3>4 DEF TxWatched
  <2>5. TxRoom <= Cardinality(TxPayers)
    BY <1>1, <2>2, <2>4 DEF TxPromise
  <2>6. ASSUME NEW t \in Task, Run(t) \/ Environment(t)
        PROVE  TxRoom' <= Cardinality(TxPayers')
    <3>1. ~tclosed => \A w \in Sender : pc[w] # "closed"
      BY <2>4 DEF TxWatched
    <3>2. t \in Sender => ~T!ShouldBlock(t, TRUE)
      <4> SUFFICES ASSUME t \in Sender, T!ShouldBlock(t, TRUE) PROVE FALSE
        OBVIOUS
      <4>1. wpc[t] = "decide" /\ wpc'[t] = "append"
        BY DEF T!ShouldBlock, T!Goto, SidesInv, SidesTypeOK
      <4> QED
        BY <1>3, <4>1
    <3> QED
      BY <1>1, <2>2, <2>5, <2>6, <3>1, <3>2, TxPay
  <2>7. CASE \A t \in Task : ~Run(t) /\ ~Environment(t)
    <3>1. /\ UNCHANGED <<tvars, rvars, svars>> /\ (UNCHANGED cvars \/ DropAll)
          /\ \A u \in Task : pc'[u] = pc[u] \/ (pc[u] = "new" /\ pc'[u] = "idle")
      BY <2>7, StepFrame
    <3>2. ~DropAll
      BY <2>2, TxGoers DEF DropAll, AllGone, Task
    <3>3. TxRoom' = TxRoom
      BY <3>1, <3>2 DEF TxRoom, cvars
    <3>4. tlist' = tlist /\ tclosed' = tclosed /\ wpc' = wpc
      BY <3>1 DEF tvars, svars
    <3>5. Tx!Linked' = Tx!Linked
      BY <3>4 DEF Tx!Linked
    <3>6. TxPayers \subseteq TxPayers'
      BY <3>1, <3>4, <3>5 DEF TxPayers, TxTrying
    <3> QED
      BY <1>0, <2>5, <3>3, <3>6, Pays
  <2> QED
    BY <2>6, <2>7
<1> QED
  BY <1>2, <1>3

\* What a sender waits for stays promised.
LEMMA RxPromiseStep ==
  ASSUME SidesInv, RingTypeOK, RingTypeOK', Counting, Rx!LeavesOne, RxPromise, [Next]_vars
  PROVE  RxPromise'
<1> SUFFICES ASSUME Calm', Rx!Going' # {}, ~Rx!WakingAll'
             PROVE  RxRoom' <= Cardinality(RxPayers')
  BY DEF RxPromise
<1>0. /\ IsFiniteSet(RxPayers) /\ IsFiniteSet(RxPayers') /\ Cardinality(RxPayers') \in Nat
      /\ RxRoom \in Int /\ RxRoom' \in Int
  <2>1. RxPayers \subseteq Task /\ RxPayers' \subseteq Task
    BY DEF RxPayers
  <2>2. IsFiniteSet(RxPayers) /\ IsFiniteSet(RxPayers')
    BY <2>1, TasksFinite, FS_Subset
  <2>3. Cardinality(RxPayers') \in Nat
    BY <2>2, FS_CardinalityType
  <2> QED
    BY <2>2, <2>3, RingFacts DEF RingTypeOK, RxRoom
<1>1. Calm /\ Rx!WaitListInv /\ [Rx!WaitListNext]_Rx!wvars
  BY StepFrame, SidesNext DEF SidesInv
<1>2. ASSUME NEW t \in Receiver, wpc[t] = "decide", wpc'[t] = "append"
      PROVE  RxRoom' <= Cardinality(RxPayers')
  <2>1. t \in Task /\ t \notin Sender
    BY TasksAssumption DEF Task
  <2>2. RxRoom' <= 0
    BY <1>2, <2>1, Decides
  <2> QED
    BY <1>0, <2>2
<1>3. ASSUME \A t \in Receiver : ~(wpc[t] = "decide" /\ wpc'[t] = "append")
      PROVE  RxRoom' <= Cardinality(RxPayers')
  <2>1. ASSUME NEW t \in Task, Rx!ShouldBlock(t, TRUE) PROVE FALSE
    <3>1. RxPos[t] = "decide" /\ RxPos' = [RxPos EXCEPT ![t] = "append"]
      BY <2>1 DEF Rx!ShouldBlock, Rx!Goto
    <3>2. t \in Receiver /\ wpc[t] = "decide"
      BY <3>1, RxAtWait DEF T!WaitPos
    <3>3. RxPos'[t] = "append"
      BY <3>1 DEF RxPos, Only
    <3>4. wpc'[t] = "append"
      BY <3>3 DEF RxPos, Only
    <3> QED
      BY <1>3, <3>2, <3>4
  <2>2. Rx!Going # {} /\ ~Rx!WakingAll /\ rclosed' = rclosed
    BY <1>1, <2>1, Rx!GoingStep, TasksFinite DEF Rx!IsFiniteSet, IsFiniteSet
  <2>3. RxRoom <= Cardinality(RxPayers)
    BY <1>1, <2>2 DEF RxPromise
  <2>4. ASSUME NEW t \in Task, Run(t) \/ Environment(t)
        PROVE  RxRoom' <= Cardinality(RxPayers')
    <3>1. ~rclosed => \A w \in Receiver : pc[w] # "closed"
      BY TasksAssumption DEF SidesInv, Watching, Task
    <3>2. t \in Receiver => ~R!ShouldBlock(t, TRUE)
      <4> SUFFICES ASSUME t \in Receiver, R!ShouldBlock(t, TRUE) PROVE FALSE
        OBVIOUS
      <4>1. wpc[t] = "decide" /\ wpc'[t] = "append"
        BY DEF R!ShouldBlock, R!Goto, SidesInv, SidesTypeOK
      <4> QED
        BY <1>3, <4>1
    <3> QED
      BY <1>1, <2>2, <2>3, <2>4, <3>1, <3>2, RxPay
  <2>5. CASE \A t \in Task : ~Run(t) /\ ~Environment(t)
    <3>1. /\ UNCHANGED <<rvars, tvars, svars>> /\ (UNCHANGED cvars \/ DropAll)
          /\ \A u \in Task : pc'[u] = pc[u] \/ (pc[u] = "new" /\ pc'[u] = "idle")
      BY <2>5, StepFrame
    <3>2. ~DropAll
      BY <2>2, RxGoers DEF DropAll, AllGone, Task
    <3>3. RxRoom' = RxRoom
      BY <3>1, <3>2 DEF RxRoom, cvars
    <3>4. rlist' = rlist /\ rclosed' = rclosed /\ wpc' = wpc
      BY <3>1 DEF rvars, svars
    <3>5. Rx!Linked' = Rx!Linked
      BY <3>4 DEF Rx!Linked
    <3>6. RxPayers \subseteq RxPayers'
      BY <3>1, <3>4, <3>5 DEF RxPayers, RxTrying
    <3> QED
      BY <1>0, <2>3, <3>3, <3>6, Pays
  <2> QED
    BY <2>4, <2>5
<1> QED
  BY <1>2, <1>3

\* What should_block loaded first stays a lower bound.
LEMMA CountingStep == ASSUME RingInv, RingInv', SidesInv, Counting, [Next]_vars PROVE Counting'
<1>0. /\ head \in Nat /\ tail \in Nat /\ pos \in [Task -> Nat] /\ pc \in [Task -> TaskPos] /\ head <= tail
  BY RingFacts DEF RingInv, RingTypeOK, SidesInv, SidesTypeOK, InUse, Dropped, Bounded
<1> SUFFICES ASSUME NEW u \in Task, pc'[u] = "count"
             PROVE  pos'[u] <= IF u \in Sender THEN tail' ELSE head'
  BY DEF Counting
<1>1. head <= head' /\ tail <= tail' /\ head' \in Nat /\ tail' \in Nat
  <2>1. \/ head' = head /\ tail' = tail
        \/ \E t \in Task : ClaimSlot(t)
        \/ DropAll
    BY DEF Next, Run, Environment, TestClosed, Load, ClaimFails, WakeOther, Access, Failed, WaitCall, WaitStep,
       CountFirst, CountSecond, WaitReturn, ClosedTest, ClosedBlock, ClosedReturn, Closing, SendCall, RecvCall,
       ClosedCall, DropTask, CloseCall, WaitCancel, Interrupt, Clone, cvars, vars
  <2>2. CASE \E t \in Task : ClaimSlot(t)
    <3>1. (head' = head \/ head' = head + 1) /\ (tail' = tail \/ tail' = tail + 1)
      BY <2>2 DEF ClaimSlot
    <3> QED
      BY <1>0, <3>1
  <2>3. CASE DropAll
    BY <1>0, <2>3 DEF DropAll
  <2> QED
    BY <1>0, <2>1, <2>2, <2>3
<1>2. CASE CountFirst(u)
  <2>1. /\ pos' = [pos EXCEPT ![u] = IF u \in Sender THEN tail ELSE head] /\ head' = head /\ tail' = tail
    BY <1>2 DEF CountFirst, cvars
  <2>2. pos'[u] = IF u \in Sender THEN tail' ELSE head'
    BY <1>0, <2>1
  <2> QED
    BY <1>1, <2>2
<1>3. CASE ~CountFirst(u)
  <2>1. pc[u] = "count" /\ pos'[u] = pos[u]
    <3>1. CASE \A t \in Task : ~Run(t) /\ ~Environment(t)
      <4>1. (\E t, v \in Task : Clone(t, v)) \/ DropAll \/ UNCHANGED vars
        BY <3>1 DEF Next
      <4>2. pos' = pos
        BY <4>1 DEF Clone, DropAll, vars
      <4> QED
        BY <3>1, <4>2, StepFrame
    <3>2. ASSUME NEW t \in Task, Run(t) \/ Environment(t), t # u PROVE pc[u] = "count" /\ pos'[u] = pos[u]
      <4>1. pos' = pos \/ \E p : pos' = [pos EXCEPT ![t] = p]
        BY <3>2 DEF Run, Environment, TestClosed, Load, ClaimSlot, ClaimFails, WakeOther, Access, Failed, WaitCall,
           WaitStep, CountFirst, CountSecond, WaitReturn, ClosedTest, ClosedBlock, ClosedReturn, Closing, SendCall,
           RecvCall, ClosedCall, DropTask, CloseCall, WaitCancel, Interrupt
      <4> QED
        BY <1>0, <3>2, <4>1, SidesRun
    <3>3. CASE Run(u) \/ Environment(u)
      <4>1. CASE WaitCancel(u) \/ Interrupt(u)
        BY <4>1 DEF WaitCancel, Interrupt
      <4>2. CASE ~(WaitCancel(u) \/ Interrupt(u))
        <5>1. (pc[u] \in {"wait", "closed"} /\ pc' = pc) \/ \E p : Jump(u, p) /\ p # "count"
          <6>1. CASE WaitCall(u) \/ WaitStep(u) \/ ClosedTest(u) \/ ClosedBlock(u)
            <7>1. /\ pc[u] \in {"wait", "closed"}
                  /\ pc' = pc \/ \E p \in {"idle", "test", "load"} : Jump(u, p)
              BY <6>1 DEF WaitCall, WaitStep, ClosedTest, ClosedBlock, Again
            <7> QED
              BY <7>1
          <6>2. CASE CountSecond(u) \/ WaitReturn(u) \/ ClosedReturn(u) \/ WakeOther(u)
            BY <6>2 DEF CountSecond, WaitReturn, ClosedReturn, WakeOther, Again
          <6>3. CASE Closing(u) \/ DropTask(u) \/ CloseCall(u)
            <7>1. \E p \in {"closing", "shut", "gone", "idle"} : Jump(u, p)
              BY <6>3 DEF Closing, DropTask, CloseCall
            <7> QED
              BY <7>1
          <6>4. CASE TestClosed(u) \/ Load(u) \/ ClaimSlot(u) \/ ClaimFails(u) \/ Access(u) \/ Failed(u)
                     \/ SendCall(u) \/ RecvCall(u) \/ ClosedCall(u)
            <7>1. \E p \in {"idle", "load", "claim", "wake", "failed", "wait", "test", "closed"} : Jump(u, p)
              BY <6>4 DEF TestClosed, Load, ClaimSlot, ClaimFails, Access, Failed, SendCall, RecvCall, ClosedCall
            <7> QED
              BY <7>1
          <6> QED
            BY <1>3, <3>3, <4>2, <6>1, <6>2, <6>3, <6>4 DEF Run, Environment
        <5> QED
          BY <1>0, <5>1 DEF Jump
      <4> QED
        BY <4>1, <4>2
    <3> QED
      BY <3>1, <3>2, <3>3
  <2>2. pos[u] <= (IF u \in Sender THEN tail ELSE head) /\ pos[u] \in Nat
    BY <1>0, <2>1 DEF Counting
  <2> QED
    BY <1>0, <1>1, <2>1, <2>2
<1> QED
  BY <1>2, <1>3

\* The invariant is inductive.
LEMMA StallNext == ASSUME Size > 1 PROVE StallInv /\ [Next]_vars => StallInv'
<1> SUFFICES ASSUME StallInv, [Next]_vars PROVE StallInv'
  OBVIOUS
<1>1. RingInv /\ SidesInv /\ Counting /\ Tx!LeavesOne /\ Rx!LeavesOne /\ TxPromise /\ RxPromise
  BY DEF StallInv
<1>2. RingInv'
  BY <1>1, RingNext
<1>3. SidesInv' /\ [Tx!WaitListNext]_Tx!wvars /\ [Rx!WaitListNext]_Rx!wvars
  BY <1>1, SidesNext
<1>4. Counting'
  BY <1>1, <1>2, CountingStep
<1>5. Tx!LeavesOne' /\ Rx!LeavesOne'
  BY <1>1, <1>3, Tx!LeavesOneStep, Rx!LeavesOneStep, TasksFinite
  DEF SidesInv, Tx!IsFiniteSet, Rx!IsFiniteSet, IsFiniteSet
<1>6. TxPromise' /\ RxPromise'
  BY <1>1, <1>2, TxPromiseStep, RxPromiseStep DEF RingInv
<1> QED
  BY <1>2, <1>3, <1>4, <1>5, <1>6 DEF StallInv

\* Nothing is promised before anybody waits.
LEMMA StallInit == Init => StallInv
<1> SUFFICES ASSUME Init PROVE StallInv
  OBVIOUS
<1>1. RingInv /\ SidesInv /\ Tx!LeavesOne /\ Rx!LeavesOne
  BY RingInit, SidesInit
<1>2. /\ tlist = <<>> /\ rlist = <<>> /\ wpc = [t \in Task |-> "idle"] /\ \A t \in Task : pc[t] # "count"
  BY DEF Init, T!WaitListInit, Task
<1>3. Tx!Going = {}
  <2>1. Tx!Linked = {}
    BY <1>2 DEF Tx!Linked, Tx!Nodes
  <2> QED
    BY <1>2, <2>1 DEF Tx!Going, TxPos, Only
<1>4. Rx!Going = {}
  <2>1. Rx!Linked = {}
    BY <1>2 DEF Rx!Linked, Rx!Nodes
  <2> QED
    BY <1>2, <2>1 DEF Rx!Going, RxPos, Only
<1> QED
  BY <1>1, <1>2, <1>3, <1>4 DEF StallInv, TxPromise, RxPromise, Counting

\* When everybody is idle or suspended, nobody is left to look after a free slot
\* or a message, so there is none.
LEMMA StallExact == StallInv => NoStall
<1> SUFFICES ASSUME StallInv, Quiet, \A t \in Task : ~interrupted[t] /\ pc[t] # "closed"
             PROVE  (rlist # <<>> => tail = head) /\ (tlist # <<>> => tail = head + Slots)
  BY DEF NoStall
<1>0. /\ SidesInv /\ head \in Nat /\ tail \in Nat /\ Slots \in Nat /\ tail - head \in 0..Slots
  BY RingFacts DEF StallInv, RingInv, RingTypeOK, InUse, Dropped, Bounded
<1>1. \A t \in Task : wpc[t] \in {"idle", "parked"}
  BY Outside, <1>0 DEF Quiet
<1>2. ASSUME rlist # <<>> PROVE tail = head
  <2>1. Rx!Going # {} /\ ~Rx!WakingAll
    <3>1. rlist \in Seq(Task)
      BY <1>0 DEF SidesInv, Rx!WaitListInv, Rx!WaitListTypeOK
    <3>2. Rx!Linked # {}
      <4>1. \A s \in Seq(Task) : s # <<>> => 1 \in 1..Len(s)
        OBVIOUS
      <4>2. 1 \in 1..Len(rlist)
        BY <1>2, <3>1, <4>1
      <4> QED
        BY <4>2 DEF Rx!Linked, Rx!Nodes
    <3>3. \A t \in Task : RxPos[t] \in {"idle", "parked"}
      BY <1>1 DEF RxPos, Only
    <3> QED
      BY <3>2, <3>3 DEF Rx!Going, Rx!WakingAll
  <2>2. RxPayers = {}
    <3> SUFFICES ASSUME NEW t \in RxPayers PROVE FALSE
      OBVIOUS
    <3>1. t \in Task
      BY DEF RxPayers
    <3>2. wpc[t] = "parked" /\ t \in Receiver /\ t \notin Rx!Linked /\ pc[t] \in RxTrying
      BY <3>1, Outside, <1>0 DEF RxPayers, Quiet, RxTrying, SidesInv, Elsewhere, T!WakePos
    <3>3. RxPos[t] = "parked"
      BY <3>1, <3>2, Outside, <1>0 DEF RxPos, Only, On, RxTrying
    <3>4. PICK u \in Task : RxTarget[u] = t
      BY <1>0, <3>1, <3>2, <3>3 DEF SidesInv, Rx!WaitListInv, Rx!NobodyForgotten
    <3>5. RxPos[u] \in {"complete", "all_complete"}
      BY <1>0, <3>1, <3>4, TasksAssumption DEF SidesInv, Rx!WaitListInv, Rx!TargetPos, Task
    <3> QED
      BY <1>1, <3>5 DEF RxPos, Only
  <2>3. RxRoom <= 0
    BY <2>1, <2>2, FS_EmptySet DEF StallInv, RxPromise, Calm
  <2> QED
    BY <1>0, <2>3 DEF RxRoom
<1>3. ASSUME tlist # <<>> PROVE tail = head + Slots
  <2>1. Tx!Going # {} /\ ~Tx!WakingAll
    <3>1. tlist \in Seq(Task)
      BY <1>0 DEF SidesInv, Tx!WaitListInv, Tx!WaitListTypeOK
    <3>2. Tx!Linked # {}
      <4>1. \A s \in Seq(Task) : s # <<>> => 1 \in 1..Len(s)
        OBVIOUS
      <4>2. 1 \in 1..Len(tlist)
        BY <1>3, <3>1, <4>1
      <4> QED
        BY <4>2 DEF Tx!Linked, Tx!Nodes
    <3>3. \A t \in Task : TxPos[t] \in {"idle", "parked"}
      BY <1>1 DEF TxPos, Only
    <3> QED
      BY <3>2, <3>3 DEF Tx!Going, Tx!WakingAll
  <2>2. TxPayers = {}
    <3> SUFFICES ASSUME NEW t \in TxPayers PROVE FALSE
      OBVIOUS
    <3>1. t \in Task
      BY DEF TxPayers
    <3>2. wpc[t] = "parked" /\ t \in Sender /\ t \notin Tx!Linked /\ pc[t] \in TxTrying
      BY <3>1, Outside, <1>0 DEF TxPayers, Quiet, TxTrying, SidesInv, Elsewhere, T!WakePos
    <3>3. TxPos[t] = "parked"
      BY <3>1, <3>2, Outside, <1>0 DEF TxPos, Only, On, TxTrying
    <3>4. PICK u \in Task : TxTarget[u] = t
      BY <1>0, <3>1, <3>2, <3>3 DEF SidesInv, Tx!WaitListInv, Tx!NobodyForgotten
    <3>5. TxPos[u] \in {"complete", "all_complete"}
      BY <1>0, <3>1, <3>4, TasksAssumption DEF SidesInv, Tx!WaitListInv, Tx!TargetPos, Task
    <3> QED
      BY <1>1, <3>5 DEF TxPos, Only
  <2>3. TxRoom <= 0
    BY <2>1, <2>2, FS_EmptySet DEF StallInv, TxPromise, TxWatched, Calm, Task
  <2> QED
    BY <1>0, <2>3 DEF TxRoom
<1> QED
  BY <1>2, <1>3

\* mpmc and mpsc, for any tasks: the senders' side and the receivers' side of a
\* channel are each a ThreadSafeWaitList used as its callers must, so all that is
\* proved of that list holds of both.
THEOREM ChannelWaitLists == Spec => Tx!WaitListSpec /\ Rx!WaitListSpec
<1>1. Init => Tx!WaitListInit /\ Rx!WaitListInit
  BY SidesListInit
<1>2. SidesInv /\ [Next]_vars => SidesInv' /\ [Tx!WaitListNext]_Tx!wvars /\ [Rx!WaitListNext]_Rx!wvars
  BY SidesNext
<1>3. Init => SidesInv
  BY SidesInit
<1> QED
  BY <1>1, <1>2, <1>3, PTL DEF Spec, Tx!WaitListSpec, Rx!WaitListSpec

\* mpmc and mpsc, for any tasks and any size above one: when everybody is idle or
\* suspended, no receiver is suspended on a channel that holds a message and no
\* sender on one that has room, whatever the order of the claims, the loads of
\* should_block and the wake-ups was.
THEOREM ChannelNeverStalls == ASSUME Size > 1 PROVE Spec => []NoStall
<1>1. StallInv /\ [Next]_vars => StallInv'
  BY StallNext
<1> QED
  BY StallInit, StallExact, <1>1, PTL DEF Spec
=============================================================================
