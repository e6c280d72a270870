---------------------------- MODULE SignalsProofs ----------------------------
(***************************************************************************)
(* Proofs about how a task is told to go on: the broadcast channel, for    *)
(* any number of senders, receivers and slots (what a receiver is given is *)
(* there, in order and accounted for, and nobody sleeps on a message); the *)
(* intrusive list, for any nodes and lists; the notify that uses it; the   *)
(* oneshot channel.                                                        *)
(***************************************************************************)
EXTENDS RawNotify, Oneshot, Broadcast, SequenceTheorems, FiniteSetTheorems, TLAPS

-----------------------------------------------------------------------------
(* Broadcast *)

Reading(r) == rpc[r] \in {"take", "clone"}

\* Receivers that may still come to a message below position n.
Behind(n) == {r \in RxHandle : Live(r) /\ pos[r] < n}

\* Receivers that are counted.
Counted == {r \in RxHandle : rpc[r] \notin {"none", "gone"}}

BroadcastTypeOK ==
    /\ tail \in Nat /\ rxClosed \in BOOLEAN /\ enlisted \subseteq RxHandle
    /\ rxEmpty \in BOOLEAN /\ rxLock \subseteq RxHandle
    /\ sequence \in [Slot -> Nat] /\ remaining \in [Slot -> Nat] /\ bits \in [Slot -> Nat]
    /\ init \in [Slot -> BOOLEAN] /\ readers \in [Slot -> SUBSET RxHandle]
    /\ spc \in [TxHandle -> {"none", "idle", "claimed", "counted", "wake", "waking", "closing", "closelock",
                              "gone"}]
    /\ index \in [TxHandle -> Nat] /\ receivers \in [TxHandle -> Nat]
    /\ rpc \in [RxHandle -> {"none", "new", "idle", "take", "clone", "empty", "lag", "open",
                             "check", "asleep", "gone"}]
    /\ pos \in [RxHandle -> Nat] /\ from \in [RxHandle -> Nat] /\ missed \in [RxHandle -> Nat]
    /\ got \in [RxHandle -> Seq(Nat)]

\* A slot is as it was made, or holds a message of its own lap.
SequenceSound ==
    \A s \in Slot :
        \/ sequence[s] = s /\ remaining[s] = 0
        \/ s < sequence[s] /\ sequence[s] <= tail /\ SlotOf(sequence[s] - 1) = s

\* A value that is owed is there, is the one of the sequence, and nobody moves
\* it out; one that is owed to nobody is there as long as its last reader is
\* about to move it out.
ValueSound ==
    \A s \in Slot :
        /\ remaining[s] # 0 =>
             init[s] /\ bits[s] = sequence[s] - 1 /\ \A r \in readers[s] : rpc[r] = "clone"
        /\ remaining[s] = 0 => (init[s] <=> \E r \in readers[s] : rpc[r] = "take")
        /\ \A r, q \in readers[s] : rpc[r] = "take" /\ rpc[q] = "take" => r = q

\* Who holds the read lock of a slot reads the message before its position.
LockSound ==
    /\ \A r \in RxHandle : Reading(r) => pos[r] > 0 /\ r \in readers[SlotOf(pos[r] - 1)]
    /\ \A s \in Slot : \A r \in readers[s] :
         Reading(r) /\ pos[r] > 0 /\ SlotOf(pos[r] - 1) = s /\ sequence[s] = pos[r] /\ bits[s] = pos[r] - 1

\* `remaining` covers whoever can still come, and so does the number of
\* receivers a sender has loaded for the index it has claimed.
Covered ==
    /\ rxCount = Cardinality(Counted)
    /\ \A s \in Slot : Written(s) => Cardinality(Behind(sequence[s])) <= remaining[s]
    /\ \A s \in TxHandle :
         /\ spc[s] \in {"claimed", "counted"} => index[s] < tail
         /\ spc[s] = "counted" => Cardinality(Behind(index[s] + 1)) <= receivers[s]

\* A position is at most the tail, and one that lags at least a lap behind it.
PosSound ==
    \A r \in RxHandle :
        /\ pos[r] <= tail
        /\ rpc[r] = "lag" => pos[r] + Size < tail
        /\ rpc[r] \in {"none", "new"} => got[r] = <<>> /\ missed[r] = 0
        /\ \A i \in 1..Len(got[r]) : got[r][i] < (IF Reading(r) THEN pos[r] - 1 ELSE pos[r])

Waits(r) == rpc[r] \in {"open", "check", "asleep"}

\* The lock of the list has one holder at most; the hint is set only while
\* nobody sleeps or is about to; once closed, nobody comes to wait besides the
\* one that holds the lock.
WaitSound ==
    /\ \A r \in RxHandle : r \in rxLock <=> rpc[r] \in {"open", "check"}
    /\ \A r, q \in rxLock : r = q
    /\ \A r \in RxHandle : r \in enlisted <=> Asleep(r)
    /\ rxEmpty => \A r \in RxHandle : ~Asleep(r) /\ rpc[r] # "check"
    /\ rxClosed /\ (\A s \in TxHandle : ~Closing(s)) =>
         \A r, q \in RxHandle : Waits(r) /\ Waits(q) => r = q

BroadcastInv ==
    /\ BroadcastTypeOK /\ SequenceSound /\ ValueSound /\ LockSound /\ Covered
    /\ PosSound /\ InOrder /\ WaitSound /\ MessageWakes

-----------------------------------------------------------------------------
(* Slots and laps, and counting *)

\* Two indices of a slot are at least a lap apart.
LEMMA SlotFacts ==
  /\ \A i \in Nat : SlotOf(i) \in Slot /\ SlotOf(i) <= i
  /\ \A s \in Slot : s \in Nat
  /\ \A i, j \in Nat : SlotOf(i) = SlotOf(j) /\ i < j => i + Size <= j
<1>1. Size \in Nat \ {0}
  BY SizeAssumption
<1>2. \A i \in Nat : SlotOf(i) \in Slot /\ SlotOf(i) <= i
  BY <1>1 DEF SlotOf, Slot
<1>3. \A i \in Nat : i = Size * (i \div Size) + (i % Size) /\ i \div Size \in Nat
  BY <1>1
<1>4. \A a, b \in Nat : (a <= b => Size * a <= Size * b) /\ (a > b => Size * a - Size * b >= Size)
  BY <1>1
<1>5. ASSUME NEW i \in Nat, NEW j \in Nat, SlotOf(i) = SlotOf(j), i < j PROVE i + Size <= j
  <2>1. PICK a \in Nat, b \in Nat, m \in Nat : i = Size * a + m /\ j = Size * b + m
    <3>1. i % Size = j % Size /\ i % Size \in Nat
      BY <1>1, <1>5 DEF SlotOf
    <3> QED
      BY <1>3, <3>1
  <2>2. Size * a \in Nat /\ Size * b \in Nat
    BY <1>1
  <2>3. b > a
    BY <1>4, <1>5, <2>1, <2>2
  <2>4. Size * b - Size * a >= Size
    BY <1>4, <2>3
  <2> QED
    BY <1>1, <2>1, <2>2, <2>4
<1>6. \A s \in Slot : s \in Nat
  BY <1>1 DEF Slot
<1> QED
  BY <1>2, <1>5, <1>6

\* A set of receivers is finite, and a smaller one has no more elements.
LEMMA ReceiverSets ==
  ASSUME NEW S \in SUBSET RxHandle, NEW T \in SUBSET S
  PROVE  /\ IsFiniteSet(S) /\ IsFiniteSet(T)
         /\ Cardinality(S) \in Nat /\ Cardinality(T) \in Nat /\ Cardinality(T) <= Cardinality(S)
  BY SizeAssumption, FS_Subset, FS_CardinalityType

\* The receivers behind an index, and the counted ones, are among the handles.
LEMMA BehindSets == (\A n : Behind(n) \subseteq RxHandle) /\ Counted \subseteq RxHandle
  BY DEF Behind, Counted

\* Covered holds as long as no receiver comes to be behind an index that was
\* claimed already.
LEMMA CoveredKeeps ==
  ASSUME BroadcastTypeOK, SequenceSound, Covered, UNCHANGED <<sequence, index, receivers>>,
         \A s \in Slot : remaining'[s] = remaining[s] \/ (Cardinality(Behind(sequence[s])) <= remaining[s])',
         tail' \in Nat, tail <= tail', (rxCount = Cardinality(Counted))',
         \A s \in TxHandle : spc'[s] \in {"claimed", "counted"} => spc[s] = spc'[s],
         \A n \in Nat : n <= tail => Behind(n)' \subseteq Behind(n)
  PROVE  Covered'
<1>1. \A n \in Nat : n <= tail =>
          /\ Cardinality(Behind(n)) \in Nat /\ Cardinality(Behind(n)') \in Nat
          /\ Cardinality(Behind(n)') <= Cardinality(Behind(n))
  BY BehindSets, ReceiverSets
<1>2. ASSUME NEW s \in Slot, Written(s)' PROVE (Cardinality(Behind(sequence[s])) <= remaining[s])'
  <2>1. Written(s) /\ sequence[s] \in Nat /\ sequence[s] <= tail /\ remaining[s] \in Nat
    BY <1>2 DEF Written, SequenceSound, BroadcastTypeOK
  <2>2. Cardinality(Behind(sequence[s])) <= remaining[s]
    BY <2>1 DEF Covered
  <2>3. /\ Cardinality(Behind(sequence[s])) \in Nat /\ Cardinality(Behind(sequence[s])') \in Nat
        /\ Cardinality(Behind(sequence[s])') <= Cardinality(Behind(sequence[s]))
    BY <1>1, <2>1 DEF Behind
  <2>4. CASE remaining'[s] = remaining[s]
    BY <2>1, <2>2, <2>3, <2>4 DEF Behind
  <2> QED
    BY <2>4
<1>3. ASSUME NEW s \in TxHandle, spc'[s] \in {"claimed", "counted"}
      PROVE  index'[s] < tail' /\ (spc'[s] = "counted" => (Cardinality(Behind(index[s] + 1)) <= receivers[s])')
  <2>1. spc[s] = spc'[s] /\ index[s] < tail /\ index[s] \in Nat /\ receivers[s] \in Nat /\ tail \in Nat
    BY <1>3 DEF Covered, BroadcastTypeOK
  <2>2. index'[s] < tail'
    BY <2>1
  <2>3. index[s] + 1 \in Nat /\ index[s] + 1 <= tail
    BY <2>1
  <2>4. spc'[s] = "counted" => Cardinality(Behind(index[s] + 1)) <= receivers[s]
    BY <2>1 DEF Covered
  <2>5. /\ Cardinality(Behind(index[s] + 1)) \in Nat /\ Cardinality(Behind(index[s] + 1)') \in Nat
        /\ Cardinality(Behind(index[s] + 1)') <= Cardinality(Behind(index[s] + 1))
    BY <1>1, <2>3 DEF Behind
  <2> QED
    BY <2>1, <2>2, <2>4, <2>5 DEF Behind
<1> QED
  BY <1>2, <1>3 DEF Covered

-----------------------------------------------------------------------------
(* Steps that move a receiver between the states in which it holds nothing *)

Passive == {"idle", "empty", "open", "check", "asleep"}

\* What is in the slots and what receivers were given is untouched by them.
LEMMA PassiveKeeps ==
  ASSUME BroadcastInv,
         UNCHANGED <<tail, rxCount, slots, index, receivers, pos, got, missed, from>>,
         BroadcastTypeOK',
         \A s \in TxHandle : spc'[s] \in {"claimed", "counted"} => spc[s] = spc'[s],
         \A r \in RxHandle : rpc'[r] = rpc[r] \/ (rpc[r] \in Passive /\ rpc'[r] \in Passive)
  PROVE  SequenceSound' /\ ValueSound' /\ LockSound' /\ Covered' /\ PosSound' /\ InOrder'
<1>0. /\ BroadcastTypeOK /\ SequenceSound /\ ValueSound /\ LockSound /\ Covered /\ PosSound /\ InOrder
      /\ UNCHANGED <<tail, rxCount, sequence, remaining, bits, init, readers, index, receivers, pos,
                     got, missed, from>>
  BY DEF BroadcastInv, slots
<1>1. \A r \in RxHandle :
        /\ Live(r)' <=> Live(r)
        /\ Reading(r)' <=> Reading(r)
        /\ rpc'[r] = "take" <=> rpc[r] = "take"
        /\ rpc'[r] = "clone" <=> rpc[r] = "clone"
        /\ rpc'[r] = "lag" <=> rpc[r] = "lag"
        /\ rpc'[r] \in {"none", "new"} <=> rpc[r] \in {"none", "new"}
        /\ rpc'[r] \in {"none", "gone"} <=> rpc[r] \in {"none", "gone"}
  BY DEF Live, Reading, Passive
<1>2. SequenceSound'
  BY <1>0 DEF SequenceSound
<1>3. \A s \in Slot : readers[s] \subseteq RxHandle
  BY <1>0 DEF BroadcastTypeOK
<1>4. ValueSound'
  BY <1>0, <1>1, <1>3 DEF ValueSound
<1>5. LockSound'
  BY <1>0, <1>1, <1>3 DEF LockSound
<1>6. (\A n : Behind(n)' = Behind(n)) /\ Counted' = Counted
  BY <1>0, <1>1 DEF Behind, Counted
<1>7. Covered'
  <2>1. (rxCount = Cardinality(Counted))'
    BY <1>0, <1>6 DEF Covered
  <2>2. tail' \in Nat /\ tail <= tail' /\ \A n \in Nat : n <= tail => Behind(n)' \subseteq Behind(n)
    BY <1>0, <1>6 DEF BroadcastTypeOK
  <2> QED
    BY <1>0, <2>1, <2>2, CoveredKeeps
<1>8. PosSound'
  BY <1>0, <1>1 DEF PosSound
<1>9. InOrder'
  BY <1>0, <1>1 DEF InOrder, Reading
<1> QED
  BY <1>2, <1>4, <1>5, <1>7, <1>8, <1>9

\* try_recv that finds nothing, the steps of wait, and its cancel.
LEMMA WaitInv ==
  ASSUME BroadcastInv, NEW r \in RxHandle, Empty(r) \/ EmptyNew(r) \/ Check(r) \/ Interrupt(r)
  PROVE  BroadcastInv'
<1>0. /\ BroadcastTypeOK /\ SequenceSound /\ Covered /\ PosSound /\ WaitSound /\ MessageWakes
  BY DEF BroadcastInv
<1>1. /\ rpc[r] \in Passive
      /\ \E to \in Passive : rpc' = [rpc EXCEPT ![r] = to]
      /\ UNCHANGED <<tail, txCount, rxCount, rxClosed, slots, svars, pos, got, missed, from>>
  BY DEF Empty, EmptyNew, Check, Interrupt, RJump, Passive
<1>2. /\ UNCHANGED <<sequence, remaining, bits, init, readers, spc, index, receivers, tail, rxClosed>>
  BY <1>1 DEF slots, svars
<1>3. enlisted' \in SUBSET RxHandle /\ rxLock' \in SUBSET RxHandle /\ rxEmpty' \in BOOLEAN
  BY <1>0 DEF Empty, EmptyNew, Check, Interrupt, BroadcastTypeOK
<1>4. /\ \A q \in RxHandle : q # r => rpc'[q] = rpc[q]
      /\ \A q \in RxHandle : rpc'[q] = rpc[q] \/ (rpc[q] \in Passive /\ rpc'[q] \in Passive)
  BY <1>0, <1>1 DEF BroadcastTypeOK
<1>5. BroadcastTypeOK'
  BY <1>0, <1>1, <1>2, <1>3 DEF BroadcastTypeOK, Passive
<1>6. SequenceSound' /\ ValueSound' /\ LockSound' /\ Covered' /\ PosSound' /\ InOrder'
  BY <1>1, <1>2, <1>4, <1>5, PassiveKeeps
<1>7. r \in DOMAIN rpc /\ enlisted \subseteq RxHandle /\ rxLock \subseteq RxHandle
  BY <1>0 DEF BroadcastTypeOK
<1>8. WaitSound'
  <2>1. CASE Empty(r) /\ rpc'[r] = "idle"
    <3>1. rpc[r] = "empty" /\ UNCHANGED <<rxLock, enlisted, rxEmpty>>
      BY <1>7, <2>1 DEF Empty, RJump
    <3> QED
      BY <1>0, <1>2, <1>4, <1>7, <2>1, <3>1 DEF WaitSound, Waits, Asleep, Closing
  <2>2. CASE Empty(r) /\ rpc'[r] # "idle"
    <3>1. /\ rpc[r] = "empty" /\ rpc'[r] = "open" /\ rxLock = {} /\ rxLock' = {r} /\ ~rxClosed
          /\ UNCHANGED <<enlisted, rxEmpty>>
      BY <1>7, <2>2 DEF Empty, RJump
    <3> QED
      BY <1>0, <1>2, <1>4, <1>7, <3>1 DEF WaitSound, Waits, Asleep, Closing
  <2>3. CASE EmptyNew(r)
    <3>1. rpc[r] = "open" /\ rpc'[r] = "check" /\ rxEmpty' = FALSE /\ UNCHANGED <<enlisted, rxLock>>
      BY <1>7, <2>3 DEF EmptyNew, RJump
    <3> QED
      BY <1>0, <1>2, <1>4, <1>7, <3>1 DEF WaitSound, Waits, Asleep, Closing
  <2>4. CASE Check(r)
    <3>1. rpc[r] = "check" /\ rxLock' = {} /\ \A q \in RxHandle : q # r => rpc[q] \notin {"open", "check"}
      BY <1>0, <2>4 DEF Check, WaitSound
    <3>2. CASE tail = pos[r]
      <4>1. rpc'[r] = "asleep" /\ enlisted' = enlisted \cup {r} /\ rxEmpty' = rxEmpty
        BY <1>7, <2>4, <3>2 DEF Check, RJump
      <4> QED
        BY <1>0, <1>2, <1>4, <1>7, <3>1, <4>1 DEF WaitSound, Waits, Asleep, Closing
    <3>3. CASE tail # pos[r]
      <4>1. rpc'[r] = "idle" /\ enlisted' = enlisted /\ rxEmpty' = (enlisted = {})
        BY <1>7, <2>4, <3>3 DEF Check, RJump
      <4> QED
        BY <1>0, <1>2, <1>4, <1>7, <3>1, <4>1 DEF WaitSound, Waits, Asleep, Closing
    <3> QED
      BY <3>2, <3>3
  <2>5. CASE Interrupt(r)
    <3>1. /\ rpc[r] = "asleep" /\ rpc'[r] = "idle" /\ enlisted' = enlisted \ {r}
          /\ UNCHANGED <<rxEmpty, rxLock>>
      BY <1>7, <2>5 DEF Interrupt, RJump
    <3> QED
      BY <1>0, <1>2, <1>4, <1>7, <3>1 DEF WaitSound, Waits, Asleep, Closing
  <2> QED
    BY <2>1, <2>2, <2>3, <2>4, <2>5
<1>9. MessageWakes'
  <2> SUFFICES ASSUME NEW q \in RxHandle, rpc'[q] = "asleep"
               PROVE  /\ q \in enlisted'
                      /\ sequence[SlotOf(pos[q])] > pos[q] => \E s \in TxHandle : Waking(s)
    BY <1>1, <1>2 DEF MessageWakes, Asleep, Waking
  <2>0. q \in enlisted'
    BY <1>8 DEF WaitSound, Asleep
  <2>1. CASE q # r
    BY <1>0, <1>4, <2>0, <2>1 DEF MessageWakes, Asleep
  <2>2. CASE q = r
    <3>1. rpc[r] = "asleep" \/ (rpc[r] = "check" /\ tail = pos[r])
      BY <1>7, <2>2 DEF Empty, EmptyNew, Check, Interrupt, RJump
    <3>2. CASE rpc[r] = "asleep"
      BY <1>0, <2>0, <2>2, <3>2 DEF MessageWakes, Asleep
    <3>3. CASE tail = pos[r]
      <4>1. pos[r] \in Nat
        BY <1>0 DEF BroadcastTypeOK
      <4>2. SlotOf(pos[r]) \in Slot /\ SlotOf(pos[r]) <= pos[r] /\ SlotOf(pos[r]) \in Nat
        BY <4>1, SlotFacts
      <4>3. sequence[SlotOf(pos[r])] <= pos[r] /\ sequence[SlotOf(pos[r])] \in Nat
        BY <1>0, <3>3, <4>1, <4>2 DEF SequenceSound, BroadcastTypeOK
      <4> QED
        BY <2>0, <2>2, <4>1, <4>3
    <3> QED
      BY <3>1, <3>2, <3>3
  <2> QED
    BY <2>1, <2>2
<1> QED
  BY <1>5, <1>6, <1>8, <1>9 DEF BroadcastInv

\* The hint says that nobody waits: then nobody sleeps, and who is about to
\* holds the lock.
LEMMA WakeLoadInv ==
  ASSUME BroadcastInv, NEW s \in TxHandle, WakeLoad(s)
  PROVE  BroadcastInv'
<1>0. BroadcastTypeOK /\ WaitSound /\ MessageWakes
  BY DEF BroadcastInv
<1>1. /\ UNCHANGED <<tail, rxCount, rxClosed, enlisted, rxEmpty, rxLock,
                     slots, index, receivers, rpc,
                     pos, got, missed, from>>
      /\ UNCHANGED <<sequence, remaining, bits, init, readers>>
      /\ spc[s] \in {"wake", "closing"}
      /\ \/ rxEmpty /\ spc' = [spc EXCEPT ![s] = IF Closing(s) THEN "gone" ELSE "idle"]
         \/ ~rxEmpty /\ spc' = [spc EXCEPT ![s] = IF Closing(s) THEN "closelock" ELSE "waking"]
  BY DEF WakeLoad, SJump, chan, waiters, slots, rvars
<1>2. /\ \A x \in TxHandle : x # s => spc'[x] = spc[x]
      /\ spc'[s] \in {"gone", "idle", "closelock", "waking"}
      /\ ~rxEmpty => (Closing(s)' <=> Closing(s)) /\ (Waking(s)' <=> Waking(s))
      /\ spc[s] = "wake" => ~Closing(s) /\ ~Closing(s)'
  BY <1>0, <1>1 DEF BroadcastTypeOK, Closing, Waking
<1>3. BroadcastTypeOK'
  BY <1>0, <1>1 DEF BroadcastTypeOK
<1>4. \A x \in TxHandle : spc'[x] \in {"claimed", "counted"} => spc[x] = spc'[x]
  BY <1>2
<1>5. SequenceSound' /\ ValueSound' /\ LockSound' /\ Covered' /\ PosSound' /\ InOrder'
  BY <1>1, <1>3, <1>4, PassiveKeeps
<1>6. CASE rxEmpty
  <2>1. \A r \in RxHandle : rpc[r] # "asleep" /\ (Waits(r) => r \in rxLock)
    BY <1>0, <1>6 DEF WaitSound, Waits, Asleep
  <2>2. MessageWakes'
    BY <1>1, <2>1 DEF MessageWakes, Asleep
  <2>3. WaitSound'
    BY <1>0, <1>1, <2>1 DEF WaitSound, Waits, Asleep
  <2> QED
    BY <1>3, <1>5, <2>2, <2>3 DEF BroadcastInv
<1>7. CASE ~rxEmpty
  <2>1. \A x \in TxHandle : (Closing(x)' <=> Closing(x)) /\ (Waking(x)' <=> Waking(x))
    BY <1>2, <1>7 DEF Closing, Waking
  <2>2. MessageWakes'
    BY <1>0, <1>1, <2>1 DEF MessageWakes, Asleep
  <2>3. WaitSound'
    BY <1>0, <1>1, <2>1 DEF WaitSound, Waits, Asleep
  <2> QED
    BY <1>3, <1>5, <2>2, <2>3 DEF BroadcastInv
<1> QED
  BY <1>6, <1>7

\* wake_all under the lock, by a sender that has published or by the drop of
\* the last one: everybody who sleeps is on the list, and gets up.
LEMMA WakeAllRxInv ==
  ASSUME BroadcastInv, NEW s \in TxHandle, WakeAllRx(s)
  PROVE  BroadcastInv'
<1>0. BroadcastTypeOK /\ WaitSound
  BY DEF BroadcastInv
<1>1. /\ UNCHANGED <<tail, rxCount, rxClosed, rxEmpty, rxLock,
                     slots, index, receivers, pos, got, missed, from>>
      /\ UNCHANGED <<sequence, remaining, bits, init, readers>>
      /\ enlisted' = {} /\ rxLock = {}
      /\ \E to \in {"gone", "idle"} : spc' = [spc EXCEPT ![s] = to]
      /\ rpc' = [r \in RxHandle |-> IF r \in enlisted THEN "idle" ELSE rpc[r]]
  BY DEF WakeAllRx, SJump, slots
<1>2. \A r \in RxHandle : /\ rpc'[r] \notin {"open", "check", "asleep"}
                          /\ rpc'[r] = rpc[r] \/ (rpc[r] \in Passive /\ rpc'[r] \in Passive)
  BY <1>0, <1>1 DEF WaitSound, Asleep, Passive
<1>3. BroadcastTypeOK'
  BY <1>0, <1>1 DEF BroadcastTypeOK
<1>4. \A x \in TxHandle : spc'[x] \in {"claimed", "counted"} => spc[x] = spc'[x]
  BY <1>0, <1>1 DEF BroadcastTypeOK
<1>5. SequenceSound' /\ ValueSound' /\ LockSound' /\ Covered' /\ PosSound' /\ InOrder'
  BY <1>1, <1>2, <1>3, <1>4, PassiveKeeps
<1>6. WaitSound' /\ MessageWakes'
  BY <1>1, <1>2 DEF WaitSound, MessageWakes, Waits, Asleep
<1> QED
  BY <1>3, <1>5, <1>6 DEF BroadcastInv

\* A sender comes or goes; the last one has to close.
LEMMA SenderCountInv ==
  ASSUME BroadcastInv, NEW s \in TxHandle, CloneSender(s) \/ DropTx(s)
  PROVE  BroadcastInv'
<1>0. BroadcastTypeOK /\ WaitSound /\ MessageWakes
  BY DEF BroadcastInv
<1>1. /\ spc[s] \in {"none", "idle"}
      /\ \E to \in {"idle", "closing", "gone"} : spc' = [spc EXCEPT ![s] = to]
      /\ rxClosed' \in BOOLEAN
      /\ UNCHANGED <<tail, rxCount, enlisted, rxEmpty, rxLock,
                     slots, index, receivers, rpc, pos, got,
                     missed, from>>
      /\ UNCHANGED <<sequence, remaining, bits, init, readers>>
  BY <1>0 DEF CloneSender, DropTx, SJump, rvars, slots, waiters, BroadcastTypeOK
<1>2. BroadcastTypeOK'
  BY <1>0, <1>1 DEF BroadcastTypeOK
<1>3. /\ \A x \in TxHandle : spc'[x] \in {"claimed", "counted"} => spc[x] = spc'[x]
      /\ \A x \in TxHandle : Waking(x) => Waking(x)'
      /\ \A x \in TxHandle : Closing(x) => Closing(x)'
  BY <1>0, <1>1 DEF BroadcastTypeOK, Waking, Closing
<1>4. SequenceSound' /\ ValueSound' /\ LockSound' /\ Covered' /\ PosSound' /\ InOrder'
  BY <1>1, <1>2, <1>3, PassiveKeeps
<1>5. MessageWakes'
  BY <1>0, <1>1, <1>3 DEF MessageWakes, Asleep
<1>6. WaitSound'
  <2>1. rxClosed' /\ ~Closing(s)' => rxClosed
    <3>1. CASE CloneSender(s)
      BY <3>1 DEF CloneSender, waiters
    <3>2. CASE DropTx(s) /\ txCount = 1
      <4>1. spc'[s] = "closing"
        BY <1>0, <3>2 DEF DropTx, SJump, BroadcastTypeOK
      <4> QED
        BY <4>1 DEF Closing
    <3>3. CASE DropTx(s) /\ txCount # 1
      BY <1>0, <3>3 DEF DropTx, BroadcastTypeOK
    <3> QED
      BY <3>1, <3>2, <3>3
  <2> QED
    BY <1>0, <1>1, <1>3, <2>1 DEF WaitSound, Waits, Asleep
<1> QED
  BY <1>2, <1>4, <1>5, <1>6 DEF BroadcastInv

-----------------------------------------------------------------------------
(* send *)

\* A claimed index is new: no receiver is behind it that was not behind the tail.
LEMMA ClaimInv ==
  ASSUME BroadcastInv, NEW s \in TxHandle, Claim(s)
  PROVE  BroadcastInv'
<1>0. /\ BroadcastTypeOK /\ SequenceSound /\ ValueSound /\ LockSound /\ Covered /\ PosSound /\ InOrder
      /\ WaitSound /\ MessageWakes
  BY DEF BroadcastInv
<1>1. /\ spc[s] = "idle" /\ index' = [index EXCEPT ![s] = tail] /\ tail' = tail + 1
      /\ spc' = [spc EXCEPT ![s] = "claimed"]
      /\ UNCHANGED <<rxCount, rxClosed, enlisted, rxEmpty, rxLock,
                     sequence, remaining, bits, init, readers, receivers,
                     rpc, pos, got, missed, from>>
  BY DEF Claim, SJump, slots, rvars, waiters
<1>2. BroadcastTypeOK'
  BY <1>0, <1>1 DEF BroadcastTypeOK
<1>3. SequenceSound' /\ PosSound'
  <2>1. /\ tail \in Nat /\ Size \in Nat /\ \A x \in Slot : sequence[x] \in Nat
        /\ \A r \in RxHandle : pos[r] \in Nat
    BY <1>0, SizeAssumption DEF BroadcastTypeOK
  <2>2. SequenceSound'
    BY <1>0, <1>1, <2>1 DEF SequenceSound
  <2>3. ASSUME NEW r \in RxHandle PROVE pos[r] <= tail' /\ (rpc[r] = "lag" => pos[r] + Size < tail')
    BY <1>0, <1>1, <2>1 DEF PosSound
  <2>4. PosSound'
    BY <1>0, <1>1, <2>3 DEF PosSound, Reading
  <2> QED
    BY <2>2, <2>4
<1>4. ValueSound' /\ LockSound'
  BY <1>0, <1>1 DEF ValueSound, LockSound, Reading
<1>5. InOrder'
  BY <1>0, <1>1 DEF InOrder, Live
<1>6. Covered'
  <2>1. (\A n : Behind(n)' = Behind(n)) /\ Counted' = Counted
    BY <1>1 DEF Behind, Counted, Live
  <2>2. \A x \in TxHandle : x # s => spc'[x] = spc[x] /\ index'[x] = index[x]
    BY <1>0, <1>1 DEF BroadcastTypeOK
  <2>3. /\ spc'[s] = "claimed" /\ index'[s] < tail'
        /\ \A x \in TxHandle : x # s /\ spc[x] \in {"claimed", "counted"} => index[x] < tail'
    BY <1>0, <1>1 DEF BroadcastTypeOK, Covered
  <2>4. \A x \in TxHandle : spc'[x] = "counted" =>
            Cardinality(Behind(index[x] + 1)') <= receivers'[x]
    <3> SUFFICES ASSUME NEW x \in TxHandle, spc'[x] = "counted"
                 PROVE  Cardinality(Behind(index[x] + 1)') <= receivers'[x]
      OBVIOUS
    <3>1. x # s /\ spc[x] = "counted" /\ index'[x] = index[x]
      BY <2>2, <2>3
    <3>2. Behind(index[x] + 1)' = Behind(index[x] + 1)
      BY <2>1, <3>1 DEF Behind
    <3> QED
      BY <1>0, <1>1, <3>1, <3>2 DEF Covered
  <2>5. \A x \in Slot : Written(x)' => Cardinality(Behind(sequence[x])') <= remaining'[x]
    <3>1. \A x \in Slot : Behind(sequence[x])' = Behind(sequence[x]) /\ (Written(x)' <=> Written(x))
      BY <1>1 DEF Behind, Live, Written
    <3> QED
      BY <1>0, <1>1, <3>1 DEF Covered
  <2> QED
    BY <1>0, <1>1, <2>1, <2>2, <2>3, <2>4, <2>5 DEF Covered
<1>7. WaitSound' /\ MessageWakes'
  BY <1>0, <1>1 DEF WaitSound, MessageWakes, Asleep, Waits, Waking, Closing, BroadcastTypeOK
<1> QED
  BY <1>2, <1>3, <1>4, <1>5, <1>6, <1>7 DEF BroadcastInv

\* The number of receivers a sender loads covers all that can be behind.
LEMMA CountInv ==
  ASSUME BroadcastInv, NEW s \in TxHandle, Count(s)
  PROVE  BroadcastInv'
<1>0. /\ BroadcastTypeOK /\ SequenceSound /\ ValueSound /\ LockSound /\ Covered /\ PosSound /\ InOrder
      /\ WaitSound /\ MessageWakes
  BY DEF BroadcastInv
<1>1. /\ spc[s] = "claimed" /\ receivers' = [receivers EXCEPT ![s] = rxCount]
      /\ spc' = [spc EXCEPT ![s] = "counted"]
      /\ UNCHANGED <<tail, rxCount, rxClosed, enlisted, rxEmpty, rxLock,
                     sequence, remaining, bits, init, readers, index,
                     rpc, pos, got, missed, from>>
  BY DEF Count, SJump, slots, rvars, chan, waiters
<1>2. rxCount \in Nat /\ Cardinality(Behind(index[s] + 1)) <= rxCount
  <2>1. Behind(index[s] + 1) \subseteq Counted
    BY DEF Behind, Counted, Live
  <2> QED
    BY <1>0, <2>1, BehindSets, ReceiverSets DEF Covered
<1>3. BroadcastTypeOK'
  BY <1>0, <1>1, <1>2 DEF BroadcastTypeOK
<1>4. SequenceSound' /\ PosSound' /\ ValueSound' /\ LockSound'
  BY <1>0, <1>1 DEF SequenceSound, PosSound, ValueSound, LockSound, Reading
<1>5. InOrder'
  BY <1>0, <1>1 DEF InOrder, Live
<1>6. Covered'
  <2>1. /\ Counted' = Counted
        /\ \A x \in TxHandle : Behind(index[x] + 1)' = Behind(index[x] + 1)
        /\ \A x \in Slot : Behind(sequence[x])' = Behind(sequence[x]) /\ (Written(x)' <=> Written(x))
    BY <1>1 DEF Behind, Counted, Live, Written
  <2>2. \A x \in TxHandle : x # s => spc'[x] = spc[x] /\ receivers'[x] = receivers[x]
    BY <1>0, <1>1 DEF BroadcastTypeOK
  <2>3. spc'[s] = "counted" /\ receivers'[s] = rxCount
    BY <1>0, <1>1 DEF BroadcastTypeOK
  <2> QED
    BY <1>0, <1>1, <1>2, <2>1, <2>2, <2>3 DEF Covered
<1>7. WaitSound' /\ MessageWakes'
  BY <1>0, <1>1 DEF WaitSound, MessageWakes, Asleep, Waits, Waking, Closing, BroadcastTypeOK
<1> QED
  BY <1>3, <1>4, <1>5, <1>6, <1>7 DEF BroadcastInv

\* The section under the write lock: no reader is in the slot, and a receiver
\* that sleeps at or before the index is among those the sender will wake.
LEMMA PublishInv ==
  ASSUME BroadcastInv, NEW s \in TxHandle, Publish(s)
  PROVE  BroadcastInv'
<1> DEFINE slot == SlotOf(index[s])
<1>0. /\ BroadcastTypeOK /\ SequenceSound /\ ValueSound /\ LockSound /\ Covered /\ PosSound /\ InOrder
      /\ WaitSound /\ MessageWakes
  BY DEF BroadcastInv
<1>1. /\ spc[s] = "counted" /\ readers[slot] = {}
      /\ remaining' = [remaining EXCEPT ![slot] = receivers[s]]
      /\ sequence' = [sequence EXCEPT ![slot] = index[s] + 1]
      /\ init' = [init EXCEPT ![slot] = receivers[s] # 0]
      /\ bits' = [bits EXCEPT ![slot] = IF receivers[s] = 0 THEN @ ELSE index[s]]
      /\ spc' = [spc EXCEPT ![s] = IF receivers[s] = 0 THEN "idle" ELSE "wake"]
      /\ UNCHANGED <<tail, rxCount, rxClosed, enlisted, rxEmpty, rxLock,
                     readers, index, receivers, rpc, pos, got, missed, from>>
  BY DEF Publish, SJump, rvars, chan, waiters
<1>2. /\ index[s] \in Nat /\ receivers[s] \in Nat /\ index[s] + 1 \in Nat /\ index[s] + 1 <= tail
      /\ Cardinality(Behind(index[s] + 1)) <= receivers[s]
  BY <1>0, <1>1 DEF BroadcastTypeOK, Covered
<1>3. slot \in Slot /\ slot \in Nat /\ slot < index[s] + 1 /\ SlotOf(index[s] + 1 - 1) = slot
  BY <1>2, SlotFacts
<1> HIDE DEF slot
<1>4. \A x \in Slot : /\ x # slot => /\ remaining'[x] = remaining[x] /\ sequence'[x] = sequence[x]
                                     /\ init'[x] = init[x] /\ bits'[x] = bits[x]
                      /\ x = slot => /\ remaining'[x] = receivers[s] /\ sequence'[x] = index[s] + 1
                                     /\ init'[x] = (receivers[s] # 0)
                                     /\ receivers[s] # 0 => bits'[x] = index[s]
  BY <1>0, <1>1, <1>3 DEF BroadcastTypeOK
<1>5. BroadcastTypeOK'
  BY <1>0, <1>1, <1>2, <1>3 DEF BroadcastTypeOK
<1>6. SequenceSound'
  BY <1>0, <1>1, <1>2, <1>3, <1>4 DEF SequenceSound
<1>7. ValueSound'
  <2> SUFFICES ASSUME NEW x \in Slot
               PROVE  /\ remaining'[x] # 0 => /\ init'[x] /\ bits'[x] = sequence'[x] - 1
                                              /\ \A r \in readers[x] : rpc[r] = "clone"
                      /\ remaining'[x] = 0 => (init'[x] <=> \E r \in readers[x] : rpc[r] = "take")
                      /\ \A r, q \in readers[x] : rpc[r] = "take" /\ rpc[q] = "take" => r = q
    BY <1>1 DEF ValueSound
  <2>1. CASE x = slot
    <3>1. remaining'[x] = receivers[s] /\ readers[x] = {}
      BY <1>1, <1>4, <2>1
    <3>2. init'[x] <=> receivers[s] # 0
      BY <1>4, <2>1
    <3>3. receivers[s] # 0 => bits'[x] = sequence'[x] - 1
      BY <1>2, <1>4, <2>1
    <3> QED
      BY <3>1, <3>2, <3>3
  <2>2. CASE x # slot
    BY <1>0, <1>4, <2>2 DEF ValueSound
  <2> QED
    BY <2>1, <2>2
<1>8. LockSound'
  BY <1>0, <1>1, <1>4 DEF LockSound, Reading
<1>9. PosSound'
  BY <1>0, <1>1 DEF PosSound, Reading
<1>10. InOrder'
  BY <1>0, <1>1 DEF InOrder, Live
<1>11. Covered'
  <2>1. /\ Counted' = Counted
        /\ \A n : Behind(n)' = Behind(n)
        /\ \A x \in TxHandle : Behind(index[x] + 1)' = Behind(index[x] + 1)
    BY <1>1 DEF Behind, Counted, Live
  <2>2. \A x \in TxHandle : spc'[x] \in {"claimed", "counted"} => spc'[x] = spc[x]
    BY <1>0, <1>1 DEF BroadcastTypeOK
  <2>3. ASSUME NEW x \in Slot, Written(x)' PROVE Cardinality(Behind(sequence[x])') <= remaining'[x]
    <3>1. CASE x = slot
      <4>1. Behind(sequence[x])' = Behind(index[s] + 1)
        BY <1>1, <1>4, <3>1 DEF Behind, Live
      <4> QED
        BY <1>2, <1>4, <3>1, <4>1
    <3>2. CASE x # slot
      <4>1. Behind(sequence[x])' = Behind(sequence[x]) /\ Written(x)
        BY <1>1, <1>4, <2>3, <3>2 DEF Behind, Live, Written
      <4> QED
        BY <1>0, <1>4, <3>2, <4>1 DEF Covered
    <3> QED
      BY <3>1, <3>2
  <2> QED
    BY <1>0, <1>1, <2>1, <2>2, <2>3 DEF Covered
<1>12. MessageWakes'
  <2> SUFFICES ASSUME NEW q \in RxHandle, rpc[q] = "asleep"
               PROVE  /\ q \in enlisted
                      /\ sequence'[SlotOf(pos[q])] > pos[q] => \E x \in TxHandle : Waking(x)'
    BY <1>1 DEF MessageWakes, Asleep
  <2>1. q \in enlisted
    BY <1>0 DEF MessageWakes, Asleep
  <2>2. CASE receivers[s] # 0
    BY <1>0, <1>1, <2>1, <2>2 DEF BroadcastTypeOK, Waking
  <2>3. CASE receivers[s] = 0
    <3>1. Behind(index[s] + 1) = {}
      BY <1>2, <2>3, BehindSets, ReceiverSets, FS_EmptySet
    <3>2. pos[q] \in Nat /\ ~(pos[q] < index[s] + 1) /\ SlotOf(pos[q]) \in Slot
      BY <1>0, <3>1, SlotFacts DEF Behind, Live, BroadcastTypeOK
    <3>3. CASE SlotOf(pos[q]) = slot
      <4>1. ~(sequence'[SlotOf(pos[q])] > pos[q])
        BY <1>2, <1>4, <3>2, <3>3
      <4> QED
        BY <2>1, <4>1
    <3>4. CASE SlotOf(pos[q]) # slot
      <4>1. sequence[SlotOf(pos[q])] > pos[q] => \E x \in TxHandle : Waking(x)
        BY <1>0 DEF MessageWakes, Asleep
      <4>2. \A x \in TxHandle : Waking(x) => Waking(x)'
        BY <1>0, <1>1 DEF BroadcastTypeOK, Waking
      <4> QED
        BY <1>4, <2>1, <3>2, <3>4, <4>1, <4>2
    <3> QED
      BY <3>3, <3>4
  <2> QED
    BY <2>2, <2>3
<1>13. WaitSound'
  <2>1. \A x \in TxHandle : Closing(x)' <=> Closing(x)
    BY <1>0, <1>1 DEF BroadcastTypeOK, Closing
  <2> QED
    BY <1>0, <1>1, <2>1 DEF WaitSound, Asleep, Waits
<1> QED
  BY <1>5, <1>6, <1>7, <1>8, <1>9, <1>10, <1>11, <1>12, <1>13 DEF BroadcastInv

-----------------------------------------------------------------------------
(* A receiver comes, goes, or changes its position without a slot *)

\* A receiver that holds no lock and does not sleep moves without a trace in
\* the slots, for the other receivers, or for those who sleep.
LEMMA MoveKeeps ==
  ASSUME BroadcastInv, NEW r \in RxHandle, NEW to \in {"new", "idle", "empty", "lag", "gone"},
         NEW p \in Nat, p <= tail, rpc[r] \notin {"take", "clone", "open", "check", "asleep"},
         rpc' = [rpc EXCEPT ![r] = to], pos' = [pos EXCEPT ![r] = p],
         UNCHANGED <<tail, waiters, slots, svars, got>>,
         missed' \in [RxHandle -> Nat], from' \in [RxHandle -> Nat]
  PROVE  /\ BroadcastTypeOK' /\ SequenceSound' /\ ValueSound' /\ LockSound' /\ WaitSound' /\ MessageWakes'
         /\ \A q \in RxHandle : q # r => rpc'[q] = rpc[q] /\ pos'[q] = pos[q]
         /\ rpc'[r] = to /\ pos'[r] = p
<1>0. /\ BroadcastTypeOK /\ SequenceSound /\ ValueSound /\ LockSound /\ WaitSound /\ MessageWakes
      /\ UNCHANGED <<sequence, remaining, bits, init, readers, spc, index, receivers>>
      /\ UNCHANGED <<rxClosed, enlisted, rxEmpty, rxLock>>
  BY DEF BroadcastInv, slots, svars, waiters
<1>1. /\ \A q \in RxHandle : q # r => rpc'[q] = rpc[q] /\ pos'[q] = pos[q]
      /\ rpc'[r] = to /\ pos'[r] = p
  BY <1>0 DEF BroadcastTypeOK
<1>2. BroadcastTypeOK'
  BY <1>0 DEF BroadcastTypeOK
<1>3. SequenceSound'
  BY <1>0 DEF SequenceSound
<1>4. \A s \in Slot : readers[s] \subseteq RxHandle /\ r \notin readers[s]
  BY <1>0 DEF LockSound, Reading, BroadcastTypeOK
<1>5. ValueSound'
  BY <1>0, <1>1, <1>4 DEF ValueSound
<1>6. LockSound'
  BY <1>0, <1>1, <1>4 DEF LockSound, Reading
<1>7. WaitSound' /\ MessageWakes'
  BY <1>0, <1>1 DEF WaitSound, MessageWakes, Asleep, Waits, Waking, Closing
<1> QED
  BY <1>1, <1>2, <1>3, <1>5, <1>6, <1>7

\* Receiver::new counts the receiver before it has a position.
LEMMA NewCountedInv ==
  ASSUME BroadcastInv, NEW r \in RxHandle, NewCounted(r)
  PROVE  BroadcastInv'
<1>0. BroadcastTypeOK /\ SequenceSound /\ Covered /\ PosSound /\ InOrder
  BY DEF BroadcastInv
<1>1. /\ rpc[r] = "none" /\ rxCount' = rxCount + 1 /\ rpc' = [rpc EXCEPT ![r] = "new"]
      /\ UNCHANGED <<tail, waiters, slots, svars, pos, got, missed, from>>
      /\ UNCHANGED <<sequence, remaining, spc, index, receivers>>
  BY DEF NewCounted, RJump, slots, svars
<1>2. /\ pos[r] \in Nat /\ pos[r] <= tail /\ pos' = [pos EXCEPT ![r] = pos[r]]
      /\ missed' \in [RxHandle -> Nat] /\ from' \in [RxHandle -> Nat]
  BY <1>0, <1>1 DEF BroadcastTypeOK, PosSound
<1>3. /\ BroadcastTypeOK' /\ SequenceSound' /\ ValueSound' /\ LockSound' /\ WaitSound' /\ MessageWakes'
      /\ \A q \in RxHandle : q # r => rpc'[q] = rpc[q]
      /\ rpc'[r] = "new"
  BY <1>1, <1>2, MoveKeeps
<1>4. Covered'
  <2>1. Counted' = Counted \cup {r} /\ r \notin Counted
    BY <1>1, <1>3 DEF Counted
  <2>2. (rxCount = Cardinality(Counted))'
    BY <1>0, <1>1, <2>1, BehindSets, ReceiverSets, FS_AddElement DEF Covered
  <2>3. tail' \in Nat /\ tail <= tail' /\ \A n \in Nat : n <= tail => Behind(n)' \subseteq Behind(n)
    BY <1>0, <1>1, <1>3 DEF BroadcastTypeOK, Behind, Live
  <2> QED
    BY <1>0, <1>1, <2>2, <2>3, CoveredKeeps
<1>5. PosSound' /\ InOrder'
  BY <1>0, <1>1, <1>3 DEF PosSound, InOrder, Reading, Live
<1> QED
  BY <1>3, <1>4, <1>5 DEF BroadcastInv

\* Receiver::new starts at the tail: nothing claimed so far is for it.
LEMMA NewAtTailInv ==
  ASSUME BroadcastInv, NEW r \in RxHandle, NewAtTail(r)
  PROVE  BroadcastInv'
<1>0. BroadcastTypeOK /\ SequenceSound /\ Covered /\ PosSound /\ InOrder /\ tail \in Nat
  BY DEF BroadcastInv, BroadcastTypeOK
<1>1. /\ rpc[r] = "new" /\ rpc' = [rpc EXCEPT ![r] = "idle"]
      /\ pos' = [pos EXCEPT ![r] = tail] /\ from' = [from EXCEPT ![r] = tail]
      /\ UNCHANGED <<tail, rxCount, waiters, slots, svars, got, missed>>
      /\ UNCHANGED <<sequence, remaining, spc, index, receivers>>
  BY DEF NewAtTail, RJump, chan, waiters, slots, svars
<1>2. missed' \in [RxHandle -> Nat] /\ from' \in [RxHandle -> Nat] /\ tail <= tail
  BY <1>0, <1>1 DEF BroadcastTypeOK
<1>3. /\ BroadcastTypeOK' /\ SequenceSound' /\ ValueSound' /\ LockSound' /\ WaitSound' /\ MessageWakes'
      /\ \A q \in RxHandle : q # r => rpc'[q] = rpc[q] /\ pos'[q] = pos[q]
      /\ rpc'[r] = "idle" /\ pos'[r] = tail
  BY <1>0, <1>1, <1>2, MoveKeeps
<1>4. Covered'
  <2>1. Counted' = Counted
    BY <1>1, <1>3 DEF Counted
  <2>2. (rxCount = Cardinality(Counted))'
    BY <1>0, <1>1, <2>1 DEF Covered
  <2>3. tail' \in Nat /\ tail <= tail' /\ \A n \in Nat : n <= tail => Behind(n)' \subseteq Behind(n)
    BY <1>0, <1>1, <1>3 DEF Behind, Live
  <2> QED
    BY <1>0, <1>1, <2>2, <2>3, CoveredKeeps
<1>5. PosSound'
  BY <1>0, <1>1, <1>3 DEF PosSound, Reading
<1>6. InOrder'
  <2>1. got[r] = <<>> /\ missed[r] = 0 /\ from'[r] = tail /\ \A q \in RxHandle : q # r => from'[q] = from[q]
    BY <1>0, <1>1 DEF PosSound, BroadcastTypeOK
  <2>2. Len(got[r]) = 0
    BY <2>1
  <2> QED
    BY <1>0, <1>1, <1>3, <2>1, <2>2 DEF InOrder, Live
<1> QED
  BY <1>3, <1>4, <1>5, <1>6 DEF BroadcastInv

\* synchronize and Lagged: the position moves on, by as many as are reported.
LEMMA SkipInv ==
  ASSUME BroadcastInv, NEW r \in RxHandle, NEW p \in Nat, pos[r] <= p, p <= tail,
         rpc[r] \in {"idle", "lag"}, rpc' = [rpc EXCEPT ![r] = "idle"], pos' = [pos EXCEPT ![r] = p],
         missed' = [missed EXCEPT ![r] = @ + (p - pos[r])],
         UNCHANGED <<chan, slots, svars, got, from>>
  PROVE  BroadcastInv'
<1>0. BroadcastTypeOK /\ SequenceSound /\ Covered /\ PosSound /\ InOrder /\ tail \in Nat
  BY DEF BroadcastInv, BroadcastTypeOK
<1>1. UNCHANGED <<tail, rxCount, waiters, sequence, remaining, spc, index, receivers, got, from>>
  BY DEF chan, waiters, slots, svars
<1>2. /\ pos[r] \in Nat /\ missed[r] \in Nat /\ missed'[r] = missed[r] + (p - pos[r])
      /\ missed' \in [RxHandle -> Nat] /\ from' \in [RxHandle -> Nat]
      /\ \A q \in RxHandle : q # r => missed'[q] = missed[q]
  BY <1>0, <1>1 DEF BroadcastTypeOK
<1>3. /\ BroadcastTypeOK' /\ SequenceSound' /\ ValueSound' /\ LockSound' /\ WaitSound' /\ MessageWakes'
      /\ \A q \in RxHandle : q # r => rpc'[q] = rpc[q] /\ pos'[q] = pos[q]
      /\ rpc'[r] = "idle" /\ pos'[r] = p
  BY <1>0, <1>1, <1>2, MoveKeeps
<1>4. Covered'
  <2>1. Counted' = Counted
    BY <1>1, <1>3 DEF Counted
  <2>2. (rxCount = Cardinality(Counted))'
    BY <1>0, <1>1, <2>1 DEF Covered
  <2>3. tail' \in Nat /\ tail <= tail' /\ \A n \in Nat : n <= tail => Behind(n)' \subseteq Behind(n)
    BY <1>0, <1>1, <1>2, <1>3 DEF Behind, Live
  <2> QED
    BY <1>0, <1>1, <2>2, <2>3, CoveredKeeps
<1>5. PosSound'
  <2>1. \A i \in 1..Len(got[r]) : got[r][i] \in Nat /\ got[r][i] < p
    <3>1. got[r] \in Seq(Nat) /\ ~Reading(r)
      BY <1>0 DEF Reading, BroadcastTypeOK
    <3>2. \A i \in 1..Len(got[r]) : got[r][i] \in Nat /\ got[r][i] < pos[r]
      BY <1>0, <3>1 DEF PosSound
    <3> QED
      BY <1>2, <3>2
  <2> QED
    BY <1>0, <1>1, <1>3, <2>1 DEF PosSound, Reading
<1>6. InOrder'
  <2>1. p = from[r] + Len(got[r]) + missed'[r]
    <3>1. from[r] \in Nat /\ Len(got[r]) \in Nat
      BY <1>0 DEF BroadcastTypeOK
    <3>2. pos[r] = from[r] + Len(got[r]) + missed[r] + 0
      BY <1>0 DEF InOrder, Live
    <3>3. \A a, f, g, m, n \in Nat : a = f + g + m + 0 => n = f + g + (m + (n - a))
      OBVIOUS
    <3> QED
      BY <1>2, <3>1, <3>2, <3>3, SMTT(20)
  <2>2. from[r] \in Nat /\ Len(got[r]) \in Nat /\ missed'[r] \in Nat
    BY <1>0, <1>2 DEF BroadcastTypeOK
  <2>3. ASSUME NEW q \in RxHandle, Live(q)'
        PROVE  pos'[q] = from'[q] + Len(got'[q]) + missed'[q]
                           + (IF rpc'[q] \in {"take", "clone"} THEN 1 ELSE 0)
    <3>1. CASE q = r
      BY <1>1, <1>3, <2>1, <2>2, <3>1
    <3>2. CASE q # r
      BY <1>0, <1>1, <1>2, <1>3, <2>3, <3>2 DEF InOrder, Live
    <3> QED
      BY <3>1, <3>2
  <2> QED
    BY <1>0, <1>1, <2>3 DEF InOrder
<1> QED
  BY <1>3, <1>4, <1>5, <1>6 DEF BroadcastInv

\* synchronize, and Lagged, whose receiver is more than a lap behind the tail.
LEMMA SkipsInv ==
  ASSUME BroadcastInv, NEW r \in RxHandle, Synchronize(r) \/ Lagged(r)
  PROVE  BroadcastInv'
<1>0. /\ BroadcastTypeOK /\ PosSound /\ tail \in Nat /\ Size \in Nat /\ pos[r] \in Nat /\ pos[r] <= tail
  BY SizeAssumption DEF BroadcastInv, BroadcastTypeOK, PosSound
<1>1. CASE Synchronize(r)
  <2>1. rpc[r] = "idle" /\ rpc' = [rpc EXCEPT ![r] = "idle"] /\ tail <= tail
    BY <1>0, <1>1 DEF Synchronize, BroadcastTypeOK
  <2> QED
    BY <1>0, <1>1, <2>1, SkipInv DEF Synchronize
<1>2. CASE Lagged(r)
  <2>1. tail - Size \in Nat /\ pos[r] <= tail - Size /\ tail - Size <= tail
    BY <1>0, <1>2 DEF Lagged, PosSound
  <2> QED
    BY <1>2, <2>1, SkipInv DEF Lagged, RJump
<1> QED
  BY <1>1, <1>2

\* drop of a receiver: whoever is left is still covered.
LEMMA DropRxInv ==
  ASSUME BroadcastInv, NEW r \in RxHandle, DropRx(r)
  PROVE  BroadcastInv'
<1>0. BroadcastTypeOK /\ SequenceSound /\ Covered /\ PosSound /\ InOrder
  BY DEF BroadcastInv
<1>1. /\ rpc[r] = "idle" /\ rxCount' = rxCount - 1 /\ rpc' = [rpc EXCEPT ![r] = "gone"]
      /\ UNCHANGED <<tail, waiters, slots, svars, pos, got, missed, from>>
      /\ UNCHANGED <<sequence, remaining, spc, index, receivers>>
  BY DEF DropRx, RJump, slots, svars
<1>2. /\ pos[r] \in Nat /\ pos[r] <= tail /\ pos' = [pos EXCEPT ![r] = pos[r]]
      /\ missed' \in [RxHandle -> Nat] /\ from' \in [RxHandle -> Nat]
  BY <1>0, <1>1 DEF BroadcastTypeOK, PosSound
<1>3. /\ BroadcastTypeOK' /\ SequenceSound' /\ ValueSound' /\ LockSound' /\ WaitSound' /\ MessageWakes'
      /\ \A q \in RxHandle : q # r => rpc'[q] = rpc[q]
      /\ rpc'[r] = "gone"
  BY <1>1, <1>2, MoveKeeps
<1>4. Covered'
  <2>1. Counted' = Counted \ {r} /\ r \in Counted
    BY <1>1, <1>3 DEF Counted
  <2>2. (rxCount = Cardinality(Counted))'
    BY <1>0, <1>1, <2>1, BehindSets, ReceiverSets, FS_RemoveElement DEF Covered
  <2>3. tail' \in Nat /\ tail <= tail' /\ \A n \in Nat : n <= tail => Behind(n)' \subseteq Behind(n)
    BY <1>0, <1>1, <1>3 DEF BroadcastTypeOK, Behind, Live
  <2> QED
    BY <1>0, <1>1, <2>2, <2>3, CoveredKeeps
<1>5. PosSound' /\ InOrder'
  BY <1>0, <1>1, <1>3 DEF PosSound, InOrder, Reading, Live
<1> QED
  BY <1>3, <1>4, <1>5 DEF BroadcastInv

-----------------------------------------------------------------------------
(* try_recv *)

\* No message at the position: either it is to come, or its slot has been
\* overwritten by a message of a later lap.
LEMMA TryMissInv ==
  ASSUME BroadcastInv, NEW r \in RxHandle, TryReceive(r), sequence[SlotOf(pos[r])] # pos[r] + 1
  PROVE  BroadcastInv'
<1> DEFINE slot == SlotOf(pos[r])
<1> DEFINE to == IF sequence[slot] - (pos[r] + 1) < 0 THEN "empty" ELSE "lag"
<1>0. BroadcastTypeOK /\ SequenceSound /\ Covered /\ PosSound /\ InOrder /\ tail \in Nat
  BY DEF BroadcastInv, BroadcastTypeOK
<1>1. /\ pos[r] \in Nat /\ pos[r] <= tail /\ slot \in Slot /\ slot \in Nat /\ slot <= pos[r]
      /\ sequence[slot] \in Nat
  BY <1>0, SlotFacts DEF BroadcastTypeOK, PosSound
<1>2. /\ rpc[r] = "idle" /\ rpc' = [rpc EXCEPT ![r] = to]
      /\ UNCHANGED <<tail, rxCount, waiters, slots, svars, pos, got, missed, from>>
      /\ UNCHANGED <<sequence, remaining, spc, index, receivers>>
  <2>1. sequence[slot] - (pos[r] + 1) # 0
    BY <1>1
  <2> QED
    BY <2>1 DEF TryReceive, RJump, chan, waiters, slots, svars
<1>3. /\ pos' = [pos EXCEPT ![r] = pos[r]] /\ to \in {"empty", "lag"}
      /\ missed' \in [RxHandle -> Nat] /\ from' \in [RxHandle -> Nat]
  BY <1>0, <1>2 DEF BroadcastTypeOK
<1>4. to = "lag" => pos[r] + Size < tail
  <2> SUFFICES ASSUME to = "lag" PROVE pos[r] + Size < tail
    OBVIOUS
  <2>1. sequence[slot] > pos[r] + 1
    BY <1>1
  <2>2. sequence[slot] # slot
    BY <1>1, <2>1
  <2>3. sequence[slot] <= tail /\ SlotOf(sequence[slot] - 1) = slot
    BY <1>0, <1>1, <2>2 DEF SequenceSound
  <2>4. sequence[slot] - 1 \in Nat /\ pos[r] < sequence[slot] - 1
    BY <1>1, <2>1
  <2>5. pos[r] + Size <= sequence[slot] - 1
    BY <1>1, <2>3, <2>4, SlotFacts
  <2> QED
    BY <1>0, <1>1, <2>3, <2>5, SizeAssumption
<1> HIDE DEF slot, to
<1>5. /\ BroadcastTypeOK' /\ SequenceSound' /\ ValueSound' /\ LockSound' /\ WaitSound' /\ MessageWakes'
      /\ \A q \in RxHandle : q # r => rpc'[q] = rpc[q]
      /\ rpc'[r] = to
  <2>1. to \in {"new", "idle", "empty", "lag", "gone"}
    BY <1>3
  <2> QED
    BY <1>1, <1>2, <1>3, <2>1, MoveKeeps
<1>6. Covered'
  <2>1. Counted' = Counted
    BY <1>2, <1>3, <1>5 DEF Counted
  <2>2. (rxCount = Cardinality(Counted))'
    BY <1>0, <1>2, <2>1 DEF Covered
  <2>3. tail' \in Nat /\ tail <= tail' /\ \A n \in Nat : n <= tail => Behind(n)' \subseteq Behind(n)
    BY <1>0, <1>2, <1>5 DEF Behind, Live
  <2> QED
    BY <1>0, <1>2, <2>2, <2>3, CoveredKeeps
<1>7. PosSound'
  BY <1>0, <1>2, <1>3, <1>4, <1>5 DEF PosSound, Reading
<1>8. InOrder'
  BY <1>0, <1>2, <1>3, <1>5 DEF InOrder, Live
<1> QED
  BY <1>5, <1>6, <1>7, <1>8 DEF BroadcastInv

\* The message at the position is there: its receiver is one of those behind
\* it, so it is counted in `remaining`.
LEMMA TryHitInv ==
  ASSUME BroadcastInv, NEW r \in RxHandle, TryReceive(r), sequence[SlotOf(pos[r])] = pos[r] + 1
  PROVE  BroadcastInv'
<1> DEFINE slot == SlotOf(pos[r])
<1> DEFINE to == IF remaining[slot] = 1 THEN "take" ELSE "clone"
<1>0. /\ BroadcastTypeOK /\ SequenceSound /\ ValueSound /\ LockSound /\ Covered /\ PosSound /\ InOrder
      /\ WaitSound /\ MessageWakes
  BY DEF BroadcastInv
<1>1. /\ pos[r] \in Nat /\ slot \in Slot /\ slot \in Nat /\ slot <= pos[r]
      /\ sequence[slot] = pos[r] + 1 /\ remaining[slot] \in Nat
  BY <1>0, SlotFacts DEF BroadcastTypeOK
<1>2. /\ rpc[r] = "idle" /\ rpc' = [rpc EXCEPT ![r] = to]
      /\ readers' = [readers EXCEPT ![slot] = @ \cup {r}]
      /\ remaining' = [remaining EXCEPT ![slot] = @ - 1]
      /\ pos' = [pos EXCEPT ![r] = @ + 1]
      /\ UNCHANGED <<tail, rxCount, rxClosed, enlisted, rxEmpty, rxLock,
                     sequence, bits, init, spc, index, receivers,
                     got, missed, from>>
  <2>1. sequence[slot] - (pos[r] + 1) = 0
    BY <1>1
  <2> QED
    BY <2>1 DEF TryReceive, RJump, chan, waiters, svars
<1>3. sequence[slot] <= tail /\ tail \in Nat /\ SlotOf(pos[r] + 1 - 1) = slot
  <2>1. sequence[slot] # slot
    BY <1>1
  <2>2. sequence[slot] <= tail /\ SlotOf(sequence[slot] - 1) = slot
    BY <1>0, <1>1, <2>1 DEF SequenceSound
  <2> QED
    BY <1>0, <1>1, <2>2 DEF BroadcastTypeOK
<1>4. remaining[slot] # 0 /\ Cardinality(Behind(sequence[slot]) \ {r}) <= remaining[slot] - 1
  <2>1. r \in Behind(sequence[slot])
    BY <1>1, <1>2 DEF Behind, Live
  <2>2. Cardinality(Behind(sequence[slot])) <= remaining[slot]
    BY <1>0, <1>1 DEF Covered, Written
  <2>3. IsFiniteSet(Behind(sequence[slot])) /\ Cardinality(Behind(sequence[slot])) \in Nat
    BY BehindSets, ReceiverSets
  <2>4. Cardinality(Behind(sequence[slot]) \ {r}) = Cardinality(Behind(sequence[slot])) - 1
    BY <2>1, <2>3, FS_RemoveElement
  <2>5. Cardinality(Behind(sequence[slot])) # 0
    BY <2>1, <2>3, FS_EmptySet
  <2> QED
    BY <1>1, <2>2, <2>3, <2>4, <2>5
<1>5. /\ init[slot] /\ bits[slot] = pos[r] /\ \A q \in readers[slot] : rpc[q] = "clone"
  <2>1. bits[slot] = sequence[slot] - 1
    BY <1>0, <1>1, <1>4 DEF ValueSound
  <2> QED
    BY <1>0, <1>1, <1>4, <2>1 DEF ValueSound
<1>6. to \in {"take", "clone"} /\ (to = "take" <=> remaining[slot] - 1 = 0)
  BY <1>1
<1> HIDE DEF slot, to
<1>7. /\ rpc'[r] = to /\ pos'[r] = pos[r] + 1 /\ readers'[slot] = readers[slot] \cup {r}
      /\ remaining'[slot] = remaining[slot] - 1
      /\ \A q \in RxHandle : q # r => rpc'[q] = rpc[q] /\ pos'[q] = pos[q]
      /\ \A s \in Slot : s # slot => readers'[s] = readers[s] /\ remaining'[s] = remaining[s]
  BY <1>0, <1>1, <1>2 DEF BroadcastTypeOK
<1>8. BroadcastTypeOK'
  <2>1. remaining[slot] - 1 \in Nat
    BY <1>1, <1>4
  <2> QED
    BY <1>0, <1>1, <1>2, <1>6, <2>1 DEF BroadcastTypeOK
<1>9. SequenceSound'
  <2>1. slot < sequence[slot] /\ SlotOf(sequence[slot] - 1) = slot
    BY <1>1, <1>3
  <2> QED
    BY <1>0, <1>2, <1>3, <1>7, <2>1 DEF SequenceSound
<1>10. \A s \in Slot : readers[s] \subseteq RxHandle /\ r \notin readers[s]
  BY <1>0, <1>2 DEF LockSound, Reading, BroadcastTypeOK
<1>11. ValueSound'
  <2> SUFFICES ASSUME NEW s \in Slot
               PROVE  /\ remaining'[s] # 0 => /\ init[s] /\ bits[s] = sequence[s] - 1
                                              /\ \A q \in readers'[s] : rpc'[q] = "clone"
                      /\ remaining'[s] = 0 => (init[s] <=> \E q \in readers'[s] : rpc'[q] = "take")
                      /\ \A q, x \in readers'[s] : rpc'[q] = "take" /\ rpc'[x] = "take" => q = x
    BY <1>2 DEF ValueSound
  <2>1. CASE s # slot
    BY <1>0, <1>7, <1>10, <2>1 DEF ValueSound
  <2>2. CASE s = slot
    <3>1. \A q \in readers[slot] : q # r /\ rpc'[q] = "clone"
      BY <1>1, <1>5, <1>7, <1>10
    <3>2. bits[s] = sequence[s] - 1 /\ init[s]
      BY <1>1, <1>5, <2>2
    <3>3. remaining'[s] # 0 => rpc'[r] = "clone"
      BY <1>6, <1>7, <2>2
    <3>4. remaining'[s] = 0 => rpc'[r] = "take"
      BY <1>6, <1>7, <2>2
    <3> QED
      BY <1>7, <2>2, <3>1, <3>2, <3>3, <3>4
  <2> QED
    BY <2>1, <2>2
<1>12. LockSound'
  <2>1. ASSUME NEW q \in RxHandle, Reading(q)' PROVE pos'[q] > 0 /\ q \in readers'[SlotOf(pos'[q] - 1)]
    <3>1. CASE q = r
      BY <1>1, <1>3, <1>7, <3>1
    <3>2. CASE q # r
      <4>1. pos[q] > 0 /\ q \in readers[SlotOf(pos[q] - 1)] /\ pos[q] \in Nat
        BY <1>0, <1>7, <2>1, <3>2 DEF LockSound, Reading, BroadcastTypeOK
      <4>2. SlotOf(pos[q] - 1) \in Slot
        BY <4>1, SlotFacts
      <4>3. readers[SlotOf(pos[q] - 1)] \subseteq readers'[SlotOf(pos[q] - 1)]
        BY <1>7, <4>2
      <4> QED
        BY <1>7, <3>2, <4>1, <4>3
    <3> QED
      BY <3>1, <3>2
  <2>2. ASSUME NEW s \in Slot, NEW q \in readers'[s]
        PROVE  /\ Reading(q)' /\ pos'[q] > 0 /\ SlotOf(pos'[q] - 1) = s /\ sequence[s] = pos'[q]
               /\ bits[s] = pos'[q] - 1
    <3>1. CASE q = r
      <4>1. s = slot
        BY <1>7, <1>10, <2>2, <3>1
      <4> QED
        BY <1>1, <1>3, <1>5, <1>6, <1>7, <3>1, <4>1 DEF Reading
    <3>2. CASE q # r
      <4>1. q \in readers[s] /\ q \in RxHandle
        BY <1>7, <1>10, <2>2, <3>2
      <4> QED
        BY <1>0, <1>7, <3>2, <4>1 DEF LockSound, Reading
    <3> QED
      BY <3>1, <3>2
  <2> QED
    BY <1>2, <2>1, <2>2 DEF LockSound
<1>13. Covered'
  <2>1. Counted' = Counted
    BY <1>2, <1>6, <1>7 DEF Counted
  <2>2. (rxCount = Cardinality(Counted))'
    BY <1>0, <1>2, <2>1 DEF Covered
  <2>3. \A n \in Nat : n <= tail => Behind(n)' \subseteq Behind(n)
    BY <1>1, <1>2, <1>6, <1>7 DEF Behind, Live
  <2>4. ASSUME NEW s \in Slot, s = slot PROVE (Cardinality(Behind(sequence[s])) <= remaining[s])'
    <3>1. Behind(sequence[s])' = Behind(sequence[s]) \ {r}
      BY <1>1, <1>2, <1>6, <1>7, <2>4 DEF Behind, Live
    <3> QED
      BY <1>4, <1>7, <2>4, <3>1
  <2>5. \A s \in Slot : remaining'[s] = remaining[s] \/ (Cardinality(Behind(sequence[s])) <= remaining[s])'
    BY <1>7, <2>4
  <2> QED
    BY <1>0, <1>2, <1>3, <2>2, <2>3, <2>5, CoveredKeeps
<1>14. PosSound'
  <2>1. pos'[r] <= tail /\ pos'[r] - 1 = pos[r]
    BY <1>1, <1>3, <1>7
  <2> QED
    BY <1>0, <1>2, <1>6, <1>7, <2>1 DEF PosSound, Reading
<1>15. InOrder'
  <2>1. pos[r] = from[r] + Len(got[r]) + missed[r] + 0
    BY <1>0, <1>2 DEF InOrder, Live
  <2>2. from[r] \in Nat /\ Len(got[r]) \in Nat /\ missed[r] \in Nat
    BY <1>0 DEF BroadcastTypeOK
  <2>3. pos'[r] = from[r] + Len(got[r]) + missed[r] + 1
    BY <1>7, <2>1, <2>2
  <2> QED
    BY <1>0, <1>2, <1>6, <1>7, <2>3 DEF InOrder, Live
<1>16. WaitSound' /\ MessageWakes'
  BY <1>0, <1>2, <1>6, <1>7 DEF WaitSound, MessageWakes, Asleep, Waits, Waking, Closing
<1> QED
  BY <1>8, <1>9, <1>11, <1>12, <1>13, <1>14, <1>15, <1>16 DEF BroadcastInv

\* The value is moved out or cloned: only the one who lowered `remaining` to
\* zero moves it out, and nobody else then comes to the slot.
LEMMA ValueInv ==
  ASSUME BroadcastInv, NEW r \in RxHandle, Value(r)
  PROVE  BroadcastInv'
<1> DEFINE slot == SlotOf(pos[r] - 1)
<1>0. /\ BroadcastTypeOK /\ SequenceSound /\ ValueSound /\ LockSound /\ Covered /\ PosSound /\ InOrder
      /\ WaitSound /\ MessageWakes
  BY DEF BroadcastInv
<1>1. /\ rpc[r] \in {"take", "clone"} /\ rpc' = [rpc EXCEPT ![r] = "idle"]
      /\ got' = [got EXCEPT ![r] = Append(@, bits[slot])]
      /\ init' = [init EXCEPT ![slot] = @ /\ rpc[r] = "clone"]
      /\ readers' = [readers EXCEPT ![slot] = @ \ {r}]
      /\ UNCHANGED <<tail, rxCount, rxClosed, enlisted, rxEmpty, rxLock,
                     sequence, remaining, bits, spc, index, receivers,
                     pos, missed, from>>
  BY DEF Value, RJump, chan, waiters, svars
<1>2. /\ pos[r] \in Nat /\ pos[r] > 0 /\ pos[r] - 1 \in Nat /\ slot \in Slot /\ r \in readers[slot]
      /\ bits[slot] = pos[r] - 1
  <2>1. pos[r] \in Nat /\ pos[r] > 0 /\ r \in readers[slot]
    BY <1>0, <1>1 DEF LockSound, Reading, BroadcastTypeOK
  <2>2. pos[r] - 1 \in Nat
    BY <2>1
  <2>3. slot \in Slot
    BY <2>2, SlotFacts
  <2> QED
    BY <1>0, <2>1, <2>2, <2>3 DEF LockSound
<1>3. \A s \in Slot : readers[s] \subseteq RxHandle /\ (s # slot => r \notin readers[s])
  BY <1>0 DEF LockSound, BroadcastTypeOK
<1> HIDE DEF slot
<1>4. /\ rpc'[r] = "idle" /\ got'[r] = Append(got[r], pos[r] - 1) /\ readers'[slot] = readers[slot] \ {r}
      /\ \A q \in RxHandle : q # r => rpc'[q] = rpc[q] /\ got'[q] = got[q]
      /\ \A s \in Slot : s # slot => readers'[s] = readers[s] /\ init'[s] = init[s]
  BY <1>0, <1>1, <1>2 DEF BroadcastTypeOK
<1>5. init'[slot] = (init[slot] /\ rpc[r] = "clone")
  BY <1>0, <1>1, <1>2 DEF BroadcastTypeOK
<1>6. BroadcastTypeOK'
  <2>1. got' \in [RxHandle -> Seq(Nat)]
    BY <1>0, <1>1, <1>2 DEF BroadcastTypeOK
  <2>2. init' \in [Slot -> BOOLEAN]
    BY <1>0, <1>1, <1>2 DEF BroadcastTypeOK
  <2>3. readers' \in [Slot -> SUBSET RxHandle]
    BY <1>0, <1>1, <1>2 DEF BroadcastTypeOK
  <2> QED
    BY <1>0, <1>1, <2>1, <2>2, <2>3 DEF BroadcastTypeOK
<1>7. SequenceSound'
  BY <1>0, <1>1 DEF SequenceSound
<1>8. ValueSound'
  <2> SUFFICES ASSUME NEW s \in Slot
               PROVE  /\ remaining[s] # 0 => /\ init'[s] /\ bits[s] = sequence[s] - 1
                                             /\ \A q \in readers'[s] : rpc'[q] = "clone"
                      /\ remaining[s] = 0 => (init'[s] <=> \E q \in readers'[s] : rpc'[q] = "take")
                      /\ \A q, x \in readers'[s] : rpc'[q] = "take" /\ rpc'[x] = "take" => q = x
    BY <1>1 DEF ValueSound
  <2>0. \A q \in readers'[s] : q \in readers[s] /\ q # r /\ rpc'[q] = rpc[q]
    BY <1>2, <1>3, <1>4
  <2>1. CASE s # slot
    BY <1>0, <1>3, <1>4, <2>0, <2>1 DEF ValueSound
  <2>2. CASE s = slot /\ rpc[r] = "take"
    <3>1. remaining[s] = 0 /\ \A q \in readers'[s] : rpc'[q] # "take"
      BY <1>0, <1>2, <2>0, <2>2 DEF ValueSound
    <3>2. ~init'[s]
      BY <1>5, <2>2
    <3> QED
      BY <3>1, <3>2
  <2>3. CASE s = slot /\ rpc[r] = "clone"
    <3>1. init'[s] <=> init[s]
      BY <1>5, <2>3
    <3>2. (\E q \in readers'[s] : rpc'[q] = "take") <=> \E q \in readers[s] : rpc[q] = "take"
      BY <1>4, <2>0, <2>3
    <3>3. /\ remaining[s] # 0 => init[s] /\ bits[s] = sequence[s] - 1 /\ \A q \in readers[s] : rpc[q] = "clone"
          /\ remaining[s] = 0 => (init[s] <=> \E q \in readers[s] : rpc[q] = "take")
          /\ \A q, x \in readers[s] : rpc[q] = "take" /\ rpc[x] = "take" => q = x
      BY <1>0 DEF ValueSound
    <3> QED
      BY <2>0, <3>1, <3>2, <3>3
  <2> QED
    BY <1>1, <2>1, <2>2, <2>3
<1>9. LockSound'
  <2>1. ASSUME NEW q \in RxHandle, Reading(q)' PROVE pos[q] > 0 /\ q \in readers'[SlotOf(pos[q] - 1)]
    <3>1. q # r /\ Reading(q)
      BY <1>4, <2>1 DEF Reading
    <3>2. pos[q] > 0 /\ q \in readers[SlotOf(pos[q] - 1)] /\ pos[q] \in Nat
      BY <1>0, <3>1 DEF LockSound, BroadcastTypeOK
    <3>3. SlotOf(pos[q] - 1) \in Slot
      BY <3>2, SlotFacts
    <3> QED
      BY <1>4, <3>1, <3>2, <3>3
  <2>2. ASSUME NEW s \in Slot, NEW q \in readers'[s]
        PROVE  q \in readers[s] /\ q \in RxHandle /\ Reading(q)'
    <3>1. q \in readers[s] /\ q \in RxHandle /\ q # r
      BY <1>2, <1>3, <1>4
    <3> QED
      BY <1>0, <1>4, <3>1 DEF LockSound, Reading
  <2> QED
    BY <1>0, <1>1, <2>1, <2>2 DEF LockSound
<1>10. Covered'
  <2>1. Counted' = Counted
    BY <1>1, <1>4 DEF Counted
  <2>2. (rxCount = Cardinality(Counted))'
    BY <1>0, <1>1, <2>1 DEF Covered
  <2>3. tail' \in Nat /\ tail <= tail' /\ \A n \in Nat : n <= tail => Behind(n)' \subseteq Behind(n)
    BY <1>0, <1>1, <1>4 DEF Behind, Live, BroadcastTypeOK
  <2> QED
    BY <1>0, <1>1, <2>2, <2>3, CoveredKeeps
<1>11. /\ Len(got[r]) \in Nat /\ Len(got'[r]) = Len(got[r]) + 1
       /\ \A i \in 1..Len(got[r]) : got'[r][i] = got[r][i] /\ got[r][i] \in Nat /\ got[r][i] < pos[r] - 1
       /\ got'[r][Len(got[r]) + 1] = pos[r] - 1
  <2>1. got[r] \in Seq(Nat)
    BY <1>0 DEF BroadcastTypeOK
  <2>2. \A i \in 1..Len(got[r]) : got[r][i] < pos[r] - 1
    BY <1>0, <1>1 DEF PosSound, Reading
  <2>3. \A i \in 1..Len(got[r]) : got[r][i] \in Nat
    BY <2>1
  <2> QED
    BY <1>2, <1>4, <2>1, <2>2, <2>3
<1>12. \A i \in 1..Len(got'[r]) : i \in 1..Len(got[r]) \/ i = Len(got[r]) + 1
  BY <1>11
<1>13. PosSound'
  <2>1. \A i \in 1..Len(got'[r]) : got'[r][i] < pos[r]
    BY <1>2, <1>11, <1>12, SMTT(20)
  <2> QED
    BY <1>0, <1>1, <1>4, <2>1 DEF PosSound, Reading
<1>14. InOrder'
  <2>1. pos[r] = from[r] + Len(got[r]) + missed[r] + 1
    BY <1>0, <1>1 DEF InOrder, Live
  <2>2. from[r] \in Nat /\ missed[r] \in Nat
    BY <1>0 DEF BroadcastTypeOK
  <2>3. /\ pos[r] = from[r] + Len(got'[r]) + missed[r] + 0
        /\ pos[r] - 1 >= from[r]
    BY <1>11, <2>1, <2>2
  <2>4. \A i \in 1..Len(got'[r]) : got'[r][i] >= from[r]
    BY <1>0, <1>11, <1>12, <2>3 DEF InOrder
  <2>5. ASSUME NEW i \in 1..Len(got'[r]), NEW j \in 1..Len(got'[r]), i < j PROVE got'[r][i] < got'[r][j]
    <3>1. i \in 1..Len(got[r])
      BY <1>11, <2>5
    <3>2. CASE j \in 1..Len(got[r])
      BY <1>0, <1>11, <2>5, <3>1, <3>2 DEF InOrder
    <3>3. CASE j = Len(got[r]) + 1
      BY <1>11, <3>1, <3>3
    <3> QED
      BY <1>12, <3>2, <3>3
  <2> QED
    BY <1>0, <1>1, <1>4, <2>3, <2>4, <2>5 DEF InOrder, Live
<1>15. WaitSound' /\ MessageWakes'
  BY <1>0, <1>1, <1>4 DEF WaitSound, MessageWakes, Asleep, Waits, Waking, Closing
<1> QED
  BY <1>6, <1>7, <1>8, <1>9, <1>10, <1>13, <1>14, <1>15 DEF BroadcastInv

\* drop_all, with the last handle: nobody reads, and what was owed is dropped.
LEMMA DropAllInv ==
  ASSUME BroadcastInv, DropAll
  PROVE  BroadcastInv'
<1>0. /\ BroadcastTypeOK /\ SequenceSound /\ ValueSound /\ LockSound /\ Covered /\ PosSound /\ InOrder
      /\ WaitSound /\ MessageWakes
  BY DEF BroadcastInv
<1>1. /\ \A s \in TxHandle : spc[s] \in {"none", "gone"}
      /\ \A r \in RxHandle : rpc[r] \in {"none", "gone"}
      /\ remaining' = [s \in Slot |-> 0]
      /\ init' = [s \in Slot |-> init[s] /\ remaining[s] = 0]
      /\ UNCHANGED <<tail, rxCount, rxClosed, enlisted, rxEmpty, rxLock,
                     sequence, bits, readers, spc, index, receivers,
                     rpc, pos, got, missed, from>>
  BY DEF DropAll, chan, waiters, svars, rvars
<1>2. \A s \in Slot : readers[s] = {}
  BY <1>0, <1>1 DEF LockSound, Reading, BroadcastTypeOK
<1>3. \A s \in Slot : remaining'[s] = 0 /\ ~init'[s]
  BY <1>0, <1>1, <1>2 DEF ValueSound, BroadcastTypeOK
<1>4. BroadcastTypeOK'
  <2>1. init' \in [Slot -> BOOLEAN] /\ remaining' \in [Slot -> Nat]
    BY <1>1
  <2> QED
    BY <1>0, <1>1, <2>1 DEF BroadcastTypeOK
<1>5. SequenceSound'
  BY <1>0, <1>1, <1>3 DEF SequenceSound
<1>6. ValueSound'
  BY <1>1, <1>2, <1>3 DEF ValueSound
<1>7. LockSound'
  BY <1>0, <1>1 DEF LockSound, Reading
<1>8. Covered'
  <2>1. (\A n : Behind(n)' = {}) /\ Counted' = Counted
    BY <1>1 DEF Behind, Live, Counted
  <2>2. ASSUME NEW s \in Slot PROVE (Cardinality(Behind(sequence[s])) <= remaining[s])'
    <3>1. Behind(sequence[s])' = {}
      BY <1>1 DEF Behind, Live
    <3>2. Cardinality({}) = 0
      BY FS_EmptySet
    <3> QED
      BY <1>3, <3>1, <3>2
  <2>3. (rxCount = Cardinality(Counted))'
    BY <1>0, <1>1, <2>1 DEF Covered
  <2> QED
    BY <1>1, <2>2, <2>3 DEF Covered
<1>9. PosSound' /\ InOrder'
  BY <1>0, <1>1 DEF PosSound, InOrder, Reading, Live
<1>10. WaitSound' /\ MessageWakes'
  BY <1>0, <1>1 DEF WaitSound, MessageWakes, Asleep, Waits, Waking, Closing
<1> QED
  BY <1>4, <1>5, <1>6, <1>7, <1>8, <1>9, <1>10 DEF BroadcastInv

-----------------------------------------------------------------------------
(* The channel *)

\* A new channel: no message, one sender and one receiver.
LEMMA BroadcastInitInv == BroadcastInit => BroadcastInv
<1> SUFFICES ASSUME BroadcastInit PROVE BroadcastInv
  OBVIOUS
<1>1. BroadcastTypeOK
  <2>1. init \in [Slot -> BOOLEAN]
    BY DEF BroadcastInit
  <2>2. /\ spc \in [TxHandle -> {"none", "idle"}] /\ rpc \in [RxHandle -> {"none", "idle"}]
        /\ got \in [RxHandle -> Seq(Nat)] /\ sequence \in [Slot -> Nat]
    BY SlotFacts DEF BroadcastInit
  <2> QED
    BY <2>1, <2>2 DEF BroadcastInit, BroadcastTypeOK
<1>2. SequenceSound /\ ValueSound /\ LockSound
  BY DEF BroadcastInit, SequenceSound, ValueSound, LockSound, Reading
<1>3. Covered
  <2>1. PICK r \in RxHandle : rpc = [x \in RxHandle |-> IF x = r THEN "idle" ELSE "none"]
    BY DEF BroadcastInit
  <2>2. Counted = {r}
    BY <2>1 DEF Counted
  <2>3. Cardinality(Counted) = 1
    BY <2>2, FS_Singleton
  <2> QED
    BY <2>3 DEF BroadcastInit, Covered, Written
<1>4. PosSound /\ InOrder
  BY SizeAssumption DEF BroadcastInit, PosSound, InOrder, Reading, Live
<1>5. WaitSound /\ MessageWakes
  BY DEF BroadcastInit, WaitSound, MessageWakes, Asleep, Waits
<1> QED
  BY <1>1, <1>2, <1>3, <1>4, <1>5 DEF BroadcastInv

\* Every step keeps the invariant.
LEMMA BroadcastNextInv == BroadcastInv /\ [BroadcastNext]_bcvars => BroadcastInv'
<1> SUFFICES ASSUME BroadcastInv, [BroadcastNext]_bcvars PROVE BroadcastInv'
  OBVIOUS
<1>1. ASSUME NEW s \in TxHandle,
             \/ CloneSender(s) \/ DropTx(s)
             \/ Claim(s) \/ Count(s) \/ Publish(s) \/ WakeLoad(s) \/ WakeAllRx(s)
      PROVE  BroadcastInv'
  BY <1>1, SenderCountInv, ClaimInv, CountInv, PublishInv, WakeLoadInv, WakeAllRxInv
<1>2. ASSUME NEW r \in RxHandle,
             \/ NewCounted(r) \/ NewAtTail(r) \/ Synchronize(r) \/ DropRx(r)
             \/ TryReceive(r) \/ Value(r) \/ Lagged(r)
             \/ Empty(r) \/ EmptyNew(r) \/ Check(r) \/ Interrupt(r)
      PROVE  BroadcastInv'
  BY <1>2, NewCountedInv, NewAtTailInv, SkipsInv, DropRxInv, TryMissInv, TryHitInv, ValueInv, WaitInv
<1>3. CASE DropAll
  BY <1>3, DropAllInv
<1>4. CASE UNCHANGED bcvars
  <2>1. UNCHANGED <<tail, rxCount, rxClosed, enlisted, rxEmpty, rxLock,
                    sequence, remaining, bits, init, readers, spc, index,
                    receivers, rpc, pos, got, missed, from>>
    BY <1>4 DEF bcvars, chan, waiters, slots, svars, rvars
  <2>2. BroadcastTypeOK' /\ SequenceSound' /\ ValueSound' /\ LockSound' /\ PosSound' /\ InOrder'
    BY <2>1 DEF BroadcastInv, BroadcastTypeOK, SequenceSound, ValueSound, LockSound, PosSound, InOrder,
                Reading, Live
  <2>4. WaitSound' /\ MessageWakes'
    BY <2>1 DEF BroadcastInv, WaitSound, MessageWakes, Asleep, Waits, Waking, Closing
  <2>3. Covered'
    BY <2>1 DEF BroadcastInv, Covered, Counted, Behind, Live, Written
  <2> QED
    BY <2>2, <2>3, <2>4 DEF BroadcastInv
<1> QED
  BY <1>1, <1>2, <1>3, <1>4 DEF BroadcastNext

\* The invariant says what a receiver is given is there and owed to it.
LEMMA BroadcastInvExact == BroadcastInv => MessagesExact
<1> SUFFICES ASSUME BroadcastInv PROVE MessagesExact
  OBVIOUS
<1>1. ASSUME NEW s \in Slot
      PROVE  /\ Written(s) => Cardinality({r \in RxHandle : Live(r) /\ pos[r] < sequence[s]}) <= remaining[s]
             /\ readers[s] = {} => (init[s] <=> remaining[s] # 0)
             /\ \A r \in readers[s] : rpc[r] = "take" => init[s]
  BY DEF BroadcastInv, Covered, Behind, ValueSound
<1> QED
  BY <1>1 DEF BroadcastInv, MessagesExact, ReadersCovered

\* Broadcast channel, for any number of handles and slots: `remaining` covers
\* every receiver that can still come to a slot, a value is there exactly while
\* it is owed, and each receiver gets the messages in order, at most once, with
\* Lagged reporting exactly the ones it did not get.
THEOREM BroadcastExact == BroadcastSpec => []MessagesExact
<1>1. BroadcastSpec => []BroadcastInv
  BY BroadcastInitInv, BroadcastNextInv, PTL DEF BroadcastSpec
<1> QED
  BY <1>1, BroadcastInvExact, PTL

\* The invariant says who still wakes whom.
LEMMA BroadcastInvOwed == BroadcastInv => SleeperOwed
<1> SUFFICES ASSUME BroadcastInv PROVE SleeperOwed
  OBVIOUS
<1>1. CloseWakes
  BY DEF BroadcastInv, WaitSound, CloseWakes, Waits, Asleep
<1> QED
  BY <1>1 DEF BroadcastInv, SleeperOwed

\* recv and wait, for any number of handles and slots, with the hint read
\* without the lock: a receiver asleep on a message that is published is on the
\* list of a sender about to wake it, and once the last sender has left and
\* closed, at most one receiver (the one whose wait the close overlapped) is
\* asleep.
THEOREM BroadcastWakes == BroadcastSpec => []SleeperOwed
<1>1. BroadcastSpec => []BroadcastInv
  BY BroadcastInitInv, BroadcastNextInv, PTL DEF BroadcastSpec
<1> QED
  BY <1>1, BroadcastInvOwed, PTL

-----------------------------------------------------------------------------
(* LinkedList: the pointers are the lists *)

ListTypeOK ==
    /\ prev \in [Base -> Base \cup {Nil}]
    /\ next \in [Base -> Base \cup {Nil}]
    /\ items \in [List -> Seq(Node)]

\* The pointers of the nodes of l and of its base, one by one.
Spells(l) ==
    /\ next[l] = IF items[l] = <<>> THEN l ELSE items[l][1]
    /\ prev[l] = IF items[l] = <<>> THEN l ELSE items[l][Len(items[l])]
    /\ \A i \in 1..Len(items[l]) :
         /\ next[items[l][i]] = IF i = Len(items[l]) THEN l ELSE items[l][i + 1]
         /\ prev[items[l][i]] = IF i = 1 THEN l ELSE items[l][i - 1]

PinnedFirst == \A l \in List : ~Pinned(l) => items[l] = <<>>

Apart ==
    \A l, m \in List : \A i \in 1..Len(items[l]), j \in 1..Len(items[m]) :
        items[l][i] = items[m][j] => l = m /\ i = j

Found == \A x \in Node : Linked(x) => \E l \in List : \E i \in 1..Len(items[l]) : items[l][i] = x

ListInv ==
    /\ ListTypeOK /\ PinnedFirst /\ Apart /\ Found
    /\ \A l \in List : Pinned(l) => Spells(l)

\* A ring of pointers, as Represents walks it, is what Spells says of its nodes.
LEMMA RingSpells ==
  ASSUME ListTypeOK, NEW l \in List, Spells(l), NEW i \in 0..Len(items[l])
  PROVE  next[Ring(l)[i]] = Ring(l)[i + 1] /\ prev[Ring(l)[i + 1]] = Ring(l)[i]
<1>0. items[l] \in Seq(Node) /\ Len(items[l]) \in Nat /\ i \in Nat
  BY DEF ListTypeOK
<1>1. \A k \in 0..(Len(items[l]) + 1) :
        Ring(l)[k] = IF k \in 1..Len(items[l]) THEN items[l][k] ELSE l
  BY DEF Ring
<1>2. i \in 0..(Len(items[l]) + 1) /\ i + 1 \in 0..(Len(items[l]) + 1)
  BY <1>0
<1>3. CASE items[l] = <<>>
  <2>1. i = 0 /\ Len(items[l]) = 0
    BY <1>0, <1>3
  <2>2. Ring(l)[i] = l /\ Ring(l)[i + 1] = l
    BY <1>1, <1>2, <2>1
  <2> QED
    BY <1>3, <2>2 DEF Spells
<1>4. CASE items[l] # <<>>
  <2>0. Len(items[l]) > 0
    BY <1>0, <1>4
  <2>1. CASE i = 0
    <3>1. Ring(l)[i] = l /\ Ring(l)[i + 1] = items[l][1] /\ 1 \in 1..Len(items[l])
      BY <1>0, <1>1, <1>2, <2>0, <2>1
    <3> QED
      BY <1>4, <3>1 DEF Spells
  <2>2. CASE i # 0 /\ i # Len(items[l])
    <3>1. i \in 1..Len(items[l]) /\ i + 1 \in 1..Len(items[l]) /\ i + 1 # 1 /\ (i + 1) - 1 = i
      BY <1>0, <2>2
    <3>2. Ring(l)[i] = items[l][i] /\ Ring(l)[i + 1] = items[l][i + 1]
      BY <1>1, <1>2, <3>1
    <3>3. next[items[l][i]] = items[l][i + 1]
      BY <2>2, <3>1 DEF Spells
    <3>4. prev[items[l][i + 1]] = items[l][i]
      BY <3>1 DEF Spells
    <3> QED
      BY <3>2, <3>3, <3>4
  <2>3. CASE i # 0 /\ i = Len(items[l])
    <3>1. i \in 1..Len(items[l]) /\ i + 1 \notin 1..Len(items[l])
      BY <1>0, <2>3
    <3>2. Ring(l)[i] = items[l][i] /\ Ring(l)[i + 1] = l
      BY <1>1, <1>2, <3>1
    <3> QED
      BY <1>4, <2>3, <3>1, <3>2 DEF Spells
  <2> QED
    BY <2>1, <2>2, <2>3
<1> QED
  BY <1>3, <1>4

\* A node in a list is linked, so one that is not linked is in no list.
LEMMA ListedLinked ==
  ASSUME ListInv, NEW l \in List, NEW i \in 1..Len(items[l])
  PROVE  /\ items[l][i] \in Node /\ items[l] \in Seq(Node) /\ items[l] # <<>>
         /\ Pinned(l) /\ Spells(l) /\ Linked(items[l][i])
<1>1. items[l] \in Seq(Node) /\ items[l] # <<>> /\ items[l][i] \in Node
  BY DEF ListInv, ListTypeOK
<1>2. Pinned(l) /\ Spells(l)
  BY <1>1 DEF ListInv, PinnedFirst
<1>3. prev[items[l][i]] \in Base
  <2>1. i # 1 => i - 1 \in 1..Len(items[l])
    BY <1>1
  <2>2. i # 1 => items[l][i - 1] \in Node
    BY <1>1, <2>1
  <2> QED
    BY <1>2, <2>2 DEF Spells, Base
<1> QED
  BY <1>1, <1>2, <1>3, PointersAssumption DEF Linked, Base

\* The invariant says what the runs check.
LEMMA ListInvSound == ListInv => ListSound
<1>1. ASSUME ListInv PROVE Represents
  BY <1>1, RingSpells DEF ListInv, Represents
<1>2. ASSUME ListInv PROVE InOneList
  BY <1>2, ListedLinked DEF ListInv, Found, Apart, InOneList
<1> QED
  BY <1>1, <1>2 DEF ListSound

\* LinkedList::new: nothing is linked.
LEMMA ListInitInv == ListInit => ListInv
<1>1. ASSUME ListInit PROVE ListInv
  <2>1. \A l \in List : items[l] = <<>> /\ prev[l] = Nil
    BY <1>1 DEF ListInit, Base
  <2>2. \A x \in Node : prev[x] = Nil
    BY <1>1 DEF ListInit, Base
  <2>3. ListTypeOK
    BY <1>1 DEF ListInit, ListTypeOK
  <2> QED
    BY <2>1, <2>2, <2>3 DEF ListInv, PinnedFirst, Apart, Found, Linked, Pinned
<1> QED
  BY <1>1

\* A list whose nodes' and base's pointers are left alone is as it was.
LEMMA SpellsKeeps ==
  ASSUME NEW m \in List, Spells(m), items'[m] = items[m],
         prev'[m] = prev[m], next'[m] = next[m],
         \A i \in 1..Len(items[m]) : LET y == items[m][i] IN prev'[y] = prev[y] /\ next'[y] = next[y]
  PROVE  Spells(m)'
  BY DEF Spells

\* pin: the list is empty.
LEMMA PinInv ==
  ASSUME ListInv, NEW l \in List, Pin(l)
  PROVE  ListInv'
<1>0. ListTypeOK /\ PinnedFirst /\ Apart /\ Found /\ l \in Base /\ l \notin Node /\ Nil \notin Base
  BY PointersAssumption DEF ListInv, Base
<1>1. /\ items' = items /\ prev' = [prev EXCEPT ![l] = l] /\ next' = [next EXCEPT ![l] = l]
      /\ ~Pinned(l) /\ items[l] = <<>>
  BY <1>0 DEF Pin, PinnedFirst
<1>2. /\ prev'[l] = l /\ next'[l] = l
      /\ \A y \in Base : y # l => prev'[y] = prev[y] /\ next'[y] = next[y]
  BY <1>0, <1>1 DEF ListTypeOK
<1>3. ListTypeOK'
  BY <1>0, <1>1 DEF ListTypeOK
<1>4. PinnedFirst' /\ Apart' /\ Found'
  BY <1>0, <1>1, <1>2 DEF PinnedFirst, Apart, Found, Pinned, Linked, Base
<1>5. ASSUME NEW m \in List, Pinned(m)' PROVE Spells(m)'
  <2>1. CASE m = l
    BY <1>1, <1>2, <2>1 DEF Spells
  <2>2. CASE m # l
    <3>1. Pinned(m)
      BY <1>2, <1>5, <2>2 DEF Pinned, Linked, Base
    <3>2. Spells(m)
      BY <3>1 DEF ListInv
    <3>3. \A i \in 1..Len(items[m]) : items[m][i] \in Base /\ items[m][i] # l
      BY <1>0, ListedLinked DEF Base
    <3> QED
      BY <1>1, <1>2, <2>2, <3>2, <3>3, SpellsKeeps DEF Base
  <2> QED
    BY <2>1, <2>2
<1> QED
  BY <1>3, <1>4, <1>5 DEF ListInv

\* What append and unlink need to know of a list: where its base points.
LEMMA Ends ==
  ASSUME ListInv, NEW l \in List, Pinned(l)
  PROVE  /\ items[l] \in Seq(Node) /\ Spells(l)
         /\ prev[l] = IF items[l] = <<>> THEN l ELSE items[l][Len(items[l])]
         /\ next[l] = IF items[l] = <<>> THEN l ELSE items[l][1]
         /\ prev[l] \in Base /\ next[l] \in Base
         /\ IsEmpty(l) <=> items[l] = <<>>
<1>1. items[l] \in Seq(Node) /\ Spells(l) /\ l \notin Node
  BY PointersAssumption DEF ListInv, ListTypeOK
<1>2. ASSUME items[l] # <<>> PROVE items[l][1] \in Node /\ items[l][Len(items[l])] \in Node
  <2>1. 1 \in 1..Len(items[l]) /\ Len(items[l]) \in 1..Len(items[l])
    BY <1>1, <1>2
  <2> QED
    BY <1>1, <2>1
<1> QED
  BY <1>1, <1>2 DEF Spells, Base, IsEmpty, Head_

\* append: the node is the last of the list and of no other.
LEMMA AppendInv ==
  ASSUME ListInv, NEW l \in List, NEW x \in Node, AppendNode(l, x)
  PROVE  ListInv'
<1> DEFINE p == prev[l]
           s == items[l]
<1>0. /\ ListTypeOK /\ PinnedFirst /\ Apart /\ Found /\ l \in Base /\ x \in Base /\ l \notin Node
      /\ Nil \notin Base /\ x # l
  BY PointersAssumption DEF ListInv, Base
<1>1. /\ Pinned(l) /\ ~Linked(x)
      /\ prev' = [prev EXCEPT ![x] = p, ![l] = x]
      /\ next' = [next EXCEPT ![p] = x, ![x] = l]
      /\ items' = [items EXCEPT ![l] = Append(s, x)]
  BY DEF AppendNode, SetPtrs
<1>2. /\ s \in Seq(Node) /\ Len(s) \in Nat /\ Spells(l) /\ p \in Base
      /\ p = IF s = <<>> THEN l ELSE s[Len(s)]
  BY <1>1, Ends
<1>3. \A m \in List : \A i \in 1..Len(items[m]) : items[m][i] # x /\ items[m][i] \in Node
  BY <1>1, ListedLinked
<1>4. p # x
  <2>1. s # <<>> => Len(s) \in 1..Len(s)
    BY <1>2
  <2> QED
    BY <1>0, <1>2, <1>3, <2>1
<1>5. /\ prev'[x] = p /\ prev'[l] = x /\ next'[p] = x /\ next'[x] = l
      /\ \A y \in Base : y # x /\ y # l => prev'[y] = prev[y]
      /\ \A y \in Base : y # x /\ y # p => next'[y] = next[y]
  BY <1>0, <1>1, <1>2, <1>4 DEF ListTypeOK
<1>6. /\ items'[l] \in Seq(Node) /\ Len(items'[l]) = Len(s) + 1 /\ items'[l][Len(s) + 1] = x
      /\ \A i \in 1..Len(s) : items'[l][i] = s[i]
      /\ \A m \in List : m # l => items'[m] = items[m]
  BY <1>0, <1>1, <1>2 DEF ListTypeOK
<1>7. ListTypeOK'
  <2>1. prev' \in [Base -> Base \cup {Nil}] /\ next' \in [Base -> Base \cup {Nil}]
    BY <1>0, <1>1, <1>2 DEF ListTypeOK
  <2>2. Append(s, x) \in Seq(Node)
    BY <1>2
  <2>3. items' \in [List -> Seq(Node)]
    BY <1>0, <1>1, <2>2 DEF ListTypeOK
  <2> QED
    BY <2>1, <2>3 DEF ListTypeOK
<1> HIDE DEF p, s
<1>8. PinnedFirst'
  <2>1. \A m \in List : m # l => m \in Base /\ m # x
    BY PointersAssumption DEF Base
  <2>2. \A m \in List : m # l => prev'[m] = prev[m] /\ items'[m] = items[m]
    BY <1>5, <1>6, <2>1
  <2>3. prev'[l] # Nil
    BY <1>0, <1>5
  <2> QED
    BY <1>0, <2>2, <2>3 DEF PinnedFirst, Pinned, Linked
<1>9. Found'
  <2>1. SUFFICES ASSUME NEW y \in Node, Linked(y)'
                 PROVE  \E m \in List : \E i \in 1..Len(items'[m]) : items'[m][i] = y
    BY DEF Found
  <2>2. CASE y = x
    BY <1>2, <1>6, <2>2
  <2>3. CASE y # x
    <3>1. Linked(y)
      BY <1>0, <1>5, <2>1, <2>3 DEF Linked, Base
    <3>2. PICK m \in List : \E i \in 1..Len(items[m]) : items[m][i] = y
      BY <1>0, <3>1 DEF Found
    <3>4. PICK i \in 1..Len(items[m]) : items[m][i] = y
      BY <3>2
    <3>3. i \in 1..Len(items'[m]) /\ items'[m][i] = y
      BY <1>2, <1>6, <3>4 DEF s
    <3> QED
      BY <3>3
  <2> QED
    BY <2>2, <2>3
<1>10. Apart'
  <2>1. SUFFICES ASSUME NEW m \in List, NEW n \in List, NEW i \in 1..Len(items'[m]),
                        NEW j \in 1..Len(items'[n]), items'[m][i] = items'[n][j]
                 PROVE  m = n /\ i = j
    BY DEF Apart
  <2>2. \A k \in List : \A h \in 1..Len(items'[k]) :
           \/ k = l /\ h = Len(s) + 1 /\ items'[k][h] = x
           \/ h \in 1..Len(items[k]) /\ items'[k][h] = items[k][h] /\ items[k][h] # x
    BY <1>2, <1>3, <1>6 DEF s
  <2> QED
    BY <1>0, <2>1, <2>2 DEF Apart
<1>11. ASSUME NEW m \in List, Pinned(m)' PROVE Spells(m)'
  <2>1. CASE m = l
    <3>1. items'[l] # <<>> /\ Len(s) + 1 # 0
      BY <1>2, <1>6
    <3>2. (next[l] = IF items[l] = <<>> THEN l ELSE items[l][1])'
      <4>1. CASE s = <<>>
        BY <1>2, <1>5, <1>6, <3>1, <4>1
      <4>2. CASE s # <<>>
        <5>1. p # l /\ next'[l] = next[l] /\ next[l] = s[1] /\ 1 \in 1..Len(s)
          <6>1. Len(s) \in 1..Len(s) /\ 1 \in 1..Len(s)
            BY <1>2, <4>2
          <6>2. p # l
            BY <1>0, <1>2, <4>2, <6>1
          <6> QED
            BY <1>0, <1>2, <1>5, <4>2, <6>1, <6>2 DEF Spells, s
        <5> QED
          BY <1>6, <3>1, <5>1
      <4> QED
        BY <4>1, <4>2
    <3>3. (prev[l] = IF items[l] = <<>> THEN l ELSE items[l][Len(items[l])])'
      BY <1>5, <1>6, <3>1
    <3>4. ASSUME NEW i \in 1..Len(items'[l])
          PROVE  /\ next'[items'[l][i]] = IF i = Len(items'[l]) THEN l ELSE items'[l][i + 1]
                 /\ prev'[items'[l][i]] = IF i = 1 THEN l ELSE items'[l][i - 1]
      <4>1. CASE i = Len(s) + 1
        <5>1. next'[x] = l /\ prev'[x] = p
          BY <1>5
        <5>2. s # <<>> => i - 1 \in 1..Len(s) /\ i - 1 = Len(s) /\ i # 1
          BY <1>2, <4>1
        <5>3. s = <<>> => i = 1
          BY <4>1
        <5> QED
          BY <1>2, <1>6, <4>1, <5>1, <5>2, <5>3
      <4>2. CASE i # Len(s) + 1
        <5>1. i \in 1..Len(s) /\ s[i] \in Node /\ s[i] # x /\ s[i] # l /\ s # <<>> /\ s[i] \in Base
          BY <1>0, <1>2, <1>3, <1>6, <4>2 DEF s, Base
        <5>2. prev'[s[i]] = prev[s[i]] /\ prev[s[i]] = IF i = 1 THEN l ELSE s[i - 1]
          BY <1>2, <1>5, <5>1 DEF Spells, s
        <5>3. i # 1 => i - 1 \in 1..Len(s)
          BY <1>2, <5>1
        <5>4. CASE i = Len(s)
          <6>1. next'[s[i]] = x
            BY <1>2, <1>5, <5>1, <5>4
          <6> QED
            BY <1>2, <1>6, <4>2, <5>1, <5>2, <5>3, <5>4, <6>1
        <5>5. CASE i # Len(s)
          <6>1. i + 1 \in 1..Len(s) /\ Len(s) \in 1..Len(s)
            BY <1>2, <5>1, <5>5
          <6>2. s[i] # p
            BY <1>0, <1>2, <5>1, <5>5, <6>1 DEF Apart, s
          <6>3. next'[s[i]] = s[i + 1]
            BY <1>2, <1>5, <5>1, <5>5, <6>2 DEF Spells, s
          <6> QED
            BY <1>2, <1>6, <4>2, <5>1, <5>2, <5>3, <6>1, <6>3
        <5> QED
          BY <5>4, <5>5
      <4> QED
        BY <4>1, <4>2
    <3> QED
      BY <2>1, <3>2, <3>3, <3>4 DEF Spells
  <2>2. CASE m # l
    <3>1. m # x /\ m \in Base /\ m \notin Node
      BY PointersAssumption DEF Base
    <3>2. m # p
      <4>1. s # <<>> => Len(s) \in 1..Len(s)
        BY <1>2
      <4> QED
        BY <1>2, <2>2, <3>1, <4>1
    <3>3. Pinned(m) /\ Spells(m)
      BY <1>5, <1>11, <2>2, <3>1 DEF ListInv, Pinned, Linked
    <3>4. ASSUME NEW i \in 1..Len(items[m]) PROVE items[m][i] # p /\ items[m][i] # x /\ items[m][i] # l
      <4>1. s # <<>> => Len(s) \in 1..Len(s)
        BY <1>2
      <4> QED
        BY <1>0, <1>2, <1>3, <2>2, <4>1 DEF Apart, s
    <3>5. \A i \in 1..Len(items[m]) :
            LET y == items[m][i] IN prev'[y] = prev[y] /\ next'[y] = next[y]
      BY <1>3, <1>5, <3>4 DEF Base
    <3> QED
      BY <1>5, <1>6, <2>2, <3>1, <3>2, <3>3, <3>5, SpellsKeeps
  <2> QED
    BY <2>1, <2>2
<1> QED
  BY <1>7, <1>8, <1>9, <1>10, <1>11 DEF ListInv

\* t is s less its k-th place.
Removed(t, s, k) ==
    /\ t \in Seq(Node) /\ Len(t) = Len(s) - 1
    /\ \A i \in 1..(Len(s) - 1) : t[i] = IF i < k THEN s[i] ELSE s[i + 1]

\* What Without and Tail leave of a list in which x is once, at k.
LEMMA WithoutIs ==
  ASSUME NEW s \in Seq(Node), NEW k \in 1..Len(s),
         \A i \in 1..Len(s) : s[i] = s[k] => i = k
  PROVE  Removed(Without(s, s[k]), s, k)
<1>0. Len(s) \in Nat /\ \A i \in 1..Len(s) : s[i] \in Node
  OBVIOUS
<1>1. (CHOOSE i \in 1..Len(s) : s[i] = s[k]) = k
  OBVIOUS
<1>2. Without(s, s[k]) = [i \in 1..(Len(s) - 1) |-> s[IF i < k THEN i ELSE i + 1]]
  BY <1>1 DEF Without
<1>3. \A i \in 1..(Len(s) - 1) : i \in 1..Len(s) /\ i + 1 \in 1..Len(s)
  BY <1>0
<1>4. PICK n \in Nat : n = Len(s) - 1
  BY <1>0
<1>5. \A i \in 1..n : s[IF i < k THEN i ELSE i + 1] \in Node
  BY <1>0, <1>3, <1>4
<1>6. [i \in 1..n |-> s[IF i < k THEN i ELSE i + 1]] \in Seq(Node)
  BY <1>5
<1> QED
  BY <1>0, <1>2, <1>4, <1>6 DEF Removed

\* A list without x is as it was.
LEMMA WithoutSame ==
  ASSUME NEW s, NEW x, \A i \in 1..Len(s) : s[i] # x
  PROVE  Without(s, x) = s
  BY DEF Without

\* The tail of a list is the list less its first place.
LEMMA TailIs ==
  ASSUME NEW s \in Seq(Node), s # <<>>
  PROVE  Removed(Tail(s), s, 1) /\ 1 \in 1..Len(s)
<1>1. Len(s) \in Nat /\ Len(s) > 0
  OBVIOUS
<1>2. Tail(s) \in Seq(Node) /\ Len(Tail(s)) = Len(s) - 1 /\ \A i \in 1..Len(Tail(s)) : Tail(s)[i] = s[i + 1]
  BY HeadTailProperties
<1> QED
  BY <1>1, <1>2 DEF Removed

\* unlink_unchecked of the node at k of l, wherever in the list that is: its
\* neighbours are joined, also when they are the base.
LEMMA UnlinkAtInv ==
  ASSUME ListInv, NEW l \in List, NEW k \in 1..Len(items[l]), UnlinkPtrs(items[l][k]),
         items' \in [List -> Seq(Node)], \A m \in List : m # l => items'[m] = items[m],
         Removed(items'[l], items[l], k)
  PROVE  /\ ListInv'
         /\ \A y \in Node : Linked(y)' <=> Linked(y) /\ y # items[l][k]
         /\ \A m \in List : Pinned(m)' <=> Pinned(m)
<1> DEFINE s == items[l]
           x == items[l][k]
           p == prev[x]
           n == next[x]
           t == items'[l]
<1>0. /\ ListTypeOK /\ PinnedFirst /\ Apart /\ Found /\ l \in Base /\ l \notin Node /\ Nil \notin Base
      /\ x \in Node /\ x \in Base /\ x # l
      /\ s \in Seq(Node) /\ s # <<>> /\ Len(s) \in Nat /\ k \in 1..Len(s) /\ Pinned(l) /\ Spells(l) /\ Linked(x)
  BY PointersAssumption, ListedLinked DEF ListInv, Base
<1>1. prev' = [prev EXCEPT ![x] = Nil, ![n] = p] /\ next' = [next EXCEPT ![x] = Nil, ![p] = n]
  BY DEF UnlinkPtrs
<1>2. \A i \in 1..Len(s) : /\ s[i] \in Node /\ s[i] \in Base /\ s[i] # l
                           /\ i # k => s[i] # x
  BY <1>0 DEF Apart, Base
<1>3. /\ k = 1 => p = l
      /\ k # 1 => k - 1 \in 1..Len(s) /\ p = s[k - 1]
      /\ k = Len(s) => n = l
      /\ k # Len(s) => k + 1 \in 1..Len(s) /\ n = s[k + 1]
  BY <1>0 DEF Spells
<1>4. /\ p \in Base /\ p # x /\ n \in Base /\ n # x
      /\ \A i \in 1..Len(s) : (i # k - 1 => s[i] # p) /\ (i # k + 1 => s[i] # n)
  <2>1. k - 1 # k /\ k + 1 # k
    BY <1>0
  <2>2. p \in Base /\ p # x /\ n \in Base /\ n # x
    BY <1>0, <1>2, <1>3, <2>1
  <2>3. \A i \in 1..Len(s) : i # k - 1 => s[i] # p
    BY <1>0, <1>2, <1>3 DEF Apart
  <2>4. \A i \in 1..Len(s) : i # k + 1 => s[i] # n
    BY <1>0, <1>2, <1>3 DEF Apart
  <2> QED
    BY <2>2, <2>3, <2>4
<1>5. /\ prev'[x] = Nil /\ prev'[n] = p /\ next'[x] = Nil /\ next'[p] = n
      /\ \A y \in Base : y # x /\ y # n => prev'[y] = prev[y]
      /\ \A y \in Base : y # x /\ y # p => next'[y] = next[y]
  BY <1>0, <1>1, <1>4 DEF ListTypeOK
<1>6. /\ t \in Seq(Node) /\ Len(t) = Len(s) - 1 /\ Len(t) \in Nat
      /\ \A i \in 1..Len(t) : i < k => t[i] = s[i]
      /\ \A i \in 1..Len(t) : ~(i < k) => t[i] = s[i + 1]
  BY <1>0 DEF Removed
<1>7. ListTypeOK'
  BY <1>0, <1>1, <1>4 DEF ListTypeOK
<1> HIDE DEF s, x, p, n, t
<1>8. \A y \in Base : Linked(y)' <=> Linked(y) /\ y # x
  <2>1. prev[n] # Nil
    <3>1. CASE k = Len(s)
      BY <1>0, <1>3, <3>1 DEF Pinned, Linked
    <3>2. CASE k # Len(s)
      BY <1>3, <3>2, ListedLinked DEF s, Linked
    <3> QED
      BY <3>1, <3>2
  <2>2. prev'[n] # Nil
    BY <1>0, <1>4, <1>5
  <2> QED
    BY <1>4, <1>5, <2>1, <2>2 DEF Linked
<1>9. \A m \in List : Pinned(m)' <=> Pinned(m)
  BY <1>0, <1>8, PointersAssumption DEF Pinned, Base
<1>10. PinnedFirst'
  BY <1>0, <1>9 DEF PinnedFirst
<1>11. \A m \in List : \A i \in 1..Len(items'[m]) :
          \E j \in 1..Len(items[m]) : items'[m][i] = items[m][j] /\ j = IF m = l /\ ~(i < k) THEN i + 1 ELSE i
  <2>1. SUFFICES ASSUME NEW m \in List, NEW i \in 1..Len(items'[m])
                 PROVE  \E j \in 1..Len(items[m]) :
                          items'[m][i] = items[m][j] /\ j = IF m = l /\ ~(i < k) THEN i + 1 ELSE i
    OBVIOUS
  <2>2. CASE m # l
    BY <2>2
  <2>3. CASE m = l /\ i < k
    <3>1. i \in 1..Len(s) /\ t[i] = s[i]
      BY <1>0, <1>6, <2>1, <2>3 DEF t
    <3> QED
      BY <2>3, <3>1 DEF s, t
  <2>4. CASE m = l /\ ~(i < k)
    <3>1. i + 1 \in 1..Len(s) /\ t[i] = s[i + 1]
      BY <1>0, <1>6, <2>1, <2>4 DEF t
    <3> QED
      BY <2>4, <3>1 DEF s, t
  <2> QED
    BY <2>2, <2>3, <2>4
<1>12. Apart'
  <2>1. SUFFICES ASSUME NEW m \in List, NEW q \in List, NEW i \in 1..Len(items'[m]),
                        NEW j \in 1..Len(items'[q]), items'[m][i] = items'[q][j]
                 PROVE  m = q /\ i = j
    BY DEF Apart
  <2>2. PICK a \in 1..Len(items[m]) :
          items'[m][i] = items[m][a] /\ a = IF m = l /\ ~(i < k) THEN i + 1 ELSE i
    BY <1>11
  <2>3. PICK b \in 1..Len(items[q]) :
          items'[q][j] = items[q][b] /\ b = IF q = l /\ ~(j < k) THEN j + 1 ELSE j
    BY <1>11
  <2>4. m = q /\ a = b
    <3>1. items[m][a] = items[q][b]
      BY <2>1, <2>2, <2>3
    <3> QED
      BY <1>0, <3>1 DEF Apart
  <2>5. i \in Int /\ j \in Int
    BY <1>6, <1>7 DEF ListTypeOK
  <2> QED
    BY <2>2, <2>3, <2>4, <2>5
<1>13. Found'
  <2>1. SUFFICES ASSUME NEW y \in Node, Linked(y)'
                 PROVE  \E m \in List : \E i \in 1..Len(items'[m]) : items'[m][i] = y
    BY DEF Found
  <2>2. Linked(y) /\ y # x
    BY <1>8, <2>1 DEF Base
  <2>3. PICK m \in List : \E i \in 1..Len(items[m]) : items[m][i] = y
    BY <1>0, <2>2 DEF Found
  <2>4. PICK i \in 1..Len(items[m]) : items[m][i] = y
    BY <2>3
  <2>5. CASE m # l
    BY <2>4, <2>5
  <2>6. CASE m = l
    <3>1. i \in 1..Len(s) /\ s[i] = y /\ i # k
      BY <2>2, <2>4, <2>6 DEF s, x
    <3>2. CASE i < k
      <4>1. i \in 1..Len(t) /\ t[i] = y
        BY <1>0, <1>6, <3>1, <3>2, SMTT(20)
      <4> QED
        BY <2>6, <4>1 DEF t
    <3>3. CASE ~(i < k)
      <4>1. i - 1 \in 1..Len(t) /\ ~(i - 1 < k) /\ (i - 1) + 1 = i
        BY <1>0, <1>6, <3>1, <3>3
      <4>2. t[i - 1] = y
        BY <1>6, <3>1, <4>1
      <4> QED
        BY <2>6, <4>1, <4>2 DEF t
    <3> QED
      BY <3>2, <3>3
  <2> QED
    BY <2>5, <2>6
<1>14. Spells(l)'
  <2>0. \A j \in 1..Len(s) : /\ next[s[j]] = IF j = Len(s) THEN l ELSE s[j + 1]
                            /\ prev[s[j]] = IF j = 1 THEN l ELSE s[j - 1]
    BY <1>0 DEF Spells, s
  <2>1. (next[l] = IF items[l] = <<>> THEN l ELSE items[l][1])'
    <3>1. CASE k = 1
      <4>1. next'[l] = n
        BY <1>3, <1>5, <3>1
      <4>2. CASE Len(s) = 1
        BY <1>3, <1>6, <3>1, <4>1, <4>2 DEF t
      <4>3. CASE Len(s) # 1
        <5>1. t # <<>> /\ 1 \in 1..Len(t) /\ t[1] = s[1 + 1]
          BY <1>0, <1>6, <3>1, <4>3
        <5>2. n = s[1 + 1]
          BY <1>3, <3>1, <4>3
        <5> QED
          BY <4>1, <5>1, <5>2 DEF t
      <4> QED
        BY <4>2, <4>3
    <3>2. CASE k # 1
      <4>1. 1 \in 1..Len(t) /\ 1 < k /\ t # <<>>
        BY <1>0, <1>6, <3>2
      <4>2. t[1] = s[1]
        BY <1>6, <4>1
      <4>3. l # p
        BY <1>2, <1>3, <3>2
      <4>4. next'[l] = s[1]
        BY <1>0, <1>5, <4>3 DEF Spells, s
      <4> QED
        BY <4>1, <4>2, <4>4 DEF t
    <3> QED
      BY <3>1, <3>2
  <2>2. (prev[l] = IF items[l] = <<>> THEN l ELSE items[l][Len(items[l])])'
    <3>1. CASE k = Len(s)
      <4>1. prev'[l] = p
        BY <1>3, <1>5, <3>1
      <4>2. CASE k = 1
        BY <1>3, <1>6, <3>1, <4>1, <4>2 DEF t
      <4>3. CASE k # 1
        <5>1. t # <<>> /\ Len(t) \in 1..Len(t) /\ Len(t) = k - 1 /\ Len(t) < k
          BY <1>0, <1>6, <3>1, <4>3
        <5>2. t[Len(t)] = s[k - 1]
          BY <1>6, <5>1
        <5> QED
          BY <1>3, <4>1, <4>3, <5>1, <5>2 DEF t
      <4> QED
        BY <4>2, <4>3
    <3>2. CASE k # Len(s)
      <4>1. Len(t) \in 1..Len(t) /\ ~(Len(t) < k) /\ t # <<>> /\ Len(t) + 1 = Len(s)
        BY <1>0, <1>6, <3>2
      <4>2. t[Len(t)] = s[Len(s)]
        BY <1>6, <4>1
      <4>3. l # n
        BY <1>2, <1>3, <3>2
      <4>4. prev'[l] = s[Len(s)]
        BY <1>0, <1>5, <4>3 DEF Spells, s
      <4> QED
        BY <4>1, <4>2, <4>4 DEF t
    <3> QED
      BY <3>1, <3>2
  <2>3. ASSUME NEW i \in 1..Len(t)
        PROVE  next'[t[i]] = IF i = Len(t) THEN l ELSE t[i + 1]
    <3>0. i \in Nat /\ 1 <= i /\ i <= Len(t) /\ i \in 1..Len(s) /\ i + 1 \in 1..Len(s) /\ k \in Nat
      BY <1>0, <1>6
    <3>1. CASE i < k /\ i = k - 1
      <4>1. t[i] = s[i] /\ t[i] = p
        BY <1>3, <1>6, <3>0, <3>1
      <4>2. next'[t[i]] = n
        BY <1>5, <4>1
      <4>3. CASE i = Len(t)
        BY <1>0, <1>3, <1>6, <3>0, <3>1, <4>2, <4>3
      <4>4. CASE i # Len(t)
        <5>1. i + 1 \in 1..Len(t) /\ ~(i + 1 < k) /\ k # Len(s) /\ i + 1 = k
          BY <1>0, <1>6, <3>0, <3>1, <4>4
        <5>2. t[i + 1] = s[k + 1]
          BY <1>6, <5>1
        <5> QED
          BY <1>3, <4>2, <4>4, <5>1, <5>2
      <4> QED
        BY <4>3, <4>4
    <3>2. CASE i < k /\ i # k - 1
      <4>1. t[i] = s[i] /\ i # Len(t) /\ i # Len(s) /\ i + 1 \in 1..Len(t) /\ i + 1 < k
        BY <1>0, <1>6, <3>0, <3>2
      <4>2. t[i + 1] = s[i + 1]
        BY <1>6, <4>1
      <4>3. s[i] # p /\ s[i] # x /\ s[i] \in Base
        BY <1>2, <1>4, <3>0, <3>2
      <4>4. next'[s[i]] = s[i + 1]
        BY <1>5, <2>0, <3>0, <4>1, <4>3
      <4> QED
        BY <4>1, <4>2, <4>4
    <3>3. CASE ~(i < k)
      <4>1. t[i] = s[i + 1]
        BY <1>6, <3>3
      <4>2. i + 1 # k - 1 /\ i + 1 # k
        BY <3>0, <3>3
      <4>3. s[i + 1] # p /\ s[i + 1] # x /\ s[i + 1] \in Base
        BY <1>2, <1>4, <3>0, <4>2
      <4>4. next'[t[i]] = IF i + 1 = Len(s) THEN l ELSE s[i + 1 + 1]
        <5>1. next[s[i + 1]] = IF i + 1 = Len(s) THEN l ELSE s[i + 1 + 1]
          BY <2>0, <3>0
        <5>2. next'[s[i + 1]] = next[s[i + 1]]
          BY <1>5, <4>3
        <5> QED
          BY <4>1, <5>1, <5>2
      <4>5. CASE i = Len(t)
        BY <1>0, <1>6, <3>0, <4>4, <4>5
      <4>6. CASE i # Len(t)
        <5>1. i + 1 \in 1..Len(t) /\ ~(i + 1 < k) /\ i + 1 # Len(s)
          BY <1>0, <1>6, <3>0, <3>3, <4>6
        <5>2. t[i + 1] = s[i + 1 + 1]
          BY <1>6, <5>1
        <5> QED
          BY <4>4, <4>6, <5>1, <5>2
      <4> QED
        BY <4>5, <4>6
    <3> QED
      BY <3>1, <3>2, <3>3
  <2>4. ASSUME NEW i \in 1..Len(t)
        PROVE  prev'[t[i]] = IF i = 1 THEN l ELSE t[i - 1]
    <3>0. i \in Nat /\ 1 <= i /\ i <= Len(t) /\ i \in 1..Len(s) /\ i + 1 \in 1..Len(s) /\ k \in Nat
      BY <1>0, <1>6
    <3>1. CASE ~(i < k) /\ i = k
      <4>1. t[i] = s[k + 1] /\ k # Len(s)
        BY <1>0, <1>6, <3>0, <3>1
      <4>2. prev'[t[i]] = p
        BY <1>3, <1>5, <4>1
      <4>3. CASE i = 1
        BY <1>3, <3>1, <4>2, <4>3
      <4>4. CASE i # 1
        <5>1. i - 1 \in 1..Len(t) /\ i - 1 < k /\ k # 1
          BY <3>0, <3>1, <4>4
        <5>2. t[i - 1] = s[k - 1]
          BY <1>6, <3>1, <5>1
        <5> QED
          BY <1>3, <4>2, <4>4, <5>1, <5>2
      <4> QED
        BY <4>3, <4>4
    <3>2. CASE ~(i < k) /\ i # k
      <4>1. t[i] = s[i + 1] /\ i - 1 \in 1..Len(t) /\ ~(i - 1 < k) /\ (i - 1) + 1 = i /\ i # 1
        BY <1>0, <1>6, <3>0, <3>2, SMTT(20)
      <4>2. t[i - 1] = s[i]
        BY <1>6, <4>1
      <4>3. i + 1 # k + 1 /\ i + 1 # k /\ i + 1 # 1 /\ (i + 1) - 1 = i
        BY <3>0, <3>2
      <4>4. s[i + 1] # n /\ s[i + 1] # x /\ s[i + 1] \in Base
        BY <1>2, <1>4, <3>0, <4>3
      <4>5. prev[s[i + 1]] = s[(i + 1) - 1]
        BY <2>0, <3>0, <4>3
      <4> QED
        BY <1>5, <4>1, <4>2, <4>3, <4>4, <4>5
    <3>3. CASE i < k
      <4>1. t[i] = s[i] /\ i # k + 1 /\ i # k
        BY <1>6, <3>0, <3>3
      <4>2. s[i] # n /\ s[i] # x /\ s[i] \in Base
        BY <1>2, <1>4, <3>0, <4>1
      <4>3. prev'[t[i]] = IF i = 1 THEN l ELSE s[i - 1]
        BY <1>5, <2>0, <3>0, <4>1, <4>2
      <4>4. i # 1 => i - 1 \in 1..Len(t) /\ i - 1 < k
        BY <3>0, <3>3
      <4> QED
        BY <1>6, <4>3, <4>4
    <3> QED
      BY <3>1, <3>2, <3>3
  <2> QED
    BY <2>1, <2>2, <2>3, <2>4 DEF Spells, t
<1>15. ASSUME NEW m \in List, m # l, Pinned(m) PROVE Spells(m)'
  <2>1. m \in Base /\ m \notin Node /\ Spells(m)
    BY <1>15, PointersAssumption DEF ListInv, Base
  <2>2. m # x /\ m # p /\ m # n
    BY <1>0, <1>2, <1>3, <1>15, <2>1
  <2>3. \A i \in 1..Len(items[m]) : items[m][i] # x /\ items[m][i] # p /\ items[m][i] # n /\ items[m][i] \in Base
    <3>1. \A i \in 1..Len(items[m]) : items[m][i] \in Node
      BY ListedLinked
    <3>2. \A i \in 1..Len(items[m]), j \in 1..Len(s) : items[m][i] # s[j]
      BY <1>0, <1>15 DEF Apart, s
    <3> QED
      BY <1>0, <1>3, <3>1, <3>2, SMTT(20) DEF Base, s, x
  <2> QED
    BY <1>5, <1>15, <2>1, <2>2, <2>3, SpellsKeeps
<1> QED
  BY <1>7, <1>8, <1>9, <1>10, <1>12, <1>13, <1>14, <1>15 DEF ListInv, Base, x

\* What a node leaving l from place k means for everybody.
Left(l, k) ==
    /\ items' \in [List -> Seq(Node)]
    /\ \A m \in List : m # l => items'[m] = items[m]
    /\ Removed(items'[l], items[l], k)
    /\ \A y \in Node : Linked(y)' <=> Linked(y) /\ y # items[l][k]
    /\ \A m \in List : Pinned(m)' <=> Pinned(m)

\* unlink of any linked node.
LEMMA UnlinkInv ==
  ASSUME ListInv, NEW x \in Node, Unlink(x)
  PROVE  ListInv' /\ \E l \in List : \E k \in 1..Len(items[l]) : x = items[l][k] /\ Left(l, k)
<1>0. ListTypeOK /\ Apart /\ Found /\ \A l \in List : items[l] \in Seq(Node)
  BY DEF ListInv, ListTypeOK
<1>1. PICK l \in List : \E k \in 1..Len(items[l]) : items[l][k] = x
  BY <1>0 DEF Unlink, Found
<1>2. PICK k \in 1..Len(items[l]) : items[l][k] = x
  BY <1>1
<1>3. UnlinkPtrs(items[l][k]) /\ items' = [m \in List |-> Without(items[m], items[l][k])]
  BY <1>2 DEF Unlink
<1>4. Removed(items'[l], items[l], k)
  <2>1. \A i \in 1..Len(items[l]) : items[l][i] = items[l][k] => i = k
    BY <1>0 DEF Apart
  <2>2. Removed(Without(items[l], items[l][k]), items[l], k)
    BY <1>0, <2>1, WithoutIs
  <2> QED
    BY <1>3, <2>2
<1>5. ASSUME NEW m \in List, m # l PROVE items'[m] = items[m]
  <2>1. \A i \in 1..Len(items[m]) : items[m][i] # items[l][k]
    BY <1>0, <1>5 DEF Apart
  <2>2. Without(items[m], items[l][k]) = items[m]
    BY <2>1, WithoutSame
  <2> QED
    BY <1>3, <2>2
<1>6. items' \in [List -> Seq(Node)]
  <2>1. \A m \in List : items'[m] \in Seq(Node)
    BY <1>0, <1>4, <1>5 DEF Removed
  <2> QED
    BY <1>3, <2>1
<1>7. /\ ListInv'
      /\ \A y \in Node : Linked(y)' <=> Linked(y) /\ y # items[l][k]
      /\ \A m \in List : Pinned(m)' <=> Pinned(m)
  BY <1>3, <1>4, <1>5, <1>6, UnlinkAtInv
<1> QED
  BY <1>2, <1>4, <1>5, <1>6, <1>7 DEF Left

\* pop_edge of a list that is not empty, at either end: what leaves is the front.
LEMMA PopAtInv ==
  ASSUME ListInv, NEW l \in List, Pinned(l), ~IsEmpty(l), UnlinkPtrs(next[l]), NEW t,
         items' = [items EXCEPT ![l] = t], t = Tail(items[l]) \/ t = Without(items[l], next[l])
  PROVE  /\ ListInv' /\ 1 \in 1..Len(items[l]) /\ next[l] = items[l][1] /\ Left(l, 1)
<1>0. ListTypeOK /\ Apart /\ items[l] \in Seq(Node) /\ items[l] # <<>> /\ next[l] = items[l][1]
  BY Ends DEF ListInv
<1>1. Removed(Tail(items[l]), items[l], 1) /\ 1 \in 1..Len(items[l])
  BY <1>0, TailIs
<1>2. Removed(Without(items[l], items[l][1]), items[l], 1)
  <2>1. \A i \in 1..Len(items[l]) : items[l][i] = items[l][1] => i = 1
    BY <1>0, <1>1 DEF Apart
  <2> QED
    BY <1>0, <1>1, <2>1, WithoutIs
<1>3. Removed(t, items[l], 1)
  BY <1>0, <1>1, <1>2
<1>4. t \in Seq(Node)
  BY <1>3 DEF Removed
<1>5. items' \in [List -> Seq(Node)] /\ items'[l] = t /\ \A m \in List : m # l => items'[m] = items[m]
  BY <1>0, <1>4 DEF ListTypeOK
<1>6. UnlinkPtrs(items[l][1]) /\ Removed(items'[l], items[l], 1)
  BY <1>0, <1>3, <1>5
<1>7. /\ ListInv'
      /\ \A y \in Node : Linked(y)' <=> Linked(y) /\ y # items[l][1]
      /\ \A m \in List : Pinned(m)' <=> Pinned(m)
  BY <1>1, <1>5, <1>6, UnlinkAtInv
<1> QED
  BY <1>0, <1>1, <1>5, <1>6, <1>7 DEF Left

\* A step that leaves every pointer.
LEMMA SameInv ==
  ASSUME ListInv, UNCHANGED <<prev, next, items>>
  PROVE  ListInv'
  BY DEF ListInv, ListTypeOK, PinnedFirst, Apart, Found, Spells, Pinned, Linked

\* pop_front
LEMMA PopFrontInv ==
  ASSUME ListInv, NEW l \in List, PopFront(l)
  PROVE  /\ ListInv'
         /\ IF IsEmpty(l) THEN UNCHANGED <<prev, next, items>>
            ELSE 1 \in 1..Len(items[l]) /\ next[l] = items[l][1] /\ Left(l, 1)
<1>1. CASE IsEmpty(l)
  BY <1>1, SameInv DEF PopFront
<1>2. CASE ~IsEmpty(l)
  <2>1. /\ Pinned(l) /\ UnlinkPtrs(next[l])
        /\ items' = [items EXCEPT ![l] = Tail(items[l])]
    BY <1>2 DEF PopFront, Head_
  <2>2. PICK t : t = Tail(items[l])
    OBVIOUS
  <2> QED
    BY <1>2, <2>1, <2>2, PopAtInv
<1> QED
  BY <1>1, <1>2

\* pop_back
LEMMA PopBackInv ==
  ASSUME ListInv, NEW l \in List, PopBack(l)
  PROVE  ListInv'
<1>1. CASE IsEmpty(l)
  BY <1>1, SameInv DEF PopBack
<1>2. CASE ~IsEmpty(l)
  <2>1. /\ Pinned(l) /\ UnlinkPtrs(next[l])
        /\ items' = [items EXCEPT ![l] = Without(items[l], next[l])]
    BY <1>2 DEF PopBack, Tail_
  <2>2. PICK t : t = Without(items[l], next[l])
    OBVIOUS
  <2> QED
    BY <1>2, <2>1, <2>2, PopAtInv
<1> QED
  BY <1>1, <1>2

\* move_elements: the ring changes its base.
LEMMA MoveInv ==
  ASSUME ListInv, NEW l \in List, NEW m \in List, MoveElements(l, m), ~IsEmpty(l)
  PROVE  /\ ListInv' /\ l # m /\ items[m] = <<>>
         /\ items' = [items EXCEPT ![m] = items[l], ![l] = <<>>]
         /\ \A y \in Base : Linked(y)' <=> Linked(y)
<1> DEFINE s == items[l]
           first == items[l][1]
           last == items[l][Len(items[l])]
<1>0. /\ ListTypeOK /\ PinnedFirst /\ Apart /\ Found /\ l \in Base /\ l \notin Node /\ Nil \notin Base
      /\ m \in Base /\ m \notin Node
  BY PointersAssumption DEF ListInv, Base
<1>1. /\ Pinned(l) /\ Pinned(m) /\ IsEmpty(m)
      /\ prev' = [prev EXCEPT ![m] = prev[l], ![next[l]] = m, ![l] = l]
      /\ next' = [next EXCEPT ![prev[l]] = m, ![m] = next[l], ![l] = l]
      /\ items' = [items EXCEPT ![m] = items[l], ![l] = <<>>]
  BY DEF MoveElements
<1>2. /\ s \in Seq(Node) /\ s # <<>> /\ Len(s) \in Nat /\ Spells(l) /\ items[m] = <<>> /\ l # m
      /\ prev[l] = last /\ next[l] = first
  BY <1>1, Ends
<1>3. 1 \in 1..Len(s) /\ Len(s) \in 1..Len(s)
  BY <1>2
<1>4. /\ \A i \in 1..Len(s) : s[i] \in Node /\ s[i] \in Base /\ s[i] # l /\ s[i] # m
      /\ \A i \in 1..Len(s) : i # 1 => s[i] # first
      /\ \A i \in 1..Len(s) : i # Len(s) => s[i] # last
  <2>1. \A i \in 1..Len(s) : s[i] \in Node /\ s[i] \in Base /\ s[i] # l /\ s[i] # m
    BY <1>0, <1>2 DEF Base
  <2> QED
    BY <1>0, <1>3, <2>1 DEF Apart
<1>5. first = s[1] /\ last = s[Len(s)] /\ first \in Base /\ last \in Base /\ first # l /\ first # m /\ last # l /\ last # m
  BY <1>3, <1>4
<1>6. /\ prev' = [prev EXCEPT ![m] = last, ![first] = m, ![l] = l]
      /\ next' = [next EXCEPT ![last] = m, ![m] = first, ![l] = l]
  BY <1>1, <1>2
<1> HIDE DEF first, last
<1>7. /\ prev'[m] = last /\ prev'[first] = m /\ prev'[l] = l
      /\ next'[last] = m /\ next'[m] = first /\ next'[l] = l
      /\ \A y \in Base : y # m /\ y # first /\ y # l => prev'[y] = prev[y]
      /\ \A y \in Base : y # m /\ y # last /\ y # l => next'[y] = next[y]
  BY <1>0, <1>2, <1>5, <1>6 DEF ListTypeOK
<1>8. /\ items'[m] = s /\ items'[l] = <<>>
      /\ \A q \in List : q # l /\ q # m => items'[q] = items[q]
  BY <1>0, <1>1, <1>2 DEF ListTypeOK
<1>9. ListTypeOK'
  <2>1. prev' \in [Base -> Base \cup {Nil}] /\ next' \in [Base -> Base \cup {Nil}]
    BY <1>0, <1>5, <1>6 DEF ListTypeOK
  <2>2. items' \in [List -> Seq(Node)]
    <3>1. <<>> \in Seq(Node)
      OBVIOUS
    <3> QED
      BY <1>0, <1>1, <1>2, <3>1 DEF ListTypeOK
  <2> QED
    BY <2>1, <2>2 DEF ListTypeOK
<1> HIDE DEF s
<1>10. \A y \in Base : Linked(y)' <=> Linked(y)
  <2>1. prev[first] # Nil /\ prev[m] # Nil /\ prev[l] # Nil
    BY <1>1, <1>3, <1>5, ListedLinked DEF Linked, Pinned, s
  <2>2. prev'[first] # Nil /\ prev'[m] # Nil /\ prev'[l] # Nil
    BY <1>0, <1>5, <1>7
  <2> QED
    BY <1>7, <2>1, <2>2 DEF Linked
<1>11. PinnedFirst'
  BY <1>0, <1>1, <1>8, <1>10 DEF PinnedFirst, Pinned, Base
<1>12. Found'
  <2>1. SUFFICES ASSUME NEW y \in Node, Linked(y)'
                 PROVE  \E q \in List : \E i \in 1..Len(items'[q]) : items'[q][i] = y
    BY DEF Found
  <2>2. Linked(y)
    BY <1>10, <2>1 DEF Base
  <2>3. PICK q \in List : \E i \in 1..Len(items[q]) : items[q][i] = y
    BY <1>0, <2>2 DEF Found
  <2>4. CASE q = l
    BY <1>8, <2>3, <2>4 DEF s
  <2>5. CASE q # l
    <3>1. q # m
      BY <1>2, <2>3
    <3> QED
      BY <1>8, <2>3, <2>5, <3>1
  <2> QED
    BY <2>4, <2>5
<1>13. Apart'
  <2>1. SUFFICES ASSUME NEW a \in List, NEW b \in List, NEW i \in 1..Len(items'[a]),
                        NEW j \in 1..Len(items'[b]), items'[a][i] = items'[b][j]
                 PROVE  a = b /\ i = j
    BY DEF Apart
  <2>2. \A q \in List : \A h \in 1..Len(items'[q]) :
          \/ q = m /\ h \in 1..Len(items[l]) /\ items'[q][h] = items[l][h]
          \/ q # m /\ q # l /\ h \in 1..Len(items[q]) /\ items'[q][h] = items[q][h]
    BY <1>2, <1>8 DEF s
  <2> QED
    BY <1>0, <2>1, <2>2 DEF Apart
<1>14. Spells(m)'
  <2>1. (next[m] = IF items[m] = <<>> THEN m ELSE items[m][1])'
    BY <1>2, <1>5, <1>7, <1>8
  <2>2. (prev[m] = IF items[m] = <<>> THEN m ELSE items[m][Len(items[m])])'
    BY <1>2, <1>5, <1>7, <1>8
  <2>3. ASSUME NEW i \in 1..Len(s) PROVE next'[s[i]] = IF i = Len(s) THEN m ELSE s[i + 1]
    <3>1. CASE i = Len(s)
      BY <1>5, <1>7, <3>1
    <3>2. CASE i # Len(s)
      <4>1. next'[s[i]] = next[s[i]]
        BY <1>4, <1>7, <3>2
      <4> QED
        BY <1>2, <3>2, <4>1 DEF Spells, s
    <3> QED
      BY <3>1, <3>2
  <2>4. ASSUME NEW i \in 1..Len(s) PROVE prev'[s[i]] = IF i = 1 THEN m ELSE s[i - 1]
    <3>1. CASE i = 1
      BY <1>5, <1>7, <3>1
    <3>2. CASE i # 1
      <4>1. prev'[s[i]] = prev[s[i]]
        BY <1>4, <1>7, <3>2
      <4> QED
        BY <1>2, <3>2, <4>1 DEF Spells, s
    <3> QED
      BY <3>1, <3>2
  <2> QED
    BY <1>8, <2>1, <2>2, <2>3, <2>4 DEF Spells
<1>15. Spells(l)'
  BY <1>7, <1>8 DEF Spells
<1>16. ASSUME NEW q \in List, q # l, q # m, Pinned(q)' PROVE Spells(q)'
  <2>1. q \in Base /\ q \notin Node /\ Pinned(q) /\ Spells(q)
    BY <1>10, <1>16, PointersAssumption DEF ListInv, Base, Pinned
  <2>2. q # first /\ q # last
    BY <1>3, <1>4, <1>5, <2>1
  <2>3. \A i \in 1..Len(items[q]) :
          LET y == items[q][i] IN y \in Base /\ y # first /\ y # last /\ y # l /\ y # m
    <3>1. \A i \in 1..Len(items[q]) : items[q][i] \in Node
      BY ListedLinked
    <3>2. \A i \in 1..Len(items[q]), j \in 1..Len(s) : items[q][i] # s[j]
      BY <1>0, <1>16 DEF Apart, s
    <3> QED
      BY <1>0, <1>3, <1>5, <3>1, <3>2 DEF Base
  <2> QED
    BY <1>7, <1>8, <1>16, <2>1, <2>2, <2>3, SpellsKeeps
<1> QED
  BY <1>1, <1>2, <1>9, <1>10, <1>11, <1>12, <1>13, <1>14, <1>15, <1>16 DEF ListInv

\* Every method keeps the invariant.
LEMMA ListNextInv == ListInv /\ [ListNext]_lvars => ListInv'
<1> SUFFICES ASSUME ListInv, [ListNext]_lvars PROVE ListInv'
  OBVIOUS
<1>1. ASSUME NEW l \in List, NEW m \in List, MoveElements(l, m) PROVE ListInv'
  <2>1. CASE IsEmpty(l)
    BY <1>1, <2>1, SameInv DEF MoveElements
  <2>2. CASE ~IsEmpty(l)
    BY <1>1, <2>2, MoveInv
  <2> QED
    BY <2>1, <2>2
<1>2. CASE UNCHANGED lvars
  BY <1>2, SameInv DEF lvars
<1> QED
  BY <1>1, <1>2, PinInv, PopFrontInv, PopBackInv, AppendInv, UnlinkInv DEF ListNext

\* For any nodes and lists, and after any calls of the intrusive list's methods in
\* any order, the pointers spell the lists in both directions and a node is linked
\* exactly when it is in one list, once.
THEOREM ListCorrect == ListSpec => []ListSound
<1>1. ListSpec => []ListInv
  BY ListInitInv, ListNextInv, PTL DEF ListSpec
<1> QED
  BY <1>1, ListInvSound, PTL

-----------------------------------------------------------------------------
(* RawNotify: a notify owes exactly its round *)

Frame == {Run(t) : t \in Node \cup {Main}} \cup {Loop(l) : l \in Local} \cup {Last(l) : l \in Local}

Has(q, f) == \E i \in 1..Len(q) : q[i] = f

RunsOnce(q) == \A i, j \in 1..Len(q) : q[i] = q[j] /\ q[i].op = "run" => i = j

\* A call stack: Main at the bottom, and no task twice.
StackSound(q) ==
    /\ q \in Seq(Frame) /\ q # <<>> /\ q[Len(q)] = Run(Main)
    /\ RunsOnce(q)

Members(l) == {items[l][i] : i \in 1..Len(items[l])}

Waiters == {t \in Node : Linked(t)}

\* Where a wake_all stands: what its list still holds is due, and it holds
\* nothing when wake_all has returned or its last completion is out.
Owed ==
    \A l \in Local :
        /\ due[l] = Members(l)
        /\ ~Has(stack, Loop(l)) /\ ~Has(stack, Last(l)) => due[l] = {}
        /\ Has(stack, Last(l)) => due[l] = {}

Suspended ==
    \A t \in Node :
        /\ Has(stack, Run(t)) => t \in started
        /\ Linked(t) => t \in started /\ ~Has(stack, Run(t))

Tally == IsFiniteSet(Waiters) /\ count = Cardinality(Waiters)

NotifyInv ==
    /\ ListInv /\ \A l \in List : Pinned(l)
    /\ StackSound(stack)
    /\ due \in [Local -> SUBSET Node]
    /\ Owed /\ Suspended /\ Tally

\* Frames tell a task that runs from a wake_all, and the two apart.
LEMMA FramesDiffer ==
  /\ \A t, u : Run(t) = Run(u) => t = u
  /\ \A t, l : Run(t) # Loop(l) /\ Run(t) # Last(l)
  /\ \A l, m : (Loop(l) = Loop(m) => l = m) /\ (Last(l) = Last(m) => l = m) /\ Loop(l) # Last(m)
  /\ \A t : Run(t).op = "run" /\ Run(t).list = Self /\ Run(t).task = t
  /\ \A l : Loop(l).op = "loop" /\ Last(l).op = "last" /\ Loop(l).list = l /\ Last(l).list = l
<1>1. \A t : Run(t).op = "run" /\ Run(t).list = Self /\ Run(t).task = t
  BY DEF Run
<1>2. \A l : Loop(l).op = "loop" /\ Last(l).op = "last" /\ Loop(l).list = l /\ Last(l).list = l
  BY DEF Loop, Last
<1> QED
  BY <1>1, <1>2

\* A frame is pushed.
LEMMA PushSound ==
  ASSUME NEW q, StackSound(q), NEW f \in Frame, f.op = "run" => ~Has(q, f)
  PROVE  StackSound(<<f>> \o q) /\ \A g : Has(<<f>> \o q, g) <=> g = f \/ Has(q, g)
<1>0. q \in Seq(Frame) /\ q # <<>> /\ q[Len(q)] = Run(Main) /\ RunsOnce(q) /\ Len(q) \in Nat /\ Len(q) > 0
  BY DEF StackSound
<1>1. PICK r : r = <<f>> \o q
  OBVIOUS
<1>2. /\ r \in Seq(Frame) /\ Len(r) = Len(q) + 1 /\ r[1] = f
      /\ \A i \in 1..Len(q) : r[i + 1] = q[i]
  BY <1>0, <1>1
<1>3. \A i \in 1..Len(r) : i = 1 \/ (i - 1 \in 1..Len(q) /\ r[i] = q[i - 1])
  <2>1. SUFFICES ASSUME NEW i \in 1..Len(r), i # 1 PROVE i - 1 \in 1..Len(q) /\ r[i] = q[i - 1]
    OBVIOUS
  <2>2. i - 1 \in 1..Len(q) /\ (i - 1) + 1 = i
    BY <1>0, <1>2, <2>1
  <2> QED
    BY <1>2, <2>2
<1>4. ASSUME NEW g PROVE Has(r, g) <=> g = f \/ Has(q, g)
  <2>1. ASSUME Has(r, g) PROVE g = f \/ Has(q, g)
    BY <1>2, <1>3, <2>1 DEF Has
  <2>2. ASSUME g = f PROVE Has(r, g)
    <3>1. 1 \in 1..Len(r)
      BY <1>0, <1>2
    <3> QED
      BY <1>2, <2>2, <3>1 DEF Has
  <2>3. ASSUME Has(q, g) PROVE Has(r, g)
    <3>1. PICK i \in 1..Len(q) : q[i] = g
      BY <2>3 DEF Has
    <3>2. i + 1 \in 1..Len(r) /\ r[i + 1] = g
      BY <1>0, <1>2, <3>1
    <3> QED
      BY <3>2 DEF Has
  <2> QED
    BY <2>1, <2>2, <2>3
<1>5. RunsOnce(r)
  <2>1. SUFFICES ASSUME NEW i \in 1..Len(r), NEW j \in 1..Len(r), r[i] = r[j], r[i].op = "run"
                 PROVE  i = j
    BY DEF RunsOnce
  <2>2. i \in Int /\ j \in Int
    BY <1>0, <1>2
  <2>3. CASE i = 1 \/ j = 1
    BY <1>2, <1>3, <2>1, <2>3 DEF Has
  <2>4. CASE i # 1 /\ j # 1
    <3>1. /\ i - 1 \in 1..Len(q) /\ j - 1 \in 1..Len(q)
          /\ q[i - 1] = q[j - 1] /\ q[i - 1].op = "run"
      BY <1>3, <2>1, <2>4
    <3>2. i - 1 = j - 1
      BY <1>0, <3>1 DEF RunsOnce
    <3> QED
      BY <2>2, <3>2
  <2> QED
    BY <2>3, <2>4
<1>6. r # <<>> /\ r[Len(r)] = Run(Main)
  <2>1. Len(q) \in 1..Len(q)
    BY <1>0
  <2>2. r[Len(q) + 1] = q[Len(q)]
    BY <1>2, <2>1
  <2> QED
    BY <1>0, <1>2, <2>2
<1> QED
  BY <1>1, <1>2, <1>4, <1>5, <1>6 DEF StackSound

\* The top frame is popped; it is not Main's, which never waits or ends.
LEMMA PopSound ==
  ASSUME NEW q, StackSound(q), q[1] # Run(Main)
  PROVE  /\ StackSound(Tail(q)) /\ q[1] \in Frame /\ Has(q, q[1])
         /\ \A g : Has(q, g) <=> g = q[1] \/ Has(Tail(q), g)
         /\ q[1].op = "run" => ~Has(Tail(q), q[1])
<1>0. q \in Seq(Frame) /\ q # <<>> /\ q[Len(q)] = Run(Main) /\ RunsOnce(q) /\ Len(q) \in Nat /\ Len(q) > 1
  BY DEF StackSound
<1>1. PICK r : r = Tail(q)
  OBVIOUS
<1>2. /\ r \in Seq(Frame) /\ Len(r) = Len(q) - 1
      /\ \A i \in 1..Len(r) : r[i] = q[i + 1]
  BY <1>0, <1>1
<1>3. 1 \in 1..Len(q) /\ q[1] \in Frame /\ \A i \in 1..Len(r) : i + 1 \in 1..Len(q) /\ i + 1 # 1
  BY <1>0, <1>2
<1>4. ASSUME NEW g PROVE Has(q, g) <=> g = q[1] \/ Has(r, g)
  <2>1. ASSUME NEW i \in 1..Len(q), q[i] = g, i # 1 PROVE Has(r, g)
    <3>1. i - 1 \in 1..Len(r) /\ (i - 1) + 1 = i
      BY <1>0, <1>2, <2>1
    <3>2. r[i - 1] = g
      BY <1>2, <2>1, <3>1
    <3> QED
      BY <3>1, <3>2 DEF Has
  <2>2. ASSUME Has(r, g) PROVE Has(q, g)
    BY <1>2, <1>3, <2>2 DEF Has
  <2>3. Has(q, q[1])
    BY <1>3 DEF Has
  <2> QED
    BY <2>1, <2>2, <2>3 DEF Has
<1>5. RunsOnce(r)
  <2>1. SUFFICES ASSUME NEW i \in 1..Len(r), NEW j \in 1..Len(r), r[i] = r[j], r[i].op = "run"
                 PROVE  i = j
    BY DEF RunsOnce
  <2>2. i + 1 = j + 1
    BY <1>0, <1>2, <1>3, <2>1 DEF RunsOnce
  <2> QED
    BY <1>0, <1>2, <2>2
<1>6. r # <<>> /\ r[Len(r)] = Run(Main)
  <2>1. Len(r) \in 1..Len(r) /\ Len(r) + 1 = Len(q)
    BY <1>0, <1>2
  <2> QED
    BY <1>0, <1>2, <2>1
<1>7. ASSUME q[1].op = "run" PROVE ~Has(r, q[1])
  BY <1>0, <1>2, <1>3, <1>7 DEF Has, RunsOnce
<1> QED
  BY <1>1, <1>2, <1>3, <1>4, <1>5, <1>6, <1>7 DEF StackSound

\* The invariant says what the runs check.
LEMMA NotifyInvExact == NotifyInv => stack # <<>> /\ NotifyExact
<1> SUFFICES ASSUME NotifyInv PROVE stack # <<>> /\ NotifyOwes /\ WaitersCounted
  BY DEF NotifyExact
<1>0. /\ Owed /\ Suspended /\ Tally /\ StackSound(stack) /\ stack # <<>> /\ stack \in Seq(Frame)
      /\ Self \notin Local
  BY DEF NotifyInv, StackSound, Local
<1>1. \A l \in Local : l \notin InUse => ~Has(stack, Loop(l)) /\ ~Has(stack, Last(l))
  BY FramesDiffer DEF Has, InUse
<1>2. NotifyOwes
  BY <1>0, <1>1 DEF NotifyOwes, Owed, Members, Has
<1>3. WaitersCounted
  BY <1>0 DEF WaitersCounted, Tally, Waiters, Suspended, OnStack, Has, StackSound, RunsOnce
<1> QED
  BY <1>0, <1>2, <1>3

\* A node that leaves a list leaves what is due of that list, and nothing else.
LEMMA LeftEffect ==
  ASSUME NotifyInv, NEW l \in List, NEW k \in 1..Len(items[l]), NEW x, x = items[l][k], Left(l, k)
  PROVE  /\ x \in Node /\ Linked(x) /\ \A m \in List : Pinned(m)'
         /\ \A m \in List : m # l => Members(m)' = Members(m) /\ x \notin Members(m)
         /\ Members(l)' = Members(l) \ {x} /\ x \in Members(l)
         /\ Waiters' = Waiters \ {x}
         /\ IsFiniteSet(Waiters') /\ Cardinality(Waiters') = count - 1
<1>0. /\ ListInv /\ Apart /\ x \in Node /\ Linked(x) /\ items[l] \in Seq(Node) /\ Len(items[l]) \in Nat
      /\ \A m \in List : Pinned(m)
  BY ListedLinked DEF NotifyInv, ListInv
<1>1. \A m \in List : Pinned(m)'
  BY <1>0 DEF Left
<1>2. \A m \in List : m # l => Members(m)' = Members(m) /\ x \notin Members(m)
  <2>1. SUFFICES ASSUME NEW m \in List, m # l PROVE Members(m)' = Members(m) /\ x \notin Members(m)
    OBVIOUS
  <2>2. Members(m)' = Members(m)
    BY <2>1 DEF Left, Members
  <2>3. x \notin Members(m)
    BY <1>0, <2>1 DEF Apart, Members
  <2> QED
    BY <2>2, <2>3
<1>3. Members(l)' = Members(l) \ {x} /\ x \in Members(l)
  <2>1. /\ Len(items'[l]) = Len(items[l]) - 1
        /\ \A i \in 1..(Len(items[l]) - 1) : items'[l][i] = IF i < k THEN items[l][i] ELSE items[l][i + 1]
    BY DEF Left, Removed
  <2>2. ASSUME NEW i \in 1..Len(items'[l]) PROVE items'[l][i] \in Members(l) /\ items'[l][i] # x
    <3>1. i \in 1..(Len(items[l]) - 1) /\ i \in 1..Len(items[l]) /\ i + 1 \in 1..Len(items[l])
      BY <1>0, <2>1
    <3>2. (i < k => i # k) /\ (~(i < k) => i + 1 # k)
      BY <1>0, <3>1
    <3> QED
      BY <1>0, <2>1, <3>1, <3>2, SMTT(20) DEF Members, Apart
  <2>3. ASSUME NEW i \in 1..Len(items[l]), items[l][i] # x
        PROVE  \E j \in 1..Len(items'[l]) : items'[l][j] = items[l][i]
    <3>0. i # k
      BY <2>3
    <3>1. CASE i < k
      <4>1. i \in 1..(Len(items[l]) - 1)
        BY <1>0, <3>1
      <4> QED
        BY <2>1, <3>1, <4>1
    <3>2. CASE ~(i < k)
      <4>1. i - 1 \in 1..(Len(items[l]) - 1) /\ ~(i - 1 < k) /\ (i - 1) + 1 = i
        BY <1>0, <3>0, <3>2
      <4> QED
        BY <2>1, <4>1
    <3> QED
      BY <3>1, <3>2
  <2>4. Members(l)' = {items'[l][i] : i \in 1..Len(items'[l])}
    BY DEF Members
  <2> QED
    BY <2>2, <2>3, <2>4 DEF Members
<1>4. Waiters' = Waiters \ {x} /\ x \in Waiters
  BY <1>0 DEF Left, Waiters
<1>5. IsFiniteSet(Waiters) /\ count = Cardinality(Waiters)
  BY DEF NotifyInv, Tally
<1>6. IsFiniteSet(Waiters \ {x}) /\ Cardinality(Waiters \ {x}) = count - 1
  BY <1>4, <1>5, FS_RemoveElement
<1> QED
  BY <1>0, <1>1, <1>2, <1>3, <1>4, <1>6

\* A task that was suspended and is resumed on top of below, which is the stack, or
\* the stack of a wake_all after a round.
LEMMA ResumeInv ==
  ASSUME NotifyInv, ListInv', NEW l \in List, NEW k \in 1..Len(items[l]), NEW u, u = items[l][k],
         Left(l, k), NEW below, StackSound(below), Resume(u, below), UNCHANGED started,
         \A t \in Node : Has(below, Run(t)) <=> Has(stack, Run(t)),
         due' \in [Local -> SUBSET Node],
         \A m \in Local : due'[m] = IF m = l THEN due[m] \ {u} ELSE due[m],
         \A m \in Local : (Has(stack, Loop(m)) \/ Has(stack, Last(m))) =>
                             (Has(below, Loop(m)) \/ Has(below, Last(m))),
         \A m \in Local : Has(below, Last(m)) => due'[m] = {}
  PROVE  NotifyInv'
<1>0. Owed /\ Suspended /\ Tally /\ Local \subseteq List
  BY DEF NotifyInv, Local
<1>1. /\ u \in Node /\ Linked(u) /\ \A m \in List : Pinned(m)'
      /\ \A m \in List : m # l => Members(m)' = Members(m)
      /\ Members(l)' = Members(l) \ {u}
      /\ Waiters' = Waiters \ {u} /\ IsFiniteSet(Waiters') /\ Cardinality(Waiters') = count - 1
  BY LeftEffect
<1>2. ~Has(below, Run(u)) /\ u \in started
  BY <1>0, <1>1 DEF Suspended
<1>3. stack' = <<Run(u)>> \o below /\ count' = count - 1
  BY DEF Resume
<1>4. StackSound(stack') /\ \A g : Has(stack', g) <=> g = Run(u) \/ Has(below, g)
  <2>1. Run(u) \in Frame
    BY <1>1 DEF Frame
  <2> QED
    BY <1>2, <1>3, <2>1, PushSound
<1>5. ASSUME NEW m \in Local
      PROVE  /\ due'[m] = Members(m)'
             /\ ~Has(stack', Loop(m)) /\ ~Has(stack', Last(m)) => due'[m] = {}
             /\ Has(stack', Last(m)) => due'[m] = {}
  <2>1. due'[m] = Members(m)'
    BY <1>0, <1>1 DEF Owed
  <2>2. Has(stack', Last(m)) => due'[m] = {}
    BY <1>4, FramesDiffer
  <2>3. ASSUME ~Has(stack', Loop(m)) /\ ~Has(stack', Last(m)) PROVE due'[m] = {}
    BY <1>0, <1>4, <2>3 DEF Owed
  <2> QED
    BY <2>1, <2>2, <2>3
<1>6. Owed'
  BY <1>5 DEF Owed
<1>7. Suspended'
  <2>1. \A t \in Node : Linked(t)' <=> Linked(t) /\ t # u
    BY DEF Left
  <2>2. \A t \in Node : Has(stack', Run(t)) <=> t = u \/ Has(stack, Run(t))
    BY <1>4, FramesDiffer
  <2> QED
    BY <1>0, <1>2, <2>1, <2>2 DEF Suspended
<1>8. Tally'
  BY <1>1, <1>3 DEF Tally
<1> QED
  BY <1>1, <1>4, <1>6, <1>7, <1>8 DEF NotifyInv

\* A step that leaves the lists and only pushes or pops a frame.
LEMMA StackInv ==
  ASSUME NotifyInv, UNCHANGED <<prev, next, items, count, due>>, StackSound(stack'),
         started \subseteq started',
         \A t \in Node : Has(stack', Run(t)) => t \in started' /\ ~Linked(t),
         \A l \in Local : Has(stack', Last(l)) => Has(stack, Last(l)),
         \A l \in Local : ~Has(stack', Loop(l)) /\ ~Has(stack', Last(l)) => due[l] = {}
  PROVE  NotifyInv'
<1>0. ListInv /\ Owed /\ Suspended /\ Tally /\ \A l \in List : Pinned(l)
  BY DEF NotifyInv
<1>1. ListInv'
  BY <1>0, SameInv
<1>2. \A x \in Base : Linked(x)' <=> Linked(x)
  BY DEF Linked
<1>3. \A l \in List : Pinned(l)'
  BY <1>0 DEF Pinned, Linked
<1>4. Waiters' = Waiters
  BY <1>2 DEF Waiters, Base
<1>5. Owed'
  BY <1>0 DEF Owed, Members
<1>6. Suspended'
  BY <1>0, <1>2 DEF Suspended, Base
<1>7. Tally'
  BY <1>0, <1>4 DEF Tally
<1> QED
  BY <1>1, <1>3, <1>5, <1>6, <1>7 DEF NotifyInv

\* The task that runs is on the stack, and is not waiting.
LEMMA RunningIs ==
  ASSUME NotifyInv, NEW t, Running(t)
  PROVE  /\ Has(stack, Run(t)) /\ stack[1] = Run(t) /\ stack[1].op = "run"
         /\ t \in Node => ~Linked(t) /\ t \in started
         /\ t # Main => stack[1] # Run(Main)
<1>1. stack \in Seq(Frame) /\ stack # <<>> /\ 1 \in 1..Len(stack)
  BY DEF NotifyInv, StackSound
<1>2. Has(stack, Run(t))
  BY <1>1 DEF Running, Has
<1> QED
  BY <1>2, FramesDiffer DEF Running, NotifyInv, Suspended

\* spawn
LEMMA SpawnInv ==
  ASSUME NotifyInv, NEW t \in Node \cup {Main}, NEW u \in Node, Spawn(t, u)
  PROVE  NotifyInv'
<1>0. StackSound(stack) /\ Owed /\ Suspended
  BY DEF NotifyInv
<1>1. /\ u \notin started /\ started' = started \cup {u} /\ stack' = <<Run(u)>> \o stack
      /\ UNCHANGED <<prev, next, items, count, due>>
  BY DEF Spawn, lvars
<1>2. ~Has(stack, Run(u)) /\ ~Linked(u) /\ Run(u) \in Frame
  BY <1>0, <1>1 DEF Suspended, Frame
<1>3. StackSound(stack') /\ \A g : Has(stack', g) <=> g = Run(u) \/ Has(stack, g)
  BY <1>0, <1>1, <1>2, PushSound
<1>4. \A v \in Node : Has(stack', Run(v)) => v \in started' /\ ~Linked(v)
  BY <1>0, <1>1, <1>2, <1>3, FramesDiffer DEF Suspended
<1>5. \A l \in Local : /\ Has(stack', Last(l)) <=> Has(stack, Last(l))
                       /\ Has(stack', Loop(l)) <=> Has(stack, Loop(l))
  BY <1>3, FramesDiffer
<1> QED
  BY <1>0, <1>1, <1>3, <1>4, <1>5, StackInv DEF Owed

\* The task ends.
LEMMA EndInv ==
  ASSUME NotifyInv, NEW t \in Node \cup {Main}, End(t)
  PROVE  NotifyInv'
<1>0. StackSound(stack) /\ Owed /\ Suspended /\ stack[1] = Run(t) /\ stack[1] # Run(Main)
  BY RunningIs DEF NotifyInv, End
<1>1. stack' = Tail(stack) /\ UNCHANGED <<prev, next, items, count, due, started>>
  BY DEF End, lvars
<1>2. StackSound(stack') /\ \A g : Has(stack, g) <=> g = Run(t) \/ Has(stack', g)
  BY <1>0, <1>1, PopSound
<1>3. \A v \in Node : Has(stack', Run(v)) => v \in started' /\ ~Linked(v)
  BY <1>0, <1>1, <1>2 DEF Suspended
<1>4. \A l \in Local : /\ Has(stack', Last(l)) <=> Has(stack, Last(l))
                       /\ Has(stack', Loop(l)) <=> Has(stack, Loop(l))
  BY <1>2, FramesDiffer
<1> QED
  BY <1>0, <1>1, <1>2, <1>3, <1>4, StackInv DEF Owed

\* clear_interrupt, and the interrupt of a task that is on the stack.
LEMMA StutterInv ==
  ASSUME NotifyInv, UNCHANGED <<prev, next, items, count, due, started, stack>>
  PROVE  NotifyInv'
<1>0. StackSound(stack) /\ Owed /\ Suspended
  BY DEF NotifyInv
<1>1. StackSound(stack')
  BY <1>0
<1>2. \A v \in Node : Has(stack', Run(v)) => v \in started' /\ ~Linked(v)
  BY <1>0 DEF Suspended
<1> QED
  BY <1>0, <1>1, <1>2, StackInv DEF Owed

\* wake_all returns: nothing is left in its list.
LEMMA WakeReturnInv ==
  ASSUME NotifyInv, WakeReturn
  PROVE  NotifyInv'
<1>0. /\ ListInv /\ StackSound(stack) /\ Owed /\ Suspended /\ stack \in Seq(Frame) /\ 1 \in 1..Len(stack)
      /\ \A l \in List : Pinned(l)
  BY DEF NotifyInv, StackSound
<1>1. stack' = Tail(stack) /\ UNCHANGED <<prev, next, items, count, due, started>>
  BY DEF WakeReturn, lvars
<1>2. stack[1] \in Frame /\ stack[1].op # "run"
  BY <1>0 DEF WakeReturn
<1>3. PICK l \in Local : stack[1] = Loop(l) \/ stack[1] = Last(l)
  BY <1>2, FramesDiffer DEF Frame
<1>4. stack[1] # Run(Main)
  BY <1>3, FramesDiffer
<1>5. /\ StackSound(stack') /\ Has(stack, stack[1])
      /\ \A g : Has(stack, g) <=> g = stack[1] \/ Has(stack', g)
  BY <1>0, <1>1, <1>4, PopSound
<1>6. due[l] = {}
  <2>1. CASE stack[1] = Last(l)
    BY <1>0, <1>5, <2>1 DEF Owed
  <2>2. CASE stack[1] = Loop(l)
    <3>1. IsEmpty(l)
      BY <2>2, FramesDiffer DEF WakeReturn
    <3>2. items[l] = <<>>
      BY <1>0, <3>1, Ends DEF Local
    <3> QED
      BY <1>0, <3>2 DEF Owed, Members
  <2> QED
    BY <1>3, <2>1, <2>2
<1>7. \A v \in Node : Has(stack', Run(v)) => v \in started' /\ ~Linked(v)
  BY <1>0, <1>1, <1>5 DEF Suspended
<1>8. \A m \in Local : ~Has(stack', Loop(m)) /\ ~Has(stack', Last(m)) => due[m] = {}
  BY <1>0, <1>3, <1>5, <1>6, FramesDiffer DEF Owed
<1> QED
  BY <1>0, <1>1, <1>5, <1>7, <1>8, StackInv

\* wait: the node of the task that suspends is appended.
LEMMA NotifyWaitInv ==
  ASSUME NotifyInv, NEW t \in Node \cup {Main}, Wait(t)
  PROVE  NotifyInv'
<1>0. /\ ListInv /\ StackSound(stack) /\ Owed /\ Suspended /\ Tally /\ (\A l \in List : Pinned(l))
      /\ due \in [Local -> SUBSET Node] /\ Self \in List /\ t \in Node /\ Self \notin Node /\ Self \notin Local
  BY NotifyAssumption, PointersAssumption DEF NotifyInv, Wait, Local
<1>1. stack[1] = Run(t) /\ stack[1] # Run(Main) /\ stack[1].op = "run" /\ t \in started /\ ~Linked(t)
  BY <1>0, RunningIs DEF Wait
<1>2. /\ count' = count + 1 /\ AppendNode(Self, t) /\ stack' = Tail(stack)
      /\ UNCHANGED <<due, started>>
  BY DEF Wait
<1>3. ListInv'
  BY <1>0, <1>2, AppendInv
<1>4. /\ StackSound(stack') /\ ~Has(stack', Run(t))
      /\ \A g : Has(stack, g) <=> g = Run(t) \/ Has(stack', g)
  BY <1>0, <1>1, <1>2, PopSound
<1>5. /\ \A y \in Base : y # t /\ y # Self => prev'[y] = prev[y]
      /\ prev'[t] # Nil /\ prev'[Self] # Nil
      /\ \A l \in List : l # Self => items'[l] = items[l]
  <2>1. /\ prev' = [prev EXCEPT ![t] = prev[Self], ![Self] = t]
        /\ items' = [items EXCEPT ![Self] = Append(items[Self], t)]
    BY <1>2 DEF AppendNode, SetPtrs
  <2>2. prev \in [Base -> Base \cup {Nil}] /\ t \in Base /\ Self \in Base /\ t # Self /\ items \in [List -> Seq(Node)]
    BY <1>0 DEF ListInv, ListTypeOK, Base
  <2>3. prev[Self] # Nil /\ t # Nil
    BY <1>0, PointersAssumption DEF Pinned, Linked
  <2> QED
    BY <1>0, <2>1, <2>2, <2>3
<1>6. \A l \in List : Pinned(l)'
  BY <1>0, <1>5, PointersAssumption DEF Pinned, Linked, Base
<1>7. \A v \in Node : Linked(v)' <=> Linked(v) \/ v = t
  BY <1>0, <1>5 DEF Linked, Base
<1>8. Tally'
  <2>1. Waiters' = Waiters \cup {t} /\ t \notin Waiters
    BY <1>0, <1>1, <1>7 DEF Waiters
  <2>2. IsFiniteSet(Waiters \cup {t}) /\ Cardinality(Waiters \cup {t}) = count + 1
    BY <1>0, <2>1, FS_AddElement DEF Tally
  <2> QED
    BY <1>2, <2>1, <2>2 DEF Tally
<1>9. Owed'
  <2>1. \A l \in Local : Members(l)' = Members(l)
    BY <1>0, <1>5 DEF Members, Local
  <2>2. \A l \in Local : /\ Has(stack', Last(l)) <=> Has(stack, Last(l))
                         /\ Has(stack', Loop(l)) <=> Has(stack, Loop(l))
    BY <1>4, FramesDiffer
  <2> QED
    BY <1>0, <1>2, <2>1, <2>2 DEF Owed
<1>10. Suspended'
  BY <1>0, <1>1, <1>2, <1>4, <1>7 DEF Suspended
<1>11. due' \in [Local -> SUBSET Node]
  BY <1>0, <1>2
<1> QED
  BY <1>3, <1>4, <1>6, <1>8, <1>9, <1>10, <1>11 DEF NotifyInv

\* Context::interrupt: a waiting task is taken out of whatever list it is in, also
\* out of the round of a wake_all, and resumed.
LEMMA NotifyCancelInv ==
  ASSUME NotifyInv, NEW t \in Node \cup {Main}, NEW u \in Node, Cancel(t, u)
  PROVE  NotifyInv'
<1>0. /\ ListInv /\ StackSound(stack) /\ Owed /\ due \in [Local -> SUBSET Node] /\ Local \subseteq List
  BY DEF NotifyInv, Local
<1>1. CASE Linked(u)
  <2>1. Unlink(u) /\ Resume(u, stack) /\ due' = [l \in Local |-> due[l] \ {u}] /\ started' = started
    BY <1>1 DEF Cancel, NotDue
  <2>2. ListInv' /\ \E l \in List : \E k \in 1..Len(items[l]) : u = items[l][k] /\ Left(l, k)
    BY <1>0, <2>1, UnlinkInv
  <2>3. PICK l \in List : \E k \in 1..Len(items[l]) : u = items[l][k] /\ Left(l, k)
    BY <2>2
  <2>4. PICK k \in 1..Len(items[l]) : u = items[l][k] /\ Left(l, k)
    BY <2>3
  <2>5. \A m \in List : m # l => u \notin Members(m)
    BY <2>4, LeftEffect
  <2>6. \A m \in Local : due'[m] = IF m = l THEN due[m] \ {u} ELSE due[m]
    BY <1>0, <2>1, <2>5 DEF Owed
  <2>7. due' \in [Local -> SUBSET Node]
    BY <1>0, <2>1
  <2>8. \A m \in Local : Has(stack, Last(m)) => due'[m] = {}
    BY <1>0, <2>6 DEF Owed
  <2> QED
    BY <1>0, <2>1, <2>2, <2>4, <2>6, <2>7, <2>8, ResumeInv
<1>2. CASE ~Linked(u)
  BY <1>2, StutterInv DEF Cancel, lvars
<1> QED
  BY <1>1, <1>2

\* wake_one
LEMMA WakeOneInv ==
  ASSUME NotifyInv, NEW t \in Node \cup {Main}, WakeOne(t)
  PROVE  NotifyInv'
<1>0. /\ ListInv /\ StackSound(stack) /\ Owed /\ due \in [Local -> SUBSET Node] /\ Self \in List
      /\ Self \notin Local
  BY NotifyAssumption DEF NotifyInv, Local
<1>1. /\ PopFront(Self) /\ UNCHANGED <<started, due>>
      /\ IF IsEmpty(Self) THEN UNCHANGED <<stack, count>> ELSE Resume(next[Self], stack)
  BY DEF WakeOne, Head_
<1>2. /\ ListInv'
      /\ IF IsEmpty(Self) THEN UNCHANGED <<prev, next, items>>
         ELSE 1 \in 1..Len(items[Self]) /\ next[Self] = items[Self][1] /\ Left(Self, 1)
  BY <1>0, <1>1, PopFrontInv
<1>3. CASE IsEmpty(Self)
  BY <1>1, <1>2, <1>3, StutterInv
<1>4. CASE ~IsEmpty(Self)
  <2>1. PICK u : u = items[Self][1]
    OBVIOUS
  <2>2. Resume(u, stack) /\ Left(Self, 1) /\ 1 \in 1..Len(items[Self])
    BY <1>1, <1>2, <1>4, <2>1
  <2>3. \A m \in Local : due'[m] = IF m = Self THEN due[m] \ {u} ELSE due[m]
    BY <1>0, <1>1
  <2>4. \A m \in Local : Has(stack, Last(m)) => due'[m] = {}
    BY <1>0, <1>1 DEF Owed
  <2> QED
    BY <1>0, <1>1, <1>2, <2>1, <2>2, <2>3, <2>4, ResumeInv
<1> QED
  BY <1>3, <1>4

\* wake_all, and close: all who wait go to a list of their own, and are due.
LEMMA WakeAllInv ==
  ASSUME NotifyInv, NEW t \in Node \cup {Main}, NEW closing, WakeAll(t, closing)
  PROVE  NotifyInv'
<1>0. /\ ListInv /\ StackSound(stack) /\ Owed /\ Suspended /\ Tally /\ Self \in List
      /\ due \in [Local -> SUBSET Node] /\ Self \notin Local /\ Local \subseteq List
      /\ \A l \in List : Pinned(l) /\ l \in Base
  BY NotifyAssumption DEF NotifyInv, Local, Base
<1>1. PICK l \in Local :
        /\ Fresh(l) /\ MoveElements(Self, l)
        /\ due' = [due EXCEPT ![l] = {items[Self][i] : i \in 1..Len(items[Self])}]
        /\ stack' = <<Loop(l)>> \o stack
  BY DEF WakeAll
<1>2. UNCHANGED <<count, started>>
  BY DEF WakeAll
<1>3. l # Self /\ l \in List /\ ~Has(stack, Loop(l)) /\ ~Has(stack, Last(l))
  <2>1. l \in Local /\ \A i \in 1..Len(stack) : stack[i].list # l
    BY <1>1 DEF Fresh, InUse
  <2>2. ~Has(stack, Loop(l)) /\ ~Has(stack, Last(l))
    BY <2>1, FramesDiffer DEF Has
  <2> QED
    BY <1>0, <2>1, <2>2
<1>4. StackSound(stack') /\ \A g : Has(stack', g) <=> g = Loop(l) \/ Has(stack, g)
  <2>1. Loop(l) \in Frame /\ Loop(l).op # "run"
    BY FramesDiffer DEF Frame
  <2> QED
    BY <1>0, <1>1, <2>1, PushSound
<1>5. Members(Self) \subseteq Node /\ Members(l) = {}
  <2>1. items[Self] \in Seq(Node)
    BY <1>0 DEF ListInv, ListTypeOK
  <2>2. \A i \in 1..Len(items[Self]) : items[Self][i] \in Node
    BY <2>1
  <2>3. Members(Self) \subseteq Node
    BY <2>2 DEF Members
  <2>4. due[l] = {} /\ due[l] = Members(l)
    BY <1>0, <1>3 DEF Owed
  <2> QED
    BY <2>3, <2>4
<1>6. due'[l] = Members(Self) /\ \A m \in Local : m # l => due'[m] = due[m]
  BY <1>0, <1>1 DEF Members
<1>7. due' \in [Local -> SUBSET Node]
  BY <1>0, <1>1, <1>5 DEF Members
<1>8. /\ ListInv' /\ \A y \in Base : Linked(y)' <=> Linked(y)
      /\ Members(l)' = Members(Self)
      /\ \A m \in Local : m # l => Members(m)' = Members(m)
  <2>1. CASE IsEmpty(Self)
    <3>1. UNCHANGED <<prev, next, items>>
      BY <1>1, <2>1 DEF MoveElements
    <3>2. items[Self] = <<>>
      BY <1>0, <2>1, Ends
    <3>3. Members(Self) = {}
      BY <3>2 DEF Members
    <3> QED
      BY <1>0, <1>5, <3>1, <3>3, SameInv DEF Linked, Members
  <2>2. CASE ~IsEmpty(Self)
    <3>1. /\ ListInv' /\ \A y \in Base : Linked(y)' <=> Linked(y)
          /\ items' = [items EXCEPT ![l] = items[Self], ![Self] = <<>>]
      BY <1>0, <1>1, <1>3, <2>2, MoveInv
    <3>2. items'[l] = items[Self] /\ \A m \in Local : m # l => items'[m] = items[m]
      BY <1>0, <1>3, <3>1 DEF ListInv, ListTypeOK
    <3> QED
      BY <3>1, <3>2 DEF Members
  <2> QED
    BY <2>1, <2>2
<1>9. \A m \in List : Pinned(m)'
  BY <1>0, <1>8 DEF Pinned
<1>10. Waiters' = Waiters
  BY <1>8 DEF Waiters, Base
<1>11. Tally'
  BY <1>0, <1>2, <1>10 DEF Tally
<1>12. Suspended'
  BY <1>0, <1>2, <1>4, <1>8, FramesDiffer DEF Suspended, Base
<1>13. Owed'
  <2>1. SUFFICES ASSUME NEW m \in Local
                 PROVE  /\ due'[m] = Members(m)'
                        /\ ~Has(stack', Loop(m)) /\ ~Has(stack', Last(m)) => due'[m] = {}
                        /\ Has(stack', Last(m)) => due'[m] = {}
    BY DEF Owed
  <2>2. CASE m = l
    BY <1>3, <1>4, <1>6, <1>8, <2>2, FramesDiffer
  <2>3. CASE m # l
    BY <1>0, <1>4, <1>6, <1>8, <2>3, FramesDiffer DEF Owed
  <2> QED
    BY <2>2, <2>3
<1> QED
  BY <1>4, <1>7, <1>8, <1>9, <1>11, <1>12, <1>13 DEF NotifyInv

\* A round of wake_all: the node that was the last leaves the list empty, so that
\* the loop owes nothing once it is resumed.
LEMMA WakeNextInv ==
  ASSUME NotifyInv, WakeNext
  PROVE  NotifyInv'
<1>0. /\ ListInv /\ StackSound(stack) /\ Owed /\ due \in [Local -> SUBSET Node] /\ Local \subseteq List
      /\ stack \in Seq(Frame) /\ 1 \in 1..Len(stack) /\ \A l \in List : Pinned(l)
  BY DEF NotifyInv, Local, StackSound
<1>1. stack[1] \in Frame /\ stack[1].op = "loop"
  BY <1>0 DEF WakeNext
<1>2. PICK l \in Local : stack[1] = Loop(l)
  BY <1>1, FramesDiffer DEF Frame
<1>3. l = stack[1].list /\ l \in List /\ stack[1] # Run(Main)
  BY <1>0, <1>2, FramesDiffer
<1>4. PICK u : u = next[l]
  OBVIOUS
<1>5. PICK f : f = IF next[u] = l THEN Last(l) ELSE Loop(l)
  OBVIOUS
<1>6. /\ ~IsEmpty(l) /\ PopFront(l) /\ Resume(u, <<f>> \o Tail(stack))
      /\ due' = [due EXCEPT ![l] = @ \ {u}] /\ UNCHANGED started
  BY <1>3, <1>4, <1>5 DEF WakeNext, Head_
<1>7. ListInv' /\ 1 \in 1..Len(items[l]) /\ u = items[l][1] /\ Left(l, 1)
  BY <1>0, <1>3, <1>4, <1>6, PopFrontInv
<1>8. /\ StackSound(Tail(stack))
      /\ \A g : Has(stack, g) <=> g = Loop(l) \/ Has(Tail(stack), g)
  BY <1>0, <1>2, <1>3, PopSound
<1>9. PICK below : below = <<f>> \o Tail(stack)
  OBVIOUS
<1>10. StackSound(below) /\ \A g : Has(below, g) <=> g = f \/ Has(Tail(stack), g)
  <2>1. f \in Frame /\ f.op # "run"
    BY <1>5, FramesDiffer DEF Frame
  <2> QED
    BY <1>8, <1>9, <2>1, PushSound
<1>11. due' \in [Local -> SUBSET Node] /\ \A m \in Local : due'[m] = IF m = l THEN due[m] \ {u} ELSE due[m]
  BY <1>0, <1>6
<1>12. next[u] = l => due'[l] = {}
  <2>1. SUFFICES ASSUME next[u] = l PROVE due'[l] = {}
    OBVIOUS
  <2>2. items[l] \in Seq(Node) /\ Spells(l) /\ Len(items[l]) \in Nat /\ l \notin Node
    BY <1>0, <1>3, Ends, PointersAssumption
  <2>3. Len(items[l]) = 1
    <3>1. SUFFICES ASSUME Len(items[l]) # 1 PROVE FALSE
      OBVIOUS
    <3>2. 1 + 1 \in 1..Len(items[l])
      <4>1. \A n \in Nat : 1 \in 1..n /\ n # 1 => 1 + 1 \in 1..n
        OBVIOUS
      <4> QED
        BY <1>7, <2>2, <3>1, <4>1
    <3>3. items[l][1 + 1] \in Node /\ next[u] = items[l][1 + 1]
      BY <1>7, <2>2, <3>1, <3>2 DEF Spells
    <3> QED
      BY <2>1, <2>2, <3>3
  <2>4. \A i \in 1..Len(items[l]) : items[l][i] = u
    BY <1>7, <2>3
  <2> QED
    BY <1>0, <1>11, <2>4 DEF Owed, Members
<1>13. \A v \in Node : Has(below, Run(v)) <=> Has(stack, Run(v))
  BY <1>5, <1>8, <1>10, FramesDiffer
<1>14. \A m \in Local : (Has(stack, Loop(m)) \/ Has(stack, Last(m))) => (Has(below, Loop(m)) \/ Has(below, Last(m)))
  BY <1>5, <1>8, <1>10, FramesDiffer
<1>15. \A m \in Local : Has(below, Last(m)) => due'[m] = {}
  <2>1. SUFFICES ASSUME NEW m \in Local, Has(below, Last(m)) PROVE due'[m] = {}
    OBVIOUS
  <2>2. CASE Has(stack, Last(m))
    BY <1>0, <1>11, <2>2 DEF Owed
  <2>3. CASE ~Has(stack, Last(m))
    <3>1. f = Last(m)
      BY <1>8, <1>10, <2>1, <2>3
    <3>2. next[u] = l /\ m = l
      BY <1>5, <3>1, FramesDiffer
    <3> QED
      BY <1>12, <3>2
  <2> QED
    BY <2>2, <2>3
<1> QED
  BY <1>3, <1>6, <1>7, <1>9, <1>10, <1>11, <1>13, <1>14, <1>15, ResumeInv

\* The initial state: every list is pinned and empty, and Main runs alone.
LEMMA NotifyInitInv == NotifyInit => NotifyInv
<1> SUFFICES ASSUME NotifyInit PROVE NotifyInv
  OBVIOUS
<1>0. /\ prev = [x \in Base |-> IF x \in List THEN x ELSE Nil] /\ next = prev
      /\ items = [l \in List |-> <<>>] /\ count = 0 /\ started = {}
      /\ stack = <<Run(Main)>> /\ due = [l \in Local |-> {}]
      /\ Nil \notin Base /\ List \subseteq Base /\ Node \subseteq Base /\ Node \cap List = {} /\ Local \subseteq List
      /\ Main \notin Node
  BY PointersAssumption, NotifyAssumption DEF NotifyInit, Base, Local
<1>1. \A l \in List : items[l] = <<>> /\ Len(items[l]) = 0 /\ prev[l] = l /\ next[l] = l /\ Pinned(l)
  BY <1>0 DEF Pinned, Linked
<1>2. \A x \in Node : ~Linked(x)
  BY <1>0 DEF Linked
<1>3. ListInv
  <2>1. <<>> \in Seq(Node)
    OBVIOUS
  <2>2. ListTypeOK
    BY <1>0, <2>1 DEF ListTypeOK
  <2>3. \A l \in List : Spells(l)
    BY <1>1 DEF Spells
  <2>4. PinnedFirst /\ Apart /\ Found
    BY <1>1, <1>2 DEF PinnedFirst, Apart, Found
  <2> QED
    BY <2>2, <2>3, <2>4 DEF ListInv
<1>4. StackSound(stack) /\ \A g : Has(stack, g) <=> g = Run(Main)
  <2>1. Len(stack) = 1 /\ stack[1] = Run(Main) /\ Run(Main) \in Frame
    BY <1>0 DEF Frame
  <2>2. stack \in Seq(Frame)
    BY <1>0, <2>1
  <2>3. \A i \in 1..Len(stack) : i = 1
    BY <2>1
  <2>4. 1 \in 1..Len(stack)
    BY <2>1
  <2> QED
    BY <2>1, <2>2, <2>3, <2>4 DEF StackSound, RunsOnce, Has
<1>5. Owed
  BY <1>0, <1>1 DEF Owed, Members
<1>6. Suspended
  BY <1>0, <1>2, <1>4, FramesDiffer DEF Suspended
<1>7. Tally
  <2>1. Waiters = {}
    BY <1>2 DEF Waiters
  <2> QED
    BY <1>0, <2>1, FS_EmptySet DEF Tally
<1>8. due \in [Local -> SUBSET Node]
  BY <1>0
<1> QED
  BY <1>1, <1>3, <1>4, <1>5, <1>6, <1>7, <1>8 DEF NotifyInv

\* Every step of the thread keeps the invariant.
LEMMA NotifyNextInv == NotifyInv /\ [NotifyNext]_allvars => NotifyInv'
<1> SUFFICES ASSUME NotifyInv, [NotifyNext]_allvars PROVE NotifyInv'
  OBVIOUS
<1>1. ASSUME NEW t \in Node \cup {Main}, ClearInterrupt(t) PROVE NotifyInv'
  BY <1>1, StutterInv DEF ClearInterrupt, lvars
<1>2. CASE UNCHANGED allvars
  BY <1>2, StutterInv DEF allvars, lvars, nvars
<1> QED
  BY <1>1, <1>2, EndInv, NotifyWaitInv, WakeOneInv, SpawnInv, NotifyCancelInv, WakeAllInv, WakeNextInv,
     WakeReturnInv DEF NotifyNext

\* For any tasks, lists and depth of nesting, Main stays at the bottom of the stack,
\* and a notify resumes exactly the tasks that waited when it was called and were not
\* cancelled since, whatever the tasks it resumes do to the list; the count it returns
\* is the number of suspended waiters, and no node of a task that runs is linked.
THEOREM NotifyCorrect == NotifySpec => [](stack # <<>> /\ NotifyExact)
<1>1. NotifySpec => []NotifyInv
  BY NotifyInitInv, NotifyNextInv, PTL DEF NotifySpec
<1> QED
  BY <1>1, NotifyInvExact, PTL
-----------------------------------------------------------------------------
(* Oneshot: who has which request, and where the value is *)

SndPc == {"idle", "wait", "send", "sent", "back", "drop", "drop2", "gone"}
RcvPc == {"idle", "wait", "try", "got", "none", "close", "close2", "drop", "drop2", "gone"}
Held == {"check", "handoff", "parked"}
Apc == {"idle", "unlinked", "ending", "complete"} \cup Held

OneshotTypeOK ==
    /\ sent \in BOOLEAN
    /\ pc \in [Side -> SndPc \cup RcvPc] /\ pc[Snd] \in SndPc /\ pc[Rcv] \in RcvPc
    /\ apc \in [Side -> Apc]
    /\ held \in [Side -> Side \cup {Null, Closed}]
    /\ error \in [Side -> {"None"}]
    /\ ares \in [Side -> {"None", "Ok", "Cancelled", "Closed"}]
    /\ sendResult \in {"None", "Ok", "Err"}
    /\ recvResult \in {"None", "Ok", "Closed", "Empty"}
    /\ reads \in {<<>>, <<Snd>>, <<Rcv>>}

\* The waiter of s: its request is in the slot or with o, who took it out to close
\* the waiter, as long as s waits and was not completed.
Slotted(slot, s, o) ==
    /\ slot \in {Null, Closed, s}
    /\ slot = s => ares[s] = "None" /\ held[s] = Null /\ apc[s] \in Held
    /\ held[o] = s => slot = Closed /\ ares[s] = "None" /\ held[s] = Null /\ apc[s] \in Held
    /\ held[s] = Closed => slot = Closed
    /\ apc[s] \in Held /\ held[s] = Null /\ ares[s] = "None" => slot = s \/ held[o] = s

\* What a side has in its hands, where it is.
Hands(s, o) ==
    /\ held[s] \in {Null, Closed, o}
    /\ held[s] = Closed => apc[s] \in {"check", "handoff"} /\ ares[s] = "None"
    /\ held[s] = o <=> apc[s] = "complete"
    /\ apc[s] \in {"idle", "parked", "unlinked", "complete"} => ares[s] = "None"
    /\ apc[s] \notin {"idle", "complete"} => pc[s] = "wait"

\* What is closed by the time a side is somewhere.
ClosedBy ==
    /\ apc[Snd] = "complete" => pc[Snd] \in {"send", "drop2"}
    /\ apc[Rcv] = "complete" => pc[Rcv] \in {"got", "close", "drop"}
    /\ pc[Snd] \in {"sent", "back", "gone"} => rx = Closed
    /\ pc[Snd] \in {"back", "drop2", "gone"} => tx = Closed
    /\ pc[Rcv] \in {"close2", "drop2", "gone"} => tx = Closed

\* Where the value is: with the sender, in the channel, or taken by one side.
Unsent == ~sent /\ reads = <<>>
Passed == IF sent THEN reads = <<>> ELSE reads = <<Rcv>>

ValuePlace ==
    /\ pc[Snd] \in {"idle", "wait"} => sendResult = "None" /\ Unsent
    /\ pc[Snd] \in {"send", "sent", "back"} => sendResult = "None" /\ Passed
    /\ pc[Snd] \in {"drop", "drop2", "gone"} /\ sendResult = "None" => Unsent
    /\ sendResult = "Ok" => Passed
    /\ sendResult = "Err" => ~sent /\ reads = <<Snd>>
    /\ recvResult = "Ok" => reads = <<Rcv>>
    /\ pc[Rcv] = "gone" /\ sent => pc[Snd] \in {"send", "sent", "back"}

OneshotInv ==
    /\ OneshotTypeOK /\ Slotted(tx, Snd, Rcv) /\ Slotted(rx, Rcv, Snd)
    /\ Hands(Snd, Rcv) /\ Hands(Rcv, Snd) /\ ClosedBy /\ ValuePlace

\* The two sides.
LEMMA Sides ==
  /\ Side = {Snd, Rcv} /\ Snd # Rcv /\ Snd \in Side /\ Rcv \in Side
  /\ Null \notin Side /\ Closed \notin Side /\ Null # Closed
  BY NamesAssumption DEF Side

\* The steps of a wait of s: where it goes, what it has in its hands, its result, and
\* its slot before and after.
WaitSteps(s, a, b, p, h, r) ==
    \/ apc[s] = "idle" /\ p = "check" /\ h = a /\ r = ares[s] /\ b = IF a = Closed THEN Closed ELSE s
    \/ apc[s] = "check" /\ p = "handoff" /\ h = held[s] /\ r = ares[s] /\ b = a
    \/ /\ apc[s] = "handoff" /\ h = Null /\ r = IF held[s] = Closed THEN "Closed" ELSE ares[s]
       /\ p = IF r = "None" THEN "parked" ELSE "ending"
       /\ b = a
    \/ apc[s] = "parked" /\ a = s /\ b = Null /\ p = "unlinked" /\ h = held[s] /\ r = ares[s]
    \/ apc[s] = "unlinked" /\ p = "ending" /\ h = held[s] /\ r = "Cancelled" /\ b = a
    \/ apc[s] = "ending" /\ p = "idle" /\ h = held[s] /\ r = "None" /\ b = a

WaitStepped(s, a, b) ==
    \E p, h, r :
        /\ apc' = [apc EXCEPT ![s] = p] /\ held' = [held EXCEPT ![s] = h] /\ ares' = [ares EXCEPT ![s] = r]
        /\ WaitSteps(s, a, b, p, h, r)

\* A side waits on its own waiter: one of the steps of wait_thread_safe, or of its
\* cancel, takes its slot from a to b.
LEMMA WaitMoves ==
  ASSUME OneshotTypeOK, NEW s \in Side, NEW o \in Side, s # o, NEW a, NEW b, NEW c,
         Slotted(a, s, o), Slotted(c, o, s), Hands(s, o), Hands(o, s),
         NEW p, NEW h, NEW r, apc' = [apc EXCEPT ![s] = p], held' = [held EXCEPT ![s] = h],
         ares' = [ares EXCEPT ![s] = r], pc'[o] = pc[o], p \notin {"idle", "complete"} => pc'[s] = "wait",
         WaitSteps(s, a, b, p, h, r)
  PROVE  /\ Slotted(b, s, o)' /\ Slotted(c, o, s)' /\ Hands(s, o)' /\ Hands(o, s)'
         /\ apc' \in [Side -> Apc] /\ held' \in [Side -> Side \cup {Null, Closed}]
         /\ ares' \in [Side -> {"None", "Ok", "Cancelled", "Closed"}]
<1>0. /\ apc \in [Side -> Apc] /\ held \in [Side -> Side \cup {Null, Closed}]
      /\ ares \in [Side -> {"None", "Ok", "Cancelled", "Closed"}]
      /\ s # Null /\ s # Closed /\ o # Null /\ o # Closed /\ Null # Closed
  BY Sides DEF OneshotTypeOK
<1>1. /\ apc'[s] = p /\ apc'[o] = apc[o] /\ held'[s] = h /\ held'[o] = held[o]
      /\ ares'[s] = r /\ ares'[o] = ares[o]
  BY <1>0
<1>2. /\ p \in Apc /\ h \in {Null, Closed} /\ r \in {"None", "Ok", "Cancelled", "Closed"}
  BY <1>0 DEF Apc, Held, Slotted, Hands, WaitSteps
<1>3. apc' \in [Side -> Apc]
  BY <1>0, <1>2
<1>4. held' \in [Side -> Side \cup {Null, Closed}]
  BY <1>0, <1>2
<1>5. ares' \in [Side -> {"None", "Ok", "Cancelled", "Closed"}]
  BY <1>0, <1>2
<1>6. Slotted(b, s, o)'
  BY <1>0, <1>1, <1>2 DEF Slotted, Hands, Held, Apc, WaitSteps
<1>7. Slotted(c, o, s)'
  BY <1>0, <1>1, <1>2 DEF Slotted, Hands, Held, Apc, WaitSteps
<1>8. Hands(s, o)'
  BY <1>0, <1>1, <1>2 DEF Slotted, Hands, Held, Apc, WaitSteps
<1>9. Hands(o, s)'
  BY <1>0, <1>1, <1>2 DEF Hands
<1> QED
  BY <1>3, <1>4, <1>5, <1>6, <1>7, <1>8, <1>9

\* A side closes the other's waiter, whose slot goes from a to b: it takes a request
\* out, or completes the one it took.
LEMMA CloseMoves ==
  ASSUME OneshotTypeOK, NEW s \in Side, NEW o \in Side, s # o, NEW a, NEW b, NEW c,
         Slotted(a, o, s), Slotted(c, s, o), Hands(s, o), Hands(o, s),
         pc'[o] = pc[o], pc[s] # "wait",
         \/ /\ apc[s] = "idle" /\ b = Closed
            /\ held' = [held EXCEPT ![s] = IF a \in Side THEN a ELSE Null]
            /\ apc' = [apc EXCEPT ![s] = IF a \in Side THEN "complete" ELSE "idle"]
            /\ ares' = ares
         \/ /\ apc[s] = "complete" /\ b = a
            /\ ares' = [ares EXCEPT ![held[s]] = "Ok"]
            /\ apc' = [apc EXCEPT ![s] = "idle", ![held[s]] = IF @ = "parked" THEN "ending" ELSE @]
            /\ held' = [held EXCEPT ![s] = Null]
  PROVE  /\ Slotted(b, o, s)' /\ Slotted(c, s, o)' /\ Hands(s, o)' /\ Hands(o, s)'
         /\ apc' \in [Side -> Apc] /\ held' \in [Side -> Side \cup {Null, Closed}]
         /\ ares' \in [Side -> {"None", "Ok", "Cancelled", "Closed"}]
         /\ apc'[s] \in {"idle", "complete"} /\ b = Closed /\ (apc'[o] = "complete" => apc[o] = "complete")
<1>0. /\ apc \in [Side -> Apc] /\ held \in [Side -> Side \cup {Null, Closed}]
      /\ ares \in [Side -> {"None", "Ok", "Cancelled", "Closed"}]
      /\ s # Null /\ s # Closed /\ o # Null /\ o # Closed /\ Null # Closed
      /\ Side = {s, o} /\ Null \notin Side /\ Closed \notin Side
  BY Sides DEF OneshotTypeOK
<1>1. CASE apc[s] = "idle"
  <2>1. /\ b = Closed /\ ares' = ares /\ held' = [held EXCEPT ![s] = IF a \in Side THEN a ELSE Null]
        /\ apc' = [apc EXCEPT ![s] = IF a \in Side THEN "complete" ELSE "idle"]
    BY <1>1
  <2>2. a \in {Null, Closed, o} /\ (a \in Side <=> a = o)
    BY <1>0 DEF Slotted
  <2>3. /\ held'[s] = (IF a = o THEN o ELSE Null) /\ held'[o] = held[o]
        /\ apc'[s] = (IF a = o THEN "complete" ELSE "idle") /\ apc'[o] = apc[o]
        /\ ares'[s] = ares[s] /\ ares'[o] = ares[o]
    BY <1>0, <2>1, <2>2
  <2>4. apc' \in [Side -> Apc]
    BY <1>0, <2>1 DEF Apc
  <2>5. held' \in [Side -> Side \cup {Null, Closed}]
    BY <1>0, <2>1
  <2>6. Slotted(b, o, s)' /\ Slotted(c, s, o)'
    BY <1>0, <1>1, <2>1, <2>2, <2>3 DEF Slotted, Hands, Held, Apc
  <2>7. Hands(s, o)' /\ Hands(o, s)'
    BY <1>0, <1>1, <2>1, <2>2, <2>3 DEF Slotted, Hands, Held, Apc
  <2> QED
    BY <1>0, <2>1, <2>3, <2>4, <2>5, <2>6, <2>7
<1>2. CASE apc[s] = "complete"
  <2>1. held[s] = o
    BY <1>2 DEF Hands
  <2>2. /\ b = a /\ ares' = [ares EXCEPT ![o] = "Ok"] /\ held' = [held EXCEPT ![s] = Null]
        /\ apc' = [apc EXCEPT ![s] = "idle", ![o] = IF @ = "parked" THEN "ending" ELSE @]
    BY <1>2, <2>1
  <2>3. /\ held'[s] = Null /\ held'[o] = held[o]
        /\ apc'[s] = "idle" /\ apc'[o] = (IF apc[o] = "parked" THEN "ending" ELSE apc[o])
        /\ ares'[s] = ares[s] /\ ares'[o] = "Ok"
    BY <1>0, <2>2
  <2>4. apc' \in [Side -> Apc]
    BY <1>0, <2>2 DEF Apc
  <2>5. held' \in [Side -> Side \cup {Null, Closed}] /\ ares' \in [Side -> {"None", "Ok", "Cancelled", "Closed"}]
    BY <1>0, <2>2
  <2>6. a = Closed /\ held[o] = Null /\ apc[o] \in Held
    BY <2>1 DEF Slotted
  <2>7. Slotted(b, o, s)' /\ Slotted(c, s, o)'
    BY <1>0, <1>2, <2>2, <2>3, <2>6 DEF Slotted, Hands, Held, Apc
  <2>8. Hands(s, o)' /\ Hands(o, s)'
    BY <1>0, <1>2, <2>2, <2>3, <2>6 DEF Slotted, Hands, Held, Apc
  <2> QED
    BY <1>0, <2>2, <2>3, <2>4, <2>5, <2>6, <2>7, <2>8 DEF Held
<1> QED
  BY <1>1, <1>2

\* Where a side is not inside a waiter.
LEMMA IdleAt ==
  ASSUME OneshotInv
  PROVE  /\ pc[Snd] \in {"idle", "sent", "back", "drop", "gone"} => apc[Snd] = "idle"
         /\ pc[Rcv] \in {"idle", "try", "none", "close2", "drop2", "gone"} => apc[Rcv] = "idle"
<1>1. Hands(Snd, Rcv) /\ Hands(Rcv, Snd) /\ ClosedBy
  BY DEF OneshotInv
<1> QED
  BY <1>1 DEF Hands, ClosedBy

\* A step outside the waiters.
LEMMA OutsideInv ==
  ASSUME OneshotInv, NEW s \in Side, NEW at, pc' = [pc EXCEPT ![s] = at], at \in SndPc \cup RcvPc,
         apc[s] = "idle", UNCHANGED <<tx, rx, apc, held, error, ares>>,
         pc'[Snd] \in SndPc /\ pc'[Rcv] \in RcvPc,
         sent' \in BOOLEAN, sendResult' \in {"None", "Ok", "Err"},
         recvResult' \in {"None", "Ok", "Closed", "Empty"}, reads' \in {<<>>, <<Snd>>, <<Rcv>>},
         ClosedBy', ValuePlace'
  PROVE  OneshotInv'
<1>0. /\ OneshotTypeOK /\ Slotted(tx, Snd, Rcv) /\ Slotted(rx, Rcv, Snd) /\ Hands(Snd, Rcv) /\ Hands(Rcv, Snd)
  BY DEF OneshotInv
<1>1. OneshotTypeOK'
  BY <1>0 DEF OneshotTypeOK
<1>2. Slotted(tx, Snd, Rcv)' /\ Slotted(rx, Rcv, Snd)'
  BY <1>0 DEF Slotted
<1>3. Hands(Snd, Rcv)' /\ Hands(Rcv, Snd)'
  <2>1. \A u \in Side : u # s => pc'[u] = pc[u]
    BY <1>0 DEF OneshotTypeOK
  <2> QED
    BY <1>0, <2>1, Sides DEF Hands
<1> QED
  BY <1>1, <1>2, <1>3 DEF OneshotInv

\* What the invariant says of the positions, for the steps of one side.
LEMMA Moves ==
  ASSUME OneshotInv, NEW s \in Side, NEW at, pc' = [pc EXCEPT ![s] = at]
  PROVE  pc'[s] = at /\ \A u \in Side : u # s => pc'[u] = pc[u]
  BY DEF OneshotInv, OneshotTypeOK

\* The sender begins to wait, or is dropped without a send.
LEMMA SenderBeginsInv ==
  ASSUME OneshotInv, pc[Snd] = "idle", NEW at \in {"wait", "drop"}, Jump(Snd, at),
         UNCHANGED <<sent, tx, rx, apc, held, error, ares, sendResult, recvResult, reads>>
  PROVE  OneshotInv'
<1>0. OneshotTypeOK /\ ClosedBy /\ ValuePlace /\ apc[Snd] = "idle"
  BY IdleAt DEF OneshotInv
<1>1. pc' = [pc EXCEPT ![Snd] = at] /\ pc'[Snd] = at /\ pc'[Rcv] = pc[Rcv]
  BY Moves, Sides DEF Jump
<1>2. ClosedBy'
  BY <1>0, <1>1 DEF ClosedBy
<1>3. ValuePlace'
  BY <1>0, <1>1 DEF ValuePlace, Unsent
<1>4. at \in SndPc /\ pc'[Rcv] \in RcvPc /\ sent' \in BOOLEAN /\ sendResult' \in {"None", "Ok", "Err"}
  BY <1>0, <1>1 DEF OneshotTypeOK, SndPc
<1>5. recvResult' \in {"None", "Ok", "Closed", "Empty"} /\ reads' \in {<<>>, <<Snd>>, <<Rcv>>}
  BY <1>0 DEF OneshotTypeOK
<1> QED
  BY <1>0, <1>1, <1>2, <1>3, <1>4, <1>5, OutsideInv, Sides

\* send stores the flag.
LEMMA SendInv ==
  ASSUME OneshotInv, Send
  PROVE  OneshotInv'
<1>0. OneshotTypeOK /\ ClosedBy /\ ValuePlace /\ apc[Snd] = "idle" /\ pc[Snd] = "idle"
  BY IdleAt DEF OneshotInv, Send
<1>1. pc' = [pc EXCEPT ![Snd] = "send"] /\ pc'[Snd] = "send" /\ pc'[Rcv] = pc[Rcv]
  BY Moves, Sides DEF Jump, Send
<1>2. sent' = TRUE /\ UNCHANGED <<tx, rx, apc, held, error, ares, sendResult, recvResult, reads>>
  BY DEF Send, wvars, hvars
<1>3. ClosedBy'
  BY <1>0, <1>1, <1>2 DEF ClosedBy
<1>4. ValuePlace'
  BY <1>0, <1>1, <1>2 DEF ValuePlace, Unsent, Passed
<1>5. pc'[Rcv] \in RcvPc /\ sendResult' \in {"None", "Ok", "Err"}
  BY <1>0, <1>1, <1>2 DEF OneshotTypeOK
<1>6. recvResult' \in {"None", "Ok", "Closed", "Empty"} /\ reads' \in {<<>>, <<Snd>>, <<Rcv>>}
  BY <1>0, <1>2 DEF OneshotTypeOK
<1> QED
  BY <1>0, <1>1, <1>2, <1>3, <1>4, <1>5, <1>6, OutsideInv, Sides DEF SndPc

\* send looks whether the receiver has closed the channel.
LEMMA SendCheckInv ==
  ASSUME OneshotInv, SendCheck
  PROVE  OneshotInv'
<1>0. OneshotTypeOK /\ ClosedBy /\ ValuePlace /\ apc[Snd] = "idle" /\ pc[Snd] = "sent"
  BY IdleAt DEF OneshotInv, SendCheck
<1>1. PICK at : at = IF tx = Closed THEN "back" ELSE "drop"
  OBVIOUS
<1>2. Jump(Snd, at)
  BY <1>1 DEF SendCheck
<1>3. pc' = [pc EXCEPT ![Snd] = at] /\ pc'[Snd] = at /\ pc'[Rcv] = pc[Rcv]
  BY <1>2, Moves, Sides DEF Jump
<1>4. /\ UNCHANGED <<sent, tx, rx, apc, held, error, ares, recvResult, reads>>
      /\ sendResult' = IF tx = Closed THEN sendResult ELSE "Ok"
  BY DEF SendCheck, wvars
<1>5. ClosedBy'
  BY <1>0, <1>1, <1>3, <1>4 DEF ClosedBy
<1>6. ValuePlace'
  <2>1. tx # Closed => pc[Rcv] # "gone"
    BY <1>0 DEF ClosedBy
  <2> QED
    BY <1>0, <1>1, <1>3, <1>4, <2>1 DEF ValuePlace, Unsent, Passed
<1>7. at \in SndPc /\ pc'[Rcv] \in RcvPc /\ sent' \in BOOLEAN /\ sendResult' \in {"None", "Ok", "Err"}
  BY <1>0, <1>1, <1>3, <1>4 DEF OneshotTypeOK, SndPc
<1>8. recvResult' \in {"None", "Ok", "Closed", "Empty"} /\ reads' \in {<<>>, <<Snd>>, <<Rcv>>}
  BY <1>0, <1>4 DEF OneshotTypeOK
<1> QED
  BY <1>0, <1>3, <1>4, <1>5, <1>6, <1>7, <1>8, OutsideInv, Sides

\* send takes the value back, if the receiver did not take it.
LEMMA SendBackInv ==
  ASSUME OneshotInv, SendBack
  PROVE  OneshotInv'
<1>0. OneshotTypeOK /\ ClosedBy /\ ValuePlace /\ apc[Snd] = "idle" /\ pc[Snd] = "back"
  BY IdleAt DEF OneshotInv, SendBack
<1>1. pc' = [pc EXCEPT ![Snd] = "drop"] /\ pc'[Snd] = "drop" /\ pc'[Rcv] = pc[Rcv]
  BY Moves, Sides DEF Jump, SendBack
<1>2. Passed /\ sendResult = "None"
  BY <1>0 DEF ValuePlace
<1>3. /\ UNCHANGED <<tx, rx, apc, held, error, ares, recvResult>> /\ sent' = FALSE
      /\ sendResult' = IF sent THEN "Err" ELSE "Ok"
      /\ reads' = IF sent THEN Append(reads, Snd) ELSE reads
  BY DEF SendBack, TryConsume, wvars
<1>4. reads' = IF sent THEN <<Snd>> ELSE <<Rcv>>
  <2>1. Append(<<>>, Snd) = <<Snd>>
    OBVIOUS
  <2> QED
    BY <1>2, <1>3, <2>1 DEF Passed
<1>5. recvResult = "Ok" => ~sent
  <2>1. <<Rcv>> # <<>>
    OBVIOUS
  <2> QED
    BY <1>0, <1>2, <2>1 DEF ValuePlace, Passed
<1>6. ClosedBy'
  BY <1>0, <1>1, <1>3 DEF ClosedBy
<1>7. ValuePlace'
  BY <1>0, <1>1, <1>3, <1>4, <1>5 DEF ValuePlace, Unsent, Passed
<1>8. pc'[Rcv] \in RcvPc /\ sent' \in BOOLEAN /\ sendResult' \in {"None", "Ok", "Err"}
      /\ recvResult' \in {"None", "Ok", "Closed", "Empty"} /\ reads' \in {<<>>, <<Snd>>, <<Rcv>>}
  BY <1>0, <1>1, <1>3, <1>4 DEF OneshotTypeOK
<1> QED
  BY <1>0, <1>1, <1>3, <1>6, <1>7, <1>8, OutsideInv, Sides DEF SndPc

\* The receiver begins a call.
LEMMA ReceiverBeginsInv ==
  ASSUME OneshotInv, pc[Rcv] = "idle", NEW at \in {"try", "wait", "close", "drop"}, Jump(Rcv, at),
         UNCHANGED <<sent, tx, rx, apc, held, error, ares, sendResult, recvResult, reads>>
  PROVE  OneshotInv'
<1>0. OneshotTypeOK /\ ClosedBy /\ ValuePlace /\ apc[Rcv] = "idle"
  BY IdleAt DEF OneshotInv
<1>1. pc' = [pc EXCEPT ![Rcv] = at] /\ pc'[Rcv] = at /\ pc'[Snd] = pc[Snd]
  BY Moves, Sides DEF Jump
<1>2. ClosedBy'
  BY <1>0, <1>1 DEF ClosedBy
<1>3. ValuePlace'
  BY <1>0, <1>1 DEF ValuePlace, Unsent, Passed
<1>4. at \in RcvPc /\ pc'[Snd] \in SndPc /\ sent' \in BOOLEAN /\ sendResult' \in {"None", "Ok", "Err"}
  BY <1>0, <1>1 DEF OneshotTypeOK, RcvPc
<1>5. recvResult' \in {"None", "Ok", "Closed", "Empty"} /\ reads' \in {<<>>, <<Snd>>, <<Rcv>>}
  BY <1>0 DEF OneshotTypeOK
<1> QED
  BY <1>0, <1>1, <1>2, <1>3, <1>4, <1>5, OutsideInv, Sides

\* The receiver swaps the flag, in try_recv or in its drop.
LEMMA ReceiverTakesInv ==
  ASSUME OneshotInv, TryConsume(Rcv), apc[Rcv] = "idle", NEW at \in {"got", "none", "gone"}, Jump(Rcv, at),
         at = "gone" => tx = Closed,
         UNCHANGED <<tx, rx, apc, held, error, ares, sendResult>>,
         recvResult' \in {recvResult, IF sent THEN "Ok" ELSE recvResult}
  PROVE  OneshotInv'
<1>0. OneshotTypeOK /\ ClosedBy /\ ValuePlace
  BY DEF OneshotInv
<1>1. pc' = [pc EXCEPT ![Rcv] = at] /\ pc'[Rcv] = at /\ pc'[Snd] = pc[Snd]
  BY Moves, Sides DEF Jump
<1>2. sent' = FALSE /\ reads' = IF sent THEN Append(reads, Rcv) ELSE reads
  BY DEF TryConsume
<1>3. <<Rcv>> # <<>> /\ <<Snd>> # <<>> /\ Append(<<>>, Rcv) = <<Rcv>>
  OBVIOUS
<1>4. sent => Passed /\ sendResult # "Err"
  BY <1>0 DEF ValuePlace, OneshotTypeOK, SndPc, Unsent
<1>5. sent => reads' = <<Rcv>> /\ reads = <<>>
  BY <1>2, <1>3, <1>4 DEF Passed
<1>6. ~sent => reads' = reads
  BY <1>2
<1>7. ClosedBy'
  BY <1>0, <1>1 DEF ClosedBy
<1>8. ValuePlace'
  <2>1. CASE sent
    <3>1. recvResult # "Ok"
      BY <1>0, <1>3, <1>5, <2>1 DEF ValuePlace
    <3> QED
      BY <1>0, <1>1, <1>2, <1>3, <1>5, <2>1, <3>1 DEF ValuePlace, Unsent, Passed
  <2>2. CASE ~sent
    BY <1>0, <1>1, <1>2, <1>6, <2>2 DEF ValuePlace, Unsent, Passed
  <2> QED
    BY <2>1, <2>2
<1>9. at \in RcvPc /\ pc'[Snd] \in SndPc /\ sent' \in BOOLEAN /\ sendResult' \in {"None", "Ok", "Err"}
  BY <1>0, <1>1, <1>2 DEF OneshotTypeOK, RcvPc
<1>10. recvResult' \in {"None", "Ok", "Closed", "Empty"} /\ reads' \in {<<>>, <<Snd>>, <<Rcv>>}
  BY <1>0, <1>5, <1>6 DEF OneshotTypeOK
<1> QED
  BY <1>0, <1>1, <1>7, <1>8, <1>9, <1>10, OutsideInv, Sides

\* try_recv found nothing.
LEMMA TryRecvNoneInv ==
  ASSUME OneshotInv, TryRecvNone
  PROVE  OneshotInv'
<1>0. OneshotTypeOK /\ ClosedBy /\ ValuePlace /\ apc[Rcv] = "idle" /\ pc[Rcv] = "none"
  BY IdleAt DEF OneshotInv, TryRecvNone
<1>1. pc' = [pc EXCEPT ![Rcv] = "idle"] /\ pc'[Rcv] = "idle" /\ pc'[Snd] = pc[Snd]
  BY Moves, Sides DEF Jump, TryRecvNone
<1>2. /\ UNCHANGED <<sent, tx, rx, apc, held, error, ares, sendResult, reads>>
      /\ recvResult' \in {"Ok", "Closed", "Empty"} /\ (recvResult' = "Ok" => recvResult = "Ok")
  BY DEF TryRecvNone, wvars
<1>3. ClosedBy'
  BY <1>0, <1>1, <1>2 DEF ClosedBy
<1>4. ValuePlace'
  BY <1>0, <1>1, <1>2 DEF ValuePlace, Unsent, Passed
<1>5. pc'[Snd] \in SndPc /\ sent' \in BOOLEAN /\ sendResult' \in {"None", "Ok", "Err"}
      /\ reads' \in {<<>>, <<Snd>>, <<Rcv>>}
  BY <1>0, <1>1, <1>2 DEF OneshotTypeOK
<1> QED
  BY <1>0, <1>1, <1>2, <1>3, <1>4, <1>5, OutsideInv, Sides DEF RcvPc

\* The receiver closes the sender's waiter: after a value, in close, in its drop.
LEMMA ReceiverClosesInv ==
  ASSUME OneshotInv, NEW was \in {"got", "close", "drop"}, NEW then \in {"idle", "close2", "drop2"},
         CloseTx(Rcv, was, then)
  PROVE  OneshotInv'
<1>0. /\ OneshotTypeOK /\ Slotted(tx, Snd, Rcv) /\ Slotted(rx, Rcv, Snd) /\ Hands(Snd, Rcv) /\ Hands(Rcv, Snd)
      /\ ClosedBy /\ ValuePlace /\ pc[Rcv] = was
  BY DEF OneshotInv, CloseTx
<1>1. /\ Tx!WakeInternal(Rcv, Closed) \/ Tx!WakeComplete(Rcv)
      /\ UNCHANGED <<sent, rx, sendResult, recvResult, reads>>
      /\ Jump(Rcv, IF apc'[Rcv] = "idle" THEN then ELSE was)
  BY DEF CloseTx, hvars
<1>2. PICK at : at = IF apc'[Rcv] = "idle" THEN then ELSE was
  OBVIOUS
<1>3. pc' = [pc EXCEPT ![Rcv] = at] /\ pc'[Rcv] = at /\ pc'[Snd] = pc[Snd]
  BY <1>1, <1>2, Moves, Sides DEF Jump
<1>4. PICK b : b = tx'
  OBVIOUS
<1>5. /\ error' = error
      /\ \/ /\ apc[Rcv] = "idle" /\ b = Closed
            /\ held' = [held EXCEPT ![Rcv] = IF tx \in Side THEN tx ELSE Null]
            /\ apc' = [apc EXCEPT ![Rcv] = IF tx \in Side THEN "complete" ELSE "idle"]
            /\ ares' = ares
         \/ /\ apc[Rcv] = "complete" /\ b = tx
            /\ ares' = [ares EXCEPT ![held[Rcv]] = "Ok"]
            /\ apc' = [apc EXCEPT ![Rcv] = "idle", ![held[Rcv]] = IF @ = "parked" THEN "ending" ELSE @]
            /\ held' = [held EXCEPT ![Rcv] = Null]
  BY <1>1, <1>4 DEF Tx!WakeInternal, Tx!WakeComplete, Tx!Finish
<1>6. pc[Rcv] # "wait"
  BY <1>0
<1>7. /\ Slotted(b, Snd, Rcv)' /\ Slotted(rx, Rcv, Snd)' /\ Hands(Rcv, Snd)' /\ Hands(Snd, Rcv)'
      /\ apc' \in [Side -> Apc] /\ held' \in [Side -> Side \cup {Null, Closed}]
      /\ ares' \in [Side -> {"None", "Ok", "Cancelled", "Closed"}]
      /\ apc'[Rcv] \in {"idle", "complete"} /\ b = Closed /\ (apc'[Snd] = "complete" => apc[Snd] = "complete")
  <2>1. PICK c : c = rx
    OBVIOUS
  <2>2. /\ Slotted(b, Snd, Rcv)' /\ Slotted(c, Rcv, Snd)' /\ Hands(Rcv, Snd)' /\ Hands(Snd, Rcv)'
        /\ apc' \in [Side -> Apc] /\ held' \in [Side -> Side \cup {Null, Closed}]
        /\ ares' \in [Side -> {"None", "Ok", "Cancelled", "Closed"}]
        /\ apc'[Rcv] \in {"idle", "complete"} /\ b = Closed /\ (apc'[Snd] = "complete" => apc[Snd] = "complete")
    BY <1>0, <1>3, <1>5, <1>6, <2>1, CloseMoves, Sides
  <2>3. Slotted(rx, Rcv, Snd)'
    BY <1>1, <2>1, <2>2 DEF Slotted
  <2> QED
    BY <2>2, <2>3
<1>8. Slotted(tx, Snd, Rcv)'
  BY <1>4, <1>7 DEF Slotted
<1>9. OneshotTypeOK'
  <2>1. at \in RcvPc
    BY <1>2 DEF RcvPc
  <2> QED
    BY <1>0, <1>1, <1>3, <1>5, <1>7, <2>1 DEF OneshotTypeOK
<1>10. ClosedBy'
  BY <1>0, <1>1, <1>2, <1>3, <1>4, <1>7 DEF ClosedBy
<1>11. ValuePlace'
  BY <1>0, <1>1, <1>2, <1>3 DEF ValuePlace, Unsent, Passed
<1> QED
  BY <1>7, <1>8, <1>9, <1>10, <1>11 DEF OneshotInv

\* The sender closes the receiver's waiter: after it stored the value, in its drop.
LEMMA SenderClosesInv ==
  ASSUME OneshotInv, NEW was, NEW then, <<was, then>> \in {<<"send", "sent">>, <<"drop2", "gone">>},
         CloseRx(Snd, was, then)
  PROVE  OneshotInv'
<1>0. /\ OneshotTypeOK /\ Slotted(tx, Snd, Rcv) /\ Slotted(rx, Rcv, Snd) /\ Hands(Snd, Rcv) /\ Hands(Rcv, Snd)
      /\ ClosedBy /\ ValuePlace /\ pc[Snd] = was
  BY DEF OneshotInv, CloseRx
<1>1. /\ Rx!WakeInternal(Snd, Closed) \/ Rx!WakeComplete(Snd)
      /\ UNCHANGED <<sent, tx, sendResult, recvResult, reads>>
      /\ Jump(Snd, IF apc'[Snd] = "idle" THEN then ELSE was)
  BY DEF CloseRx, hvars
<1>2. PICK at : at = IF apc'[Snd] = "idle" THEN then ELSE was
  OBVIOUS
<1>3. pc' = [pc EXCEPT ![Snd] = at] /\ pc'[Snd] = at /\ pc'[Rcv] = pc[Rcv]
  BY <1>1, <1>2, Moves, Sides DEF Jump
<1>4. PICK b : b = rx'
  OBVIOUS
<1>5. /\ error' = error
      /\ \/ /\ apc[Snd] = "idle" /\ b = Closed
            /\ held' = [held EXCEPT ![Snd] = IF rx \in Side THEN rx ELSE Null]
            /\ apc' = [apc EXCEPT ![Snd] = IF rx \in Side THEN "complete" ELSE "idle"]
            /\ ares' = ares
         \/ /\ apc[Snd] = "complete" /\ b = rx
            /\ ares' = [ares EXCEPT ![held[Snd]] = "Ok"]
            /\ apc' = [apc EXCEPT ![Snd] = "idle", ![held[Snd]] = IF @ = "parked" THEN "ending" ELSE @]
            /\ held' = [held EXCEPT ![Snd] = Null]
  BY <1>1, <1>4 DEF Rx!WakeInternal, Rx!WakeComplete, Rx!Finish
<1>12. pc[Snd] # "wait"
  BY <1>0
<1>13. OneshotTypeOK /\ Slotted(tx, Snd, Rcv) /\ Slotted(rx, Rcv, Snd) /\ Hands(Snd, Rcv) /\ Hands(Rcv, Snd)
  BY <1>0
<1>6. (was = "send" /\ then = "sent") \/ (was = "drop2" /\ then = "gone")
  BY <1>0
<1>7. /\ Slotted(b, Rcv, Snd)' /\ Slotted(tx, Snd, Rcv)' /\ Hands(Rcv, Snd)' /\ Hands(Snd, Rcv)'
      /\ apc' \in [Side -> Apc] /\ held' \in [Side -> Side \cup {Null, Closed}]
      /\ ares' \in [Side -> {"None", "Ok", "Cancelled", "Closed"}]
      /\ apc'[Snd] \in {"idle", "complete"} /\ b = Closed /\ (apc'[Rcv] = "complete" => apc[Rcv] = "complete")
  <2>1. PICK c : c = tx
    OBVIOUS
  <2>2. /\ Slotted(b, Rcv, Snd)' /\ Slotted(c, Snd, Rcv)' /\ Hands(Rcv, Snd)' /\ Hands(Snd, Rcv)'
        /\ apc' \in [Side -> Apc] /\ held' \in [Side -> Side \cup {Null, Closed}]
        /\ ares' \in [Side -> {"None", "Ok", "Cancelled", "Closed"}]
        /\ apc'[Snd] \in {"idle", "complete"} /\ b = Closed /\ (apc'[Rcv] = "complete" => apc[Rcv] = "complete")
    BY <1>13, <1>3, <1>5, <1>12, <2>1, CloseMoves, Sides
  <2>3. Slotted(tx, Snd, Rcv)'
    BY <1>1, <2>1, <2>2 DEF Slotted
  <2> QED
    BY <2>2, <2>3
<1>8. Slotted(rx, Rcv, Snd)'
  BY <1>4, <1>7 DEF Slotted
<1>9. OneshotTypeOK'
  <2>1. at \in SndPc
    BY <1>2, <1>6 DEF SndPc
  <2> QED
    BY <1>0, <1>1, <1>3, <1>5, <1>7, <2>1 DEF OneshotTypeOK
<1>10. ClosedBy'
  BY <1>0, <1>1, <1>2, <1>3, <1>4, <1>6, <1>7 DEF ClosedBy
<1>11. ValuePlace'
  BY <1>0, <1>1, <1>2, <1>3, <1>6 DEF ValuePlace, Unsent, Passed
<1> QED
  BY <1>7, <1>8, <1>9, <1>10, <1>11 DEF OneshotInv

\* A side closes its own waiter, on which nobody waits.
LEMMA OwnCloses ==
  ASSUME OneshotInv, NEW s \in Side, NEW o \in Side, s # o, NEW a, NEW b, NEW c,
         Slotted(a, s, o), Slotted(c, o, s), apc[s] = "idle", b = Closed, pc'[o] = pc[o],
         held' = [held EXCEPT ![s] = IF a \in Side THEN a ELSE Null],
         apc' = [apc EXCEPT ![s] = IF a \in Side THEN "complete" ELSE "idle"], ares' = ares
  PROVE  Slotted(b, s, o)' /\ Slotted(c, o, s)' /\ Hands(s, o)' /\ Hands(o, s)' /\ apc' = apc /\ held' = held
<1>0. /\ apc \in [Side -> Apc] /\ held \in [Side -> Side \cup {Null, Closed}] /\ Hands(s, o) /\ Hands(o, s)
      /\ s # Null /\ s # Closed /\ o # Null /\ o # Closed /\ Null # Closed /\ Side = {s, o}
  BY Sides DEF OneshotInv, OneshotTypeOK
<1>1. a \notin Side /\ held[s] = Null
  BY <1>0 DEF Slotted, Hands, Held
<1>2. apc' = apc /\ held' = held
  BY <1>0, <1>1
<1>3. Slotted(b, s, o)' /\ Slotted(c, o, s)'
  BY <1>0, <1>1, <1>2 DEF Slotted, Hands, Held
<1>4. Hands(s, o)' /\ Hands(o, s)'
  BY <1>0, <1>1, <1>2 DEF Hands
<1> QED
  BY <1>2, <1>3, <1>4

\* The sender's drop closes its own waiter.
LEMMA SenderOwnInv ==
  ASSUME OneshotInv, CloseTx(Snd, "drop", "drop2")
  PROVE  OneshotInv'
<1>0. /\ OneshotTypeOK /\ Slotted(tx, Snd, Rcv) /\ Slotted(rx, Rcv, Snd)
      /\ ClosedBy /\ ValuePlace /\ pc[Snd] = "drop" /\ apc[Snd] = "idle"
  BY IdleAt DEF OneshotInv, CloseTx
<1>1. UNCHANGED <<sent, rx, sendResult, recvResult, reads>> /\ Jump(Snd, IF apc'[Snd] = "idle" THEN "drop2" ELSE "drop")
  BY DEF CloseTx, hvars
<1>2. PICK b : b = tx'
  OBVIOUS
<1>3. /\ error' = error /\ b = Closed /\ ares' = ares
      /\ held' = [held EXCEPT ![Snd] = IF tx \in Side THEN tx ELSE Null]
      /\ apc' = [apc EXCEPT ![Snd] = IF tx \in Side THEN "complete" ELSE "idle"]
  BY <1>0, <1>2 DEF CloseTx, Tx!WakeInternal, Tx!WakeComplete
<1>4. pc' = [pc EXCEPT ![Snd] = IF apc'[Snd] = "idle" THEN "drop2" ELSE "drop"] /\ pc'[Rcv] = pc[Rcv]
  BY <1>1, Moves, Sides DEF Jump
<1>5. PICK c : c = rx
  OBVIOUS
<1>6. Slotted(b, Snd, Rcv)' /\ Slotted(c, Rcv, Snd)' /\ Hands(Snd, Rcv)' /\ Hands(Rcv, Snd)' /\ apc' = apc /\ held' = held
  BY <1>0, <1>3, <1>4, <1>5, OwnCloses, Sides
<1>7. Slotted(tx, Snd, Rcv)' /\ Slotted(rx, Rcv, Snd)'
  BY <1>1, <1>2, <1>5, <1>6 DEF Slotted
<1>8. pc' = [pc EXCEPT ![Snd] = "drop2"] /\ pc'[Snd] = "drop2"
  BY <1>0, <1>4, <1>6, Sides DEF OneshotTypeOK
<1>9. OneshotTypeOK'
  BY <1>0, <1>1, <1>3, <1>4, <1>6, <1>8 DEF OneshotTypeOK, SndPc
<1>10. ClosedBy'
  BY <1>0, <1>1, <1>2, <1>3, <1>4, <1>6, <1>8 DEF ClosedBy
<1>11. ValuePlace'
  BY <1>0, <1>1, <1>4, <1>8 DEF ValuePlace, Unsent, Passed
<1> QED
  BY <1>6, <1>7, <1>9, <1>10, <1>11 DEF OneshotInv

\* close of the receiver closes its own waiter.
LEMMA ReceiverOwnInv ==
  ASSUME OneshotInv, pc[Rcv] = "close2", Rx!WakeInternal(Rcv, Closed), Jump(Rcv, "idle"),
         UNCHANGED <<sent, tx, sendResult, recvResult, reads>>
  PROVE  OneshotInv'
<1>0. /\ OneshotTypeOK /\ Slotted(tx, Snd, Rcv) /\ Slotted(rx, Rcv, Snd)
      /\ ClosedBy /\ ValuePlace /\ apc[Rcv] = "idle"
  BY IdleAt DEF OneshotInv
<1>1. PICK b : b = rx'
  OBVIOUS
<1>2. /\ error' = error /\ b = Closed /\ ares' = ares
      /\ held' = [held EXCEPT ![Rcv] = IF rx \in Side THEN rx ELSE Null]
      /\ apc' = [apc EXCEPT ![Rcv] = IF rx \in Side THEN "complete" ELSE "idle"]
  BY <1>1 DEF Rx!WakeInternal
<1>3. pc' = [pc EXCEPT ![Rcv] = "idle"] /\ pc'[Rcv] = "idle" /\ pc'[Snd] = pc[Snd]
  BY Moves, Sides DEF Jump
<1>4. PICK c : c = tx
  OBVIOUS
<1>5. Slotted(b, Rcv, Snd)' /\ Slotted(c, Snd, Rcv)' /\ Hands(Snd, Rcv)' /\ Hands(Rcv, Snd)' /\ apc' = apc /\ held' = held
  BY <1>0, <1>2, <1>3, <1>4, OwnCloses, Sides
<1>6. Slotted(tx, Snd, Rcv)' /\ Slotted(rx, Rcv, Snd)'
  BY <1>1, <1>4, <1>5 DEF Slotted
<1>7. OneshotTypeOK'
  BY <1>0, <1>2, <1>3, <1>5 DEF OneshotTypeOK, RcvPc
<1>8. ClosedBy'
  BY <1>0, <1>1, <1>2, <1>3, <1>5 DEF ClosedBy
<1>9. ValuePlace'
  BY <1>0, <1>3 DEF ValuePlace, Unsent, Passed
<1> QED
  BY <1>5, <1>6, <1>7, <1>8, <1>9 DEF OneshotInv

\* The sender's waiter takes one of these steps.
LEMMA SenderSteps ==
  ASSUME OneshotInv,
         \/ Tx!Suspend(Snd) \/ Tx!ShouldBlock(Snd, TRUE) \/ Tx!Handoff(Snd)
         \/ Tx!CancelWait(Snd) \/ Tx!CancelComplete(Snd) \/ Tx!WaitEnd(Snd)
  PROVE  WaitStepped(Snd, tx, tx') /\ error' = error
<1>0. /\ apc = [s \in Side |-> apc[s]] /\ held = [s \in Side |-> held[s]] /\ ares = [s \in Side |-> ares[s]]
      /\ error = [s \in Side |-> "None"] /\ error[Snd] = "None"
      /\ Hands(Snd, Rcv) /\ Snd \in Side /\ Rcv # Null /\ Rcv # Closed
      /\ tx \in {Null, Closed, Snd}
  BY Sides DEF OneshotInv, OneshotTypeOK, Slotted
<1>1. /\ apc = [apc EXCEPT ![Snd] = apc[Snd]] /\ held = [held EXCEPT ![Snd] = held[Snd]]
      /\ ares = [ares EXCEPT ![Snd] = ares[Snd]] /\ error = [error EXCEPT ![Snd] = "None"]
  BY <1>0
<1>2. CASE Tx!Suspend(Snd)
  <2>1. /\ apc[Snd] = "idle" /\ apc' = [apc EXCEPT ![Snd] = "check"] /\ held' = [held EXCEPT ![Snd] = tx]
        /\ ares' = [ares EXCEPT ![Snd] = ares[Snd]] /\ tx' = (IF tx = Closed THEN Closed ELSE Snd) /\ error' = error
    BY <1>1, <1>2 DEF Tx!Suspend, Tx!SetWaiter
  <2>2. WaitSteps(Snd, tx, tx', "check", tx, ares[Snd])
    BY <2>1 DEF WaitSteps
  <2> QED
    BY <2>1, <2>2 DEF WaitStepped
<1>3. CASE Tx!ShouldBlock(Snd, TRUE)
  <2>1. /\ apc[Snd] = "check" /\ apc' = [apc EXCEPT ![Snd] = "handoff"] /\ held' = [held EXCEPT ![Snd] = held[Snd]]
        /\ ares' = [ares EXCEPT ![Snd] = ares[Snd]] /\ tx' = tx /\ error' = error
    BY <1>1, <1>3 DEF Tx!ShouldBlock
  <2>2. WaitSteps(Snd, tx, tx', "handoff", held[Snd], ares[Snd])
    BY <2>1 DEF WaitSteps
  <2> QED
    BY <2>1, <2>2 DEF WaitStepped
<1>4. CASE Tx!Handoff(Snd)
  <2>1. apc[Snd] = "handoff" /\ held[Snd] \notin Side
    BY <1>0, <1>4, Sides DEF Tx!Handoff, Hands
  <2>2. PICK r : r = IF held[Snd] = Closed THEN "Closed" ELSE ares[Snd]
    OBVIOUS
  <2>3. PICK e : e = IF held[Snd] = Closed THEN "Closed" ELSE error[Snd]
    OBVIOUS
  <2>4. r = IF e # "None" THEN e ELSE ares[Snd]
    BY <1>0, <2>2, <2>3
  <2>5. PICK p : p = IF r = "None" THEN "parked" ELSE "ending"
    OBVIOUS
  <2>6. /\ apc' = [apc EXCEPT ![Snd] = p] /\ held' = [held EXCEPT ![Snd] = Null]
        /\ ares' = [ares EXCEPT ![Snd] = r] /\ tx' = tx /\ error' = [error EXCEPT ![Snd] = "None"]
    BY <1>4, <2>1, <2>3, <2>4, <2>5 DEF Tx!Handoff
  <2>7. WaitSteps(Snd, tx, tx', p, Null, r)
    BY <2>1, <2>2, <2>5, <2>6 DEF WaitSteps
  <2> QED
    BY <1>1, <2>6, <2>7 DEF WaitStepped
<1>5. CASE Tx!CancelWait(Snd)
  <2>1. /\ apc[Snd] = "parked" /\ apc' = [apc EXCEPT ![Snd] = "unlinked"] /\ held' = [held EXCEPT ![Snd] = held[Snd]]
        /\ ares' = [ares EXCEPT ![Snd] = ares[Snd]] /\ tx = Snd /\ tx' = Null /\ error' = error
    BY <1>1, <1>5 DEF Tx!CancelWait
  <2>2. WaitSteps(Snd, tx, tx', "unlinked", held[Snd], ares[Snd])
    BY <2>1 DEF WaitSteps
  <2> QED
    BY <2>1, <2>2 DEF WaitStepped
<1>6. CASE Tx!CancelComplete(Snd)
  <2>1. /\ apc[Snd] = "unlinked" /\ apc' = [apc EXCEPT ![Snd] = "ending"] /\ held' = [held EXCEPT ![Snd] = held[Snd]]
        /\ ares' = [ares EXCEPT ![Snd] = "Cancelled"] /\ tx' = tx /\ error' = error
    BY <1>1, <1>6 DEF Tx!CancelComplete
  <2>2. WaitSteps(Snd, tx, tx', "ending", held[Snd], "Cancelled")
    BY <2>1 DEF WaitSteps
  <2> QED
    BY <2>1, <2>2 DEF WaitStepped
<1>7. CASE Tx!WaitEnd(Snd)
  <2>1. /\ apc[Snd] = "ending" /\ apc' = [apc EXCEPT ![Snd] = "idle"] /\ held' = [held EXCEPT ![Snd] = held[Snd]]
        /\ ares' = [ares EXCEPT ![Snd] = "None"] /\ tx' = tx /\ error' = error
    BY <1>1, <1>7 DEF Tx!WaitEnd
  <2>2. WaitSteps(Snd, tx, tx', "idle", held[Snd], "None")
    BY <2>1 DEF WaitSteps
  <2> QED
    BY <2>1, <2>2 DEF WaitStepped
<1> QED
  BY <1>2, <1>3, <1>4, <1>5, <1>6, <1>7

\* The sender waits for the channel to be closed.
LEMMA WaitTxInv ==
  ASSUME OneshotInv, WaitTx
  PROVE  OneshotInv'
<1>0. /\ OneshotTypeOK /\ Slotted(tx, Snd, Rcv) /\ Slotted(rx, Rcv, Snd) /\ Hands(Snd, Rcv) /\ Hands(Rcv, Snd)
  BY DEF OneshotInv
<1>1. ClosedBy /\ ValuePlace /\ pc[Snd] = "wait"
  BY DEF OneshotInv, WaitTx
<1>2. /\ UNCHANGED <<sent, rx, sendResult, recvResult, reads>>
      /\ Jump(Snd, IF apc'[Snd] = "idle" THEN "idle" ELSE "wait")
  BY DEF WaitTx, hvars
<1>3. PICK at : at = IF apc'[Snd] = "idle" THEN "idle" ELSE "wait"
  OBVIOUS
<1>4. pc' = [pc EXCEPT ![Snd] = at] /\ pc'[Snd] = at /\ pc'[Rcv] = pc[Rcv]
  BY <1>2, <1>3, Moves, Sides DEF Jump
<1>5. PICK b : b = tx'
  OBVIOUS
<1>6. WaitStepped(Snd, tx, b) /\ error' = error
  BY <1>5, SenderSteps DEF WaitTx
<1>7. PICK p, h, r :
        /\ apc' = [apc EXCEPT ![Snd] = p] /\ held' = [held EXCEPT ![Snd] = h] /\ ares' = [ares EXCEPT ![Snd] = r]
        /\ WaitSteps(Snd, tx, b, p, h, r)
  BY <1>6 DEF WaitStepped
<1>8. apc'[Snd] = p /\ apc'[Rcv] = apc[Rcv] /\ p # "complete"
  BY <1>0, <1>7, Sides DEF OneshotTypeOK, WaitSteps
<1>9. p \notin {"idle", "complete"} => pc'[Snd] = "wait"
  BY <1>3, <1>4, <1>8
<1>10. PICK c : c = rx
  OBVIOUS
<1>11. /\ Slotted(b, Snd, Rcv)' /\ Slotted(c, Rcv, Snd)' /\ Hands(Snd, Rcv)' /\ Hands(Rcv, Snd)'
       /\ apc' \in [Side -> Apc] /\ held' \in [Side -> Side \cup {Null, Closed}]
       /\ ares' \in [Side -> {"None", "Ok", "Cancelled", "Closed"}]
  BY <1>0, <1>4, <1>7, <1>9, <1>10, WaitMoves, Sides
<1>12. Slotted(tx, Snd, Rcv)' /\ Slotted(rx, Rcv, Snd)'
  BY <1>2, <1>5, <1>10, <1>11 DEF Slotted
<1>13. OneshotTypeOK'
  <2>1. at \in SndPc
    BY <1>3 DEF SndPc
  <2> QED
    BY <1>0, <1>2, <1>4, <1>6, <1>11, <2>1 DEF OneshotTypeOK
<1>14. ClosedBy'
  <2>1. tx = Closed => tx' = Closed
    BY <1>5, <1>7, Sides DEF WaitSteps
  <2> QED
    BY <1>1, <1>2, <1>3, <1>4, <1>8, <2>1 DEF ClosedBy
<1>15. ValuePlace'
  BY <1>1, <1>2, <1>3, <1>4 DEF ValuePlace, Unsent, Passed
<1> QED
  BY <1>11, <1>12, <1>13, <1>14, <1>15 DEF OneshotInv

\* The receiver's waiter takes one of these steps.
LEMMA ReceiverSteps ==
  ASSUME OneshotInv,
         \/ Rx!Suspend(Rcv) \/ Rx!ShouldBlock(Rcv, TRUE) \/ Rx!Handoff(Rcv)
         \/ Rx!CancelWait(Rcv) \/ Rx!CancelComplete(Rcv) \/ Rx!WaitEnd(Rcv)
  PROVE  WaitStepped(Rcv, rx, rx') /\ error' = error
<1>0. /\ apc = [s \in Side |-> apc[s]] /\ held = [s \in Side |-> held[s]] /\ ares = [s \in Side |-> ares[s]]
      /\ error = [s \in Side |-> "None"] /\ error[Rcv] = "None"
      /\ Hands(Rcv, Snd) /\ Rcv \in Side /\ Snd # Null /\ Snd # Closed
      /\ rx \in {Null, Closed, Rcv}
  BY Sides DEF OneshotInv, OneshotTypeOK, Slotted
<1>1. /\ apc = [apc EXCEPT ![Rcv] = apc[Rcv]] /\ held = [held EXCEPT ![Rcv] = held[Rcv]]
      /\ ares = [ares EXCEPT ![Rcv] = ares[Rcv]] /\ error = [error EXCEPT ![Rcv] = "None"]
  BY <1>0
<1>2. CASE Rx!Suspend(Rcv)
  <2>1. /\ apc[Rcv] = "idle" /\ apc' = [apc EXCEPT ![Rcv] = "check"] /\ held' = [held EXCEPT ![Rcv] = rx]
        /\ ares' = [ares EXCEPT ![Rcv] = ares[Rcv]] /\ rx' = (IF rx = Closed THEN Closed ELSE Rcv) /\ error' = error
    BY <1>1, <1>2 DEF Rx!Suspend, Rx!SetWaiter
  <2>2. WaitSteps(Rcv, rx, rx', "check", rx, ares[Rcv])
    BY <2>1 DEF WaitSteps
  <2> QED
    BY <2>1, <2>2 DEF WaitStepped
<1>3. CASE Rx!ShouldBlock(Rcv, TRUE)
  <2>1. /\ apc[Rcv] = "check" /\ apc' = [apc EXCEPT ![Rcv] = "handoff"] /\ held' = [held EXCEPT ![Rcv] = held[Rcv]]
        /\ ares' = [ares EXCEPT ![Rcv] = ares[Rcv]] /\ rx' = rx /\ error' = error
    BY <1>1, <1>3 DEF Rx!ShouldBlock
  <2>2. WaitSteps(Rcv, rx, rx', "handoff", held[Rcv], ares[Rcv])
    BY <2>1 DEF WaitSteps
  <2> QED
    BY <2>1, <2>2 DEF WaitStepped
<1>4. CASE Rx!Handoff(Rcv)
  <2>1. apc[Rcv] = "handoff" /\ held[Rcv] \notin Side
    BY <1>0, <1>4, Sides DEF Rx!Handoff, Hands
  <2>2. PICK r : r = IF held[Rcv] = Closed THEN "Closed" ELSE ares[Rcv]
    OBVIOUS
  <2>3. PICK e : e = IF held[Rcv] = Closed THEN "Closed" ELSE error[Rcv]
    OBVIOUS
  <2>4. r = IF e # "None" THEN e ELSE ares[Rcv]
    BY <1>0, <2>2, <2>3
  <2>5. PICK p : p = IF r = "None" THEN "parked" ELSE "ending"
    OBVIOUS
  <2>6. /\ apc' = [apc EXCEPT ![Rcv] = p] /\ held' = [held EXCEPT ![Rcv] = Null]
        /\ ares' = [ares EXCEPT ![Rcv] = r] /\ rx' = rx /\ error' = [error EXCEPT ![Rcv] = "None"]
    BY <1>4, <2>1, <2>3, <2>4, <2>5 DEF Rx!Handoff
  <2>7. WaitSteps(Rcv, rx, rx', p, Null, r)
    BY <2>1, <2>2, <2>5, <2>6 DEF WaitSteps
  <2> QED
    BY <1>1, <2>6, <2>7 DEF WaitStepped
<1>5. CASE Rx!CancelWait(Rcv)
  <2>1. /\ apc[Rcv] = "parked" /\ apc' = [apc EXCEPT ![Rcv] = "unlinked"] /\ held' = [held EXCEPT ![Rcv] = held[Rcv]]
        /\ ares' = [ares EXCEPT ![Rcv] = ares[Rcv]] /\ rx = Rcv /\ rx' = Null /\ error' = error
    BY <1>1, <1>5 DEF Rx!CancelWait
  <2>2. WaitSteps(Rcv, rx, rx', "unlinked", held[Rcv], ares[Rcv])
    BY <2>1 DEF WaitSteps
  <2> QED
    BY <2>1, <2>2 DEF WaitStepped
<1>6. CASE Rx!CancelComplete(Rcv)
  <2>1. /\ apc[Rcv] = "unlinked" /\ apc' = [apc EXCEPT ![Rcv] = "ending"] /\ held' = [held EXCEPT ![Rcv] = held[Rcv]]
        /\ ares' = [ares EXCEPT ![Rcv] = "Cancelled"] /\ rx' = rx /\ error' = error
    BY <1>1, <1>6 DEF Rx!CancelComplete
  <2>2. WaitSteps(Rcv, rx, rx', "ending", held[Rcv], "Cancelled")
    BY <2>1 DEF WaitSteps
  <2> QED
    BY <2>1, <2>2 DEF WaitStepped
<1>7. CASE Rx!WaitEnd(Rcv)
  <2>1. /\ apc[Rcv] = "ending" /\ apc' = [apc EXCEPT ![Rcv] = "idle"] /\ held' = [held EXCEPT ![Rcv] = held[Rcv]]
        /\ ares' = [ares EXCEPT ![Rcv] = "None"] /\ rx' = rx /\ error' = error
    BY <1>1, <1>7 DEF Rx!WaitEnd
  <2>2. WaitSteps(Rcv, rx, rx', "idle", held[Rcv], "None")
    BY <2>1 DEF WaitSteps
  <2> QED
    BY <2>1, <2>2 DEF WaitStepped
<1> QED
  BY <1>2, <1>3, <1>4, <1>5, <1>6, <1>7

\* The receiver waits for a value.
LEMMA WaitRxInv ==
  ASSUME OneshotInv, WaitRx
  PROVE  OneshotInv'
<1>0. /\ OneshotTypeOK /\ Slotted(rx, Rcv, Snd) /\ Slotted(tx, Snd, Rcv) /\ Hands(Rcv, Snd) /\ Hands(Snd, Rcv)
  BY DEF OneshotInv
<1>1. ClosedBy /\ ValuePlace /\ pc[Rcv] = "wait"
  BY DEF OneshotInv, WaitRx
<1>2. /\ UNCHANGED <<sent, tx, sendResult, recvResult, reads>>
      /\ Jump(Rcv, IF apc'[Rcv] = "idle" THEN "try" ELSE "wait")
  BY DEF WaitRx, hvars
<1>3. PICK at : at = IF apc'[Rcv] = "idle" THEN "try" ELSE "wait"
  OBVIOUS
<1>4. pc' = [pc EXCEPT ![Rcv] = at] /\ pc'[Rcv] = at /\ pc'[Snd] = pc[Snd]
  BY <1>2, <1>3, Moves, Sides DEF Jump
<1>5. PICK b : b = rx'
  OBVIOUS
<1>6. WaitStepped(Rcv, rx, b) /\ error' = error
  BY <1>5, ReceiverSteps DEF WaitRx
<1>7. PICK p, h, r :
        /\ apc' = [apc EXCEPT ![Rcv] = p] /\ held' = [held EXCEPT ![Rcv] = h] /\ ares' = [ares EXCEPT ![Rcv] = r]
        /\ WaitSteps(Rcv, rx, b, p, h, r)
  BY <1>6 DEF WaitStepped
<1>8. apc'[Rcv] = p /\ apc'[Snd] = apc[Snd] /\ p # "complete"
  BY <1>0, <1>7, Sides DEF OneshotTypeOK, WaitSteps
<1>9. p \notin {"idle", "complete"} => pc'[Rcv] = "wait"
  BY <1>3, <1>4, <1>8
<1>10. PICK c : c = tx
  OBVIOUS
<1>11. /\ Slotted(b, Rcv, Snd)' /\ Slotted(c, Snd, Rcv)' /\ Hands(Rcv, Snd)' /\ Hands(Snd, Rcv)'
       /\ apc' \in [Side -> Apc] /\ held' \in [Side -> Side \cup {Null, Closed}]
       /\ ares' \in [Side -> {"None", "Ok", "Cancelled", "Closed"}]
  BY <1>0, <1>4, <1>7, <1>9, <1>10, WaitMoves, Sides
<1>12. Slotted(rx, Rcv, Snd)' /\ Slotted(tx, Snd, Rcv)'
  BY <1>2, <1>5, <1>10, <1>11 DEF Slotted
<1>13. OneshotTypeOK'
  <2>1. at \in RcvPc
    BY <1>3 DEF RcvPc
  <2> QED
    BY <1>0, <1>2, <1>4, <1>6, <1>11, <2>1 DEF OneshotTypeOK
<1>14. ClosedBy'
  <2>1. rx = Closed => rx' = Closed
    BY <1>5, <1>7, Sides DEF WaitSteps
  <2> QED
    BY <1>1, <1>2, <1>3, <1>4, <1>8, <2>1 DEF ClosedBy
<1>15. ValuePlace'
  BY <1>1, <1>2, <1>3, <1>4 DEF ValuePlace, Unsent, Passed
<1> QED
  BY <1>11, <1>12, <1>13, <1>14, <1>15 DEF OneshotInv

\* The initial state.
LEMMA OneshotInitInv == Init => OneshotInv
<1> SUFFICES ASSUME Init PROVE OneshotInv
  OBVIOUS
<1>1. /\ sent = FALSE /\ tx = Null /\ rx = Null /\ reads = <<>> /\ sendResult = "None" /\ recvResult = "None"
      /\ apc = [s \in Side |-> "idle"] /\ held = [s \in Side |-> Null] /\ error = [s \in Side |-> "None"]
      /\ ares = [s \in Side |-> "None"] /\ pc = [s \in Side |-> "idle"]
  BY DEF Init, Tx!WaiterInit
<1>2. /\ \A s \in Side : apc[s] = "idle" /\ held[s] = Null /\ ares[s] = "None" /\ pc[s] = "idle"
  BY <1>1
<1>3. OneshotTypeOK
  BY <1>1, <1>2, Sides DEF OneshotTypeOK, SndPc, RcvPc, Apc
<1>4. Slotted(tx, Snd, Rcv) /\ Slotted(rx, Rcv, Snd) /\ Hands(Snd, Rcv) /\ Hands(Rcv, Snd)
  BY <1>1, <1>2, Sides DEF Slotted, Hands, Held
<1>5. ClosedBy /\ ValuePlace
  BY <1>1, <1>2, Sides DEF ClosedBy, ValuePlace, Unsent, Passed
<1> QED
  BY <1>3, <1>4, <1>5 DEF OneshotInv

\* Every step of the two sides keeps the invariant.
LEMMA OneshotNextInv == OneshotInv /\ [Next]_vars => OneshotInv'
<1> SUFFICES ASSUME OneshotInv, [Next]_vars PROVE OneshotInv'
  OBVIOUS
<1>1. CASE Closed_
  BY <1>1, SenderBeginsInv DEF Closed_, wvars, hvars
<1>2. CASE SendClose
  BY <1>2, SenderClosesInv DEF SendClose
<1>3. CASE DropSender
  <2>1. CASE pc[Snd] = "idle" /\ Jump(Snd, "drop") /\ UNCHANGED <<sent, tx, rx, wvars, hvars>>
    BY <2>1, SenderBeginsInv DEF wvars, hvars
  <2>2. CASE CloseRx(Snd, "drop2", "gone")
    BY <2>2, SenderClosesInv
  <2> QED
    BY <1>3, <2>1, <2>2, SenderOwnInv DEF DropSender
<1>4. ASSUME NEW at \in {"try", "wait"}, Recv(at) PROVE OneshotInv'
  BY <1>4, ReceiverBeginsInv DEF Recv, wvars, hvars
<1>5. CASE TryRecv
  <2>1. apc[Rcv] = "idle" /\ pc[Rcv] = "try"
    BY <1>5, IdleAt DEF TryRecv
  <2>2. PICK at : at = IF sent THEN "got" ELSE "none"
    OBVIOUS
  <2>3. /\ TryConsume(Rcv) /\ Jump(Rcv, at) /\ at \in {"got", "none", "gone"} /\ at # "gone"
        /\ UNCHANGED <<tx, rx, apc, held, error, ares, sendResult>>
        /\ recvResult' \in {recvResult, IF sent THEN "Ok" ELSE recvResult}
    BY <1>5, <2>2 DEF TryRecv, wvars
  <2> QED
    BY <2>1, <2>3, ReceiverTakesInv
<1>6. CASE TryRecvClose
  BY <1>6, ReceiverClosesInv DEF TryRecvClose
<1>7. CASE CloseRecv
  <2>1. CASE pc[Rcv] = "idle" /\ Jump(Rcv, "close") /\ UNCHANGED <<sent, tx, rx, wvars, hvars>>
    BY <2>1, ReceiverBeginsInv DEF wvars, hvars
  <2>2. CASE CloseTx(Rcv, "close", "close2")
    BY <2>2, ReceiverClosesInv
  <2> QED
    BY <1>7, <2>1, <2>2, ReceiverOwnInv DEF CloseRecv
<1>8. CASE DropReceiver
  <2>1. CASE pc[Rcv] = "idle" /\ Jump(Rcv, "drop") /\ UNCHANGED <<sent, tx, rx, wvars, hvars>>
    BY <2>1, ReceiverBeginsInv DEF wvars, hvars
  <2>2. CASE CloseTx(Rcv, "drop", "drop2")
    BY <2>2, ReceiverClosesInv
  <2>3. CASE /\ pc[Rcv] = "drop2" /\ TryConsume(Rcv) /\ Jump(Rcv, "gone")
             /\ UNCHANGED <<tx, rx, wvars, sendResult, recvResult, robust>>
    <3>1. apc[Rcv] = "idle" /\ tx = Closed
      BY <2>3, IdleAt DEF OneshotInv, ClosedBy
    <3>2. UNCHANGED <<tx, rx, apc, held, error, ares, sendResult>> /\ recvResult' = recvResult
      BY <2>3 DEF wvars
    <3> QED
      BY <2>3, <3>1, <3>2, ReceiverTakesInv
  <2> QED
    BY <1>8, <2>1, <2>2, <2>3 DEF DropReceiver
<1>9. CASE UNCHANGED vars
  <2>1. UNCHANGED <<sent, tx, rx, apc, held, error, ares, pc, sendResult, recvResult, reads>>
    BY <1>9 DEF vars, wvars, hvars
  <2>2. OneshotTypeOK' /\ ClosedBy' /\ ValuePlace'
    BY <2>1 DEF OneshotInv, OneshotTypeOK, ClosedBy, ValuePlace, Unsent, Passed
  <2>3. Slotted(tx, Snd, Rcv)' /\ Slotted(rx, Rcv, Snd)' /\ Hands(Snd, Rcv)' /\ Hands(Rcv, Snd)'
    BY <2>1 DEF OneshotInv, Slotted, Hands
  <2> QED
    BY <2>2, <2>3 DEF OneshotInv
<1> QED
  BY <1>1, <1>2, <1>3, <1>4, <1>5, <1>6, <1>7, <1>8, <1>9, WaitTxInv, SendInv, SendCheckInv, SendBackInv,
     WaitRxInv, TryRecvNoneInv DEF Next, Sender, Receiver

\* The invariant says what the run checks.
LEMMA OneshotInvSafe == OneshotInv => ValueOnce /\ OtherSideWoken
<1> SUFFICES ASSUME OneshotInv PROVE ValueOnce /\ OtherSideWoken
  OBVIOUS
<1>0. OneshotTypeOK /\ ClosedBy /\ ValuePlace
  BY DEF OneshotInv
<1>2. ReadOnce
  <2>1. Len(reads) <= 1
    <3>1. reads = <<>> \/ reads = <<Snd>> \/ reads = <<Rcv>>
      BY <1>0 DEF OneshotTypeOK
    <3> QED
      BY <3>1
  <2>2. Gone => ~sent
    BY <1>0, Sides DEF Gone, ValuePlace
  <2> QED
    BY <2>1, <2>2 DEF ReadOnce
<1>3. ResultsAgree
  BY <1>0 DEF ResultsAgree, ValuePlace, Passed
<1>4. OtherSideWoken
  <2>1. ASSUME pc[Snd] = "gone" PROVE apc[Rcv] # "parked"
    <3>1. apc[Snd] = "idle" /\ rx = Closed
      BY <1>0, <2>1, IdleAt DEF ClosedBy
    <3> QED
      BY <3>1, Sides DEF OneshotInv, Slotted, Hands, Held
  <2>2. ASSUME pc[Rcv] = "gone" PROVE apc[Snd] # "parked"
    <3>1. apc[Rcv] = "idle" /\ tx = Closed
      BY <1>0, <2>2, IdleAt DEF ClosedBy
    <3> QED
      BY <3>1, Sides DEF OneshotInv, Slotted, Hands, Held
  <2> QED
    BY <2>1, <2>2 DEF OtherSideWoken
<1> QED
  BY <1>2, <1>3, <1>4 DEF ValueOnce

\* However send, recv, close and the two drops overlap, the value of a oneshot channel
\* is read once at most, is not left behind when both sides are gone, and the results
\* of send and recv tell the truth about who has it.
THEOREM OneshotOnce == Spec => []ValueOnce
<1>1. Spec => []OneshotInv
  BY OneshotInitInv, OneshotNextInv, PTL DEF Spec
<1> QED
  BY <1>1, OneshotInvSafe, PTL

\* A side of a oneshot channel that is gone has woken the other, or has closed the
\* waiter before the other could suspend on it.
THEOREM OneshotWakes == Spec => []OtherSideWoken
<1>1. Spec => []OneshotInv
  BY OneshotInitInv, OneshotNextInv, PTL DEF Spec
<1> QED
  BY <1>1, OneshotInvSafe, PTL
=============================================================================
