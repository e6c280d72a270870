------------------------------ MODULE Broadcast ------------------------------
(***************************************************************************)
(* The broadcast channel (src/src/async_std/sync/broadcast.rs): a ring of  *)
(* slots that senders overwrite without waiting for receivers.             *)
(*                                                                         *)
(* All fields of a slot are accessed under its RwLock, so the whole locked *)
(* section of send is one step, and so is the part of try_recv that takes  *)
(* the read lock, compares the sequence and lowers `remaining`.  Moving or *)
(* cloning the value out, with the read lock held, is a step of its own:   *)
(* other readers of the slot overlap with it.  rx_waiters is a             *)
(* ThreadSafeWaitList: the test of closed, the store to its hint `empty`   *)
(* and should_block are steps of a receiver that holds the list's lock;    *)
(* wake_all and close look at the hint without it, and then wake everybody *)
(* in one step, since nobody sees the list until they release it.          *)
(*                                                                         *)
(* spc: none, idle, claimed (has an index), counted (has loaded rx_count), *)
(*      wake (published, wake_all to come), waking (has seen the hint),    *)
(*      closing and closelock (the same in close, by the last one), gone   *)
(* rpc: none, new (counted, tail not loaded), idle, take, clone, empty,    *)
(*      lag, open (in wait, not closed), check (hint cleared), asleep,     *)
(*      gone                                                               *)
(***************************************************************************)
EXTENDS Integers, FiniteSets, Sequences

CONSTANTS
    TxHandle, RxHandle,
    Size,       \* number of slots, a power of two
    MaxSends    \* bound on the calls of send

ASSUME SizeAssumption == Size \in Nat \ {0} /\ MaxSends \in Nat /\ IsFiniteSet(RxHandle)

VARIABLES
    tail, txCount, rxCount, rxClosed,
    enlisted,              \* rx_waiters: its list
    rxEmpty,               \* rx_waiters: the hint that nobody waits
    rxLock,                \* rx_waiters: the receiver in wait that holds its lock
    sequence, remaining,   \* fields of a slot
    bits, init,            \* its MaybeUninit: the index of the send whose value
                           \* was written last, and whether the value is there
    readers,               \* holders of the read lock
    spc, index, receivers, \* a sender and its local variables
    rpc, pos,              \* a receiver
    got,                   \* auxiliary: the values a receiver was given
    missed,                \* auxiliary: the sum of its Lagged errors
    from                   \* auxiliary: its first position

waiters == <<rxClosed, enlisted, rxEmpty, rxLock>>
chan == <<tail, txCount, rxCount, waiters>>
slots == <<sequence, remaining, bits, init, readers>>
svars == <<spc, index, receivers>>
rvars == <<rpc, pos, got, missed, from>>
bcvars == <<chan, slots, svars, rvars>>

Slot == 0..(Size - 1)
SlotOf(i) == i % Size

\* channel(): the first sender and the first receiver; the others come later
BroadcastInit ==
    /\ tail = 0 /\ txCount = 1 /\ rxCount = 1 /\ rxClosed = FALSE /\ enlisted = {}
    /\ rxEmpty = FALSE /\ rxLock = {}
    /\ sequence = [s \in Slot |-> s]
    /\ remaining = [s \in Slot |-> 0]
    /\ bits = [s \in Slot |-> 0]
    /\ init = [s \in Slot |-> FALSE]
    /\ readers = [s \in Slot |-> {}]
    /\ \E s \in TxHandle : spc = [x \in TxHandle |-> IF x = s THEN "idle" ELSE "none"]
    /\ index = [x \in TxHandle |-> 0]
    /\ receivers = [x \in TxHandle |-> 0]
    /\ \E r \in RxHandle : rpc = [x \in RxHandle |-> IF x = r THEN "idle" ELSE "none"]
    /\ pos = [x \in RxHandle |-> 0]
    /\ got = [x \in RxHandle |-> <<>>]
    /\ missed = [x \in RxHandle |-> 0]
    /\ from = [x \in RxHandle |-> 0]

SJump(s, to) == spc' = [spc EXCEPT ![s] = to]
RJump(r, to) == rpc' = [rpc EXCEPT ![r] = to]
Closing(s) == spc[s] \in {"closing", "closelock"}
SenderLives == \E s \in TxHandle : spc[s] \notin {"none", "gone"} /\ ~Closing(s)
ReceiverLives == \E r \in RxHandle : rpc[r] \notin {"none", "new", "gone"}

-----------------------------------------------------------------------------
(* Sender *)

CloneSender(s) ==
    /\ spc[s] = "none" /\ SenderLives
    /\ txCount' = txCount + 1
    /\ SJump(s, "idle")
    /\ UNCHANGED <<tail, rxCount, waiters, slots, index, receivers, rvars>>

\* drop; the last sender stores closed, and has to wake
DropTx(s) ==
    /\ spc[s] = "idle"
    /\ SJump(s, IF txCount = 1 THEN "closing" ELSE "gone")
    /\ txCount' = txCount - 1
    /\ rxClosed' = (rxClosed \/ txCount = 1)
    /\ UNCHANGED <<tail, rxCount, enlisted, rxEmpty, rxLock, slots, index, receivers, rvars>>

\* send: claim an index
Claim(s) ==
    /\ spc[s] = "idle" /\ tail < MaxSends
    /\ index' = [index EXCEPT ![s] = tail]
    /\ tail' = tail + 1
    /\ SJump(s, "claimed")
    /\ UNCHANGED <<txCount, rxCount, waiters, slots, receivers, rvars>>

\* send: load the number of receivers
Count(s) ==
    /\ spc[s] = "claimed"
    /\ receivers' = [receivers EXCEPT ![s] = rxCount]
    /\ SJump(s, "counted")
    /\ UNCHANGED <<chan, slots, index, rvars>>

\* send: the section under the write lock; a value that was still there is
\* dropped, and nothing is written for an audience of none
Publish(s) ==
    LET slot == SlotOf(index[s]) IN
    /\ spc[s] = "counted" /\ readers[slot] = {}
    /\ remaining' = [remaining EXCEPT ![slot] = receivers[s]]
    /\ sequence' = [sequence EXCEPT ![slot] = index[s] + 1]
    /\ init' = [init EXCEPT ![slot] = receivers[s] # 0]
    /\ bits' = [bits EXCEPT ![slot] = IF receivers[s] = 0 THEN @ ELSE index[s]]
    /\ SJump(s, IF receivers[s] = 0 THEN "idle" ELSE "wake")
    /\ UNCHANGED <<chan, readers, index, receivers, rvars>>

\* wake_all of rx_waiters, for send or close: nothing to do if the hint says
\* that nobody waits
WakeLoad(s) ==
    /\ spc[s] \in {"wake", "closing"}
    /\ \/ rxEmpty /\ SJump(s, IF Closing(s) THEN "gone" ELSE "idle")
       \/ ~rxEmpty /\ SJump(s, IF Closing(s) THEN "closelock" ELSE "waking")
    /\ UNCHANGED <<chan, slots, index, receivers, rvars>>

\* wake_all of rx_waiters: everybody on the list, under its lock
WakeAllRx(s) ==
    /\ spc[s] \in {"waking", "closelock"} /\ rxLock = {}
    /\ enlisted' = {}
    /\ rpc' = [r \in RxHandle |-> IF r \in enlisted THEN "idle" ELSE rpc[r]]
    /\ SJump(s, IF Closing(s) THEN "gone" ELSE "idle")
    /\ UNCHANGED <<tail, txCount, rxCount, rxClosed, rxEmpty, rxLock, slots, index, receivers,
                   pos, got, missed, from>>

-----------------------------------------------------------------------------
(* Receiver *)

\* a Receiver::new that does not count itself
NewUncounted(r) ==
    /\ rpc[r] = "none" /\ (SenderLives \/ ReceiverLives)
    /\ RJump(r, "new")
    /\ UNCHANGED <<chan, slots, svars, pos, got, missed, from>>

\* Receiver::new, for subscribe and resubscribe: count, then look at the tail
NewCounted(r) ==
    /\ rpc[r] = "none" /\ (SenderLives \/ ReceiverLives)
    /\ rxCount' = rxCount + 1
    /\ RJump(r, "new")
    /\ UNCHANGED <<tail, txCount, waiters, slots, svars, pos, got, missed, from>>

\* Receiver::new: the position
NewAtTail(r) ==
    /\ rpc[r] = "new"
    /\ pos' = [pos EXCEPT ![r] = tail]
    /\ from' = [from EXCEPT ![r] = tail]
    /\ RJump(r, "idle")
    /\ UNCHANGED <<chan, slots, svars, got, missed>>

\* synchronize: skip to the tail
Synchronize(r) ==
    /\ rpc[r] = "idle" /\ pos[r] # tail
    /\ pos' = [pos EXCEPT ![r] = tail]
    /\ missed' = [missed EXCEPT ![r] = @ + (tail - pos[r])]
    /\ UNCHANGED <<chan, slots, svars, rpc, got, from>>

DropRx(r) ==
    /\ rpc[r] = "idle"
    /\ rxCount' = rxCount - 1
    /\ RJump(r, "gone")
    /\ UNCHANGED <<tail, txCount, waiters, slots, svars, pos, got, missed, from>>

\* try_recv: read lock, sequence, and if it is ours the position and remaining
TryReceive(r) ==
    LET slot == SlotOf(pos[r])
        diff == sequence[slot] - (pos[r] + 1)
    IN
    /\ rpc[r] = "idle"
    /\ IF diff = 0
         THEN /\ readers' = [readers EXCEPT ![slot] = @ \cup {r}]
              /\ remaining' = [remaining EXCEPT ![slot] = @ - 1]
              /\ pos' = [pos EXCEPT ![r] = @ + 1]
              /\ RJump(r, IF remaining[slot] = 1 THEN "take" ELSE "clone")
         ELSE /\ RJump(r, IF diff < 0 THEN "empty" ELSE "lag")
              /\ UNCHANGED <<readers, remaining, pos>>
    /\ UNCHANGED <<chan, sequence, bits, init, svars, got, missed, from>>

\* try_recv: the value is moved out (the last reader) or cloned, and returned
Value(r) ==
    LET slot == SlotOf(pos[r] - 1) IN
    /\ rpc[r] \in {"take", "clone"}
    /\ got' = [got EXCEPT ![r] = Append(@, bits[slot])]
    /\ init' = [init EXCEPT ![slot] = @ /\ rpc[r] = "clone"]
    /\ readers' = [readers EXCEPT ![slot] = @ \ {r}]
    /\ RJump(r, "idle")
    /\ UNCHANGED <<chan, sequence, remaining, bits, svars, pos, missed, from>>

\* try_recv: Lagged; go on with the oldest message
Lagged(r) ==
    /\ rpc[r] = "lag"
    /\ missed' = [missed EXCEPT ![r] = @ + (tail - Size - pos[r])]
    /\ pos' = [pos EXCEPT ![r] = tail - Size]
    /\ RJump(r, "idle")
    /\ UNCHANGED <<chan, slots, svars, got, from>>

\* try_recv: Closed or Empty.  recv returns it or tries again, or calls wait,
\* which takes the lock of the list and finds it open
Empty(r) ==
    /\ rpc[r] = "empty"
    /\ \/ RJump(r, "idle") /\ UNCHANGED rxLock
       \/ /\ rxLock = {} /\ ~rxClosed
          /\ rxLock' = {r}
          /\ RJump(r, "open")
    /\ UNCHANGED <<tail, txCount, rxCount, rxClosed, enlisted, rxEmpty, slots, svars, pos, got, missed, from>>

\* a wait that does not clear the hint
EmptyKept(r) ==
    /\ rpc[r] = "open"
    /\ RJump(r, "check")
    /\ UNCHANGED <<chan, slots, svars, pos, got, missed, from>>

\* Empty::new: from here on wakers take the lock
EmptyNew(r) ==
    /\ rpc[r] = "open"
    /\ rxEmpty' = FALSE
    /\ RJump(r, "check")
    /\ UNCHANGED <<tail, txCount, rxCount, rxClosed, enlisted, rxLock, slots, svars, pos, got, missed, from>>

\* should_block: if no send has begun since, the node is appended; otherwise
\* Drop for Empty stores what the list says (the tail stays where it is not the
\* position).  The lock is released
Check(r) ==
    /\ rpc[r] = "check"
    /\ IF tail = pos[r]
         THEN RJump(r, "asleep") /\ enlisted' = enlisted \cup {r} /\ UNCHANGED rxEmpty
         ELSE RJump(r, "idle") /\ rxEmpty' = (enlisted = {}) /\ UNCHANGED enlisted
    /\ rxLock' = {}
    /\ UNCHANGED <<tail, txCount, rxCount, rxClosed, slots, svars, pos, got, missed, from>>

\* cancel of the wait, by an interrupt of the task or because should_cancel
\* says so
Interrupt(r) ==
    /\ rpc[r] = "asleep" /\ rxLock = {}
    /\ RJump(r, "idle")
    /\ enlisted' = enlisted \ {r}
    /\ UNCHANGED <<tail, txCount, rxCount, rxClosed, rxEmpty, rxLock, slots, svars, pos, got, missed, from>>

\* Drop of the Channel, with the last handle: drop_all
DropAll ==
    /\ \A s \in TxHandle : spc[s] \in {"none", "gone"}
    /\ \A r \in RxHandle : rpc[r] \in {"none", "gone"}
    /\ remaining' = [s \in Slot |-> 0]
    /\ init' = [s \in Slot |-> init[s] /\ remaining[s] = 0]
    /\ UNCHANGED <<chan, sequence, bits, readers, svars, rvars>>

-----------------------------------------------------------------------------

BroadcastNext ==
    \/ \E s \in TxHandle :
         \/ CloneSender(s) \/ DropTx(s)
         \/ Claim(s) \/ Count(s) \/ Publish(s) \/ WakeLoad(s) \/ WakeAllRx(s)
    \/ \E r \in RxHandle :
         \/ NewCounted(r) \/ NewAtTail(r) \/ Synchronize(r) \/ DropRx(r)
         \/ TryReceive(r) \/ Value(r) \/ Lagged(r)
         \/ Empty(r) \/ EmptyNew(r) \/ Check(r) \/ Interrupt(r)
    \/ DropAll

BroadcastSpec == BroadcastInit /\ [][BroadcastNext]_bcvars

-----------------------------------------------------------------------------
(* Properties *)

Live(r) == rpc[r] \notin {"none", "new", "gone"}
Written(s) == sequence[s] # s

\* `remaining` covers every receiver that can still come to the slot, although
\* receivers subscribe, leave and lag at any time and senders reach the slot in
\* any order: it never underflows, the receiver that moves a value out has it
\* to move, and outside a read a value is there exactly while it is owed to
\* someone.  Of a receiver that clones nothing is said here: CloneAlive.
ReadersCovered ==
    \A s \in Slot :
        /\ Written(s) => Cardinality({r \in RxHandle :
                              Live(r) /\ pos[r] < sequence[s]}) <= remaining[s]
        /\ readers[s] = {} => (init[s] <=> remaining[s] # 0)
        /\ \A r \in readers[s] : rpc[r] = "take" => init[s]

\* A receiver is given the messages in the order of their indices, each at most
\* once, and Lagged reports exactly the ones it was not given: its position is
\* where it started plus what it got plus what it was told it missed.
InOrder ==
    \A r \in RxHandle :
        /\ \A i, j \in 1..Len(got[r]) : i < j => got[r][i] < got[r][j]
        /\ Live(r) => pos[r] = from[r] + Len(got[r]) + missed[r]
                        + (IF rpc[r] \in {"take", "clone"} THEN 1 ELSE 0)
        /\ \A i \in 1..Len(got[r]) : got[r][i] >= from[r]

\* The value of a slot is there for the receiver that moves it out (not for one
\* that clones it, which CloneAlive says and the run broadcast_clone refutes),
\* and what receivers are given is in order and accounted for.
MessagesExact == ReadersCovered /\ InOrder

Asleep(r) == rpc[r] = "asleep"
Waking(s) == spc[s] \in {"wake", "waking"}

\* Nobody sleeps on a message, although a sender passes by the lock on the word
\* of a hint: a receiver asleep at a position whose message is published is on
\* the list, and a sender is about to wake whoever is there.
MessageWakes ==
    \A r \in RxHandle : Asleep(r) =>
        /\ r \in enlisted
        /\ sequence[SlotOf(pos[r])] > pos[r] => \E s \in TxHandle : Waking(s)

\* When the last sender has left, at most one receiver is asleep: the one that
\* had passed the test of closed and not yet cleared the hint when the close
\* looked at it (wait_list.rs:463-467, 536; the run wait_list_close shows such a
\* waiter).
CloseWakes ==
    rxClosed /\ (\A s \in TxHandle : ~Closing(s)) =>
        \A r, q \in RxHandle : Asleep(r) /\ Asleep(q) => r = q

\* A receiver sleeps only while a send or the close will still wake it, with the
\* one exception CloseWakes names.
SleeperOwed == MessageWakes /\ CloseWakes

\* A receiver that clones a value has the value to clone ("the data is
\* initialized", broadcast.rs:215), which the last reader has not moved out.
CloneAlive ==
    \A r \in RxHandle : rpc[r] = "clone" => init[SlotOf(pos[r] - 1)]
=============================================================================
