------------------------------ MODULE MpChannel ------------------------------
(***************************************************************************)
(* The bounded multi-producer channel (src/src/async_std/sync/channel/     *)
(* mp.rs, behind mpmc and mpsc): a ring of slots with sequence numbers,    *)
(* and one ThreadSafeWaitList for each direction.                          *)
(*                                                                         *)
(* Tasks are on different threads.  A message is named by the position of  *)
(* the tail it was sent at; positions are natural numbers (the code's wrap *)
(* at 2^64).  Reading the slot's sequence and the compare_exchange of the  *)
(* counter are one step: a sequence that matches cannot change before the  *)
(* counter does.  The write (read) of the slot and the store of the        *)
(* sequence are one step, since SlotExclusive is checked over the whole    *)
(* time between the claim and that step.                                   *)
(*                                                                         *)
(* pc[t]:                                                                  *)
(*   new (not cloned yet), idle, gone (dropped)                            *)
(*   test     try_send: about to test is_closed                            *)
(*   load, claim   next_slot                                               *)
(*   wake     in wake_one of the other direction                           *)
(*   access   about to write or read the slot and publish the sequence     *)
(*   failed   next_slot found the channel full or empty                    *)
(*   wait     in wait of its own direction; wpc[t] says where              *)
(*   count    evaluating should_block, between its two loads               *)
(*   closed   in Sender::closed                                            *)
(*   closing  dropped last: in close of the other direction                *)
(*   shut     in Receiver::close                                           *)
(***************************************************************************)
EXTENDS Integers, Sequences, FiniteSets

CONSTANTS
    Sender, Receiver, NoTask,
    Size,             \* the size given to bounded
    MaxSends,         \* bound: messages sent in all
    Interruptible,    \* tasks that may be interrupted
    Watcher           \* senders that also call Sender::closed

ASSUME TasksAssumption ==
    /\ Sender \cap Receiver = {} /\ NoTask \notin Sender \cup Receiver
    /\ IsFiniteSet(Sender) /\ IsFiniteSet(Receiver)
    /\ Interruptible \subseteq Sender \cup Receiver
    /\ Watcher \subseteq Sender
ASSUME SizeAssumption == Size \in Nat \ {0} /\ MaxSends \in Nat

Task == Sender \cup Receiver

VARIABLES
    head, tail,                           \* the two counters
    sequence, data,                       \* the slots; data is a message or -1
    tlist, tspin, tempty, tclosed,        \* tx_waiters
    rlist, rspin, rempty, rclosed,        \* rx_waiters
    count, wpc, wres, target,             \* shared by both lists
    txCount, rxCount,                     \* senders and receivers left
    pc,
    pos,                                  \* the counter as the task loaded it
    interrupted

cvars == <<head, tail, sequence, data>>
tvars == <<tlist, tspin, tempty, tclosed>>
rvars == <<rlist, rspin, rempty, rclosed>>
svars == <<count, wpc, wres, target>>
vars == <<cvars, tvars, rvars, svars, txCount, rxCount, pc, pos, interrupted>>

T == INSTANCE ThreadSafeWaitList
       WITH wlist <- tlist, spin <- tspin, empty <- tempty, closed <- tclosed
R == INSTANCE ThreadSafeWaitList
       WITH wlist <- rlist, spin <- rspin, empty <- rempty, closed <- rclosed

\* create_slots: the size rounded up to a power of two
Slots == CHOOSE n \in {2 ^ k : k \in 0..Size} :
            n >= Size /\ \A k \in 0..Size : 2 ^ k >= Size => n <= 2 ^ k
Slot(p) == p % Slots

ASSUME SlotsAssumption == Slots \in Nat /\ Slots >= Size

Init ==
    /\ head = 0 /\ tail = 0
    /\ sequence = [i \in 0..(Slots - 1) |-> i]
    /\ data = [i \in 0..(Slots - 1) |-> -1]
    /\ T!WaitListInit
    /\ rlist = <<>> /\ rspin = NoTask /\ rempty = FALSE /\ rclosed = FALSE
    /\ txCount = 1
    /\ rxCount = 1
    /\ \E s \in Sender, r \in Receiver :
         pc = [t \in Task |-> IF t \in {s, r} THEN "idle" ELSE "new"]
    /\ pos = [t \in Task |-> 0]
    /\ interrupted = [t \in Task |-> FALSE]

Jump(t, p) == pc' = [pc EXCEPT ![t] = p]

-----------------------------------------------------------------------------
(* next_slot *)

Sending == {t \in Sender : pc[t] \in {"test", "load", "claim", "failed", "wait", "count"}}

\* send: the loop starts with try_send, which starts with is_closed
SendCall(t) ==
    /\ pc[t] = "idle"
    /\ t \in Sender
    /\ tail + Cardinality(Sending) < MaxSends
    /\ Jump(t, "test")
    /\ UNCHANGED <<cvars, tvars, rvars, svars, txCount, rxCount, pos, interrupted>>

TestClosed(t) ==
    /\ pc[t] = "test"
    /\ Jump(t, IF tclosed THEN "idle" ELSE "load")
    /\ UNCHANGED <<cvars, tvars, rvars, svars, txCount, rxCount, pos, interrupted>>

RecvCall(t) ==
    /\ pc[t] = "idle"
    /\ t \in Receiver
    /\ Jump(t, "load")
    /\ UNCHANGED <<cvars, tvars, rvars, svars, txCount, rxCount, pos, interrupted>>

Load(t) ==
    /\ pc[t] = "load"
    /\ pos' = [pos EXCEPT ![t] = IF t \in Sender THEN tail ELSE head]
    /\ Jump(t, "claim")
    /\ UNCHANGED <<cvars, tvars, rvars, svars, txCount, rxCount, interrupted>>

\* both sides expect the same sequence
ExpectSame(t, p) == p

\* the sequence a task expects in the slot of position p
Expect(t, p) == IF t \in Sender THEN p ELSE p + 1

\* the sequence it leaves there
Publish(t, p) == IF t \in Sender THEN p + 1 ELSE p + Slots

Diff(t) == sequence[Slot(pos[t])] - Expect(t, pos[t])

\* the counter is advanced without comparing it
ClaimBlindly(t) ==
    /\ pc[t] = "claim"
    /\ Diff(t) = 0
    /\ IF t \in Sender
         THEN tail' = tail + 1 /\ UNCHANGED head
         ELSE head' = head + 1 /\ UNCHANGED tail
    /\ Jump(t, "wake")
    /\ UNCHANGED <<sequence, data, tvars, rvars, svars, txCount, rxCount, pos, interrupted>>

\* diff = 0: compare_exchange of the counter, which fails if it has moved
ClaimSlot(t) ==
    /\ pc[t] = "claim"
    /\ Diff(t) = 0
    /\ IF t \in Sender
         THEN /\ tail' = IF tail = pos[t] THEN tail + 1 ELSE tail
              /\ Jump(t, IF tail = pos[t] THEN "wake" ELSE "load")
              /\ UNCHANGED head
         ELSE /\ head' = IF head = pos[t] THEN head + 1 ELSE head
              /\ Jump(t, IF head = pos[t] THEN "wake" ELSE "load")
              /\ UNCHANGED tail
    /\ UNCHANGED <<sequence, data, tvars, rvars, svars, txCount, rxCount, pos, interrupted>>

\* diff < 0: full or empty; diff > 0: the counter was stale, load it again
ClaimFails(t) ==
    /\ pc[t] = "claim"
    /\ Diff(t) # 0
    /\ Jump(t, IF Diff(t) < 0 THEN "failed" ELSE "load")
    /\ UNCHANGED <<cvars, tvars, rvars, svars, txCount, rxCount, pos, interrupted>>

\* wake_recv by a sender, wake_send by a receiver: before the slot is touched
WakeOther(t) ==
    /\ pc[t] = "wake"
    /\ IF t \in Sender
         THEN (R!WakeLoad(t) \/ R!WakePop(t) \/ R!WakeComplete(t)) /\ UNCHANGED tvars
         ELSE (T!WakeLoad(t) \/ T!WakePop(t) \/ T!WakeComplete(t)) /\ UNCHANGED rvars
    /\ Jump(t, IF wpc'[t] = "idle" THEN "access" ELSE "wake")
    /\ UNCHANGED <<cvars, txCount, rxCount, pos, interrupted>>

\* write or read the slot, store the sequence, and return
Access(t) ==
    /\ pc[t] = "access"
    /\ data' = [data EXCEPT ![Slot(pos[t])] = IF t \in Sender THEN pos[t] ELSE -1]
    /\ sequence' = [sequence EXCEPT ![Slot(pos[t])] = Publish(t, pos[t])]
    /\ Jump(t, "idle")
    /\ UNCHANGED <<head, tail, tvars, rvars, svars, txCount, rxCount, pos, interrupted>>

-----------------------------------------------------------------------------
(* send and recv when the channel is full or empty *)

\* a closed channel or an interrupt ends the call, otherwise it waits (the
\* back-off that comes first only repeats the attempt); try_send and try_recv
\* are send and recv by a task that is interrupted
Failed(t) ==
    /\ pc[t] = "failed"
    /\ LET closed == IF t \in Sender THEN tclosed ELSE rclosed IN
         Jump(t, IF closed \/ interrupted[t] THEN "idle" ELSE "wait")
    /\ UNCHANGED <<cvars, tvars, rvars, svars, txCount, rxCount, pos, interrupted>>

Again(t) == IF t \in Sender THEN "test" ELSE "load"

WaitCall(t) ==
    /\ pc[t] = "wait"
    /\ wpc[t] = "idle"
    /\ IF interrupted[t]
         THEN Jump(t, Again(t)) /\ UNCHANGED <<tvars, rvars, svars>>
         ELSE /\ IF t \in Sender
                   THEN T!WaitBegin(t) /\ UNCHANGED rvars
                   ELSE R!WaitBegin(t) /\ UNCHANGED tvars
              /\ UNCHANGED pc
    /\ UNCHANGED <<cvars, txCount, rxCount, pos, interrupted>>

\* the steps of wait on either side of should_block
WaitStep(t) ==
    /\ pc[t] \in {"wait", "closed"}
    /\ IF t \in Sender
         THEN /\ T!SuspendLock(t) \/ T!CheckClosed(t) \/ T!EmptyNew(t)
                 \/ T!Append_(t) \/ T!Leave(t)
              /\ UNCHANGED rvars
         ELSE /\ R!SuspendLock(t) \/ R!CheckClosed(t) \/ R!EmptyNew(t)
                 \/ R!Append_(t) \/ R!Leave(t)
              /\ UNCHANGED tvars
    /\ UNCHANGED <<cvars, txCount, rxCount, pc, pos, interrupted>>

\* should_block, first load: spare_capacity loads tail, len loads head
CountFirst(t) ==
    /\ pc[t] = "wait"
    /\ wpc[t] = "decide"
    /\ pos' = [pos EXCEPT ![t] = IF t \in Sender THEN tail ELSE head]
    /\ Jump(t, "count")
    /\ UNCHANGED <<cvars, tvars, rvars, svars, txCount, rxCount, interrupted>>

\* should_block that is always true
CountIgnored(t) ==
    /\ pc[t] = "count"
    /\ IF t \in Sender
         THEN T!ShouldBlock(t, TRUE) /\ UNCHANGED rvars
         ELSE R!ShouldBlock(t, TRUE) /\ UNCHANGED tvars
    /\ Jump(t, "wait")
    /\ UNCHANGED <<cvars, txCount, rxCount, pos, interrupted>>

\* should_block, second load: block while there is no room, or nothing to take
CountSecond(t) ==
    /\ pc[t] = "count"
    /\ IF t \in Sender
         THEN T!ShouldBlock(t, head + Slots = pos[t]) /\ UNCHANGED rvars
         ELSE R!ShouldBlock(t, tail = pos[t]) /\ UNCHANGED tvars
    /\ Jump(t, "wait")
    /\ UNCHANGED <<cvars, txCount, rxCount, pos, interrupted>>

\* whatever wait returned, the loop starts again
WaitReturn(t) ==
    /\ pc[t] = "wait"
    /\ IF t \in Sender
         THEN T!WaitEnd(t) /\ UNCHANGED rvars
         ELSE R!WaitEnd(t) /\ UNCHANGED tvars
    /\ Jump(t, Again(t))
    /\ UNCHANGED <<cvars, txCount, rxCount, pos, interrupted>>

WaitCancel(t) ==
    /\ interrupted[t]
    /\ IF t \in Sender
         THEN (T!CancelUnlink(t) \/ T!CancelComplete(t)) /\ UNCHANGED rvars
         ELSE (R!CancelUnlink(t) \/ R!CancelComplete(t)) /\ UNCHANGED tvars
    /\ UNCHANGED <<cvars, txCount, rxCount, pc, pos, interrupted>>

-----------------------------------------------------------------------------
(* Sender::closed: wait on the senders' list until it is closed *)

ClosedCall(t) ==
    /\ pc[t] = "idle"
    /\ t \in Watcher
    /\ Jump(t, "closed")
    /\ UNCHANGED <<cvars, tvars, rvars, svars, txCount, rxCount, pos, interrupted>>

\* the loop: return if closed or interrupted, otherwise wait
ClosedTest(t) ==
    /\ pc[t] = "closed"
    /\ wpc[t] = "idle"
    /\ IF tclosed \/ interrupted[t]
         THEN Jump(t, "idle") /\ UNCHANGED <<tvars, svars>>
         ELSE T!WaitBegin(t) /\ UNCHANGED pc
    /\ UNCHANGED <<cvars, rvars, txCount, rxCount, pos, interrupted>>

ClosedBlock(t) ==
    /\ pc[t] = "closed"
    /\ T!ShouldBlock(t, TRUE)
    /\ UNCHANGED <<cvars, rvars, txCount, rxCount, pc, pos, interrupted>>

\* a wait that was cancelled ends the loop, any other wake-up repeats it
ClosedReturn(t) ==
    /\ pc[t] = "closed"
    /\ T!WaitEnd(t)
    /\ Jump(t, IF wres[t] = "Cancelled" THEN "idle" ELSE "closed")
    /\ UNCHANGED <<cvars, rvars, txCount, rxCount, pos, interrupted>>

-----------------------------------------------------------------------------
(* Dropping and closing *)

\* Clone for Sender and for Receiver (of mpmc)
Clone(t, u) ==
    /\ pc[t] = "idle"
    /\ pc[u] = "new"
    /\ t \in Sender <=> u \in Sender
    /\ Jump(u, "idle")
    /\ IF t \in Sender
         THEN txCount' = txCount + 1 /\ UNCHANGED rxCount
         ELSE rxCount' = rxCount + 1 /\ UNCHANGED txCount
    /\ UNCHANGED <<cvars, tvars, rvars, svars, pos, interrupted>>

\* Drop: the last one closes the other direction
DropTask(t) ==
    /\ pc[t] = "idle"
    /\ IF t \in Sender
         THEN /\ txCount' = txCount - 1
              /\ UNCHANGED <<rxCount, tvars>>
              /\ IF txCount = 1
                   THEN R!CloseStore(t) /\ Jump(t, "closing")
                   ELSE Jump(t, "gone") /\ UNCHANGED <<rvars, svars>>
         ELSE /\ rxCount' = rxCount - 1
              /\ UNCHANGED <<txCount, rvars>>
              /\ IF rxCount = 1
                   THEN T!CloseStore(t) /\ Jump(t, "closing")
                   ELSE Jump(t, "gone") /\ UNCHANGED <<tvars, svars>>
    /\ UNCHANGED <<cvars, pos, interrupted>>

\* Receiver::close
CloseCall(t) ==
    /\ pc[t] = "idle"
    /\ t \in Receiver
    /\ T!CloseStore(t)
    /\ Jump(t, "shut")
    /\ UNCHANGED <<cvars, rvars, txCount, rxCount, pos, interrupted>>

\* wake_all of the close
Closing(t) ==
    /\ pc[t] \in {"closing", "shut"}
    /\ IF t \in Sender
         THEN /\ R!WakeAllLoad(t) \/ R!WakeAllLock(t) \/ R!WakeAllPop(t)
                 \/ R!WakeAllComplete(t)
              /\ UNCHANGED tvars
         ELSE /\ T!WakeAllLoad(t) \/ T!WakeAllLock(t) \/ T!WakeAllPop(t)
                 \/ T!WakeAllComplete(t)
              /\ UNCHANGED rvars
    /\ Jump(t, IF wpc'[t] # "idle" THEN pc[t]
               ELSE IF pc[t] = "closing" THEN "gone" ELSE "idle")
    /\ UNCHANGED <<cvars, txCount, rxCount, pos, interrupted>>

\* the last reference to the channel is dropped: drop_all
AllGone == \A t \in Task : pc[t] \in {"new", "gone"}

DropAll ==
    /\ AllGone
    /\ head # tail
    /\ head' = tail
    /\ data' = [i \in DOMAIN data |-> IF \E p \in head..(tail - 1) : Slot(p) = i
                                        THEN -1 ELSE data[i]]
    /\ UNCHANGED <<tail, sequence, tvars, rvars, svars, txCount, rxCount, pc, pos, interrupted>>

Interrupt(t) ==
    /\ t \in Interruptible
    /\ ~interrupted[t]
    /\ interrupted' = [interrupted EXCEPT ![t] = TRUE]
    /\ UNCHANGED <<cvars, tvars, rvars, svars, txCount, rxCount, pc, pos>>

-----------------------------------------------------------------------------

Run(t) ==
    \/ TestClosed(t) \/ Load(t) \/ ClaimSlot(t) \/ ClaimFails(t)
    \/ WakeOther(t) \/ Access(t) \/ Failed(t)
    \/ WaitCall(t) \/ WaitStep(t) \/ CountFirst(t) \/ CountSecond(t) \/ WaitReturn(t)
    \/ ClosedTest(t) \/ ClosedBlock(t) \/ ClosedReturn(t) \/ Closing(t)

Environment(t) ==
    \/ SendCall(t) \/ RecvCall(t) \/ ClosedCall(t) \/ DropTask(t) \/ CloseCall(t)
    \/ WaitCancel(t) \/ Interrupt(t)

Next ==
    \/ \E t \in Task : Run(t) \/ Environment(t)
    \/ \E t, u \in Task : Clone(t, u)
    \/ DropAll

Spec == Init /\ [][Next]_vars

-----------------------------------------------------------------------------
(* Properties *)

InSlot(t) == pc[t] \in {"wake", "access"}

\* "Safety: exclusive access" (mp.rs): between its claim and its store of the
\* sequence a task has the slot to itself.
SlotExclusive ==
    \A t, u \in Task :
        InSlot(t) /\ InSlot(u) /\ Slot(pos[t]) = Slot(pos[u]) => t = u

\* "this value was initialized earlier": a sender writes into an empty slot, the
\* receiver of position p reads the message that was sent at position p, and so
\* does drop_all: no message is lost, duplicated, reordered or leaked.
Delivered ==
    /\ \A t \in Task : InSlot(t) =>
         data[Slot(pos[t])] = IF t \in Sender THEN -1 ELSE pos[t]
    /\ AllGone => \A i \in DOMAIN data :
         data[i] # -1 <=> \E p \in head..(tail - 1) : Slot(p) = i /\ data[i] = p

\* "Create a bounded channel with a capacity of `size`": no more messages are in
\* the channel than it has slots.
Bounded == tail - head \in 0..Slots

\* The ring is safe to touch: a slot has one user at a time, and a message that
\* nobody has read is not overwritten.
QueueSafe == SlotExclusive /\ Bounded

Quiet == \A t \in Task : pc[t] \in {"new", "idle", "gone"} \/ wpc[t] = "parked"

\* "suspending if the channel is currently empty" / "full": when everybody is
\* idle or suspended, no receiver is suspended on a channel that holds a message
\* and no sender on one that has room.  An interrupted task, and a task in
\* closed(), can use up a wake-up that was meant for another one, so this is
\* said of the states where there is neither.
NoStall ==
    Quiet /\ (\A t \in Task : ~interrupted[t] /\ pc[t] # "closed") =>
        /\ rlist # <<>> => tail = head
        /\ tlist # <<>> => tail = head + Slots
=============================================================================
