------------------------------ MODULE Oneshot ------------------------------
(***************************************************************************)
(* The oneshot channel (src/src/async_std/sync/channel/oneshot.rs): one    *)
(* sender and one receiver on different threads, a flag for the value and  *)
(* one AtomicWaiter for each side.                                         *)
(*                                                                         *)
(* pc: what the side does next (apc says where it is inside a waiter):     *)
(*   Snd: idle, wait, send (close rx), sent (look at tx), back (take the   *)
(*        value back), drop (close tx), drop2 (close rx), gone             *)
(*   Rcv: idle, wait, try (swap the flag), got (close tx), none (look at   *)
(*        tx), close (close tx), close2 (close rx), drop (close tx),       *)
(*        drop2 (swap the flag), gone                                      *)
(***************************************************************************)
EXTENDS Naturals, Sequences

CONSTANTS Snd, Rcv, Null, Closed

ASSUME NamesAssumption == Snd # Rcv /\ Null # Closed /\ {Null, Closed} \cap {Snd, Rcv} = {}

VARIABLES
    sent,                      \* AtomicBool: the value is in the channel
    tx, rx,                    \* the two AtomicWaiters
    apc, held, error, ares,    \* where each side is inside a waiter
    pc,
    sendResult,                \* auxiliary: None, Ok or Err
    recvResult,                \* auxiliary: the last result of (try_)recv
    robust,                    \* auxiliary: the receiver did close, then a
                               \* try_recv: "no", "closed", "tried"
    reads                      \* auxiliary: who took the value out, in order

wvars == <<apc, held, error, ares>>
hvars == <<sendResult, recvResult, robust, reads>>
vars == <<sent, tx, rx, wvars, pc, hvars>>

Side == {Snd, Rcv}

Tx == INSTANCE AtomicWaiter WITH Task <- Side, waiter <- tx
Rx == INSTANCE AtomicWaiter WITH Task <- Side, waiter <- rx

Init ==
    /\ sent = FALSE
    /\ Tx!WaiterInit
    /\ rx = Null
    /\ pc = [s \in Side |-> "idle"]
    /\ sendResult = "None"
    /\ recvResult = "None"
    /\ robust = "no"
    /\ reads = <<>>

Jump(s, pos) == pc' = [pc EXCEPT ![s] = pos]

-----------------------------------------------------------------------------
(* The waiters, as the channel uses them *)

\* close of tx or of rx, at pos; the next step of the side is at then
CloseTx(s, pos, then) ==
    /\ pc[s] = pos
    /\ Tx!WakeInternal(s, Closed) \/ Tx!WakeComplete(s)
    /\ Jump(s, IF apc'[s] = "idle" THEN then ELSE pos)
    /\ UNCHANGED <<sent, rx, hvars>>

CloseRx(s, pos, then) ==
    /\ pc[s] = pos
    /\ Rx!WakeInternal(s, Closed) \/ Rx!WakeComplete(s)
    /\ Jump(s, IF apc'[s] = "idle" THEN then ELSE pos)
    /\ UNCHANGED <<sent, tx, hvars>>

\* wait_thread_safe: should_block is always true; an interrupt may cancel it
WaitTx ==
    /\ pc[Snd] = "wait"
    /\ \/ Tx!Suspend(Snd) \/ Tx!ShouldBlock(Snd, TRUE) \/ Tx!Handoff(Snd)
       \/ Tx!CancelWait(Snd) \/ Tx!CancelComplete(Snd) \/ Tx!WaitEnd(Snd)
    /\ Jump(Snd, IF apc'[Snd] = "idle" THEN "idle" ELSE "wait")
    /\ UNCHANGED <<sent, rx, hvars>>

WaitRx ==
    /\ pc[Rcv] = "wait"
    /\ \/ Rx!Suspend(Rcv) \/ Rx!ShouldBlock(Rcv, TRUE) \/ Rx!Handoff(Rcv)
       \/ Rx!CancelWait(Rcv) \/ Rx!CancelComplete(Rcv) \/ Rx!WaitEnd(Rcv)
    /\ Jump(Rcv, IF apc'[Rcv] = "idle" THEN "try" ELSE "wait")
    /\ UNCHANGED <<sent, tx, hvars>>

\* the flag is tested and not taken
ConsumeLoads(s) ==
    /\ reads' = IF sent THEN Append(reads, s) ELSE reads
    /\ UNCHANGED sent

\* try_consume_value: the swap decides who reads the value
TryConsume(s) ==
    /\ reads' = IF sent THEN Append(reads, s) ELSE reads
    /\ sent' = FALSE

-----------------------------------------------------------------------------
(* Sender *)

\* closed(); for an interrupted task check_interrupt returns at once, which
\* changes nothing
Closed_ ==
    /\ pc[Snd] = "idle"
    /\ Jump(Snd, "wait")
    /\ UNCHANGED <<sent, tx, rx, wvars, hvars>>

\* send: the value is written, then the flag is stored
Send ==
    /\ pc[Snd] = "idle"
    /\ sendResult = "None"
    /\ sent' = TRUE
    /\ Jump(Snd, "send")
    /\ UNCHANGED <<tx, rx, wvars, hvars>>

SendClose == CloseRx(Snd, "send", "sent")

\* send: Ok unless the receiver has closed the channel
SendCheck ==
    /\ pc[Snd] = "sent"
    /\ IF tx = Closed
         THEN Jump(Snd, "back") /\ UNCHANGED sendResult
         ELSE Jump(Snd, "drop") /\ sendResult' = "Ok"
    /\ UNCHANGED <<sent, tx, rx, wvars, recvResult, robust, reads>>

\* send on a closed channel: Err(value) if the value is still there
SendBack ==
    /\ pc[Snd] = "back"
    /\ TryConsume(Snd)
    /\ sendResult' = IF sent THEN "Err" ELSE "Ok"
    /\ Jump(Snd, "drop")
    /\ UNCHANGED <<tx, rx, wvars, recvResult, robust>>

\* only the sender's own waiter is closed
DropForgetsRx ==
    \/ /\ pc[Snd] = "idle"
       /\ Jump(Snd, "drop")
       /\ UNCHANGED <<sent, tx, rx, wvars, hvars>>
    \/ CloseTx(Snd, "drop", "gone")

\* Drop for Sender, without or after a send: Channel::close
DropSender ==
    \/ /\ pc[Snd] = "idle"
       /\ Jump(Snd, "drop")
       /\ UNCHANGED <<sent, tx, rx, wvars, hvars>>
    \/ CloseTx(Snd, "drop", "drop2")
    \/ CloseRx(Snd, "drop2", "gone")

-----------------------------------------------------------------------------
(* Receiver *)

\* try_recv, or recv by an interrupted task (pos = "try"); recv (pos = "wait")
Recv(pos) ==
    /\ pc[Rcv] = "idle"
    /\ Jump(Rcv, pos)
    /\ UNCHANGED <<sent, tx, rx, wvars, hvars>>

TryRecv ==
    /\ pc[Rcv] = "try"
    /\ TryConsume(Rcv)
    /\ Jump(Rcv, IF sent THEN "got" ELSE "none")
    /\ robust' = IF robust = "closed" THEN "tried" ELSE robust
    /\ recvResult' = IF sent THEN "Ok" ELSE recvResult
    /\ UNCHANGED <<tx, rx, wvars, sendResult>>

TryRecvClose == CloseTx(Rcv, "got", "idle")

TryRecvNone ==
    /\ pc[Rcv] = "none"
    /\ recvResult' = IF recvResult = "Ok" THEN "Ok"
                     ELSE IF tx = Closed THEN "Closed" ELSE "Empty"
    /\ Jump(Rcv, "idle")
    /\ UNCHANGED <<sent, tx, rx, wvars, sendResult, robust, reads>>

\* close; it has the receiver to itself, so nobody waits on rx
CloseRecv ==
    \/ /\ pc[Rcv] = "idle"
       /\ Jump(Rcv, "close")
       /\ UNCHANGED <<sent, tx, rx, wvars, hvars>>
    \/ CloseTx(Rcv, "close", "close2")
    \/ /\ pc[Rcv] = "close2"
       /\ Rx!WakeInternal(Rcv, Closed)
       /\ Jump(Rcv, "idle")
       /\ robust' = IF robust = "no" THEN "closed" ELSE robust
       /\ UNCHANGED <<sent, tx, sendResult, recvResult, reads>>

\* Drop for Receiver: "the value may already be sent. try a read here"
DropReceiver ==
    \/ /\ pc[Rcv] = "idle"
       /\ Jump(Rcv, "drop")
       /\ UNCHANGED <<sent, tx, rx, wvars, hvars>>
    \/ CloseTx(Rcv, "drop", "drop2")
    \/ /\ pc[Rcv] = "drop2"
       /\ TryConsume(Rcv)
       /\ Jump(Rcv, "gone")
       /\ UNCHANGED <<tx, rx, wvars, sendResult, recvResult, robust>>

-----------------------------------------------------------------------------

Sender == Closed_ \/ WaitTx \/ Send \/ SendClose \/ SendCheck \/ SendBack \/ DropSender

Receiver ==
    \/ (\E pos \in {"try", "wait"} : Recv(pos))
    \/ WaitRx \/ TryRecv \/ TryRecvClose \/ TryRecvNone \/ CloseRecv \/ DropReceiver

Next == Sender \/ Receiver

Spec == Init /\ [][Next]_vars

-----------------------------------------------------------------------------
(* Properties *)

Gone == \A s \in Side : pc[s] = "gone"

\* The value is read out of the channel at most once, and when both sides are
\* gone a value that was sent has been read: neither used twice nor leaked,
\* however send, recv, close and the two drops overlap.
ReadOnce ==
    /\ Len(reads) <= 1
    /\ Gone => ~sent

\* What the two sides are told agrees: a sender that gets its value back is the
\* one that read it, and a receiver that got it is too.
ResultsAgree ==
    /\ sendResult = "Err" => reads = <<Snd>>
    /\ recvResult = "Ok" => reads = <<Rcv>>
    /\ pc[Snd] = "gone" /\ sendResult = "Ok" => sent \/ reads = <<Rcv>>

\* The value ends in one place, and both sides are told the truth about it.
ValueOnce == ReadOnce /\ ResultsAgree

\* Nobody waits for a side that is gone: its close woke the other or came first.
OtherSideWoken ==
    /\ pc[Snd] = "gone" => ~(pc[Rcv] = "wait" /\ apc[Rcv] = "parked")
    /\ pc[Rcv] = "gone" => ~(pc[Snd] = "wait" /\ apc[Snd] = "parked")

\* "the receiving end should close the channel first and try a recv before
\* dropping the receiver.  This guarantees that either the receiving end
\* received the value, or the value be returned as an error on the sending
\* side" (oneshot.rs).  Not so when the sender stores the value after the
\* try_recv and the receiver's drop reads it before the sender can.
RobustFeedback ==
    Gone /\ robust = "tried" /\ sendResult # "None" =>
        recvResult = "Ok" \/ sendResult = "Err"
=============================================================================
