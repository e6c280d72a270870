---------------------------- MODULE AtomicWaiter ----------------------------
(***************************************************************************)
(* The lock-free slot for one suspended task                               *)
(* (src/src/async_std/sync/wait_list.rs, AtomicWaiter): a pointer to the   *)
(* request of the task that waits, null, or the value `closed`.            *)
(*                                                                         *)
(* Tasks are on different threads; every access to the pointer is a step.  *)
(* A request can be completed as soon as it is in the slot, also before    *)
(* the future's run has returned Pending: block_on_thread_safe keeps the   *)
(* result, so a task parks only if it was not completed yet.               *)
(*                                                                         *)
(* apc[t]: idle; check, retract, handoff (inside suspend); parked;         *)
(*   unlinked (cancel owns the request); ending (the result is there);     *)
(*   complete (wake or close holds the request it took out)                *)
(***************************************************************************)
CONSTANTS Task, Null, Closed

ASSUME PointersAssumption == Null \notin Task /\ Closed \notin Task /\ Null # Closed

VARIABLES
    waiter,   \* the AtomicPtr
    apc,
    held,     \* pointer the task took out of the slot and has not dealt with
    error,    \* local variable of suspend: "None", "Cancelled" or "Closed"
    ares      \* result of the task's request: "None" until it is completed

avars == <<waiter, apc, held, error, ares>>

Inside == {"check", "retract", "handoff"}

WaiterInit ==
    /\ waiter = Null
    /\ apc = [t \in Task |-> "idle"]
    /\ held = [t \in Task |-> Null]
    /\ error = [t \in Task |-> "None"]
    /\ ares = [t \in Task |-> "None"]

\* fetch_update of set_waiter: everything but closed is replaced
SetWaiter(t, new) ==
    /\ held' = [held EXCEPT ![t] = waiter]
    /\ waiter' = IF waiter = Closed THEN Closed ELSE new

\* Request::complete(u, r) by t, which goes on at pos
Finish(t, pos, u, r) ==
    /\ ares' = [ares EXCEPT ![u] = r]
    /\ apc' = [apc EXCEPT ![t] = pos, ![u] = IF @ = "parked" THEN "ending" ELSE @]

-----------------------------------------------------------------------------
(* suspend *)

Suspend(t) ==
    /\ apc[t] = "idle"
    /\ SetWaiter(t, t)
    /\ apc' = [apc EXCEPT ![t] = "check"]
    /\ UNCHANGED <<error, ares>>

ShouldBlock(t, b) ==
    /\ apc[t] = "check"
    /\ apc' = [apc EXCEPT ![t] = IF b THEN "handoff" ELSE "retract"]
    /\ UNCHANGED <<waiter, held, error, ares>>

\* a retraction that does not notice that a wake is already in progress
RetractAlways(t) ==
    /\ apc[t] = "retract"
    /\ waiter' = IF waiter = t THEN Null ELSE waiter
    /\ error' = [error EXCEPT ![t] = "Cancelled"]
    /\ apc' = [apc EXCEPT ![t] = "handoff"]
    /\ UNCHANGED <<held, ares>>

\* cancel_wait after should_block was false; "wake may already be in progress"
Retract(t) ==
    /\ apc[t] = "retract"
    /\ waiter' = IF waiter = t THEN Null ELSE waiter
    /\ error' = [error EXCEPT ![t] = IF waiter = t THEN "Cancelled" ELSE "None"]
    /\ apc' = [apc EXCEPT ![t] = "handoff"]
    /\ UNCHANGED <<held, ares>>

\* the previous waiter is overwritten and never told
HandoffForgets(t) ==
    /\ apc[t] = "handoff"
    /\ LET e == IF held[t] = Closed THEN "Closed" ELSE error[t]
           r == IF e # "None" THEN e ELSE ares[t] IN
         /\ ares' = [ares EXCEPT ![t] = r]
         /\ apc' = [apc EXCEPT ![t] = IF r = "None" THEN "parked" ELSE "ending"]
    /\ held' = [held EXCEPT ![t] = Null]
    /\ error' = [error EXCEPT ![t] = "None"]
    /\ UNCHANGED waiter

\* the previous waiter, if any, is cancelled; then suspend returns Done(Err) or
\* Pending, in which case the task parks unless it was completed meanwhile
Handoff(t) ==
    /\ apc[t] = "handoff"
    /\ LET u == held[t]
           e == IF u = Closed THEN "Closed" ELSE error[t]
           r == IF e # "None" THEN e ELSE ares[t]
           pos == IF r = "None" THEN "parked" ELSE "ending" IN
         IF u \in Task
           THEN /\ ares' = [ares EXCEPT ![u] = "Cancelled", ![t] = r]
                /\ apc' = [apc EXCEPT ![u] = IF @ = "parked" THEN "ending" ELSE @,
                                      ![t] = pos]
           ELSE /\ ares' = [ares EXCEPT ![t] = r]
                /\ apc' = [apc EXCEPT ![t] = pos]
    /\ held' = [held EXCEPT ![t] = Null]
    /\ error' = [error EXCEPT ![t] = "None"]
    /\ UNCHANGED waiter

\* cancel of a pending suspend: takes the request back if it is still there
CancelWait(t) ==
    /\ apc[t] = "parked"
    /\ waiter = t
    /\ waiter' = Null
    /\ apc' = [apc EXCEPT ![t] = "unlinked"]
    /\ UNCHANGED <<held, error, ares>>

CancelComplete(t) ==
    /\ apc[t] = "unlinked"
    /\ ares' = [ares EXCEPT ![t] = "Cancelled"]
    /\ apc' = [apc EXCEPT ![t] = "ending"]
    /\ UNCHANGED <<waiter, held, error>>

\* wait returns
WaitEnd(t) ==
    /\ apc[t] = "ending"
    /\ ares' = [ares EXCEPT ![t] = "None"]
    /\ apc' = [apc EXCEPT ![t] = "idle"]
    /\ UNCHANGED <<waiter, held, error>>

-----------------------------------------------------------------------------
(* wake_internal: wake puts null into the slot, close puts closed *)

\* wake that stores null also over closed
WakeReopens(t, new) ==
    /\ apc[t] = "idle"
    /\ waiter' = new
    /\ held' = [held EXCEPT ![t] = IF waiter \in Task THEN waiter ELSE Null]
    /\ apc' = [apc EXCEPT ![t] = IF waiter \in Task THEN "complete" ELSE "idle"]
    /\ UNCHANGED <<error, ares>>

WakeInternal(t, new) ==
    /\ apc[t] = "idle"
    /\ waiter' = IF waiter = Closed THEN Closed ELSE new
    /\ held' = [held EXCEPT ![t] = IF waiter \in Task THEN waiter ELSE Null]
    /\ apc' = [apc EXCEPT ![t] = IF waiter \in Task THEN "complete" ELSE "idle"]
    /\ UNCHANGED <<error, ares>>

WakeComplete(t) ==
    /\ apc[t] = "complete"
    /\ Finish(t, "idle", held[t], "Ok")
    /\ held' = [held EXCEPT ![t] = Null]
    /\ UNCHANGED <<waiter, error>>

-----------------------------------------------------------------------------

Wait(t) ==
    \/ Suspend(t) \/ (\E b \in BOOLEAN : ShouldBlock(t, b)) \/ Retract(t)
    \/ Handoff(t) \/ WaitEnd(t)

WaiterNext ==
    \E t \in Task :
        \/ Wait(t) \/ CancelWait(t) \/ CancelComplete(t)
        \/ (\E new \in {Null, Closed} : WakeInternal(t, new))
        \/ WakeComplete(t)

WaiterSpec == WaiterInit /\ [][WaiterNext]_avars

-----------------------------------------------------------------------------
(* Properties *)

\* The variables have their types.
WaiterTypeOK ==
    /\ waiter \in Task \cup {Null, Closed}
    /\ apc \in [Task -> {"idle", "parked", "unlinked", "ending", "complete"} \cup Inside]
    /\ held \in [Task -> Task \cup {Null, Closed}]
    /\ error \in [Task -> {"None", "Cancelled", "Closed"}]
    /\ ares \in [Task -> {"None", "Ok", "Cancelled", "Closed"}]

\* x has the request of t and will complete it: the slot (x = Null), or a task
\* that took it out of the slot.
Holder == Task \cup {Null}
Owns(x, t) == IF x = Null THEN waiter = t ELSE held[x] = t

\* A request is completed once: it has at most one owner, none once it is
\* completed or retracted, and the owner finds the waiting task alive.
OneOwner ==
    \A t \in Task, x \in Holder : Owns(x, t) =>
        /\ \A y \in Holder : Owns(y, t) => x = y
        /\ apc[t] \in Inside \cup {"parked"}
        /\ ares[t] = "None" /\ error[t] = "None"

\* A parked task has an owner, so a wake, a close, another waiter or its own
\* cancel reaches it.
Reachable == \A t \in Task : apc[t] = "parked" => \E x \in Holder : Owns(x, t)

\* is_closed never turns false again: no wake and no wait reopens a closed
\* waiter.
ClosedForGood == [][waiter = Closed => waiter' = Closed]_avars

\* A pointer out of the slot is somebody else's and is dealt with before its
\* holder goes on.
HeldBriefly ==
    \A t \in Task :
        /\ held[t] # t
        /\ held[t] # Null => apc[t] \in Inside \cup {"complete"}
        /\ apc[t] = "complete" => held[t] \in Task

\* A task about to suspend that has no reason to return has an owner; one that
\* found the waiter closed never got into the slot.
Expected ==
    \A t \in Task :
        /\ apc[t] \in Inside /\ error[t] = "None" /\ ares[t] = "None" /\ held[t] # Closed
             => \E x \in Holder : Owns(x, t)
        /\ held[t] = Closed => \A x \in Holder : ~Owns(x, t)
        /\ apc[t] \notin Inside \cup {"ending"} => ares[t] = "None"
        /\ apc[t] # "handoff" => error[t] = "None"

\* The inductive invariant.
WaiterInv == WaiterTypeOK /\ OneOwner /\ Reachable /\ HeldBriefly /\ Expected
=============================================================================
