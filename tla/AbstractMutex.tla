---------------------------- MODULE AbstractMutex ----------------------------
(***************************************************************************)
(* What the asynchronous mutex promises (the documentation of              *)
(* src/src/async_std/sync/mutex.rs and of std::sync::Mutex it refers to):  *)
(* at most one task owns the value; a task that panics while it owns the   *)
(* value poisons the mutex before anyone else can own it; every owner is   *)
(* told whether the mutex was poisoned when it received the value.         *)
(***************************************************************************)
CONSTANTS Task, NoTask

VARIABLES
    owner,     \* the task that owns the value, or NoTask
    poison,    \* the mutex is poisoned
    verdict    \* what the owner was told: "None" until its lock call returns

avars == <<owner, poison, verdict>>

Init ==
    /\ owner = NoTask
    /\ poison = FALSE
    /\ verdict = [t \in Task |-> "None"]

Acquire(t) ==
    /\ owner = NoTask
    /\ owner' = t
    /\ UNCHANGED <<poison, verdict>>

\* the lock call returns a guard, inside Ok or inside Err(Poisoned)
Return(t) ==
    /\ owner = t
    /\ verdict[t] = "None"
    /\ verdict' = [verdict EXCEPT ![t] = IF poison THEN "Poisoned" ELSE "Ok"]
    /\ UNCHANGED <<owner, poison>>

\* only the owner, after its lock call returned, can poison the mutex
Poison(t) ==
    /\ owner = t
    /\ verdict[t] # "None"
    /\ poison' = TRUE
    /\ UNCHANGED <<owner, verdict>>

Release(t) ==
    /\ owner = t
    /\ verdict[t] # "None"
    /\ owner' = NoTask
    /\ verdict' = [verdict EXCEPT ![t] = "None"]
    /\ UNCHANGED poison

ClearPoison ==
    /\ poison' = FALSE
    /\ UNCHANGED <<owner, verdict>>

Next ==
    \/ \E t \in Task : Acquire(t) \/ Return(t) \/ Poison(t) \/ Release(t)
    \/ ClearPoison

Spec == Init /\ [][Next]_avars
=============================================================================
