----------------------------- MODULE MCExecutor -----------------------------
(* Where a coroutine runs and where it is left, each by itself: the workers  *)
(* of one thread, the list of suspended tasks that any thread may call.      *)
EXTENDS Executor, ThreadSafeWaitList

VARIABLE component

MCInit ==
    /\ component \in {"executor", "wait_list"}
    /\ Init /\ WaitListInit

MCNext ==
    /\ UNCHANGED component
    /\ \/ component = "executor" /\ Next /\ UNCHANGED wvars
       \/ component = "wait_list" /\ WaitListNext /\ UNCHANGED vars

MCSpec == MCInit /\ [][MCNext]_<<component, vars, wvars>> /\ Fairness
=============================================================================
