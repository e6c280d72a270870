----------------------------- MODULE MCFutures -----------------------------
(* What a task is stopped on and started by, each by itself: a branch of two *)
(* futures, a blocking call, the atomic waiter, a fiber.                     *)
EXTENDS Branch, BlockOn, AtomicWaiter, FiberPool

VARIABLE component

MCInit ==
    /\ component \in {"branch", "block_on", "waiter", "fiber"}
    /\ BranchInit /\ BlockInit /\ WaiterInit /\ FiberInit
    /\ component # "branch" => mode = "select"
    /\ component # "block_on" => bmode = "sync"
    /\ component # "fiber" => ~pooling

MCNext ==
    /\ UNCHANGED component
    /\ \/ component = "branch" /\ BranchNext /\ UNCHANGED <<bvars, avars, fvars>>
       \/ component = "block_on" /\ BlockNext /\ UNCHANGED <<brvars, avars, fvars>>
       \/ component = "waiter" /\ WaiterNext /\ UNCHANGED <<brvars, bvars, fvars>>
       \/ component = "fiber" /\ FiberNext /\ UNCHANGED <<brvars, bvars, avars>>

MCSpec == MCInit /\ [][MCNext]_<<component, brvars, bvars, avars, fvars>> /\ BlockFairness
=============================================================================
