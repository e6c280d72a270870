----------------------------- MODULE MCSignals -----------------------------
(* How a task is told to go on, each by itself: the list of waiters under    *)
(* arbitrary calls, the notify that uses it, the oneshot channel, the        *)
(* broadcast channel.                                                        *)
EXTENDS RawNotify, Oneshot, Broadcast, TLC

VARIABLE component

\* the senders of a broadcast channel are interchangeable, and so are its
\* receivers; no other component has them
Symmetry == Permutations(TxHandle) \cup Permutations(RxHandle)

MCInit ==
    /\ component \in {"list", "notify", "oneshot", "broadcast"}
    /\ Init /\ BroadcastInit
    /\ IF component = "notify" THEN NotifyInit
       ELSE /\ ListInit
            /\ count = 0 /\ closed = FALSE /\ interrupted = {} /\ started = {}
            /\ stack = <<>> /\ due = [l \in Local |-> {}]

MCNext ==
    /\ UNCHANGED component
    /\ \/ component = "list" /\ ListNext /\ UNCHANGED <<nvars, vars, bcvars>>
       \/ component = "notify" /\ NotifyNext /\ UNCHANGED <<vars, bcvars>>
       \/ component = "oneshot" /\ Next /\ UNCHANGED <<allvars, bcvars>>
       \/ component = "broadcast" /\ BroadcastNext /\ UNCHANGED <<allvars, vars>>

MCSpec == MCInit /\ [][MCNext]_<<component, allvars, vars, bcvars>>
=============================================================================
