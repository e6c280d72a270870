----------------------------- MODULE ThreadPool -----------------------------
(***************************************************************************)
(* The thread pool (src/src/threadpool/mod.rs): a queue of work under a    *)
(* mutex with a condition variable, worker threads, cancellation of queued *)
(* and of running work, and close.                                         *)
(*                                                                         *)
(* Everything between two releases of the queue's mutex is one step; the   *)
(* store to `closed`, the callback, the completion by a worker and the     *)
(* signal of cancel_direct happen outside it and are steps of their own.   *)
(* Each work has an owner on a thread of its own, which runs the future    *)
(* `submit`, may run its cancel while it is suspended in it, and frees the *)
(* work once it is resumed.  A completion wakes the owner's thread and     *)
(* does not call back into the pool.                                       *)
(*                                                                         *)
(* wpc[w]: never (its thread could not be created), start, run (in the     *)
(*   callback), finish (about to complete), relock, wait (on the condition *)
(*   variable), woken, exit                                                *)
(* opc[k]: new, pending, signal (in cancel_direct, the mutex released),    *)
(*   resumed                                                               *)
(* cpc (the thread that closes the pool): failed (new has to clean up),    *)
(*   idle, close or drop (`closed` is stored), gone (the pool is dropped)  *)
(***************************************************************************)
EXTENDS Naturals, Sequences, FiniteSets

CONSTANTS
    Worker, Work, Null,
    MayFail,          \* whether a thread may fail to start
    Interruptible     \* ThreadPool.interruptible: the signal handler is there

ASSUME NullAssumption == Null \notin Worker /\ Null \notin Work
ASSUME FiniteAssumption == IsFiniteSet(Worker) /\ IsFiniteSet(Work)
ASSUME FlagsAssumption == MayFail \in BOOLEAN /\ Interruptible \in BOOLEAN

VARIABLES
    queue, idle, closed,         \* Queue: work, idle_count, closed
    wpc, cur, cancelled,         \* Worker: where it is, cur_work, context.cancelled
    opc, worker, result,         \* Work: its owner, worker, what it was completed with
    asked,                       \* auxiliary: the work's cancel was run
    cpc,
    fault                        \* "none", or the undefined behaviour that was met

qvars == <<queue, idle, closed>>
wvars == <<wpc, cur, cancelled>>
kvars == <<opc, worker, result, asked>>
vars == <<qvars, wvars, kvars, cpc, fault>>

\* ThreadPool::new: the threads up to the first that cannot be created
Init ==
    /\ queue = <<>>
    /\ idle = Cardinality(Worker)
    /\ closed = FALSE
    /\ \E spawned \in SUBSET Worker :
         /\ MayFail \/ spawned = Worker
         /\ wpc = [w \in Worker |-> IF w \in spawned THEN "start" ELSE "never"]
         /\ cpc = IF spawned = Worker THEN "idle" ELSE "failed"
    /\ cur = [w \in Worker |-> Null]
    /\ cancelled = [w \in Worker |-> FALSE]
    /\ opc = [k \in Work |-> "new"]
    /\ worker = [k \in Work |-> Null]
    /\ result = [k \in Work |-> "None"]
    /\ asked = [k \in Work |-> FALSE]
    /\ fault = "none"

Queued == {queue[i] : i \in DOMAIN queue}
At(pos) == {w \in Worker : wpc[w] = pos}

-----------------------------------------------------------------------------
(* Worker::run *)

\* workers that are about to take the mutex and look at the queue
Ready == At("start") \cup At("woken") \cup At("relock")

\* taking the mutex: first thing in run, on return from the condition variable,
\* or after a callback
Entered(w) == IF wpc[w] \in {"start", "woken"} THEN idle - 1 ELSE idle

Exit(w) ==
    /\ w \in Ready
    /\ closed
    /\ idle' = Entered(w)
    /\ wpc' = [wpc EXCEPT ![w] = "exit"]
    /\ cur' = [cur EXCEPT ![w] = Null]
    /\ UNCHANGED <<queue, closed, cancelled, kvars, cpc, fault>>

WaitWork(w) ==
    /\ w \in Ready
    /\ ~closed
    /\ queue = <<>>
    /\ idle' = Entered(w) + 1
    /\ wpc' = [wpc EXCEPT ![w] = "wait"]
    /\ cur' = [cur EXCEPT ![w] = Null]
    /\ UNCHANGED <<queue, closed, cancelled, kvars, cpc, fault>>

\* the flag keeps the value the previous work left there
TakeKeepsFlag(w) ==
    /\ w \in Ready
    /\ ~closed
    /\ queue # <<>>
    /\ idle' = Entered(w)
    /\ queue' = Tail(queue)
    /\ worker' = [worker EXCEPT ![Head(queue)] = w]
    /\ cur' = [cur EXCEPT ![w] = Head(queue)]
    /\ wpc' = [wpc EXCEPT ![w] = "run"]
    /\ UNCHANGED <<closed, cancelled, opc, result, asked, cpc, fault>>

Take(w) ==
    /\ w \in Ready
    /\ ~closed
    /\ queue # <<>>
    /\ idle' = Entered(w)
    /\ queue' = Tail(queue)
    /\ worker' = [worker EXCEPT ![Head(queue)] = w]
    /\ cur' = [cur EXCEPT ![w] = Head(queue)]
    /\ cancelled' = [cancelled EXCEPT ![w] = FALSE]
    /\ wpc' = [wpc EXCEPT ![w] = "run"]
    /\ UNCHANGED <<closed, opc, result, asked, cpc, fault>>

CallbackReturns(w) ==
    /\ wpc[w] = "run"
    /\ wpc' = [wpc EXCEPT ![w] = "finish"]
    /\ UNCHANGED <<qvars, cur, cancelled, kvars, cpc, fault>>

\* Request::complete(request, true); cur_work is reset only under the mutex
Complete(w) ==
    /\ wpc[w] = "finish"
    /\ result' = [result EXCEPT ![cur[w]] = "true"]
    /\ wpc' = [wpc EXCEPT ![w] = "relock"]
    /\ UNCHANGED <<qvars, cur, cancelled, opc, worker, asked, cpc, fault>>

\* std's Condvar may return without a notification
SpuriousWake(w) ==
    /\ wpc[w] = "wait"
    /\ wpc' = [wpc EXCEPT ![w] = "woken"]
    /\ UNCHANGED <<qvars, cur, cancelled, kvars, cpc, fault>>

-----------------------------------------------------------------------------
(* The owner of a work *)

\* a submit that notifies nobody
SubmitSilently(k) ==
    /\ opc[k] = "new"
    /\ cpc \in {"idle", "close"}
    /\ At("never") = {}
    /\ opc' = [opc EXCEPT ![k] = "pending"]
    /\ queue' = Append(queue, k)
    /\ UNCHANGED <<idle, closed, wvars, worker, result, asked, cpc, fault>>

\* submit_direct: notify_one if a worker is counted idle
Submit(k) ==
    /\ opc[k] = "new"
    /\ cpc \in {"idle", "close"}
    /\ At("never") = {}
    /\ opc' = [opc EXCEPT ![k] = "pending"]
    /\ queue' = Append(queue, k)
    /\ IF idle # 0 /\ At("wait") # {}
         THEN \E w \in At("wait") : wpc' = [wpc EXCEPT ![w] = "woken"]
         ELSE UNCHANGED wpc
    /\ UNCHANGED <<idle, closed, cur, cancelled, worker, result, asked, cpc, fault>>

MayCancel(k) == opc[k] = "pending" /\ ~asked[k]

\* the work is completed and left in the queue
CancelLeavesLinked(k) ==
    /\ MayCancel(k)
    /\ k \in Queued
    /\ result' = [result EXCEPT ![k] = "false"]
    /\ asked' = [asked EXCEPT ![k] = TRUE]
    /\ UNCHANGED <<qvars, wvars, opc, worker, cpc, fault>>

\* cancel_direct of work that is still in the queue: it is completed here
CancelLinked(k) ==
    /\ MayCancel(k)
    /\ \E i \in DOMAIN queue :
         /\ queue[i] = k
         /\ queue' = [j \in 1..(Len(queue) - 1) |-> queue[IF j < i THEN j ELSE j + 1]]
    /\ result' = [result EXCEPT ![k] = "false"]
    /\ asked' = [asked EXCEPT ![k] = TRUE]
    /\ UNCHANGED <<idle, closed, wvars, opc, worker, cpc, fault>>

\* cancel_direct of work that a worker took: its context is told if the work is
\* still the current one there; a work that nobody took, because cancel_all
\* completed it, has no worker to look at
CancelTaken(k) ==
    /\ MayCancel(k)
    /\ k \notin Queued
    /\ asked' = [asked EXCEPT ![k] = TRUE]
    /\ IF worker[k] = Null
         THEN fault' = "null worker" /\ UNCHANGED <<cancelled, opc>>
         ELSE /\ UNCHANGED fault
              /\ IF cur[worker[k]] = k
                   THEN /\ cancelled' = [cancelled EXCEPT ![worker[k]] = TRUE]
                        /\ opc' = [opc EXCEPT ![k] = "signal"]
                   ELSE UNCHANGED <<cancelled, opc>>
    /\ UNCHANGED <<qvars, wpc, cur, worker, result, cpc>>

\* interrupt_worker: pthread_kill of a thread that has ended is undefined
Signals(ws) ==
    fault' = IF Interruptible /\ ws \cap At("exit") # {} THEN "dead thread" ELSE fault

\* cancel_direct, after the mutex is released
Signal(k) ==
    /\ opc[k] = "signal"
    /\ Signals({worker[k]})
    /\ opc' = [opc EXCEPT ![k] = "pending"]
    /\ UNCHANGED <<qvars, wvars, worker, result, asked, cpc>>

\* the owner's thread is back from the future and frees the work
Resume(k) ==
    /\ opc[k] = "pending"
    /\ result[k] # "None"
    /\ opc' = [opc EXCEPT ![k] = "resumed"]
    /\ UNCHANGED <<qvars, wvars, worker, result, asked, cpc, fault>>

-----------------------------------------------------------------------------
(* Closing *)

\* close; Drop for ThreadPool is close when no future borrows the pool
CloseStore(pos) ==
    /\ cpc \in {"failed", "idle"}
    /\ cpc = "failed" => pos = "close"
    /\ pos = "drop" => \A k \in Work : opc[k] \in {"new", "resumed"}
    /\ closed' = TRUE
    /\ cpc' = pos
    /\ UNCHANGED <<queue, idle, wvars, kvars, fault>>

\* a cancel_all that forgets to wake the workers
CancelAllSilently ==
    /\ cpc \in {"idle", "close", "drop"}
    /\ Signals(Worker)
    /\ result' = [k \in Work |-> IF k \in Queued THEN "false" ELSE result[k]]
    /\ queue' = <<>>
    /\ cpc' = IF cpc = "drop" THEN "gone" ELSE "idle"
    /\ UNCHANGED <<idle, closed, wvars, opc, worker, asked>>

\* cancel_all, also called by itself: signal every worker, complete what is in
\* the queue, notify_all
CancelAll ==
    /\ cpc \in {"idle", "close", "drop"}
    /\ Signals(Worker)
    /\ result' = [k \in Work |-> IF k \in Queued THEN "false" ELSE result[k]]
    /\ queue' = <<>>
    /\ wpc' = [w \in Worker |-> IF wpc[w] = "wait" THEN "woken" ELSE wpc[w]]
    /\ cpc' = IF cpc = "drop" THEN "gone" ELSE "idle"
    /\ UNCHANGED <<idle, closed, cur, cancelled, opc, worker, asked>>

-----------------------------------------------------------------------------

Step(w) == Exit(w) \/ WaitWork(w) \/ Take(w) \/ CallbackReturns(w) \/ Complete(w)

Owner(k) == Submit(k) \/ CancelLinked(k) \/ CancelTaken(k) \/ Signal(k) \/ Resume(k)

Next ==
    /\ fault = "none"
    /\ \/ \E w \in Worker : Step(w) \/ SpuriousWake(w)
       \/ \E k \in Work : Owner(k)
       \/ \E pos \in {"close", "drop"} : CloseStore(pos)
       \/ CancelAll

Spec == Init /\ [][Next]_vars

\* threads that can run do run, and callbacks return
Fairness ==
    /\ \A w \in Worker : WF_vars(fault = "none" /\ Step(w))
    /\ WF_vars(fault = "none" /\ cpc \in {"close", "drop"} /\ CancelAll)

FairSpec == Spec /\ Fairness

-----------------------------------------------------------------------------
(* Properties *)

\* The variables have their types.
TypeOK ==
    /\ queue \in Seq(Work)
    /\ idle \in 0..Cardinality(Worker)
    /\ closed \in BOOLEAN
    /\ wpc \in [Worker -> {"never", "start", "run", "finish", "relock", "wait", "woken", "exit"}]
    /\ cur \in [Worker -> Work \cup {Null}]
    /\ cancelled \in [Worker -> BOOLEAN]
    /\ opc \in [Work -> {"new", "pending", "signal", "resumed"}]
    /\ worker \in [Work -> Worker \cup {Null}]
    /\ result \in [Work -> {"None", "true", "false"}]
    /\ asked \in [Work -> BOOLEAN]
    /\ cpc \in {"failed", "idle", "close", "drop", "gone"}
    /\ fault \in {"none", "null worker", "dead thread"}

Busy(w) == wpc[w] \in {"run", "finish"}

Waits(k) == opc[k] \in {"pending", "signal"} /\ result[k] = "None"

\* Completed once, freed in time: a work is in the queue or with a worker, in
\* one place only, exactly as long as its owner waits for it and it was not
\* completed.  "no further completions are possible" (cancel_direct).
WorkOwned ==
    /\ \A k \in Work :
         Waits(k) <=> k \in Queued \/ \E w \in Worker : Busy(w) /\ cur[w] = k
    /\ \A i, j \in DOMAIN queue : queue[i] = queue[j] => i = j
    /\ \A v, w \in Worker : Busy(v) /\ Busy(w) /\ cur[v] = cur[w] => v = w
    /\ \A w \in Worker : Busy(w) => cur[w] \in Work \ Queued

\* TaskContext::cancelled tells a callback about its own work: never about the
\* work the thread ran before, although cancel_direct reaches it through the
\* thread.
OwnCancel == \A w \in Worker : wpc[w] = "run" => (cancelled[w] <=> asked[cur[w]])

\* While a worker sleeps on the condition variable, the others that are about
\* to look at the queue are enough for all of it: skipping notify_one when
\* idle_count is zero costs nothing.
NoSleeper == ~closed /\ At("wait") # {} => Len(queue) <= Cardinality(Ready)

\* The counter is exact, whatever the workers and spurious wake-ups do.
IdleExact == idle = Cardinality(At("never") \cup At("start") \cup At("wait") \cup At("woken"))

\* What cancel_direct and submit_direct read of a worker that may have moved on
\* to another work: its flag speaks of the work it runs, and the idle counter of
\* those that will look at the queue.
CancelExact == OwnCancel /\ IdleExact

\* What makes the properties above inductive: a worker's work points back to
\* it, and work is neither cancelled nor completed before it is submitted, nor
\* queued after it is cancelled.
WorkLinks ==
    /\ \A w \in Worker : Busy(w) => worker[cur[w]] = w
    /\ \A k \in Work : asked[k] => opc[k] # "new" /\ k \notin Queued
    /\ \A k \in Work : opc[k] = "new" => result[k] = "None"

PoolInv == TypeOK /\ WorkOwned /\ WorkLinks /\ OwnCancel /\ IdleExact /\ NoSleeper

\* Everything submitted before the pool is closed is completed, by a worker or
\* by the close (a work submitted later stays in the queue).
WorkEnds ==
    \A k \in Work :
        opc[k] = "pending" /\ (~closed \/ cpc = "close")
            ~> result[k] # "None" \/ fault # "none"

\* Once the pool is closed every worker's thread ends.
WorkersEnd == closed ~> fault # "none" \/ \A w \in Worker : wpc[w] \in {"never", "exit"}

\* The pool comes to an end: every work that was submitted in time completes and,
\* after close, every thread ends.
PoolEnds == WorkEnds /\ WorkersEnd

\* "workers must be valid" (cancel_direct): the worker of a work that is out of
\* the queue can be looked at.
WorkerValid == fault # "null worker"

\* "this function is safe to call" (os/signal.rs): threads are signalled while
\* they exist.
SignalsAlive == fault # "dead thread"
=============================================================================
