------------------------------ MODULE Executor ------------------------------
(***************************************************************************)
(* One thread's executor: workers (fibers) that start, suspend, resume and *)
(* exit, the tasks spawned on them, their join handles and interrupts.     *)
(*   src/src/coroutines/executor.rs, worker.rs   switching                 *)
(*   src/src/coroutines/spawn.rs                 spawn, JoinHandle         *)
(*   src/src/coroutines/context.rs               block_on, interrupt       *)
(*   src/src/future/block_on.rs                  block_on, block_resume    *)
(*                                                                         *)
(* Everything runs on one thread: only the current worker takes steps, and *)
(* what interleaves is where user code and callbacks call back into the    *)
(* executor.  A worker w belongs to one task and one Context, so context,  *)
(* task and worker share the name w.  Main is the thread's own worker: the *)
(* event loop, which has no Context and never suspends.                    *)
(*                                                                         *)
(* pc[w] is what the worker does when it has, or gets back, control:       *)
(*   free    not started                                                   *)
(*   user    runs its task                                                 *)
(*   spawn   in Spawn::run, until start(child[w]) returns                  *)
(*   start   in block_on(spawn_task), until start(child[w]) returns        *)
(*   event   suspended in block_on of an I/O or timer future               *)
(*   join    suspended in block_on of JoinHandle::join of child[w]         *)
(*   await   suspended in block_on of spawn_task of child[w]               *)
(*   exit    its task is over and its request was completed                *)
(*   dead    exited                                                        *)
(***************************************************************************)
EXTENDS Integers, Sequences, FiniteSets

CONSTANTS
    Worker, Main, Null,
    DebugAssertions,     \* cfg(debug_assertions)
    Guarding,            \* bound: the workers whose tasks use interrupt guards
    MaxGuards            \* bound: interrupt guards a task nests

ASSUME NamesAssumption ==
    Main \notin Worker /\ Null \notin Worker /\ Main # Null /\ IsFiniteSet(Worker)
ASSUME DebugAssumption == DebugAssertions \in BOOLEAN
ASSUME GuardsAssumption == Guarding \subseteq Worker /\ MaxGuards \in Nat

VARIABLES
    current,      \* Executor.current
    caller,       \* Worker.caller
    pc, child,
    isAsync,      \* execute's is_async: start returned before the task ended
    done,         \* SpawnData::Done was written: the task ended inside start
    request,      \* whom completion resumes: an awaiting worker, or Null for
                  \* the request of a Spawn (a join handle)
    hcancel, houtput, hwaiter,   \* SpawnHandle: cancel, output, waiter
    handle,       \* a JoinHandle exists that user code can use
    rc,           \* strong count of the Rc<Spawn>
    interrupted, guards, token,  \* Context: interrupted, guards, cancel
    signal,       \* the context whose interrupt is being run, or Null
    fault         \* an unsafe precondition that was violated, or "none"

svars == <<isAsync, done, request>>
hvars == <<hcancel, houtput, hwaiter, handle, rc>>
ivars == <<interrupted, guards>>
vars == <<current, caller, pc, child, svars, hvars, ivars, token, signal, fault>>

Blocked == {"event", "join", "await"}
OnStack == {"user", "spawn", "start", "exit"}

Init ==
    /\ current = Main
    /\ caller = [w \in Worker |-> Null]
    /\ pc = [w \in Worker \cup {Main} |-> IF w = Main THEN "user" ELSE "free"]
    /\ child = [w \in Worker \cup {Main} |-> Null]
    /\ isAsync = [w \in Worker |-> FALSE]
    /\ done = [w \in Worker |-> FALSE]
    /\ request = [w \in Worker |-> Null]
    /\ hcancel = [w \in Worker |-> FALSE]
    /\ houtput = [w \in Worker |-> FALSE]
    /\ hwaiter = [w \in Worker |-> Null]
    /\ handle = [w \in Worker |-> FALSE]
    /\ rc = [w \in Worker |-> 0]
    /\ interrupted = [w \in Worker |-> FALSE]
    /\ guards = [w \in Worker |-> 0]
    /\ token = [w \in Worker |-> FALSE]
    /\ signal = Null
    /\ fault = "none"

-----------------------------------------------------------------------------
(* Executor::suspend, resume and exit *)

Check(condition, name) == fault' = IF condition \/ fault # "none" THEN fault ELSE name

\* suspend to the event loop, whoever resumed the worker
SuspendToMain(w) ==
    /\ Check(caller[w] # Null, "double suspend")
    /\ current' = Main
    /\ caller' = IF DebugAssertions THEN [caller EXCEPT ![w] = Null] ELSE caller

\* suspend that forgets to hand control back
SuspendStays(w) ==
    /\ Check(caller[w] # Null, "double suspend")
    /\ current' = current
    /\ caller' = IF DebugAssertions THEN [caller EXCEPT ![w] = Null] ELSE caller

\* suspend clears caller only under debug_assertions
Suspend(w) ==
    /\ Check(caller[w] # Null, "double suspend")
    /\ current' = caller[w]
    /\ caller' = IF DebugAssertions THEN [caller EXCEPT ![w] = Null] ELSE caller

\* resume that records the event loop as the caller
ResumeFromMain(w) ==
    /\ Check(caller[w] = Null, "double resume")
    /\ current' = w
    /\ caller' = [caller EXCEPT ![w] = Main]

\* resume, and start of a new worker
Resume(w) ==
    /\ Check(caller[w] = Null, "double resume")
    /\ current' = w
    /\ caller' = [caller EXCEPT ![w] = current]

\* exit consumes the worker
ExitTo(w) ==
    /\ Check(caller[w] # Null, "double suspend")
    /\ current' = caller[w]
    /\ caller' = [caller EXCEPT ![w] = Null]

\* w has control, goes on from pos, and no interrupt is being delivered
At(w, pos) ==
    /\ current = w
    /\ pc[w] = pos
    /\ signal = Null
    /\ fault = "none"

\* w runs user code
Running(w) == At(w, "user")

\* block_resume and the rest of Context::block_on in the resumed worker
Unblock(w) ==
    /\ pc' = [pc EXCEPT ![w] = "user"]
    /\ child' = [child EXCEPT ![w] = Null]
    /\ token' = [token EXCEPT ![w] = FALSE]

-----------------------------------------------------------------------------
(* Spawning *)

\* new_worker, start, and worker_start up to the task's first step
StartChild(w, c) ==
    /\ pc[c] = "free"
    /\ child' = [child EXCEPT ![w] = c]
    /\ Resume(c)

\* Spawn::run; w may be the event loop
Spawn(w, c) ==
    /\ Running(w)
    /\ StartChild(w, c)
    /\ pc' = [pc EXCEPT ![c] = "user", ![w] = "spawn"]
    /\ rc' = [rc EXCEPT ![c] = 1]
    /\ UNCHANGED <<svars, hcancel, houtput, hwaiter, handle, ivars, token, signal>>

\* block_on(spawn_task(..)): the child completes straight to w
SpawnAwait(w, c) ==
    /\ Running(w)
    /\ StartChild(w, c)
    /\ pc' = [pc EXCEPT ![c] = "user", ![w] = "start"]
    /\ request' = [request EXCEPT ![c] = w]
    /\ UNCHANGED <<isAsync, done, hvars, ivars, token, signal>>

\* start returned inside Spawn::run: the child is Done or Pending
SpawnReturn(w) ==
    /\ At(w, "spawn")
    /\ LET c == child[w] IN
         /\ IF done[c]
              THEN /\ houtput' = [houtput EXCEPT ![c] = TRUE]
                   /\ UNCHANGED <<isAsync, hcancel, rc>>
              ELSE /\ isAsync' = [isAsync EXCEPT ![c] = TRUE]
                   /\ hcancel' = [hcancel EXCEPT ![c] = TRUE]
                   /\ rc' = [rc EXCEPT ![c] = @ + 1]
                   /\ UNCHANGED houtput
         /\ handle' = [handle EXCEPT ![c] = TRUE]
    /\ child' = [child EXCEPT ![w] = Null]
    /\ pc' = [pc EXCEPT ![w] = "user"]
    /\ UNCHANGED <<current, caller, done, request, hwaiter, ivars, token, signal, fault>>

\* start returned inside block_on: go on with the result, or suspend
AwaitReturn(w) ==
    /\ At(w, "start")
    /\ IF done[child[w]]
         THEN /\ Unblock(w)
              /\ UNCHANGED <<current, caller, isAsync, fault>>
         ELSE /\ isAsync' = [isAsync EXCEPT ![child[w]] = TRUE]
              /\ token' = [token EXCEPT ![w] = TRUE]
              /\ pc' = [pc EXCEPT ![w] = "await"]
              /\ Suspend(w)
              /\ UNCHANGED child
    /\ UNCHANGED <<done, request, hvars, ivars, signal>>

-----------------------------------------------------------------------------
(* Blocking and completing *)

\* block_on of a future that is completed by the event loop or another task
BlockEvent(w) ==
    /\ Running(w)
    /\ token' = [token EXCEPT ![w] = TRUE]
    /\ pc' = [pc EXCEPT ![w] = "event"]
    /\ Suspend(w)
    /\ UNCHANGED <<child, svars, hvars, ivars, signal>>

\* Request::complete of that future by u, which runs w until w suspends
CompleteEvent(u, w) ==
    /\ Running(u)
    /\ pc[w] = "event"
    /\ Resume(w)
    /\ Unblock(w)
    /\ UNCHANGED <<svars, hvars, ivars, signal>>

\* the task ended (or panicked: the result is carried either way)
\* without having been suspended in start: no Request::complete
FinishSync(w) ==
    /\ Running(w)
    /\ guards[w] = 0
    /\ ~isAsync[w]
    /\ done' = [done EXCEPT ![w] = TRUE]
    /\ pc' = [pc EXCEPT ![w] = "exit"]
    /\ UNCHANGED <<current, caller, child, isAsync, request, hvars, ivars, token,
                   signal, fault>>

\* the task ended: complete the request, which runs the waiting worker
CompleteTo(w, p) ==
    /\ pc' = [pc EXCEPT ![p] = "user", ![w] = "exit"]
    /\ child' = [child EXCEPT ![p] = Null]
    /\ token' = [token EXCEPT ![p] = FALSE]
    /\ current' = p
    /\ caller' = [caller EXCEPT ![p] = w]
    /\ fault' = CASE pc[p] \notin {"join", "await"} \/ child[p] # w -> "double complete"
                  [] caller[p] # Null -> "double resume"
                  [] OTHER -> fault

FinishAwaited(w) ==
    /\ Running(w)
    /\ guards[w] = 0
    /\ isAsync[w]
    /\ request[w] # Null
    /\ CompleteTo(w, request[w])
    /\ UNCHANGED <<svars, hvars, ivars, signal>>

\* Spawn::spawn_complete; its Rc is dropped when it returns.  A join handle held
\* by the join future of the waiter goes with it
FinishSpawned(w) ==
    /\ Running(w)
    /\ guards[w] = 0
    /\ isAsync[w]
    /\ request[w] = Null
    /\ IF hwaiter[w] = Null
         THEN /\ houtput' = [houtput EXCEPT ![w] = TRUE]
              /\ pc' = [pc EXCEPT ![w] = "exit"]
              /\ rc' = [rc EXCEPT ![w] = @ - 1]
              /\ UNCHANGED <<current, caller, child, token, fault>>
         ELSE /\ CompleteTo(w, hwaiter[w])
              /\ rc' = [rc EXCEPT ![w] = @ - IF token[hwaiter[w]] THEN 2 ELSE 1]
              /\ UNCHANGED houtput
    /\ UNCHANGED <<svars, hcancel, hwaiter, handle, ivars, signal>>

\* worker.exit() at the end of worker_start
Exit(w) ==
    /\ At(w, "exit")
    /\ ExitTo(w)
    /\ pc' = [pc EXCEPT ![w] = "dead"]
    /\ UNCHANGED <<child, svars, hvars, ivars, token, signal>>

-----------------------------------------------------------------------------
(* JoinHandle *)

\* try_join of a task that is already done
JoinDone(w, c) ==
    /\ Running(w)
    /\ handle[c] /\ houtput[c]
    /\ houtput' = [houtput EXCEPT ![c] = FALSE]
    /\ handle' = [handle EXCEPT ![c] = FALSE]
    /\ rc' = [rc EXCEPT ![c] = @ - 1]
    /\ UNCHANGED <<current, caller, pc, child, svars, hcancel, hwaiter, ivars, token,
                   signal, fault>>

\* try_join of a running task: block_on(self.join())
JoinBlock(w, c) ==
    /\ Running(w)
    /\ handle[c] /\ ~houtput[c]
    /\ hwaiter' = [hwaiter EXCEPT ![c] = w]
    /\ handle' = [handle EXCEPT ![c] = FALSE]
    /\ token' = [token EXCEPT ![w] = TRUE]
    /\ child' = [child EXCEPT ![w] = c]
    /\ pc' = [pc EXCEPT ![w] = "join"]
    /\ Suspend(w)
    /\ UNCHANGED <<svars, hcancel, houtput, rc, ivars, signal>>

\* dropping the handle detaches the task
DropHandle(w, c) ==
    /\ Running(w)
    /\ handle[c]
    /\ handle' = [handle EXCEPT ![c] = FALSE]
    /\ houtput' = [houtput EXCEPT ![c] = FALSE]
    /\ rc' = [rc EXCEPT ![c] = @ - 1]
    /\ UNCHANGED <<current, caller, pc, child, svars, hcancel, hwaiter, ivars, token,
                   signal, fault>>

\* request_cancel: take the cancel closure, which interrupts the task's context
RequestCancel(w, c) ==
    /\ Running(w)
    /\ handle[c] /\ ~houtput[c] /\ hcancel[c]
    /\ hcancel' = [hcancel EXCEPT ![c] = FALSE]
    /\ signal' = c
    /\ UNCHANGED <<current, caller, pc, child, svars, houtput, hwaiter, handle, rc,
                   ivars, token, fault>>

-----------------------------------------------------------------------------
(* Context::interrupt *)

Dead(w) == pc[w] \in {"free", "dead"}

\* flag set; a guard, or no canceller to take, ends it there
InterruptFlag ==
    /\ signal # Null /\ fault = "none"
    /\ interrupted' = [interrupted EXCEPT ![signal] = TRUE]
    /\ Check(~Dead(signal), "dangling context")
    /\ guards[signal] > 0 \/ ~token[signal]
    /\ signal' = Null
    /\ UNCHANGED <<current, caller, pc, child, svars, hvars, guards, token>>

\* the canceller of an event either completes it at once, resuming the task
\* inside the interrupt, or leaves the completion to the event loop
InterruptEvent(now) ==
    /\ signal # Null /\ fault = "none"
    /\ guards[signal] = 0 /\ token[signal]
    /\ pc[signal] = "event"
    /\ interrupted' = [interrupted EXCEPT ![signal] = TRUE]
    /\ signal' = Null
    /\ IF now
         THEN Resume(signal) /\ Unblock(signal)
         ELSE /\ token' = [token EXCEPT ![signal] = FALSE]
              /\ UNCHANGED <<current, caller, pc, child, fault>>
    /\ UNCHANGED <<svars, hvars, guards>>

\* an interrupted await returns at once instead of interrupting the child
InterruptAbandons ==
    /\ signal # Null /\ fault = "none"
    /\ guards[signal] = 0 /\ token[signal]
    /\ pc[signal] = "await"
    /\ interrupted' = [interrupted EXCEPT ![signal] = TRUE]
    /\ Resume(signal)
    /\ Unblock(signal)
    /\ signal' = Null
    /\ UNCHANGED <<svars, hvars, guards>>

\* the canceller of a spawn_task future interrupts the child
InterruptAwait ==
    /\ signal # Null /\ fault = "none"
    /\ guards[signal] = 0 /\ token[signal]
    /\ pc[signal] = "await"
    /\ interrupted' = [interrupted EXCEPT ![signal] = TRUE]
    /\ token' = [token EXCEPT ![signal] = FALSE]
    /\ signal' = child[signal]
    /\ UNCHANGED <<current, caller, pc, child, svars, hvars, guards, fault>>

\* the canceller of a join future leaks the join handle
InterruptJoinLeaks ==
    /\ signal # Null /\ fault = "none"
    /\ guards[signal] = 0 /\ token[signal]
    /\ pc[signal] = "join"
    /\ interrupted' = [interrupted EXCEPT ![signal] = TRUE]
    /\ token' = [token EXCEPT ![signal] = FALSE]
    /\ LET c == child[signal] IN
         /\ hcancel' = [hcancel EXCEPT ![c] = FALSE]
         /\ signal' = IF hcancel[c] THEN c ELSE Null
    /\ UNCHANGED <<current, caller, pc, child, svars, houtput, hwaiter, handle, rc,
                   guards, fault>>

\* the canceller of a join future: try_cancel, "we may already be cancelling";
\* it consumes the join handle
InterruptJoin ==
    /\ signal # Null /\ fault = "none"
    /\ guards[signal] = 0 /\ token[signal]
    /\ pc[signal] = "join"
    /\ interrupted' = [interrupted EXCEPT ![signal] = TRUE]
    /\ token' = [token EXCEPT ![signal] = FALSE]
    /\ LET c == child[signal] IN
         /\ rc' = [rc EXCEPT ![c] = @ - 1]
         /\ hcancel' = [hcancel EXCEPT ![c] = FALSE]
         /\ signal' = IF hcancel[c] THEN c ELSE Null
    /\ UNCHANGED <<current, caller, pc, child, svars, houtput, hwaiter, handle, guards,
                   fault>>

\* InterruptGuard::new and drop
GuardNew(w) ==
    /\ Running(w)
    /\ w \in Guarding /\ guards[w] < MaxGuards
    /\ guards' = [guards EXCEPT ![w] = @ + 1]
    /\ UNCHANGED <<current, caller, pc, child, svars, hvars, interrupted, token, signal, fault>>

GuardDrop(w) ==
    /\ Running(w)
    /\ guards[w] > 0
    /\ guards' = [guards EXCEPT ![w] = @ - 1]
    /\ UNCHANGED <<current, caller, pc, child, svars, hvars, interrupted, token, signal, fault>>

\* clear_interrupt
ClearInterrupt(w) ==
    /\ Running(w)
    /\ interrupted[w]
    /\ interrupted' = [interrupted EXCEPT ![w] = FALSE]
    /\ UNCHANGED <<current, caller, pc, child, svars, hvars, guards, token, signal, fault>>

-----------------------------------------------------------------------------

(* The event loop spawns tasks, completes events and uses join handles; only a
   worker has a Context to block on, to finish, to guard. *)

Yield(w) == BlockEvent(w) \/ FinishSync(w) \/ FinishAwaited(w) \/ FinishSpawned(w)

Return(w) == SpawnReturn(w) \/ (w \in Worker /\ (AwaitReturn(w) \/ Exit(w)))

Interrupt == InterruptFlag \/ (\E now \in BOOLEAN : InterruptEvent(now))
             \/ InterruptAwait \/ InterruptJoin

Next ==
    \/ Interrupt
    \/ \E w \in Worker \cup {Main} : Return(w)
    \/ \E w \in Worker : Yield(w) \/ GuardNew(w) \/ GuardDrop(w) \/ ClearInterrupt(w)
    \/ \E w \in Worker, c \in Worker : SpawnAwait(w, c) \/ JoinBlock(w, c)
    \/ \E w \in Worker \cup {Main}, c \in Worker :
         \/ Spawn(w, c) \/ CompleteEvent(w, c) \/ RequestCancel(w, c)
         \/ JoinDone(w, c) \/ DropHandle(w, c)

Spec == Init /\ [][Next]_vars

\* a task that keeps getting control suspends or ends some time, and the
\* executor's own code goes on
Fairness ==
    /\ WF_vars(Interrupt)
    /\ \A w \in Worker \cup {Main} : WF_vars(Return(w))
    /\ \A w \in Worker : SF_vars(Yield(w))

FairSpec == Spec /\ Fairness

-----------------------------------------------------------------------------
(* Properties *)

Workers == Worker \cup {Main}

\* The variables have their types.
TypeOK ==
    /\ current \in Workers \cup {Null}
    /\ caller \in [Worker -> Workers \cup {Null}]
    /\ pc \in [Workers -> Blocked \cup OnStack \cup {"free", "dead"}]
    /\ child \in [Workers -> Worker \cup {Null}]
    /\ isAsync \in [Worker -> BOOLEAN]
    /\ done \in [Worker -> BOOLEAN]
    /\ request \in [Worker -> Worker \cup {Null}]
    /\ hcancel \in [Worker -> BOOLEAN]
    /\ houtput \in [Worker -> BOOLEAN]
    /\ hwaiter \in [Worker -> Worker \cup {Null}]
    /\ handle \in [Worker -> BOOLEAN]
    /\ rc \in [Worker -> Nat]
    /\ interrupted \in [Worker -> BOOLEAN]
    /\ guards \in [Worker -> 0..MaxGuards]
    /\ token \in [Worker -> BOOLEAN]
    /\ signal \in Worker \cup {Null}
    /\ fault \in {"none", "double suspend", "double resume", "double complete",
                  "dangling context"}

\* No unsafe precondition is violated: suspend, resume and exit find the caller
\* they assert (executor.rs), a future is completed once and while its worker
\* waits for it (future/block_on.rs), and an interrupt finds its context alive
\* (spawn.rs, "Safety: task is running").
NoFault == fault = "none"

\* The pointers caller[w], followed from current, reach Main through every
\* worker that is on the stack and through no other.
Chain ==
    LET at[n \in 0..Cardinality(Worker)] ==
          IF n = 0 THEN current
          ELSE IF at[n - 1] \in Worker THEN caller[at[n - 1]] ELSE at[n - 1]
    IN  at

Stack ==
    LET top == CHOOSE n \in 0..Cardinality(Worker) :
                  /\ Chain[n] \notin Worker
                  /\ \A m \in 0..(n - 1) : Chain[m] \in Worker
    IN  [i \in 1..top |-> Chain[top - i]]

CallStack == INSTANCE AbstractCallStack
                WITH stack <- Stack, gone <- {w \in Worker : pc[w] = "dead"}

\* Workers call each other like functions, whoever completes or interrupts whom:
\* the executor's pointers implement AbstractCallStack.
CallStackSpec == CallStack!Spec

\* Exactly the workers in the middle of a call are on the stack; suspended and
\* finished ones are not.
StackExact ==
    {Stack[i] : i \in 1..Len(Stack)} = {w \in Worker : pc[w] \in OnStack}

\* Whoever waits for a task is the one its completion will resume, and that task
\* has not completed yet: no join is forgotten, none is answered twice.
JoinDelivers ==
    \A w \in Worker : pc[w] \in {"join", "await"} =>
        LET c == child[w] IN
        /\ pc[c] \in (OnStack \cup Blocked) \ {"exit"}
        /\ isAsync[c]
        /\ pc[w] = "await" => request[c] = w
        /\ pc[w] = "join" => request[c] = Null /\ hwaiter[c] = w

\* A task that waits for another returns to user code only when that other task
\* has ended, interrupts included: an interrupt is passed on, it never makes a
\* join or an await return early.
JoinWaitsForEnd ==
    [][\A w \in Worker : pc[w] \in {"join", "await"} /\ pc'[w] # pc[w] =>
          pc'[w] = "user" /\ pc'[child[w]] = "exit" /\ current = child[w]]_vars

\* The strong count of a Spawn is the number of references the code holds: the
\* local of Spawn::run, the join handle (also inside the canceller of a join)
\* and the one leaked to spawn_complete while the task is pending.  So the Spawn
\* is freed once, and only when nobody can reach it.
RcExact ==
    \A c \in Worker :
        rc[c] = Cardinality({w \in Workers : pc[w] = "spawn" /\ child[w] = c})
                + (IF handle[c] THEN 1 ELSE 0)
                + Cardinality({w \in Worker : pc[w] = "join" /\ child[w] = c /\ token[w]})
                + (IF isAsync[c] /\ request[c] = Null /\ pc[c] \notin {"exit", "dead"}
                     THEN 1 ELSE 0)

\* Switching stacks is sound whoever completes, interrupts or spawns whom: no
\* assertion of executor.rs, block_on.rs or spawn.rs fails, and the callers that
\* the workers record are the workers in the middle of a call.
StackSafe == NoFault /\ StackExact

\* The bookkeeping of a spawned task: the result goes to the one task that waits
\* for it, and the Spawn is freed when the last of its references goes.
SpawnExact == JoinDelivers /\ RcExact

\* However deep workers have resumed each other, control gets back to the event
\* loop.
LoopRegainsControl == []<>(current = Main)
=============================================================================
