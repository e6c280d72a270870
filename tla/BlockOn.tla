------------------------------- MODULE BlockOn -------------------------------
(***************************************************************************)
(* Waiting for a future that another thread completes.                     *)
(*                                                                         *)
(* "sync": future::block_on_sync (src/src/future/block_on.rs) parks the    *)
(* thread on the futex word of src/src/os/futex.rs, and asks should_cancel *)
(* every time round the loop.                                              *)
(* "context": Context::block_on(.., thread_safe) (src/src/coroutines/      *)
(* context.rs) suspends the worker; the resume of the future posts a       *)
(* request to the worker's event loop through its Waker, and the loop      *)
(* resumes the worker.                                                     *)
(*                                                                         *)
(* The caller makes call after call, each with a future of its own. The    *)
(* frames of two calls are at the same addresses, so the end of the        *)
(* completion of one call (the futex wake) can meet the next call.         *)
(* The event loop and the kernel are external.                             *)
(*                                                                         *)
(* bpc: idle; running (in Future::run); looping, waiting, entering (the    *)
(*   futex call), asleep, swapping (sync); blocking, prepared, suspended   *)
(*   (context); output                                                      *)
(* comp[c]: none; progress; stored; waking (about to call futex wake);     *)
(*   over                                                                  *)
(***************************************************************************)
EXTENDS Integers, FiniteSets

CONSTANTS
    MaxCalls,       \* bound on the calls of the caller
    DefaultBudget,  \* DEFAULT_BUDGET
    MaxGuards       \* bound on nested interrupt guards

ASSUME BlockOnAssumption == MaxCalls \in Nat /\ DefaultBudget \in Nat /\ MaxGuards \in Nat

VARIABLES
    bmode,         \* which block_on
    bpc,          \* position of the caller
    call,         \* the current or last call
    boutput,       \* BlockState of the frame: 0 pending, or the call whose value it holds
    word,         \* state of os::futex::Notify
    cancel,       \* the cancel handle was not used yet
    bcancelled,    \* futures whose cancel ran
    comp,         \* position of the completion of every future
    posted,       \* requests in the queue of the event loop
    preparing,    \* Waker::prepare ran for the current call
    shouldCancel, \* what should_cancel answers
    interrupted, guards, budget  \* Data of the Context

bvars == <<bmode, bpc, call, boutput, word, cancel, bcancelled, comp, posted, preparing,
           shouldCancel, interrupted, guards, budget>>

ctx == <<interrupted, guards, budget>>

BlockCall == 1..MaxCalls
Parked == 0
Idle == 1
Notified == 2
Word == 65536     \* of u32: only that 0 - 1 is none of the three states matters

BlockInit ==
    /\ bmode \in {"sync", "context"}
    /\ bpc = "idle" /\ call = 0 /\ boutput = 0 /\ word = Idle
    /\ cancel = FALSE /\ bcancelled = {}
    /\ comp = [c \in BlockCall |-> "none"]
    /\ posted = {} /\ preparing = FALSE /\ shouldCancel = FALSE
    /\ interrupted = FALSE /\ guards = 0 /\ budget = DefaultBudget

-----------------------------------------------------------------------------
(* block_on: the frame, the future, the result *)

\* Waiter::new and Notify::new, then Future::run
RunFuture ==
    /\ bpc = "idle" /\ call < MaxCalls
    /\ call' = call + 1 /\ boutput' = 0 /\ word' = Idle /\ preparing' = FALSE
    /\ bpc' = "running"
    /\ comp' = [comp EXCEPT ![call + 1] = "progress"]
    /\ UNCHANGED <<bmode, cancel, bcancelled, posted, shouldCancel, ctx>>

\* Progress::Done: the request is never used
RunDone ==
    /\ bpc = "running" /\ comp[call] = "progress"
    /\ comp' = [comp EXCEPT ![call] = "none"]
    /\ bpc' = "idle"
    /\ UNCHANGED <<bmode, call, boutput, word, cancel, bcancelled, posted, preparing, shouldCancel, ctx>>

\* Progress::Pending: block is called with the cancel handle
RunPending ==
    /\ bpc = "running"
    /\ bpc' = IF bmode = "sync" THEN "looping" ELSE "blocking"
    /\ cancel' = TRUE
    /\ UNCHANGED <<bmode, call, boutput, word, bcancelled, comp, posted, preparing, shouldCancel, ctx>>

\* Waiter::output
Output ==
    /\ bpc = "output"
    /\ bpc' = "idle"
    /\ UNCHANGED <<bmode, call, boutput, word, cancel, bcancelled, comp, posted, preparing, shouldCancel, ctx>>

-----------------------------------------------------------------------------
(* The loop of block_on_sync_impl and Notify::wait *)

CheckCancel ==
    /\ bpc = "looping"
    /\ bpc' = "waiting"
    /\ cancel' = (cancel /\ ~shouldCancel)
    /\ bcancelled' = IF cancel /\ shouldCancel THEN bcancelled \cup {call} ELSE bcancelled
    /\ UNCHANGED <<bmode, call, boutput, word, comp, posted, preparing, shouldCancel, ctx>>

\* fetch_sub of Notify::wait
WaitSub ==
    /\ bpc = "waiting"
    /\ word' = (word - 1) % Word
    /\ bpc' = IF word = Notified THEN "output" ELSE "entering"
    /\ UNCHANGED <<bmode, call, boutput, cancel, bcancelled, comp, posted, preparing, shouldCancel, ctx>>

\* futex(Wait, Parked): the kernel compares and queues the thread in one step
FutexWait ==
    /\ bpc = "entering"
    /\ bpc' = IF word = Parked THEN "asleep" ELSE "swapping"
    /\ UNCHANGED <<bmode, call, boutput, word, cancel, bcancelled, comp, posted, preparing, shouldCancel, ctx>>

\* a signal (EINTR) or a wake-up for no reason
FutexInterrupted ==
    /\ bpc = "asleep"
    /\ bpc' = "swapping"
    /\ UNCHANGED <<bmode, call, boutput, word, cancel, bcancelled, comp, posted, preparing, shouldCancel, ctx>>

\* every wake-up taken for a notification
SwapTrusting ==
    /\ bpc = "swapping"
    /\ word' = Idle
    /\ bpc' = "output"
    /\ UNCHANGED <<bmode, call, boutput, cancel, bcancelled, comp, posted, preparing, shouldCancel, ctx>>

\* swap of Notify::wait
WaitSwap ==
    /\ bpc = "swapping"
    /\ word' = Idle
    /\ bpc' = IF word = Notified THEN "output" ELSE "looping"
    /\ UNCHANGED <<bmode, call, boutput, cancel, bcancelled, comp, posted, preparing, shouldCancel, ctx>>

\* what should_cancel reads is set by another thread, which then signals this one
SetShouldCancel ==
    /\ bmode = "sync" /\ ~shouldCancel
    /\ shouldCancel' = TRUE
    /\ UNCHANGED <<bmode, bpc, call, boutput, word, cancel, bcancelled, comp, posted, preparing, ctx>>

-----------------------------------------------------------------------------
(* The block of Context::block_on *)

Prepare ==
    /\ bpc = "blocking"
    /\ preparing' = TRUE
    /\ bpc' = "prepared"
    /\ UNCHANGED <<bmode, call, boutput, word, cancel, bcancelled, comp, posted, shouldCancel, ctx>>

SuspendWorker ==
    /\ bpc = "prepared"
    /\ budget' = DefaultBudget
    /\ bpc' = "suspended"
    /\ UNCHANGED <<bmode, call, boutput, word, cancel, bcancelled, comp, posted, preparing, shouldCancel,
                   interrupted, guards>>

\* the event loop completes a request of its queue: wake of context.rs resumes
\* the worker, which forgets the canceller
LoopWake(c) ==
    /\ c \in posted /\ bpc = "suspended"
    /\ posted' = posted \ {c}
    /\ bpc' = "output"
    /\ cancel' = FALSE
    /\ UNCHANGED <<bmode, call, boutput, word, bcancelled, comp, preparing, shouldCancel, ctx>>

\* Context::interrupt by another worker of the thread, also from within the run
\* of the future: no canceller is stored then, and only the flag is set
InterruptWorker ==
    /\ bmode = "context" /\ bpc \in {"running", "suspended"}
    /\ interrupted' = TRUE
    /\ cancel' = (cancel /\ guards > 0)
    /\ bcancelled' = IF cancel /\ guards = 0 THEN bcancelled \cup {call} ELSE bcancelled
    /\ UNCHANGED <<bmode, bpc, call, boutput, word, comp, posted, preparing, shouldCancel, guards, budget>>

\* interrupt_guard, drop of the guard, clear_interrupt
Guard(rel) ==
    /\ bmode = "context" /\ bpc = "idle"
    /\ guards + rel \in 0..MaxGuards
    /\ guards' = guards + rel
    /\ UNCHANGED <<bmode, bpc, call, boutput, word, cancel, bcancelled, comp, posted, preparing, shouldCancel,
                   interrupted, budget>>

ClearWorkerInterrupt ==
    /\ bmode = "context" /\ bpc = "idle" /\ interrupted
    /\ interrupted' = FALSE
    /\ UNCHANGED <<bmode, bpc, call, boutput, word, cancel, bcancelled, comp, posted, preparing, shouldCancel,
                   guards, budget>>

\* acquire_budget: what is left is taken also when it is not enough
AcquireBudget(amount) ==
    /\ bmode = "context" /\ bpc = "idle"
    /\ budget' = IF amount <= budget THEN budget - amount ELSE 0
    /\ UNCHANGED <<bmode, bpc, call, boutput, word, cancel, bcancelled, comp, posted, preparing, shouldCancel,
                   interrupted, guards>>

-----------------------------------------------------------------------------
(* The completion, on another thread or inside the cancel *)

\* block_resume: BlockState::complete
Store(c) ==
    /\ comp[c] = "progress"
    /\ boutput' = c
    /\ comp' = [comp EXCEPT ![c] = "stored"]
    /\ UNCHANGED <<bmode, bpc, call, word, cancel, bcancelled, posted, preparing, shouldCancel, ctx>>

\* a notify that wakes only a waiter it finds already notified
NotifySilent(c) ==
    /\ bmode = "sync" /\ comp[c] = "stored"
    /\ word' = Notified
    /\ comp' = [comp EXCEPT ![c] = IF word = Notified THEN "waking" ELSE "over"]
    /\ UNCHANGED <<bmode, bpc, call, boutput, cancel, bcancelled, posted, preparing, shouldCancel, ctx>>

\* swap of Notify::notify
NotifySwap(c) ==
    /\ bmode = "sync" /\ comp[c] = "stored"
    /\ word' = Notified
    /\ comp' = [comp EXCEPT ![c] = IF word = Parked THEN "waking" ELSE "over"]
    /\ UNCHANGED <<bmode, bpc, call, boutput, cancel, bcancelled, posted, preparing, shouldCancel, ctx>>

\* futex(Wake, 1) on the address of the word; the frame may be gone, and
\* another call may sleep there
FutexWake(c) ==
    /\ comp[c] = "waking"
    /\ comp' = [comp EXCEPT ![c] = "over"]
    /\ bpc' = IF bpc = "asleep" THEN "swapping" ELSE bpc
    /\ UNCHANGED <<bmode, call, boutput, word, cancel, bcancelled, posted, preparing, shouldCancel, ctx>>

\* Waker::wake
PostWake(c) ==
    /\ bmode = "context" /\ comp[c] = "stored"
    /\ posted' = posted \cup {c}
    /\ comp' = [comp EXCEPT ![c] = "over"]
    /\ UNCHANGED <<bmode, bpc, call, boutput, word, cancel, bcancelled, preparing, shouldCancel, ctx>>

-----------------------------------------------------------------------------

Blocker == RunPending \/ Output \/ CheckCancel \/ WaitSub \/ FutexWait \/ WaitSwap \/ Prepare \/ SuspendWorker

Completer(c) == NotifySwap(c) \/ FutexWake(c) \/ PostWake(c)

BlockNext ==
    \/ Blocker \/ RunFuture \/ RunDone \/ FutexInterrupted \/ SetShouldCancel
    \/ InterruptWorker \/ (\E rel \in {-1, 1} : Guard(rel)) \/ ClearWorkerInterrupt
    \/ \E amount \in 1..(DefaultBudget + 1) : AcquireBudget(amount)
    \/ \E c \in BlockCall : Store(c) \/ Completer(c) \/ LoopWake(c)

\* The threads keep running, the event loop empties its queue, and a future
\* that was cancelled completes. Nothing else has to happen: futures may stay
\* pending, no signal arrives.
BlockFairness ==
    /\ WF_bvars(Blocker)
    /\ \A c \in BlockCall :
         /\ WF_bvars(Completer(c)) /\ WF_bvars(LoopWake(c))
         /\ WF_bvars(Store(c) /\ c \in bcancelled)

BlockSpec == BlockInit /\ [][BlockNext]_bvars /\ BlockFairness

-----------------------------------------------------------------------------
(* Properties *)

\* The completion touches the frame of its own call only: as long as it has to
\* store the value and to swap the word, or to post the request, that frame is
\* on the stack and the call has not returned.
FrameAlive ==
    /\ \A c \in BlockCall : comp[c] \in {"progress", "stored"} => c = call /\ bpc \notin {"idle", "output"}
    /\ \A c \in posted : c = call /\ bpc \in {"running", "blocking", "prepared", "suspended"}

\* block returns only after the future of this call is complete (the contract
\* of block_on), however often the futex returns.
BlockedUntilComplete == bpc = "output" => boutput = call

\* The frame of a blocking call is safe to complete into, and the call returns
\* with the value of its own future and with nothing less.
BlockSafe == FrameAlive /\ BlockedUntilComplete

\* A future that is completed gets its caller going again, whatever the order
\* of the swap, the futex call and a late wake of the call before.
CompletionReturns ==
    \A c \in BlockCall : (comp[c] = "stored") ~> (call > c \/ bpc = "idle")

\* What Waker::wake asks for: prepare was called first. Refuted: the future may
\* complete on another thread before block has run.
WakePrepared == bmode = "context" => \A c \in BlockCall : comp[c] = "over" /\ c = call => preparing

\* What the comment of block_on_sync says of should_cancel: it is called when
\* the thread is interrupted. Refuted: a signal between the call of
\* should_cancel and the futex call interrupts nothing.
CancelHeard == (bmode = "sync" /\ shouldCancel /\ cancel) ~> (bpc = "idle")
=============================================================================
