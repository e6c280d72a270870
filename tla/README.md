# xx-core: models, checks and proofs

TLA+ models of xx-core, a Rust library of stackful coroutines ("fibers") and of
the synchronisation primitives, channels, thread pool, buffered I/O, errors and
logging built on them. TLC
checks the models on small instances; TLAPS proves the main invariants for
every instance. `PROJECT.json` maps every definition to the lines it models and
lists runs, mutants, hazards, findings and theorems. Source paths below are
relative to `src/src/`.

Commands, from this directory:

    tlc -workers 2 -config AsyncMutex.cfg AsyncMutex      # a run: cfg and module
    tlapm AsyncMutexProofs.tla                            # a proof module

## 1. The system

| Component | Source | State | Operations | Hard parts |
|---|---|---|---|---|
| Executor, Worker | `coroutines/executor.rs`, `worker.rs` | current worker, each worker's caller | start, suspend, resume, exit | callbacks resume workers from inside workers; the caller pointers must stay a stack |
| Spawn, JoinHandle | `coroutines/spawn.rs` | reference count, waiter, output, canceller | spawn, spawn_task, join, cancel, detach | a task may end inside start, before its handle exists, or after it is gone |
| Context, block_on | `coroutines/context.rs`, `future/block_on.rs`, `os/futex.rs` | interrupt flag, guards, budget, stored canceller; the futex word | block_on, block_on_sync, block_on_thread_safe, interrupt, guards | an interrupt runs a canceller that may resume the interrupted task; a late futex wake meets the next call at the same address |
| Branch, join, select | `coroutines/branch.rs`, `join.rs`, `select.rs` | two handles, interrupt_callback | run, two callbacks, cancel | futures call back from within run and cancel |
| Intrusive list | `container/intrusive/linked_list.rs` | prev and next pointers | append, pop, unlink, move_elements | nodes live on the stacks of suspended tasks |
| ThreadSafeWaitList | `async_std/sync/wait_list.rs`, `sync/spin_mutex.rs` | list, spin lock, hint `empty`, closed, count | wait, cancel, wake_one, wake_all, close | wakers skip the lock on a relaxed hint; cancel races wake |
| AtomicWaiter | `async_std/sync/wait_list.rs` | one atomic pointer | suspend, cancel, wake, close | four parties take the pointer out of the slot |
| Mutex | `async_std/sync/mutex.rs`, `sync/poison.rs` | Unlocked/Locked/Contended, poison flag | lock, try_lock, blocking_lock, guard drop | a wake-up spent on an interrupted task; poison before unlock |
| oneshot | `async_std/sync/channel/oneshot.rs` | value flag, two AtomicWaiters | send, recv, close, drop | both sides close and look for the value at once |
| mpmc, mpsc | `async_std/sync/channel/mp.rs` | ring of sequences, head, tail, two wait lists | send, recv, closed, close, clone, drop | claim by CAS, reuse a lap later, wake before publish |
| ThreadPool | `threadpool/mod.rs` | queue under a mutex, idle count, closed, per worker cur_work and cancelled | submit, cancel, cancel_all, close | cancel reaches a work through a worker that may have moved on |
| RawWaitList, Notify | `async_std/sync/wait_list.rs`, `notify.rs` | single-threaded list, count | wait, cancel, wake_one, wake_all, close | a resumed waiter waits, cancels or notifies again inside the wake |
| Broadcast | `async_std/sync/broadcast.rs` | slots with a sequence, a count of readers and a lock; tail; a wait list | send, recv, subscribe, drop | lapped receivers, the order of counting and reading, a wait against a wake that skips the lock |
| Fibers, fiber pool | `fiber/*` | contexts, stacks, the pool | new, switch, exit, exit_to_pool | a stack is freed by the next fiber, through an intercept |
| Buffered reader, writer | `async_std/io/buf_reader.rs`, `buf_writer.rs` | a buffer and the part of it in use | read, fill, consume, unconsume, seek; write, flush, pipe, seek | short transfers, errors after a part, seeks inside the buffer |
| Read, Write, Seek, typed | `async_std/io/*`, `io/*` | locals of the loops | read_fully, read_to_end, read_line, write_all, typed numbers, rewind, skip | interrupts after a part; errors of kind Interrupted from below; counts; amounts above i64 |
| Errors | `error/*`, `os/error.rs` | a tagged word, boxes with a vtable | constructors, context, kind, downcast, io::Error and back, drop | boxes of contexts are freed one by one; the kind must survive |
| Logger | `log/*` | a mutex around a BufWriter, a flag per record | log, flush, panic_hook | records come in pieces; a Display may panic or log |
| Directory listing | `os/dirent.rs` | a buffer of records, offset, length, eof | open, next_entry | errors between two fills |
| Integers, times | `impls/uint.rs`, `os/time.rs`, the duration macro | none | mixed-sign arithmetic, conversions | overflow at both ends |
| OS wrappers, pointers, macros | `os/*`, `pointer/*`, `macros/` | none | system calls, code generation | not modelled, see section 8 |

How they interact. A task calls `block_on(future)`; the future's `run` either
returns a value or leaves a request with somebody (a wait list, an AtomicWaiter,
the pool, an I/O driver) and the worker suspends to its caller. Whoever
completes the request resumes the worker, on its own thread directly and from
other threads through the waker. An interrupt sets the context's flag and runs
the canceller that block_on stored. Mutex and channels keep their waiters in
ThreadSafeWaitLists, oneshot in AtomicWaiters; all lists, and the pool's queue,
are the intrusive list. The I/O loops call the buffered reader or writer, look for
interrupts of their task, and return errors, which the logger prints.

What makes each part correct: a request is completed exactly once and never
after its owner is gone; nobody who is suspended is forgotten; the mutex is
exclusive and its poison is seen; a message arrives once, in order, and is not
leaked; workers nest like calls; a cancellation reaches its own target only; a
closed component lets go of everybody; a stack has one user; a buffer is
invisible, and a call that fails half-way says what it did; an error keeps its
kind and its payload; log lines are whole.

## 2. Modules and how they correspond to the code

- `ThreadSafeWaitList`: one step per shared access of a task `t` (`wpc[t]` is
  the line it is at); what happens under the spin lock and cannot be seen
  without it is merged into the step that releases it.
- `AsyncMutex` EXTENDS it and adds the mutex's own steps; `wait_list.wait` and
  `wake_one` are the list's actions, guarded by where the mutex calls them.
  `AbstractMutex` is what the documentation promises (one owner, a poison set
  before the next owner, a verdict for every owner); `AbstractSpec` maps owner,
  poison and verdict to the state of the implementation.
- `Executor`: one thread. Only the current worker takes a step: user code
  spawns, awaits, joins, detaches, cancels, blocks, ends; the event loop
  completes I/O. `signal` holds the next context of an interrupt that is being
  passed down a chain of awaited tasks. `fault` records a violated unsafe
  precondition. `AbstractCallStack` is the promise, with the stack read off the
  caller pointers.
- `Branch`: calls in progress are a sequence, so that the two futures, which are
  the environment, can call back from within run, cancel or complete as the
  contract of `Future` allows.
- `BlockOn`: a caller that blocks on one future after the other, "sync" on the
  futex word or "context" through the waker and the event loop. The frames of two
  calls have the same addresses. The completion is on another thread or in the
  cancel.
- `FiberPool`: threads with chains of fibers, each context with what its program
  counter stands for (`rip`) and what was written below its stack pointer
  (`below`); the page of exit's arguments after madvise.
- `LinkedList`: pointers, with the sequence they stand for as an auxiliary
  variable.
- `RawNotify` EXTENDS it: one thread, whose calls in progress are a stack, since
  a wake runs the task it resumes before it goes on. `due` is the history of whom a
  notify owes a wake-up.
- `AtomicWaiter`: one step per access of the pointer. `Oneshot` INSTANCEs it
  twice, for the waiter of the sender and of the receiver.
- `Broadcast`: one step per atomic access and per hold of a slot's lock; a read
  lock is held across the clone. The wait list comes as a list, its hint, its
  closed flag and its lock: a receiver tests closed, clears the hint and asks
  should_block in three steps under the lock; wake_all and close test the hint
  without it and then wake everybody in one step, since nobody sees the list until
  they release it.
- `MpChannel` INSTANCEs ThreadSafeWaitList twice, for each direction. A message
  is named by the position it was sent at.
- `ThreadPool`: everything between two releases of the queue's mutex is a step;
  the store to `closed`, the callback, a worker's completion and the signal of
  cancel_direct are steps of their own. Each work's owner is on its own thread.
  The condition variable may wake spuriously.
- `BufReader` over a stream whose byte at position p is p; it refines
  `AbstractStream`. `BufWriter` over a file of `FileMax` bytes; it refines
  `AbstractFile`. The reader and writer below transfer any part, or fail.
- `ReadLoops` EXTENDS BufReader, `WriteLoops` BufWriter: the loops of the traits,
  one inner call a step, so that an interrupt or an error comes between any two.
  An error has a kind, which is what the loops look at, and the task a flag, which
  is what the ends of the calls look at; neither implies the other. A read_line
  gets a string that may hold something, and strips `\n` and `\r\n`.
  `IoBytes` has what both share: slices, results, numbers as digits.
- `Errors`: slots with errors or io::Errors, the tagged word as a number, the
  heap as a function of addresses to boxes. Tables of kinds and codes are the code's.
- `SeekNumbers`: u64 and i64 with `Half` = 4 for 2^63; the default methods of Seek
  on a stream of any length.
- `Logger`: threads, the mutex with its poison, std's BufWriter, stderr that may
  fail. A record is the sequence of strings handed to write_str.
- `ReadDir`: records of several lengths, getdents64 that fills, fails or ends.
- `MCExecutor`, `MCFutures`, `MCSignals`, `MCData` are the modules of runs that check
  several components each by itself: `component` says which one moves, the others
  stay in one initial state.
- `ThreadSafeWaitListProofs`, `AsyncMutexProofs`, `ThreadPoolProofs`,
  `ExecutorProofs`, `MpChannelProofs`, `FuturesProofs` (BlockOn, FiberPool,
  AtomicWaiter, Branch), `SignalsProofs` (LinkedList, RawNotify, Oneshot,
  Broadcast) and `DataProofs` (BufReader, BufWriter, SeekNumbers, ReadDir,
  Errors): the theorems.

Memory is sequentially consistent in all models. The orderings in the code are
mostly Relaxed for hints and Acquire/Release or a lock for what is published
with them; reorderings a weak memory could add are not explored.

## 3. Runs

| Run | Instance | Distinct states | What it shows |
|---|---|---|---|
| mutex | 3 tasks, all interruptible, one may panic | 274,112 | MutualExclusion, NoLostWakeup, refinement of AbstractMutex, liveness Woken |
| executor | 3 workers and the loop, one interrupt guard; 3 tasks on a wait list | 319,482 | CompletedOnce, WaitListSound (nobody forgotten, `empty` sound, count exact); StackSafe (no unsafe precondition violated, caller pointers a stack), SpawnExact (results, reference counts), refinement of AbstractCallStack, JoinWaitsForEnd, liveness LoopRegainsControl |
| futures | join and select with panics, `Reentry = {}`; 3 blocking calls; 3 tasks on an AtomicWaiter; 2 threads, 3 stacks, 4 fibers | 223,505 | BranchSafe; BlockSafe and liveness CompletionReturns; OneOwner, Reachable, ClosedForGood; FiberSafe |
| signals | 4 nodes, 3 lists; the same tasks in nested notifies; sender and receiver; a broadcast of 2 senders, 2 receivers, symmetric, 2 slots, 3 sends | 4,027,699 | ListSound; NotifyExact; ValueOnce, OtherSideWoken; MessagesExact, SleeperOwed |
| mp_channel | 2 senders, 1 receiver, 2 slots, 3 messages | 996,945 | QueueSafe (slots exclusive, bounded), Delivered, NoStall |
| thread_pool | 2 workers, 3 works, threads may fail to start | 417,640 | WorkOwned, NoSleeper, CancelExact (own cancellation, idle count), liveness PoolEnds |
| data | see below | 1,059,826 | ReaderStream and WriterFile (refinements), ReadExact, WriteExact, HeapExact, Transparent, NumbersExact, LinesWhole, EntriesExact |
| wait_list_close | 3 tasks | violation | CloseWakesEveryone: section 6 |
| mp_size_one | 1 sender, 1 receiver, 1 slot | violation | Bounded: section 6 |
| thread_pool_cancel | 1 worker, 1 work | violation | WorkerValid: section 6 |
| broadcast_clone | 1 sender, 2 receivers | violation | CloneAlive: section 6 |
| writer_seek_loss | 2 bytes, file of 3, `SeekBuffered = TRUE` | violation | SeekKeepsBytes: section 6 |

What the passing runs leave out. Five constants of `futures` and `data` keep cases
out that the code gets wrong: `SeekBuffered = FALSE` (the run writer_seek_loss has
it TRUE), `Reentry = {}`, `StaleRewind = FALSE`, `FarSkip = FALSE` and
`KindedIo = FALSE`. Section 7 says which property TLC refutes with each of the last
four. What the loops of `data` do after an error of kind Interrupted is not left
out: ReadExact allows them to take it for the end of the stream (`cut`).

Why the bounds are enough. Three tasks are the smallest number with a waiter, a
waker and somebody who comes between them, in the wait list, the mutex and the
AtomicWaiter (where the third replaces the second's waiter). The invariants of
these three modules are proved for every number, so the runs only guard the
statements. Three workers allow a chain of awaits and a joiner that is
interrupted in it; the only counters are the guards (`MaxGuards`). Branch has no
bound: there are two futures. Four nodes in two lists give
every shape that append, unlink and move_elements tell apart (first, last, middle,
only); with them, notifies nest to a depth of `MaxDepth` = 7 frames, which is two
wake_alls with the waiters they resume. Three blocking calls let the late futex
wake of one meet the next and the one after. Two threads and three stacks let a
stack change threads through the pool, and `Spare` = 1 makes the pool drop one.
Two slots and three messages make a ring wrap once, in the channel with both
senders competing for a slot and the receiver a lap behind, in the broadcast with
a receiver lapped; `Interruptible` has one task of each kind, `Watcher` one sender
that also waits in `closed`. Two workers and three works allow a work to wait in
the queue while both workers are busy. Every invariant of these runs is proved for
every number (section 5), so that what a bound cuts off is covered; what rests on
the instance alone are the liveness properties and, in `data`, LinesWhole.

In `data` a buffer has 2 bytes and the stream 3, so that every call meets an empty,
a partly used and a full buffer and both ends of the stream, and a call of more
than the buffer goes past it; byte 1 of the stream ends a line, byte 0 is the `\r`
before it, and a line is read into strings that are empty, end in `\r` or end in
`\r\n`. Two errors with two payloads over three boxes give
two contexts around a payload, or two errors that could share a box. `Half` = 4
leaves room for amounts on both sides of i64's end. Two threads log two records
whose lines end in every way; four directory entries of two lengths may take
one fill of the buffer or one each.

Deadlock is checked for mutex, where somebody can always act. The others end: a
branch returns, handles are dropped, workers exit, bounds are met.

## 4. Fairness

- Mutex: weak fairness of each task's steps inside the mutex and the list, and
  of dropping a guard (`Run`). Threads that can run do run, and a critical
  section ends. Calling lock and interrupts are not fair. `Woken` needs no more.
- Executor: an interrupt in progress and a worker's return to its caller go on
  (weak fairness; it is one thread that executes them), and a task that keeps
  getting control eventually blocks or ends (strong fairness of `Yield`): the
  condition without which no cooperative scheduler gives control back. It is an
  assumption on user code, not on the library.
- BlockOn: weak fairness of the caller's own steps, of a completion that has begun,
  of the event loop's queue, and of the completion of a future whose cancel ran.
  Futures may stay pending and no signal is assumed.
- ThreadPool: weak fairness of each worker's steps (threads run, callbacks
  return) and of the cancel_all that close has begun. Owners are not fair, and
  spurious wake-ups are not assumed.

## 5. Proofs

TLAPS proves the following for every value of the constants. Every inductive
invariant was first checked by TLC on the instance of the run.

- `WaitListCorrect` (CompletedOnce), `WaitListKeepsAll` (WaitListSound): the
  invariant `WaitListInv` adds that the spin lock protects exactly the critical
  sections, that a waker has a node exactly between pop and complete, and that the
  list has no duplicates: without these a second pop could find the same node.
  CountExact goes through the cardinality of the set of waiting tasks.
  The step lemma is stated for the list's own actions, whoever calls them, so
  that the mutex and the channel can use it.
- `CloseLeavesAtMostOne`: what is left of the promise that the run wait_list_close
  refutes. Once the list is closed and nobody is inside a wake, at most one task
  is on it: the one that had tested closed and not yet stored to `empty`. Only one
  can be there, because the spin lock is held across both.
- `MutexExclusive`, `MutexWakes`, `MutexRefines`: `MutexInv` adds `PcMatches`
  (where the mutex is in the list's code, and when there is a verdict).
  NoLostWakeup is inductive together with the list's EmptyFlagSound: a wake that
  is skipped because `empty` is set has nobody to wake. The refinement maps each
  step to a step of AbstractMutex or a stutter.
- `ExecutorStackSafe`, `ExecutorSpawnExact`, `ExecutorJoinsWait` (the action
  property JoinWaitsForEnd) and `ExecutorRefines` (AbstractCallStack), for a build
  with debug_assertions: in a release build suspend leaves the caller behind and
  NoFault fails (section 7). `ExecInv` has a witness for the stack (`IsStack(s)`:
  no worker twice, the last one has control, each one's caller is the one before,
  and the workers in it are those in the middle of a call), so that resume appends
  to s and suspend cuts its end. `StartSound` ties a start in progress to the
  stack: until start returns, the child is right above its parent, and when it
  has returned the child is suspended or over, which is what makes `is_async`
  right. `Awaited` and `JoinDelivers` are each other's converse: the request of a
  pending task names a worker that waits for it, and whoever waits is named.
  `RcSound` counts each kind of reference as one or none; the cardinalities of
  RcExact follow because a task has one spawner and one joiner. The last steps
  read the stack off the pointers: a recursive function follows them, and a least
  counterexample shows that it goes down s (`ChainIs`, `StackIs`). `Steps` sorts
  the actions into push, pop and neither, from which both the refinement and
  JoinWaitsForEnd follow.
- `WaiterCorrect` (OneOwner), `WaiterReachable` (Reachable), `WaiterStaysClosed`:
  `WaiterInv` adds what a task may hold while it is inside suspend (`HeldBriefly`)
  and that a task about to park with no reason to return has an owner
  (`Expected`).
- `PoolCorrect` (WorkOwned), `PoolCancels` (CancelExact), `PoolNoSleeper`:
  `PoolInv` adds `WorkLinks`: a busy worker's work points back to it, and nothing
  is cancelled or completed before it is submitted or queued after it is
  cancelled. With the first, the worker that cancel_direct follows is the one that
  runs the work, whence OwnCancel; NoSleeper needs IdleExact, because a submit is
  silent only when the counter is zero. Three lemmas on sequences say what append,
  pop_front and unlink do to the set of queued works, one on cardinalities what a
  moving worker does to the counts.
- `BlockingCallsSafe` (BlockSafe): the invariant says who completes the call
  (`OneCompletion`), what the futex word then is (`WordExact`) and what the frame
  holds (`ValueStored`); the call number keeps a late wake of an earlier call
  apart.
- `FibersSafe` (FiberSafe): a stack is in the pool, fresh, asleep, running or
  leaving, and in one of these only (`OnePlace`, over a set of places, so that a
  move is two places that change); ActiveExact is the cardinality of what was
  handed out.
- `BroadcastExact` (MessagesExact), `BroadcastWakes` (SleeperOwed): `BroadcastInv`
  says what the sequence of a slot, its value and its lock tell (`SequenceSound`,
  `ValueSound`, `LockSound`) and that `remaining` is at least the number of
  receivers behind the slot's position (`Covered`); MessagesExact is not inductive
  without it, because nothing else keeps the value until the last read. SleeperOwed
  needs who has cleared the hint, and allows the one sleeper of wait_list_close: a
  receiver that had tested closed before the last sender stored it.
- `ChannelExclusive` (QueueSafe), `ChannelDelivers` (Delivered), for a size above
  one; with one slot QueueSafe is false, which is the run mp_size_one. `RingInv`
  says of every slot that it is vacant or occupied for exactly one position
  (`Vacant`, `Occupied`) and that who claimed a position is the only one in its
  slot (`Claims`). Size above one is where it matters that a vacant slot's
  sequence is not an occupied one's.
- `ChannelWaitLists`: a step of the channel is, for each direction, a step of that
  direction's list or a stutter, so the channel implements two instances of
  ThreadSafeWaitList and inherits what is proved of it.
- `ChannelNeverStalls` (NoStall): each wake_one may be spent on a task that is
  already awake, so that a message alone does not tell that somebody will come for
  it. The invariant `StallInv` counts: while a receiver is suspended and nobody is
  waking all, the messages there are to fetch are at most the tasks that are still
  going to fetch one or to wake somebody (`Payers`), and the same for room and
  senders. Each step moves room and payers together; a task leaves the payers only
  by waking another, or when it sees nothing left.
- `ListCorrect` (ListSound), `NotifyCorrect` (NotifyExact): the pointers of both
  directions spell the sequences of nodes, no node is twice in them, and a node has
  null pointers exactly when it is in none. The lemmas say what append, unlink and
  a splice do to a spelled sequence. For Notify the stack of calls comes in: what a
  frame's local list still holds is exactly what it owes (`due`), a task is in the
  stack at most once, and one that is in the stack is not on the list itself.
- `OneshotOnce` (ValueOnce), `OneshotWakes` (OtherSideWoken): `OneshotInv` relates
  the value flag, the program counters and the two AtomicWaiters: the request of a
  parked task is in its slot, or in the hands of the other side, which is closing
  the waiter.
- `BranchesSafe` (BranchSafe), for `Reentry = {}`: no future completes inside the
  other's run if it would have to cancel it, or inside the other's cancel (section
  7). The calls in progress and the two handles determine what was
  cancelled and what was completed.
- `ReaderRefines` (ReaderStream): the buffer from `stale` on is the piece of the
  stream right before the position of the reader below. Every step of BufReader
  moves the cursor and hands out bytes as AbstractStream does, or stutters; for
  `StaleRewind = FALSE`: seeks and put-backs that stay in the buffer but go behind
  the last read that was made past it are out (section 7).
- `WriterRefines` (WriterFile): the file of the abstract writer is the file below
  with the pending bytes laid over it at the cursor; the lemmas say that a flush of
  any part, and a seek after it, leave that overlay as it was. For
  `SeekBuffered = FALSE`: seeks within the pending bytes are out (section 6,
  writer_seek_loss).
- `ReadsExact` (ReadExact), for `StaleRewind = FALSE`: `LoopsInv` says that a call
  holds the bytes from where it began up to the cursor (`Plain`), or, on the fast
  path of a typed read, those of the whole word it loaded (`Loaded`); that the
  buffers that are left have the room that is left (`RoomLeft`); and why a call
  that is at its end got there (`Ended`: full, at the end of the stream, at the
  delimiter, interrupted, or cut by an error of kind Interrupted). What read_line
  makes of a string is a lemma on sequences (`ChompIs`). It rests on the lemmas about one call of the reader
  below (`ReadStep`, `FillStep`: it delivers a prefix of what is there, and nothing
  only at the end).
- `WritesExact` (WriteExact), without a hypothesis: what a call has accepted is in
  its place in the file with the pending bytes laid over it (`Accepted`), the
  slices that are left add up to what is left (`SlicesLeft`), and a typed write was
  given the digits of its value (`Digits`).
- The arithmetic of both: `Horner` is the only recursion in IoBytes, sums of slices
  and numbers from digits are two uses of it. What is proved of it by a least
  counterexample: how it goes through a concatenation and shifts (`HornerConcat`,
  `HornerShift`), that digits below the base give a number below its power, hence
  that dropping digits is a division (`CutOff`) and writing and reading a number
  agree in both byte orders (`IntoBe`, `IntoLe`); for slices, what AdvanceSlices
  leaves (`AdvanceIs`).
- `NumbersCorrect` (NumbersExact), for any `Half`: linear arithmetic on both sides of
  i64's end, and division by the scales of times; for `FarSkip = FALSE`.
- `ListingExact` (EntriesExact): `Size` adds up record lengths; the offset of the
  walk is the size of the records passed, and the entries given out and those in
  the buffer spell the directory. The lemmas on Size go by a least counterexample
  over a set of numbers.
- `ErrorsOwnBoxes` (HeapExact): below an error is a chain of words, each context in
  its own box, down to a word that is no context. The chain cannot be longer than
  there are addresses, because its boxes are distinct, so the fold that frees them
  ends (`ChainEnds`); a ledger gives every payload one place. `ErrorsTransparent`
  (Transparent), for `KindedIo = FALSE`: what a chain says (kind, payload, number of
  backtraces) is what its end says, so a wrap or the loss of a box of another
  error changes nothing.

The assumptions are the named ASSUMEs of the modules, which TLC evaluates on
every run: the sets of tasks, workers, works, threads, stacks, receivers and
addresses are finite (as memory makes them), null values and main stacks are no
members of them, a ring has at least as many slots as its size asks for
(`SlotsAssumption`: sizes are rounded up to a power of two, and 2^k is beyond the
provers), a word has room for a kind, a tag and a code of an error
(`ErrorAssumption`), bytes have a largest one (`WriteLoopAssumption`; it is what the
base of the digits is), and the widest float has two bytes at least
(`LoopAssumption`: a float is all of `Width` or half of it).

The hypotheses of theorems are the disagreements of sections 6 and 7, each of which
makes the statement false: DebugAssertions for the executor, Size > 1 for the
channel, `Reentry = {}`, and FALSE for StaleRewind, SeekBuffered, FarSkip and
KindedIo.

Only model-checked:

- everything temporal under fairness (Woken, LoopRegainsControl,
  CompletionReturns, PoolEnds): the proof system does not reason about ENABLED;
- LinesWhole. It says what a record looks like after it went through three nested
  folds (strings, lines of a string, pieces that the writer takes), and what such a
  definition computes for every record needs an induction by hand for each of them.
  `Size`, `Boxes`, `Horner` and the chain of callers are the ones where that was
  done.

## 6. Findings

- `wait_list_close`: `suspend` tests `is_closed` (wait_list.rs:463) before it
  clears `empty` (467). A close in between finds `empty` set and wakes nobody; the
  waiter then sleeps on a closed list.
- `mp_size_one`: with one slot the sequence a sender leaves for the receiver is
  the one the next sender expects, and a second send overwrites the message.
- `thread_pool_cancel`: cancel_direct takes any work that is not queued for one
  that a worker took. A work that cancel_all completed has no worker (null), and
  a cancel that its owner runs before it is resumed follows the pointer.
- `broadcast_clone`: a receiver that is not the last clones the value after its
  decrement of `remaining`; the last receiver, which needs only the read lock too,
  moves the value out meanwhile. MessagesExact says that the value is there for the
  receiver that moves it, and nothing of one that clones.
- `writer_seek_loss`: a seek within the pending bytes sets `buffered.end` to the
  target, counted from `buffered.start` although the cursor is at the end
  (buf_writer.rs:205-216). Bytes that write has counted are dropped; seek(Current(0))
  drops all of them.

## 7. Disagreements without a run

The models contain these too. A constant or a property shows each; they are kept
out of the runs above, whose question is what holds otherwise. Where a property is
said to fail, TLC finds the counterexample with the constants of the run it belongs
to and the change that is given.

- `NoBranchFault` of Branch fails with `Reentry = {"run"}`: a future of a select
  completes inside the other one's run, and the other is cancelled before its cancel
  is there (branch.rs:245, 168). With `Reentry = {"cancel"}` the first cancel of
  cancel_all completes the second future, whose cancel was already taken out (324).
- `SelectReportsWinner` of Branch fails, with no change: the second future is done in
  run and the cancel of the first completes at once; run passes `done` for is_first,
  and select reports the first (branch.rs:397).
- `SeekReadsThere` of BufReader fails with `StaleRewind = TRUE`: a read past the
  buffer leaves the bytes of an earlier fill before `start` (buf_reader.rs:70-77), and
  unconsume (191-197) or a seek backwards (208-224) gives them out as if they preceded
  the cursor.
- `SeekReturnsPosition` of BufWriter fails with `SeekBuffered = TRUE`: stream_position
  adds the length of the whole buffer (buf_writer.rs:265) and not of the pending bytes,
  so a seek that the buffer answers returns a position where the stream is not.
- `NoneMeansEnd` of ReadLoops fails, with no change: the loops break at the kind of an
  error, the ends of the calls ask the task's flag. An EINTR, or an interrupt that the
  reader below has taken, gives None, Ok(0) or UnexpectedEof before the end of the
  stream (read.rs:66, 119, 193, 211).
- `FailedLineRestores` of ReadLoops fails, with no change: read_line strips a line
  ending whatever came of the read, so that a failed one takes it from what the string
  held before (read.rs:445-451).
- `SeekExact` of SeekNumbers fails with `FarSkip = TRUE`: skip_amount takes the maximum
  where it means the minimum (seek.rs:125), so an amount above i64 seeks backwards and
  succeeds.
- Executor with `DebugAssertions = FALSE`: suspend clears the caller only in
  debug builds (executor.rs:82), while resume assumes it is null (104), in a
  release build as a hint to the compiler. NoFault fails at the second resume.
- `tail` returns the front node (linked_list.rs:151), so pop_back pops the front.
  It is modelled that way; nothing in the repository calls it.
- `RobustFeedback` of Oneshot, the promise of oneshot.rs:36, fails when the value
  is stored after the receiver's try_recv and its drop reads the value first.
- NoStall of MpChannel leaves out states with an interrupted task or one in
  `Sender::closed`: both can use up a wake-up meant for another task, because
  wake_one runs before the message is published (mp.rs:92) and because closed
  waits in the list of senders that wait for room (167).
- ThreadPool with `Interruptible = TRUE` and the invariant `SignalsAlive`: close
  and cancel_all signal workers that were free to exit, and pthread_kill of an
  ended thread is undefined.
- A work submitted after close stays in the queue. `WorkEnds` is therefore about
  the works submitted before.
- cancel_direct and cancel_all complete requests with the queue's mutex held. A
  resume that ran pool operations on the same thread would lock it again; owners
  in the model are resumed on their own threads.
- BufWriter's stream_len does not count the pending bytes (buf_writer.rs:254).
- A seek of BufReader that fails discards the buffer all the same
  (buf_reader.rs:245), and one inside the buffer fails when stream_position does,
  although it has moved (223).
- read_to_end leaves the zeroes it reserved behind the data when a read fails;
  a read_line that reads nothing strips a line ending too; read_fully_vectored
  of empty buffers alone reports UnexpectedEof; the vectored calls and pipe_from
  do not look for an interrupt when nothing moved; an interrupted write_fmt reports
  it at an empty piece.
- `KindedIo = TRUE` of Errors: new_boxed, new_basic and new_std give an io::Error
  the kind Other. os_error is None for an os error below a context.
- `WakePrepared` of BlockOn fails: wake.rs:41 wants prepare first, and a future may
  complete before block has run. `CancelHeard` fails: a signal between
  should_cancel and the futex call interrupts nothing (block_on.rs:227).
- An interrupt during Future::run sets the flag only, because the canceller is
  stored afterwards (context.rs:113): `InterruptWorker` in BlockOn.
- `PoolPointerRead` of FiberPool fails: exit_fiber_to_pool reads the pool pointer
  from the page it has just given to madvise (fiber/mod.rs:119-121). A Fiber::new that
  panics leaves the pool's active count one too high.
- Broadcast: a receiver finds the channel closed although the message of a sender
  that was not yet through was published since (broadcast.rs:35); two senders a lap
  apart may write a slot in the wrong order, and the older message wins.
- The count that a notify returns is read before its wakes; waiters that a nested
  notify resumed are counted in both.
- Logger: a Display that logs, or that panics while panic_hook is set, locks the
  mutex its thread holds (`DisplayLogs`, `DisplayPanics`: "stuck"); one that panics
  without the hook poisons it, and every later record panics at the unwrap
  (logger.rs:22). An empty string at the end of a record opens a line of its own.
- Outside of the models: pthread_kill returns its error, which signal.rs:317 expects
  in errno; type_for (context.rs:26) compares 32 bits of a hash of the TypeId.

## 8. Not modelled

- `os/*` beyond futex, dirent, time and error wraps system calls and declares kernel
  structures, io_uring's among them, without a ring or a driver: no state.
- `pointer/*`, `cell.rs`, `closure.rs`, `opt/*` are typed wrappers; the procedural
  macros generate code at compile time, and only the scales of the duration macro
  are checked.
- `fiber/arm64.*` is the protocol of FiberPool in another instruction set.
- Formatting of errors and of type names, colours, UTF-8 itself (a check that may
  fail), split halves, iterators, environments.
- blocking_wait of RawNotify; the interrupt signal's effect on a system call in
  a pool callback, beyond the flag the callback reads; wrap-around of the 64-bit
  positions of a channel; weak memory.

## 9. What is left

Modelled and checked: sections 2 to 4; proved: section 5. Left to prove is
LinesWhole (the mutex around the pieces of a record); left to model is what section 8
lists.
