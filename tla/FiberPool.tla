------------------------------ MODULE FiberPool ------------------------------
(***************************************************************************)
(* Fibers and the pool of their stacks (src/src/fiber/mod.rs, pool.rs,     *)
(* x64.rs, x64.s). Several threads run fibers; the pool is shared.         *)
(*                                                                         *)
(* A fiber cannot free the stack it runs on. exit writes an Intercept      *)
(* below the stack pointer of the fiber it switches to and puts its        *)
(* address into that fiber's context: when the switch is over, the other   *)
(* fiber first frees the stack, then goes on where it was.                 *)
(*                                                                         *)
(* A context is main (one for each thread) or a stack. Resume and suspend  *)
(* are the ones of the executor: a fiber is suspended to, and exits to,    *)
(* the fiber that resumed it. The kernel (mmap, madvise) is external.      *)
(*                                                                         *)
(* tpc[t]: run; create (a new fiber was counted); intercepted; advised     *)
(***************************************************************************)
EXTENDS Integers, Sequences, FiniteSets

CONSTANTS
    Thread, Stack, None,
    Spare,       \* stacks kept although no fiber is active (16 in the code)
    MaxFibers    \* bound on the fibers created

ASSUME FiberAssumption ==
    /\ IsFiniteSet(Thread) /\ IsFiniteSet(Stack)
    /\ None \notin Stack /\ Spare \in Nat /\ MaxFibers \in Nat
    /\ \A t \in Thread : <<"main", t>> \notin Stack

VARIABLES
    mapped,    \* stacks that are mapped
    spares,    \* pool.pool
    active,    \* pool.active
    chain,     \* stacks of the fibers a thread runs, the running one last
    asleep,    \* suspended or new fibers of a thread
    tpc,
    fresh,     \* the stack new_fiber popped, or None
    leaving,   \* the fiber whose end the thread is dealing with, or None
    pooling,   \* the executor has a pool
    rip,       \* program counter in a context: start, switched or intercept
    below,     \* what was last written below the stack pointer of a context
    page,      \* the page with the arguments of exit: kept, cleared or zero
    created,   \* number of fibers created
    ffailed     \* ... of which Fiber::new panicked

fvars == <<mapped, spares, active, chain, asleep, tpc, fresh, leaving, pooling, rip, below, page, created, ffailed>>

MainOf(t) == <<"main", t>>
Ctx == Stack \cup {MainOf(t) : t \in Thread}

Running(t) == IF chain[t] = <<>> THEN MainOf(t) ELSE chain[t][Len(chain[t])]
Below(t) == IF Len(chain[t]) = 1 THEN MainOf(t) ELSE chain[t][Len(chain[t]) - 1]
Front(s) == SubSeq(s, 1, Len(s) - 1)
InPool == {spares[i] : i \in 1..Len(spares)}
InChain(t) == {chain[t][i] : i \in 1..Len(chain[t])}

FiberInit ==
    /\ mapped = {} /\ spares = <<>> /\ active = 0
    /\ chain = [t \in Thread |-> <<>>] /\ asleep = [t \in Thread |-> {}]
    /\ tpc = [t \in Thread |-> "run"] /\ fresh = [t \in Thread |-> None]
    /\ leaving = [t \in Thread |-> None] /\ pooling \in BOOLEAN
    /\ rip = [x \in Ctx |-> "switched"] /\ below = [x \in Ctx |-> "unused"]
    /\ page = [s \in Stack |-> "kept"]
    /\ created = 0 /\ ffailed = 0

-----------------------------------------------------------------------------
(* Pool::new_fiber *)

\* with the mutex of the pool
PopSpare(t) ==
    /\ tpc[t] = "run" /\ created < MaxFibers /\ pooling
    /\ created' = created + 1
    /\ active' = active + 1
    /\ fresh' = [fresh EXCEPT ![t] = IF spares = <<>> THEN None ELSE spares[Len(spares)]]
    /\ spares' = IF spares = <<>> THEN spares ELSE Front(spares)
    /\ tpc' = [tpc EXCEPT ![t] = "create"]
    /\ UNCHANGED <<mapped, chain, asleep, leaving, pooling, rip, below, page, ffailed>>

\* Worker::new without a pool
NewFiber(t) ==
    /\ tpc[t] = "run" /\ created < MaxFibers /\ ~pooling
    /\ created' = created + 1
    /\ tpc' = [tpc EXCEPT ![t] = "create"]
    /\ UNCHANGED <<mapped, spares, active, chain, asleep, fresh, leaving, pooling, rip, below, page, ffailed>>

\* Fiber::set_start, on a stack of the pool or a newly mapped one: the stack
\* pointer goes back to the top, and writing Start makes the page ordinary again
SetStart(t, s) ==
    /\ tpc[t] = "create"
    /\ IF fresh[t] = None THEN s \notin mapped ELSE s = fresh[t]
    /\ mapped' = mapped \cup {s}
    /\ rip' = [rip EXCEPT ![s] = "start"]
    /\ below' = [below EXCEPT ![s] = "Start"]
    /\ page' = [page EXCEPT ![s] = "kept"]
    /\ asleep' = [asleep EXCEPT ![t] = @ \cup {s}]
    /\ fresh' = [fresh EXCEPT ![t] = None]
    /\ tpc' = [tpc EXCEPT ![t] = "run"]
    /\ UNCHANGED <<spares, active, chain, leaving, pooling, created, ffailed>>

\* Fiber::new panics: getrlimit, mmap or mprotect failed
NewFails(t) ==
    /\ tpc[t] = "create" /\ fresh[t] = None
    /\ ffailed' = ffailed + 1
    /\ tpc' = [tpc EXCEPT ![t] = "run"]
    /\ UNCHANGED <<mapped, spares, active, chain, asleep, fresh, leaving, pooling, rip, below, page, created>>

-----------------------------------------------------------------------------
(* Fiber::switch, as the executor uses it *)

\* xx_core_fiber_x64_switch: the program counter of `from` is the return
\* address of the call; `to` goes on at its own, and start and intercept read
\* what lies below its stack pointer
ResumeFiber(t, s) ==
    /\ tpc[t] = "run" /\ s \in asleep[t]
    /\ rip' = [rip EXCEPT ![Running(t)] = "switched"]
    /\ below' = [below EXCEPT ![Running(t)] = "unused"]
    /\ chain' = [chain EXCEPT ![t] = Append(@, s)]
    /\ asleep' = [asleep EXCEPT ![t] = @ \ {s}]
    /\ UNCHANGED <<mapped, spares, active, tpc, fresh, leaving, pooling, page, created, ffailed>>

SuspendFiber(t) ==
    /\ tpc[t] = "run" /\ chain[t] # <<>>
    /\ rip' = [rip EXCEPT ![Running(t)] = "switched"]
    /\ below' = [below EXCEPT ![Running(t)] = "unused"]
    /\ chain' = [chain EXCEPT ![t] = Front(@)]
    /\ asleep' = [asleep EXCEPT ![t] = @ \cup {Running(t)}]
    /\ UNCHANGED <<mapped, spares, active, tpc, fresh, leaving, pooling, page, created, ffailed>>

\* set_intercept of a context
SetIntercept(x) ==
    /\ rip' = [rip EXCEPT ![x] = "intercept"]
    /\ below' = [below EXCEPT ![x] = "Intercept"]

\* the stack is put into the pool by the fiber that still runs on it
ExitRunning(t) ==
    /\ tpc[t] = "run" /\ chain[t] # <<>>
    /\ SetIntercept(Below(t))
    /\ spares' = IF pooling THEN Append(spares, Running(t)) ELSE spares
    /\ chain' = [chain EXCEPT ![t] = Front(@)]
    /\ leaving' = [leaving EXCEPT ![t] = Running(t)]
    /\ tpc' = [tpc EXCEPT ![t] = "intercepted"]
    /\ UNCHANGED <<mapped, active, asleep, fresh, pooling, page, created, ffailed>>

\* exit and exit_to_pool: the intercept of the fiber below, then the switch
ExitFiber(t) ==
    /\ tpc[t] = "run" /\ chain[t] # <<>>
    /\ SetIntercept(Below(t))
    /\ chain' = [chain EXCEPT ![t] = Front(@)]
    /\ leaving' = [leaving EXCEPT ![t] = Running(t)]
    /\ tpc' = [tpc EXCEPT ![t] = "intercepted"]
    /\ UNCHANGED <<mapped, spares, active, asleep, fresh, pooling, page, created, ffailed>>

-----------------------------------------------------------------------------
(* The intercept, on the stack of the other fiber *)

\* exit_fiber: the fiber is moved off its stack and dropped, which unmaps it
DropFiber(t) ==
    /\ tpc[t] = "intercepted" /\ ~pooling
    /\ mapped' = mapped \ {leaving[t]}
    /\ leaving' = [leaving EXCEPT ![t] = None]
    /\ rip' = [rip EXCEPT ![Running(t)] = "switched"]
    /\ tpc' = [tpc EXCEPT ![t] = "run"]
    /\ UNCHANGED <<spares, active, chain, asleep, fresh, pooling, below, page, created, ffailed>>

\* exit_fiber_to_pool: take the fiber, then madvise(Free)
ClearStack(t) ==
    /\ tpc[t] = "intercepted" /\ pooling
    /\ page' = [page EXCEPT ![leaving[t]] = "cleared"]
    /\ tpc' = [tpc EXCEPT ![t] = "advised"]
    /\ UNCHANGED <<mapped, spares, active, chain, asleep, fresh, leaving, pooling, rip, below, created, ffailed>>

\* the kernel takes the pages back: they read as zeroes
ReclaimPage(s) ==
    /\ page[s] = "cleared" /\ s \in mapped
    /\ page' = [page EXCEPT ![s] = "zero"]
    /\ UNCHANGED <<mapped, spares, active, chain, asleep, tpc, fresh, leaving, pooling, rip, below, created, ffailed>>

Ideal(count) == (count * 20) \div 100 + Spare

\* Pool::exit_fiber, with the mutex: the stack is kept, unless there are enough
\* of them or the vector cannot grow. The pool is found through the arguments
\* of exit_to_pool, which are on the stack that was just cleared; a null
\* pointer there is the end of the program.
ReturnToPool(t) ==
    /\ tpc[t] = "advised" /\ page[leaving[t]] # "zero"
    /\ active' = active - 1
    /\ \/ Ideal(active - 1) > Len(spares) /\ spares' = Append(spares, leaving[t]) /\ UNCHANGED mapped
       \/ mapped' = mapped \ {leaving[t]} /\ UNCHANGED spares
    /\ leaving' = [leaving EXCEPT ![t] = None]
    /\ rip' = [rip EXCEPT ![Running(t)] = "switched"]
    /\ tpc' = [tpc EXCEPT ![t] = "run"]
    /\ UNCHANGED <<chain, asleep, fresh, pooling, below, page, created, ffailed>>

-----------------------------------------------------------------------------

FiberNext ==
    \/ \E t \in Thread :
        \/ PopSpare(t) \/ NewFiber(t) \/ (\E s \in Stack : SetStart(t, s) \/ ResumeFiber(t, s)) \/ NewFails(t)
        \/ SuspendFiber(t) \/ ExitFiber(t)
        \/ DropFiber(t) \/ ClearStack(t) \/ ReturnToPool(t)
    \/ \E s \in Stack : ReclaimPage(s)

FiberSpec == FiberInit /\ [][FiberNext]_fvars

-----------------------------------------------------------------------------
(* Properties *)

\* The places a stack can be in.
Place == {<<"pool", None>>} \cup
         {<<p, t>> : p \in {"fresh", "asleep", "running", "leaving"}, t \in Thread}

Holds(place, s) ==
    LET t == place[2]
    IN  CASE place[1] = "pool" -> s \in InPool
          [] place[1] = "fresh" -> fresh[t] = s
          [] place[1] = "asleep" -> s \in asleep[t]
          [] place[1] = "running" -> s \in InChain(t)
          [] place[1] = "leaving" -> leaving[t] = s

\* A stack is mapped exactly as long as somebody has it, and only one has it:
\* no stack is in the pool, handed out again or unmapped while a fiber is on
\* it, none is in the pool twice, and none is lost.
StackOwned ==
    /\ \A s \in Stack : s \in mapped <=> \E p \in Place : Holds(p, s)
    /\ \A s \in Stack, p \in Place, q \in Place : Holds(p, s) /\ Holds(q, s) => p = q
    /\ Cardinality(InPool) = Len(spares)

\* A fiber is never resumed into the wrong code: a fiber that was not started
\* still has its Start below the stack pointer, and a fiber whose context is an
\* intercept is the one its thread is on.
ContextIntact ==
    /\ \A t \in Thread : \A s \in asleep[t] :
         rip[s] \in {"start", "switched"} /\ (rip[s] = "start" => below[s] = "Start")
    /\ \A t \in Thread : tpc[t] \in {"intercepted", "advised"} <=> rip[Running(t)] = "intercept"

\* The fibers the pool counts are the ones handed out and not yet returned, and
\* those Fiber::new failed for.
ActiveExact ==
    pooling => active = ffailed + Cardinality({s \in mapped : s \notin InPool})
               + Cardinality({t \in Thread : tpc[t] = "create" /\ fresh[t] = None})

\* The stacks, the contexts and the count together: what a fiber runs on is its
\* own, what it resumes into is its own, and the pool knows how many there are.
FiberSafe == StackOwned /\ ContextIntact /\ ActiveExact

\* What the safety comment of exit_fiber_to_pool says of its argument, "valid
\* ptr": the pointer to the pool it reads is the one exit_to_pool wrote.
PoolPointerRead == \A t \in Thread : tpc[t] = "advised" => page[leaving[t]] # "zero"
=============================================================================
