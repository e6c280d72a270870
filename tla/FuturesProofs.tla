---------------------------- MODULE FuturesProofs ----------------------------
(***************************************************************************)
(* Proofs about what a task is stopped on and started by: the blocking     *)
(* calls of BlockOn, the stacks of FiberPool, and the pointer of           *)
(* AtomicWaiter, which hands out each request once and loses none.         *)
(***************************************************************************)
EXTENDS BlockOn, FiberPool, AtomicWaiter, Branch, FiniteSetTheorems, SequenceTheorems, TLAPS

-----------------------------------------------------------------------------
(* BlockOn: the frame of a call outlives whoever completes into it *)

SyncPc == {"looping", "waiting", "entering", "asleep", "swapping"}
ContextPc == {"blocking", "prepared", "suspended"}

BlockTypeOK ==
    /\ bmode \in {"sync", "context"}
    /\ bpc \in {"idle", "running", "output"} \cup SyncPc \cup ContextPc
    /\ bpc \in SyncPc => bmode = "sync"
    /\ bpc \in ContextPc => bmode = "context"
    /\ call \in 0..MaxCalls
    /\ comp \in [BlockCall -> {"none", "progress", "stored", "waking", "over"}]
    /\ posted \subseteq BlockCall

\* Only the current call has a completion that still has to touch the frame.
\* Of the calls before it at most the wake of the futex is left.
OneCompletion ==
    /\ \A c \in BlockCall :
         /\ c > call => comp[c] = "none"
         /\ c < call => comp[c] \in {"none", "waking", "over"}
         /\ comp[c] = "waking" => bmode = "sync"
    /\ bpc = "idle" => call = 0 \/ comp[call] \in {"none", "waking", "over"}
    /\ bpc # "idle" => call # 0 /\ comp[call] # "none"
    /\ bpc = "output" => comp[call] \in {"waking", "over"}

\* While the call is on, the word is Notified exactly when the completion of
\* this call has swapped it, and otherwise says which side of the fetch_sub the
\* caller is on: a wake of the call before leaves no trace in it.
WordExact ==
    bmode = "sync" /\ bpc \notin {"idle", "output"} =>
        /\ word = Notified <=> comp[call] \in {"waking", "over"}
        /\ word # Notified => word = IF bpc \in {"entering", "asleep", "swapping"} THEN Parked ELSE Idle

\* The value is in the frame as soon as the completion has stored it, and a
\* request in the queue of the loop is the one of the call that waits for it.
ValueStored ==
    /\ bpc # "idle" /\ comp[call] \in {"stored", "waking", "over"} => boutput = call
    /\ \A c \in posted : c = call /\ comp[c] = "over" /\ bpc \in {"running"} \cup ContextPc
    /\ posted # {} => bmode = "context"

BlockInv == BlockTypeOK /\ OneCompletion /\ WordExact /\ ValueStored

\* Before the first call.
LEMMA BlockInitInv == BlockInit => BlockInv
  BY BlockOnAssumption
  DEF BlockInit, BlockInv, BlockTypeOK,
      OneCompletion, WordExact, ValueStored, SyncPc, ContextPc,
      BlockCall

\* A new call sets up its frame: every earlier completion is past the frame.
LEMMA RunFutureInv ==
  ASSUME BlockInv, RunFuture
  PROVE  BlockInv'
  BY BlockOnAssumption
  DEF RunFuture, BlockInv, BlockTypeOK,
      OneCompletion, WordExact, ValueStored, SyncPc, ContextPc,
      BlockCall, Parked, Idle, Notified, ctx

\* Future::run returns, with or without a value.
LEMMA RunReturnsInv ==
  ASSUME BlockInv, RunDone \/ RunPending
  PROVE  BlockInv'
<1>1. CASE RunDone
  BY <1>1, BlockOnAssumption
  DEF RunDone, BlockInv, BlockTypeOK,
      OneCompletion, WordExact, ValueStored, SyncPc, ContextPc,
      BlockCall, Parked, Idle, Notified, ctx
<1>2. CASE RunPending
  BY <1>2, BlockOnAssumption
  DEF RunPending, BlockInv, BlockTypeOK,
      OneCompletion, WordExact, ValueStored, SyncPc, ContextPc,
      BlockCall, Parked, Idle, Notified, ctx
<1> QED
  BY <1>1, <1>2

\* The call returns; its completion has only the futex wake left to do.
LEMMA OutputInv ==
  ASSUME BlockInv, Output
  PROVE  BlockInv'
  BY BlockOnAssumption
  DEF Output, BlockInv, BlockTypeOK,
      OneCompletion, WordExact, ValueStored, SyncPc, ContextPc,
      BlockCall, Parked, Idle, Notified, ctx

\* The loop of block_on_sync and the steps of Notify::wait.
LEMMA SyncLoopInv ==
  ASSUME BlockInv, CheckCancel \/ FutexWait \/ FutexInterrupted \/ WaitSwap \/ SetShouldCancel
  PROVE  BlockInv'
  BY BlockOnAssumption
  DEF CheckCancel, FutexWait, FutexInterrupted, WaitSwap, SetShouldCancel, BlockInv, BlockTypeOK,
      OneCompletion, WordExact, ValueStored, SyncPc, ContextPc,
      BlockCall, Parked, Idle, Notified, ctx

\* The fetch_sub goes from Idle to Parked or from Notified to the return, and
\* never below zero.
LEMMA WaitSubInv ==
  ASSUME BlockInv, WaitSub
  PROVE  BlockInv'
  BY BlockOnAssumption
  DEF WaitSub, Word, BlockInv, BlockTypeOK,
      OneCompletion, WordExact, ValueStored, SyncPc, ContextPc,
      BlockCall, Parked, Idle, Notified, ctx

\* Context::block_on, and what other workers do to the context.
LEMMA ContextInv ==
  ASSUME BlockInv, Prepare \/ SuspendWorker \/ InterruptWorker \/ ClearWorkerInterrupt
  PROVE  BlockInv'
  BY BlockOnAssumption
  DEF Prepare, SuspendWorker, InterruptWorker, ClearWorkerInterrupt, BlockInv, BlockTypeOK,
      OneCompletion, WordExact, ValueStored, SyncPc, ContextPc,
      BlockCall, Parked, Idle, Notified, ctx

\* Guards and budget.
LEMMA ContextDataInv ==
  ASSUME BlockInv, (\E rel \in {-1, 1} : Guard(rel)) \/ (\E amount \in 1..(DefaultBudget + 1) : AcquireBudget(amount))
  PROVE  BlockInv'
  BY BlockOnAssumption
  DEF Guard, AcquireBudget, BlockInv, BlockTypeOK,
      OneCompletion, WordExact, ValueStored, SyncPc, ContextPc,
      BlockCall, Parked, Idle, Notified, ctx

\* The event loop resumes the worker whose request it takes.
LEMMA LoopWakeInv ==
  ASSUME BlockInv, NEW c \in BlockCall, LoopWake(c)
  PROVE  BlockInv'
  BY BlockOnAssumption
  DEF LoopWake, BlockInv, BlockTypeOK,
      OneCompletion, WordExact, ValueStored, SyncPc, ContextPc,
      BlockCall, Parked, Idle, Notified, ctx

\* The completion stores the value: the frame is there.
LEMMA StoreInv ==
  ASSUME BlockInv, NEW c \in BlockCall, Store(c)
  PROVE  BlockInv'
  BY BlockOnAssumption
  DEF Store, BlockInv, BlockTypeOK,
      OneCompletion, WordExact, ValueStored, SyncPc, ContextPc,
      BlockCall, Parked, Idle, Notified, ctx

\* The completion swaps the word and wakes, or posts its request.
LEMMA CompleterInv ==
  ASSUME BlockInv, NEW c \in BlockCall, Completer(c)
  PROVE  BlockInv'
<1>1. CASE NotifySwap(c)
  BY <1>1, BlockOnAssumption
  DEF NotifySwap, BlockInv, BlockTypeOK,
      OneCompletion, WordExact, ValueStored, SyncPc, ContextPc,
      BlockCall, Parked, Idle, Notified, ctx
<1>2. CASE FutexWake(c)
  BY <1>2, BlockOnAssumption
  DEF FutexWake, BlockInv, BlockTypeOK,
      OneCompletion, WordExact, ValueStored, SyncPc, ContextPc,
      BlockCall, Parked, Idle, Notified, ctx
<1>3. CASE PostWake(c)
  BY <1>3, BlockOnAssumption
  DEF PostWake, BlockInv, BlockTypeOK,
      OneCompletion, WordExact, ValueStored, SyncPc, ContextPc,
      BlockCall, Parked, Idle, Notified, ctx
<1> QED
  BY <1>1, <1>2, <1>3 DEF Completer

\* For any number of calls: the completion of a blocking call only touches the
\* frame of its own call while that call has not returned, and the call returns
\* with the value of its own future, whichever thread is how far and however
\* often the futex wakes up for nothing.
THEOREM BlockingCallsSafe == BlockSpec => []BlockSafe
<1>1. BlockInv /\ [BlockNext]_bvars => BlockInv'
  <2> SUFFICES ASSUME BlockInv, [BlockNext]_bvars PROVE BlockInv'
    OBVIOUS
  <2>1. ASSUME Blocker PROVE BlockInv'
    BY <2>1, RunReturnsInv, OutputInv, SyncLoopInv, WaitSubInv, ContextInv DEF Blocker
  <2>2. ASSUME NEW c \in BlockCall, Store(c) \/ Completer(c) \/ LoopWake(c) PROVE BlockInv'
    BY <2>2, StoreInv, CompleterInv, LoopWakeInv
  <2>3. CASE UNCHANGED bvars
    BY <2>3 DEF bvars, BlockInv, BlockTypeOK, OneCompletion, WordExact, ValueStored
  <2> QED
    BY <2>1, <2>2, <2>3, RunFutureInv, RunReturnsInv, SyncLoopInv, ContextInv, ContextDataInv
    DEF BlockNext
<1>2. BlockInv => BlockSafe
  BY DEF BlockInv, BlockTypeOK, OneCompletion, ValueStored, BlockSafe, FrameAlive,
         BlockedUntilComplete, BlockCall, SyncPc, ContextPc
<1> QED
  BY BlockInitInv, <1>1, <1>2, PTL DEF BlockSpec

-----------------------------------------------------------------------------
(* FiberPool: a stack has one user *)

Elems(q) == {q[i] : i \in 1..Len(q)}
Distinct(q) == \A i, j \in 1..Len(q) : q[i] = q[j] => i = j

FiberTypeOK ==
    /\ mapped \subseteq Stack
    /\ spares \in Seq(Stack)
    /\ active \in Int /\ created \in Nat /\ ffailed \in Nat
    /\ chain \in [Thread -> Seq(Stack)]
    /\ asleep \in [Thread -> SUBSET Stack]
    /\ tpc \in [Thread -> {"run", "create", "intercepted", "advised"}]
    /\ fresh \in [Thread -> Stack \cup {None}]
    /\ leaving \in [Thread -> Stack \cup {None}]
    /\ pooling \in BOOLEAN
    /\ rip \in [Ctx -> {"start", "switched", "intercept"}]
    /\ below \in [Ctx -> {"unused", "Start", "Intercept"}]
    /\ page \in [Stack -> {"kept", "cleared", "zero"}]

\* Where a thread is says whether it holds a stack outside of its fibers.
TpcLinks ==
    \A t \in Thread :
        /\ fresh[t] # None => tpc[t] = "create"
        /\ leaving[t] # None <=> tpc[t] \in {"intercepted", "advised"}
        /\ tpc[t] = "advised" => pooling

\* Every stack has at most one place, also within the pool and within a chain,
\* and has one exactly while it is mapped.
OnePlace ==
    /\ \A s \in Stack : s \in mapped <=> \E p \in Place : Holds(p, s)
    /\ \A s \in Stack, p \in Place, q \in Place : Holds(p, s) /\ Holds(q, s) => p = q
    /\ Distinct(spares)
    /\ \A t \in Thread : Distinct(chain[t])

\* A context is an intercept only while its thread is on it and has a fiber to
\* free; the fibers under a running one are not.
InterceptExact ==
    \A x \in Ctx :
        rip[x] = "intercept" <=> \E t \in Thread : tpc[t] \in {"intercepted", "advised"} /\ Running(t) = x

\* A fiber that was not started still has its Start.
StartIntact ==
    \A t \in Thread : \A s \in asleep[t] : rip[s] = "start" => below[s] = "Start"

FiberInv ==
    FiberTypeOK /\ TpcLinks /\ OnePlace /\ InterceptExact /\ StartIntact
    /\ Cardinality(InPool) = Len(spares) /\ ActiveExact

\* Append adds one element at the end.
LEMMA AppendElems ==
  ASSUME NEW S, NEW q \in Seq(S), NEW e \in S, e \notin Elems(q), Distinct(q)
  PROVE  /\ Append(q, e) \in Seq(S) /\ Len(Append(q, e)) = Len(q) + 1
         /\ Append(q, e)[Len(q) + 1] = e /\ \A i \in 1..Len(q) : Append(q, e)[i] = q[i]
         /\ Elems(Append(q, e)) = Elems(q) \cup {e} /\ Distinct(Append(q, e))
  BY DEF Elems, Distinct

\* Front takes away the last element.
LEMMA FrontElems ==
  ASSUME NEW S, NEW q \in Seq(S), q # <<>>, Distinct(q)
  PROVE  /\ Front(q) \in Seq(S) /\ Len(q) \in Nat /\ Len(q) > 0 /\ Len(Front(q)) = Len(q) - 1
         /\ q[Len(q)] \in S /\ q[Len(q)] \in Elems(q)
         /\ \A i \in 1..(Len(q) - 1) : Front(q)[i] = q[i]
         /\ Elems(Front(q)) = Elems(q) \ {q[Len(q)]} /\ Distinct(Front(q))
<1>1. Len(q) \in Nat /\ Len(q) > 0 /\ q[Len(q)] \in S /\ q[Len(q)] \in Elems(q)
  BY DEF Elems
<1>2. Front(q) \in Seq(S) /\ Len(Front(q)) = Len(q) - 1
  <2>1. PICK n \in Nat : n = Len(q) - 1
    BY <1>1
  <2>2. \A i \in 1..n : q[i] \in S
    BY <2>1
  <2>3. Front(q) = SubSeq(q, 1, n)
    BY <2>1 DEF Front
  <2>4. SubSeq(q, 1, n) \in Seq(S) /\ Len(SubSeq(q, 1, n)) = IF 1 <= n THEN n - 1 + 1 ELSE 0
    BY <2>2, SubSeqProperties, SMT
  <2>5. Len(SubSeq(q, 1, n)) = n
    BY <2>4
  <2> QED
    BY <2>1, <2>3, <2>4, <2>5
<1>3. \A i \in 1..(Len(q) - 1) : Front(q)[i] = q[i]
  BY <1>1 DEF Front
<1>4. Distinct(Front(q))
  BY <1>1, <1>2, <1>3 DEF Distinct
<1>5. Elems(Front(q)) = Elems(q) \ {q[Len(q)]}
  BY <1>1, <1>2, <1>3 DEF Elems, Distinct
<1> QED
  BY <1>1, <1>2, <1>3, <1>4, <1>5

\* The five kinds of places, one by one.
LEMMA HoldsAt ==
  ASSUME NEW s
  PROVE  /\ Holds(<<"pool", None>>, s) <=> s \in InPool
         /\ \A t \in Thread :
              /\ Holds(<<"fresh", t>>, s) <=> fresh[t] = s
              /\ Holds(<<"asleep", t>>, s) <=> s \in asleep[t]
              /\ Holds(<<"running", t>>, s) <=> s \in InChain(t)
              /\ Holds(<<"leaving", t>>, s) <=> leaving[t] = s
  BY DEF Holds

\* The places a stack can be in, one by one.
LEMMA PlaceCases ==
  ASSUME NEW p \in Place
  PROVE  p = <<"pool", None>> \/ \E t \in Thread :
           p = <<"fresh", t>> \/ p = <<"asleep", t>> \/ p = <<"running", t>> \/ p = <<"leaving", t>>
  BY DEF Place

\* Each of them is a place.
LEMMA PlacesOf ==
  /\ <<"pool", None>> \in Place
  /\ \A t \in Thread : /\ <<"fresh", t>> \in Place /\ <<"asleep", t>> \in Place
                       /\ <<"running", t>> \in Place /\ <<"leaving", t>> \in Place
  BY DEF Place

\* The chain of a thread in terms of its elements.
LEMMA InChainElems == InPool = Elems(spares) /\ \A t \in Thread : InChain(t) = Elems(chain[t])
  BY DEF InPool, InChain, Elems

\* A step takes stack s from the places From and gives it to the places To;
\* no other stack changes hands.
Transfer(s, From, To) ==
    \A x \in Stack, p \in Place :
        Holds(p, x)' <=> (Holds(p, x) /\ ~(x = s /\ p \in From)) \/ (x = s /\ p \in To)

OneHolder ==
    /\ \A s \in Stack : s \in mapped <=> \E p \in Place : Holds(p, s)
    /\ \A s \in Stack, p \in Place, q \in Place : Holds(p, s) /\ Holds(q, s) => p = q

\* To transfer a stack is to say what happens to the five kinds of places.
LEMMA TransferBy ==
  ASSUME NEW s, NEW From, NEW To,
         \A x \in Stack :
           /\ (x \in InPool)' <=> \/ x \in InPool /\ ~(x = s /\ <<"pool", None>> \in From)
                                  \/ x = s /\ <<"pool", None>> \in To
           /\ \A u \in Thread :
                /\ fresh'[u] = x <=> \/ fresh[u] = x /\ ~(x = s /\ <<"fresh", u>> \in From)
                                     \/ x = s /\ <<"fresh", u>> \in To
                /\ x \in asleep'[u] <=> \/ x \in asleep[u] /\ ~(x = s /\ <<"asleep", u>> \in From)
                                        \/ x = s /\ <<"asleep", u>> \in To
                /\ (x \in InChain(u))' <=> \/ x \in InChain(u) /\ ~(x = s /\ <<"running", u>> \in From)
                                           \/ x = s /\ <<"running", u>> \in To
                /\ leaving'[u] = x <=> \/ leaving[u] = x /\ ~(x = s /\ <<"leaving", u>> \in From)
                                       \/ x = s /\ <<"leaving", u>> \in To
  PROVE  Transfer(s, From, To)
<1> SUFFICES ASSUME NEW x \in Stack, NEW p \in Place
             PROVE  Holds(p, x)' <=> (Holds(p, x) /\ ~(x = s /\ p \in From)) \/ (x = s /\ p \in To)
  BY DEF Transfer
<1>1. CASE p = <<"pool", None>>
  BY <1>1 DEF Holds
<1>2. ASSUME NEW u \in Thread, p = <<"fresh", u>>
      PROVE  Holds(p, x)' <=> (Holds(p, x) /\ ~(x = s /\ p \in From)) \/ (x = s /\ p \in To)
  BY <1>2 DEF Holds
<1>3. ASSUME NEW u \in Thread, p = <<"asleep", u>>
      PROVE  Holds(p, x)' <=> (Holds(p, x) /\ ~(x = s /\ p \in From)) \/ (x = s /\ p \in To)
  BY <1>3 DEF Holds
<1>4. ASSUME NEW u \in Thread, p = <<"running", u>>
      PROVE  Holds(p, x)' <=> (Holds(p, x) /\ ~(x = s /\ p \in From)) \/ (x = s /\ p \in To)
  BY <1>4 DEF Holds
<1>5. ASSUME NEW u \in Thread, p = <<"leaving", u>>
      PROVE  Holds(p, x)' <=> (Holds(p, x) /\ ~(x = s /\ p \in From)) \/ (x = s /\ p \in To)
  BY <1>5 DEF Holds
<1> QED
  BY <1>1, <1>2, <1>3, <1>4, <1>5, PlaceCases

\* A stack that goes from the place it is at to one other place keeps one user.
LEMMA TransferKeeps ==
  ASSUME OneHolder, NEW s \in Stack, NEW From, NEW q \in Place, Transfer(s, From, {q}),
         \A p \in Place : Holds(p, s) => p \in From, mapped' = mapped \cup {s}
  PROVE  OneHolder'
  BY DEF OneHolder, Transfer

\* A stack that leaves its place for none is unmapped.
LEMMA TransferFrees ==
  ASSUME OneHolder, NEW s \in Stack, NEW From, Transfer(s, From, {}),
         \A p \in Place : Holds(p, s) => p \in From, mapped' = mapped \ {s}
  PROVE  OneHolder'
  BY DEF OneHolder, Transfer

\* Where a stack is, it is nowhere else.
LEMMA OnlyThere ==
  ASSUME OneHolder, NEW s \in Stack, NEW q \in Place, Holds(q, s)
  PROVE  s \in mapped /\ \A p \in Place : Holds(p, s) => p \in {q}
  BY DEF OneHolder

\* The contexts threads are on, or go back to, are their own, and no fiber that
\* sleeps is one of them.
LEMMA RunningFacts ==
  ASSUME FiberTypeOK, OnePlace
  PROVE  \A t \in Thread :
           /\ Running(t) \in Ctx
           /\ Running(t) \in Stack => Running(t) \in InChain(t)
           /\ \A u \in Thread : Running(u) = Running(t) => u = t
           /\ \A u \in Thread : Running(t) \notin asleep[u]
           /\ chain[t] # <<>> => /\ Running(t) \in Stack /\ Below(t) \in Ctx
                                 /\ Below(t) \in Stack => Below(t) \in InChain(t)
                                 /\ \A u \in Thread : Running(u) # Below(t) /\ Below(t) \notin asleep[u]
<1>1. \A u \in Thread : chain[u] = <<>> =>
          /\ Running(u) = <<"main", u>> /\ Running(u) \in Ctx /\ Running(u) \notin Stack
          /\ \A w \in Thread : Running(u) \notin asleep[w]
  BY FiberAssumption DEF Running, MainOf, Ctx, FiberTypeOK
<1>2. \A u \in Thread : chain[u] # <<>> =>
          /\ Len(chain[u]) \in Nat /\ Len(chain[u]) > 0
          /\ Running(u) = chain[u][Len(chain[u])]
          /\ Running(u) \in Ctx /\ Running(u) \in Stack /\ Running(u) \in InChain(u)
  <2> SUFFICES ASSUME NEW u \in Thread, chain[u] # <<>>
               PROVE  /\ Len(chain[u]) \in Nat /\ Len(chain[u]) > 0
                      /\ Running(u) = chain[u][Len(chain[u])]
                      /\ Running(u) \in Ctx /\ Running(u) \in Stack /\ Running(u) \in InChain(u)
    OBVIOUS
  <2>1. chain[u] \in Seq(Stack)
    BY DEF FiberTypeOK
  <2>2. Len(chain[u]) \in Nat /\ Len(chain[u]) > 0
    BY <2>1
  <2>3. Running(u) = chain[u][Len(chain[u])]
    BY DEF Running
  <2> QED
    BY <2>1, <2>2, <2>3 DEF Ctx, InChain
<1>3. \A u, w \in Thread, s \in Stack :
          /\ s \in InChain(u) /\ s \in InChain(w) => u = w
          /\ s \in InChain(u) => s \notin asleep[w]
  <2> SUFFICES ASSUME NEW u \in Thread, NEW w \in Thread, NEW s \in Stack, s \in InChain(u)
               PROVE  (s \in InChain(w) => u = w) /\ s \notin asleep[w]
    OBVIOUS
  <2>1. Holds(<<"running", u>>, s)
    BY HoldsAt
  <2>2. s \in InChain(w) => Holds(<<"running", w>>, s)
    BY HoldsAt
  <2>3. s \in asleep[w] => Holds(<<"asleep", w>>, s)
    BY HoldsAt
  <2>4. /\ <<"running", u>> = <<"running", w>> => u = w
        /\ <<"running", u>> # <<"asleep", w>>
    OBVIOUS
  <2> QED
    BY <2>1, <2>2, <2>3, <2>4, PlacesOf DEF OnePlace
<1>4. \A u, w \in Thread : Running(u) = Running(w) => u = w
  <2> SUFFICES ASSUME NEW u \in Thread, NEW w \in Thread, Running(u) = Running(w)
               PROVE  u = w
    OBVIOUS
  <2>1. CASE chain[u] = <<>>
    <3>1. chain[w] = <<>>
      BY <1>1, <1>2, <2>1
    <3> QED
      BY <1>1, <2>1, <3>1
  <2>2. CASE chain[u] # <<>>
    BY <1>1, <1>2, <1>3, <2>2
  <2> QED
    BY <2>1, <2>2
<1>5. ASSUME NEW t \in Thread, chain[t] # <<>>
      PROVE  /\ Below(t) \in Ctx
             /\ Below(t) \in Stack => Below(t) \in InChain(t)
             /\ \A u \in Thread : Running(u) # Below(t) /\ Below(t) \notin asleep[u]
  <2>1. CASE Len(chain[t]) = 1
    <3>1. Below(t) = <<"main", t>> /\ Below(t) \in Ctx /\ Below(t) \notin Stack
      BY <2>1, FiberAssumption DEF Below, MainOf, Ctx
    <3>2. \A u \in Thread : Running(u) # Below(t)
      BY <1>1, <1>2, <1>5, <3>1
    <3> QED
      BY <3>1, <3>2 DEF FiberTypeOK
  <2>2. CASE Len(chain[t]) # 1
    <3>1. /\ Below(t) = chain[t][Len(chain[t]) - 1]
          /\ Len(chain[t]) - 1 \in 1..Len(chain[t])
      <4>1. Len(chain[t]) \in Nat /\ Len(chain[t]) > 0
        BY <1>2, <1>5
      <4>2. \A n \in Nat : n > 0 /\ n # 1 => n - 1 \in 1..n
        OBVIOUS
      <4> QED
        BY <2>2, <4>1, <4>2 DEF Below
    <3>2. Below(t) \in Stack /\ Below(t) \in InChain(t) /\ Below(t) \in Ctx
      BY <3>1 DEF FiberTypeOK, InChain, Ctx
    <3>3. Running(t) # Below(t)
      BY <1>2, <1>5, <3>1 DEF OnePlace, Distinct
    <3>4. \A u \in Thread : Running(u) # Below(t)
      BY <1>1, <1>2, <1>3, <3>2, <3>3
    <3> QED
      BY <1>3, <3>2, <3>4
  <2> QED
    BY <2>1, <2>2
<1> QED
  BY <1>1, <1>2, <1>3, <1>4, <1>5

\* A stack that is at one place is at no other.
LEMMA PlaceFacts ==
  ASSUME OneHolder, NEW t \in Thread, NEW s \in Stack
  PROVE  /\ s \in InPool =>
              s \in mapped /\ \A p \in Place : Holds(p, s) => p \in {<<"pool", None>>}
         /\ fresh[t] = s =>
              s \in mapped /\ \A p \in Place : Holds(p, s) => p \in {<<"fresh", t>>}
         /\ s \in asleep[t] =>
              s \in mapped /\ \A p \in Place : Holds(p, s) => p \in {<<"asleep", t>>}
         /\ s \in InChain(t) =>
              s \in mapped /\ \A p \in Place : Holds(p, s) => p \in {<<"running", t>>}
         /\ leaving[t] = s =>
              s \in mapped /\ \A p \in Place : Holds(p, s) => p \in {<<"leaving", t>>}
  BY OnlyThere, PlacesOf, HoldsAt

\* A fiber is resumed: its stack goes from the sleeping ones to the chain.
LEMMA ResumeFiberInv ==
  ASSUME FiberInv, NEW t \in Thread, NEW s \in Stack, ResumeFiber(t, s)
  PROVE  FiberInv'
<1>0. /\ tpc[t] = "run" /\ s \in asleep[t]
      /\ rip' = [rip EXCEPT ![Running(t)] = "switched"]
      /\ below' = [below EXCEPT ![Running(t)] = "unused"]
      /\ chain' = [chain EXCEPT ![t] = Append(@, s)]
      /\ asleep' = [asleep EXCEPT ![t] = @ \ {s}]
      /\ UNCHANGED <<mapped, spares, active, tpc, fresh, leaving, pooling, page, created, ffailed>>
  BY DEF ResumeFiber
<1>1. FiberTypeOK /\ TpcLinks /\ OnePlace /\ OneHolder /\ InterceptExact /\ StartIntact
  BY DEF FiberInv, OnePlace, OneHolder
<1>2. /\ Running(t) \in Ctx
      /\ \A u \in Thread : Running(u) = Running(t) => u = t
      /\ \A u \in Thread : Running(t) \notin asleep[u]
  BY <1>1, RunningFacts
<1>3. s \in mapped /\ \A p \in Place : Holds(p, s) => p \in {<<"asleep", t>>}
  BY <1>0, <1>1, PlaceFacts
<1>4. chain[t] \in Seq(Stack) /\ Distinct(chain[t]) /\ s \notin Elems(chain[t])
  <2>1. s \notin InChain(t)
    <3>1. <<"running", t>> # <<"asleep", t>>
      OBVIOUS
    <3> QED
      BY <1>3, <3>1, HoldsAt, PlacesOf
  <2> QED
    BY <1>1, <2>1, InChainElems DEF FiberTypeOK, OnePlace
<1>5. /\ chain'[t] \in Seq(Stack) /\ Distinct(chain'[t]) /\ chain'[t] # <<>>
      /\ InChain(t)' = InChain(t) \cup {s} /\ Running(t)' = s
      /\ \A u \in Thread \ {t} : chain'[u] = chain[u] /\ InChain(u)' = InChain(u) /\ Running(u)' = Running(u)
  <2>1. chain'[t] = Append(chain[t], s) /\ \A u \in Thread \ {t} : chain'[u] = chain[u]
    BY <1>0, <1>1 DEF FiberTypeOK
  <2>2. /\ Append(chain[t], s) \in Seq(Stack) /\ Len(Append(chain[t], s)) = Len(chain[t]) + 1
        /\ Append(chain[t], s)[Len(chain[t]) + 1] = s
        /\ Elems(Append(chain[t], s)) = Elems(chain[t]) \cup {s} /\ Distinct(Append(chain[t], s))
    BY <1>4, AppendElems
  <2>3. Append(chain[t], s) # <<>>
    BY <1>4, <2>2
  <2>4. InChain(t)' = InChain(t) \cup {s} /\ \A u \in Thread \ {t} : InChain(u)' = InChain(u)
    BY <2>1, <2>2 DEF InChain, Elems
  <2>5. Running(t)' = s /\ \A u \in Thread \ {t} : Running(u)' = Running(u)
    BY <2>1, <2>2, <2>3 DEF Running
  <2> QED
    BY <2>1, <2>2, <2>3, <2>4, <2>5
<1>6. InPool' = InPool
  BY <1>0 DEF InPool
<1>7. FiberTypeOK' /\ TpcLinks'
  <2>1. Append(chain[t], s) \in Seq(Stack)
    BY <1>4
  <2>2. FiberTypeOK'
    BY <1>0, <1>1, <1>2, <2>1 DEF FiberTypeOK
  <2> QED
    BY <1>0, <1>1, <2>2 DEF TpcLinks
<1>8. OnePlace'
  <2>1. Transfer(s, {<<"asleep", t>>}, {<<"running", t>>})
    <3>1. \A x \in Stack, u \in Thread :
            /\ x \in asleep'[u] <=> x \in asleep[u] /\ ~(x = s /\ u = t)
            /\ x \in InChain(u)' <=> x \in InChain(u) \/ (x = s /\ u = t)
      BY <1>0, <1>1, <1>5 DEF FiberTypeOK
    <3> QED
      BY <1>0, <1>6, <3>1, TransferBy
  <2>2. mapped' = mapped \cup {s}
    BY <1>0, <1>3
  <2>3. OneHolder'
    BY <1>1, <1>3, <2>1, <2>2, TransferKeeps, PlacesOf
  <2> QED
    BY <1>0, <1>1, <1>5, <2>3 DEF OnePlace, OneHolder
<1>9. InterceptExact'
  BY <1>0, <1>1, <1>2, <1>5 DEF InterceptExact, FiberTypeOK, Ctx, MainOf
<1>10. StartIntact'
  BY <1>0, <1>1, <1>2 DEF StartIntact, FiberTypeOK, Ctx
<1>11. (Cardinality(InPool) = Len(spares))' /\ ActiveExact'
  BY <1>0, <1>6 DEF FiberInv, ActiveExact
<1> QED
  BY <1>7, <1>8, <1>9, <1>10, <1>11 DEF FiberInv

\* The running fiber leaves the chain of its thread: the one below it goes on.
LEMMA ChainFront ==
  ASSUME FiberTypeOK, OnePlace, NEW t \in Thread, chain[t] # <<>>,
         chain' = [chain EXCEPT ![t] = Front(@)]
  PROVE  /\ chain' \in [Thread -> Seq(Stack)] /\ \A u \in Thread : Distinct(chain'[u])
         /\ InChain(t)' = InChain(t) \ {Running(t)} /\ Running(t)' = Below(t)
         /\ \A u \in Thread \ {t} : InChain(u)' = InChain(u) /\ Running(u)' = Running(u)
<1>1. chain'[t] = Front(chain[t]) /\ \A u \in Thread \ {t} : chain'[u] = chain[u]
  BY DEF FiberTypeOK
<1> DEFINE q == chain[t]
<1>2. q \in Seq(Stack) /\ Distinct(q) /\ q # <<>>
  BY DEF FiberTypeOK, OnePlace
<1>3. /\ Front(q) \in Seq(Stack) /\ Len(q) \in Nat /\ Len(q) > 0 /\ Len(Front(q)) = Len(q) - 1
      /\ \A i \in 1..(Len(q) - 1) : Front(q)[i] = q[i]
      /\ Elems(Front(q)) = Elems(q) \ {q[Len(q)]} /\ Distinct(Front(q))
  BY <1>2, FrontElems
<1>4. Running(t) = q[Len(q)]
  BY DEF Running
<1>5. InChain(t)' = InChain(t) \ {Running(t)} /\ \A u \in Thread \ {t} : InChain(u)' = InChain(u)
  <2>1. InChain(t) = Elems(q) /\ InChain(t)' = Elems(Front(q))
    BY <1>1 DEF InChain, Elems
  <2>2. \A u \in Thread \ {t} : InChain(u)' = InChain(u)
    BY <1>1 DEF InChain
  <2> QED
    BY <1>3, <1>4, <2>1, <2>2
<1>6. Running(t)' = Below(t)
  <2>1. CASE Len(q) = 1
    <3>1. Front(q) = <<>>
      BY <1>3, <2>1
    <3> QED
      BY <1>1, <2>1, <3>1 DEF Running, Below
  <2>2. CASE Len(q) # 1
    <3>1. \A n \in Nat : n > 0 /\ n # 1 => n - 1 \in 1..(n - 1) /\ n - 1 # 0
      OBVIOUS
    <3>2. Front(q) # <<>> /\ Front(q)[Len(q) - 1] = q[Len(q) - 1]
      BY <1>3, <2>2, <3>1
    <3>3. Running(t)' = Front(q)[Len(q) - 1]
      BY <1>1, <1>3, <3>2 DEF Running
    <3> QED
      BY <2>2, <3>2, <3>3 DEF Below
  <2> QED
    BY <2>1, <2>2
<1>7. \A u \in Thread \ {t} : Running(u)' = Running(u)
  BY <1>1 DEF Running
<1>8. chain' \in [Thread -> Seq(Stack)] /\ \A u \in Thread : Distinct(chain'[u])
  BY <1>1, <1>3 DEF FiberTypeOK, OnePlace
<1> QED
  BY <1>5, <1>6, <1>7, <1>8

\* A fiber is suspended: its stack goes to the sleeping ones.
LEMMA SuspendFiberInv ==
  ASSUME FiberInv, NEW t \in Thread, SuspendFiber(t)
  PROVE  FiberInv'
<1> DEFINE s == Running(t)
<1>0. /\ tpc[t] = "run" /\ chain[t] # <<>>
      /\ rip' = [rip EXCEPT ![s] = "switched"]
      /\ below' = [below EXCEPT ![s] = "unused"]
      /\ chain' = [chain EXCEPT ![t] = Front(@)]
      /\ asleep' = [asleep EXCEPT ![t] = @ \cup {s}]
      /\ UNCHANGED <<mapped, spares, active, tpc, fresh, leaving, pooling, page, created, ffailed>>
  BY DEF SuspendFiber
<1>1. FiberTypeOK /\ TpcLinks /\ OnePlace /\ OneHolder /\ InterceptExact /\ StartIntact
  BY DEF FiberInv, OnePlace, OneHolder
<1>2. /\ s \in Ctx /\ s \in Stack /\ s \in InChain(t)
      /\ \A u \in Thread : Running(u) = s => u = t
      /\ \A u \in Thread : Running(u) # Below(t)
      /\ Below(t) \in Ctx
  BY <1>0, <1>1, RunningFacts
<1>3. s \in mapped /\ \A p \in Place : Holds(p, s) => p \in {<<"running", t>>}
  BY <1>1, <1>2, PlaceFacts
<1>4. /\ chain' \in [Thread -> Seq(Stack)] /\ \A u \in Thread : Distinct(chain'[u])
      /\ InChain(t)' = InChain(t) \ {s} /\ Running(t)' = Below(t)
      /\ \A u \in Thread \ {t} : InChain(u)' = InChain(u) /\ Running(u)' = Running(u)
  BY <1>0, <1>1, ChainFront
<1>5. InPool' = InPool
  BY <1>0 DEF InPool
<1> HIDE DEF s
<1>6. FiberTypeOK' /\ TpcLinks'
  <2>1. FiberTypeOK'
    BY <1>0, <1>1, <1>2, <1>4 DEF FiberTypeOK
  <2> QED
    BY <1>0, <1>1, <2>1 DEF TpcLinks
<1>7. OnePlace'
  <2>1. Transfer(s, {<<"running", t>>}, {<<"asleep", t>>})
    <3>1. \A x \in Stack, u \in Thread :
            /\ x \in asleep'[u] <=> x \in asleep[u] \/ (x = s /\ u = t)
            /\ x \in InChain(u)' <=> x \in InChain(u) /\ ~(x = s /\ u = t)
      BY <1>0, <1>1, <1>4 DEF FiberTypeOK
    <3> QED
      BY <1>0, <1>5, <3>1, TransferBy
  <2>2. mapped' = mapped \cup {s}
    BY <1>0, <1>3
  <2>3. OneHolder'
    BY <1>1, <1>2, <1>3, <2>1, <2>2, TransferKeeps, PlacesOf
  <2> QED
    BY <1>0, <1>1, <1>4, <2>3 DEF OnePlace, OneHolder
<1>8. InterceptExact'
  <2>1. rip[s] # "intercept" /\ rip[Below(t)] # "intercept"
    BY <1>0, <1>1, <1>2 DEF InterceptExact
  <2>2. \A x \in Ctx : rip'[x] = "intercept" <=> rip[x] = "intercept"
    BY <1>0, <1>1, <1>2, <2>1 DEF FiberTypeOK
  <2>3. \A u \in Thread : tpc[u] \in {"intercepted", "advised"} => Running(u)' = Running(u)
    BY <1>0, <1>4
  <2> QED
    BY <1>0, <1>1, <2>2, <2>3 DEF InterceptExact
<1>9. StartIntact'
  BY <1>0, <1>1, <1>2 DEF StartIntact, FiberTypeOK, Ctx
<1>10. (Cardinality(InPool) = Len(spares))' /\ ActiveExact'
  BY <1>0, <1>5 DEF FiberInv, ActiveExact
<1> QED
  BY <1>6, <1>7, <1>8, <1>9, <1>10 DEF FiberInv

\* A fiber ends: its stack is in the hands of the intercept, on the context below.
LEMMA ExitFiberInv ==
  ASSUME FiberInv, NEW t \in Thread, ExitFiber(t)
  PROVE  FiberInv'
<1> DEFINE s == Running(t)
<1>0. /\ tpc[t] = "run" /\ chain[t] # <<>>
      /\ rip' = [rip EXCEPT ![Below(t)] = "intercept"]
      /\ below' = [below EXCEPT ![Below(t)] = "Intercept"]
      /\ chain' = [chain EXCEPT ![t] = Front(@)]
      /\ leaving' = [leaving EXCEPT ![t] = s]
      /\ tpc' = [tpc EXCEPT ![t] = "intercepted"]
      /\ UNCHANGED <<mapped, spares, active, asleep, fresh, pooling, page, created, ffailed>>
  BY DEF ExitFiber, SetIntercept
<1>1. FiberTypeOK /\ TpcLinks /\ OnePlace /\ OneHolder /\ InterceptExact /\ StartIntact
  BY DEF FiberInv, OnePlace, OneHolder
<1>2. /\ s \in Stack /\ s \in InChain(t)
      /\ \A u \in Thread : Running(u) = s => u = t
      /\ \A u \in Thread : Running(u) # Below(t) /\ Below(t) \notin asleep[u]
      /\ Below(t) \in Ctx
  BY <1>0, <1>1, RunningFacts
<1>3. s \in mapped /\ \A p \in Place : Holds(p, s) => p \in {<<"running", t>>}
  BY <1>1, <1>2, PlaceFacts
<1>4. /\ chain' \in [Thread -> Seq(Stack)] /\ \A u \in Thread : Distinct(chain'[u])
      /\ InChain(t)' = InChain(t) \ {s} /\ Running(t)' = Below(t)
      /\ \A u \in Thread \ {t} : InChain(u)' = InChain(u) /\ Running(u)' = Running(u)
  BY <1>0, <1>1, ChainFront
<1>5. InPool' = InPool
  BY <1>0 DEF InPool
<1> HIDE DEF s
<1>6. FiberTypeOK' /\ TpcLinks'
  <2>1. FiberTypeOK'
    BY <1>0, <1>1, <1>2, <1>4 DEF FiberTypeOK
  <2>2. fresh[t] = None /\ leaving[t] = None /\ s # None
    BY <1>0, <1>1, <1>2, FiberAssumption DEF TpcLinks
  <2> QED
    BY <1>0, <1>1, <2>1, <2>2 DEF FiberTypeOK, TpcLinks
<1>7. OnePlace'
  <2>1. Transfer(s, {<<"running", t>>}, {<<"leaving", t>>})
    <3>0. leaving[t] = None
      BY <1>0, <1>1 DEF TpcLinks
    <3>1. \A x \in Stack, u \in Thread :
            /\ leaving'[u] = x <=> leaving[u] = x \/ (x = s /\ u = t)
            /\ x \in InChain(u)' <=> x \in InChain(u) /\ ~(x = s /\ u = t)
      BY <1>0, <1>1, <1>4, <3>0, FiberAssumption DEF FiberTypeOK
    <3> QED
      BY <1>0, <1>5, <3>1, TransferBy
  <2>2. mapped' = mapped \cup {s}
    BY <1>0, <1>3
  <2>3. OneHolder'
    BY <1>1, <1>2, <1>3, <2>1, <2>2, TransferKeeps, PlacesOf
  <2> QED
    BY <1>0, <1>1, <1>4, <2>3 DEF OnePlace, OneHolder
<1>8. InterceptExact'
  <2>1. \A x \in Ctx : rip'[x] = "intercept" <=> rip[x] = "intercept" \/ x = Below(t)
    BY <1>0, <1>1, <1>2 DEF FiberTypeOK
  <2>2. /\ tpc'[t] \in {"intercepted", "advised"} /\ tpc[t] \notin {"intercepted", "advised"}
        /\ \A u \in Thread \ {t} : tpc'[u] = tpc[u]
    BY <1>0, <1>1 DEF FiberTypeOK
  <2> QED
    BY <1>1, <1>4, <2>1, <2>2 DEF InterceptExact
<1>9. StartIntact'
  BY <1>0, <1>1, <1>2 DEF StartIntact, FiberTypeOK, Ctx
<1>10. (Cardinality(InPool) = Len(spares))' /\ ActiveExact'
  <2>1. {u \in Thread : tpc[u] = "create" /\ fresh[u] = None}'
          = {u \in Thread : tpc[u] = "create" /\ fresh[u] = None}
    BY <1>0, <1>1 DEF FiberTypeOK
  <2> QED
    BY <1>0, <1>5, <2>1 DEF FiberInv, ActiveExact
<1> QED
  BY <1>6, <1>7, <1>8, <1>9, <1>10 DEF FiberInv

\* The intercept of exit_fiber drops the fiber: its stack is unmapped.
LEMMA DropFiberInv ==
  ASSUME FiberInv, NEW t \in Thread, DropFiber(t)
  PROVE  FiberInv'
<1> DEFINE s == leaving[t]
<1>0. /\ tpc[t] = "intercepted" /\ ~pooling
      /\ mapped' = mapped \ {s}
      /\ leaving' = [leaving EXCEPT ![t] = None]
      /\ rip' = [rip EXCEPT ![Running(t)] = "switched"]
      /\ tpc' = [tpc EXCEPT ![t] = "run"]
      /\ UNCHANGED <<spares, active, chain, asleep, fresh, pooling, below, page, created, ffailed>>
  BY DEF DropFiber
<1>1. FiberTypeOK /\ TpcLinks /\ OnePlace /\ OneHolder /\ InterceptExact /\ StartIntact
  BY DEF FiberInv, OnePlace, OneHolder
<1>2. Running(t) \in Ctx /\ \A u \in Thread : Running(u) = Running(t) => u = t
  BY <1>1, RunningFacts
<1>3. s \in Stack /\ fresh[t] = None
  BY <1>0, <1>1 DEF FiberTypeOK, TpcLinks
<1>4. s \in mapped /\ \A p \in Place : Holds(p, s) => p \in {<<"leaving", t>>}
  BY <1>1, <1>3, PlaceFacts
<1>5. InPool' = InPool /\ \A u \in Thread : InChain(u)' = InChain(u) /\ Running(u)' = Running(u)
  BY <1>0 DEF InPool, InChain, Running
<1>6. FiberTypeOK' /\ TpcLinks'
  BY <1>0, <1>1, <1>2, <1>3 DEF FiberTypeOK, TpcLinks
<1>7. OnePlace'
  <2>1. Transfer(s, {<<"leaving", t>>}, {})
    <3>1. \A x \in Stack, u \in Thread : leaving'[u] = x <=> leaving[u] = x /\ ~(x = s /\ u = t)
      BY <1>0, <1>1, <1>3, FiberAssumption DEF FiberTypeOK
    <3> QED
      BY <1>0, <1>5, <3>1, TransferBy
  <2>2. OneHolder'
    BY <1>0, <1>1, <1>3, <1>4, <2>1, TransferFrees
  <2> QED
    BY <1>0, <1>1, <2>2 DEF OnePlace, OneHolder
<1>8. InterceptExact'
  <2>1. \A x \in Ctx : rip'[x] = "intercept" <=> rip[x] = "intercept" /\ x # Running(t)
    BY <1>0, <1>1, <1>2 DEF FiberTypeOK
  <2>2. /\ tpc'[t] \notin {"intercepted", "advised"}
        /\ \A u \in Thread \ {t} : tpc'[u] = tpc[u]
    BY <1>0, <1>1 DEF FiberTypeOK
  <2> QED
    BY <1>1, <1>2, <1>5, <2>1, <2>2 DEF InterceptExact
<1>9. StartIntact'
  BY <1>0, <1>1, <1>2 DEF StartIntact, FiberTypeOK, Ctx
<1>10. (Cardinality(InPool) = Len(spares))' /\ ActiveExact'
  BY <1>0, <1>5 DEF FiberInv, ActiveExact
<1> QED
  BY <1>6, <1>7, <1>8, <1>9, <1>10 DEF FiberInv

\* A step that leaves the pool, the chains and what threads hold alone.
LEMMA SameStacks ==
  ASSUME OnePlace, UNCHANGED <<mapped, spares, chain, asleep, fresh, leaving>>
  PROVE  OnePlace' /\ InPool' = InPool /\ \A u \in Thread : Running(u)' = Running(u)
<1>1. InPool' = InPool /\ \A u \in Thread : InChain(u)' = InChain(u) /\ Running(u)' = Running(u)
  BY DEF InPool, InChain, Running
<1>2. \A p, s : Holds(p, s)' <=> Holds(p, s)
  BY DEF Holds, InPool, InChain
<1> QED
  BY <1>1, <1>2 DEF OnePlace

\* madvise, and the kernel that takes a page back: no stack changes hands.
LEMMA ClearStackInv ==
  ASSUME FiberInv, NEW t \in Thread, ClearStack(t)
  PROVE  FiberInv'
<1>0. /\ tpc[t] = "intercepted" /\ pooling
      /\ page' = [page EXCEPT ![leaving[t]] = "cleared"]
      /\ tpc' = [tpc EXCEPT ![t] = "advised"]
      /\ UNCHANGED <<mapped, spares, active, chain, asleep, fresh, leaving, pooling, rip, below, created, ffailed>>
  BY DEF ClearStack
<1>1. FiberTypeOK /\ TpcLinks /\ OnePlace /\ InterceptExact /\ StartIntact
  BY DEF FiberInv
<1>2. FiberTypeOK' /\ TpcLinks'
  BY <1>0, <1>1 DEF FiberTypeOK, TpcLinks
<1>3. OnePlace' /\ StartIntact' /\ (Cardinality(InPool) = Len(spares))'
  BY <1>0, <1>1, SameStacks DEF FiberInv, StartIntact
<1>4. InterceptExact'
  BY <1>0, <1>1 DEF FiberTypeOK, InterceptExact, Running
<1>5. ActiveExact'
  <2>1. {u \in Thread : tpc[u] = "create" /\ fresh[u] = None}'
          = {u \in Thread : tpc[u] = "create" /\ fresh[u] = None}
    BY <1>0, <1>1 DEF FiberTypeOK
  <2>2. InPool' = InPool
    BY <1>0 DEF InPool
  <2> QED
    BY <1>0, <2>1, <2>2 DEF FiberInv, ActiveExact
<1> QED
  BY <1>2, <1>3, <1>4, <1>5 DEF FiberInv

\* The kernel takes the page of a stack that was given back.
LEMMA ReclaimPageInv ==
  ASSUME FiberInv, NEW s \in Stack, ReclaimPage(s)
  PROVE  FiberInv'
<1>0. /\ page' = [page EXCEPT ![s] = "zero"]
      /\ UNCHANGED <<mapped, spares, active, chain, asleep, tpc, fresh, leaving, pooling, rip, below, created, ffailed>>
  BY DEF ReclaimPage
<1>1. OnePlace' /\ InPool' = InPool /\ \A u \in Thread : Running(u)' = Running(u)
  BY <1>0, SameStacks DEF FiberInv
<1> QED
  BY <1>0, <1>1 DEF FiberInv, FiberTypeOK, TpcLinks, InterceptExact, StartIntact, ActiveExact

\* What the pool counts: stacks handed out, and threads creating one.
Handed == {s \in mapped : s \notin InPool}
Creating == {t \in Thread : tpc[t] = "create" /\ fresh[t] = None}

\* One element more or less.
LEMMA CardAdd ==
  ASSUME NEW S, IsFiniteSet(S), NEW x, x \notin S
  PROVE  Cardinality(S) \in Nat /\ Cardinality(S \cup {x}) = Cardinality(S) + 1
  BY FS_AddElement, FS_CardinalityType

\* Taking an element out of a finite set makes it smaller by one.
LEMMA CardRemove ==
  ASSUME NEW S, IsFiniteSet(S), NEW x \in S
  PROVE  /\ Cardinality(S) \in Nat /\ Cardinality(S \ {x}) \in Nat
         /\ Cardinality(S \ {x}) = Cardinality(S) - 1
  BY FS_RemoveElement, FS_CardinalityType

\* The sets of stacks that the counters count are finite.
LEMMA FiberFinite ==
  ASSUME FiberTypeOK
  PROVE  /\ IsFiniteSet(Handed) /\ IsFiniteSet(Creating) /\ IsFiniteSet(InPool)
         /\ Cardinality(Handed) \in Nat /\ Cardinality(Creating) \in Nat
<1>1. Handed \subseteq Stack /\ Creating \subseteq Thread
  BY DEF FiberTypeOK, Handed, Creating
<1>2. InPool \subseteq Stack
  BY DEF FiberTypeOK, InPool
<1> QED
  BY <1>1, <1>2, FiberAssumption, FS_Subset, FS_CardinalityType

\* The intercept of exit_fiber_to_pool, whether the pool keeps the stack or not.
LEMMA ReturnToPoolInv ==
  ASSUME FiberInv, NEW t \in Thread, ReturnToPool(t)
  PROVE  FiberInv'
<1> DEFINE s == leaving[t]
<1>0. /\ tpc[t] = "advised"
      /\ active' = active - 1
      /\ \/ spares' = Append(spares, s) /\ UNCHANGED mapped
         \/ mapped' = mapped \ {s} /\ UNCHANGED spares
      /\ leaving' = [leaving EXCEPT ![t] = None]
      /\ rip' = [rip EXCEPT ![Running(t)] = "switched"]
      /\ tpc' = [tpc EXCEPT ![t] = "run"]
      /\ UNCHANGED <<chain, asleep, fresh, pooling, below, page, created, ffailed>>
  BY DEF ReturnToPool
<1>1. FiberTypeOK /\ TpcLinks /\ OnePlace /\ OneHolder /\ InterceptExact /\ StartIntact
  BY DEF FiberInv, OnePlace, OneHolder
<1>2. Running(t) \in Ctx /\ \A u \in Thread : Running(u) = Running(t) => u = t
  BY <1>1, RunningFacts
<1>3. s \in Stack /\ fresh[t] = None
  BY <1>0, <1>1 DEF FiberTypeOK, TpcLinks
<1>4. s \in mapped /\ \A p \in Place : Holds(p, s) => p \in {<<"leaving", t>>}
  BY <1>1, <1>3, PlaceFacts
<1>5. s \notin InPool
  <2>1. <<"pool", None>> # <<"leaving", t>>
    OBVIOUS
  <2> QED
    BY <1>4, <2>1, HoldsAt, PlacesOf
<1>6. \A u \in Thread : InChain(u)' = InChain(u) /\ Running(u)' = Running(u)
  BY <1>0 DEF InChain, Running
<1>7. /\ spares \in Seq(Stack) /\ Distinct(spares) /\ s \notin Elems(spares)
      /\ InPool = Elems(spares) /\ InPool' = Elems(spares') /\ Len(spares) \in Nat
  BY <1>1, <1>5 DEF FiberTypeOK, OnePlace, InPool, Elems
<1>8. /\ Append(spares, s) \in Seq(Stack) /\ Len(Append(spares, s)) = Len(spares) + 1
      /\ Elems(Append(spares, s)) = Elems(spares) \cup {s} /\ Distinct(Append(spares, s))
  BY <1>3, <1>7, AppendElems
<1>9. \A x \in Stack, u \in Thread : leaving'[u] = x <=> leaving[u] = x /\ ~(x = s /\ u = t)
  BY <1>0, <1>1, <1>3, FiberAssumption DEF FiberTypeOK
<1>10. FiberTypeOK' /\ TpcLinks'
  <2>1. active' \in Int
    BY <1>0, <1>1 DEF FiberTypeOK
  <2>2. mapped' \subseteq Stack /\ spares' \in Seq(Stack)
    <3>1. mapped \subseteq Stack
      BY <1>1 DEF FiberTypeOK
    <3> HIDE DEF s
    <3> QED
      BY <1>0, <1>7, <1>8, <3>1
  <2> QED
    BY <1>0, <1>1, <1>2, <1>3, <2>1, <2>2 DEF FiberTypeOK, TpcLinks
<1>11. InterceptExact'
  <2>1. \A x \in Ctx : rip'[x] = "intercept" <=> rip[x] = "intercept" /\ x # Running(t)
    BY <1>0, <1>1, <1>2 DEF FiberTypeOK
  <2>2. /\ tpc'[t] \notin {"intercepted", "advised"}
        /\ \A u \in Thread \ {t} : tpc'[u] = tpc[u]
    BY <1>0, <1>1 DEF FiberTypeOK
  <2> QED
    BY <1>1, <1>2, <1>6, <2>1, <2>2 DEF InterceptExact
<1>12. StartIntact'
  BY <1>0, <1>1, <1>2 DEF StartIntact, FiberTypeOK, Ctx
<1> HIDE DEF s
<1>13. ASSUME spares' = Append(spares, s), UNCHANGED mapped
       PROVE  OneHolder' /\ Distinct(spares') /\ (Cardinality(InPool) = Len(spares))' /\ Handed' = Handed \ {s}
  <2>1. InPool' = InPool \cup {s}
    BY <1>7, <1>8, <1>13
  <2>2. Transfer(s, {<<"leaving", t>>}, {<<"pool", None>>})
    BY <1>0, <1>6, <1>9, <2>1, TransferBy
  <2>3. OneHolder'
    <3>1. mapped' = mapped \cup {s}
      BY <1>4, <1>13
    <3> QED
      BY <1>1, <1>3, <1>4, <2>2, <3>1, TransferKeeps, PlacesOf
  <2>4. (Cardinality(InPool) = Len(spares))'
    <3>1. Cardinality(InPool) = Len(spares)
      BY DEF FiberInv
    <3> QED
      BY <1>1, <1>5, <1>7, <1>8, <1>13, <2>1, <3>1, CardAdd, FiberFinite
  <2>5. Handed' = Handed \ {s}
    BY <1>13, <2>1 DEF Handed
  <2> QED
    BY <1>8, <1>13, <2>3, <2>4, <2>5
<1>14. ASSUME mapped' = mapped \ {s}, UNCHANGED spares
       PROVE  OneHolder' /\ Distinct(spares') /\ (Cardinality(InPool) = Len(spares))' /\ Handed' = Handed \ {s}
  <2>1. InPool' = InPool
    BY <1>7, <1>14
  <2>2. Transfer(s, {<<"leaving", t>>}, {})
    BY <1>0, <1>6, <1>9, <2>1, TransferBy
  <2>3. OneHolder'
    BY <1>1, <1>3, <1>4, <1>14, <2>2, TransferFrees
  <2>4. (Cardinality(InPool) = Len(spares))'
    BY <1>14, <2>1 DEF FiberInv
  <2>5. Handed' = Handed \ {s}
    BY <1>14, <2>1 DEF Handed
  <2> QED
    BY <1>7, <1>14, <2>3, <2>4, <2>5
<1>15. OneHolder' /\ Distinct(spares') /\ (Cardinality(InPool) = Len(spares))' /\ Handed' = Handed \ {s}
  BY <1>0, <1>13, <1>14
<1>16. OnePlace'
  BY <1>0, <1>1, <1>15 DEF OnePlace, OneHolder
<1>17. ActiveExact'
  <2>1. s \in Handed
    BY <1>4, <1>5 DEF Handed
  <2>2. Creating' = Creating
    BY <1>0, <1>1 DEF Creating, FiberTypeOK
  <2>3. /\ Cardinality(Handed) \in Nat /\ Cardinality(Creating) \in Nat
        /\ Cardinality(Handed') = Cardinality(Handed) - 1
    BY <1>1, <1>15, <2>1, CardRemove, FiberFinite
  <2>4. pooling => active = ffailed + Cardinality(Handed) + Cardinality(Creating)
    BY DEF FiberInv, ActiveExact, Handed, Creating
  <2>5. pooling' => active' = ffailed' + Cardinality(Handed') + Cardinality(Creating')
    BY <1>0, <1>1, <2>2, <2>3, <2>4 DEF FiberTypeOK
  <2> QED
    BY <2>5 DEF ActiveExact, Handed, Creating
<1> QED
  BY <1>10, <1>11, <1>12, <1>15, <1>16, <1>17 DEF FiberInv

\* A step that creates or gives up a fiber leaves the contexts alone.
LEMMA SameContexts ==
  ASSUME FiberTypeOK, InterceptExact, StartIntact, NEW t \in Thread,
         UNCHANGED <<chain, asleep, rip, below>>, NEW pos \in {"run", "create"},
         tpc[t] \in {"run", "create"}, tpc' = [tpc EXCEPT ![t] = pos]
  PROVE  InterceptExact' /\ StartIntact'
<1>1. \A u \in Thread : /\ Running(u)' = Running(u)
                        /\ tpc'[u] \in {"intercepted", "advised"} <=> tpc[u] \in {"intercepted", "advised"}
  BY DEF Running, FiberTypeOK
<1> QED
  BY <1>1 DEF InterceptExact, StartIntact

\* Pool::new_fiber takes a stack out of the pool, or counts the one to come.
LEMMA PopSpareInv ==
  ASSUME FiberInv, NEW t \in Thread, PopSpare(t)
  PROVE  FiberInv'
<1>0. /\ tpc[t] = "run" /\ pooling
      /\ created' = created + 1 /\ active' = active + 1
      /\ fresh' = [fresh EXCEPT ![t] = IF spares = <<>> THEN None ELSE spares[Len(spares)]]
      /\ spares' = IF spares = <<>> THEN spares ELSE Front(spares)
      /\ tpc' = [tpc EXCEPT ![t] = "create"]
      /\ UNCHANGED <<mapped, chain, asleep, leaving, pooling, rip, below, page, ffailed>>
  BY DEF PopSpare
<1>1. FiberTypeOK /\ TpcLinks /\ OnePlace /\ OneHolder /\ InterceptExact /\ StartIntact
  BY DEF FiberInv, OnePlace, OneHolder
<1>2. fresh[t] = None /\ leaving[t] = None
  BY <1>0, <1>1 DEF TpcLinks
<1>3. InterceptExact' /\ StartIntact'
  BY <1>0, <1>1, SameContexts
<1>4. \A u \in Thread : InChain(u)' = InChain(u)
  BY <1>0 DEF InChain
<1>5. /\ spares \in Seq(Stack) /\ Distinct(spares) /\ Len(spares) \in Nat
      /\ InPool = Elems(spares) /\ InPool' = Elems(spares')
  BY <1>1 DEF FiberTypeOK, OnePlace, InPool, Elems
<1>6. pooling => active = ffailed + Cardinality(Handed) + Cardinality(Creating)
  BY DEF FiberInv, ActiveExact, Handed, Creating
<1>7. CASE spares = <<>>
  <2>1. FiberTypeOK' /\ TpcLinks'
    BY <1>0, <1>1, <1>2, <1>7 DEF FiberTypeOK, TpcLinks
  <2>2. UNCHANGED <<mapped, spares, chain, asleep, fresh, leaving>>
    BY <1>0, <1>1, <1>2, <1>7 DEF FiberTypeOK
  <2>3. OnePlace' /\ InPool' = InPool
    BY <1>1, <2>2, SameStacks
  <2>4. Handed' = Handed
    BY <2>2, <2>3 DEF Handed
  <2>5. Creating' = Creating \cup {t} /\ t \notin Creating
    BY <1>0, <1>1, <1>2, <2>2 DEF Creating, FiberTypeOK
  <2>6. /\ Cardinality(Handed) \in Nat /\ Cardinality(Creating) \in Nat
        /\ Cardinality(Creating') = Cardinality(Creating) + 1
    BY <1>1, <2>5, CardAdd, FiberFinite
  <2>7. pooling' => active' = ffailed' + Cardinality(Handed') + Cardinality(Creating')
    BY <1>0, <1>1, <1>6, <2>4, <2>6 DEF FiberTypeOK
  <2>8. ActiveExact'
    BY <2>7 DEF ActiveExact, Handed, Creating
  <2>9. (Cardinality(InPool) = Len(spares))'
    BY <2>2, <2>3 DEF FiberInv
  <2> QED
    BY <1>3, <2>1, <2>3, <2>8, <2>9 DEF FiberInv
<1>8. CASE spares # <<>>
  <2> DEFINE s == spares[Len(spares)]
  <2>1. /\ Front(spares) \in Seq(Stack) /\ Len(Front(spares)) = Len(spares) - 1
        /\ s \in Stack /\ s \in Elems(spares)
        /\ Elems(Front(spares)) = Elems(spares) \ {s} /\ Distinct(Front(spares))
    BY <1>5, <1>8, FrontElems
  <2>2. spares' = Front(spares) /\ fresh' = [fresh EXCEPT ![t] = s]
    BY <1>0, <1>8
  <2> HIDE DEF s
  <2>3. s # None /\ s \in InPool /\ InPool' = InPool \ {s}
    BY <1>5, <2>1, <2>2, FiberAssumption
  <2>4. s \in mapped /\ \A p \in Place : Holds(p, s) => p \in {<<"pool", None>>}
    BY <1>1, <2>1, <2>3, PlaceFacts
  <2>5. FiberTypeOK' /\ TpcLinks'
    BY <1>0, <1>1, <1>2, <2>1, <2>2, <2>3 DEF FiberTypeOK, TpcLinks
  <2>6. Transfer(s, {<<"pool", None>>}, {<<"fresh", t>>})
    <3>1. \A x \in Stack, u \in Thread : fresh'[u] = x <=> fresh[u] = x \/ (x = s /\ u = t)
      BY <1>1, <1>2, <2>2, FiberAssumption DEF FiberTypeOK
    <3> QED
      BY <1>0, <1>4, <2>3, <3>1, TransferBy
  <2>7. mapped' = mapped \cup {s}
    BY <1>0, <2>4
  <2>8. OnePlace'
    <3>1. OneHolder'
      BY <1>1, <2>1, <2>4, <2>6, <2>7, TransferKeeps, PlacesOf
    <3> QED
      BY <1>0, <1>1, <2>1, <2>2, <3>1 DEF OnePlace, OneHolder
  <2>9. (Cardinality(InPool) = Len(spares))'
    <3>1. Cardinality(InPool) = Len(spares)
      BY DEF FiberInv
    <3> QED
      BY <1>1, <1>5, <2>1, <2>2, <2>3, <3>1, CardRemove, FiberFinite
  <2>10. Handed' = Handed \cup {s} /\ s \notin Handed
    BY <1>0, <2>3, <2>4 DEF Handed
  <2>11. Creating' = Creating
    BY <1>0, <1>1, <2>2, <2>3 DEF Creating, FiberTypeOK
  <2>12. /\ Cardinality(Handed) \in Nat /\ Cardinality(Creating) \in Nat
         /\ Cardinality(Handed') = Cardinality(Handed) + 1
    BY <1>1, <2>10, CardAdd, FiberFinite
  <2>13. pooling' => active' = ffailed' + Cardinality(Handed') + Cardinality(Creating')
    BY <1>0, <1>1, <1>6, <2>11, <2>12 DEF FiberTypeOK
  <2>14. ActiveExact'
    BY <2>13 DEF ActiveExact, Handed, Creating
  <2> QED
    BY <1>3, <2>5, <2>8, <2>9, <2>14 DEF FiberInv
<1> QED
  BY <1>7, <1>8

\* Worker::new without a pool, and Fiber::new that fails.
LEMMA NewFiberInv ==
  ASSUME FiberInv, NEW t \in Thread, NewFiber(t)
  PROVE  FiberInv'
<1>0. /\ tpc[t] = "run" /\ ~pooling
      /\ created' = created + 1
      /\ tpc' = [tpc EXCEPT ![t] = "create"]
      /\ UNCHANGED <<mapped, spares, active, chain, asleep, fresh, leaving, pooling, rip, below, page, ffailed>>
  BY DEF NewFiber
<1>1. FiberTypeOK /\ TpcLinks /\ OnePlace /\ InterceptExact /\ StartIntact
  BY DEF FiberInv
<1>2. InterceptExact' /\ StartIntact'
  BY <1>0, <1>1, SameContexts
<1>3. OnePlace' /\ InPool' = InPool
  BY <1>0, <1>1, SameStacks
<1>4. FiberTypeOK' /\ TpcLinks'
  BY <1>0, <1>1 DEF FiberTypeOK, TpcLinks
<1> QED
  BY <1>0, <1>2, <1>3, <1>4 DEF FiberInv, ActiveExact

\* Fiber::new fails in the creating thread.
LEMMA NewFailsInv ==
  ASSUME FiberInv, NEW t \in Thread, NewFails(t)
  PROVE  FiberInv'
<1>0. /\ tpc[t] = "create" /\ fresh[t] = None
      /\ ffailed' = ffailed + 1
      /\ tpc' = [tpc EXCEPT ![t] = "run"]
      /\ UNCHANGED <<mapped, spares, active, chain, asleep, fresh, leaving, pooling, rip, below, page, created>>
  BY DEF NewFails
<1>1. FiberTypeOK /\ TpcLinks /\ OnePlace /\ InterceptExact /\ StartIntact
  BY DEF FiberInv
<1>2. InterceptExact' /\ StartIntact'
  BY <1>0, <1>1, SameContexts
<1>3. OnePlace' /\ InPool' = InPool
  BY <1>0, <1>1, SameStacks
<1>4. FiberTypeOK' /\ TpcLinks'
  BY <1>0, <1>1 DEF FiberTypeOK, TpcLinks
<1>5. ActiveExact'
  <2>1. Handed' = Handed /\ Creating' = Creating \ {t} /\ t \in Creating
    BY <1>0, <1>1, <1>3 DEF Handed, Creating, FiberTypeOK
  <2>2. /\ Cardinality(Handed) \in Nat /\ Cardinality(Creating) \in Nat
        /\ Cardinality(Creating') = Cardinality(Creating) - 1
    BY <1>1, <2>1, CardRemove, FiberFinite
  <2>3. pooling => active = ffailed + Cardinality(Handed) + Cardinality(Creating)
    BY DEF FiberInv, ActiveExact, Handed, Creating
  <2>4. pooling' => active' = ffailed' + Cardinality(Handed') + Cardinality(Creating')
    BY <1>0, <1>1, <2>1, <2>2, <2>3 DEF FiberTypeOK
  <2> QED
    BY <2>4 DEF ActiveExact, Handed, Creating
<1> QED
  BY <1>0, <1>2, <1>3, <1>4, <1>5 DEF FiberInv

\* Fiber::set_start: the new fiber sleeps on a stack nobody else has.
LEMMA SetStartInv ==
  ASSUME FiberInv, NEW t \in Thread, NEW s \in Stack, SetStart(t, s)
  PROVE  FiberInv'
<1>0. /\ tpc[t] = "create"
      /\ fresh[t] = None => s \notin mapped
      /\ fresh[t] # None => s = fresh[t]
      /\ mapped' = mapped \cup {s}
      /\ rip' = [rip EXCEPT ![s] = "start"]
      /\ below' = [below EXCEPT ![s] = "Start"]
      /\ page' = [page EXCEPT ![s] = "kept"]
      /\ asleep' = [asleep EXCEPT ![t] = @ \cup {s}]
      /\ fresh' = [fresh EXCEPT ![t] = None]
      /\ tpc' = [tpc EXCEPT ![t] = "run"]
      /\ UNCHANGED <<spares, active, chain, leaving, pooling, created, ffailed>>
  BY DEF SetStart
<1>1. FiberTypeOK /\ TpcLinks /\ OnePlace /\ OneHolder /\ InterceptExact /\ StartIntact
  BY DEF FiberInv, OnePlace, OneHolder
<1>2. s \in Ctx
  BY DEF Ctx
<1>3. \A p \in Place : Holds(p, s) => p \in {<<"fresh", t>>}
  <2>1. CASE fresh[t] = None
    BY <1>0, <1>1, <2>1 DEF OneHolder
  <2>2. CASE fresh[t] = s
    BY <1>1, <2>2, PlaceFacts
  <2> QED
    BY <1>0, <2>1, <2>2
<1>4. s \notin InPool /\ \A u \in Thread : s \notin InChain(u) /\ s \notin asleep[u] /\ leaving[u] # s
  <2>1. /\ <<"pool", None>> # <<"fresh", t>>
        /\ \A u \in Thread : /\ <<"asleep", u>> # <<"fresh", t>> /\ <<"running", u>> # <<"fresh", t>>
                             /\ <<"leaving", u>> # <<"fresh", t>>
    OBVIOUS
  <2>2. s \notin InPool
    BY <1>3, <2>1, HoldsAt, PlacesOf
  <2>3. ASSUME NEW u \in Thread PROVE s \notin InChain(u) /\ s \notin asleep[u] /\ leaving[u] # s
    <3>1. ~Holds(<<"asleep", u>>, s) /\ ~Holds(<<"running", u>>, s) /\ ~Holds(<<"leaving", u>>, s)
      BY <1>3, <2>1, PlacesOf
    <3> QED
      BY <3>1, HoldsAt
  <2> QED
    BY <2>2, <2>3
<1>5. InPool' = InPool /\ \A u \in Thread : InChain(u)' = InChain(u) /\ Running(u)' = Running(u)
  BY <1>0 DEF InPool, InChain, Running
<1>6. \A u \in Thread : Running(u) # s
  BY <1>1, <1>4, RunningFacts
<1>7. FiberTypeOK' /\ TpcLinks'
  BY <1>0, <1>1, <1>2 DEF FiberTypeOK, TpcLinks
<1>8. OnePlace'
  <2>1. Transfer(s, {<<"fresh", t>>}, {<<"asleep", t>>})
    <3>1. \A x \in Stack, u \in Thread :
            /\ fresh'[u] = x <=> fresh[u] = x /\ ~(x = s /\ u = t)
            /\ x \in asleep'[u] <=> x \in asleep[u] \/ (x = s /\ u = t)
      BY <1>0, <1>1, FiberAssumption DEF FiberTypeOK
    <3> QED
      BY <1>0, <1>5, <3>1, TransferBy
  <2>2. OneHolder'
    BY <1>0, <1>1, <1>3, <2>1, TransferKeeps, PlacesOf
  <2> QED
    BY <1>0, <1>1, <2>2 DEF OnePlace, OneHolder
<1>9. InterceptExact'
  <2>1. rip[s] # "intercept"
    BY <1>1, <1>2, <1>6 DEF InterceptExact
  <2>2. \A x \in Ctx : rip'[x] = "intercept" <=> rip[x] = "intercept"
    BY <1>0, <1>1, <1>2, <2>1 DEF FiberTypeOK
  <2>3. \A u \in Thread : tpc'[u] \in {"intercepted", "advised"} <=> tpc[u] \in {"intercepted", "advised"}
    BY <1>0, <1>1 DEF FiberTypeOK
  <2> QED
    BY <1>1, <1>5, <2>2, <2>3 DEF InterceptExact
<1>10. StartIntact'
  BY <1>0, <1>1, <1>2, <1>4 DEF StartIntact, FiberTypeOK, Ctx
<1>11. ActiveExact'
  <2>0. pooling => active = ffailed + Cardinality(Handed) + Cardinality(Creating)
    BY DEF FiberInv, ActiveExact, Handed, Creating
  <2>1. pooling' => active' = ffailed' + Cardinality(Handed') + Cardinality(Creating')
    <3>1. CASE fresh[t] = None
      <4>1. /\ Handed' = Handed \cup {s} /\ s \notin Handed
            /\ Creating' = Creating \ {t} /\ t \in Creating
        BY <1>0, <1>1, <1>4, <1>5, <3>1 DEF Handed, Creating, FiberTypeOK
      <4>2. /\ Cardinality(Handed) \in Nat /\ Cardinality(Creating) \in Nat
            /\ Cardinality(Handed') = Cardinality(Handed) + 1
            /\ Cardinality(Creating') = Cardinality(Creating) - 1
        BY <1>1, <4>1, CardAdd, CardRemove, FiberFinite
      <4> QED
        BY <1>0, <1>1, <2>0, <4>2 DEF FiberTypeOK
    <3>2. CASE fresh[t] # None
      <4>1. fresh[t] = s /\ s \in mapped
        BY <1>0, <1>1, <3>2, PlaceFacts
      <4>2. Handed' = Handed /\ Creating' = Creating
        BY <1>0, <1>1, <1>5, <3>2, <4>1 DEF Handed, Creating, FiberTypeOK
      <4> QED
        BY <1>0, <2>0, <4>2
    <3> QED
      BY <3>1, <3>2
  <2> QED
    BY <2>1 DEF ActiveExact, Handed, Creating
<1>12. (Cardinality(InPool) = Len(spares))'
  BY <1>0, <1>5 DEF FiberInv
<1> QED
  BY <1>7, <1>8, <1>9, <1>10, <1>11, <1>12 DEF FiberInv

\* No stack is mapped, no fiber exists.
LEMMA FiberInitInv == FiberInit => FiberInv
<1> SUFFICES ASSUME FiberInit PROVE FiberInv
  OBVIOUS
<1>1. FiberTypeOK /\ TpcLinks
  BY DEF FiberInit, FiberTypeOK, TpcLinks, Ctx
<1>2. InPool = {} /\ \A t \in Thread : InChain(t) = {}
  BY DEF FiberInit, InPool, InChain
<1>3. \A p \in Place, s \in Stack : ~Holds(p, s)
  <2> SUFFICES ASSUME NEW p \in Place, NEW s \in Stack PROVE ~Holds(p, s)
    OBVIOUS
  <2>1. \A t \in Thread : fresh[t] # s /\ leaving[t] # s /\ s \notin asleep[t]
    BY FiberAssumption DEF FiberInit
  <2>2. ~Holds(<<"pool", None>>, s)
    BY <1>2, HoldsAt
  <2>3. \A t \in Thread : /\ ~Holds(<<"fresh", t>>, s) /\ ~Holds(<<"leaving", t>>, s)
                          /\ ~Holds(<<"asleep", t>>, s) /\ ~Holds(<<"running", t>>, s)
    BY <1>2, <2>1, HoldsAt
  <2> QED
    BY <2>2, <2>3, PlaceCases
<1>4. OnePlace
  BY <1>3 DEF FiberInit, OnePlace, Distinct
<1>5. InterceptExact /\ StartIntact
  BY DEF FiberInit, InterceptExact, StartIntact
<1>6. Cardinality(InPool) = Len(spares)
  BY <1>2, FS_EmptySet DEF FiberInit
<1>7. ActiveExact
  <2>1. Handed = {} /\ Creating = {} /\ active = 0 /\ ffailed = 0
    BY DEF FiberInit, Handed, Creating
  <2>2. active = ffailed + Cardinality(Handed) + Cardinality(Creating)
    BY <2>1, FS_EmptySet
  <2> QED
    BY <2>2 DEF ActiveExact, Handed, Creating
<1> QED
  BY <1>1, <1>4, <1>5, <1>6, <1>7 DEF FiberInv

\* For any number of threads and stacks: a stack is mapped while exactly one
\* fiber, thread or the pool has it, a fiber is resumed where it was or where it
\* starts, never into a stale intercept, and the pool's count is exact.
THEOREM FibersSafe == FiberSpec => []FiberSafe
<1>1. FiberInv /\ [FiberNext]_fvars => FiberInv'
  <2> SUFFICES ASSUME FiberInv, [FiberNext]_fvars PROVE FiberInv'
    OBVIOUS
  <2>1. ASSUME NEW t \in Thread, PopSpare(t) \/ NewFiber(t) \/ NewFails(t) PROVE FiberInv'
    BY <2>1, PopSpareInv, NewFiberInv, NewFailsInv
  <2>2. ASSUME NEW t \in Thread, NEW s \in Stack, SetStart(t, s) \/ ResumeFiber(t, s) PROVE FiberInv'
    BY <2>2, SetStartInv, ResumeFiberInv
  <2>3. ASSUME NEW t \in Thread, SuspendFiber(t) \/ ExitFiber(t) PROVE FiberInv'
    BY <2>3, SuspendFiberInv, ExitFiberInv
  <2>4. ASSUME NEW t \in Thread, DropFiber(t) \/ ClearStack(t) \/ ReturnToPool(t) PROVE FiberInv'
    BY <2>4, DropFiberInv, ClearStackInv, ReturnToPoolInv
  <2>5. ASSUME NEW s \in Stack, ReclaimPage(s) PROVE FiberInv'
    BY <2>5, ReclaimPageInv
  <2>6. CASE UNCHANGED fvars
    <3>1. UNCHANGED <<mapped, spares, chain, asleep, fresh, leaving>> /\ UNCHANGED fvars
      BY <2>6 DEF fvars
    <3>2. OnePlace' /\ InPool' = InPool /\ \A u \in Thread : Running(u)' = Running(u)
      BY <3>1, SameStacks DEF FiberInv
    <3> QED
      BY <2>6, <3>2
      DEF fvars, FiberInv, FiberTypeOK, TpcLinks, InterceptExact, StartIntact, ActiveExact
  <2> QED
    BY <2>1, <2>2, <2>3, <2>4, <2>5, <2>6 DEF FiberNext
<1>2. FiberInv => FiberSafe
  <2> SUFFICES ASSUME FiberInv PROVE FiberSafe
    OBVIOUS
  <2>1. StackOwned /\ ActiveExact
    BY DEF FiberInv, OnePlace, StackOwned
  <2>2. \A t \in Thread : tpc[t] \in {"intercepted", "advised"} <=> rip[Running(t)] = "intercept"
    BY RunningFacts DEF FiberInv, InterceptExact
  <2>3. \A t \in Thread : \A s \in asleep[t] : rip[s] \in {"start", "switched"}
    <3> SUFFICES ASSUME NEW t \in Thread, NEW s \in asleep[t] PROVE rip[s] \in {"start", "switched"}
      OBVIOUS
    <3>1. s \in Stack /\ s \in Ctx /\ rip[s] \in {"start", "switched", "intercept"}
      BY DEF FiberInv, FiberTypeOK, Ctx
    <3>2. rip[s] # "intercept"
      BY <3>1, RunningFacts DEF FiberInv, InterceptExact
    <3> QED
      BY <3>1, <3>2
  <2> QED
    BY <2>1, <2>2, <2>3 DEF FiberSafe, ContextIntact, FiberInv, StartIntact
<1> QED
  BY FiberInitInv, <1>1, <1>2, PTL DEF FiberSpec

-----------------------------------------------------------------------------
(* AtomicWaiter: every request has one owner, and is reachable *)

\* The empty slot of AtomicWaiter::new satisfies the invariant.
LEMMA WaiterInitInv == WaiterInit => WaiterInv
  BY PointersAssumption
  DEF WaiterInit, WaiterInv, WaiterTypeOK, OneOwner, Reachable, HeldBriefly, Expected,
      Holder, Owns, Inside

\* set_waiter at the start of suspend keeps the invariant: the request of the
\* previous waiter passes from the slot to the new one.
LEMMA SuspendInv ==
  ASSUME WaiterInv, NEW t \in Task, Suspend(t)
  PROVE  WaiterInv'
  BY PointersAssumption
  DEF Suspend, SetWaiter, WaiterInv, WaiterTypeOK, OneOwner, Reachable, HeldBriefly,
      Expected, Holder, Owns, Inside

\* The evaluation of should_block changes only where the task goes on.
LEMMA ShouldBlockInv ==
  ASSUME WaiterInv, NEW t \in Task, NEW b \in BOOLEAN, ShouldBlock(t, b)
  PROVE  WaiterInv'
  BY PointersAssumption
  DEF ShouldBlock, WaiterInv, WaiterTypeOK, OneOwner, Reachable, HeldBriefly, Expected,
      Holder, Owns, Inside

\* The compare_exchange of cancel_wait after should_block was false: either the
\* request leaves the slot and suspend returns, or its owner is elsewhere.
LEMMA RetractInv ==
  ASSUME WaiterInv, NEW t \in Task, Retract(t)
  PROVE  WaiterInv'
<1>1. CASE waiter = t
  <2>1. WaiterTypeOK' /\ HeldBriefly'
    BY <1>1, PointersAssumption DEF Retract, WaiterInv, WaiterTypeOK, HeldBriefly, Inside
  <2>2. OneOwner'
    BY <1>1, PointersAssumption
    DEF Retract, WaiterInv, WaiterTypeOK, OneOwner, Holder, Owns, Inside
  <2>3. \A u \in Task, x \in Holder : Owns(x, u)' <=> Owns(x, u) /\ u # t
    BY <1>1, PointersAssumption
    DEF Retract, WaiterInv, WaiterTypeOK, OneOwner, Holder, Owns
  <2>4. Reachable' /\ Expected'
    BY <1>1, <2>3 DEF Retract, WaiterInv, WaiterTypeOK, Reachable, Expected, Inside, Holder
  <2> QED
    BY <2>1, <2>2, <2>4 DEF WaiterInv
<1>2. CASE waiter # t
  <2>1. /\ UNCHANGED <<waiter, held, ares>>
        /\ apc' = [apc EXCEPT ![t] = "handoff"]
        /\ error' = [error EXCEPT ![t] = "None"]
        /\ apc[t] = "retract"
    BY <1>2 DEF Retract
  <2>2. error[t] = "None"
    BY <2>1 DEF WaiterInv, Expected, Inside
  <2> QED
    BY <2>1, <2>2
    DEF WaiterInv, WaiterTypeOK, OneOwner, Reachable, HeldBriefly, Expected, Holder, Owns,
        Inside
<1> QED
  BY <1>1, <1>2

\* The end of suspend: the previous waiter is cancelled, the task returns or
\* parks.
LEMMA HandoffInv ==
  ASSUME WaiterInv, NEW t \in Task, Handoff(t)
  PROVE  WaiterInv'
<1> DEFINE u == held[t]
           e == IF u = Closed THEN "Closed" ELSE error[t]
           r == IF e # "None" THEN e ELSE ares[t]
           pos == IF r = "None" THEN "parked" ELSE "ending"
<1>1. CASE u \in Task
  <2>0. PICK w \in Task : w = u
    BY <1>1
  <2>1. w # t /\ Owns(t, w) /\ w # Null /\ w # Closed
    BY <2>0, PointersAssumption DEF WaiterInv, HeldBriefly, Owns
  <2>2. /\ ares' = [ares EXCEPT ![w] = "Cancelled", ![t] = r]
        /\ apc' = [apc EXCEPT ![w] = IF @ = "parked" THEN "ending" ELSE @, ![t] = pos]
        /\ held' = [held EXCEPT ![t] = Null]
        /\ error' = [error EXCEPT ![t] = "None"]
        /\ waiter' = waiter /\ apc[t] = "handoff"
    BY <2>0 DEF Handoff
  <2>3. apc[w] \in Inside \cup {"parked"} /\ \A x \in Holder : Owns(x, w) => x = t
    BY <2>1 DEF WaiterInv, OneOwner, Holder
  <2>4. WaiterTypeOK' /\ HeldBriefly'
    BY <2>1, <2>2, <2>3, PointersAssumption
    DEF WaiterInv, WaiterTypeOK, HeldBriefly, Inside
  <2>5. \A v \in Task, x \in Holder : Owns(x, v)' <=> Owns(x, v) /\ x # t
    BY <2>1, <2>2, PointersAssumption DEF WaiterInv, WaiterTypeOK, Holder, Owns
  <2>6. \A v \in Task \ {w}, x \in Holder : Owns(x, v) => x # t
    BY <2>0, PointersAssumption DEF Owns
  <2>7. OneOwner'
    <3> SUFFICES ASSUME NEW v \in Task, NEW x \in Holder, Owns(x, v)'
                 PROVE  /\ \A y \in Holder : Owns(y, v)' => x = y
                        /\ apc'[v] \in Inside \cup {"parked"}
                        /\ ares'[v] = "None" /\ error'[v] = "None"
      BY DEF OneOwner
    <3>1. Owns(x, v) /\ v # w
      BY <2>3, <2>5
    <3>2. /\ \A y \in Holder : Owns(y, v) => x = y
          /\ apc[v] \in Inside \cup {"parked"} /\ ares[v] = "None" /\ error[v] = "None"
      BY <3>1 DEF WaiterInv, OneOwner
    <3>3. \A y \in Holder : Owns(y, v)' => x = y
      BY <2>5, <3>2
    <3>4. CASE v = t
      BY <2>0, <2>1, <2>2, <3>2, <3>3, <3>4 DEF WaiterInv, WaiterTypeOK
    <3>5. CASE v # t
      BY <2>2, <3>1, <3>2, <3>3, <3>5 DEF WaiterInv, WaiterTypeOK
    <3> QED
      BY <3>4, <3>5
  <2>8. \A v \in Task \ {t, w} :
            /\ apc'[v] = apc[v] /\ error'[v] = error[v]
            /\ ares'[v] = ares[v] /\ held'[v] = held[v]
            /\ \A x \in Holder : Owns(x, v)' <=> Owns(x, v)
    BY <2>2, <2>5, <2>6 DEF WaiterInv, WaiterTypeOK
  <2>9. /\ apc'[w] \in (Inside \cup {"ending"}) /\ ares'[w] = "Cancelled"
        /\ error'[w] = error[w] /\ held'[w] = held[w]
        /\ apc'[w] # "handoff" => error[w] = "None"
        /\ \A x \in Holder : ~Owns(x, w)'
    <3>1. apc'[w] = IF apc[w] = "parked" THEN "ending" ELSE apc[w]
      BY <2>1, <2>2 DEF WaiterInv, WaiterTypeOK
    <3>2. ares'[w] = "Cancelled" /\ error'[w] = error[w] /\ held'[w] = held[w]
      BY <2>1, <2>2 DEF WaiterInv, WaiterTypeOK
    <3>3. apc[w] # "handoff" => error[w] = "None"
      BY DEF WaiterInv, Expected
    <3>4. \A x \in Holder : ~Owns(x, w)'
      BY <2>3, <2>5
    <3> QED
      BY <2>3, <3>1, <3>2, <3>3, <3>4
  <2>10. /\ apc'[t] = pos /\ error'[t] = "None" /\ ares'[t] = r /\ held'[t] = Null
         /\ \A x \in Holder : Owns(x, t)' <=> Owns(x, t)
    BY <2>1, <2>2, <2>5, <2>6 DEF WaiterInv, WaiterTypeOK
  <2>11. r = "None" => \E x \in Holder : Owns(x, t)
    BY <2>0, <2>1, <2>2 DEF WaiterInv, Expected, Inside
  <2>12. Reachable'
    BY <2>8, <2>9, <2>10, <2>11 DEF WaiterInv, Reachable, Inside
  <2> DEFINE E(v) ==
        /\ apc[v] \in Inside /\ error[v] = "None" /\ ares[v] = "None" /\ held[v] # Closed
             => \E x \in Holder : Owns(x, v)
        /\ held[v] = Closed => \A x \in Holder : ~Owns(x, v)
        /\ apc[v] \notin Inside \cup {"ending"} => ares[v] = "None"
        /\ apc[v] # "handoff" => error[v] = "None"
  <2>13. \A v \in Task : E(v)
    BY DEF WaiterInv, Expected
  <2>14. \A v \in Task \ {t, w} : E(v)'
    BY <2>8, <2>13
  <2>15. E(w)'
    BY <2>9 DEF Inside
  <2>16. E(t)'
    BY <2>10, <2>11, PointersAssumption DEF Inside
  <2>17. Expected'
    BY <2>14, <2>15, <2>16 DEF Expected
  <2> QED
    BY <2>4, <2>7, <2>12, <2>17 DEF WaiterInv
<1>2. CASE u \notin Task
  <2>1. /\ ares' = [ares EXCEPT ![t] = r]
        /\ apc' = [apc EXCEPT ![t] = pos]
        /\ held' = [held EXCEPT ![t] = Null]
        /\ error' = [error EXCEPT ![t] = "None"]
        /\ waiter' = waiter /\ apc[t] = "handoff"
    BY <1>2 DEF Handoff
  <2>2. \A v \in Task, x \in Holder : Owns(x, v)' <=> Owns(x, v)
    BY <1>2, <2>1, PointersAssumption DEF WaiterInv, WaiterTypeOK, Holder, Owns
  <2>3. WaiterTypeOK' /\ HeldBriefly'
    BY <1>2, <2>1, PointersAssumption DEF WaiterInv, WaiterTypeOK, HeldBriefly, Inside
  <2>4. ASSUME NEW x \in Holder, Owns(x, t) PROVE u # Closed
    \* a task that found the slot closed has no request in circulation
    BY <2>4 DEF WaiterInv, Expected
  <2>5. OneOwner'
    BY <2>1, <2>2, <2>4 DEF WaiterInv, WaiterTypeOK, OneOwner, Holder, Inside
  <2>6. Reachable' /\ Expected'
    BY <1>2, <2>1, <2>2 DEF WaiterInv, WaiterTypeOK, Reachable, Expected, Holder, Inside
  <2> QED
    BY <2>3, <2>5, <2>6 DEF WaiterInv
<1> QED
  BY <1>1, <1>2

\* The cancel callback, and the return of wait.
LEMMA CancelInv ==
  ASSUME WaiterInv, NEW t \in Task, CancelWait(t) \/ CancelComplete(t) \/ WaitEnd(t)
  PROVE  WaiterInv'
  BY PointersAssumption
  DEF CancelWait, CancelComplete, WaitEnd, WaiterInv, WaiterTypeOK, OneOwner, Reachable,
      HeldBriefly, Expected, Holder, Owns, Inside

\* wake and close: the request passes from the slot to the waker.
LEMMA WakeInternalInv ==
  ASSUME WaiterInv, NEW t \in Task, NEW new \in {Null, Closed}, WakeInternal(t, new)
  PROVE  WaiterInv'
  BY PointersAssumption
  DEF WakeInternal, WaiterInv, WaiterTypeOK, OneOwner, Reachable, HeldBriefly, Expected,
      Holder, Owns, Inside

\* Request::complete by the waker.
LEMMA WakeCompleteInv ==
  ASSUME WaiterInv, NEW t \in Task, WakeComplete(t)
  PROVE  WaiterInv'
  BY PointersAssumption
  DEF WakeComplete, Finish, WaiterInv, WaiterTypeOK, OneOwner, Reachable, HeldBriefly,
      Expected, Holder, Owns, Inside

\* Every step keeps the invariant.
LEMMA WaiterNextInv == WaiterInv /\ [WaiterNext]_avars => WaiterInv'
<1> SUFFICES ASSUME WaiterInv, [WaiterNext]_avars PROVE WaiterInv'
  OBVIOUS
<1>1. ASSUME NEW t \in Task, Wait(t) PROVE WaiterInv'
  BY <1>1, SuspendInv, ShouldBlockInv, RetractInv, HandoffInv, CancelInv DEF Wait
<1>2. ASSUME NEW t \in Task, CancelWait(t) \/ CancelComplete(t) PROVE WaiterInv'
  BY <1>2, CancelInv
<1>3. ASSUME NEW t \in Task, NEW new \in {Null, Closed}, WakeInternal(t, new)
      PROVE  WaiterInv'
  BY <1>3, WakeInternalInv
<1>4. ASSUME NEW t \in Task, WakeComplete(t) PROVE WaiterInv'
  BY <1>4, WakeCompleteInv
<1>5. CASE UNCHANGED avars
  BY <1>5 DEF avars, WaiterInv, WaiterTypeOK, OneOwner, Reachable, HeldBriefly,
              Expected, Holder, Owns
<1> QED
  BY <1>1, <1>2, <1>3, <1>4, <1>5 DEF WaiterNext

\* For every set of tasks: a request in an AtomicWaiter has one owner, which
\* completes it while its task still waits.
THEOREM WaiterCorrect == WaiterSpec => []OneOwner
<1>1. WaiterInv => OneOwner
  BY DEF WaiterInv
<1> QED
  BY WaiterInitInv, WaiterNextInv, <1>1, PTL DEF WaiterSpec

\* For every set of tasks: a task that is parked in wait is the stored one, or
\* someone has taken it and is about to complete it.
THEOREM WaiterReachable == WaiterSpec => []Reachable
<1>1. WaiterInv => Reachable
  BY DEF WaiterInv
<1> QED
  BY WaiterInitInv, WaiterNextInv, <1>1, PTL DEF WaiterSpec

\* A closed waiter stays closed: neither wake nor wait stores over `closed`.
THEOREM WaiterStaysClosed == WaiterSpec => ClosedForGood
<1>1. [WaiterNext]_avars => [waiter = Closed => waiter' = Closed]_avars
  BY PointersAssumption
  DEF WaiterNext, Wait, Suspend, SetWaiter, ShouldBlock, Retract, Handoff, CancelWait,
      CancelComplete, WaitEnd, WakeInternal, WakeComplete, Finish, avars
<1> QED
  BY <1>1, PTL DEF WaiterSpec, ClosedForGood
-----------------------------------------------------------------------------
(* Branch: one call at a time, and a handle for every future that is left *)

Only(name, i, also) == <<Call(name, i, also)>>

Futures(f, g) == future[1] = f /\ future[2] = g
Handles(h, k) == handle[1] = h /\ handle[2] = k

\* run: before, in the first future's run, in the second's, in the cancel of the first
InRun ==
    /\ ~asked
    /\ \/ phase = "new" /\ calls = <<>> /\ Futures("idle", "idle") /\ Handles("Ready", "Ready") /\ ~icb
       \/ /\ phase = "running" /\ calls = Only("run", 1, FALSE) /\ ~icb
          /\ Futures("running", "idle") /\ Handles("Empty", "Ready")
       \/ /\ phase = "running" /\ calls = Only("run", 2, FALSE) /\ ~icb
          /\ future[2] = "running" /\ handle[2] = "Empty"
          /\ \/ future[1] = "pending" /\ handle[1] = "Pending"
             \/ future[1] = "done" /\ handle[1] = "Done" /\ mode = "join"
       \/ /\ phase = "running" /\ calls = Only("rcancel", 1, FALSE)
          /\ future[2] = "done" /\ handle[2] = "Done" /\ 1 \in cancelled
          /\ \/ future[1] = "pending" /\ handle[1] = "Empty" /\ icb
             \/ future[1] = "done" /\ handle[1] = "Done" /\ ~icb

\* run returned Pending and nothing was cancelled yet
InProgress ==
    /\ phase = "pending" /\ calls = <<>> /\ ~icb /\ ~asked
    /\ \/ Futures("pending", "pending") /\ Handles("Pending", "Pending")
       \/ /\ mode = "join"
          /\ \E i \in Two : /\ future[i] = "done" /\ handle[i] = "Done"
                            /\ future[Other(i)] = "pending" /\ handle[Other(i)] = "Pending"

\* every cancel is taken: who has not completed was cancelled, or is the second of
\* cancel_all, whose turn has not come
Cancelling ==
    /\ phase = "pending"
    /\ \/ /\ Futures("pending", "pending") /\ Handles("Empty", "Empty") /\ icb /\ asked
          /\ \/ calls = Only("all", 1, TRUE) /\ 1 \in cancelled
             \/ calls \in {<<>>, Only("all", 2, FALSE)} /\ cancelled = Two
       \/ /\ ~icb
          /\ \E i \in Two :
               /\ future[i] = "done" /\ handle[i] = "Done"
               /\ future[Other(i)] = "pending" /\ handle[Other(i)] = "Empty"
               /\ \/ calls = Only("all", 1, TRUE) /\ i = 1 /\ asked
                  \/ /\ \/ calls \in {<<>>, Only("cancel", Other(i), FALSE)}
                        \/ asked /\ calls \in {Only("all", j, FALSE) : j \in Two}
                     /\ Other(i) \in cancelled

\* no future is left that could call back, and the results are there
Finished ==
    /\ ~icb /\ handle[1] = "Empty" /\ future[1] = "done"
    /\ \/ phase = "returned" /\ calls = <<>>
       \/ phase = "completed" /\ future[2] = "done"
          /\ calls \in {<<>>} \cup {Only("all", j, FALSE) : j \in Two} \cup {Only("cancel", j, FALSE) : j \in Two}
    /\ \/ future[2] = "done" /\ handle[2] = "Empty" /\ output.of = Two
       \/ /\ future[2] = "idle" /\ handle[2] = "Ready" /\ output.of = {1} /\ output.first
          /\ mode = "join" => 1 \in failed

FutureState == [Two -> {"idle", "running", "pending", "done"}]
HandleState == [Two -> {"Ready", "Empty", "Pending", "Done"}]

BranchInv ==
    /\ fault = "none" /\ mode \in {"select", "join"}
    /\ future \in FutureState /\ handle \in HandleState
    /\ cancelled \subseteq Two
    /\ InRun \/ InProgress \/ Cancelling \/ Finished

\* The two futures.
LEMMA TwoIs == Two = {1, 2} /\ Other(1) = 2 /\ Other(2) = 1 /\ \A i \in Two : i = 1 \/ i = 2
  BY DEF Two, Other

\* A single call in progress: what it is, and what is left when it returns.
LEMMA OneCall ==
  ASSUME NEW name, NEW i, NEW also, calls = Only(name, i, also)
  PROVE  /\ calls # <<>> /\ Inner.name = name /\ Inner.fut = i /\ Inner.also = also
         /\ Returned = <<>>
         /\ \A c : Append(Returned, c) = <<c>>
<1>1. PICK c : c = Call(name, i, also)
  OBVIOUS
<1>2. calls = <<c>> /\ Len(calls) = 1 /\ calls[1] = c
  BY <1>1 DEF Only
<1>3. Returned = <<>>
  BY <1>2 DEF Returned
<1>4. \A d : Append(<<>>, d) = <<d>>
  OBVIOUS
<1>5. c.name = name /\ c.fut = i /\ c.also = also
  BY <1>1 DEF Call
<1> QED
  BY <1>2, <1>3, <1>4, <1>5 DEF Inner

\* Which call is in progress, from its name.
LEMMA CallIs ==
  ASSUME BranchInv, calls # <<>>
  PROVE  /\ \/ calls = Only("run", 1, FALSE) \/ calls = Only("run", 2, FALSE)
            \/ calls = Only("rcancel", 1, FALSE) \/ calls = Only("all", 1, TRUE)
            \/ \E j \in Two : calls = Only("cancel", j, FALSE) \/ calls = Only("all", j, FALSE)
         /\ Inner.name = "run" => InRun /\ (calls = Only("run", 1, FALSE) \/ calls = Only("run", 2, FALSE))
         /\ Inner.name = "rcancel" => InRun /\ calls = Only("rcancel", 1, FALSE)
         /\ Inner.name = "cancel" => (Cancelling \/ Finished) /\ \E j \in Two : calls = Only("cancel", j, FALSE)
         /\ Inner.name = "all" => /\ Cancelling \/ Finished
                                  /\ \/ calls = Only("all", 1, TRUE)
                                     \/ \E j \in Two : calls = Only("all", j, FALSE)
<1>0. InRun \/ InProgress \/ Cancelling \/ Finished
  BY DEF BranchInv
<1>1. ASSUME InRun
      PROVE  \/ calls = Only("run", 1, FALSE) \/ calls = Only("run", 2, FALSE) \/ calls = Only("rcancel", 1, FALSE)
  BY <1>1 DEF InRun
<1>2. ~InProgress
  BY DEF InProgress
<1>3. ASSUME Cancelling \/ Finished
      PROVE  \/ calls = Only("all", 1, TRUE)
             \/ \E j \in Two : calls = Only("cancel", j, FALSE) \/ calls = Only("all", j, FALSE)
  BY <1>3, TwoIs DEF Cancelling, Finished
<1>4. \A name, i, also : calls = Only(name, i, also) => Inner.name = name
  BY OneCall
<1>5. CASE InRun
  BY <1>1, <1>4, <1>5
<1>6. CASE Cancelling \/ Finished
  <2>1. CASE calls = Only("all", 1, TRUE)
    BY <1>4, <1>6, <2>1
  <2>2. ASSUME NEW j \in Two, calls = Only("cancel", j, FALSE) PROVE Inner.name = "cancel"
    BY <1>4, <2>2
  <2>3. ASSUME NEW j \in Two, calls = Only("all", j, FALSE) PROVE Inner.name = "all"
    BY <1>4, <2>3
  <2>4. PICK j \in Two : calls = Only("all", 1, TRUE) \/ calls = Only("cancel", j, FALSE) \/ calls = Only("all", j, FALSE)
    BY <1>3, <1>6, TwoIs
  <2> QED
    BY <1>6, <2>1, <2>2, <2>3, <2>4
<1> QED
  BY <1>0, <1>2, <1>5, <1>6

\* run: the first future is run.
LEMMA BranchRunInv ==
  ASSUME BranchInv, Run
  PROVE  BranchInv'
<1>1. InRun /\ phase = "new"
  BY DEF BranchInv, Run, InProgress, Cancelling, Finished
<1>2. calls' = Only("run", 1, FALSE)
  <2>1. calls = <<>>
    BY <1>1 DEF InRun
  <2>2. \A d : Append(<<>>, d) = <<d>>
    OBVIOUS
  <2> QED
    BY <2>1, <2>2 DEF Run, Only
<1>3. /\ future'[1] = "running" /\ future'[2] = "idle" /\ handle'[1] = "Empty" /\ handle'[2] = "Ready"
      /\ future' \in FutureState /\ handle' \in HandleState
  BY <1>1, TwoIs DEF FutureState, HandleState, Run, InRun, BranchInv, Futures, Handles
<1> QED
  BY <1>1, <1>2, <1>3 DEF Run, BranchInv, InRun, Futures, Handles

\* In the first future's run.
LEMMA InFirst ==
  ASSUME BranchInv, InCall("run"), Inner.fut = 1
  PROVE  /\ phase = "running" /\ ~icb /\ ~asked /\ Futures("running", "idle") /\ Handles("Empty", "Ready")
         /\ Returned = <<>> /\ \A c : Append(Returned, c) = <<c>>
<1>1. calls # <<>> /\ Inner.name = "run"
  BY DEF InCall
<1>2. InRun /\ (calls = Only("run", 1, FALSE) \/ calls = Only("run", 2, FALSE))
  BY <1>1, CallIs
<1>3. calls = Only("run", 1, FALSE)
  BY <1>2, OneCall
<1>4. ASSUME NEW name, NEW i, NEW also, calls = Only(name, i, also) PROVE name = "run" /\ i = 1
  BY <1>1, <1>4, OneCall
<1>5. Returned = <<>> /\ \A c : Append(Returned, c) = <<c>>
  BY <1>3, OneCall
<1> QED
  BY <1>1, <1>2, <1>3, <1>4, <1>5 DEF InRun, Futures, Handles

\* In the second future's run.
LEMMA InSecond ==
  ASSUME BranchInv, InCall("run"), Inner.fut = 2
  PROVE  /\ phase = "running" /\ ~icb /\ ~asked /\ future[2] = "running" /\ handle[2] = "Empty"
         /\ \/ future[1] = "pending" /\ handle[1] = "Pending"
            \/ future[1] = "done" /\ handle[1] = "Done" /\ mode = "join"
         /\ calls = Only("run", 2, FALSE)
         /\ Returned = <<>> /\ \A c : Append(Returned, c) = <<c>>
<1>1. calls # <<>> /\ Inner.name = "run"
  BY DEF InCall
<1>2. InRun /\ (calls = Only("run", 1, FALSE) \/ calls = Only("run", 2, FALSE))
  BY <1>1, CallIs
<1>3. calls = Only("run", 2, FALSE)
  BY <1>2, OneCall
<1>4. ASSUME NEW name, NEW i, NEW also, calls = Only(name, i, also) PROVE name = "run" /\ i = 2
  BY <1>1, <1>4, OneCall
<1>5. Returned = <<>> /\ \A c : Append(Returned, c) = <<c>>
  BY <1>3, OneCall
<1> QED
  BY <1>1, <1>2, <1>3, <1>4, <1>5 DEF InRun, Futures, Handles

\* The first future is pending.
LEMMA FirstPendingInv ==
  ASSUME BranchInv, FirstPending
  PROVE  BranchInv'
<1>1. /\ phase = "running" /\ ~icb /\ ~asked
      /\ Returned = <<>> /\ \A c : Append(Returned, c) = <<c>>
  BY InFirst DEF FirstPending
<1>2. calls' = Only("run", 2, FALSE)
  BY <1>1 DEF FirstPending, Only
<1>3. /\ future'[1] = "pending" /\ future'[2] = "running" /\ handle'[1] = "Pending" /\ handle'[2] = "Empty"
      /\ future' \in FutureState /\ handle' \in HandleState
  BY <1>1, TwoIs DEF FutureState, HandleState, FirstPending, BranchInv
<1> QED
  BY <1>1, <1>2, <1>3 DEF FirstPending, BranchInv, InRun

\* The first future ended in run.
LEMMA FirstDoneInv ==
  ASSUME BranchInv, NEW p \in BOOLEAN, FirstDone(p)
  PROVE  BranchInv'
<1>1. /\ phase = "running" /\ ~icb /\ ~asked /\ Futures("running", "idle") /\ Handles("Empty", "Ready")
      /\ Returned = <<>> /\ \A c : Append(Returned, c) = <<c>>
  BY InFirst DEF FirstDone
<1>2. CASE ShouldCancel(p)
  <2>1. /\ phase' = "returned" /\ output' = [first |-> TRUE, of |-> {1}] /\ calls' = <<>>
        /\ handle' = [handle EXCEPT ![1] = "Empty"] /\ future' = [future EXCEPT ![1] = "done"]
    BY <1>1, <1>2 DEF FirstDone
  <2>2. /\ future'[1] = "done" /\ future'[2] = "idle" /\ handle'[1] = "Empty" /\ handle'[2] = "Ready"
        /\ future' \in FutureState /\ handle' \in HandleState
    BY <1>1, <2>1, TwoIs DEF FutureState, HandleState, BranchInv, Futures, Handles
  <2>3. mode = "join" => 1 \in failed'
    BY <1>2 DEF FirstDone, ShouldCancel, JoinCancels
  <2>4. output'.of = {1} /\ output'.first
    BY <2>1
  <2>5. Finished'
    BY <1>1, <2>1, <2>2, <2>3, <2>4 DEF Finished, FirstDone
  <2> QED
    BY <2>2, <2>5 DEF BranchInv, FirstDone
<1>3. CASE ~ShouldCancel(p)
  <2>1. /\ calls' = Only("run", 2, FALSE) /\ UNCHANGED <<phase, output>>
        /\ handle' = [handle EXCEPT ![1] = "Done", ![2] = "Empty"]
        /\ future' = [future EXCEPT ![1] = "done", ![2] = "running"]
    BY <1>1, <1>3 DEF FirstDone, Only
  <2>2. /\ future'[1] = "done" /\ future'[2] = "running" /\ handle'[1] = "Done" /\ handle'[2] = "Empty"
        /\ future' \in FutureState /\ handle' \in HandleState
    BY <1>1, <2>1, TwoIs DEF FutureState, HandleState, BranchInv
  <2>3. mode = "join"
    BY <1>3 DEF BranchInv, ShouldCancel, SelectCancels
  <2>4. InRun'
    BY <1>1, <2>1, <2>2, <2>3 DEF InRun, FirstDone
  <2> QED
    BY <2>2, <2>4 DEF BranchInv, FirstDone
<1> QED
  BY <1>2, <1>3

\* The second future is pending: run returns.
LEMMA SecondPendingInv ==
  ASSUME BranchInv, SecondPending
  PROVE  BranchInv'
<1>1. /\ ~icb /\ ~asked /\ Returned = <<>>
      /\ \/ future[1] = "pending" /\ handle[1] = "Pending"
         \/ future[1] = "done" /\ handle[1] = "Done" /\ mode = "join"
  BY InSecond DEF SecondPending
<1>2. /\ future'[1] = future[1] /\ future'[2] = "pending" /\ handle'[1] = handle[1] /\ handle'[2] = "Pending"
      /\ future' \in FutureState /\ handle' \in HandleState
  BY TwoIs DEF FutureState, HandleState, SecondPending, BranchInv
<1>3. phase' = "pending" /\ calls' = <<>> /\ UNCHANGED <<mode, icb, asked, cancelled, fault>>
  BY <1>1 DEF SecondPending
<1>4. InProgress'
  <2>1. CASE future[1] = "pending"
    BY <1>1, <1>2, <1>3, <2>1 DEF InProgress, Futures, Handles
  <2>2. CASE future[1] = "done"
    <3>1. \E i \in Two : /\ future'[i] = "done" /\ handle'[i] = "Done"
                         /\ future'[Other(i)] = "pending" /\ handle'[Other(i)] = "Pending"
      BY <1>1, <1>2, <2>2, TwoIs
    <3> QED
      BY <1>1, <1>3, <2>2, <3>1 DEF InProgress
  <2> QED
    BY <1>1, <2>1, <2>2
<1> QED
  BY <1>2, <1>3, <1>4 DEF BranchInv

\* The second future ended in run: both results, a cancel of the first, or the first
\* is left to complete.
LEMMA SecondDoneInv ==
  ASSUME BranchInv, NEW p \in BOOLEAN, SecondDone(p)
  PROVE  BranchInv'
<1>1. /\ phase = "running" /\ ~icb /\ ~asked /\ Returned = <<>> /\ \A c : Append(Returned, c) = <<c>>
      /\ \/ future[1] = "pending" /\ handle[1] = "Pending"
         \/ future[1] = "done" /\ handle[1] = "Done" /\ mode = "join"
  BY InSecond DEF SecondDone
<1>2. /\ future'[1] = future[1] /\ future'[2] = "done" /\ future' \in FutureState
      /\ UNCHANGED <<mode, asked>>
  <2>1. future' = [future EXCEPT ![2] = "done"] /\ UNCHANGED <<mode, asked>> /\ future \in FutureState
    BY DEF SecondDone, Ended, BranchInv
  <2> QED
    BY <2>1, TwoIs DEF FutureState
<1>3. CASE handle[1] = "Done"
  <2>1. /\ phase' = "returned" /\ output'.of = Two /\ calls' = <<>> /\ handle' = [i \in Two |-> "Empty"]
        /\ UNCHANGED <<icb, cancelled, fault>>
    BY <1>1, <1>3 DEF SecondDone, RunReturnsBoth
  <2>2. handle'[1] = "Empty" /\ handle'[2] = "Empty" /\ handle' \in HandleState
    BY <2>1, TwoIs DEF HandleState
  <2>3. Finished'
    BY <1>1, <1>2, <1>3, <2>1, <2>2 DEF Finished
  <2> QED
    BY <1>2, <2>1, <2>2, <2>3 DEF BranchInv
<1>4. CASE handle[1] # "Done" /\ ShouldCancel(p)
  <2>1. /\ icb' = TRUE /\ handle' = [handle EXCEPT ![1] = "Empty", ![2] = "Done"]
        /\ fault' = fault /\ cancelled' = cancelled \cup {1}
        /\ calls' = Only("rcancel", 1, FALSE) /\ UNCHANGED phase
    BY <1>1, <1>4 DEF SecondDone, Only
  <2>2. handle'[1] = "Empty" /\ handle'[2] = "Done" /\ handle' \in HandleState
    BY <2>1, TwoIs DEF FutureState, HandleState, BranchInv
  <2>3. InRun'
    BY <1>1, <1>2, <1>4, <2>1, <2>2 DEF InRun
  <2> QED
    BY <1>2, <2>1, <2>2, <2>3, TwoIs DEF BranchInv
<1>5. CASE handle[1] # "Done" /\ ~ShouldCancel(p)
  <2>1. /\ handle' = [handle EXCEPT ![2] = "Done"] /\ phase' = "pending" /\ calls' = <<>>
        /\ UNCHANGED <<icb, cancelled, fault>>
    BY <1>1, <1>5 DEF SecondDone
  <2>2. handle'[1] = "Pending" /\ handle'[2] = "Done" /\ handle' \in HandleState
    BY <1>1, <1>5, <2>1, TwoIs DEF FutureState, HandleState, BranchInv
  <2>3. mode = "join"
    BY <1>5 DEF BranchInv, ShouldCancel, SelectCancels
  <2>4. \E i \in Two : /\ future'[i] = "done" /\ handle'[i] = "Done"
                       /\ future'[Other(i)] = "pending" /\ handle'[Other(i)] = "Pending"
    BY <1>1, <1>2, <1>5, <2>2, TwoIs
  <2>5. InProgress'
    BY <1>1, <1>2, <2>1, <2>3, <2>4 DEF InProgress
  <2> QED
    BY <1>2, <2>1, <2>2, <2>5 DEF BranchInv
<1> QED
  BY <1>3, <1>4, <1>5

\* The cancel inside run returned.
LEMMA RunCancelReturnsInv ==
  ASSUME BranchInv, RunCancelReturns
  PROVE  BranchInv'
<1>1. InRun /\ calls = Only("rcancel", 1, FALSE)
  BY CallIs DEF RunCancelReturns, InCall
<1>2. Returned = <<>> /\ Inner.name = "rcancel"
  BY <1>1, OneCall
<1>7. ASSUME NEW name, NEW i, NEW also, calls = Only(name, i, also) PROVE name = "rcancel"
  BY <1>2, <1>7, OneCall
<1>3. /\ ~asked /\ future[2] = "done" /\ handle[2] = "Done" /\ 1 \in cancelled
      /\ \/ future[1] = "pending" /\ handle[1] = "Empty" /\ icb
         \/ future[1] = "done" /\ handle[1] = "Done" /\ ~icb
  BY <1>1, <1>7 DEF InRun, Only
<1>4. calls' = <<>> /\ icb' = FALSE /\ UNCHANGED <<mode, future, cancelled, asked, fault>>
  BY <1>2 DEF RunCancelReturns
<1>5. CASE icb
  <2>1. phase' = "pending" /\ UNCHANGED handle
    BY <1>5 DEF RunCancelReturns
  <2>2. \E i \in Two : /\ future'[i] = "done" /\ handle'[i] = "Done"
                       /\ future'[Other(i)] = "pending" /\ handle'[Other(i)] = "Empty"
                       /\ Other(i) \in cancelled'
    BY <1>3, <1>4, <1>5, <2>1, TwoIs
  <2>3. Cancelling'
    BY <1>4, <2>1, <2>2 DEF Cancelling
  <2> QED
    BY <1>4, <2>1, <2>3 DEF BranchInv
<1>6. CASE ~icb
  <2>1. phase' = "returned" /\ output'.of = Two /\ handle' = [i \in Two |-> "Empty"]
    BY <1>6 DEF RunCancelReturns, RunReturnsBoth
  <2>2. handle'[1] = "Empty" /\ handle'[2] = "Empty" /\ handle' \in HandleState
    BY <2>1, TwoIs DEF HandleState
  <2>3. Finished'
    BY <1>3, <1>4, <1>6, <2>1, <2>2 DEF Finished
  <2> QED
    BY <1>4, <2>2, <2>3 DEF BranchInv
<1> QED
  BY <1>5, <1>6

\* The cancel that complete_single ran returned.
LEMMA CancelReturnsInv ==
  ASSUME BranchInv, CancelReturns
  PROVE  BranchInv'
<1>1. (Cancelling \/ Finished) /\ calls # <<>> /\ Inner.name = "cancel" /\ \E j \in Two : calls = Only("cancel", j, FALSE)
  BY CallIs DEF CancelReturns, InCall
<1>2. Returned = <<>>
  BY <1>1, OneCall
<1>3. calls' = <<>> /\ UNCHANGED <<mode, future, handle, icb, phase, cancelled, asked, output, failed, fault>>
  BY <1>2 DEF CancelReturns
<1>4. ASSUME NEW i, NEW also, calls = Only("all", i, also) PROVE FALSE
  <2>1. Inner.name = "all"
    BY <1>4, OneCall
  <2> QED
    BY <1>1, <2>1
<1>5. CASE Cancelling
  <2>1. phase = "pending"
    BY <1>5 DEF Cancelling
  <2>2. ~icb
    BY <1>1, <1>4, <1>5 DEF Cancelling
  <2>3. \E i \in Two : /\ future[i] = "done" /\ handle[i] = "Done" /\ future[Other(i)] = "pending"
                       /\ handle[Other(i)] = "Empty" /\ Other(i) \in cancelled
    BY <1>1, <1>4, <1>5, <2>2 DEF Cancelling
  <2>4. Cancelling'
    BY <1>3, <2>1, <2>2, <2>3 DEF Cancelling
  <2> QED
    BY <1>3, <2>4 DEF BranchInv
<1>6. CASE Finished
  <2>1. Finished'
    BY <1>1, <1>3, <1>6 DEF Finished
  <2> QED
    BY <1>3, <2>1 DEF BranchInv
<1> QED
  BY <1>1, <1>5, <1>6

\* cancel_all: both cancels are taken, and the first of them is run.
LEMMA CancelAllInv ==
  ASSUME BranchInv, CancelAll
  PROVE  BranchInv'
<1>1. /\ calls = <<>> /\ phase = "pending" /\ ~asked /\ asked' = TRUE
      /\ UNCHANGED <<mode, future, phase, output, failed>>
  BY DEF CancelAll
<1>2. InProgress \/ Cancelling
  BY <1>1 DEF BranchInv, InRun, Finished
<1>3. PICK taken : taken = {i \in Two : handle[i] = "Pending"}
  OBVIOUS
<1>4. /\ handle' = [i \in Two |-> IF i \in taken THEN "Empty" ELSE handle[i]]
      /\ icb' = (icb \/ taken = Two)
      /\ IF taken = {}
           THEN UNCHANGED <<calls, cancelled, fault>>
           ELSE LET i == IF 1 \in taken THEN 1 ELSE 2 IN
                /\ RunCancel(i)
                /\ cancelled' = cancelled \cup {i}
                /\ calls' = <<Call("all", i, taken = Two)>>
  BY <1>3 DEF CancelAll
<1>5. /\ \A i \in Two : handle'[i] = IF handle[i] = "Pending" THEN "Empty" ELSE handle[i]
      /\ handle' \in HandleState
  BY <1>3, <1>4, TwoIs DEF BranchInv, HandleState
<1>6. CASE Cancelling
  <2>1. /\ ~icb
        /\ \E i \in Two : /\ future[i] = "done" /\ handle[i] = "Done" /\ future[Other(i)] = "pending"
                          /\ handle[Other(i)] = "Empty" /\ Other(i) \in cancelled
    BY <1>1, <1>6 DEF Cancelling
  <2>2. PICK i \in Two : /\ future[i] = "done" /\ handle[i] = "Done" /\ future[Other(i)] = "pending"
                         /\ handle[Other(i)] = "Empty" /\ Other(i) \in cancelled
    BY <2>1
  <2>3. Other(i) \in Two /\ \A j \in Two : j = i \/ j = Other(i)
    BY TwoIs
  <2>4. taken = {}
    BY <1>3, <2>2, <2>3
  <2>5. taken # Two
    BY <2>4, TwoIs
  <2>6. ~icb' /\ UNCHANGED <<calls, cancelled, fault>>
    BY <1>4, <2>1, <2>4, <2>5
  <2>7. Cancelling'
    BY <1>1, <1>5, <2>2, <2>3, <2>6 DEF Cancelling
  <2> QED
    BY <1>1, <1>5, <2>6, <2>7 DEF BranchInv
<1>7. CASE InProgress /\ Futures("pending", "pending")
  <2>1. handle[1] = "Pending" /\ handle[2] = "Pending" /\ ~icb
    BY <1>7, TwoIs DEF InProgress, Futures, Handles
  <2>2. taken = Two
    BY <1>3, <2>1, TwoIs
  <2>3. /\ icb' /\ calls' = Only("all", 1, TRUE) /\ cancelled' = cancelled \cup {1} /\ RunCancel(1)
    BY <1>4, <2>2, TwoIs DEF Only
  <2>4. fault' = fault
    BY <1>7, <2>3 DEF RunCancel, Futures
  <2>5. handle'[1] = "Empty" /\ handle'[2] = "Empty"
    BY <1>5, <2>1, TwoIs
  <2>6. Cancelling'
    BY <1>1, <1>7, <2>3, <2>5 DEF Cancelling, Futures, Handles
  <2> QED
    BY <1>1, <1>5, <2>3, <2>4, <2>6, TwoIs DEF BranchInv
<1>8. CASE InProgress /\ ~Futures("pending", "pending")
  <2>1. ~icb /\ \E i \in Two : /\ future[i] = "done" /\ handle[i] = "Done"
                               /\ future[Other(i)] = "pending" /\ handle[Other(i)] = "Pending"
    BY <1>8 DEF InProgress
  <2>2. PICK i \in Two : /\ future[i] = "done" /\ handle[i] = "Done"
                         /\ future[Other(i)] = "pending" /\ handle[Other(i)] = "Pending"
    BY <2>1
  <2>3. Other(i) \in Two /\ Other(i) # i /\ \A j \in Two : j = i \/ j = Other(i)
    BY TwoIs
  <2>4. taken = {Other(i)} /\ taken # Two
    BY <1>3, <2>2, <2>3
  <2>5. Other(i) = IF 1 \in taken THEN 1 ELSE 2
    BY <2>4, TwoIs
  <2>6. ~icb' /\ calls' = Only("all", Other(i), FALSE) /\ cancelled' = cancelled \cup {Other(i)} /\ RunCancel(Other(i))
    <3>1. (taken = Two) = FALSE /\ taken # {}
      BY <2>4
    <3> QED
      BY <1>4, <2>1, <2>5, <3>1 DEF Only
  <2>7. fault' = fault
    BY <2>2, <2>6 DEF RunCancel
  <2>8. Cancelling'
    BY <1>1, <1>5, <2>2, <2>3, <2>6 DEF Cancelling
  <2> QED
    BY <1>1, <1>5, <2>3, <2>6, <2>7, <2>8 DEF BranchInv
<1> QED
  BY <1>2, <1>6, <1>7, <1>8

\* A cancel of cancel_all returned.
LEMMA CancelAllReturnsInv ==
  ASSUME BranchInv, CancelAllReturns
  PROVE  BranchInv'
<1>1. /\ Cancelling \/ Finished
      /\ calls # <<>> /\ Inner.name = "all"
      /\ calls = Only("all", 1, TRUE) \/ \E j \in Two : calls = Only("all", j, FALSE)
  BY CallIs DEF CancelAllReturns, InCall
<1>2. Returned = <<>> /\ \A c : Append(Returned, c) = <<c>>
  BY <1>1, OneCall
<1>3. UNCHANGED <<mode, future, handle, icb, phase, asked, output, failed>>
  BY DEF CancelAllReturns
<1>4. ASSUME NEW name, NEW i, NEW also, calls = Only(name, i, also) PROVE name = "all" /\ also = Inner.also /\ i = Inner.fut
  BY <1>1, <1>4, OneCall
<1>5. CASE calls = Only("all", 1, TRUE)
  <2>1. Inner.also = TRUE
    BY <1>5, OneCall
  <2>2. RunCancel(2) /\ cancelled' = cancelled \cup {2} /\ calls' = Only("all", 2, FALSE)
    BY <1>2, <2>1 DEF CancelAllReturns, Only
  <2>3. ASSUME NEW i, NEW name, calls = Only(name, i, FALSE) PROVE FALSE
    BY <1>4, <2>1, <2>3
  <2>4. Cancelling /\ ~Finished
    BY <1>1, <1>5, <2>3 DEF Finished
  <2>5. /\ phase = "pending" /\ future[2] = "pending" /\ asked
        /\ \/ Futures("pending", "pending") /\ Handles("Empty", "Empty") /\ icb /\ 1 \in cancelled
           \/ ~icb /\ future[1] = "done" /\ handle[1] = "Done" /\ handle[2] = "Empty"
    BY <1>1, <1>5, <2>3, <2>4, TwoIs DEF Cancelling, Futures
  <2>6. fault' = fault
    BY <2>2, <2>5 DEF RunCancel
  <2>7. Cancelling'
    <3>1. CASE Futures("pending", "pending")
      BY <1>3, <2>2, <2>5, <3>1, TwoIs DEF Cancelling, BranchInv, Futures, Handles
    <3>2. CASE ~Futures("pending", "pending")
      <4>1. \E i \in Two : /\ future'[i] = "done" /\ handle'[i] = "Done" /\ future'[Other(i)] = "pending"
                           /\ handle'[Other(i)] = "Empty" /\ Other(i) \in cancelled'
        BY <1>3, <2>2, <2>5, <3>2, TwoIs
      <4> QED
        BY <1>3, <2>2, <2>5, <3>2, <4>1, TwoIs DEF Cancelling
    <3> QED
      BY <3>1, <3>2
  <2> QED
    BY <1>3, <2>2, <2>6, <2>7, TwoIs DEF BranchInv
<1>6. ASSUME NEW j \in Two, calls = Only("all", j, FALSE) PROVE BranchInv'
  <2>1. Inner.also = FALSE
    BY <1>6, OneCall
  <2>2. calls' = <<>> /\ UNCHANGED <<cancelled, fault>>
    BY <1>2, <2>1 DEF CancelAllReturns
  <2>3. ASSUME NEW i, NEW name, calls = Only(name, i, TRUE) PROVE FALSE
    BY <1>4, <2>1, <2>3
  <2>4. Cancelling => Cancelling'
    BY <1>1, <1>3, <2>2, <2>3 DEF Cancelling, Futures, Handles
  <2>5. Finished => Finished'
    BY <1>3, <2>2 DEF Finished
  <2> QED
    BY <1>1, <1>3, <2>2, <2>4, <2>5 DEF BranchInv
<1> QED
  BY <1>1, <1>5, <1>6

\* A future that is pending has not completed, and its branch is not over.
LEMMA StillPending ==
  ASSUME BranchInv, NEW i \in Two, future[i] = "pending"
  PROVE  ~Over /\ handle[i] # "Done" /\ phase # "new"
<1>1. ~Finished
  BY TwoIs DEF Finished
<1>2. InRun \/ InProgress \/ Cancelling
  BY <1>1 DEF BranchInv
<1>3. phase \in {"running", "pending"} /\ handle[i] # "Done"
  BY <1>2, TwoIs DEF InRun, InProgress, Cancelling, Futures, Handles
<1> QED
  BY <1>3 DEF Over

\* A completion while run is on its way: in the cancel of the first, or in the
\* second's run when it cancels nothing.
LEMMA CompleteInRunInv ==
  ASSUME Reentry = {}, BranchInv, NEW i \in Two, NEW p \in BOOLEAN, Complete(i, p), InRun
  PROVE  BranchInv'
<1>1. /\ future[i] = "pending" /\ MayCallBack(i, p) /\ future' = [future EXCEPT ![i] = "done"]
      /\ UNCHANGED <<mode, asked>> /\ ~Over /\ handle[i] # "Done" /\ phase # "new"
  BY StillPending DEF Complete, Ended
<1>2. /\ icb' = FALSE
      /\ IF icb THEN /\ handle' = [handle EXCEPT ![i] = "Done"]
                     /\ UNCHANGED <<phase, output, calls, cancelled, fault>>
                ELSE CompleteSingle(i, p)
  BY <1>1 DEF Complete
<1>3. i = 1
  BY <1>1, TwoIs DEF InRun, Futures
<1>4. /\ future' \in FutureState /\ future'[1] = "done" /\ future'[2] = future[2]
  BY <1>1, <1>3, TwoIs DEF BranchInv, FutureState
<1>5. CASE calls = Only("rcancel", 1, FALSE)
  <2>1. ASSUME NEW name, NEW k, NEW also, calls = Only(name, k, also) PROVE name = "rcancel"
    <3>1. Inner.name = name /\ Inner.name = "rcancel"
      BY <1>5, <2>1, OneCall
    <3> QED
      BY <3>1
  <2>2. calls # <<>>
    BY <1>5, OneCall
  <2>3. /\ phase = "running" /\ ~asked /\ future[2] = "done" /\ handle[2] = "Done" /\ 1 \in cancelled /\ icb
    BY <1>1, <1>3, <2>1, <2>2 DEF InRun
  <2>4. handle' = [handle EXCEPT ![1] = "Done"] /\ UNCHANGED <<phase, calls, cancelled, fault>>
    BY <1>2, <1>3, <2>3
  <2>5. handle' \in HandleState /\ handle'[1] = "Done" /\ handle'[2] = handle[2]
    BY <2>4, TwoIs DEF BranchInv, HandleState
  <2>6. InRun'
    BY <1>1, <1>2, <1>4, <1>5, <2>3, <2>4, <2>5 DEF InRun
  <2> QED
    BY <1>1, <1>4, <2>4, <2>5, <2>6 DEF BranchInv
<1>6. CASE calls = Only("run", 2, FALSE)
  <2>1. InCall("run") /\ Inner.fut = 2 /\ Inner.name = "run" /\ calls # <<>>
    BY <1>6, OneCall DEF InCall
  <2>2. phase = "running" /\ ~icb /\ ~asked /\ future[2] = "running" /\ handle[2] = "Empty"
    BY <2>1, InSecond
  <2>3. ~ShouldCancel(p)
    BY <1>1, <1>3, <2>1 DEF MayCallBack
  <2>4. mode = "join"
    BY <2>3 DEF BranchInv, ShouldCancel, SelectCancels
  <2>5. handle' = [handle EXCEPT ![1] = "Done"] /\ UNCHANGED <<phase, calls, cancelled, fault>>
    BY <1>2, <1>3, <2>2, <2>3, TwoIs DEF CompleteSingle
  <2>6. handle' \in HandleState /\ handle'[1] = "Done" /\ handle'[2] = handle[2]
    BY <2>5, TwoIs DEF BranchInv, HandleState
  <2>7. InRun'
    BY <1>1, <1>2, <1>4, <1>6, <2>2, <2>4, <2>5, <2>6 DEF InRun
  <2> QED
    BY <1>1, <1>4, <2>5, <2>6, <2>7 DEF BranchInv
<1> QED
  BY <1>1, <1>3, <1>5, <1>6 DEF InRun, Futures

\* A completion after run returned and before anything was cancelled: it is the last,
\* it cancels the other, or it leaves the other to complete.
LEMMA CompleteInProgressInv ==
  ASSUME BranchInv, NEW i \in Two, NEW p \in BOOLEAN, Complete(i, p), InProgress
  PROVE  BranchInv'
<1>0. Other(i) \in Two /\ Other(i) # i /\ Other(Other(i)) = i /\ \A j \in Two : j = i \/ j = Other(i)
  BY TwoIs
<1>1. PICK o : o = Other(i)
  OBVIOUS
<1>2. /\ future[i] = "pending" /\ future' = [future EXCEPT ![i] = "done"]
      /\ UNCHANGED <<mode, asked>> /\ ~Over /\ handle[i] # "Done"
  BY StillPending DEF Complete, Ended
<1>3. ~icb /\ icb' = FALSE /\ CompleteSingle(i, p) /\ phase = "pending" /\ calls = <<>> /\ ~asked
  BY <1>2 DEF Complete, InProgress
<1>4. /\ handle[i] = "Pending"
      /\ \/ future[o] = "pending" /\ handle[o] = "Pending"
         \/ future[o] = "done" /\ handle[o] = "Done"
  BY <1>1, <1>2, TwoIs DEF InProgress, Futures, Handles
<1>5. future' \in FutureState /\ future'[i] = "done" /\ future'[o] = future[o]
  BY <1>0, <1>1, <1>2 DEF BranchInv, FutureState
<1>6. CASE handle[o] = "Done"
  <2>1. /\ phase' = "completed" /\ output' = [first |-> i # 1, of |-> Two] /\ handle' = [j \in Two |-> "Empty"]
        /\ UNCHANGED <<calls, cancelled, fault>>
    BY <1>1, <1>3, <1>6 DEF CompleteSingle
  <2>2. /\ handle' \in HandleState /\ handle'[1] = "Empty" /\ handle'[2] = "Empty"
        /\ future'[1] = "done" /\ future'[2] = "done" /\ output'.of = Two
    BY <1>0, <1>1, <1>4, <1>5, <1>6, <2>1, TwoIs DEF HandleState
  <2>3. Finished'
    BY <1>3, <2>1, <2>2 DEF Finished
  <2> QED
    BY <1>2, <1>5, <2>1, <2>2, <2>3 DEF BranchInv
<1>7. CASE handle[o] # "Done" /\ ShouldCancel(p)
  <2>1. /\ handle' = [handle EXCEPT ![i] = "Done", ![o] = "Empty"]
        /\ cancelled' = cancelled \cup {o} /\ calls' = Append(calls, Call("cancel", o, FALSE))
        /\ UNCHANGED <<phase, output>> /\ fault' = fault
    BY <1>1, <1>3, <1>4, <1>7 DEF CompleteSingle
  <2>2. calls' = Only("cancel", o, FALSE)
    <3>1. \A d : Append(<<>>, d) = <<d>>
      OBVIOUS
    <3> QED
      BY <1>3, <2>1, <3>1 DEF Only
  <2>3. handle' \in HandleState /\ handle'[i] = "Done" /\ handle'[o] = "Empty"
    BY <1>0, <1>1, <2>1 DEF BranchInv, HandleState
  <2>4. /\ future'[i] = "done" /\ handle'[i] = "Done" /\ future'[Other(i)] = "pending"
        /\ handle'[Other(i)] = "Empty" /\ Other(i) \in cancelled' /\ calls' = Only("cancel", Other(i), FALSE)
    BY <1>1, <1>4, <1>5, <1>7, <2>1, <2>2, <2>3
  <2>5. Cancelling'
    BY <1>3, <2>1, <2>4 DEF Cancelling
  <2> QED
    BY <1>0, <1>1, <1>2, <1>5, <2>1, <2>3, <2>5 DEF BranchInv
<1>8. CASE handle[o] # "Done" /\ ~ShouldCancel(p)
  <2>1. handle' = [handle EXCEPT ![i] = "Done"] /\ UNCHANGED <<phase, output, calls, cancelled, fault>>
    BY <1>1, <1>3, <1>8 DEF CompleteSingle
  <2>2. handle' \in HandleState /\ handle'[i] = "Done" /\ handle'[o] = handle[o]
    BY <1>0, <1>1, <2>1 DEF BranchInv, HandleState
  <2>3. mode = "join"
    BY <1>8 DEF BranchInv, ShouldCancel, SelectCancels
  <2>4. /\ future'[i] = "done" /\ handle'[i] = "Done" /\ future'[Other(i)] = "pending"
        /\ handle'[Other(i)] = "Pending"
    BY <1>1, <1>4, <1>5, <1>8, <2>2
  <2>5. InProgress'
    BY <1>2, <1>3, <2>1, <2>3, <2>4 DEF InProgress
  <2> QED
    BY <1>2, <1>5, <2>1, <2>2, <2>5 DEF BranchInv
<1> QED
  BY <1>6, <1>7, <1>8

\* A completion when every cancel is taken: the first of the two is only noted, the
\* second ends the branch.
LEMMA CompleteCancelledInv ==
  ASSUME Reentry = {}, BranchInv, NEW i \in Two, NEW p \in BOOLEAN, Complete(i, p), Cancelling
  PROVE  BranchInv'
<1>0. Other(i) \in Two /\ Other(i) # i /\ Other(Other(i)) = i /\ \A j \in Two : j = i \/ j = Other(i)
  BY TwoIs
<1>1. PICK o : o = Other(i)
  OBVIOUS
<1>2. /\ future[i] = "pending" /\ future' = [future EXCEPT ![i] = "done"] /\ MayCallBack(i, p)
      /\ UNCHANGED <<mode, asked>> /\ ~Over /\ handle[i] # "Done" /\ phase = "pending"
  BY StillPending DEF Complete, Ended, Cancelling
<1>3. /\ icb' = FALSE
      /\ IF icb THEN /\ handle' = [handle EXCEPT ![i] = "Done"]
                     /\ UNCHANGED <<phase, output, calls, cancelled, fault>>
                ELSE CompleteSingle(i, p)
  BY <1>2 DEF Complete
<1>4. future' \in FutureState /\ future'[i] = "done" /\ future'[o] = future[o]
  BY <1>0, <1>1, <1>2 DEF BranchInv, FutureState
<1>5. ASSUME NEW name, NEW k, NEW also, calls = Only(name, k, also), name # "run" PROVE k = i
  <2>1. calls # <<>> /\ Inner.name = name /\ Inner.fut = k
    BY <1>5, OneCall
  <2> QED
    BY <1>2, <1>5, <2>1 DEF MayCallBack, InCall
<1>6. CASE icb
  <2>1. /\ Futures("pending", "pending") /\ Handles("Empty", "Empty") /\ asked
        /\ \/ calls = Only("all", 1, TRUE) /\ 1 \in cancelled
           \/ calls \in {<<>>, Only("all", 2, FALSE)} /\ cancelled = Two
    BY <1>6 DEF Cancelling
  <2>2. handle' = [handle EXCEPT ![i] = "Done"] /\ UNCHANGED <<phase, output, calls, cancelled, fault>>
    BY <1>3, <1>6
  <2>3. handle' \in HandleState /\ handle'[i] = "Done" /\ handle'[o] = "Empty" /\ future'[o] = "pending"
    BY <1>0, <1>1, <1>4, <2>1, <2>2, TwoIs DEF BranchInv, HandleState, Futures, Handles
  <2>4. \/ calls = Only("all", 1, TRUE) /\ i = 1
        \/ calls \in {<<>>, Only("all", 2, FALSE)} /\ o \in cancelled
    BY <1>0, <1>1, <1>5, <2>1
  <2>5. Cancelling'
    BY <1>1, <1>2, <1>3, <1>4, <2>1, <2>2, <2>3, <2>4, TwoIs DEF Cancelling
  <2> QED
    BY <1>2, <1>4, <2>2, <2>3, <2>5 DEF BranchInv
<1>7. CASE ~icb
  <2>1. PICK k \in Two :
          /\ future[k] = "done" /\ handle[k] = "Done"
          /\ future[Other(k)] = "pending" /\ handle[Other(k)] = "Empty"
          /\ \/ calls = Only("all", 1, TRUE) /\ k = 1 /\ asked
             \/ /\ \/ calls \in {<<>>, Only("cancel", Other(k), FALSE)}
                   \/ asked /\ calls \in {Only("all", j, FALSE) : j \in Two}
                /\ Other(k) \in cancelled
    BY <1>7 DEF Cancelling
  <2>2. k = o
    BY <1>0, <1>1, <1>2, <2>1
  <2>3. calls # Only("all", 1, TRUE) \/ k # 1
    BY <1>0, <1>1, <1>5, <2>2
  <2>4. calls \in {<<>>} \cup {Only("all", j, FALSE) : j \in Two} \cup {Only("cancel", j, FALSE) : j \in Two}
    BY <1>0, <1>1, <2>1, <2>2, <2>3
  <2>5. /\ phase' = "completed" /\ output' = [first |-> i # 1, of |-> Two] /\ handle' = [j \in Two |-> "Empty"]
        /\ UNCHANGED <<calls, cancelled, fault>>
    BY <1>1, <1>3, <1>7, <2>1, <2>2 DEF CompleteSingle
  <2>6. /\ handle' \in HandleState /\ handle'[1] = "Empty" /\ handle'[2] = "Empty"
        /\ future'[1] = "done" /\ future'[2] = "done" /\ output'.of = Two
    BY <1>0, <1>1, <1>4, <2>1, <2>2, <2>5, TwoIs DEF HandleState
  <2>7. Finished'
    BY <1>3, <2>4, <2>5, <2>6 DEF Finished
  <2> QED
    BY <1>2, <1>4, <2>5, <2>6, <2>7 DEF BranchInv
<1> QED
  BY <1>6, <1>7

\* Every step of a branch keeps the invariant.
LEMMA BranchNextInv == ASSUME Reentry = {} PROVE BranchInv /\ [BranchNext]_brvars => BranchInv'
<1> SUFFICES ASSUME BranchInv, [BranchNext]_brvars PROVE BranchInv'
  OBVIOUS
<1>1. ASSUME NEW i \in Two, NEW p \in BOOLEAN, Complete(i, p) PROVE BranchInv'
  <2>1. ~Finished
    BY <1>1, TwoIs DEF Finished, Complete
  <2> QED
    BY <1>1, <2>1, CompleteInRunInv, CompleteInProgressInv, CompleteCancelledInv DEF BranchInv
<1>2. CASE UNCHANGED brvars
  <2>1. UNCHANGED <<mode, future, handle, icb, calls, phase, cancelled, asked, output, failed, fault>>
    BY <1>2 DEF brvars
  <2>2. (InRun => InRun') /\ (InProgress => InProgress')
    BY <2>1 DEF InRun, InProgress, Futures, Handles
  <2>3. (Cancelling => Cancelling') /\ (Finished => Finished')
    BY <2>1 DEF Cancelling, Finished, Futures, Handles
  <2> QED
    BY <2>1, <2>2, <2>3 DEF BranchInv
<1>3. Panics \subseteq BOOLEAN
  BY DEF Panics
<1> QED
  BY <1>1, <1>2, <1>3, BranchRunInv, FirstPendingInv, FirstDoneInv, SecondPendingInv, SecondDoneInv,
     RunCancelReturnsInv, CancelReturnsInv, CancelAllInv, CancelAllReturnsInv DEF BranchNext

\* The initial states.
LEMMA BranchInitInv == BranchInit => BranchInv
<1> SUFFICES ASSUME BranchInit PROVE BranchInv
  OBVIOUS
<1>1. /\ future \in FutureState /\ handle \in HandleState
      /\ future[1] = "idle" /\ future[2] = "idle" /\ handle[1] = "Ready" /\ handle[2] = "Ready"
  BY TwoIs DEF BranchInit, FutureState, HandleState
<1> QED
  BY <1>1, ModesAssumption DEF BranchInit, BranchInv, InRun, Futures, Handles

\* The invariant says what the run checks.
LEMMA BranchInvSafe == BranchInv => BranchSafe
<1> SUFFICES ASSUME BranchInv PROVE BranchSafe
  OBVIOUS
<1>0. fault = "none" /\ mode \in {"select", "join"} /\ (InRun \/ InProgress \/ Cancelling \/ Finished)
  BY DEF BranchInv
<1>1. \A name, i, also : Only(name, i, also) # <<>>
  BY DEF Only
<1>2. NoEarlyEnd /\ OutputUsable
  <2>1. SUFFICES ASSUME Over PROVE NoEarlyEnd /\ OutputUsable
    BY DEF NoEarlyEnd, OutputUsable
  <2>2. Finished
    BY <1>0, <2>1 DEF Over, InRun, InProgress, Cancelling
  <2>3. /\ future[1] = "done" /\ future[2] \in {"idle", "done"}
        /\ \/ output.of = Two
           \/ output.of = {1} /\ output.first /\ (mode = "join" => 1 \in failed)
    BY <2>2 DEF Finished
  <2>4. NoEarlyEnd
    BY <2>3, TwoIs DEF NoEarlyEnd
  <2>5. JoinFromBranch(output, failed) # "unreachable" \/ mode # "join"
    <3>1. CASE output.of = Two
      BY <3>1, TwoIs DEF JoinFromBranch
    <3>2. CASE output.of = {1} /\ (mode = "join" => 1 \in failed)
      <4>1. mode = "join" => output.of \cap failed # {}
        BY <3>2
      <4> QED
        BY <4>1 DEF JoinFromBranch
    <3> QED
      BY <2>3, <3>1, <3>2
  <2>6. SelectFromBranch(output, {}) # "unreachable"
    BY <2>3, TwoIs DEF SelectFromBranch
  <2> QED
    BY <2>4, <2>5, <2>6 DEF OutputUsable
<1>3. NotStuck
  <2>1. SUFFICES ASSUME calls = <<>>, future[1] = "done", future[2] = "done" PROVE Over
    BY TwoIs DEF NotStuck
  <2>2. ~InRun /\ ~InProgress
    BY <1>1, <2>1, TwoIs DEF InRun, InProgress, Futures
  <2>3. ~Cancelling
    BY <2>1, TwoIs DEF Cancelling, Futures
  <2> QED
    BY <1>0, <2>2, <2>3 DEF Finished, Over
<1>4. LoserCancelled
  <2>1. SUFFICES ASSUME calls = <<>>, phase = "pending", NEW i \in Two, future[i] = "pending",
                        asked \/ (mode = "select" /\ future[Other(i)] = "done")
                 PROVE  i \in cancelled
    BY DEF LoserCancelled
  <2>2. ~InRun /\ ~Finished
    BY <2>1 DEF InRun, Finished
  <2>3. ~InProgress
    BY <2>1, TwoIs DEF InProgress, Futures
  <2>4. Cancelling
    BY <1>0, <2>2, <2>3
  <2> QED
    BY <1>1, <2>1, <2>4, TwoIs, ZenonT(30) DEF Cancelling
<1> QED
  BY <1>0, <1>2, <1>3, <1>4 DEF BranchSafe, NoBranchFault

\* For Reentry = {}, that is as long as no future completes inside the other's run
\* in a way that cancels it, or inside the other's cancel (where the code fails,
\* see BranchSafe), a branch of two futures is safe under every other interleaving
\* of their completions, of the cancels they cause and of cancel_all: no handle is cancelled or
\* completed twice, run neither returns nor resumes its request while a future could
\* still call back, it does when both have ended, the loser is cancelled, and join and
\* select find the results they unwrap.
THEOREM BranchesSafe == ASSUME Reentry = {} PROVE BranchSpec => []BranchSafe
<1>1. BranchSpec => []BranchInv
  BY BranchInitInv, BranchNextInv, PTL DEF BranchSpec
<1> QED
  BY <1>1, BranchInvSafe, PTL
=============================================================================
