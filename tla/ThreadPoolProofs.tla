-------------------------- MODULE ThreadPoolProofs --------------------------
(***************************************************************************)
(* Proofs about ThreadPool for every number of workers and works, with or  *)
(* without failing threads and signals: PoolInv is inductive.              *)
(***************************************************************************)
EXTENDS ThreadPool, FiniteSetTheorems, TLAPS

(* The queue *)

Elems(s) == {s[i] : i \in DOMAIN s}

OneToOne(s) == \A i, j \in DOMAIN s : s[i] = s[j] => i = j

\* append puts one more work at the end of the queue.
LEMMA AppendElems ==
    ASSUME NEW S, NEW s \in Seq(S), NEW x \in S, OneToOne(s), x \notin Elems(s)
    PROVE  /\ Append(s, x) \in Seq(S)
           /\ Len(Append(s, x)) = Len(s) + 1
           /\ Elems(Append(s, x)) = Elems(s) \cup {x}
           /\ OneToOne(Append(s, x))
<1>1. /\ Append(s, x) \in Seq(S) /\ Len(Append(s, x)) = Len(s) + 1
      /\ DOMAIN s = 1..Len(s) /\ DOMAIN Append(s, x) = 1..(Len(s) + 1)
      /\ Len(s) \in Nat
  OBVIOUS
<1>2. \A i \in 1..Len(s) : Append(s, x)[i] = s[i]
  OBVIOUS
<1>3. Append(s, x)[Len(s) + 1] = x
  OBVIOUS
<1>4. \A i \in 1..(Len(s) + 1) : i \in 1..Len(s) \/ i = Len(s) + 1
  BY <1>1
<1>5. Elems(Append(s, x)) = Elems(s) \cup {x}
  BY <1>1, <1>2, <1>3, <1>4 DEF Elems
<1>6. OneToOne(Append(s, x))
  BY <1>1, <1>2, <1>3, <1>4 DEF OneToOne, Elems
<1> QED BY <1>1, <1>5, <1>6

\* A queue without its i-th work holds all the others and keeps them apart.
LEMMA RemoveElems ==
    ASSUME NEW S, NEW s \in Seq(S), NEW i \in 1..Len(s), OneToOne(s),
           NEW r \in Seq(S), Len(r) = Len(s) - 1,
           \A j \in 1..(Len(s) - 1) : r[j] = s[IF j < i THEN j ELSE j + 1]
    PROVE  Elems(r) = Elems(s) \ {s[i]} /\ OneToOne(r)
<1>1. Len(s) \in Nat /\ DOMAIN s = 1..Len(s) /\ DOMAIN r = 1..(Len(s) - 1)
  OBVIOUS
<1>2. OneToOne(r)
  <2>1. SUFFICES ASSUME NEW a \in 1..(Len(s) - 1), NEW b \in 1..(Len(s) - 1), r[a] = r[b]
                 PROVE  a = b
    BY <1>1 DEF OneToOne
  <2> DEFINE at(j) == IF j < i THEN j ELSE j + 1
  <2>2. at(a) \in DOMAIN s /\ at(b) \in DOMAIN s /\ s[at(a)] = s[at(b)]
    BY <1>1, <2>1
  <2>3. at(a) = at(b)
    BY <2>2 DEF OneToOne
  <2> QED BY <1>1, <2>3
<1>3. Elems(r) \subseteq Elems(s) \ {s[i]}
  BY <1>1 DEF Elems, OneToOne
<1>4. ASSUME NEW x \in Elems(s) \ {s[i]} PROVE x \in Elems(r)
  <2>1. PICK j \in 1..Len(s) : x = s[j]
    BY <1>1 DEF Elems
  <2>2. j # i
    BY <2>1
  <2>3. CASE j < i
    BY <1>1, <2>1, <2>3 DEF Elems
  <2>4. CASE j > i
    <3>1. (j - 1) \in 1..(Len(s) - 1) /\ r[j - 1] = s[j]
      BY <1>1, <2>1, <2>4
    <3> QED BY <1>1, <2>1, <3>1 DEF Elems
  <2> QED BY <1>1, <2>1, <2>2, <2>3, <2>4
<1> QED BY <1>2, <1>3, <1>4

\* pop_front takes exactly the first work out of the queue.
LEMMA TailElems ==
    ASSUME NEW S, NEW s \in Seq(S), s # <<>>, OneToOne(s)
    PROVE  /\ Head(s) \in S
           /\ Head(s) \in Elems(s)
           /\ Tail(s) \in Seq(S)
           /\ Len(Tail(s)) = Len(s) - 1
           /\ Elems(Tail(s)) = Elems(s) \ {Head(s)}
           /\ OneToOne(Tail(s))
<1>1. Len(s) \in Nat /\ Len(s) > 0 /\ 1 \in 1..Len(s) /\ Head(s) = s[1] /\ Head(s) \in S
  OBVIOUS
<1>2. Tail(s) \in Seq(S) /\ Len(Tail(s)) = Len(s) - 1
  BY <1>1
<1>3. \A j \in 1..(Len(s) - 1) : Tail(s)[j] = s[IF j < 1 THEN j ELSE j + 1]
  BY <1>1
<1>4. Elems(Tail(s)) = Elems(s) \ {s[1]} /\ OneToOne(Tail(s))
  BY <1>1, <1>2, <1>3, RemoveElems
<1>5. Head(s) \in Elems(s)
  BY <1>1 DEF Elems
<1> QED BY <1>1, <1>2, <1>4, <1>5

-----------------------------------------------------------------------------
(* Counting workers by where they are *)

Pos == {"never", "start", "run", "finish", "relock", "wait", "woken", "exit"}

IdlePos == {"never", "start", "wait", "woken"}

ReadyPos == {"start", "woken", "relock"}

Standing(f, P) == {w \in Worker : f[w] \in P}

NIdle(f) == Cardinality(Standing(f, IdlePos))

NReady(f) == Cardinality(Standing(f, ReadyPos))

Sleepers(f) == \E w \in Worker : f[w] = "wait"

\* 1 for a member of the set, else 0.
One(p, P) == IF p \in P THEN 1 ELSE 0

\* When one worker moves, the number of workers in a set of places follows it.
LEMMA StandingMove ==
    ASSUME NEW P, NEW f, NEW g, NEW w \in Worker, NEW pos,
           DOMAIN f = Worker, g = [f EXCEPT ![w] = pos]
    PROVE  /\ Cardinality(Standing(f, P)) \in Nat
           /\ Cardinality(Standing(g, P)) \in Nat
           /\ Cardinality(Standing(g, P))
                = Cardinality(Standing(f, P)) + One(pos, P) - One(f[w], P)
<1>1. IsFiniteSet(Standing(f, P)) /\ IsFiniteSet(Standing(g, P))
  <2>1. Standing(f, P) \subseteq Worker /\ Standing(g, P) \subseteq Worker
    BY DEF Standing
  <2> QED BY <2>1, FiniteAssumption, FS_Subset
<1>2. Cardinality(Standing(f, P)) \in Nat /\ Cardinality(Standing(g, P)) \in Nat
  BY <1>1, FS_CardinalityType
<1>3. \A v \in Worker : g[v] = IF v = w THEN pos ELSE f[v]
  OBVIOUS
<1>4. CASE pos \in P <=> f[w] \in P
  <2>1. Standing(g, P) = Standing(f, P)
    BY <1>3, <1>4 DEF Standing
  <2>2. One(pos, P) = One(f[w], P) /\ One(pos, P) \in Nat
    BY <1>4 DEF One
  <2> QED BY <1>2, <2>1, <2>2
<1>5. CASE pos \in P /\ f[w] \notin P
  <2>1. Standing(g, P) = Standing(f, P) \cup {w} /\ w \notin Standing(f, P)
    BY <1>3, <1>5 DEF Standing
  <2>2. Cardinality(Standing(g, P)) = Cardinality(Standing(f, P)) + 1
    BY <1>1, <2>1, FS_AddElement
  <2>3. One(pos, P) = 1 /\ One(f[w], P) = 0
    BY <1>5 DEF One
  <2> QED BY <1>2, <2>2, <2>3
<1>6. CASE pos \notin P /\ f[w] \in P
  <2>1. Standing(g, P) = Standing(f, P) \ {w} /\ w \in Standing(f, P)
    BY <1>3, <1>6 DEF Standing
  <2>2. Cardinality(Standing(g, P)) = Cardinality(Standing(f, P)) - 1
    BY <1>1, <2>1, FS_RemoveElement
  <2>3. One(pos, P) = 0 /\ One(f[w], P) = 1
    BY <1>6 DEF One
  <2> QED BY <1>2, <2>2, <2>3
<1> QED BY <1>4, <1>5, <1>6

\* No more workers stand somewhere than there are.
LEMMA StandingBound ==
    ASSUME NEW f, NEW P
    PROVE  /\ Cardinality(Standing(f, P)) \in Nat
           /\ Cardinality(Worker) \in Nat
           /\ Cardinality(Standing(f, P)) \in 0..Cardinality(Worker)
<1>1. Standing(f, P) \subseteq Worker
  BY DEF Standing
<1>2. IsFiniteSet(Standing(f, P)) /\ Cardinality(Standing(f, P)) <= Cardinality(Worker)
  BY <1>1, FiniteAssumption, FS_Subset
<1> QED BY <1>2, FiniteAssumption, FS_CardinalityType

\* The same for the counted and the ready workers, and who can be asleep after.
LEMMA MoveCounts ==
    ASSUME NEW f \in [Worker -> Pos], NEW g, NEW w \in Worker, NEW pos \in Pos,
           g = [f EXCEPT ![w] = pos]
    PROVE  /\ g \in [Worker -> Pos]
           /\ NIdle(f) \in Nat /\ NReady(f) \in Nat /\ NReady(g) \in Nat
           /\ NIdle(g) = NIdle(f) + One(pos, IdlePos) - One(f[w], IdlePos)
           /\ NReady(g) = NReady(f) + One(pos, ReadyPos) - One(f[w], ReadyPos)
           /\ pos # "wait" /\ Sleepers(g) => Sleepers(f)
<1>1. g \in [Worker -> Pos]
  OBVIOUS
<1>2. pos # "wait" /\ Sleepers(g) => Sleepers(f)
  BY DEF Sleepers
<1>3. /\ NIdle(f) \in Nat
      /\ NIdle(g) = NIdle(f) + One(pos, IdlePos) - One(f[w], IdlePos)
  BY StandingMove DEF NIdle
<1>4. /\ NReady(f) \in Nat /\ NReady(g) \in Nat
      /\ NReady(g) = NReady(f) + One(pos, ReadyPos) - One(f[w], ReadyPos)
  BY StandingMove DEF NReady
<1> QED BY <1>1, <1>2, <1>3, <1>4

-----------------------------------------------------------------------------
(* The counter and the sleepers *)

\* What the counting needs of a state: the counter is in its range and exact,
\* and nobody sleeps on queued work.
Counts ==
    /\ wpc \in [Worker -> Pos]
    /\ idle \in 0..Cardinality(Worker)
    /\ IdleExact
    /\ NoSleeper

\* The invariant's conjuncts in terms of the two counts.
LEMMA CountsDef ==
    Counts <=> /\ wpc \in [Worker -> Pos]
               /\ idle = NIdle(wpc)
               /\ ~closed /\ Sleepers(wpc) => Len(queue) <= NReady(wpc)
<1>1. At("never") \cup At("start") \cup At("wait") \cup At("woken") = Standing(wpc, IdlePos)
  BY DEF At, Standing, IdlePos
<1>2. Ready = Standing(wpc, ReadyPos)
  BY DEF Ready, At, Standing, ReadyPos
<1>3. At("wait") # {} <=> Sleepers(wpc)
  BY DEF At, Sleepers
<1>4. NIdle(wpc) \in 0..Cardinality(Worker)
  BY StandingBound DEF NIdle
<1> QED BY <1>1, <1>2, <1>3, <1>4 DEF Counts, IdleExact, NoSleeper, NIdle, NReady

\* The same of the next state.
LEMMA CountsNext ==
    Counts' <=> /\ wpc' \in [Worker -> Pos]
                /\ idle' = NIdle(wpc')
                /\ ~closed' /\ Sleepers(wpc') => Len(queue') <= NReady(wpc')
<1>1. (Counts <=> /\ wpc \in [Worker -> Pos]
                  /\ idle = NIdle(wpc)
                  /\ ~closed /\ Sleepers(wpc) => Len(queue) <= NReady(wpc))'
  BY CountsDef, PTL
<1> QED BY <1>1

\* A worker that looks at the queue keeps the counter exact and leaves no
\* sleeper behind: it exits only when the pool is closed, sleeps only when the
\* queue is empty and else takes one work.
LEMMA WorkerCounts ==
    ASSUME PoolInv, NEW w \in Worker, Step(w) \/ SpuriousWake(w)
    PROVE  Counts'
<1>1. /\ wpc \in [Worker -> Pos] /\ idle = NIdle(wpc)
      /\ ~closed /\ Sleepers(wpc) => Len(queue) <= NReady(wpc)
      /\ queue \in Seq(Work) /\ Len(queue) \in Nat
  <2>1. Counts /\ queue \in Seq(Work)
    BY DEF PoolInv, TypeOK, Counts, Pos
  <2> QED BY <2>1, CountsDef
<1>2. SUFFICES /\ wpc' \in [Worker -> Pos]
               /\ idle' = NIdle(wpc')
               /\ ~closed' /\ Sleepers(wpc') => Len(queue') <= NReady(wpc')
  BY CountsNext
<1>3. w \in Ready => wpc[w] \in {"start", "woken", "relock"}
  BY DEF Ready, At
<1>4. \A p : /\ One(p, IdlePos) = IF p \in {"never", "start", "wait", "woken"} THEN 1 ELSE 0
             /\ One(p, ReadyPos) = IF p \in {"start", "woken", "relock"} THEN 1 ELSE 0
  BY DEF One, IdlePos, ReadyPos
<1>5. \A pos \in Pos : wpc' = [wpc EXCEPT ![w] = pos] =>
           /\ wpc' \in [Worker -> Pos]
           /\ NIdle(wpc) \in Nat /\ NReady(wpc) \in Nat /\ NReady(wpc') \in Nat
           /\ NIdle(wpc') = NIdle(wpc) + One(pos, IdlePos) - One(wpc[w], IdlePos)
           /\ NReady(wpc') = NReady(wpc) + One(pos, ReadyPos) - One(wpc[w], ReadyPos)
           /\ pos # "wait" /\ Sleepers(wpc') => Sleepers(wpc)
  BY <1>1, MoveCounts
<1>6. Pos = {"never", "start", "run", "finish", "relock", "wait", "woken", "exit"}
  BY DEF Pos
<1>7. CASE Exit(w)
  <2>1. /\ wpc' = [wpc EXCEPT ![w] = "exit"] /\ idle' = Entered(w) /\ closed'
        /\ wpc[w] \in {"start", "woken", "relock"}
    BY <1>3, <1>7 DEF Exit
  <2> QED BY <1>1, <1>4, <1>5, <1>6, <2>1 DEF Entered
<1>8. CASE WaitWork(w)
  <2>1. /\ wpc' = [wpc EXCEPT ![w] = "wait"] /\ idle' = Entered(w) + 1
        /\ Len(queue') = 0 /\ wpc[w] \in {"start", "woken", "relock"}
    BY <1>3, <1>8 DEF WaitWork
  <2> QED BY <1>1, <1>4, <1>5, <1>6, <2>1 DEF Entered
<1>9. CASE Take(w)
  <2>1. /\ wpc' = [wpc EXCEPT ![w] = "run"] /\ idle' = Entered(w) /\ queue # <<>>
        /\ queue' = Tail(queue) /\ ~closed /\ wpc[w] \in {"start", "woken", "relock"}
    BY <1>3, <1>9 DEF Take
  <2>2. Len(queue') = Len(queue) - 1
    BY <1>1, <2>1
  <2> QED BY <1>1, <1>4, <1>5, <1>6, <2>1, <2>2 DEF Entered
<1>10. CASE CallbackReturns(w)
  <2>1. /\ wpc' = [wpc EXCEPT ![w] = "finish"] /\ wpc[w] = "run"
        /\ UNCHANGED <<queue, idle, closed>>
    BY <1>10 DEF CallbackReturns, qvars
  <2> QED BY <1>1, <1>4, <1>5, <1>6, <2>1
<1>11. CASE Complete(w)
  <2>1. /\ wpc' = [wpc EXCEPT ![w] = "relock"] /\ wpc[w] = "finish"
        /\ UNCHANGED <<queue, idle, closed>>
    BY <1>11 DEF Complete, qvars
  <2> QED BY <1>1, <1>4, <1>5, <1>6, <2>1
<1>12. CASE SpuriousWake(w)
  <2>1. /\ wpc' = [wpc EXCEPT ![w] = "woken"] /\ wpc[w] = "wait"
        /\ UNCHANGED <<queue, idle, closed>>
    BY <1>12 DEF SpuriousWake, qvars
  <2> QED BY <1>1, <1>4, <1>5, <1>6, <2>1
<1> QED BY <1>7, <1>8, <1>9, <1>10, <1>11, <1>12 DEF Step

\* A sleeping worker is a counted one.
LEMMA SleeperCounted ==
    ASSUME Sleepers(wpc)
    PROVE  NIdle(wpc) # 0
<1>1. Standing(wpc, IdlePos) \subseteq Worker
  BY DEF Standing
<1>2. IsFiniteSet(Standing(wpc, IdlePos))
  BY <1>1, FiniteAssumption, FS_Subset
<1>3. Standing(wpc, IdlePos) # {}
  BY DEF Sleepers, Standing, IdlePos
<1> QED BY <1>2, <1>3, FS_EmptySet DEF NIdle

\* submit wakes a sleeper whenever there is one, because the counter is exact;
\* what the other calls do to the queue makes it shorter.
LEMMA CallerCounts ==
    ASSUME PoolInv,
           \/ \E k \in Work : Owner(k)
           \/ \E pos \in {"close", "drop"} : CloseStore(pos)
           \/ CancelAll
    PROVE  Counts'
<1>1. /\ wpc \in [Worker -> Pos] /\ idle = NIdle(wpc)
      /\ ~closed /\ Sleepers(wpc) => Len(queue) <= NReady(wpc)
      /\ queue \in Seq(Work) /\ Len(queue) \in Nat
  <2>1. Counts /\ queue \in Seq(Work)
    BY DEF PoolInv, TypeOK, Counts, Pos
  <2> QED BY <2>1, CountsDef
<1> DEFINE Goal == /\ wpc' \in [Worker -> Pos]
                   /\ idle' = NIdle(wpc')
                   /\ ~closed' /\ Sleepers(wpc') => Len(queue') <= NReady(wpc')
<1>2. SUFFICES Goal
  BY CountsNext
<1>3. NReady(wpc) \in Nat
  BY StandingBound DEF NReady
<1>4. ASSUME NEW k \in Work, Submit(k) PROVE Goal
  <2>1. /\ queue' = Append(queue, k) /\ idle' = idle /\ closed' = closed
        /\ Len(queue') = Len(queue) + 1
    BY <1>1, <1>4 DEF Submit
  <2>2. CASE idle # 0 /\ At("wait") # {}
    <3>1. PICK w \in Worker : wpc[w] = "wait" /\ wpc' = [wpc EXCEPT ![w] = "woken"]
      BY <1>4, <2>2 DEF Submit, At
    <3>2. Sleepers(wpc)
      BY <3>1 DEF Sleepers
    <3>3. "woken" \in Pos
      BY DEF Pos
    <3>4. /\ One("woken", IdlePos) = 1 /\ One(wpc[w], IdlePos) = 1
          /\ One("woken", ReadyPos) = 1 /\ One(wpc[w], ReadyPos) = 0
      BY <3>1 DEF One, IdlePos, ReadyPos
    <3>5. /\ wpc' \in [Worker -> Pos]
          /\ NIdle(wpc) \in Nat
          /\ NIdle(wpc') = NIdle(wpc) + One("woken", IdlePos) - One(wpc[w], IdlePos)
          /\ NReady(wpc') = NReady(wpc) + One("woken", ReadyPos) - One(wpc[w], ReadyPos)
      BY <1>1, <3>1, <3>3, MoveCounts
    <3> QED BY <1>1, <1>3, <2>1, <3>2, <3>4, <3>5
  <2>3. CASE ~(idle # 0 /\ At("wait") # {})
    <3>1. wpc' = wpc
      BY <1>4, <2>3 DEF Submit
    <3>2. At("wait") # {} <=> Sleepers(wpc)
      BY DEF At, Sleepers
    <3>3. ~Sleepers(wpc)
      BY <1>1, <2>3, <3>2, SleeperCounted
    <3> QED BY <1>1, <2>1, <3>1, <3>3
  <2> QED BY <2>2, <2>3
<1>5. ASSUME NEW k \in Work, CancelLinked(k) PROVE Goal
  <2>1. wpc' = wpc /\ idle' = idle /\ closed' = closed
    BY <1>5 DEF CancelLinked, wvars
  <2>2. PICK i \in DOMAIN queue :
             queue' = [j \in 1..(Len(queue) - 1) |-> queue[IF j < i THEN j ELSE j + 1]]
    BY <1>5 DEF CancelLinked
  <2>3. Len(queue') = Len(queue) - 1
    <3>1. Len(queue) > 0
      BY <1>1, <2>2
    <3>2. (Len(queue) - 1) \in Nat
      BY <1>1, <3>1
    <3>3. queue' \in Seq(Work) /\ DOMAIN queue' = 1..(Len(queue) - 1)
      BY <1>1, <2>2, <3>2
    <3> QED BY <3>2, <3>3
  <2> QED BY <1>1, <1>3, <2>1, <2>3
<1>6. ASSUME NEW k \in Work, CancelTaken(k) \/ Signal(k) \/ Resume(k) PROVE Goal
  BY <1>1, <1>6 DEF CancelTaken, Signal, Resume, qvars, wvars
<1>7. ASSUME NEW pos \in {"close", "drop"}, CloseStore(pos) PROVE Goal
  BY <1>1, <1>7 DEF CloseStore, wvars
<1>8. CASE CancelAll
  <2>1. /\ wpc' = [w \in Worker |-> IF wpc[w] = "wait" THEN "woken" ELSE wpc[w]]
        /\ queue' = <<>> /\ idle' = idle
    BY <1>8 DEF CancelAll
  <2>2. wpc' \in [Worker -> Pos]
    BY <1>1, <2>1 DEF Pos
  <2>3. Standing(wpc', IdlePos) = Standing(wpc, IdlePos)
    BY <2>1 DEF Standing, IdlePos
  <2>4. NReady(wpc') \in Nat /\ Len(queue') = 0
    BY <2>1, StandingBound DEF NReady
  <2> QED BY <1>1, <2>1, <2>2, <2>3, <2>4 DEF NIdle
<1> QED BY <1>4, <1>5, <1>6, <1>7, <1>8 DEF Owner

-----------------------------------------------------------------------------
(* Who has a work *)

Owned == TypeOK /\ WorkOwned /\ WorkLinks /\ OwnCancel

\* Steps of a worker that neither take nor give back a work.
LEMMA IdleStepOwned ==
    ASSUME PoolInv, Counts', NEW w \in Worker,
           Exit(w) \/ WaitWork(w) \/ CallbackReturns(w) \/ SpuriousWake(w)
    PROVE  Owned'
<1>1. /\ UNCHANGED <<queue, cancelled, opc, worker, result, asked, cpc, fault>>
      /\ closed' = closed
      /\ \E p \in Pos : wpc' = [wpc EXCEPT ![w] = p]
      /\ cur' = cur \/ cur' = [cur EXCEPT ![w] = Null]
  BY DEF Exit, WaitWork, CallbackReturns, SpuriousWake, kvars, qvars, Pos
<1>2. TypeOK'
  BY <1>1 DEF PoolInv, TypeOK, Counts, Pos
<1>3. \A v \in Worker : /\ Busy(v)' <=> Busy(v)
                        /\ Busy(v) => cur'[v] = cur[v]
                        /\ wpc'[v] = "run" => wpc[v] = "run"
  <2>1. CASE CallbackReturns(w)
    BY <2>1 DEF PoolInv, TypeOK, Busy, CallbackReturns
  <2>2. CASE Exit(w) \/ WaitWork(w) \/ SpuriousWake(w)
    <3>1. ~Busy(w) /\ ~Busy(w)'
      BY <1>1, <2>2 DEF PoolInv, TypeOK, Busy, Exit, WaitWork, SpuriousWake, Ready, At
    <3>2. \A v \in Worker \ {w} : wpc'[v] = wpc[v] /\ cur'[v] = cur[v]
      BY <1>1 DEF PoolInv, TypeOK
    <3> QED BY <3>1, <3>2 DEF Busy
  <2> QED BY <2>1, <2>2
<1>4. WorkOwned'
  BY <1>1, <1>3 DEF PoolInv, WorkOwned, Waits, Queued
<1>5. WorkLinks'
  BY <1>1, <1>3 DEF PoolInv, WorkLinks, Queued
<1>6. OwnCancel'
  BY <1>1, <1>3 DEF PoolInv, OwnCancel, Busy
<1> QED BY <1>2, <1>4, <1>5, <1>6 DEF Owned

\* A worker takes the first work of the queue.
LEMMA TakeOwned ==
    ASSUME PoolInv, Counts', NEW w \in Worker, Take(w)
    PROVE  Owned'
<1>1. PICK k : k = Head(queue)
  OBVIOUS
<1>2. /\ queue # <<>> /\ queue' = Tail(queue)
      /\ worker' = [worker EXCEPT ![k] = w] /\ cur' = [cur EXCEPT ![w] = k]
      /\ cancelled' = [cancelled EXCEPT ![w] = FALSE]
      /\ wpc' = [wpc EXCEPT ![w] = "run"]
      /\ UNCHANGED <<closed, opc, result, asked, cpc, fault>>
      /\ ~Busy(w)
  BY <1>1 DEF Take, Ready, At, Busy
<1>3. OneToOne(queue) /\ queue \in Seq(Work) /\ Queued = Elems(queue) /\ Queued' = Elems(queue')
  BY DEF PoolInv, TypeOK, WorkOwned, OneToOne, Elems, Queued
<1>4. /\ k \in Work /\ k \in Queued /\ queue' \in Seq(Work)
      /\ Queued' = Queued \ {k} /\ OneToOne(queue')
  BY <1>1, <1>2, <1>3, TailElems
<1>5. TypeOK'
  BY <1>2, <1>4 DEF PoolInv, TypeOK, Counts, Pos
<1>6. \A v \in Worker : /\ Busy(v)' <=> Busy(v) \/ v = w
                        /\ cur'[v] = IF v = w THEN k ELSE cur[v]
                        /\ Busy(v) => cur[v] # k /\ v # w
  <2>1. \A v \in Worker : /\ wpc'[v] = IF v = w THEN "run" ELSE wpc[v]
                          /\ cur'[v] = IF v = w THEN k ELSE cur[v]
    BY <1>2 DEF PoolInv, TypeOK
  <2>2. \A v \in Worker : Busy(v) => cur[v] # k /\ v # w
    BY <1>2, <1>4 DEF PoolInv, WorkOwned
  <2> QED BY <2>1, <2>2 DEF Busy
<1>7. WorkOwned'
  <2>1. \A x \in Work : Waits(x)' <=> Waits(x)
    BY <1>2 DEF Waits
  <2>2. \A x \in Work : Waits(x)' <=> x \in Queued' \/ \E v \in Worker : Busy(v)' /\ cur'[v] = x
    BY <1>4, <1>6, <2>1 DEF PoolInv, WorkOwned
  <2>3. \A v \in Worker : Busy(v)' => cur'[v] \in Work \ Queued'
    BY <1>4, <1>6 DEF PoolInv, WorkOwned
  <2>4. \A u, v \in Worker : Busy(u)' /\ Busy(v)' /\ cur'[u] = cur'[v] => u = v
    BY <1>6 DEF PoolInv, WorkOwned
  <2> QED BY <1>4, <2>2, <2>3, <2>4 DEF WorkOwned, OneToOne
<1>8. WorkLinks'
  <2>1. \A x \in Work : worker'[x] = IF x = k THEN w ELSE worker[x]
    BY <1>2 DEF PoolInv, TypeOK
  <2>2. \A v \in Worker : Busy(v) => cur[v] \in Work /\ worker[cur[v]] = v
    BY DEF PoolInv, WorkLinks, WorkOwned
  <2>3. \A v \in Worker : Busy(v)' => worker'[cur'[v]] = v
    BY <1>4, <1>6, <2>1, <2>2
  <2> QED BY <1>2, <1>4, <2>3 DEF PoolInv, WorkLinks
<1>9. OwnCancel'
  BY <1>2, <1>4, <1>6 DEF PoolInv, OwnCancel, WorkLinks, TypeOK
<1> QED BY <1>5, <1>7, <1>8, <1>9 DEF Owned

\* A worker completes its work: the owner waits no longer, the worker has none.
LEMMA CompleteOwned ==
    ASSUME PoolInv, Counts', NEW w \in Worker, Complete(w)
    PROVE  Owned'
<1>1. /\ result' = [result EXCEPT ![cur[w]] = "true"]
      /\ wpc' = [wpc EXCEPT ![w] = "relock"]
      /\ UNCHANGED <<queue, closed, cur, cancelled, opc, worker, asked, cpc, fault>>
      /\ Busy(w)
  BY DEF Complete, qvars, Busy
<1>2. cur[w] \in Work /\ cur[w] \notin Queued /\ Waits(cur[w]) /\ Queued' = Queued
  BY <1>1 DEF PoolInv, WorkOwned, Queued
<1>3. TypeOK'
  BY <1>1, <1>2 DEF PoolInv, TypeOK, Counts, Pos
<1>4. \A v \in Worker : Busy(v)' <=> Busy(v) /\ v # w
  BY <1>1 DEF PoolInv, TypeOK, Busy
<1>5. \A x \in Work : Waits(x)' <=> Waits(x) /\ x # cur[w]
  BY <1>1, <1>2 DEF PoolInv, TypeOK, Waits
<1>6. WorkOwned'
  <2>1. \A x \in Work : Waits(x)' <=> x \in Queued' \/ \E v \in Worker : Busy(v)' /\ cur'[v] = x
    BY <1>1, <1>2, <1>4, <1>5 DEF PoolInv, WorkOwned
  <2> QED BY <1>1, <1>2, <1>4, <2>1 DEF PoolInv, WorkOwned
<1>7. WorkLinks'
  BY <1>1, <1>2, <1>4, ZenonT(30) DEF PoolInv, WorkLinks, TypeOK, Waits
<1>8. OwnCancel'
  BY <1>1, ZenonT(30) DEF PoolInv, OwnCancel, TypeOK
<1> QED BY <1>3, <1>6, <1>7, <1>8 DEF Owned

\* A work enters the queue when its owner starts to wait for it.
LEMMA SubmitOwned ==
    ASSUME PoolInv, Counts', NEW k \in Work, Submit(k)
    PROVE  Owned'
<1>1. /\ opc[k] = "new" /\ opc' = [opc EXCEPT ![k] = "pending"]
      /\ queue' = Append(queue, k)
      /\ UNCHANGED <<closed, cur, cancelled, worker, result, asked, cpc, fault>>
  BY DEF Submit
<1>2. wpc' = wpc \/ \E w \in Worker : wpc[w] = "wait" /\ wpc' = [wpc EXCEPT ![w] = "woken"]
  BY DEF Submit, At
<1>3. \A v \in Worker : (Busy(v)' <=> Busy(v)) /\ (wpc'[v] = "run" <=> wpc[v] = "run")
  BY <1>2 DEF PoolInv, TypeOK, Busy
<1>4. /\ result[k] = "None" /\ ~asked[k] /\ k \notin Queued
      /\ \A v \in Worker : Busy(v) => cur[v] # k
  BY <1>1 DEF PoolInv, WorkLinks, WorkOwned, Waits
<1>5. OneToOne(queue) /\ queue \in Seq(Work) /\ Queued = Elems(queue) /\ Queued' = Elems(queue')
  BY DEF PoolInv, TypeOK, WorkOwned, OneToOne, Elems, Queued
<1>6. queue' \in Seq(Work) /\ Queued' = Queued \cup {k} /\ OneToOne(queue')
  BY <1>1, <1>4, <1>5, AppendElems
<1>7. TypeOK'
  BY <1>1, <1>6 DEF PoolInv, TypeOK, Counts, Pos
<1>8. \A x \in Work : opc'[x] = IF x = k THEN "pending" ELSE opc[x]
  BY <1>1 DEF PoolInv, TypeOK
<1>9. WorkOwned'
  <2>1. \A x \in Work : Waits(x)' <=> Waits(x) \/ x = k
    BY <1>1, <1>4, <1>8 DEF Waits
  <2>2. \A x \in Work : Waits(x)' <=> x \in Queued' \/ \E v \in Worker : Busy(v)' /\ cur'[v] = x
    BY <1>1, <1>3, <1>4, <1>6, <2>1 DEF PoolInv, WorkOwned
  <2> QED BY <1>1, <1>3, <1>4, <1>6, <2>2 DEF PoolInv, WorkOwned, OneToOne
<1>10. WorkLinks'
  BY <1>1, <1>3, <1>4, <1>6, <1>8 DEF PoolInv, WorkLinks
<1>11. OwnCancel'
  BY <1>1, <1>3 DEF PoolInv, OwnCancel
<1> QED BY <1>7, <1>9, <1>10, <1>11 DEF Owned

\* A work that is still queued is completed by its cancel and leaves the queue.
LEMMA CancelLinkedOwned ==
    ASSUME PoolInv, Counts', NEW k \in Work, CancelLinked(k)
    PROVE  Owned'
<1>1. /\ opc[k] = "pending" /\ result' = [result EXCEPT ![k] = "false"]
      /\ asked' = [asked EXCEPT ![k] = TRUE]
      /\ UNCHANGED <<idle, closed, wpc, cur, cancelled, opc, worker, cpc, fault>>
  BY DEF CancelLinked, MayCancel, wvars
<1>2. OneToOne(queue) /\ queue \in Seq(Work) /\ Queued = Elems(queue) /\ Queued' = Elems(queue')
  BY DEF PoolInv, TypeOK, WorkOwned, OneToOne, Elems, Queued
<1>3. PICK i \in 1..Len(queue) :
           /\ queue[i] = k
           /\ queue' = [j \in 1..(Len(queue) - 1) |-> queue[IF j < i THEN j ELSE j + 1]]
  BY <1>2 DEF CancelLinked
<1>4. queue' \in Seq(Work) /\ Queued' = Queued \ {k} /\ OneToOne(queue') /\ k \in Queued
  <2>1. Len(queue) \in Nat /\ (Len(queue) - 1) \in Nat
    BY <1>2, <1>3
  <2>2. \A j \in 1..(Len(queue) - 1) :
           queue'[j] = queue[IF j < i THEN j ELSE j + 1] /\ queue'[j] \in Work
    BY <1>2, <1>3, <2>1
  <2>3. queue' \in Seq(Work) /\ Len(queue') = Len(queue) - 1
    BY <1>3, <2>1, <2>2
  <2>4. Elems(queue') = Elems(queue) \ {queue[i]} /\ OneToOne(queue')
    BY <1>2, <2>2, <2>3, RemoveElems
  <2>5. k \in Queued
    BY <1>2, <1>3 DEF Queued
  <2> QED BY <1>2, <1>3, <2>3, <2>4, <2>5
<1>5. TypeOK'
  BY <1>1, <1>4 DEF PoolInv, TypeOK, Counts, Pos
<1>6. \A x \in Work : /\ result'[x] = IF x = k THEN "false" ELSE result[x]
                      /\ asked'[x] = IF x = k THEN TRUE ELSE asked[x]
  BY <1>1 DEF PoolInv, TypeOK
<1>7. \A v \in Worker : (Busy(v)' <=> Busy(v)) /\ (Busy(v) => cur[v] # k)
  BY <1>1, <1>4 DEF PoolInv, WorkOwned, Busy
<1>8. WorkOwned'
  <2>1. \A x \in Work : Waits(x)' <=> Waits(x) /\ x # k
    <3>1. ~Waits(k)'
      BY <1>6 DEF Waits
    <3>2. \A x \in Work : x # k => (Waits(x)' <=> Waits(x))
      BY <1>1, <1>6 DEF Waits
    <3> QED BY <3>1, <3>2
  <2>2. \A x \in Work : Waits(x)' <=> x \in Queued' \/ \E v \in Worker : Busy(v)' /\ cur'[v] = x
    BY <1>1, <1>4, <1>7, <2>1 DEF PoolInv, WorkOwned
  <2> QED BY <1>1, <1>4, <1>7, <2>2 DEF PoolInv, WorkOwned, OneToOne
<1>9. WorkLinks'
  BY <1>1, <1>4, <1>6, <1>7 DEF PoolInv, WorkLinks
<1>10. OwnCancel'
  <2>1. \A v \in Worker : wpc[v] = "run" => Busy(v) /\ cur[v] \in Work
    BY DEF PoolInv, WorkOwned, Busy
  <2> QED BY <1>1, <1>6, <1>7, <2>1 DEF PoolInv, OwnCancel
<1> QED BY <1>5, <1>8, <1>9, <1>10 DEF Owned

\* A cancel reaches the flag of the worker that has the work now, and only it:
\* the worker of a work that somebody has is the one that has it.
LEMMA CancelTakenOwned ==
    ASSUME PoolInv, Counts', NEW k \in Work, CancelTaken(k)
    PROVE  Owned'
<1>1. /\ opc[k] = "pending" /\ asked' = [asked EXCEPT ![k] = TRUE] /\ k \notin Queued
      /\ UNCHANGED <<queue, closed, wpc, cur, worker, result, cpc>>
  BY DEF CancelTaken, MayCancel, qvars
<1>2. \/ /\ worker[k] = Null \/ cur[worker[k]] # k
         /\ cancelled' = cancelled /\ opc' = opc
      \/ /\ worker[k] # Null /\ cur[worker[k]] = k
         /\ cancelled' = [cancelled EXCEPT ![worker[k]] = TRUE]
         /\ opc' = [opc EXCEPT ![k] = "signal"]
  BY DEF CancelTaken
<1>3. fault' \in {"none", "null worker", "dead thread"}
  BY DEF CancelTaken, PoolInv, TypeOK
<1>4. TypeOK'
  BY <1>1, <1>2, <1>3 DEF PoolInv, TypeOK, Counts, Pos
<1>5. /\ \A x \in Work : opc'[x] = opc[x] \/ (x = k /\ opc'[x] = "signal")
      /\ \A x \in Work : asked'[x] = IF x = k THEN TRUE ELSE asked[x]
  <2>1. \A x \in Work : opc'[x] = opc[x] \/ (x = k /\ opc'[x] = "signal")
    BY <1>2 DEF PoolInv, TypeOK
  <2>2. \A x \in Work : asked'[x] = IF x = k THEN TRUE ELSE asked[x]
    BY <1>1 DEF PoolInv, TypeOK
  <2> QED BY <2>1, <2>2
<1>6. Queued' = Queued /\ \A v \in Worker : Busy(v)' <=> Busy(v)
  BY <1>1 DEF Queued, Busy
<1>7. WorkOwned'
  <2>1. \A x \in Work : Waits(x)' <=> Waits(x)
    BY <1>1, <1>5 DEF Waits
  <2> QED BY <1>1, <1>6, <2>1 DEF PoolInv, WorkOwned
<1>8. WorkLinks'
  BY <1>1, <1>5, <1>6 DEF PoolInv, WorkLinks
<1>9. OwnCancel'
  <2>1. SUFFICES ASSUME NEW v \in Worker, wpc[v] = "run"
                 PROVE  cancelled'[v] <=> asked'[cur[v]]
    BY <1>1 DEF OwnCancel
  <2>2. cur[v] \in Work /\ worker[cur[v]] = v /\ (cancelled[v] <=> asked[cur[v]])
    BY <2>1 DEF PoolInv, WorkOwned, WorkLinks, OwnCancel, Busy
  <2>3. CASE cur[v] = k
    <3>1. worker[k] = v /\ worker[k] # Null /\ cur[worker[k]] = k
      BY <2>2, <2>3, NullAssumption
    <3>2. cancelled' = [cancelled EXCEPT ![v] = TRUE]
      BY <1>2, <3>1
    <3>3. cancelled'[v] = TRUE
      BY <3>2 DEF PoolInv, TypeOK
    <3>4. asked'[cur[v]] = TRUE
      BY <1>5, <2>3
    <3> QED BY <3>3, <3>4
  <2>4. CASE cur[v] # k
    <3>1. cancelled'[v] = cancelled[v]
      BY <1>2, <2>2, <2>4 DEF PoolInv, TypeOK
    <3> QED BY <1>5, <2>2, <2>4, <3>1
  <2> QED BY <2>3, <2>4
<1> QED BY <1>4, <1>7, <1>8, <1>9 DEF Owned

\* The signal and the resumption change only where the owner is.
LEMMA OwnerStepOwned ==
    ASSUME PoolInv, Counts', NEW k \in Work, Signal(k) \/ Resume(k)
    PROVE  Owned'
<1>1. /\ UNCHANGED <<queue, closed, wpc, cur, cancelled, worker, result, asked, cpc>>
      /\ fault' \in {"none", "null worker", "dead thread"}
  BY DEF Signal, Resume, Signals, qvars, wvars, PoolInv, TypeOK
<1>2. \/ opc[k] = "signal" /\ opc' = [opc EXCEPT ![k] = "pending"]
      \/ opc[k] = "pending" /\ result[k] # "None" /\ opc' = [opc EXCEPT ![k] = "resumed"]
  BY DEF Signal, Resume
<1>3. TypeOK'
  BY <1>1, <1>2 DEF PoolInv, TypeOK, Counts, Pos
<1>4. Queued' = Queued /\ \A v \in Worker : Busy(v)' <=> Busy(v)
  BY <1>1 DEF Queued, Busy
<1>5. \A x \in Work : /\ Waits(x)' <=> Waits(x)
                      /\ opc'[x] = "new" <=> opc[x] = "new"
  BY <1>1, <1>2 DEF PoolInv, TypeOK, Waits
<1>6. WorkOwned'
  BY <1>1, <1>4, <1>5 DEF PoolInv, WorkOwned
<1>7. WorkLinks'
  BY <1>1, <1>4, <1>5 DEF PoolInv, WorkLinks
<1>8. OwnCancel'
  BY <1>1 DEF PoolInv, OwnCancel
<1> QED BY <1>3, <1>6, <1>7, <1>8 DEF Owned

\* cancel_all completes exactly the queued works.
LEMMA CancelAllOwned ==
    ASSUME PoolInv, Counts', CancelAll
    PROVE  Owned'
<1>1. /\ result' = [x \in Work |-> IF x \in Queued THEN "false" ELSE result[x]]
      /\ queue' = <<>>
      /\ wpc' = [w \in Worker |-> IF wpc[w] = "wait" THEN "woken" ELSE wpc[w]]
      /\ cpc' \in {"gone", "idle"}
      /\ fault' \in {"none", "null worker", "dead thread"}
      /\ UNCHANGED <<closed, cur, cancelled, opc, worker, asked>>
  BY DEF CancelAll, Signals, PoolInv, TypeOK
<1>2. TypeOK'
  <2>1. queue' \in Seq(Work)
    <3>1. queue' = <<>>
      BY <1>1
    <3> QED BY ONLY <3>1
  <2>2. result' \in [Work -> {"None", "true", "false"}]
    BY <1>1 DEF PoolInv, TypeOK
  <2> QED BY <1>1, <2>1, <2>2 DEF PoolInv, TypeOK, Counts, Pos
<1>3. Queued' = {} /\ \A i \in DOMAIN queue' : FALSE
  <2>1. DOMAIN queue' = {}
    <3>1. queue' = <<>>
      BY <1>1
    <3> QED BY ONLY <3>1
  <2> QED BY <2>1 DEF Queued
<1>4. \A v \in Worker : (Busy(v)' <=> Busy(v)) /\ (wpc'[v] = "run" <=> wpc[v] = "run")
  BY <1>1 DEF Busy
<1>5. \A x \in Work : Waits(x)' <=> Waits(x) /\ x \notin Queued
  BY <1>1 DEF Waits
<1>6. WorkOwned'
  <2>1. \A x \in Work : Waits(x)' <=> x \in Queued' \/ \E v \in Worker : Busy(v)' /\ cur'[v] = x
    BY <1>1, <1>3, <1>4, <1>5, ZenonT(30) DEF PoolInv, WorkOwned
  <2> QED BY <1>1, <1>3, <1>4, <2>1 DEF PoolInv, WorkOwned
<1>7. WorkLinks'
  <2>1. \A x \in Work : opc[x] = "new" => x \notin Queued
    BY DEF PoolInv, WorkOwned, Waits
  <2> QED BY <1>1, <1>3, <1>4, <2>1 DEF PoolInv, WorkLinks
<1>8. OwnCancel'
  BY <1>1, <1>4 DEF PoolInv, OwnCancel
<1> QED BY <1>2, <1>6, <1>7, <1>8 DEF Owned

\* Storing `closed` disturbs nothing.
LEMMA CloseOwned ==
    ASSUME PoolInv, Counts', NEW pos \in {"close", "drop"}, CloseStore(pos)
    PROVE  Owned'
<1>1. /\ UNCHANGED <<queue, wpc, cur, cancelled, opc, worker, result, asked, fault>>
      /\ closed' = TRUE /\ cpc' = pos
  BY DEF CloseStore, wvars, kvars
<1>2. TypeOK'
  BY <1>1 DEF PoolInv, TypeOK, Counts, Pos
<1> QED BY <1>1, <1>2 DEF PoolInv, Owned, WorkOwned, WorkLinks, OwnCancel, Queued, Busy, Waits

-----------------------------------------------------------------------------
(* The theorem *)

\* ThreadPool::new establishes the invariant.
LEMMA PoolInit == Init => PoolInv
<1> SUFFICES ASSUME Init PROVE PoolInv
  OBVIOUS
<1>1. /\ wpc \in [Worker -> Pos] /\ \A w \in Worker : wpc[w] \in {"never", "start"}
      /\ cpc \in {"idle", "failed"} /\ queue = <<>> /\ idle = Cardinality(Worker)
  BY DEF Init, Pos
<1>2. Standing(wpc, IdlePos) = Worker /\ ~Sleepers(wpc)
  BY <1>1 DEF Standing, IdlePos, Sleepers
<1>3. Counts
  BY <1>1, <1>2, CountsDef DEF NIdle
<1>4. TypeOK
  <2>1. queue \in Seq(Work)
    BY <1>1
  <2>2. /\ closed \in BOOLEAN /\ fault \in {"none", "null worker", "dead thread"}
        /\ cur \in [Worker -> Work \cup {Null}] /\ cancelled \in [Worker -> BOOLEAN]
        /\ opc \in [Work -> {"new", "pending", "signal", "resumed"}]
        /\ worker \in [Work -> Worker \cup {Null}]
        /\ result \in [Work -> {"None", "true", "false"}]
        /\ asked \in [Work -> BOOLEAN]
    BY DEF Init
  <2> QED BY <1>1, <1>3, <2>1, <2>2 DEF TypeOK, Counts, Pos
<1>5. Queued = {} /\ \A i \in DOMAIN queue : FALSE
  BY <1>1 DEF Queued
<1>6. \A w \in Worker : ~Busy(w)
  BY <1>1 DEF Busy
<1>7. WorkOwned /\ WorkLinks
  BY <1>5, <1>6 DEF Init, WorkOwned, WorkLinks, Waits
<1>8. OwnCancel
  BY <1>1 DEF OwnCancel
<1> QED BY <1>3, <1>4, <1>7, <1>8 DEF PoolInv, Counts

\* Every step keeps it.
LEMMA PoolNext == PoolInv /\ [Next]_vars => PoolInv'
<1> SUFFICES ASSUME PoolInv, [Next]_vars PROVE PoolInv'
  OBVIOUS
<1>1. CASE UNCHANGED vars
  <2> USE <1>1 DEF vars, qvars, wvars, kvars
  <2>1. TypeOK'
    BY DEF PoolInv, TypeOK
  <2>2. WorkOwned' /\ WorkLinks' /\ OwnCancel'
    BY DEF PoolInv, WorkOwned, WorkLinks, OwnCancel, Queued, Busy, Waits
  <2>3. IdleExact' /\ NoSleeper'
    BY DEF PoolInv, IdleExact, NoSleeper, At, Ready
  <2> QED BY <2>1, <2>2, <2>3 DEF PoolInv
<1>2. ASSUME NEW w \in Worker, Step(w) \/ SpuriousWake(w) PROVE Counts' /\ Owned'
  <2>1. Counts'
    BY <1>2, WorkerCounts
  <2> QED BY <1>2, <2>1, IdleStepOwned, TakeOwned, CompleteOwned DEF Step
<1>3. ASSUME NEW k \in Work, Owner(k) PROVE Counts' /\ Owned'
  <2>1. Counts'
    BY <1>3, CallerCounts
  <2> QED BY <1>3, <2>1, SubmitOwned, CancelLinkedOwned, CancelTakenOwned, OwnerStepOwned
             DEF Owner
<1>4. ASSUME NEW pos \in {"close", "drop"}, CloseStore(pos) PROVE Counts' /\ Owned'
  <2>1. Counts'
    BY <1>4, CallerCounts
  <2> QED BY <1>4, <2>1, CloseOwned
<1>5. ASSUME CancelAll PROVE Counts' /\ Owned'
  <2>1. Counts'
    BY <1>5, CallerCounts
  <2> QED BY <1>5, <2>1, CancelAllOwned
<1>6. CASE Next
  <2>1. Counts' /\ Owned'
    BY <1>2, <1>3, <1>4, <1>5, <1>6 DEF Next
  <2> QED BY <2>1 DEF Counts, Owned, PoolInv
<1> QED BY <1>1, <1>6

\* For every number of workers and works, with or without failing threads: a
\* work is completed once and has one place until then.
THEOREM PoolCorrect == Spec => [](TypeOK /\ WorkOwned)
<1>1. PoolInv => TypeOK /\ WorkOwned
  BY DEF PoolInv
<1> QED BY PoolInit, PoolNext, <1>1, PTL DEF Spec

\* For every number of workers and works: a callback is told of its own
\* cancellation only, and the idle counter is exact.
THEOREM PoolCancels == Spec => []CancelExact
<1>1. PoolInv => CancelExact
  BY DEF PoolInv, CancelExact
<1> QED BY PoolInit, PoolNext, <1>1, PTL DEF Spec

\* For every number of workers and works no wake-up of a worker is lost:
\* submit_direct may skip notify_one when idle_count is zero.
THEOREM PoolNoSleeper == Spec => []NoSleeper
<1>1. PoolInv => NoSleeper
  BY DEF PoolInv
<1> QED BY PoolInit, PoolNext, <1>1, PTL DEF Spec
=============================================================================
