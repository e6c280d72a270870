---------------------------- MODULE ExecutorProofs ----------------------------
(***************************************************************************)
(* Proofs about Executor, for any finite set of workers, in a build with   *)
(* debug_assertions: workers call each other like functions, no assertion  *)
(* fails, whoever waits for a task is resumed by its end and only by it,   *)
(* and a Spawn is freed with its last reference.                           *)
(***************************************************************************)
EXTENDS Executor, FiniteSetTheorems, SequenceTheorems, WellFoundedInduction, TLAPS

\* The task has started and not ended.
Pending(c) == pc[c] \in {"user", "spawn", "start", "event", "join", "await"}

Starting(w) == pc[w] \in {"spawn", "start"}

\* s is the call stack, the oldest call first: every worker on it would suspend
\* to the one below it, the first one to the event loop.
IsStack(s) ==
    /\ \A i, j \in 1..Len(s) : s[i] = s[j] => i = j
    /\ \A w \in Worker : pc[w] \in OnStack <=> \E i \in 1..Len(s) : s[i] = w
    /\ current = IF Len(s) = 0 THEN Main ELSE s[Len(s)]
    /\ \A i \in 1..Len(s) : caller[s[i]] = IF i = 1 THEN Main ELSE s[i - 1]

StackSound ==
    /\ \E s \in Seq(Worker) : IsStack(s)
    /\ \A w \in Worker : pc[w] \notin OnStack => caller[w] = Null
    /\ pc[Main] \in {"user", "spawn"}

\* Between start and its return, the child is the next worker on the stack;
\* when start returns it has suspended or ended.
StartSound ==
    \A w \in Workers : Starting(w) =>
        /\ child[w] \in Worker
        /\ ~isAsync[child[w]]
        /\ request[child[w]] = IF pc[w] = "start" THEN w ELSE Null
        /\ pc[w] = "spawn" => ~handle[child[w]] /\ ~houtput[child[w]] /\ hwaiter[child[w]] = Null
        /\ IF current = w
             THEN pc[child[w]] \in Blocked \/ pc[child[w]] = "dead"
             ELSE pc[child[w]] \in OnStack /\ caller[child[w]] = w

\* A task that ended inside start is done, and no other.
DoneSound ==
    \A c \in Worker :
        /\ done[c] => pc[c] \in {"exit", "dead"}
        /\ ~isAsync[c] /\ pc[c] \in {"exit", "dead"} => done[c]

\* The worker that a pending task will resume is waiting for it.
Awaited ==
    /\ \A w \in Worker : pc[w] \in {"join", "await"} => child[w] \in Worker
    /\ \A c \in Worker : Pending(c) /\ isAsync[c] =>
         /\ request[c] # Null => pc[request[c]] = "await" /\ child[request[c]] = c
         /\ request[c] = Null /\ hwaiter[c] # Null =>
              pc[hwaiter[c]] = "join" /\ child[hwaiter[c]] = c

\* A join handle is of a task that is pending or has its output there.
HandleSound ==
    \A c \in Worker : handle[c] =>
        /\ hwaiter[c] = Null
        /\ ~houtput[c] => Pending(c) /\ isAsync[c] /\ request[c] = Null

Fresh ==
    \A c \in Worker : pc[c] = "free" =>
        /\ ~isAsync[c] /\ ~handle[c] /\ ~houtput[c]
        /\ request[c] = Null /\ hwaiter[c] = Null

\* An interrupt is delivered by user code to a pending task.
SignalSound == signal # Null => Pending(signal) /\ pc[current] = "user"

Spawner(c) == \E w \in Workers : pc[w] = "spawn" /\ child[w] = c
Joiner(c) == \E w \in Worker : pc[w] = "join" /\ child[w] = c /\ token[w]
Leaked(c) == isAsync[c] /\ request[c] = Null /\ pc[c] \notin {"exit", "dead"}

\* RcExact, with at most one reference of each kind.
RcSound ==
    \A c \in Worker :
        rc[c] = (IF Spawner(c) THEN 1 ELSE 0) + (IF handle[c] THEN 1 ELSE 0)
                + (IF Joiner(c) THEN 1 ELSE 0) + (IF Leaked(c) THEN 1 ELSE 0)

ExecInv ==
    /\ TypeOK /\ NoFault /\ StackSound /\ StartSound /\ DoneSound /\ JoinDelivers /\ Awaited
    /\ HandleSound /\ Fresh /\ SignalSound /\ RcSound

-----------------------------------------------------------------------------
(* The call stack *)

\* What the stack says of its workers: control is at its top, a worker would
\* suspend to one caller, and to no two.
LEMMA StackFacts ==
  ASSUME StackSound
  PROVE  /\ current \in Workers
         /\ \A w \in Worker : w = current => pc[w] \in OnStack
         /\ \A w \in Worker : pc[w] \in OnStack => caller[w] \in Workers /\ caller[w] # w /\ caller[w] # current
         /\ \A v, w \in Worker : pc[v] \in OnStack /\ pc[w] \in OnStack /\ caller[v] = caller[w] => v = w
<1>0. PICK s \in Seq(Worker) : IsStack(s)
  BY DEF StackSound
<1>1. /\ Len(s) \in Nat /\ \A i \in 1..Len(s) : s[i] \in Worker
      /\ \A i \in 1..Len(s) : i # 1 => i - 1 \in 1..Len(s) /\ i - 1 # i /\ i - 1 # Len(s)
      /\ Len(s) # 0 => Len(s) \in 1..Len(s)
  OBVIOUS
<1>2. /\ \A i, j \in 1..Len(s) : s[i] = s[j] => i = j
      /\ \A w \in Worker : pc[w] \in OnStack <=> \E i \in 1..Len(s) : s[i] = w
      /\ Len(s) = 0 => current = Main
      /\ Len(s) # 0 => current = s[Len(s)]
      /\ \A i \in 1..Len(s) : (i = 1 => caller[s[i]] = Main) /\ (i # 1 => caller[s[i]] = s[i - 1])
  BY <1>0 DEF IsStack
<1>3. Main \notin Worker
  BY NamesAssumption
<1>4. current \in Workers /\ \A w \in Worker : w = current => pc[w] \in OnStack
  BY <1>1, <1>2, <1>3 DEF Workers
<1>5. ASSUME NEW w \in Worker, pc[w] \in OnStack
      PROVE  caller[w] \in Workers /\ caller[w] # w /\ caller[w] # current
  <2>1. PICK i \in 1..Len(s) : s[i] = w
    BY <1>2, <1>5
  <2>2. Len(s) # 0 /\ current = s[Len(s)] /\ current \in Worker
    BY <1>1, <1>2, <2>1
  <2>3. CASE i = 1
    BY <1>2, <1>3, <2>1, <2>2, <2>3 DEF Workers
  <2>4. CASE i # 1
    BY <1>1, <1>2, <2>1, <2>2, <2>4 DEF Workers
  <2> QED
    BY <2>3, <2>4
<1>6. ASSUME NEW v \in Worker, NEW w \in Worker, pc[v] \in OnStack, pc[w] \in OnStack, caller[v] = caller[w]
      PROVE  v = w
  <2>1. PICK i \in 1..Len(s) : s[i] = v
    BY <1>2, <1>6
  <2>2. PICK j \in 1..Len(s) : s[j] = w
    BY <1>2, <1>6
  <2>3. CASE i = 1
    <3>1. j = 1
      BY <1>1, <1>2, <1>3, <1>6, <2>1, <2>2, <2>3
    <3> QED
      BY <2>1, <2>2, <2>3, <3>1
  <2>4. CASE i # 1
    <3>1. j # 1
      BY <1>1, <1>2, <1>3, <1>6, <2>1, <2>2, <2>4
    <3>2. i - 1 = j - 1
      BY <1>1, <1>2, <1>6, <2>1, <2>2, <2>4, <3>1
    <3>3. i = j
      BY <1>1, <3>2
    <3> QED
      BY <2>1, <2>2, <3>3
  <2> QED
    BY <2>3, <2>4
<1> QED
  BY <1>4, <1>5, <1>6

\* resume and start push the worker.
LEMMA Pushes ==
  ASSUME TypeOK, NEW s \in Seq(Worker), IsStack(s), NEW w \in Worker, pc[w] \notin OnStack,
         current' = w, caller' = [caller EXCEPT ![w] = current], pc'[w] \in OnStack,
         \A x \in Worker : x # w => (pc'[x] \in OnStack <=> pc[x] \in OnStack)
  PROVE  /\ Append(s, w) \in Seq(Worker) /\ IsStack(Append(s, w))'
         /\ \A i \in 1..Len(s) : s[i] # w
<1> DEFINE t == Append(s, w)
<1>1. /\ t \in Seq(Worker) /\ Len(s) \in Nat /\ Len(t) = Len(s) + 1
      /\ \A i \in 1..Len(s) : t[i] = s[i] /\ s[i] \in Worker
      /\ t[Len(s) + 1] = w
  OBVIOUS
<1>2. /\ \A i \in 1..Len(t) : i \in 1..Len(s) \/ i = Len(s) + 1
      /\ \A i \in 1..Len(s) : i \in 1..Len(t) /\ i # Len(s) + 1 /\ (i # 1 => i - 1 \in 1..Len(s))
      /\ Len(s) + 1 \in 1..Len(t)
  BY <1>1
<1> HIDE DEF t
<1>3. /\ \A i, j \in 1..Len(s) : s[i] = s[j] => i = j
      /\ \A x \in Worker : pc[x] \in OnStack <=> \E i \in 1..Len(s) : s[i] = x
      /\ Len(s) = 0 => current = Main
      /\ Len(s) # 0 => current = s[Len(s)]
      /\ \A i \in 1..Len(s) : (i = 1 => caller[s[i]] = Main) /\ (i # 1 => caller[s[i]] = s[i - 1])
  BY DEF IsStack
<1>4. \A i \in 1..Len(s) : s[i] # w
  BY <1>3
<1>5. \A i, j \in 1..Len(t) : t[i] = t[j] => i = j
  BY <1>1, <1>2, <1>3, <1>4
<1>6. \A x \in Worker : pc'[x] \in OnStack <=> \E i \in 1..Len(t) : t[i] = x
  <2> SUFFICES ASSUME NEW x \in Worker PROVE pc'[x] \in OnStack <=> \E i \in 1..Len(t) : t[i] = x
    OBVIOUS
  <2>1. CASE x = w
    BY <1>1, <1>2, <2>1
  <2>2. CASE x # w
    <3>1. (\E i \in 1..Len(t) : t[i] = x) <=> \E i \in 1..Len(s) : s[i] = x
      BY <1>1, <1>2, <2>2
    <3> QED
      BY <1>3, <2>2, <3>1
  <2> QED
    BY <2>1, <2>2
<1>7. current' = IF Len(t) = 0 THEN Main ELSE t[Len(t)]
  BY <1>1
<1>8. \A i \in 1..Len(t) : caller'[t[i]] = IF i = 1 THEN Main ELSE t[i - 1]
  <2> SUFFICES ASSUME NEW i \in 1..Len(t) PROVE caller'[t[i]] = IF i = 1 THEN Main ELSE t[i - 1]
    OBVIOUS
  <2>1. CASE i \in 1..Len(s)
    <3>1. caller'[t[i]] = caller[s[i]]
      BY <1>1, <1>4, <2>1 DEF TypeOK
    <3> QED
      BY <1>1, <1>2, <1>3, <2>1, <3>1
  <2>2. CASE i = Len(s) + 1
    <3>1. caller'[t[i]] = current
      BY <1>1, <2>2 DEF TypeOK
    <3>2. CASE Len(s) = 0
      BY <1>3, <2>2, <3>1, <3>2
    <3>3. CASE Len(s) # 0
      <4>1. i # 1 /\ i - 1 = Len(s) /\ Len(s) \in 1..Len(s)
        BY <1>1, <2>2, <3>3
      <4> QED
        BY <1>1, <1>3, <3>1, <3>3, <4>1
    <3> QED
      BY <3>2, <3>3
  <2> QED
    BY <1>2, <2>1, <2>2
<1>9. IsStack(t)'
  BY <1>5, <1>6, <1>7, <1>8 DEF IsStack
<1> QED
  BY <1>1, <1>4, <1>9 DEF t

\* suspend and exit pop the worker that has control.
LEMMA Pops ==
  ASSUME TypeOK, NEW s \in Seq(Worker), IsStack(s), NEW w \in Worker, current = w, pc[w] \in OnStack,
         current' = caller[w], caller' = [caller EXCEPT ![w] = Null], pc'[w] \notin OnStack,
         \A x \in Worker : x # w => (pc'[x] \in OnStack <=> pc[x] \in OnStack)
  PROVE  /\ Len(s) # 0 /\ s[Len(s)] = w
         /\ SubSeq(s, 1, Len(s) - 1) \in Seq(Worker) /\ IsStack(SubSeq(s, 1, Len(s) - 1))'
<1> DEFINE t == SubSeq(s, 1, Len(s) - 1)
<1>1. /\ \A i, j \in 1..Len(s) : s[i] = s[j] => i = j
      /\ \A x \in Worker : pc[x] \in OnStack <=> \E i \in 1..Len(s) : s[i] = x
      /\ Len(s) = 0 => current = Main
      /\ Len(s) # 0 => current = s[Len(s)]
      /\ \A i \in 1..Len(s) : (i = 1 => caller[s[i]] = Main) /\ (i # 1 => caller[s[i]] = s[i - 1])
  BY DEF IsStack
<1>2. Len(s) \in Nat /\ Len(s) # 0 /\ s[Len(s)] = w /\ \A i \in 1..Len(s) : s[i] \in Worker
  BY <1>1, NamesAssumption
<1>3. /\ t \in Seq(Worker) /\ Len(t) = Len(s) - 1
      /\ \A i \in 1..Len(t) : t[i] = s[i]
  <2>1. Len(s) - 1 \in 0..Len(s) /\ 1 \in 1..(Len(s) + 1) /\ 1 \in Int /\ Len(s) - 1 \in Int
    BY <1>2
  <2>2. /\ t \in Seq(Worker) /\ Len(t) = IF 1 <= Len(s) - 1 THEN Len(s) - 1 - 1 + 1 ELSE 0
        /\ \A i \in 1..(Len(s) - 1 - 1 + 1) : t[i] = s[1 + i - 1]
    BY <1>2, <2>1, SubSeqProperties
  <2>3. \A n \in Nat : n # 0 => (IF 1 <= n - 1 THEN n - 1 - 1 + 1 ELSE 0) = n - 1
    OBVIOUS
  <2>4. Len(t) = Len(s) - 1
    BY <1>2, <2>2, <2>3
  <2>5. \A i \in 1..Len(t) : t[i] = s[i]
    BY <1>2, <2>2, <2>4
  <2> QED
    BY <2>2, <2>4, <2>5
<1>4. /\ \A i \in 1..Len(t) : i \in 1..Len(s) /\ i # Len(s) /\ (i # 1 => i - 1 \in 1..Len(t))
      /\ \A i \in 1..Len(s) : i \in 1..Len(t) \/ i = Len(s)
      /\ Len(s) \in 1..Len(s)
      /\ Len(t) # 0 => Len(s) # 1 /\ Len(s) - 1 \in 1..Len(t)
  BY <1>2, <1>3
<1> HIDE DEF t
<1>5. \A i, j \in 1..Len(t) : t[i] = t[j] => i = j
  BY <1>1, <1>3, <1>4
<1>6. \A i \in 1..Len(t) : t[i] # w
  BY <1>1, <1>2, <1>3, <1>4
<1>7. \A x \in Worker : pc'[x] \in OnStack <=> \E i \in 1..Len(t) : t[i] = x
  <2> SUFFICES ASSUME NEW x \in Worker PROVE pc'[x] \in OnStack <=> \E i \in 1..Len(t) : t[i] = x
    OBVIOUS
  <2>1. CASE x = w
    BY <1>6, <2>1
  <2>2. CASE x # w
    <3>1. (\E i \in 1..Len(t) : t[i] = x) <=> \E i \in 1..Len(s) : s[i] = x
      BY <1>2, <1>3, <1>4, <2>2
    <3> QED
      BY <1>1, <2>2, <3>1
  <2> QED
    BY <2>1, <2>2
<1>8. current' = IF Len(t) = 0 THEN Main ELSE t[Len(t)]
  <2>1. CASE Len(t) = 0
    <3>1. Len(s) = 1
      BY <1>2, <1>3, <2>1
    <3> QED
      BY <1>1, <1>2, <1>4, <2>1, <3>1
  <2>2. CASE Len(t) # 0
    <3>1. caller[w] = s[Len(s) - 1]
      BY <1>1, <1>2, <1>4, <2>2
    <3> QED
      BY <1>3, <1>4, <2>2, <3>1
  <2> QED
    BY <2>1, <2>2
<1>9. \A i \in 1..Len(t) : caller'[t[i]] = IF i = 1 THEN Main ELSE t[i - 1]
  <2> SUFFICES ASSUME NEW i \in 1..Len(t) PROVE caller'[t[i]] = IF i = 1 THEN Main ELSE t[i - 1]
    OBVIOUS
  <2>1. caller'[t[i]] = caller[s[i]]
    BY <1>2, <1>3, <1>4, <1>6 DEF TypeOK
  <2> QED
    BY <1>1, <1>3, <1>4, <2>1
<1>10. IsStack(t)'
  BY <1>5, <1>7, <1>8, <1>9 DEF IsStack
<1> QED
  BY <1>2, <1>3, <1>10 DEF t

\* Any other step leaves the stack as it is.
LEMMA Stays ==
  ASSUME NEW s \in Seq(Worker), IsStack(s), UNCHANGED <<current, caller>>,
         \A x \in Worker : pc'[x] \in OnStack <=> pc[x] \in OnStack
  PROVE  IsStack(s)'
  BY DEF IsStack

-----------------------------------------------------------------------------
(* Steps, as far as control goes *)

\* What StartSound says of a worker's child besides where it is.
Unclaimed(y) == UNCHANGED <<isAsync[y], request[y], handle[y], houtput[y], hwaiter[y]>>

\* A step that gives control to w: whoever was starting a child still has it
\* above itself.
LEMMA PushKeeps ==
  ASSUME TypeOK, StackSound, StartSound, NEW w \in Worker, pc[w] \notin OnStack,
         current' = w, caller' = [caller EXCEPT ![w] = current], pc'[w] = "user",
         \A x \in Worker : x # w => (pc'[x] \in OnStack <=> pc[x] \in OnStack),
         pc'[Main] \in {"user", "spawn"},
         \A x \in Workers : Starting(x)' =>
            \/ Starting(x) /\ x # current /\ pc'[x] = pc[x] /\ child'[x] = child[x]
            \/ /\ x = current /\ child'[x] = w /\ ~isAsync'[w]
               /\ request'[w] = IF pc'[x] = "start" THEN x ELSE Null
               /\ ~handle'[w] /\ ~houtput'[w] /\ hwaiter'[w] = Null,
         \A y \in Worker : y # w => Unclaimed(y)
  PROVE  StackSound' /\ StartSound'
<1>1. /\ \A x \in Worker : x # w => caller'[x] = caller[x]
      /\ caller'[w] = current
  BY DEF TypeOK
<1>2. StackSound'
  <2>1. PICK s \in Seq(Worker) : IsStack(s)
    BY DEF StackSound
  <2>2. Append(s, w) \in Seq(Worker) /\ IsStack(Append(s, w))'
    BY <2>1, Pushes DEF OnStack
  <2> QED
    BY <1>1, <2>2 DEF StackSound, OnStack
<1>3. current # w /\ w \in Workers /\ w # Main
  BY StackFacts, NamesAssumption DEF Workers
<1>4. ASSUME NEW x \in Workers, Starting(x)', Starting(x), x # current, pc'[x] = pc[x], child'[x] = child[x]
      PROVE  /\ child'[x] \in Worker /\ ~isAsync'[child'[x]]
             /\ request'[child'[x]] = IF pc'[x] = "start" THEN x ELSE Null
             /\ pc'[x] = "spawn" => ~handle'[child'[x]] /\ ~houtput'[child'[x]] /\ hwaiter'[child'[x]] = Null
             /\ IF current' = x
                  THEN pc'[child'[x]] \in Blocked \/ pc'[child'[x]] = "dead"
                  ELSE pc'[child'[x]] \in OnStack /\ caller'[child'[x]] = x
  <2>1. /\ child[x] \in Worker /\ ~isAsync[child[x]] /\ request[child[x]] = IF pc[x] = "start" THEN x ELSE Null
        /\ pc[x] = "spawn" => ~handle[child[x]] /\ ~houtput[child[x]] /\ hwaiter[child[x]] = Null
        /\ pc[child[x]] \in OnStack /\ caller[child[x]] = x
    BY <1>4 DEF StartSound
  <2>2. child[x] # w /\ x # w
    BY <1>4, <2>1 DEF Starting, OnStack
  <2>3. /\ isAsync'[child[x]] = isAsync[child[x]] /\ request'[child[x]] = request[child[x]]
        /\ handle'[child[x]] = handle[child[x]] /\ houtput'[child[x]] = houtput[child[x]]
        /\ hwaiter'[child[x]] = hwaiter[child[x]]
    BY <2>1, <2>2 DEF Unclaimed
  <2>4. pc'[child[x]] \in OnStack /\ caller'[child[x]] = x /\ current' # x
    BY <1>1, <2>1, <2>2
  <2> QED
    BY <1>4, <2>1, <2>3, <2>4
<1>5. StartSound'
  <2> SUFFICES ASSUME NEW x \in Workers, Starting(x)'
               PROVE  /\ child'[x] \in Worker /\ ~isAsync'[child'[x]]
                      /\ request'[child'[x]] = IF pc'[x] = "start" THEN x ELSE Null
                      /\ pc'[x] = "spawn" =>
                           ~handle'[child'[x]] /\ ~houtput'[child'[x]] /\ hwaiter'[child'[x]] = Null
                      /\ IF current' = x
                           THEN pc'[child'[x]] \in Blocked \/ pc'[child'[x]] = "dead"
                           ELSE pc'[child'[x]] \in OnStack /\ caller'[child'[x]] = x
    BY DEF StartSound
  <2>1. CASE x = current
    <3>1. /\ child'[x] = w /\ ~isAsync'[w] /\ request'[w] = IF pc'[x] = "start" THEN x ELSE Null
          /\ ~handle'[w] /\ ~houtput'[w] /\ hwaiter'[w] = Null
      BY <2>1
    <3> QED
      BY <1>1, <1>3, <2>1, <3>1 DEF OnStack
  <2>2. CASE x # current
    BY <1>4, <2>2
  <2> QED
    BY <2>1, <2>2
<1> QED
  BY <1>2, <1>5

\* A step that takes control from w: if its caller was starting w, start returns.
LEMMA PopKeeps ==
  ASSUME TypeOK, StackSound, StartSound, NEW w \in Worker, current = w,
         current' = caller[w], caller' = [caller EXCEPT ![w] = Null],
         pc'[w] \in Blocked \cup {"dead"},
         \A x \in Workers : x # w => pc'[x] = pc[x] /\ child'[x] = child[x],
         \A x \in Workers : x # w /\ Starting(x) => Unclaimed(child[x])
  PROVE  StackSound' /\ StartSound'
<1>1. /\ \A x \in Worker : x # w => caller'[x] = caller[x]
      /\ caller'[w] = Null
  BY DEF TypeOK
<1>2. /\ pc[w] \in OnStack /\ pc'[w] \notin OnStack /\ caller[w] # w
      /\ w # Main /\ w \in Workers /\ Main \in Workers
      /\ \A v \in Worker : pc[v] \in OnStack /\ caller[v] = caller[w] => v = w
  BY StackFacts, NamesAssumption DEF Workers, Blocked, OnStack
<1>3. StackSound'
  <2>1. PICK s \in Seq(Worker) : IsStack(s)
    BY DEF StackSound
  <2>2. \A x \in Worker : x # w => (pc'[x] \in OnStack <=> pc[x] \in OnStack)
    BY DEF Workers
  <2>3. SubSeq(s, 1, Len(s) - 1) \in Seq(Worker) /\ IsStack(SubSeq(s, 1, Len(s) - 1))'
    BY <1>2, <2>1, <2>2, Pops
  <2>4. pc'[Main] = pc[Main]
    BY <1>2
  <2> QED
    BY <1>1, <2>2, <2>3, <2>4 DEF StackSound
<1>4. StartSound'
  <2> SUFFICES ASSUME NEW x \in Workers, Starting(x)'
               PROVE  /\ child'[x] \in Worker /\ ~isAsync'[child'[x]]
                      /\ request'[child'[x]] = IF pc'[x] = "start" THEN x ELSE Null
                      /\ pc'[x] = "spawn" =>
                           ~handle'[child'[x]] /\ ~houtput'[child'[x]] /\ hwaiter'[child'[x]] = Null
                      /\ IF current' = x
                           THEN pc'[child'[x]] \in Blocked \/ pc'[child'[x]] = "dead"
                           ELSE pc'[child'[x]] \in OnStack /\ caller'[child'[x]] = x
    BY DEF StartSound
  <2>1. x # w /\ Starting(x) /\ pc'[x] = pc[x] /\ child'[x] = child[x]
    BY <1>2 DEF Starting, OnStack
  <2>2. /\ child[x] \in Worker /\ ~isAsync[child[x]] /\ request[child[x]] = IF pc[x] = "start" THEN x ELSE Null
        /\ pc[x] = "spawn" => ~handle[child[x]] /\ ~houtput[child[x]] /\ hwaiter[child[x]] = Null
        /\ pc[child[x]] \in OnStack /\ caller[child[x]] = x
    BY <2>1 DEF StartSound
  <2>3. /\ isAsync'[child[x]] = isAsync[child[x]] /\ request'[child[x]] = request[child[x]]
        /\ handle'[child[x]] = handle[child[x]] /\ houtput'[child[x]] = houtput[child[x]]
        /\ hwaiter'[child[x]] = hwaiter[child[x]]
    BY <2>1 DEF Unclaimed
  <2>4. CASE x = caller[w]
    <3>1. child[x] = w
      BY <1>2, <2>2, <2>4
    <3> QED
      BY <2>1, <2>2, <2>3, <2>4, <3>1
  <2>5. CASE x # caller[w]
    <3>1. child[x] # w /\ current' # x
      BY <2>2, <2>5
    <3>2. pc'[child[x]] = pc[child[x]] /\ caller'[child[x]] = x
      BY <1>1, <2>2, <3>1 DEF Workers
    <3> QED
      BY <2>1, <2>2, <2>3, <3>1, <3>2
  <2> QED
    BY <2>4, <2>5
<1> QED
  BY <1>3, <1>4

\* A step that leaves control where it is.
LEMMA StayKeeps ==
  ASSUME TypeOK, StackSound, StartSound, UNCHANGED <<current, caller>>,
         \A x \in Worker : /\ pc'[x] \in OnStack <=> pc[x] \in OnStack
                           /\ pc[x] \notin OnStack => pc'[x] = pc[x],
         pc'[Main] \in {"user", "spawn"},
         \A x \in Workers : Starting(x)' =>
            /\ Starting(x) /\ pc'[x] = pc[x] /\ child'[x] = child[x]
            /\ UNCHANGED <<isAsync[child[x]], request[child[x]], hwaiter[child[x]]>>
            /\ pc[x] = "spawn" =>
                 (handle'[child[x]] => handle[child[x]]) /\ (houtput'[child[x]] => houtput[child[x]])
  PROVE  StackSound' /\ StartSound'
<1>1. StackSound'
  <2>1. PICK s \in Seq(Worker) : IsStack(s)
    BY DEF StackSound
  <2>2. IsStack(s)'
    BY <2>1, Stays
  <2> QED
    BY <2>2 DEF StackSound
<1>2. StartSound'
  <2> SUFFICES ASSUME NEW x \in Workers, Starting(x)'
               PROVE  /\ child'[x] \in Worker /\ ~isAsync'[child'[x]]
                      /\ request'[child'[x]] = IF pc'[x] = "start" THEN x ELSE Null
                      /\ pc'[x] = "spawn" =>
                           ~handle'[child'[x]] /\ ~houtput'[child'[x]] /\ hwaiter'[child'[x]] = Null
                      /\ IF current' = x
                           THEN pc'[child'[x]] \in Blocked \/ pc'[child'[x]] = "dead"
                           ELSE pc'[child'[x]] \in OnStack /\ caller'[child'[x]] = x
    BY DEF StartSound
  <2>1. /\ child[x] \in Worker /\ ~isAsync[child[x]] /\ request[child[x]] = IF pc[x] = "start" THEN x ELSE Null
        /\ pc[x] = "spawn" => ~handle[child[x]] /\ ~houtput[child[x]] /\ hwaiter[child[x]] = Null
        /\ IF current = x THEN pc[child[x]] \in Blocked \/ pc[child[x]] = "dead"
                          ELSE pc[child[x]] \in OnStack /\ caller[child[x]] = x
    BY DEF StartSound
  <2>2. /\ pc[child[x]] \in Blocked \/ pc[child[x]] = "dead" => pc'[child[x]] = pc[child[x]]
        /\ pc[child[x]] \in OnStack => pc'[child[x]] \in OnStack
    BY <2>1 DEF Blocked, OnStack
  <2> QED
    BY <2>1, <2>2
<1> QED
  BY <1>1, <1>2

-----------------------------------------------------------------------------
(* Steps that move no worker *)

\* Using up a handle or an output, or interrupting, disturbs no worker.
LEMMA QuietKeeps ==
  ASSUME ExecInv, UNCHANGED <<current, caller, pc, child, svars, hwaiter>>,
         \A y \in Worker : /\ handle'[y] => handle[y]
                           /\ houtput'[y] => houtput[y]
                           /\ handle'[y] => houtput'[y] = houtput[y]
  PROVE  /\ StackSound' /\ StartSound' /\ DoneSound' /\ JoinDelivers' /\ Awaited'
         /\ HandleSound' /\ Fresh'
         /\ \A y \in Worker : (Spawner(y)' <=> Spawner(y)) /\ (Leaked(y)' <=> Leaked(y))
<1>0. /\ TypeOK /\ StackSound /\ StartSound /\ DoneSound /\ JoinDelivers /\ Awaited
      /\ HandleSound /\ Fresh
  BY DEF ExecInv
<1>1. /\ current' = current /\ caller' = caller /\ pc' = pc /\ child' = child
      /\ isAsync' = isAsync /\ done' = done /\ request' = request /\ hwaiter' = hwaiter
  BY DEF svars
<1>2. StackSound' /\ StartSound'
  <2>1. pc'[Main] \in {"user", "spawn"}
    BY <1>0, <1>1 DEF StackSound
  <2>2. ASSUME NEW x \in Workers, Starting(x)'
        PROVE  /\ Starting(x) /\ pc'[x] = pc[x] /\ child'[x] = child[x]
               /\ UNCHANGED <<isAsync[child[x]], request[child[x]], hwaiter[child[x]]>>
               /\ pc[x] = "spawn" =>
                    (handle'[child[x]] => handle[child[x]]) /\ (houtput'[child[x]] => houtput[child[x]])
    <3>1. Starting(x)
      BY <1>1, <2>2 DEF Starting
    <3>2. child[x] \in Worker
      BY <1>0, <3>1 DEF StartSound
    <3> QED
      BY <1>1, <3>1, <3>2
  <2> QED
    BY <1>0, <1>1, <2>1, <2>2, StayKeeps
<1>3. DoneSound'
  BY <1>0, <1>1 DEF DoneSound
<1>4. JoinDelivers'
  BY <1>0, <1>1 DEF JoinDelivers
<1>5. Awaited'
  BY <1>0, <1>1 DEF Awaited, Pending
<1>6. HandleSound'
  BY <1>0, <1>1 DEF HandleSound, Pending
<1>7. Fresh'
  BY <1>0, <1>1 DEF Fresh
<1>8. \A y \in Worker : (Spawner(y)' <=> Spawner(y)) /\ (Leaked(y)' <=> Leaked(y))
  BY <1>1 DEF Spawner, Leaked
<1> QED
  BY <1>2, <1>3, <1>4, <1>5, <1>6, <1>7, <1>8

\* At most one worker waits in the join of a task.
LEMMA OneJoiner ==
  ASSUME JoinDelivers, NEW v \in Worker, NEW w \in Worker, pc[v] = "join", pc[w] = "join",
         child[v] = child[w]
  PROVE  v = w
  BY DEF JoinDelivers

\* try_join of a finished task, and dropping a handle.
LEMMA ReleaseInv ==
  ASSUME ExecInv, NEW w \in Workers, NEW c \in Worker, JoinDone(w, c) \/ DropHandle(w, c)
  PROVE  ExecInv'
<1>0. TypeOK /\ NoFault /\ SignalSound /\ RcSound
  BY DEF ExecInv
<1>1. /\ handle[c] /\ houtput' = [houtput EXCEPT ![c] = FALSE] /\ handle' = [handle EXCEPT ![c] = FALSE]
      /\ rc' = [rc EXCEPT ![c] = @ - 1]
      /\ UNCHANGED <<current, caller, pc, child, svars, hcancel, hwaiter, ivars, token, signal, fault>>
  BY DEF JoinDone, DropHandle
<1>2. /\ ~handle'[c] /\ ~houtput'[c] /\ rc'[c] = rc[c] - 1
      /\ \A y \in Worker : y # c => handle'[y] = handle[y] /\ houtput'[y] = houtput[y] /\ rc'[y] = rc[y]
  BY <1>0, <1>1 DEF TypeOK
<1>3. /\ StackSound' /\ StartSound' /\ DoneSound' /\ JoinDelivers' /\ Awaited' /\ HandleSound' /\ Fresh'
      /\ \A y \in Worker : (Spawner(y)' <=> Spawner(y)) /\ (Leaked(y)' <=> Leaked(y))
  BY <1>1, <1>2, QuietKeeps
<1>4. \A y \in Worker : Joiner(y)' <=> Joiner(y)
  BY <1>1 DEF Joiner
<1>5. RcSound'
  BY <1>0, <1>1, <1>2, <1>3, <1>4 DEF RcSound
<1>6. rc[c] - 1 \in Nat
  BY <1>0, <1>1 DEF RcSound
<1>7. TypeOK'
  BY <1>0, <1>1, <1>6 DEF TypeOK, svars, ivars
<1>8. NoFault' /\ SignalSound'
  BY <1>0, <1>1 DEF NoFault, SignalSound, Pending
<1> QED
  BY <1>3, <1>5, <1>7, <1>8 DEF ExecInv

\* A step that moves no worker and touches no handle keeps the invariant if it
\* keeps the references of joins and signals a pending task.
LEMMA CalmKeeps ==
  ASSUME ExecInv, UNCHANGED <<current, caller, pc, child, svars, hwaiter, handle, houtput, fault>>,
         TypeOK', SignalSound',
         \A y \in Worker :
            rc'[y] + (IF Joiner(y) THEN 1 ELSE 0) = rc[y] + (IF Joiner(y)' THEN 1 ELSE 0)
  PROVE  ExecInv'
<1>0. TypeOK /\ NoFault /\ RcSound
  BY DEF ExecInv
<1>1. \A y \in Worker : /\ handle'[y] => handle[y]
                        /\ houtput'[y] => houtput[y]
                        /\ handle'[y] => houtput'[y] = houtput[y]
  OBVIOUS
<1>2. /\ StackSound' /\ StartSound' /\ DoneSound' /\ JoinDelivers' /\ Awaited' /\ HandleSound' /\ Fresh'
      /\ \A y \in Worker : (Spawner(y)' <=> Spawner(y)) /\ (Leaked(y)' <=> Leaked(y))
  BY <1>1, QuietKeeps
<1>3. RcSound'
  <2> SUFFICES ASSUME NEW y \in Worker
               PROVE  rc'[y] = (IF Spawner(y)' THEN 1 ELSE 0) + (IF handle'[y] THEN 1 ELSE 0)
                               + (IF Joiner(y)' THEN 1 ELSE 0) + (IF Leaked(y)' THEN 1 ELSE 0)
    BY DEF RcSound
  <2>1. rc[y] = (IF Spawner(y) THEN 1 ELSE 0) + (IF handle[y] THEN 1 ELSE 0)
                + (IF Joiner(y) THEN 1 ELSE 0) + (IF Leaked(y) THEN 1 ELSE 0)
    BY <1>0 DEF RcSound
  <2>2. rc[y] \in Nat /\ rc'[y] \in Nat
    BY <1>0 DEF TypeOK
  <2> QED
    BY <1>2, <2>1, <2>2
<1>4. NoFault'
  BY <1>0 DEF NoFault
<1> QED
  BY <1>2, <1>3, <1>4 DEF ExecInv

\* request_cancel.
LEMMA RequestCancelInv ==
  ASSUME ExecInv, NEW w \in Workers, NEW c \in Worker, RequestCancel(w, c)
  PROVE  ExecInv'
<1>0. TypeOK /\ HandleSound
  BY DEF ExecInv
<1>1. /\ current = w /\ pc[w] = "user" /\ handle[c] /\ ~houtput[c]
      /\ hcancel' = [hcancel EXCEPT ![c] = FALSE] /\ signal' = c
      /\ UNCHANGED <<current, caller, pc, child, svars, houtput, hwaiter, handle, rc, ivars, token, fault>>
  BY DEF RequestCancel, Running, At
<1>2. TypeOK'
  BY <1>0, <1>1 DEF TypeOK, svars, ivars
<1>3. SignalSound'
  BY <1>0, <1>1 DEF SignalSound, HandleSound, Pending
<1>4. \A y \in Worker : (Joiner(y)' <=> Joiner(y)) /\ rc'[y] = rc[y]
  BY <1>1 DEF Joiner
<1> QED
  BY <1>1, <1>2, <1>3, <1>4, CalmKeeps

\* InterruptGuard::new and drop, and clear_interrupt.
LEMMA GuardInv ==
  ASSUME ExecInv, NEW w \in Worker, GuardNew(w) \/ GuardDrop(w) \/ ClearInterrupt(w)
  PROVE  ExecInv'
<1>0. TypeOK /\ SignalSound
  BY DEF ExecInv
<1>1. UNCHANGED <<current, caller, pc, child, svars, hvars, token, signal, fault>>
  BY DEF GuardNew, GuardDrop, ClearInterrupt
<1>2. guards' \in [Worker -> 0..MaxGuards] /\ interrupted' \in [Worker -> BOOLEAN]
  <2>0. guards[w] \in 0..MaxGuards /\ MaxGuards \in Nat
    BY <1>0, GuardsAssumption DEF TypeOK
  <2>1. CASE GuardNew(w)
    <3>1. guards[w] + 1 \in 0..MaxGuards
      BY <2>0, <2>1 DEF GuardNew
    <3> QED
      BY <1>0, <2>1, <3>1 DEF GuardNew, TypeOK
  <2>2. CASE GuardDrop(w)
    <3>1. guards[w] - 1 \in 0..MaxGuards
      BY <2>0, <2>2 DEF GuardDrop
    <3> QED
      BY <1>0, <2>2, <3>1 DEF GuardDrop, TypeOK
  <2>3. CASE ClearInterrupt(w)
    BY <1>0, <2>3 DEF ClearInterrupt, TypeOK
  <2> QED
    BY <2>1, <2>2, <2>3
<1>3. TypeOK'
  BY <1>0, <1>1, <1>2 DEF TypeOK, svars, hvars
<1>4. SignalSound'
  BY <1>0, <1>1 DEF SignalSound, Pending
<1>5. \A y \in Worker : (Joiner(y)' <=> Joiner(y)) /\ rc'[y] = rc[y]
  BY <1>1 DEF Joiner, hvars
<1>6. UNCHANGED <<current, caller, pc, child, svars, hwaiter, handle, houtput, fault>>
  BY <1>1 DEF hvars
<1> QED
  BY <1>3, <1>4, <1>5, <1>6, CalmKeeps

\* An interrupt that only sets the flag finds its context alive.
LEMMA InterruptFlagInv ==
  ASSUME ExecInv, InterruptFlag
  PROVE  ExecInv'
<1>0. TypeOK /\ SignalSound /\ NoFault
  BY DEF ExecInv
<1>1. /\ signal # Null /\ interrupted' = [interrupted EXCEPT ![signal] = TRUE] /\ signal' = Null
      /\ Check(~Dead(signal), "dangling context")
      /\ UNCHANGED <<current, caller, pc, child, svars, hvars, guards, token>>
  BY DEF InterruptFlag
<1>2. signal \in Worker /\ ~Dead(signal)
  BY <1>0, <1>1 DEF TypeOK, SignalSound, Pending, Dead
<1>3. fault' = fault
  BY <1>1, <1>2 DEF Check
<1>4. TypeOK'
  BY <1>0, <1>1, <1>2, <1>3 DEF TypeOK, svars, hvars
<1>5. SignalSound'
  BY <1>1 DEF SignalSound
<1>6. \A y \in Worker : (Joiner(y)' <=> Joiner(y)) /\ rc'[y] = rc[y]
  BY <1>1 DEF Joiner, hvars
<1>7. UNCHANGED <<current, caller, pc, child, svars, hwaiter, handle, houtput, fault>>
  BY <1>1, <1>3 DEF hvars
<1> QED
  BY <1>4, <1>5, <1>6, <1>7, CalmKeeps

\* The canceller of an event that leaves the completion to the event loop, and
\* that of a spawn_task future, which interrupts the child.
LEMMA InterruptPassInv ==
  ASSUME ExecInv, InterruptEvent(FALSE) \/ InterruptAwait
  PROVE  ExecInv'
<1>0. TypeOK /\ SignalSound /\ NoFault /\ JoinDelivers /\ Awaited
  BY DEF ExecInv
<1>1. /\ signal # Null /\ interrupted' = [interrupted EXCEPT ![signal] = TRUE]
      /\ token' = [token EXCEPT ![signal] = FALSE]
      /\ pc[signal] \in {"event", "await"}
      /\ signal' = Null \/ (pc[signal] = "await" /\ signal' = child[signal])
      /\ UNCHANGED <<current, caller, pc, child, svars, hvars, guards, fault>>
  BY DEF InterruptEvent, InterruptAwait
<1>2. signal \in Worker
  BY <1>0, <1>1 DEF TypeOK
<1>3. \A y \in Worker : y # signal => token'[y] = token[y]
  BY <1>0, <1>1, <1>2 DEF TypeOK
<1>4. /\ signal' \in Worker \cup {Null}
      /\ signal' # Null => Pending(signal')
  <2>1. CASE signal' = Null
    BY <2>1
  <2>2. CASE pc[signal] = "await" /\ signal' = child[signal]
    <3>1. child[signal] \in Worker
      BY <1>0, <1>2, <2>2 DEF Awaited
    <3>2. pc[child[signal]] \in (OnStack \cup Blocked) \ {"exit"}
      BY <1>0, <1>2, <2>2 DEF JoinDelivers
    <3> QED
      BY <2>2, <3>1, <3>2 DEF Pending, OnStack, Blocked
  <2> QED
    BY <1>1, <2>1, <2>2
<1>5. TypeOK'
  BY <1>0, <1>1, <1>2, <1>4 DEF TypeOK, svars, hvars
<1>6. SignalSound'
  BY <1>0, <1>1, <1>4 DEF SignalSound, Pending
<1>7. \A y \in Worker : (Joiner(y)' <=> Joiner(y)) /\ rc'[y] = rc[y]
  BY <1>1, <1>3 DEF Joiner, hvars
<1>8. UNCHANGED <<current, caller, pc, child, svars, hwaiter, handle, houtput, fault>>
  BY <1>1 DEF hvars
<1> QED
  BY <1>5, <1>6, <1>7, <1>8, CalmKeeps

\* The canceller of a join consumes the handle it holds, and interrupts the task
\* unless that was done before.
LEMMA InterruptJoinInv ==
  ASSUME ExecInv, InterruptJoin
  PROVE  ExecInv'
<1>0. TypeOK /\ SignalSound /\ NoFault /\ JoinDelivers /\ Awaited /\ RcSound
  BY DEF ExecInv
<1>1. /\ signal # Null /\ token[signal] /\ pc[signal] = "join"
      /\ interrupted' = [interrupted EXCEPT ![signal] = TRUE]
      /\ token' = [token EXCEPT ![signal] = FALSE]
      /\ rc' = [rc EXCEPT ![child[signal]] = @ - 1]
      /\ hcancel' = [hcancel EXCEPT ![child[signal]] = FALSE]
      /\ signal' = Null \/ signal' = child[signal]
      /\ UNCHANGED <<current, caller, pc, child, svars, houtput, hwaiter, handle, guards, fault>>
  BY DEF InterruptJoin
<1>2. signal \in Worker
  BY <1>0, <1>1 DEF TypeOK
<1>3. PICK c \in Worker : c = child[signal]
  BY <1>0, <1>1, <1>2 DEF Awaited
<1>4. /\ \A y \in Worker : y # signal => token'[y] = token[y]
      /\ ~token'[signal]
      /\ \A y \in Worker : y # c => rc'[y] = rc[y]
      /\ rc'[c] = rc[c] - 1
  BY <1>0, <1>1, <1>2, <1>3 DEF TypeOK
<1>5. Joiner(c) /\ ~Joiner(c)'
  <2>1. \A v \in Worker : pc[v] = "join" /\ child[v] = child[signal] => v = signal
    BY <1>0, <1>1, <1>2, OneJoiner
  <2> QED
    BY <1>1, <1>2, <1>3, <1>4, <2>1 DEF Joiner
<1>6. \A y \in Worker : y # c => (Joiner(y)' <=> Joiner(y))
  BY <1>1, <1>3, <1>4 DEF Joiner
<1>7. rc[c] - 1 \in Nat
  BY <1>0, <1>3, <1>5 DEF RcSound
<1>8. TypeOK'
  BY <1>0, <1>1, <1>2, <1>3, <1>7 DEF TypeOK, svars
<1>9. SignalSound'
  <2>1. pc[child[signal]] \in (OnStack \cup Blocked) \ {"exit"}
    BY <1>0, <1>1, <1>2 DEF JoinDelivers
  <2> QED
    BY <1>0, <1>1, <2>1 DEF SignalSound, Pending, OnStack, Blocked
<1>10. ASSUME NEW y \in Worker
       PROVE  rc'[y] + (IF Joiner(y) THEN 1 ELSE 0) = rc[y] + (IF Joiner(y)' THEN 1 ELSE 0)
  <2>0. rc[y] \in Nat
    BY <1>0 DEF TypeOK
  <2>1. CASE y = c
    BY <1>4, <1>5, <2>0, <2>1
  <2>2. CASE y # c
    BY <1>4, <1>6, <2>0, <2>2
  <2> QED
    BY <2>1, <2>2
<1> QED
  BY <1>1, <1>8, <1>9, <1>10, CalmKeeps

-----------------------------------------------------------------------------
(* Steps that resume a worker *)

\* Spawn::run and block_on(spawn_task(..)) up to the child's first step.
LEMMA StartInv ==
  ASSUME ExecInv, NEW w \in Workers, NEW c \in Worker, Spawn(w, c) \/ (w \in Worker /\ SpawnAwait(w, c))
  PROVE  ExecInv'
<1>0. /\ TypeOK /\ NoFault /\ StackSound /\ StartSound /\ DoneSound /\ JoinDelivers /\ Awaited
      /\ HandleSound /\ Fresh /\ SignalSound /\ RcSound
  BY DEF ExecInv
<1>1. /\ current = w /\ pc[w] = "user" /\ signal = Null /\ pc[c] = "free"
      /\ child' = [child EXCEPT ![w] = c] /\ Resume(c)
      /\ UNCHANGED <<isAsync, done, hcancel, houtput, hwaiter, handle, ivars, token, signal>>
  BY DEF Spawn, SpawnAwait, Running, At, StartChild, svars, hvars
<1>2. w # c /\ w \in Workers /\ c \in Workers /\ c # Main /\ Main \notin Worker /\ Worker \subseteq Workers
  BY <1>1, NamesAssumption DEF Workers
<1>3. /\ ~isAsync[c] /\ ~handle[c] /\ ~houtput[c] /\ request[c] = Null /\ hwaiter[c] = Null
      /\ caller[c] = Null
  BY <1>0, <1>1 DEF Fresh, StackSound, OnStack
<1>4. /\ fault' = fault /\ current' = c /\ caller' = [caller EXCEPT ![c] = current]
  BY <1>1, <1>3 DEF Resume, Check
<1>5. /\ pc'[c] = "user" /\ \A x \in Workers : x # c /\ x # w => pc'[x] = pc[x]
      /\ child'[w] = c /\ \A x \in Workers : x # w => child'[x] = child[x]
      /\ \A y \in Worker : y # c => request'[y] = request[y]
      /\ \/ /\ pc'[w] = "spawn" /\ request' = request /\ rc' = [rc EXCEPT ![c] = 1]
         \/ /\ pc'[w] = "start" /\ request'[c] = w /\ w \in Worker /\ rc' = rc
  <2>1. CASE Spawn(w, c)
    BY <1>0, <1>1, <1>2, <2>1 DEF Spawn, TypeOK, svars
  <2>2. CASE w \in Worker /\ SpawnAwait(w, c)
    BY <1>0, <1>1, <1>2, <2>2 DEF SpawnAwait, TypeOK, hvars
  <2> QED
    BY <2>1, <2>2
<1>6. TypeOK'
  <2>1. CASE Spawn(w, c)
    BY <1>0, <1>1, <1>2, <1>4, <2>1 DEF Spawn, TypeOK, svars, ivars, OnStack
  <2>2. CASE w \in Worker /\ SpawnAwait(w, c)
    BY <1>0, <1>1, <1>2, <1>4, <2>2 DEF SpawnAwait, TypeOK, hvars, ivars, OnStack
  <2> QED
    BY <2>1, <2>2
<1>7. StackSound' /\ StartSound'
  <2>1. \A x \in Worker : x # c => (pc'[x] \in OnStack <=> pc[x] \in OnStack)
    BY <1>1, <1>2, <1>5 DEF OnStack
  <2>2. pc'[Main] \in {"user", "spawn"}
    BY <1>0, <1>2, <1>5 DEF StackSound, Workers
  <2>3. ASSUME NEW x \in Workers, Starting(x)'
        PROVE  \/ Starting(x) /\ x # current /\ pc'[x] = pc[x] /\ child'[x] = child[x]
               \/ /\ x = current /\ child'[x] = c /\ ~isAsync'[c]
                  /\ request'[c] = IF pc'[x] = "start" THEN x ELSE Null
                  /\ ~handle'[c] /\ ~houtput'[c] /\ hwaiter'[c] = Null
    <3>1. CASE x = w
      BY <1>1, <1>3, <1>5, <3>1
    <3>2. CASE x # w
      BY <1>1, <1>5, <2>3, <3>2 DEF Starting
    <3> QED
      BY <3>1, <3>2
  <2>4. \A y \in Worker : y # c => Unclaimed(y)
    BY <1>1, <1>5 DEF Unclaimed
  <2>5. pc[c] \notin OnStack /\ pc'[c] = "user"
    BY <1>1, <1>5 DEF OnStack
  <2> QED
    BY <1>0, <1>4, <2>1, <2>2, <2>3, <2>4, <2>5, PushKeeps
<1>8. DoneSound'
  BY <1>0, <1>1, <1>2, <1>5 DEF DoneSound
<1>9. \A v \in Worker : pc'[v] \in {"join", "await"} =>
        /\ v # w /\ v # c /\ pc'[v] = pc[v] /\ child'[v] = child[v] /\ child[v] # c /\ child[v] \in Worker
  BY <1>0, <1>1, <1>2, <1>5 DEF JoinDelivers, Awaited, OnStack, Blocked
<1>10. JoinDelivers'
  BY <1>0, <1>1, <1>2, <1>5, <1>9 DEF JoinDelivers, OnStack
<1>11. Awaited'
  <2>1. \A y \in Worker : Pending(y)' /\ isAsync'[y] =>
          y # c /\ Pending(y) /\ isAsync[y] /\ request'[y] = request[y] /\ hwaiter'[y] = hwaiter[y]
    BY <1>1, <1>2, <1>3, <1>5 DEF Pending
  <2>2. \A y \in Worker : pc[y] \in {"join", "await"} => pc'[y] = pc[y] /\ child'[y] = child[y]
    BY <1>1, <1>2, <1>5
  <2>3. \A y \in Worker : /\ request[y] # Null => request[y] \in Worker
                          /\ hwaiter[y] # Null => hwaiter[y] \in Worker
    BY <1>0 DEF TypeOK
  <2> QED
    BY <1>0, <1>9, <2>1, <2>2, <2>3 DEF Awaited
<1>12. HandleSound'
  BY <1>0, <1>1, <1>2, <1>3, <1>5 DEF HandleSound, Pending
<1>13. Fresh'
  BY <1>0, <1>1, <1>2, <1>5 DEF Fresh
<1>14. RcSound'
  <2> SUFFICES ASSUME NEW y \in Worker
               PROVE  rc'[y] = (IF Spawner(y)' THEN 1 ELSE 0) + (IF handle'[y] THEN 1 ELSE 0)
                               + (IF Joiner(y)' THEN 1 ELSE 0) + (IF Leaked(y)' THEN 1 ELSE 0)
    BY DEF RcSound
  <2>0. rc[y] = (IF Spawner(y) THEN 1 ELSE 0) + (IF handle[y] THEN 1 ELSE 0)
                + (IF Joiner(y) THEN 1 ELSE 0) + (IF Leaked(y) THEN 1 ELSE 0)
    BY <1>0 DEF RcSound
  <2>1. CASE y # c
    <3>1. rc'[y] = rc[y] /\ handle'[y] = handle[y]
      BY <1>0, <1>1, <1>5, <2>1 DEF TypeOK
    <3>2. Spawner(y)' <=> Spawner(y)
      BY <1>1, <1>2, <1>5, <2>1 DEF Spawner
    <3>3. Joiner(y)' <=> Joiner(y)
      BY <1>1, <1>2, <1>5, <2>1 DEF Joiner
    <3>4. Leaked(y)' <=> Leaked(y)
      BY <1>1, <1>2, <1>5, <2>1 DEF Leaked
    <3> QED
      BY <2>0, <3>1, <3>2, <3>3, <3>4
  <2>2. CASE y = c
    <3>1. ~Joiner(c) /\ ~Joiner(c)'
      BY <1>0, <1>1, <1>9 DEF Joiner, JoinDelivers, OnStack, Blocked
    <3>2. ~Leaked(c) /\ ~Leaked(c)' /\ ~handle[c] /\ ~handle'[c]
      BY <1>1, <1>3 DEF Leaked
    <3>3. ~Spawner(c)
      BY <1>0, <1>1 DEF Spawner, StartSound, Starting, OnStack, Blocked
    <3>4. \A x \in Workers : x # w => ~(pc'[x] = "spawn" /\ child'[x] = c)
      BY <1>5, <3>3 DEF Spawner
    <3>5. CASE pc'[w] = "spawn" /\ rc' = [rc EXCEPT ![c] = 1]
      <4>1. Spawner(c)'
        BY <1>5, <3>5 DEF Spawner
      <4>2. rc'[c] = 1
        BY <1>0, <3>5 DEF TypeOK
      <4> QED
        BY <2>2, <3>1, <3>2, <4>1, <4>2
    <3>6. CASE pc'[w] = "start" /\ rc' = rc
      <4>1. ~Spawner(c)'
        BY <1>5, <3>4, <3>6 DEF Spawner
      <4> QED
        BY <2>0, <2>2, <3>1, <3>2, <3>3, <3>6, <4>1
    <3> QED
      BY <1>5, <3>5, <3>6
  <2> QED
    BY <2>1, <2>2
<1>15. NoFault' /\ SignalSound'
  BY <1>0, <1>1, <1>4 DEF NoFault, SignalSound
<1> QED
  BY <1>6, <1>7, <1>8, <1>10, <1>11, <1>12, <1>13, <1>14, <1>15 DEF ExecInv

\* The completion of an event runs the worker that waits for it, called from the
\* event loop, another task or an interrupt.
LEMMA CompleteEventInv ==
  ASSUME ExecInv, \/ \E u \in Workers, w \in Worker : CompleteEvent(u, w)
                  \/ InterruptEvent(TRUE)
  PROVE  ExecInv'
<1>0. /\ TypeOK /\ NoFault /\ StackSound /\ StartSound /\ DoneSound /\ JoinDelivers /\ Awaited
      /\ HandleSound /\ Fresh /\ SignalSound /\ RcSound
  BY DEF ExecInv
<1>1. PICK w \in Worker : /\ pc[w] = "event" /\ pc[current] = "user" /\ signal' = Null
                          /\ Resume(w) /\ Unblock(w) /\ interrupted' \in [Worker -> BOOLEAN]
                          /\ UNCHANGED <<svars, hvars, guards>>
  <2>1. CASE \E u \in Workers, w \in Worker : CompleteEvent(u, w)
    BY <1>0, <2>1 DEF CompleteEvent, Running, At, ivars, TypeOK
  <2>2. CASE InterruptEvent(TRUE)
    <3>1. /\ signal \in Worker /\ pc[signal] = "event" /\ pc[current] = "user"
      BY <1>0, <2>2 DEF InterruptEvent, TypeOK, SignalSound
    <3>2. /\ signal' = Null /\ Resume(signal) /\ Unblock(signal)
          /\ interrupted' \in [Worker -> BOOLEAN] /\ UNCHANGED <<svars, hvars, guards>>
      BY <1>0, <2>2, <3>1 DEF InterruptEvent, TypeOK
    <3> QED
      BY <3>1, <3>2
  <2> QED
    BY <2>1, <2>2
<1>2. /\ current \in Workers /\ current # w /\ w \in Workers /\ w # Main /\ Main \notin Worker
      /\ Worker \subseteq Workers /\ caller[w] = Null
  BY <1>0, <1>1, StackFacts, NamesAssumption DEF Workers, StackSound, OnStack
<1>3. /\ fault' = fault /\ current' = w /\ caller' = [caller EXCEPT ![w] = current]
      /\ pc' = [pc EXCEPT ![w] = "user"] /\ child' = [child EXCEPT ![w] = Null]
      /\ token' = [token EXCEPT ![w] = FALSE]
  BY <1>1, <1>2 DEF Resume, Check, Unblock
<1>4. /\ pc'[w] = "user"
      /\ \A x \in Workers : x # w => pc'[x] = pc[x] /\ child'[x] = child[x]
      /\ \A x \in Worker : x # w => token'[x] = token[x]
  BY <1>0, <1>2, <1>3 DEF TypeOK
<1>5. /\ isAsync' = isAsync /\ done' = done /\ request' = request /\ hcancel' = hcancel
      /\ houtput' = houtput /\ hwaiter' = hwaiter /\ handle' = handle /\ rc' = rc
  BY <1>1 DEF svars, hvars
<1>6. TypeOK'
  BY <1>0, <1>1, <1>2, <1>3, <1>5 DEF TypeOK, OnStack
<1>7. StackSound' /\ StartSound'
  <2>1. \A x \in Worker : x # w => (pc'[x] \in OnStack <=> pc[x] \in OnStack)
    BY <1>2, <1>4
  <2>2. pc'[Main] \in {"user", "spawn"}
    BY <1>0, <1>2, <1>4 DEF StackSound, Workers
  <2>3. \A x \in Workers : Starting(x)' =>
            \/ Starting(x) /\ x # current /\ pc'[x] = pc[x] /\ child'[x] = child[x]
            \/ /\ x = current /\ child'[x] = w /\ ~isAsync'[w]
               /\ request'[w] = IF pc'[x] = "start" THEN x ELSE Null
               /\ ~handle'[w] /\ ~houtput'[w] /\ hwaiter'[w] = Null
    BY <1>1, <1>2, <1>4 DEF Starting
  <2>4. \A y \in Worker : y # w => Unclaimed(y)
    BY <1>5 DEF Unclaimed
  <2>5. pc[w] \notin OnStack
    BY <1>1 DEF OnStack
  <2> QED
    BY <1>0, <1>3, <1>4, <2>1, <2>2, <2>3, <2>4, <2>5, PushKeeps
<1>8. DoneSound'
  BY <1>0, <1>1, <1>2, <1>4, <1>5 DEF DoneSound
<1>9. \A v \in Worker : /\ Pending(v)' <=> Pending(v)
                        /\ pc'[v] \in {"join", "await"} <=> pc[v] \in {"join", "await"}
                        /\ pc[v] \in {"join", "await"} =>
                             v # w /\ pc'[v] = pc[v] /\ child'[v] = child[v] /\ child[v] \in Worker
  BY <1>0, <1>1, <1>2, <1>4 DEF Pending, Awaited
<1>10. JoinDelivers'
  BY <1>0, <1>1, <1>2, <1>4, <1>5, <1>9 DEF JoinDelivers, OnStack
<1>11. Awaited'
  <2>1. \A y \in Worker : /\ request[y] # Null => request[y] \in Worker
                          /\ hwaiter[y] # Null => hwaiter[y] \in Worker
    BY <1>0 DEF TypeOK
  <2> QED
    BY <1>0, <1>5, <1>9, <2>1 DEF Awaited
<1>12. HandleSound'
  BY <1>0, <1>5, <1>9 DEF HandleSound
<1>13. Fresh'
  BY <1>0, <1>1, <1>2, <1>4, <1>5 DEF Fresh
<1>14. RcSound'
  <2>1. \A y \in Worker : (Spawner(y)' <=> Spawner(y)) /\ (Leaked(y)' <=> Leaked(y))
    BY <1>1, <1>2, <1>4, <1>5 DEF Spawner, Leaked
  <2>2. \A y \in Worker : Joiner(y)' <=> Joiner(y)
    BY <1>1, <1>2, <1>4 DEF Joiner
  <2> QED
    BY <1>0, <1>5, <2>1, <2>2 DEF RcSound
<1>15. NoFault' /\ SignalSound'
  BY <1>0, <1>1, <1>3 DEF NoFault, SignalSound
<1> QED
  BY <1>6, <1>7, <1>8, <1>10, <1>11, <1>12, <1>13, <1>14, <1>15 DEF ExecInv

\* The end of a task that somebody waits for runs the one that waits.
LEMMA CompleteInv ==
  ASSUME ExecInv, NEW w \in Worker, FinishAwaited(w) \/ (FinishSpawned(w) /\ hwaiter[w] # Null)
  PROVE  ExecInv'
<1>0. /\ TypeOK /\ NoFault /\ StackSound /\ StartSound /\ DoneSound /\ JoinDelivers /\ Awaited
      /\ HandleSound /\ Fresh /\ SignalSound /\ RcSound
  BY DEF ExecInv
<1>1. /\ current = w /\ pc[w] = "user" /\ signal = Null /\ isAsync[w]
      /\ UNCHANGED <<svars, hcancel, houtput, hwaiter, handle, ivars, signal>>
  BY DEF FinishAwaited, FinishSpawned, Running, At, hvars
<1>2. PICK p \in Worker :
        /\ CompleteTo(w, p) /\ child[p] = w
        /\ \/ pc[p] = "await" /\ request[w] # Null /\ p = request[w] /\ rc' = rc
           \/ /\ pc[p] = "join" /\ request[w] = Null /\ hwaiter[w] # Null /\ p = hwaiter[w]
              /\ rc' = [rc EXCEPT ![w] = @ - IF token[p] THEN 2 ELSE 1]
  <2>0. Pending(w)
    BY <1>1 DEF Pending
  <2>1. CASE FinishAwaited(w)
    <3>1. request[w] # Null /\ request[w] \in Worker /\ CompleteTo(w, request[w]) /\ rc' = rc
      BY <1>0, <2>1 DEF FinishAwaited, TypeOK, hvars
    <3>2. pc[request[w]] = "await" /\ child[request[w]] = w
      BY <1>0, <1>1, <2>0, <3>1 DEF Awaited
    <3> QED
      BY <3>1, <3>2
  <2>2. CASE FinishSpawned(w) /\ hwaiter[w] # Null
    <3>1. /\ request[w] = Null /\ hwaiter[w] \in Worker /\ CompleteTo(w, hwaiter[w])
          /\ rc' = [rc EXCEPT ![w] = @ - IF token[hwaiter[w]] THEN 2 ELSE 1]
      BY <1>0, <2>2 DEF FinishSpawned, TypeOK
    <3>2. pc[hwaiter[w]] = "join" /\ child[hwaiter[w]] = w
      BY <1>0, <1>1, <2>0, <2>2, <3>1 DEF Awaited
    <3> QED
      BY <2>2, <3>1, <3>2
  <2> QED
    BY <2>1, <2>2
<1>3. /\ p # w /\ w \in Workers /\ p \in Workers /\ w # Main /\ p # Main /\ Worker \subseteq Workers
      /\ caller[p] = Null /\ Null \notin Worker
  BY <1>0, <1>1, <1>2, NamesAssumption DEF Workers, StackSound, OnStack
<1>4. /\ fault' = fault /\ current' = p /\ caller' = [caller EXCEPT ![p] = current]
      /\ pc' = [pc EXCEPT ![p] = "user", ![w] = "exit"] /\ child' = [child EXCEPT ![p] = Null]
      /\ token' = [token EXCEPT ![p] = FALSE]
  BY <1>1, <1>2, <1>3 DEF CompleteTo
<1>5. /\ pc'[p] = "user" /\ pc'[w] = "exit"
      /\ \A x \in Workers : x # p /\ x # w => pc'[x] = pc[x]
      /\ \A x \in Workers : x # p => child'[x] = child[x]
      /\ \A x \in Worker : x # p => token'[x] = token[x]
  BY <1>0, <1>3, <1>4 DEF TypeOK
<1>6. /\ isAsync' = isAsync /\ done' = done /\ request' = request /\ hcancel' = hcancel
      /\ houtput' = houtput /\ hwaiter' = hwaiter /\ handle' = handle
  BY <1>1 DEF svars
<1>7. StackSound' /\ StartSound'
  <2>1. \A x \in Worker : x # p => (pc'[x] \in OnStack <=> pc[x] \in OnStack)
    BY <1>1, <1>3, <1>5 DEF OnStack
  <2>2. pc'[Main] \in {"user", "spawn"}
    BY <1>0, <1>3, <1>5 DEF StackSound, Workers
  <2>3. \A x \in Workers : Starting(x)' =>
            \/ Starting(x) /\ x # current /\ pc'[x] = pc[x] /\ child'[x] = child[x]
            \/ /\ x = current /\ child'[x] = p /\ ~isAsync'[p]
               /\ request'[p] = IF pc'[x] = "start" THEN x ELSE Null
               /\ ~handle'[p] /\ ~houtput'[p] /\ hwaiter'[p] = Null
    BY <1>1, <1>3, <1>5 DEF Starting
  <2>4. \A y \in Worker : y # p => Unclaimed(y)
    BY <1>6 DEF Unclaimed
  <2>5. pc[p] \notin OnStack
    BY <1>2 DEF OnStack
  <2> QED
    BY <1>0, <1>4, <1>5, <2>1, <2>2, <2>3, <2>4, <2>5, PushKeeps
<1>8. DoneSound'
  BY <1>0, <1>1, <1>2, <1>3, <1>5, <1>6 DEF DoneSound
<1>9. \A v \in Worker : v # p /\ pc[v] \in {"join", "await"} => child[v] # w /\ child[v] \in Worker
  BY <1>0, <1>2, <1>3 DEF JoinDelivers, Awaited
<1>10. \A v \in Worker : /\ Pending(v)' <=> Pending(v) /\ v # w
                         /\ pc'[v] \in {"join", "await"} => v # p /\ v # w /\ pc'[v] = pc[v] /\ child'[v] = child[v]
  BY <1>1, <1>2, <1>3, <1>5 DEF Pending
<1>11. JoinDelivers'
  BY <1>0, <1>2, <1>3, <1>5, <1>6, <1>9, <1>10 DEF JoinDelivers, OnStack
<1>12. Awaited'
  <2>1. \A y \in Worker : /\ request[y] # Null => request[y] \in Worker
                          /\ hwaiter[y] # Null => hwaiter[y] \in Worker
    BY <1>0 DEF TypeOK
  <2>2. \A v \in Worker : pc[v] \in {"join", "await"} /\ child[v] # w =>
          v # p /\ v # w /\ pc'[v] = pc[v] /\ child'[v] = child[v]
    BY <1>1, <1>2, <1>3, <1>5
  <2> QED
    BY <1>0, <1>6, <1>9, <1>10, <2>1, <2>2 DEF Awaited
<1>13. HandleSound'
  <2>1. handle[w] => houtput[w]
    BY <1>0, <1>2 DEF HandleSound
  <2> QED
    BY <1>0, <1>6, <1>10, <2>1 DEF HandleSound
<1>14. Fresh'
  BY <1>0, <1>1, <1>2, <1>3, <1>5, <1>6 DEF Fresh
<1>15. \A y \in Worker : Spawner(y)' <=> Spawner(y)
  BY <1>1, <1>2, <1>3, <1>5 DEF Spawner
<1>16. RcSound' /\ rc' \in [Worker -> Nat]
  <2>1. ASSUME NEW y \in Worker
        PROVE  /\ rc'[y] = (IF Spawner(y)' THEN 1 ELSE 0) + (IF handle'[y] THEN 1 ELSE 0)
                           + (IF Joiner(y)' THEN 1 ELSE 0) + (IF Leaked(y)' THEN 1 ELSE 0)
    <3>0. rc[y] = (IF Spawner(y) THEN 1 ELSE 0) + (IF handle[y] THEN 1 ELSE 0)
                  + (IF Joiner(y) THEN 1 ELSE 0) + (IF Leaked(y) THEN 1 ELSE 0)
      BY <1>0 DEF RcSound
    <3>1. CASE y # w
      <4>1. rc'[y] = rc[y]
        BY <1>0, <1>2, <3>1 DEF TypeOK
      <4>2. Joiner(y)' <=> Joiner(y)
        BY <1>1, <1>2, <1>3, <1>5, <3>1 DEF Joiner
      <4>3. Leaked(y)' <=> Leaked(y)
        BY <1>1, <1>2, <1>3, <1>5, <1>6, <3>1 DEF Leaked
      <4> QED
        BY <1>6, <1>15, <3>0, <4>1, <4>2, <4>3
    <3>2. CASE y = w
      <4>1. ~Joiner(w)' /\ ~Leaked(w)'
        BY <1>3, <1>5, <1>9, <1>10 DEF Joiner, Leaked
      <4>2. CASE request[w] # Null
        <5>1. ~Joiner(w) /\ ~Leaked(w)
          BY <1>0, <4>2 DEF Joiner, Leaked, JoinDelivers
        <5> QED
          BY <1>2, <1>6, <1>15, <3>0, <3>2, <4>1, <4>2, <5>1
      <4>3. CASE request[w] = Null
        <5>1. Joiner(w) <=> token[p]
          BY <1>2, <1>9, <4>3 DEF Joiner
        <5>2. Leaked(w)
          BY <1>1, <4>3 DEF Leaked
        <5>3. rc'[w] = rc[w] - IF token[p] THEN 2 ELSE 1
          BY <1>0, <1>2, <4>3 DEF TypeOK
        <5>4. rc'[w] = (IF Spawner(w) THEN 1 ELSE 0) + (IF handle[w] THEN 1 ELSE 0)
          BY <3>0, <3>2, <5>1, <5>2, <5>3
        <5> QED
          BY <1>6, <1>15, <3>2, <4>1, <5>4
      <4> QED
        BY <4>2, <4>3
    <3> QED
      BY <3>1, <3>2
  <2>2. RcSound'
    BY <2>1 DEF RcSound
  <2>3. \E f : rc' = [y \in Worker |-> f[y]]
    <3>1. rc = [y \in Worker |-> rc[y]]
      BY <1>0 DEF TypeOK
    <3> QED
      BY <1>2, <3>1
  <2>4. \A y \in Worker : rc'[y] \in Nat
    BY <2>1
  <2> QED
    BY <2>2, <2>3, <2>4
<1>17. TypeOK'
  BY <1>0, <1>1, <1>3, <1>4, <1>6, <1>16 DEF TypeOK, ivars, OnStack
<1>18. NoFault' /\ SignalSound'
  BY <1>0, <1>1, <1>4 DEF NoFault, SignalSound
<1> QED
  BY <1>7, <1>8, <1>11, <1>12, <1>13, <1>14, <1>16, <1>17, <1>18 DEF ExecInv

-----------------------------------------------------------------------------
(* Steps that suspend or end the worker that has control *)

\* block_on of an I/O or timer future.
LEMMA BlockEventInv ==
  ASSUME DebugAssertions, ExecInv, NEW w \in Worker, BlockEvent(w)
  PROVE  ExecInv'
<1>0. /\ TypeOK /\ NoFault /\ StackSound /\ StartSound /\ DoneSound /\ JoinDelivers /\ Awaited
      /\ HandleSound /\ Fresh /\ SignalSound /\ RcSound
  BY DEF ExecInv
<1>1. /\ current = w /\ pc[w] = "user" /\ signal = Null
      /\ token' = [token EXCEPT ![w] = TRUE] /\ pc' = [pc EXCEPT ![w] = "event"] /\ Suspend(w)
      /\ UNCHANGED <<child, svars, hvars, ivars, signal>>
  BY DEF BlockEvent, Running, At
<1>2. /\ w \in Workers /\ w # Main /\ Worker \subseteq Workers
      /\ caller[w] \in Workers /\ caller[w] # Null
  BY <1>0, <1>1, StackFacts, NamesAssumption DEF Workers
<1>3. /\ fault' = fault /\ current' = caller[w] /\ caller' = [caller EXCEPT ![w] = Null]
  BY <1>1, <1>2 DEF Suspend, Check
<1>4. /\ pc'[w] = "event" /\ \A x \in Workers : x # w => pc'[x] = pc[x]
      /\ \A x \in Worker : x # w => token'[x] = token[x]
  BY <1>0, <1>1, <1>2 DEF TypeOK
<1>5. /\ isAsync' = isAsync /\ done' = done /\ request' = request /\ hcancel' = hcancel
      /\ houtput' = houtput /\ hwaiter' = hwaiter /\ handle' = handle /\ rc' = rc /\ child' = child
  BY <1>1 DEF svars, hvars
<1>6. TypeOK'
  BY <1>0, <1>1, <1>2, <1>3, <1>5 DEF TypeOK, ivars, Blocked
<1>7. StackSound' /\ StartSound'
  <2>1. pc'[w] \in Blocked \cup {"dead"}
    BY <1>4 DEF Blocked
  <2>2. \A x \in Workers : x # w => pc'[x] = pc[x] /\ child'[x] = child[x]
    BY <1>4, <1>5
  <2>3. \A x \in Workers : x # w /\ Starting(x) => Unclaimed(child[x])
    BY <1>5 DEF Unclaimed
  <2> QED
    BY <1>0, <1>1, <1>3, <2>1, <2>2, <2>3, PopKeeps
<1>8. DoneSound'
  BY <1>0, <1>1, <1>2, <1>4, <1>5 DEF DoneSound
<1>9. \A v \in Worker : /\ Pending(v)' <=> Pending(v)
                        /\ pc'[v] \in {"join", "await"} <=> pc[v] \in {"join", "await"}
                        /\ pc[v] \in {"join", "await"} => v # w /\ pc'[v] = pc[v] /\ child[v] \in Worker
  BY <1>0, <1>1, <1>2, <1>4 DEF Pending, Awaited
<1>10. JoinDelivers'
  BY <1>0, <1>2, <1>4, <1>5, <1>9 DEF JoinDelivers, Blocked
<1>11. Awaited'
  <2>1. \A y \in Worker : /\ request[y] # Null => request[y] \in Worker
                          /\ hwaiter[y] # Null => hwaiter[y] \in Worker
    BY <1>0 DEF TypeOK
  <2> QED
    BY <1>0, <1>5, <1>9, <2>1 DEF Awaited
<1>12. HandleSound' /\ Fresh'
  BY <1>0, <1>2, <1>4, <1>5, <1>9 DEF HandleSound, Fresh
<1>13. RcSound'
  <2>1. \A y \in Worker : (Spawner(y)' <=> Spawner(y)) /\ (Leaked(y)' <=> Leaked(y))
    BY <1>1, <1>2, <1>4, <1>5 DEF Spawner, Leaked
  <2>2. \A y \in Worker : Joiner(y)' <=> Joiner(y)
    BY <1>1, <1>2, <1>4, <1>5 DEF Joiner
  <2> QED
    BY <1>0, <1>5, <2>1, <2>2 DEF RcSound
<1>14. NoFault' /\ SignalSound'
  BY <1>0, <1>1, <1>3 DEF NoFault, SignalSound
<1> QED
  BY <1>6, <1>7, <1>8, <1>10, <1>11, <1>12, <1>13, <1>14 DEF ExecInv

\* try_join of a running task, by itself even: the handle moves into the join.
LEMMA JoinBlockInv ==
  ASSUME DebugAssertions, ExecInv, NEW w \in Worker, NEW c \in Worker, JoinBlock(w, c)
  PROVE  ExecInv'
<1>0. /\ TypeOK /\ NoFault /\ StackSound /\ StartSound /\ DoneSound /\ JoinDelivers /\ Awaited
      /\ HandleSound /\ Fresh /\ SignalSound /\ RcSound
  BY DEF ExecInv
<1>1. /\ current = w /\ pc[w] = "user" /\ signal = Null /\ handle[c] /\ ~houtput[c]
      /\ hwaiter' = [hwaiter EXCEPT ![c] = w] /\ handle' = [handle EXCEPT ![c] = FALSE]
      /\ token' = [token EXCEPT ![w] = TRUE] /\ child' = [child EXCEPT ![w] = c]
      /\ pc' = [pc EXCEPT ![w] = "join"] /\ Suspend(w)
      /\ UNCHANGED <<svars, hcancel, houtput, rc, ivars, signal>>
  BY DEF JoinBlock, Running, At
<1>2. /\ w \in Workers /\ w # Main /\ Worker \subseteq Workers /\ Null \notin Worker
      /\ caller[w] \in Workers /\ caller[w] # Null
  BY <1>0, <1>1, StackFacts, NamesAssumption DEF Workers
<1>3. /\ fault' = fault /\ current' = caller[w] /\ caller' = [caller EXCEPT ![w] = Null]
  BY <1>1, <1>2 DEF Suspend, Check
<1>4. /\ pc'[w] = "join" /\ child'[w] = c /\ token'[w]
      /\ \A x \in Workers : x # w => pc'[x] = pc[x] /\ child'[x] = child[x]
      /\ \A x \in Worker : x # w => token'[x] = token[x]
      /\ hwaiter'[c] = w /\ ~handle'[c]
      /\ \A y \in Worker : y # c => hwaiter'[y] = hwaiter[y] /\ handle'[y] = handle[y]
  BY <1>0, <1>1, <1>2, ZenonT(30) DEF TypeOK
<1>5. /\ isAsync' = isAsync /\ done' = done /\ request' = request /\ hcancel' = hcancel
      /\ houtput' = houtput /\ rc' = rc
  BY <1>1 DEF svars
<1>6. TypeOK'
  BY <1>0, <1>1, <1>2, <1>3, <1>5 DEF TypeOK, ivars, Blocked
<1>7. Pending(c) /\ isAsync[c] /\ request[c] = Null /\ hwaiter[c] = Null
  BY <1>0, <1>1 DEF HandleSound
<1>8. StackSound' /\ StartSound'
  <2>1. pc'[w] \in Blocked \cup {"dead"}
    BY <1>4 DEF Blocked
  <2>2. ASSUME NEW x \in Workers, x # w, Starting(x)
        PROVE  Unclaimed(child[x])
    <3>1. child[x] \in Worker /\ child[x] # c
      BY <1>0, <1>7, <2>2 DEF StartSound
    <3> QED
      BY <1>4, <1>5, <2>2, <3>1 DEF Unclaimed
  <2> QED
    BY <1>0, <1>1, <1>3, <1>4, <2>1, <2>2, PopKeeps
<1>9. DoneSound'
  BY <1>0, <1>1, <1>2, <1>4, <1>5 DEF DoneSound
<1>10. \A v \in Worker : /\ Pending(v)' <=> Pending(v)
                         /\ pc[v] \in {"join", "await"} =>
                              /\ v # w /\ pc'[v] = pc[v] /\ child'[v] = child[v]
                              /\ child[v] \in Worker /\ child[v] # c
                         /\ pc'[v] \in {"join", "await"} => v = w \/ pc[v] \in {"join", "await"}
  BY <1>0, <1>1, <1>2, <1>4, <1>7 DEF Pending, Awaited, JoinDelivers
<1>11. JoinDelivers'
  <2> SUFFICES ASSUME NEW v \in Worker, pc'[v] \in {"join", "await"}
               PROVE  /\ pc'[child'[v]] \in (OnStack \cup Blocked) \ {"exit"}
                      /\ isAsync'[child'[v]]
                      /\ pc'[v] = "await" => request'[child'[v]] = v
                      /\ pc'[v] = "join" => request'[child'[v]] = Null /\ hwaiter'[child'[v]] = v
    BY DEF JoinDelivers
  <2>1. CASE v = w
    <3>1. pc'[c] \in (OnStack \cup Blocked) \ {"exit"}
      BY <1>2, <1>4, <1>7 DEF Pending, OnStack, Blocked
    <3> QED
      BY <1>4, <1>5, <1>7, <2>1, <3>1
  <2>2. CASE v # w
    <3>1. /\ pc[v] \in {"join", "await"} /\ pc'[v] = pc[v] /\ child'[v] = child[v]
          /\ child[v] \in Worker /\ child[v] # c
      BY <1>10, <2>2
    <3>2. /\ pc[child[v]] \in (OnStack \cup Blocked) \ {"exit"} /\ isAsync[child[v]]
          /\ pc[v] = "await" => request[child[v]] = v
          /\ pc[v] = "join" => request[child[v]] = Null /\ hwaiter[child[v]] = v
      BY <1>0, <3>1 DEF JoinDelivers
    <3>3. pc'[child[v]] \in (OnStack \cup Blocked) \ {"exit"}
      BY <1>2, <1>4, <3>1, <3>2 DEF Blocked
    <3> QED
      BY <1>4, <1>5, <3>1, <3>2, <3>3
  <2> QED
    BY <2>1, <2>2
<1>12. Awaited'
  <2>1. \A y \in Worker : /\ request[y] # Null => request[y] \in Worker
                          /\ hwaiter[y] # Null => hwaiter[y] \in Worker
    BY <1>0 DEF TypeOK
  <2>2. \A v \in Worker : pc'[v] \in {"join", "await"} => child'[v] \in Worker
    BY <1>4, <1>10
  <2>3. ASSUME NEW y \in Worker, Pending(y)', isAsync'[y]
        PROVE  /\ request'[y] # Null => pc'[request'[y]] = "await" /\ child'[request'[y]] = y
               /\ request'[y] = Null /\ hwaiter'[y] # Null =>
                    pc'[hwaiter'[y]] = "join" /\ child'[hwaiter'[y]] = y
    <3>1. CASE y = c
      BY <1>4, <1>5, <1>7, <3>1
    <3>2. CASE y # c
      BY <1>0, <1>4, <1>5, <1>10, <2>1, <2>3, <3>2 DEF Awaited
    <3> QED
      BY <3>1, <3>2
  <2> QED
    BY <2>2, <2>3 DEF Awaited
<1>13. HandleSound' /\ Fresh'
  <2>1. HandleSound'
    BY <1>0, <1>4, <1>5, <1>10 DEF HandleSound
  <2>2. \A y \in Worker : pc'[y] = "free" => y # c /\ pc[y] = "free"
    BY <1>2, <1>4, <1>7 DEF Pending
  <2>3. Fresh'
    BY <1>0, <1>4, <1>5, <2>2 DEF Fresh
  <2> QED
    BY <2>1, <2>3
<1>14. RcSound'
  <2> SUFFICES ASSUME NEW y \in Worker
               PROVE  rc'[y] = (IF Spawner(y)' THEN 1 ELSE 0) + (IF handle'[y] THEN 1 ELSE 0)
                               + (IF Joiner(y)' THEN 1 ELSE 0) + (IF Leaked(y)' THEN 1 ELSE 0)
    BY DEF RcSound
  <2>0. rc[y] = (IF Spawner(y) THEN 1 ELSE 0) + (IF handle[y] THEN 1 ELSE 0)
                + (IF Joiner(y) THEN 1 ELSE 0) + (IF Leaked(y) THEN 1 ELSE 0)
    BY <1>0 DEF RcSound
  <2>1. Spawner(y)' <=> Spawner(y)
    BY <1>1, <1>2, <1>4 DEF Spawner
  <2>2. Leaked(y)' <=> Leaked(y)
    BY <1>1, <1>2, <1>4, <1>5 DEF Leaked
  <2>3. CASE y = c
    <3>1. ~Joiner(c)
      BY <1>10 DEF Joiner
    <3>2. Joiner(c)'
      BY <1>4 DEF Joiner
    <3> QED
      BY <1>1, <1>4, <1>5, <2>0, <2>1, <2>2, <2>3, <3>1, <3>2
  <2>4. CASE y # c
    <3>1. Joiner(y)' <=> Joiner(y)
      BY <1>1, <1>2, <1>4, <2>4 DEF Joiner
    <3> QED
      BY <1>4, <1>5, <2>0, <2>1, <2>2, <2>4, <3>1
  <2> QED
    BY <2>3, <2>4
<1>15. NoFault' /\ SignalSound'
  BY <1>0, <1>1, <1>3 DEF NoFault, SignalSound
<1> QED
  BY <1>6, <1>8, <1>9, <1>11, <1>12, <1>13, <1>14, <1>15 DEF ExecInv

\* start returned inside block_on and the child is pending: suspend.
LEMMA AwaitInv ==
  ASSUME DebugAssertions, ExecInv, NEW w \in Worker, AwaitReturn(w), ~done[child[w]]
  PROVE  ExecInv'
<1>0. /\ TypeOK /\ NoFault /\ StackSound /\ StartSound /\ DoneSound /\ JoinDelivers /\ Awaited
      /\ HandleSound /\ Fresh /\ SignalSound /\ RcSound
  BY DEF ExecInv
<1>1. /\ current = w /\ pc[w] = "start" /\ signal = Null
      /\ isAsync' = [isAsync EXCEPT ![child[w]] = TRUE]
      /\ token' = [token EXCEPT ![w] = TRUE]
      /\ pc' = [pc EXCEPT ![w] = "await"] /\ Suspend(w)
      /\ UNCHANGED <<child, done, request, hvars, ivars, signal>>
  BY DEF AwaitReturn, At
<1>2. /\ w \in Workers /\ w # Main /\ Worker \subseteq Workers /\ Null \notin Worker
      /\ caller[w] \in Workers /\ caller[w] # Null
  BY <1>0, <1>1, StackFacts, NamesAssumption DEF Workers
<1>3. /\ fault' = fault /\ current' = caller[w] /\ caller' = [caller EXCEPT ![w] = Null]
  BY <1>1, <1>2 DEF Suspend, Check
<1>4. PICK c \in Worker : c = child[w]
  BY <1>0, <1>1, <1>2 DEF StartSound, Starting
<1>5. ~isAsync[c] /\ request[c] = w /\ pc[c] \in Blocked /\ c # w
  BY <1>0, <1>1, <1>2, <1>4 DEF StartSound, Starting, DoneSound, Blocked
<1>6. /\ pc'[w] = "await"
      /\ \A x \in Workers : x # w => pc'[x] = pc[x]
      /\ \A x \in Worker : x # w => token'[x] = token[x]
      /\ isAsync'[c] /\ \A y \in Worker : y # c => isAsync'[y] = isAsync[y]
  BY <1>0, <1>1, <1>2, <1>4 DEF TypeOK
<1>7. /\ child' = child /\ done' = done /\ request' = request /\ hcancel' = hcancel
      /\ houtput' = houtput /\ hwaiter' = hwaiter /\ handle' = handle /\ rc' = rc
  BY <1>1 DEF hvars
<1>8. TypeOK'
  BY <1>0, <1>1, <1>2, <1>3, <1>4, <1>7 DEF TypeOK, ivars, Blocked
<1>9. StackSound' /\ StartSound'
  <2>1. pc'[w] \in Blocked \cup {"dead"}
    BY <1>6 DEF Blocked
  <2>2. ASSUME NEW x \in Workers, x # w, Starting(x)
        PROVE  Unclaimed(child[x])
    <3>1. child[x] \in Worker /\ child[x] # c
      BY <1>0, <1>1, <1>5, <2>2 DEF StartSound, OnStack, Blocked
    <3> QED
      BY <1>6, <1>7, <3>1 DEF Unclaimed
  <2>3. \A x \in Workers : x # w => pc'[x] = pc[x] /\ child'[x] = child[x]
    BY <1>6, <1>7
  <2> QED
    BY <1>0, <1>1, <1>3, <2>1, <2>2, <2>3, PopKeeps
<1>10. DoneSound'
  BY <1>0, <1>1, <1>2, <1>5, <1>6, <1>7 DEF DoneSound, Blocked
<1>11. \A v \in Worker : /\ Pending(v)' <=> Pending(v)
                         /\ pc[v] \in {"join", "await"} => v # w /\ pc'[v] = pc[v] /\ child[v] \in Worker
                         /\ pc'[v] \in {"join", "await"} => v = w \/ pc[v] \in {"join", "await"}
                         /\ isAsync[v] => isAsync'[v]
  BY <1>0, <1>1, <1>2, <1>5, <1>6 DEF Pending, Awaited
<1>12. JoinDelivers'
  <2> SUFFICES ASSUME NEW v \in Worker, pc'[v] \in {"join", "await"}
               PROVE  /\ pc'[child[v]] \in (OnStack \cup Blocked) \ {"exit"}
                      /\ isAsync'[child[v]]
                      /\ pc'[v] = "await" => request[child[v]] = v
                      /\ pc'[v] = "join" => request[child[v]] = Null /\ hwaiter[child[v]] = v
    BY <1>7 DEF JoinDelivers
  <2>1. CASE v = w
    <3>1. pc'[c] \in (OnStack \cup Blocked) \ {"exit"}
      BY <1>2, <1>5, <1>6 DEF Blocked
    <3> QED
      BY <1>4, <1>5, <1>6, <2>1, <3>1
  <2>2. CASE v # w
    <3>1. /\ pc[v] \in {"join", "await"} /\ pc'[v] = pc[v] /\ child[v] \in Worker
      BY <1>11, <2>2
    <3>2. /\ pc[child[v]] \in (OnStack \cup Blocked) \ {"exit"} /\ isAsync[child[v]]
          /\ pc[v] = "await" => request[child[v]] = v
          /\ pc[v] = "join" => request[child[v]] = Null /\ hwaiter[child[v]] = v
      BY <1>0, <3>1 DEF JoinDelivers
    <3>3. pc'[child[v]] \in (OnStack \cup Blocked) \ {"exit"}
      BY <1>2, <1>6, <3>1, <3>2 DEF Blocked
    <3> QED
      BY <1>11, <3>1, <3>2, <3>3
  <2> QED
    BY <2>1, <2>2
<1>13. Awaited'
  <2>1. \A y \in Worker : /\ request[y] # Null => request[y] \in Worker
                          /\ hwaiter[y] # Null => hwaiter[y] \in Worker
    BY <1>0 DEF TypeOK
  <2>2. \A v \in Worker : pc'[v] \in {"join", "await"} => child'[v] \in Worker
    BY <1>4, <1>7, <1>11
  <2>3. ASSUME NEW y \in Worker, Pending(y)', isAsync'[y]
        PROVE  /\ request'[y] # Null => pc'[request'[y]] = "await" /\ child'[request'[y]] = y
               /\ request'[y] = Null /\ hwaiter'[y] # Null =>
                    pc'[hwaiter'[y]] = "join" /\ child'[hwaiter'[y]] = y
    <3>1. CASE y = c
      BY <1>2, <1>4, <1>5, <1>6, <1>7, <3>1
    <3>2. CASE y # c
      BY <1>0, <1>6, <1>7, <1>11, <2>1, <2>3, <3>2 DEF Awaited
    <3> QED
      BY <3>1, <3>2
  <2> QED
    BY <2>2, <2>3 DEF Awaited
<1>14. HandleSound'
  BY <1>0, <1>7, <1>11 DEF HandleSound
<1>15. Fresh'
  BY <1>0, <1>2, <1>5, <1>6, <1>7 DEF Fresh, Blocked
<1>16. RcSound'
  <2>1. \A y \in Worker : (Spawner(y)' <=> Spawner(y)) /\ (Joiner(y)' <=> Joiner(y))
    BY <1>1, <1>2, <1>6, <1>7 DEF Spawner, Joiner
  <2>2. \A y \in Worker : Leaked(y)' <=> Leaked(y)
    BY <1>1, <1>2, <1>5, <1>6, <1>7 DEF Leaked
  <2> QED
    BY <1>0, <1>7, <2>1, <2>2 DEF RcSound
<1>17. NoFault' /\ SignalSound'
  BY <1>0, <1>1, <1>3 DEF NoFault, SignalSound
<1> QED
  BY <1>8, <1>9, <1>10, <1>12, <1>13, <1>14, <1>15, <1>16, <1>17 DEF ExecInv

\* worker.exit() returns to whoever resumed the worker.
LEMMA ExitInv ==
  ASSUME ExecInv, NEW w \in Worker, Exit(w)
  PROVE  ExecInv'
<1>0. /\ TypeOK /\ NoFault /\ StackSound /\ StartSound /\ DoneSound /\ JoinDelivers /\ Awaited
      /\ HandleSound /\ Fresh /\ SignalSound /\ RcSound
  BY DEF ExecInv
<1>1. /\ current = w /\ pc[w] = "exit" /\ signal = Null /\ ExitTo(w)
      /\ pc' = [pc EXCEPT ![w] = "dead"]
      /\ UNCHANGED <<child, svars, hvars, ivars, token, signal>>
  BY DEF Exit, At
<1>2. /\ w \in Workers /\ w # Main /\ Worker \subseteq Workers
      /\ caller[w] \in Workers /\ caller[w] # Null
  BY <1>0, <1>1, StackFacts, NamesAssumption DEF Workers
<1>3. /\ fault' = fault /\ current' = caller[w] /\ caller' = [caller EXCEPT ![w] = Null]
  BY <1>1, <1>2 DEF ExitTo, Check
<1>4. pc'[w] = "dead" /\ \A x \in Workers : x # w => pc'[x] = pc[x]
  BY <1>0, <1>1, <1>2 DEF TypeOK
<1>5. /\ isAsync' = isAsync /\ done' = done /\ request' = request /\ hcancel' = hcancel
      /\ houtput' = houtput /\ hwaiter' = hwaiter /\ handle' = handle /\ rc' = rc /\ child' = child
      /\ token' = token
  BY <1>1 DEF svars, hvars
<1>6. TypeOK'
  BY <1>0, <1>1, <1>2, <1>3, <1>5 DEF TypeOK, ivars
<1>7. StackSound' /\ StartSound'
  <2>1. pc'[w] \in Blocked \cup {"dead"}
    BY <1>4
  <2>2. \A x \in Workers : x # w => pc'[x] = pc[x] /\ child'[x] = child[x]
    BY <1>4, <1>5
  <2>3. \A x \in Workers : x # w /\ Starting(x) => Unclaimed(child[x])
    BY <1>5 DEF Unclaimed
  <2> QED
    BY <1>0, <1>1, <1>3, <2>1, <2>2, <2>3, PopKeeps
<1>8. DoneSound'
  BY <1>0, <1>1, <1>2, <1>4, <1>5 DEF DoneSound
<1>9. \A v \in Worker : /\ Pending(v)' <=> Pending(v)
                        /\ pc'[v] \in {"join", "await"} <=> pc[v] \in {"join", "await"}
                        /\ pc[v] \in {"join", "await"} =>
                             v # w /\ pc'[v] = pc[v] /\ child[v] \in Worker /\ child[v] # w
  BY <1>0, <1>1, <1>2, <1>4 DEF Pending, Awaited, JoinDelivers
<1>10. JoinDelivers'
  BY <1>0, <1>2, <1>4, <1>5, <1>9 DEF JoinDelivers
<1>11. Awaited'
  <2>1. \A y \in Worker : /\ request[y] # Null => request[y] \in Worker
                          /\ hwaiter[y] # Null => hwaiter[y] \in Worker
    BY <1>0 DEF TypeOK
  <2> QED
    BY <1>0, <1>5, <1>9, <2>1 DEF Awaited
<1>12. HandleSound' /\ Fresh'
  BY <1>0, <1>2, <1>4, <1>5, <1>9 DEF HandleSound, Fresh
<1>13. RcSound'
  <2>1. \A y \in Worker : (Spawner(y)' <=> Spawner(y)) /\ (Leaked(y)' <=> Leaked(y))
    BY <1>1, <1>2, <1>4, <1>5 DEF Spawner, Leaked
  <2>2. \A y \in Worker : Joiner(y)' <=> Joiner(y)
    BY <1>1, <1>2, <1>4, <1>5 DEF Joiner
  <2> QED
    BY <1>0, <1>5, <2>1, <2>2 DEF RcSound
<1>14. NoFault' /\ SignalSound'
  BY <1>0, <1>1, <1>3 DEF NoFault, SignalSound
<1> QED
  BY <1>6, <1>7, <1>8, <1>10, <1>11, <1>12, <1>13, <1>14 DEF ExecInv

-----------------------------------------------------------------------------
(* Steps in which the worker goes on *)

\* start returned inside Spawn::run: a join handle of a task that ended or of one
\* that is pending.
LEMMA SpawnReturnInv ==
  ASSUME ExecInv, NEW w \in Workers, SpawnReturn(w)
  PROVE  ExecInv'
<1>0. /\ TypeOK /\ NoFault /\ StackSound /\ StartSound /\ DoneSound /\ JoinDelivers /\ Awaited
      /\ HandleSound /\ Fresh /\ SignalSound /\ RcSound
  BY DEF ExecInv
<1>1. /\ current = w /\ pc[w] = "spawn" /\ signal = Null
      /\ pc' = [pc EXCEPT ![w] = "user"] /\ child' = [child EXCEPT ![w] = Null]
      /\ handle' = [handle EXCEPT ![child[w]] = TRUE]
      /\ UNCHANGED <<current, caller, done, request, hwaiter, ivars, token, signal, fault>>
  BY DEF SpawnReturn, At
<1>2. PICK c \in Worker : c = child[w]
  BY <1>0, <1>1 DEF StartSound, Starting
<1>3. /\ ~isAsync[c] /\ request[c] = Null /\ ~handle[c] /\ ~houtput[c] /\ hwaiter[c] = Null
      /\ pc[c] \in Blocked \/ pc[c] = "dead"
  BY <1>0, <1>1, <1>2 DEF StartSound, Starting
<1>4. /\ c # w /\ c \in Workers /\ w \in Workers /\ Worker \subseteq Workers /\ Null \notin Worker
      /\ Main \in Workers
  BY <1>1, <1>3, NamesAssumption DEF Workers, Blocked
<1>5. /\ pc'[w] = "user"
      /\ \A x \in Workers : x # w => pc'[x] = pc[x] /\ child'[x] = child[x]
      /\ handle'[c] /\ \A y \in Worker : y # c => handle'[y] = handle[y]
  BY <1>0, <1>1, <1>2, <1>4 DEF TypeOK
<1>6. /\ \A y \in Worker : y # c => isAsync'[y] = isAsync[y] /\ houtput'[y] = houtput[y] /\ rc'[y] = rc[y]
      /\ \/ done[c] /\ houtput'[c] /\ isAsync' = isAsync /\ rc'[c] = rc[c]
         \/ pc[c] \in Blocked /\ houtput' = houtput /\ isAsync'[c] /\ rc'[c] = rc[c] + 1
      /\ isAsync' \in [Worker -> BOOLEAN] /\ houtput' \in [Worker -> BOOLEAN]
      /\ hcancel' \in [Worker -> BOOLEAN] /\ rc' \in [Worker -> Nat]
  <2>0. rc[c] \in Nat
    BY <1>0 DEF TypeOK
  <2>1. CASE done[c]
    <3>1. houtput' = [houtput EXCEPT ![c] = TRUE] /\ UNCHANGED <<isAsync, hcancel, rc>>
      BY <1>2, <2>1 DEF SpawnReturn
    <3> QED
      BY <1>0, <2>1, <3>1 DEF TypeOK
  <2>2. CASE ~done[c]
    <3>1. /\ isAsync' = [isAsync EXCEPT ![c] = TRUE] /\ hcancel' = [hcancel EXCEPT ![c] = TRUE]
          /\ rc' = [rc EXCEPT ![c] = @ + 1] /\ UNCHANGED houtput
      BY <1>2, <2>2 DEF SpawnReturn
    <3>2. pc[c] \in Blocked
      BY <1>0, <1>3, <2>2 DEF DoneSound
    <3>3. /\ isAsync' \in [Worker -> BOOLEAN] /\ houtput' \in [Worker -> BOOLEAN]
          /\ hcancel' \in [Worker -> BOOLEAN] /\ rc' \in [Worker -> Nat]
      <4>1. isAsync' \in [Worker -> BOOLEAN] /\ hcancel' \in [Worker -> BOOLEAN]
        BY <1>0, <3>1 DEF TypeOK
      <4>2. houtput' \in [Worker -> BOOLEAN]
        BY <1>0, <3>1 DEF TypeOK
      <4>3. rc[c] + 1 \in Nat
        BY <2>0
      <4>4. rc' \in [Worker -> Nat]
        BY <1>0, <3>1, <4>3 DEF TypeOK
      <4> QED
        BY <4>1, <4>2, <4>4
    <3>4. isAsync'[c] /\ \A y \in Worker : y # c => isAsync'[y] = isAsync[y]
      BY <1>0, <3>1 DEF TypeOK
    <3>5. rc'[c] = rc[c] + 1 /\ \A y \in Worker : y # c => rc'[y] = rc[y]
      BY <1>0, <3>1 DEF TypeOK
    <3> QED
      BY <3>1, <3>2, <3>3, <3>4, <3>5
  <2> QED
    BY <2>1, <2>2
<1>7. TypeOK'
  BY <1>0, <1>1, <1>2, <1>4, <1>6 DEF TypeOK, ivars, OnStack
<1>8. \A x \in Workers : Starting(x) /\ x # w => child[x] # c /\ child[x] \in Worker
  BY <1>0, <1>1, <1>3 DEF StartSound, Blocked, OnStack
<1>9. StackSound' /\ StartSound'
  <2>1. \A x \in Worker : /\ pc'[x] \in OnStack <=> pc[x] \in OnStack
                          /\ pc[x] \notin OnStack => pc'[x] = pc[x]
    BY <1>1, <1>4, <1>5 DEF OnStack
  <2>2. pc'[Main] \in {"user", "spawn"}
    BY <1>0, <1>4, <1>5 DEF StackSound
  <2>3. ASSUME NEW x \in Workers, Starting(x)'
        PROVE  /\ Starting(x) /\ pc'[x] = pc[x] /\ child'[x] = child[x]
               /\ UNCHANGED <<isAsync[child[x]], request[child[x]], hwaiter[child[x]]>>
               /\ pc[x] = "spawn" =>
                    (handle'[child[x]] => handle[child[x]]) /\ (houtput'[child[x]] => houtput[child[x]])
    <3>1. x # w /\ Starting(x) /\ pc'[x] = pc[x] /\ child'[x] = child[x]
      BY <1>5, <2>3 DEF Starting
    <3> QED
      BY <1>1, <1>5, <1>6, <1>8, <3>1
  <2> QED
    BY <1>0, <1>1, <2>1, <2>2, <2>3, StayKeeps
<1>10. DoneSound'
  BY <1>0, <1>1, <1>3, <1>4, <1>5, <1>6 DEF DoneSound, Blocked
<1>11. \A v \in Worker : /\ Pending(v)' <=> Pending(v)
                         /\ pc'[v] \in {"join", "await"} <=> pc[v] \in {"join", "await"}
                         /\ pc[v] \in {"join", "await"} =>
                              v # w /\ pc'[v] = pc[v] /\ child'[v] = child[v] /\ child[v] \in Worker
                         /\ isAsync[v] => isAsync'[v]
  BY <1>0, <1>1, <1>3, <1>4, <1>5, <1>6 DEF Pending, Awaited
<1>12. JoinDelivers'
  BY <1>0, <1>1, <1>4, <1>5, <1>11 DEF JoinDelivers, OnStack
<1>13. Awaited'
  <2>1. \A y \in Worker : /\ request[y] # Null => request[y] \in Worker
                          /\ hwaiter[y] # Null => hwaiter[y] \in Worker
    BY <1>0 DEF TypeOK
  <2>2. \A y \in Worker : isAsync'[y] => isAsync[y] \/ (request[y] = Null /\ hwaiter[y] = Null)
    BY <1>3, <1>6
  <2>3. request' = request /\ hwaiter' = hwaiter
    BY <1>1
  <2> QED
    BY <1>0, <1>11, <2>1, <2>2, <2>3 DEF Awaited
<1>14. HandleSound'
  <2> SUFFICES ASSUME NEW y \in Worker, handle'[y]
               PROVE  /\ hwaiter'[y] = Null
                      /\ ~houtput'[y] => Pending(y)' /\ isAsync'[y] /\ request'[y] = Null
    BY DEF HandleSound
  <2>1. CASE y = c
    BY <1>1, <1>3, <1>6, <1>11, <2>1 DEF Pending, Blocked
  <2>2. CASE y # c
    BY <1>0, <1>1, <1>5, <1>6, <1>11, <2>2 DEF HandleSound
  <2> QED
    BY <2>1, <2>2
<1>15. Fresh'
  <2>1. \A y \in Worker : pc'[y] = "free" => y # c /\ pc[y] = "free"
    BY <1>3, <1>4, <1>5 DEF Blocked
  <2> QED
    BY <1>0, <1>1, <1>5, <1>6, <2>1 DEF Fresh
<1>16. RcSound'
  <2> SUFFICES ASSUME NEW y \in Worker
               PROVE  rc'[y] = (IF Spawner(y)' THEN 1 ELSE 0) + (IF handle'[y] THEN 1 ELSE 0)
                               + (IF Joiner(y)' THEN 1 ELSE 0) + (IF Leaked(y)' THEN 1 ELSE 0)
    BY DEF RcSound
  <2>0. /\ rc[y] \in Nat
        /\ rc[y] = (IF Spawner(y) THEN 1 ELSE 0) + (IF handle[y] THEN 1 ELSE 0)
                   + (IF Joiner(y) THEN 1 ELSE 0) + (IF Leaked(y) THEN 1 ELSE 0)
    BY <1>0 DEF RcSound, TypeOK
  <2>1. Joiner(y)' <=> Joiner(y)
    BY <1>1, <1>4, <1>5 DEF Joiner
  <2>2. CASE y # c
    <3>1. Spawner(y)' <=> Spawner(y)
      BY <1>1, <1>2, <1>5, <2>2 DEF Spawner
    <3>2. Leaked(y)' <=> Leaked(y)
      BY <1>1, <1>4, <1>5, <1>6, <2>2 DEF Leaked
    <3> QED
      BY <1>5, <1>6, <2>0, <2>1, <2>2, <3>1, <3>2
  <2>3. CASE y = c
    <3>1. Spawner(c)
      BY <1>1, <1>2 DEF Spawner
    <3>2. ~Spawner(c)'
      BY <1>5, <1>8 DEF Spawner, Starting
    <3>3. ~Leaked(c)
      BY <1>3 DEF Leaked
    <3>4. CASE done[c] /\ isAsync' = isAsync /\ rc'[c] = rc[c]
      <4>1. ~Leaked(c)'
        BY <1>3, <3>4 DEF Leaked
      <4> QED
        BY <1>3, <1>5, <2>0, <2>1, <2>3, <3>1, <3>2, <3>3, <3>4, <4>1
    <3>5. CASE pc[c] \in Blocked /\ isAsync'[c] /\ rc'[c] = rc[c] + 1
      <4>1. Leaked(c)'
        BY <1>1, <1>3, <1>4, <1>5, <3>5 DEF Leaked, Blocked
      <4> QED
        BY <1>3, <1>5, <2>0, <2>1, <2>3, <3>1, <3>2, <3>3, <3>5, <4>1
    <3> QED
      BY <1>6, <3>4, <3>5
  <2> QED
    BY <2>2, <2>3
<1>17. NoFault' /\ SignalSound'
  BY <1>0, <1>1 DEF NoFault, SignalSound
<1> QED
  BY <1>7, <1>9, <1>10, <1>12, <1>13, <1>14, <1>15, <1>16, <1>17 DEF ExecInv

\* start returned inside block_on and the child has ended: go on.
LEMMA AwaitDoneInv ==
  ASSUME ExecInv, NEW w \in Worker, AwaitReturn(w), done[child[w]]
  PROVE  ExecInv'
<1>0. /\ TypeOK /\ NoFault /\ StackSound /\ StartSound /\ DoneSound /\ JoinDelivers /\ Awaited
      /\ HandleSound /\ Fresh /\ SignalSound /\ RcSound
  BY DEF ExecInv
<1>1. /\ current = w /\ pc[w] = "start" /\ signal = Null /\ Unblock(w)
      /\ UNCHANGED <<current, caller, isAsync, fault, done, request, hvars, ivars, signal>>
  BY DEF AwaitReturn, At
<1>2. w \in Workers /\ w # Main /\ Main \in Workers /\ Worker \subseteq Workers
  BY NamesAssumption DEF Workers
<1>3. /\ pc'[w] = "user"
      /\ \A x \in Workers : x # w => pc'[x] = pc[x] /\ child'[x] = child[x]
      /\ \A x \in Worker : x # w => token'[x] = token[x]
  BY <1>0, <1>1, <1>2 DEF Unblock, TypeOK
<1>4. /\ done' = done /\ request' = request /\ hcancel' = hcancel /\ isAsync' = isAsync
      /\ houtput' = houtput /\ hwaiter' = hwaiter /\ handle' = handle /\ rc' = rc
  BY <1>1 DEF hvars
<1>5. TypeOK'
  BY <1>0, <1>1, <1>2, <1>4 DEF TypeOK, Unblock, ivars, OnStack
<1>6. StackSound' /\ StartSound'
  <2>1. \A x \in Worker : /\ pc'[x] \in OnStack <=> pc[x] \in OnStack
                          /\ pc[x] \notin OnStack => pc'[x] = pc[x]
    BY <1>1, <1>2, <1>3 DEF OnStack
  <2>2. pc'[Main] \in {"user", "spawn"}
    BY <1>0, <1>2, <1>3 DEF StackSound
  <2>3. ASSUME NEW x \in Workers, Starting(x)'
        PROVE  /\ Starting(x) /\ pc'[x] = pc[x] /\ child'[x] = child[x]
               /\ UNCHANGED <<isAsync[child[x]], request[child[x]], hwaiter[child[x]]>>
               /\ pc[x] = "spawn" =>
                    (handle'[child[x]] => handle[child[x]]) /\ (houtput'[child[x]] => houtput[child[x]])
    <3>1. x # w /\ Starting(x) /\ pc'[x] = pc[x] /\ child'[x] = child[x]
      BY <1>3, <2>3 DEF Starting
    <3> QED
      BY <1>4, <3>1
  <2> QED
    BY <1>0, <1>1, <2>1, <2>2, <2>3, StayKeeps
<1>7. DoneSound'
  BY <1>0, <1>1, <1>2, <1>3, <1>4 DEF DoneSound
<1>8. \A v \in Worker : /\ Pending(v)' <=> Pending(v)
                        /\ pc'[v] \in {"join", "await"} <=> pc[v] \in {"join", "await"}
                        /\ pc[v] \in {"join", "await"} =>
                             v # w /\ pc'[v] = pc[v] /\ child'[v] = child[v] /\ child[v] \in Worker
  BY <1>0, <1>1, <1>2, <1>3 DEF Pending, Awaited
<1>9. JoinDelivers'
  BY <1>0, <1>2, <1>3, <1>4, <1>8 DEF JoinDelivers, OnStack
<1>10. Awaited'
  <2>1. \A y \in Worker : /\ request[y] # Null => request[y] \in Worker
                          /\ hwaiter[y] # Null => hwaiter[y] \in Worker
    BY <1>0 DEF TypeOK
  <2> QED
    BY <1>0, <1>4, <1>8, <2>1 DEF Awaited
<1>11. HandleSound' /\ Fresh'
  BY <1>0, <1>2, <1>3, <1>4, <1>8 DEF HandleSound, Fresh
<1>12. RcSound'
  <2>1. \A y \in Worker : (Spawner(y)' <=> Spawner(y)) /\ (Leaked(y)' <=> Leaked(y))
    BY <1>1, <1>2, <1>3, <1>4 DEF Spawner, Leaked
  <2>2. \A y \in Worker : Joiner(y)' <=> Joiner(y)
    BY <1>1, <1>2, <1>3 DEF Joiner
  <2> QED
    BY <1>0, <1>4, <2>1, <2>2 DEF RcSound
<1>13. NoFault' /\ SignalSound'
  BY <1>0, <1>1 DEF NoFault, SignalSound
<1> QED
  BY <1>5, <1>6, <1>7, <1>9, <1>10, <1>11, <1>12, <1>13 DEF ExecInv

\* The end of a task that nobody waits for: inside start, or with a join handle
\* that takes the output.
LEMMA FinishInv ==
  ASSUME ExecInv, NEW w \in Worker, FinishSync(w) \/ (FinishSpawned(w) /\ hwaiter[w] = Null)
  PROVE  ExecInv'
<1>0. /\ TypeOK /\ NoFault /\ StackSound /\ StartSound /\ DoneSound /\ JoinDelivers /\ Awaited
      /\ HandleSound /\ Fresh /\ SignalSound /\ RcSound
  BY DEF ExecInv
<1>1. /\ current = w /\ pc[w] = "user" /\ signal = Null /\ pc' = [pc EXCEPT ![w] = "exit"]
      /\ UNCHANGED <<current, caller, child, isAsync, request, hcancel, hwaiter, handle, ivars, token,
                     signal, fault>>
  BY DEF FinishSync, FinishSpawned, Running, At, svars, hvars
<1>2. w \in Workers /\ w # Main /\ Main \in Workers /\ Worker \subseteq Workers /\ Null \notin Worker
  BY NamesAssumption DEF Workers
<1>3. pc'[w] = "exit" /\ \A x \in Workers : x # w => pc'[x] = pc[x]
  BY <1>0, <1>1, <1>2 DEF TypeOK
<1>4. /\ \A y \in Worker : y # w => done'[y] = done[y] /\ houtput'[y] = houtput[y] /\ rc'[y] = rc[y]
      /\ \/ ~isAsync[w] /\ done'[w] /\ houtput' = houtput /\ rc'[w] = rc[w]
         \/ /\ isAsync[w] /\ request[w] = Null /\ hwaiter[w] = Null /\ houtput'[w] /\ rc'[w] = rc[w] - 1
      /\ done' \in [Worker -> BOOLEAN] /\ houtput' \in [Worker -> BOOLEAN]
      /\ rc' \in [Worker -> Nat]
  <2>1. CASE FinishSync(w)
    BY <1>0, <2>1 DEF FinishSync, TypeOK, hvars
  <2>2. CASE FinishSpawned(w) /\ hwaiter[w] = Null
    <3>1. /\ isAsync[w] /\ request[w] = Null /\ houtput' = [houtput EXCEPT ![w] = TRUE]
          /\ rc' = [rc EXCEPT ![w] = @ - 1] /\ done' = done
      BY <2>2 DEF FinishSpawned, svars
    <3>2. Leaked(w)
      BY <1>1, <3>1 DEF Leaked
    <3>3. rc[w] - 1 \in Nat
      BY <1>0, <3>2 DEF RcSound
    <3> QED
      BY <1>0, <2>2, <3>1, <3>3 DEF TypeOK
  <2> QED
    BY <2>1, <2>2
<1>5. TypeOK'
  BY <1>0, <1>1, <1>2, <1>4 DEF TypeOK, ivars, OnStack
<1>6. StackSound' /\ StartSound'
  <2>1. \A x \in Worker : /\ pc'[x] \in OnStack <=> pc[x] \in OnStack
                          /\ pc[x] \notin OnStack => pc'[x] = pc[x]
    BY <1>1, <1>2, <1>3 DEF OnStack
  <2>2. pc'[Main] \in {"user", "spawn"}
    BY <1>0, <1>2, <1>3 DEF StackSound
  <2>3. ASSUME NEW x \in Workers, Starting(x)'
        PROVE  /\ Starting(x) /\ pc'[x] = pc[x] /\ child'[x] = child[x]
               /\ UNCHANGED <<isAsync[child[x]], request[child[x]], hwaiter[child[x]]>>
               /\ pc[x] = "spawn" =>
                    (handle'[child[x]] => handle[child[x]]) /\ (houtput'[child[x]] => houtput[child[x]])
    <3>1. x # w /\ Starting(x) /\ pc'[x] = pc[x] /\ child'[x] = child[x]
      BY <1>1, <1>3, <2>3 DEF Starting
    <3>2. child[x] \in Worker /\ ~isAsync[child[x]]
      BY <1>0, <3>1 DEF StartSound
    <3>3. houtput'[child[x]] = houtput[child[x]]
      BY <1>4, <3>2
    <3> QED
      BY <1>1, <3>1, <3>3
  <2> QED
    BY <1>0, <1>1, <2>1, <2>2, <2>3, StayKeeps
<1>7. DoneSound'
  BY <1>0, <1>1, <1>2, <1>3, <1>4 DEF DoneSound
<1>8. \A v \in Worker : /\ Pending(v)' <=> Pending(v) /\ v # w
                        /\ pc'[v] \in {"join", "await"} <=> pc[v] \in {"join", "await"}
                        /\ pc[v] \in {"join", "await"} =>
                             v # w /\ pc'[v] = pc[v] /\ child[v] \in Worker /\ child[v] # w
  <2>1. \A v \in Worker : pc[v] \in {"join", "await"} => child[v] \in Worker /\ child[v] # w
    BY <1>0, <1>2, <1>4 DEF Awaited, JoinDelivers
  <2> QED
    BY <1>1, <1>2, <1>3, <2>1 DEF Pending
<1>9. JoinDelivers'
  BY <1>0, <1>1, <1>2, <1>3, <1>8 DEF JoinDelivers
<1>10. Awaited'
  <2>1. \A y \in Worker : /\ request[y] # Null => request[y] \in Worker
                          /\ hwaiter[y] # Null => hwaiter[y] \in Worker
    BY <1>0 DEF TypeOK
  <2>2. child' = child /\ isAsync' = isAsync /\ request' = request /\ hwaiter' = hwaiter
    BY <1>1
  <2> QED
    BY <1>0, <1>8, <2>1, <2>2 DEF Awaited
<1>11. HandleSound'
  <2>1. handle[w] => houtput'[w]
    BY <1>0, <1>4 DEF HandleSound
  <2> QED
    BY <1>0, <1>1, <1>4, <1>8, <2>1 DEF HandleSound
<1>12. Fresh'
  BY <1>0, <1>1, <1>2, <1>3, <1>4 DEF Fresh
<1>13. RcSound'
  <2> SUFFICES ASSUME NEW y \in Worker
               PROVE  rc'[y] = (IF Spawner(y)' THEN 1 ELSE 0) + (IF handle'[y] THEN 1 ELSE 0)
                               + (IF Joiner(y)' THEN 1 ELSE 0) + (IF Leaked(y)' THEN 1 ELSE 0)
    BY DEF RcSound
  <2>0. /\ rc[y] \in Nat
        /\ rc[y] = (IF Spawner(y) THEN 1 ELSE 0) + (IF handle[y] THEN 1 ELSE 0)
                   + (IF Joiner(y) THEN 1 ELSE 0) + (IF Leaked(y) THEN 1 ELSE 0)
    BY <1>0 DEF RcSound, TypeOK
  <2>1. (Joiner(y)' <=> Joiner(y)) /\ (Spawner(y)' <=> Spawner(y)) /\ handle' = handle
    BY <1>1, <1>2, <1>3 DEF Joiner, Spawner
  <2>2. CASE y # w
    <3>1. Leaked(y)' <=> Leaked(y)
      BY <1>1, <1>2, <1>3, <2>2 DEF Leaked
    <3> QED
      BY <1>4, <2>0, <2>1, <2>2, <3>1
  <2>3. CASE y = w
    <3>1. ~Leaked(w)'
      BY <1>3 DEF Leaked
    <3>2. CASE ~isAsync[w] /\ rc'[w] = rc[w]
      <4>1. ~Leaked(w)
        BY <3>2 DEF Leaked
      <4> QED
        BY <2>0, <2>1, <2>3, <3>1, <3>2, <4>1
    <3>3. CASE isAsync[w] /\ request[w] = Null /\ rc'[w] = rc[w] - 1
      <4>1. Leaked(w)
        BY <1>1, <3>3 DEF Leaked
      <4> QED
        BY <2>0, <2>1, <2>3, <3>1, <3>3, <4>1
    <3> QED
      BY <1>4, <3>2, <3>3
  <2> QED
    BY <2>2, <2>3
<1>14. NoFault' /\ SignalSound'
  BY <1>0, <1>1 DEF NoFault, SignalSound
<1> QED
  BY <1>5, <1>6, <1>7, <1>9, <1>10, <1>11, <1>12, <1>13, <1>14 DEF ExecInv

-----------------------------------------------------------------------------
(* The theorems *)

\* Initially no task has started and the event loop has control.
LEMMA ExecInit ==
  ASSUME Init
  PROVE  ExecInv
<1>1. /\ Main \notin Worker /\ Null \notin Worker /\ Main # Null
  BY NamesAssumption
<1>2. \A w \in Worker : /\ pc[w] = "free" /\ caller[w] = Null /\ ~isAsync[w] /\ ~done[w]
                        /\ request[w] = Null /\ ~houtput[w] /\ hwaiter[w] = Null /\ ~handle[w]
                        /\ rc[w] = 0
  BY <1>1 DEF Init
<1>3. pc[Main] = "user" /\ \A w \in Workers : pc[w] = "free" \/ pc[w] = "user"
  BY DEF Init, Workers
<1>4. TypeOK
  BY GuardsAssumption DEF Init, TypeOK, Workers, OnStack, Blocked
<1>5. StackSound
  <2>1. << >> \in Seq(Worker) /\ Len(<< >>) = 0 /\ 1..0 = {}
    OBVIOUS
  <2>2. IsStack(<< >>)
    BY <1>2, <2>1 DEF IsStack, Init, OnStack
  <2> QED
    BY <1>2, <1>3, <2>1, <2>2 DEF StackSound
<1>6. StartSound /\ DoneSound /\ JoinDelivers /\ Awaited /\ HandleSound /\ Fresh
  BY <1>2, <1>3 DEF StartSound, Starting, DoneSound, JoinDelivers, Awaited, Pending, HandleSound, Fresh
<1>7. NoFault /\ SignalSound
  BY DEF Init, NoFault, SignalSound
<1>8. RcSound
  <2>1. \A c \in Worker : ~Spawner(c) /\ ~Joiner(c) /\ ~Leaked(c)
    BY <1>2, <1>3 DEF Spawner, Joiner, Leaked
  <2> QED
    BY <1>2, <2>1 DEF RcSound
<1> QED
  BY <1>4, <1>5, <1>6, <1>7, <1>8 DEF ExecInv

\* Every step keeps the invariant.
LEMMA ExecNext ==
  ASSUME DebugAssertions, ExecInv, [Next]_vars
  PROVE  ExecInv'
<1>0. Workers = Worker \cup {Main} /\ Worker \subseteq Workers
  BY DEF Workers
<1>1. CASE Interrupt
  <2>1. CASE InterruptFlag
    BY <2>1, InterruptFlagInv
  <2>2. CASE \E now \in BOOLEAN : InterruptEvent(now)
    <3>1. InterruptEvent(TRUE) \/ InterruptEvent(FALSE)
      BY <2>2
    <3> QED
      BY <3>1, InterruptPassInv, CompleteEventInv
  <2>3. CASE InterruptAwait
    BY <2>3, InterruptPassInv
  <2>4. CASE InterruptJoin
    BY <2>4, InterruptJoinInv
  <2> QED
    BY <1>1, <2>1, <2>2, <2>3, <2>4 DEF Interrupt
<1>2. ASSUME NEW w \in Workers, Return(w) PROVE ExecInv'
  <2>1. CASE SpawnReturn(w)
    BY <2>1, SpawnReturnInv
  <2>2. CASE w \in Worker /\ AwaitReturn(w)
    BY <2>2, AwaitInv, AwaitDoneInv
  <2>3. CASE w \in Worker /\ Exit(w)
    BY <2>3, ExitInv
  <2> QED
    BY <1>2, <2>1, <2>2, <2>3 DEF Return
<1>3. ASSUME NEW w \in Worker, Yield(w) \/ GuardNew(w) \/ GuardDrop(w) \/ ClearInterrupt(w) PROVE ExecInv'
  <2>1. CASE BlockEvent(w)
    BY <2>1, BlockEventInv
  <2>2. CASE FinishSync(w)
    BY <2>2, FinishInv
  <2>3. CASE FinishAwaited(w)
    BY <2>3, CompleteInv
  <2>4. CASE FinishSpawned(w)
    BY <2>4, CompleteInv, FinishInv
  <2>5. CASE GuardNew(w) \/ GuardDrop(w) \/ ClearInterrupt(w)
    BY <2>5, GuardInv
  <2> QED
    BY <1>3, <2>1, <2>2, <2>3, <2>4, <2>5 DEF Yield
<1>4. ASSUME NEW w \in Worker, NEW c \in Worker, SpawnAwait(w, c) \/ JoinBlock(w, c) PROVE ExecInv'
  BY <1>0, <1>4, StartInv, JoinBlockInv
<1>5. ASSUME NEW w \in Workers, NEW c \in Worker,
             Spawn(w, c) \/ CompleteEvent(w, c) \/ RequestCancel(w, c) \/ JoinDone(w, c) \/ DropHandle(w, c)
      PROVE  ExecInv'
  BY <1>5, StartInv, CompleteEventInv, RequestCancelInv, ReleaseInv
<1>6. CASE UNCHANGED vars
  <2>1. /\ current' = current /\ caller' = caller /\ pc' = pc /\ child' = child
        /\ isAsync' = isAsync /\ done' = done /\ request' = request
        /\ hcancel' = hcancel /\ houtput' = houtput /\ hwaiter' = hwaiter /\ handle' = handle /\ rc' = rc
        /\ interrupted' = interrupted /\ guards' = guards /\ token' = token /\ signal' = signal
        /\ fault' = fault
    BY <1>6 DEF vars, svars, hvars, ivars
  <2>2. TypeOK' /\ SignalSound'
    BY <2>1 DEF ExecInv, TypeOK, SignalSound, Pending
  <2>3. \A y \in Worker : (Joiner(y)' <=> Joiner(y)) /\ rc'[y] = rc[y]
    BY <2>1 DEF Joiner
  <2> QED
    BY <2>1, <2>2, <2>3, CalmKeeps DEF svars
<1> QED
  BY <1>0, <1>1, <1>2, <1>3, <1>4, <1>5, <1>6 DEF Next

\* The references counted one by one are the cardinalities that RcExact adds.
LEMMA RcCounts ==
  ASSUME ExecInv
  PROVE  RcExact
<1>0. StartSound /\ JoinDelivers /\ RcSound
  BY DEF ExecInv
<1> SUFFICES ASSUME NEW c \in Worker
             PROVE  rc[c] = Cardinality({w \in Workers : pc[w] = "spawn" /\ child[w] = c})
                            + (IF handle[c] THEN 1 ELSE 0)
                            + Cardinality({w \in Worker : pc[w] = "join" /\ child[w] = c /\ token[w]})
                            + (IF isAsync[c] /\ request[c] = Null /\ pc[c] \notin {"exit", "dead"}
                                 THEN 1 ELSE 0)
  BY DEF RcExact
<1> DEFINE S == {w \in Workers : pc[w] = "spawn" /\ child[w] = c}
           J == {w \in Worker : pc[w] = "join" /\ child[w] = c /\ token[w]}
<1>1. Cardinality(S) = IF Spawner(c) THEN 1 ELSE 0
  <2>1. ASSUME NEW v \in S, NEW w \in S PROVE v = w
    <3>1. Starting(v) /\ Starting(w) /\ v \in Workers /\ w \in Workers /\ child[v] = c /\ child[w] = c
      BY DEF Starting
    <3> QED
      BY <1>0, <3>1 DEF StartSound, OnStack, Blocked
  <2>2. CASE Spawner(c)
    <3>1. PICK w \in Workers : pc[w] = "spawn" /\ child[w] = c
      BY <2>2 DEF Spawner
    <3>2. S = {w}
      BY <2>1, <3>1
    <3> QED
      BY <2>2, <3>2, FS_Singleton
  <2>3. CASE ~Spawner(c)
    <3>1. S = {}
      BY <2>3 DEF Spawner
    <3> QED
      BY <2>3, <3>1, FS_EmptySet
  <2> QED
    BY <2>2, <2>3
<1>2. Cardinality(J) = IF Joiner(c) THEN 1 ELSE 0
  <2>1. CASE Joiner(c)
    <3>1. PICK w \in Worker : pc[w] = "join" /\ child[w] = c /\ token[w]
      BY <2>1 DEF Joiner
    <3>2. J = {w}
      BY <1>0, <3>1, OneJoiner
    <3> QED
      BY <2>1, <3>2, FS_Singleton
  <2>2. CASE ~Joiner(c)
    <3>1. J = {}
      BY <2>2 DEF Joiner
    <3> QED
      BY <2>2, <3>1, FS_EmptySet
  <2> QED
    BY <2>1, <2>2
<1>3. rc[c] = (IF Spawner(c) THEN 1 ELSE 0) + (IF handle[c] THEN 1 ELSE 0)
              + (IF Joiner(c) THEN 1 ELSE 0) + (IF Leaked(c) THEN 1 ELSE 0)
  BY <1>0 DEF RcSound
<1> HIDE DEF S, J
<1>4. rc[c] = Cardinality(S) + (IF handle[c] THEN 1 ELSE 0) + Cardinality(J)
              + (IF isAsync[c] /\ request[c] = Null /\ pc[c] \notin {"exit", "dead"} THEN 1 ELSE 0)
  BY <1>1, <1>2, <1>3 DEF Leaked
<1> QED
  BY <1>4 DEF S, J

\* A set of naturals that is not empty has a least element.
LEMMA LeastOf ==
  ASSUME NEW T \in SUBSET Nat, T # {}
  PROVE  \E x \in T : \A y \in T : x <= y
<1> DEFINE R == {ss \in Nat \X Nat : ss[1] < ss[2]}
<1>1. IsWellFoundedOn(R, Nat)
  BY NatLessThanWellFounded DEF OpToRel
<1>2. \A x, y \in Nat : <<y, x>> \in R <=> y < x
  OBVIOUS
<1> HIDE DEF R
<1>3. PICK x \in T : \A y \in T : ~(<<y, x>> \in R)
  BY <1>1, WFMin
<1>4. ASSUME NEW y \in T PROVE x <= y
  <2>1. x \in Nat /\ y \in Nat /\ ~(y < x)
    BY <1>2, <1>3
  <2> QED
    BY <2>1
<1> QED
  BY <1>4

\* The n-th worker that the callers lead to from the top of s.
Below(s, n) == IF n < Len(s) THEN s[Len(s) - n] ELSE Main

\* A stack is no longer than there are workers.
LEMMA StackFits ==
  ASSUME NEW s \in Seq(Worker), IsStack(s)
  PROVE  Len(s) \in 0..Cardinality(Worker) /\ Cardinality(Worker) \in Nat
<1>1. Len(s) \in Nat /\ s \in [1..Len(s) -> Worker]
  OBVIOUS
<1>2. s \in Injection(1..Len(s), Worker)
  BY <1>1 DEF IsStack, Injection, IsInjective
<1>3. Cardinality(1..Len(s)) <= Cardinality(Worker) /\ Cardinality(Worker) \in Nat
  BY <1>2, NamesAssumption, FS_Injection, FS_CardinalityType
<1>4. Cardinality(1..Len(s)) = Len(s)
  BY <1>1, FS_Interval
<1> QED
  BY <1>1, <1>3, <1>4

\* The callers, followed from the worker that has control, go down the stack.
LEMMA ChainIs ==
  ASSUME NEW s \in Seq(Worker), IsStack(s)
  PROVE  \A n \in 0..Cardinality(Worker) : Chain[n] = Below(s, n)
<1> DEFINE D == 0..Cardinality(Worker)
           F(h) == [n \in D |-> IF n = 0 THEN current
                                ELSE IF h[n - 1] \in Worker THEN caller[h[n - 1]] ELSE h[n - 1]]
           g == [n \in D |-> Below(s, n)]
<1>0. /\ Cardinality(Worker) \in Nat /\ Len(s) \in Nat
      /\ \A i \in 1..Len(s) : s[i] \in Worker
      /\ Main \notin Worker
  BY StackFits, NamesAssumption
<1>1. /\ Len(s) = 0 => current = Main
      /\ Len(s) # 0 => current = s[Len(s)]
      /\ \A i \in 1..Len(s) : (i = 1 => caller[s[i]] = Main) /\ (i # 1 => caller[s[i]] = s[i - 1])
  BY DEF IsStack
<1>2. \A n \in D : n # 0 => n - 1 \in D
  BY <1>0
<1>3. Below(s, 0) = current
  BY <1>0, <1>1 DEF Below
<1>4. ASSUME NEW n \in D, n # 0
      PROVE  Below(s, n) = IF Below(s, n - 1) \in Worker THEN caller[Below(s, n - 1)] ELSE Below(s, n - 1)
  <2>1. CASE n - 1 < Len(s)
    <3>1. /\ Len(s) - (n - 1) \in 1..Len(s)
          /\ Len(s) - (n - 1) = 1 <=> ~(n < Len(s))
          /\ Len(s) - (n - 1) - 1 = Len(s) - n
      BY <1>0, <1>4, <2>1
    <3>2. Below(s, n - 1) = s[Len(s) - (n - 1)]
      BY <2>1 DEF Below
    <3>3. caller[Below(s, n - 1)] = Below(s, n)
      BY <1>1, <3>1, <3>2 DEF Below
    <3> QED
      BY <1>0, <3>1, <3>2, <3>3
  <2>2. CASE ~(n - 1 < Len(s))
    <3>1. Below(s, n - 1) = Main /\ Below(s, n) = Main
      BY <1>0, <1>4, <2>2 DEF Below
    <3> QED
      BY <1>0, <3>1
  <2> QED
    BY <2>1, <2>2
<1>5. g = F(g)
  BY <1>2, <1>3, <1>4
<1>6. Chain = CHOOSE h : h = F(h)
  BY DEF Chain
<1>7. Chain = F(Chain)
  <2> HIDE DEF F, g
  <2>1. \E h : h = F(h)
    BY <1>5
  <2>2. (CHOOSE h : h = F(h)) = F(CHOOSE h : h = F(h))
    BY <2>1
  <2> QED
    BY <1>6, <2>2
<1>8. /\ Chain[0] = Below(s, 0)
      /\ \A n \in D : n # 0 /\ Chain[n - 1] = Below(s, n - 1) => Chain[n] = Below(s, n)
  <2>1. \A n \in D : Chain[n] = IF n = 0 THEN current
                                ELSE IF Chain[n - 1] \in Worker THEN caller[Chain[n - 1]] ELSE Chain[n - 1]
    BY <1>7
  <2>2. 0 \in D
    BY <1>0
  <2> HIDE DEF D
  <2> QED
    BY <1>3, <1>4, <2>1, <2>2
<1>9. ASSUME NEW m \in D, Chain[m] # Below(s, m) PROVE FALSE
  <2> DEFINE T == {n \in D : Chain[n] # Below(s, n)}
  <2>1. T \in SUBSET Nat /\ T # {}
    BY <1>0, <1>9
  <2>2. PICK x \in T : \A y \in T : x <= y
    BY <2>1, LeastOf
  <2>3. x \in D /\ Chain[x] # Below(s, x) /\ x # 0 /\ x - 1 \in D
    BY <1>2, <1>8
  <2>4. x - 1 \notin T
    BY <1>0, <2>2, <2>3
  <2>5. Chain[x - 1] = Below(s, x - 1)
    BY <2>3, <2>4
  <2> QED
    BY <1>8, <2>3, <2>5
<1> QED
  BY <1>9

\* So the stack that the pointers describe is s.
LEMMA StackIs == \A s \in Seq(Worker) : IsStack(s) => Stack = s
<1> SUFFICES ASSUME NEW s \in Seq(Worker), IsStack(s) PROVE Stack = s
  OBVIOUS
<1> DEFINE D == 0..Cardinality(Worker)
           Top(n) == Chain[n] \notin Worker /\ \A m \in 0..(n - 1) : Chain[m] \in Worker
<1>0. /\ Cardinality(Worker) \in Nat /\ Len(s) \in Nat /\ Len(s) \in D
      /\ \A i \in 1..Len(s) : s[i] \in Worker
      /\ s = [i \in 1..Len(s) |-> s[i]]
      /\ Main \notin Worker
  BY StackFits, NamesAssumption
<1>1. \A n \in D : Chain[n] = Below(s, n)
  BY ChainIs
<1>2. Chain[Len(s)] = Main
  BY <1>0, <1>1 DEF Below
<1>3. \A m \in 0..(Len(s) - 1) : m \in D /\ m < Len(s) /\ Len(s) - m \in 1..Len(s)
  BY <1>0
<1>4. \A m \in 0..(Len(s) - 1) : Chain[m] = s[Len(s) - m] /\ Chain[m] \in Worker
  BY <1>0, <1>1, <1>3 DEF Below
<1>5. Top(Len(s))
  BY <1>0, <1>2, <1>4
<1>6. ASSUME NEW n \in D, Top(n) PROVE n = Len(s)
  <2>1. n \in Nat
    BY <1>0
  <2>2. CASE n < Len(s)
    <3>1. n \in 0..(Len(s) - 1)
      BY <1>0, <2>1, <2>2
    <3> QED
      BY <1>4, <1>6, <3>1
  <2>3. CASE n > Len(s)
    <3>1. Len(s) \in 0..(n - 1)
      BY <1>0, <2>1, <2>3
    <3> QED
      BY <1>0, <1>2, <1>6, <3>1
  <2> QED
    BY <1>0, <2>1, <2>2, <2>3
<1>7. (CHOOSE n \in D : Top(n)) = Len(s)
  <2> HIDE DEF D, Top
  <2>1. \E n \in D : Top(n)
    BY <1>0, <1>5
  <2>2. (CHOOSE n \in D : Top(n)) \in D /\ Top(CHOOSE n \in D : Top(n))
    BY <2>1
  <2> QED
    BY <1>6, <2>2
<1>8. Stack = [i \in 1..Len(s) |-> Chain[Len(s) - i]]
  <2> DEFINE top == CHOOSE n \in D : Top(n)
  <2>1. Stack = [i \in 1..top |-> Chain[top - i]]
    BY DEF Stack
  <2>2. top = Len(s)
    BY <1>7
  <2> HIDE DEF top
  <2> QED
    BY <2>1, <2>2
<1>9. \A i \in 1..Len(s) : Chain[Len(s) - i] = s[i]
  <2>1. \A i \in 1..Len(s) : Len(s) - i \in 0..(Len(s) - 1) /\ Len(s) - (Len(s) - i) = i
    BY <1>0
  <2> QED
    BY <1>4, <2>1
<1> QED
  BY <1>0, <1>8, <1>9

\* The invariant makes the workers on the stack those in the middle of a call.
LEMMA StackCounts ==
  ASSUME ExecInv
  PROVE  StackSafe
<1>1. NoFault /\ StackSound
  BY DEF ExecInv
<1>2. PICK s \in Seq(Worker) : IsStack(s)
  BY <1>1 DEF StackSound
<1>3. Stack = s
  BY <1>2, StackIs
<1>4. /\ \A i \in 1..Len(s) : s[i] \in Worker
      /\ \A w \in Worker : pc[w] \in OnStack <=> \E i \in 1..Len(s) : s[i] = w
  BY <1>2 DEF IsStack
<1>5. StackExact
  BY <1>3, <1>4 DEF StackExact
<1> QED
  BY <1>1, <1>5 DEF StackSafe

\* The invariant of every behaviour.
LEMMA ExecAlways ==
  ASSUME DebugAssertions
  PROVE  Spec => []ExecInv
<1>1. Init => ExecInv
  BY ExecInit
<1>2. ExecInv /\ [Next]_vars => ExecInv'
  BY ExecNext
<1> QED
  BY <1>1, <1>2, PTL DEF Spec

\* In a build with debug_assertions no assertion of executor.rs, block_on.rs or
\* spawn.rs fails, and the recorded callers are the workers in the middle of a
\* call (Executor::resume, suspend, exit), for any number of workers.
THEOREM ExecutorStackSafe ==
  ASSUME DebugAssertions
  PROVE  Spec => []StackSafe
<1>1. ExecInv => StackSafe
  BY StackCounts
<1> QED
  BY <1>1, ExecAlways, PTL

\* Whoever waits for a task is the one its completion resumes, and the Rc<Spawn>
\* is counted exactly (Spawn::run, spawn_complete, JoinHandle).
THEOREM ExecutorSpawnExact ==
  ASSUME DebugAssertions
  PROVE  Spec => []SpawnExact
<1>1. ExecInv => SpawnExact
  BY RcCounts DEF ExecInv, SpawnExact
<1> QED
  BY <1>1, ExecAlways, PTL

-----------------------------------------------------------------------------
(* What a step does to the stack *)

\* Every other worker is on the stack, and over, as before.
Others(w) ==
    \A x \in Worker : x # w => /\ pc'[x] \in OnStack <=> pc[x] \in OnStack
                               /\ pc'[x] = "dead" <=> pc[x] = "dead"

PushStep(w) ==
    /\ pc[w] \notin OnStack \cup {"dead"} /\ pc'[w] = "user"
    /\ current' = w /\ caller' = [caller EXCEPT ![w] = current]
    /\ Others(w)

PopStep(w) ==
    /\ current = w /\ pc[w] \in OnStack /\ pc'[w] \in Blocked \cup {"dead"}
    /\ current' = caller[w] /\ caller' = [caller EXCEPT ![w] = Null]
    /\ Others(w)

StayStep ==
    /\ UNCHANGED <<current, caller>>
    /\ \A x \in Worker : /\ pc'[x] \in OnStack <=> pc[x] \in OnStack
                         /\ pc'[x] = "dead" <=> pc[x] = "dead"

CallStep == (\E w \in Worker : PushStep(w) \/ PopStep(w)) \/ StayStep

\* No worker stops waiting for another except when that other has ended.
JoinStep ==
    \A w \in Worker : pc[w] \in {"join", "await"} /\ pc'[w] # pc[w] =>
        pc'[w] = "user" /\ pc'[child[w]] = "exit" /\ current = child[w]

\* A step that leaves pc alone, or changes it for a worker that was on the stack
\* and stays there.
LEMMA StayIs ==
  ASSUME TypeOK, UNCHANGED <<current, caller>>,
         \/ pc' = pc
         \/ \E w \in Workers : \E p \in {"user", "exit"} :
              pc[w] \in OnStack /\ pc' = [pc EXCEPT ![w] = p]
  PROVE  CallStep /\ JoinStep
<1>1. CASE pc' = pc
  BY <1>1 DEF CallStep, StayStep, JoinStep
<1>2. CASE \E w \in Workers : \E p \in {"user", "exit"} :
             pc[w] \in OnStack /\ pc' = [pc EXCEPT ![w] = p]
  <2>1. PICK w \in Workers, p \in {"user", "exit"} :
               pc[w] \in OnStack /\ pc' = [pc EXCEPT ![w] = p]
    BY <1>2
  <2>2. pc'[w] = p /\ \A x \in Workers : x # w => pc'[x] = pc[x]
    BY <2>1 DEF TypeOK
  <2>3. Worker \subseteq Workers
    BY DEF Workers
  <2>4. StayStep
    BY <2>1, <2>2, <2>3 DEF StayStep, OnStack
  <2>5. JoinStep
    BY <2>1, <2>2, <2>3 DEF JoinStep, OnStack
  <2> QED
    BY <2>4, <2>5 DEF CallStep
<1> QED
  BY <1>1, <1>2

\* Suspending, or exiting, at the top of the stack.
LEMMA PopIs ==
  ASSUME TypeOK, NEW w \in Worker, current = w, pc[w] \in OnStack, caller' = [caller EXCEPT ![w] = Null],
         current' = caller[w], NEW p \in Blocked \cup {"dead"}, pc' = [pc EXCEPT ![w] = p]
  PROVE  CallStep /\ JoinStep
<1>1. w \in Workers /\ Worker \subseteq Workers
  BY DEF Workers
<1>2. pc'[w] = p /\ \A x \in Workers : x # w => pc'[x] = pc[x]
  BY <1>1 DEF TypeOK
<1>3. PopStep(w)
  BY <1>1, <1>2 DEF PopStep, Others
<1>4. JoinStep
  BY <1>1, <1>2 DEF JoinStep, OnStack
<1> QED
  BY <1>3, <1>4 DEF CallStep

\* Every step is a call, a return or neither, and ends no wait early.
LEMMA Steps ==
  ASSUME DebugAssertions, ExecInv, [Next]_vars
  PROVE  CallStep /\ JoinStep
<1>0. TypeOK /\ NoFault /\ StackSound /\ StartSound /\ Awaited /\ SignalSound
  BY DEF ExecInv
<1>n. /\ Workers = Worker \cup {Main} /\ Worker \subseteq Workers
      /\ Main \notin Worker /\ Null \notin Worker
  BY NamesAssumption DEF Workers
<1>s. /\ current \in Workers
      /\ \A w \in Worker : w = current => pc[w] \in OnStack
      /\ \A w \in Worker : pc[w] \notin OnStack => caller[w] = Null
  BY <1>0, StackFacts DEF StackSound
<1>r. ASSUME NEW w \in Worker, pc[w] = "event", Resume(w), Unblock(w)
      PROVE  CallStep /\ JoinStep
  <2>1. /\ current' = w /\ caller' = [caller EXCEPT ![w] = current] /\ pc' = [pc EXCEPT ![w] = "user"]
    BY <1>r DEF Resume, Unblock
  <2>2. pc'[w] = "user" /\ \A x \in Workers : x # w => pc'[x] = pc[x]
    BY <1>0, <1>n, <2>1 DEF TypeOK
  <2>3. PushStep(w)
    BY <1>n, <1>r, <2>1, <2>2 DEF PushStep, Others, OnStack
  <2>4. JoinStep
    BY <1>n, <1>r, <2>2 DEF JoinStep
  <2> QED
    BY <2>3, <2>4 DEF CallStep
<1>1. CASE Interrupt
  <2>1. CASE InterruptFlag \/ InterruptEvent(FALSE) \/ InterruptAwait \/ InterruptJoin
    <3>1. UNCHANGED <<current, caller, pc>>
      BY <2>1 DEF InterruptFlag, InterruptEvent, InterruptAwait, InterruptJoin
    <3> QED
      BY <1>0, <3>1, StayIs
  <2>2. CASE InterruptEvent(TRUE)
    <3>1. signal \in Worker /\ pc[signal] = "event" /\ Resume(signal) /\ Unblock(signal)
      BY <1>0, <2>2 DEF InterruptEvent, TypeOK
    <3> QED
      BY <1>r, <3>1
  <2> QED
    BY <1>1, <2>1, <2>2 DEF Interrupt
<1>2. ASSUME NEW w \in Workers, Return(w) PROVE CallStep /\ JoinStep
  <2>1. CASE SpawnReturn(w)
    <3>1. UNCHANGED <<current, caller>> /\ pc[w] \in OnStack /\ pc' = [pc EXCEPT ![w] = "user"]
      BY <2>1 DEF SpawnReturn, At, OnStack
    <3> QED
      BY <1>0, <3>1, StayIs
  <2>2. CASE w \in Worker /\ AwaitReturn(w) /\ done[child[w]]
    <3>1. UNCHANGED <<current, caller>> /\ pc[w] \in OnStack /\ pc' = [pc EXCEPT ![w] = "user"]
      BY <2>2 DEF AwaitReturn, At, OnStack, Unblock
    <3> QED
      BY <1>0, <3>1, StayIs
  <2>3. CASE w \in Worker /\ AwaitReturn(w) /\ ~done[child[w]]
    <3>1. /\ current = w /\ current' = caller[w] /\ caller' = [caller EXCEPT ![w] = Null]
          /\ pc' = [pc EXCEPT ![w] = "await"] /\ pc[w] \in OnStack
      BY <2>3 DEF AwaitReturn, At, Suspend, OnStack
    <3> QED
      BY <1>0, <2>3, <3>1, PopIs DEF Blocked
  <2>4. CASE w \in Worker /\ Exit(w)
    <3>1. /\ current = w /\ current' = caller[w] /\ caller' = [caller EXCEPT ![w] = Null]
          /\ pc' = [pc EXCEPT ![w] = "dead"] /\ pc[w] \in OnStack
      BY <2>4 DEF Exit, At, ExitTo, OnStack
    <3> QED
      BY <1>0, <2>4, <3>1, PopIs
  <2> QED
    BY <1>2, <2>1, <2>2, <2>3, <2>4 DEF Return
<1>3. ASSUME NEW w \in Worker, BlockEvent(w) PROVE CallStep /\ JoinStep
  <2>1. /\ current = w /\ current' = caller[w] /\ caller' = [caller EXCEPT ![w] = Null]
        /\ pc' = [pc EXCEPT ![w] = "event"] /\ pc[w] \in OnStack
    BY <1>3 DEF BlockEvent, Running, At, Suspend, OnStack
  <2> QED
    BY <1>0, <2>1, PopIs DEF Blocked
<1>4. ASSUME NEW w \in Worker, FinishSync(w) \/ (FinishSpawned(w) /\ hwaiter[w] = Null)
      PROVE  CallStep /\ JoinStep
  <2>1. UNCHANGED <<current, caller>> /\ pc[w] \in OnStack /\ pc' = [pc EXCEPT ![w] = "exit"]
    BY <1>4 DEF FinishSync, FinishSpawned, Running, At, OnStack
  <2> QED
    BY <1>0, <1>n, <2>1, StayIs
<1>5. ASSUME NEW w \in Worker, FinishAwaited(w) \/ (FinishSpawned(w) /\ hwaiter[w] # Null)
      PROVE  CallStep /\ JoinStep
  <2>1. current = w /\ pc[w] = "user" /\ isAsync[w] /\ Pending(w)
    BY <1>5 DEF FinishAwaited, FinishSpawned, Running, At, Pending
  <2>2. PICK p \in Worker : CompleteTo(w, p) /\ child[p] = w /\ pc[p] \in {"join", "await"}
    <3>1. CASE FinishAwaited(w)
      <4>1. request[w] # Null /\ request[w] \in Worker /\ CompleteTo(w, request[w])
        BY <1>0, <3>1 DEF FinishAwaited, TypeOK
      <4> QED
        BY <1>0, <2>1, <4>1 DEF Awaited
    <3>2. CASE FinishSpawned(w) /\ hwaiter[w] # Null
      <4>1. request[w] = Null /\ hwaiter[w] \in Worker /\ CompleteTo(w, hwaiter[w])
        BY <1>0, <3>2 DEF FinishSpawned, TypeOK
      <4> QED
        BY <1>0, <2>1, <3>2, <4>1 DEF Awaited
    <3> QED
      BY <1>5, <3>1, <3>2
  <2>3. p # w /\ current' = p /\ caller' = [caller EXCEPT ![p] = current]
    BY <2>1, <2>2 DEF CompleteTo
  <2>4. pc'[p] = "user" /\ pc'[w] = "exit" /\ \A x \in Workers : x # p /\ x # w => pc'[x] = pc[x]
    BY <1>0, <1>n, <2>2, <2>3 DEF CompleteTo, TypeOK
  <2>5. PushStep(p)
    BY <1>n, <2>1, <2>2, <2>3, <2>4 DEF PushStep, Others, OnStack
  <2>6. JoinStep
    BY <1>n, <2>1, <2>2, <2>4 DEF JoinStep
  <2> QED
    BY <2>5, <2>6 DEF CallStep
<1>6. ASSUME NEW w \in Worker, GuardNew(w) \/ GuardDrop(w) \/ ClearInterrupt(w)
      PROVE  CallStep /\ JoinStep
  <2>1. UNCHANGED <<current, caller, pc>>
    BY <1>6 DEF GuardNew, GuardDrop, ClearInterrupt
  <2> QED
    BY <1>0, <2>1, StayIs
<1>7. ASSUME NEW w \in Worker, NEW c \in Worker, JoinBlock(w, c) PROVE CallStep /\ JoinStep
  <2>1. /\ current = w /\ current' = caller[w] /\ caller' = [caller EXCEPT ![w] = Null]
        /\ pc' = [pc EXCEPT ![w] = "join"] /\ pc[w] \in OnStack
    BY <1>7 DEF JoinBlock, Running, At, Suspend, OnStack
  <2> QED
    BY <1>0, <2>1, PopIs DEF Blocked
<1>8. ASSUME NEW w \in Workers, NEW c \in Worker, Spawn(w, c) \/ SpawnAwait(w, c)
      PROVE  CallStep /\ JoinStep
  <2>1. /\ pc[w] = "user" /\ pc[c] = "free"
        /\ current' = c /\ caller' = [caller EXCEPT ![c] = current]
    BY <1>8 DEF Spawn, SpawnAwait, Running, At, StartChild, Resume
  <2>2. \E p \in {"spawn", "start"} : pc' = [pc EXCEPT ![c] = "user", ![w] = p]
    BY <1>8 DEF Spawn, SpawnAwait
  <2>3. /\ pc'[c] = "user" /\ pc'[w] \in {"spawn", "start"}
        /\ \A x \in Workers : x # c /\ x # w => pc'[x] = pc[x]
    BY <1>0, <1>n, <2>1, <2>2 DEF TypeOK
  <2>4. PushStep(c)
    BY <1>n, <2>1, <2>3 DEF PushStep, Others, OnStack
  <2>5. JoinStep
    BY <1>n, <2>1, <2>3 DEF JoinStep
  <2> QED
    BY <2>4, <2>5 DEF CallStep
<1>9. ASSUME NEW w \in Workers, NEW c \in Worker, CompleteEvent(w, c) PROVE CallStep /\ JoinStep
  BY <1>r, <1>9 DEF CompleteEvent
<1>10. ASSUME NEW w \in Workers, NEW c \in Worker, RequestCancel(w, c) \/ JoinDone(w, c) \/ DropHandle(w, c)
       PROVE  CallStep /\ JoinStep
  <2>1. UNCHANGED <<current, caller, pc>>
    BY <1>10 DEF RequestCancel, JoinDone, DropHandle
  <2> QED
    BY <1>0, <2>1, StayIs
<1>11. CASE UNCHANGED vars
  <2>1. UNCHANGED <<current, caller, pc>>
    BY <1>11 DEF vars
  <2> QED
    BY <1>0, <2>1, StayIs
<1> QED
  BY <1>n, <1>1, <1>2, <1>3, <1>4, <1>5, <1>6, <1>7, <1>8, <1>9, <1>10, <1>11 DEF Next, Yield

\* A task that waits for another goes on only when that other has ended: an
\* interrupt never makes a join or an await return early (spawn.rs, context.rs).
THEOREM ExecutorJoinsWait ==
  ASSUME DebugAssertions
  PROVE  Spec => JoinWaitsForEnd
<1>1. ExecInv /\ [Next]_vars => [JoinStep]_vars
  BY Steps
<1> QED
  BY <1>1, ExecAlways, PTL DEF Spec, JoinWaitsForEnd, JoinStep

-----------------------------------------------------------------------------
(* The refinement *)

Gone == {w \in Worker : pc[w] = "dead"}

\* The stack that the pointers describe after a step.
LEMMA StackNext == \A s \in Seq(Worker) : IsStack(s)' => Stack' = s
<1>1. (\A s \in Seq(Worker) : IsStack(s) => Stack = s)'
  BY StackIs, PTL
<1> QED
  BY <1>1

\* Every step is one of the abstract call stack, or none.
LEMMA CallStackStep ==
  ASSUME ExecInv, CallStep
  PROVE  [CallStack!Next]_<<Stack, Gone>>
<1>0. TypeOK /\ StackSound
  BY DEF ExecInv
<1>1. PICK s \in Seq(Worker) : IsStack(s)
  BY <1>0 DEF StackSound
<1>2. Stack = s
  BY <1>1, StackIs
<1>3. CASE StayStep
  <2>1. IsStack(s)'
    BY <1>1, <1>3, Stays DEF StayStep
  <2>2. Stack' = s
    BY <2>1, StackNext
  <2>3. Gone' = Gone
    BY <1>3 DEF StayStep, Gone
  <2> QED
    BY <1>2, <2>2, <2>3
<1>4. ASSUME NEW w \in Worker, PushStep(w) PROVE CallStack!Next
  <2>1. /\ Append(s, w) \in Seq(Worker) /\ IsStack(Append(s, w))'
        /\ \A i \in 1..Len(s) : s[i] # w
    BY <1>0, <1>1, <1>4, Pushes DEF PushStep, Others, OnStack
  <2>2. Stack' = Append(s, w)
    BY <2>1, StackNext
  <2>3. w \notin Gone /\ Gone' = Gone
    BY <1>4 DEF PushStep, Others, Gone
  <2>4. CallStack!Resume(w)
    BY <1>2, <2>1, <2>2, <2>3 DEF CallStack!Resume, Gone
  <2> QED
    BY <2>4 DEF CallStack!Next
<1>5. ASSUME NEW w \in Worker, PopStep(w) PROVE CallStack!Next
  <2>1. /\ Len(s) # 0 /\ s[Len(s)] = w
        /\ SubSeq(s, 1, Len(s) - 1) \in Seq(Worker) /\ IsStack(SubSeq(s, 1, Len(s) - 1))'
    BY <1>0, <1>1, <1>5, Pops, ZenonT(30) DEF PopStep, Others, OnStack, Blocked
  <2>2. Stack' = SubSeq(s, 1, Len(s) - 1)
    BY <2>1, StackNext
  <2>3. s # << >>
    BY <2>1
  <2>4. CASE pc'[w] = "dead"
    <3>1. Gone' = Gone \cup {w}
      BY <1>5, <2>4 DEF PopStep, Others, Gone
    <3>2. CallStack!Exit
      BY <1>2, <2>1, <2>2, <2>3, <3>1 DEF CallStack!Exit, CallStack!Pop, Gone
    <3> QED
      BY <3>2 DEF CallStack!Next
  <2>5. CASE pc'[w] # "dead"
    <3>1. Gone' = Gone
      BY <1>5, <2>5 DEF PopStep, Others, Gone, OnStack
    <3>2. CallStack!Suspend
      BY <1>2, <2>2, <2>3, <3>1 DEF CallStack!Suspend, CallStack!Pop, Gone
    <3> QED
      BY <3>2 DEF CallStack!Next
  <2> QED
    BY <2>4, <2>5
<1> QED
  BY <1>3, <1>4, <1>5 DEF CallStep

\* Executor::start, resume, suspend and exit implement a call stack: the workers
\* of a thread call each other like functions, whoever resumes whom, and one
\* that exited never runs again.
THEOREM ExecutorRefines ==
  ASSUME DebugAssertions
  PROVE  Spec => CallStackSpec
<1>1. Init => CallStack!Init
  <2> SUFFICES ASSUME Init PROVE CallStack!Init
    OBVIOUS
  <2>1. \A w \in Worker : pc[w] = "free"
    BY NamesAssumption DEF Init
  <2>2. << >> \in Seq(Worker) /\ Len(<< >>) = 0 /\ 1..0 = {}
    OBVIOUS
  <2>3. IsStack(<< >>)
    BY <2>1, <2>2 DEF IsStack, Init, OnStack
  <2>4. Stack = << >>
    BY <2>2, <2>3, StackIs
  <2> QED
    BY <2>1, <2>4 DEF CallStack!Init
<1>2. ExecInv /\ [Next]_vars => [CallStack!Next]_<<Stack, Gone>>
  BY Steps, CallStackStep
<1> QED
  BY <1>1, <1>2, ExecAlways, PTL DEF Spec, CallStackSpec, CallStack!Spec, Gone
=============================================================================
