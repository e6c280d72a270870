----------------------------- MODULE DataProofs -----------------------------
(***************************************************************************)
(* Proofs about what moves data: the buffered reader is the stream it      *)
(* reads, for every capacity and every length of the stream; the buffered  *)
(* writer is the file below it, with what it has not flushed laid over it; *)
(* every method of the traits on top of them moves exactly what it says,   *)
(* however the calls below cut the bytes up;                               *)
(* the numbers of the seeks and the times are exact, whatever their width; *)
(* a listing gives every entry of a directory once, whatever its size; an  *)
(* error owns its boxes and keeps its kind, however often it is wrapped.   *)
(***************************************************************************)
EXTENDS ReadLoops, WriteLoops, SeekNumbers, ReadDir, Errors, FiniteSetTheorems,
        SequenceTheorems, NaturalsInduction, WellFoundedInduction, TLAPS

-----------------------------------------------------------------------------
(* BufReader: the buffer is the piece of the stream before the reader below *)

ReaderTypeOK ==
    /\ data \in [0..(Cap - 1) -> Int]
    /\ start \in Nat /\ end \in Nat /\ stale \in Nat
    /\ stale <= start /\ start <= end /\ end <= Cap
    /\ ipos \in 0..StreamLen
    /\ fastPos \in BOOLEAN /\ fastLen \in BOOLEAN

\* What the buffer holds from stale on are the bytes right before ipos, so also
\* the ones the cursor can still go back to.
Before ==
    /\ end - stale <= ipos
    /\ \A i \in Int : stale <= i /\ i < end => data[i] = ipos - end + i

ReaderInv == ReaderTypeOK /\ Before

\* The reader as it sees itself: that many bytes, the ones at the cursor.
LEMMA BufferIs ==
  ASSUME ReaderInv
  PROVE  /\ Len(Buffer) = end - start /\ Len(Buffer) \in Nat
         /\ Cursor = ipos - (end - start) /\ Cursor \in Nat
         /\ Buffer = <<>> <=> start = end
         /\ Buffer = Bytes(Cursor, end - start)
<1>0. /\ start \in Nat /\ end \in Nat /\ stale \in Nat /\ ipos \in Nat /\ end - start \in Nat
      /\ stale <= start /\ start <= end /\ end - stale <= ipos
  BY ReaderAssumption DEF ReaderInv, ReaderTypeOK, Before
<1>1. Len(Buffer) = end - start /\ Len(Buffer) \in Nat
  BY <1>0 DEF Buffer
<1>2. Cursor = ipos - (end - start) /\ Cursor \in Nat
  BY <1>0, <1>1 DEF Cursor
<1>3. Buffer = <<>> <=> start = end
  <2>1. ASSUME start = end PROVE Buffer = <<>>
    BY <1>0, <2>1 DEF Buffer
  <2> QED
    BY <1>0, <1>1, <2>1
<1>4. Buffer = Bytes(Cursor, end - start)
  <2>1. \A i \in 1..(end - start) : data[start + i - 1] = Cursor + i - 1
    <3>1. SUFFICES ASSUME NEW i \in 1..(end - start) PROVE data[start + i - 1] = Cursor + i - 1
      OBVIOUS
    <3>2. start + i - 1 \in Int /\ stale <= start + i - 1 /\ start + i - 1 < end
      BY <1>0
    <3>3. data[start + i - 1] = ipos - end + (start + i - 1)
      BY <3>2 DEF ReaderInv, Before
    <3> QED
      BY <1>0, <1>2, <3>3
  <2> QED
    BY <2>1 DEF Buffer, Bytes
<1> QED
  BY <1>1, <1>2, <1>3, <1>4

\* A prefix of consecutive bytes is consecutive bytes.
LEMMA BytesPrefix ==
  ASSUME NEW p \in Int, NEW n \in Nat, NEW k \in 0..n
  PROVE  SubSeq(Bytes(p, n), 1, k) = Bytes(p, k) /\ Len(Bytes(p, k)) = k
<1>1. Bytes(p, n) \in Seq(Int) /\ Len(Bytes(p, n)) = n /\ Bytes(p, k) \in Seq(Int) /\ Len(Bytes(p, k)) = k
  BY DEF Bytes
<1>2. SubSeq(Bytes(p, n), 1, k) = [i \in 1..k |-> Bytes(p, n)[i]]
  BY <1>1, SubSeqProperties
<1>3. \A i \in 1..k : Bytes(p, n)[i] = p + i - 1
  BY DEF Bytes
<1> QED
  BY <1>1, <1>2, <1>3 DEF Bytes

StreamStep == [Abstract!StreamNext]_<<Cursor, res>>

\* The cursor after a step, when the invariant holds after it.
LEMMA CursorAfter ==
  ASSUME ReaderInv'
  PROVE  Cursor' = ipos' - (end' - start') /\ Cursor' \in Nat
<1>1. ReaderInv' => (Cursor = ipos - (end - start) /\ Cursor \in Nat)'
  BY BufferIs, PTL
<1> QED
  BY <1>1

\* The step gives the caller the k bytes at the cursor and moves it behind them.
Delivers(k) == ReadResult(Bytes(Cursor, k)) /\ Cursor' = Cursor + k

\* Which is a step of the stream.
LEMMA DeliverStep ==
  ASSUME ReaderInv, NEW k \in Nat, Delivers(k)
  PROVE  StreamStep
<1>1. Cursor \in Int
  BY BufferIs
<1>2. Len(Bytes(Cursor, k)) = k
  BY <1>1, BytesPrefix
<1>3. res'.op = "read" /\ res'.bytes = Bytes(Cursor, k)
  BY DEF Delivers, ReadResult
<1>4. Bytes(Cursor, k) = Abstract!Bytes(Cursor, k)
  BY DEF Bytes, Abstract!Bytes
<1>5. res' = [op |-> "read", bytes |-> Abstract!Bytes(Cursor, k)]
  BY <1>4 DEF Delivers, ReadResult
<1> QED
  BY <1>2, <1>3, <1>5 DEF Delivers, StreamStep, Abstract!StreamNext, Abstract!Deliver

\* read_into and consume hand out the first k buffered bytes.
LEMMA TakeStep ==
  ASSUME ReaderInv, NEW k \in Nat, k <= Len(Buffer), ReadResult(SubSeq(Buffer, 1, k)),
         start' = start + k, UNCHANGED <<data, end, ipos, fast, stale>>
  PROVE  ReaderInv' /\ Delivers(k)
<1>0. /\ start \in Nat /\ end \in Nat /\ stale \in Nat /\ ipos \in Nat /\ start + k <= end
      /\ UNCHANGED <<data, end, ipos, fastPos, fastLen, stale>>
  BY BufferIs, ReaderAssumption DEF ReaderInv, ReaderTypeOK, fast
<1>1. ReaderInv'
  BY <1>0 DEF ReaderInv, ReaderTypeOK, Before
<1>2. Cursor' = Cursor + k
  BY <1>0, <1>1, BufferIs, CursorAfter
<1>3. SubSeq(Buffer, 1, k) = Bytes(Cursor, k)
  <2>1. Cursor \in Int /\ end - start \in Nat /\ k \in 0..(end - start)
    BY <1>0, BufferIs
  <2>2. SubSeq(Bytes(Cursor, end - start), 1, k) = Bytes(Cursor, k)
    BY <2>1, BytesPrefix
  <2> QED
    BY <2>2, BufferIs
<1> QED
  BY <1>1, <1>2, <1>3 DEF Delivers

\* What the reader below may return is no more than is asked for and is left, and
\* nothing only at the end.
LEMMA InnerReadIs ==
  ASSUME ReaderInv, NEW n \in Nat, NEW k \in InnerRead(n)
  PROVE  k \in Nat /\ k <= n /\ ipos + k <= StreamLen /\ (k = 0 /\ n > 0 => ipos = StreamLen)
  BY ReaderAssumption DEF InnerRead, Least, ReaderInv, ReaderTypeOK

\* read: from the buffer, past it, or through it. It gives no bytes only at the end.
LEMMA ReadStep ==
  ASSUME ReaderInv, NEW n \in Nat, n > 0, Read(n)
  PROVE  ReaderInv' /\ \E k \in 0..n : Delivers(k) /\ (k = 0 => Cursor = StreamLen)
<1>0. /\ start \in Nat /\ end \in Nat /\ stale \in Nat /\ ipos \in Nat /\ StreamLen \in Nat /\ Cap \in Nat
      /\ stale <= start /\ start <= end /\ end <= Cap /\ data \in [0..(Cap - 1) -> Int]
      /\ Cursor = ipos - (end - start) /\ Cursor \in Nat /\ Len(Buffer) = end - start
      /\ Buffer = <<>> <=> start = end
  BY BufferIs, ReaderAssumption DEF ReaderInv, ReaderTypeOK
<1>1. CASE ReadInto(n)
  <2>1. PICK k : k = Least(n, Len(Buffer))
    OBVIOUS
  <2>2. k \in 0..n /\ k <= Len(Buffer) /\ k # 0
    BY <1>0, <1>1, <2>1 DEF Least, ReadInto
  <2>3. ReaderInv' /\ Delivers(k)
    BY <1>1, <2>1, <2>2, TakeStep DEF ReadInto
  <2> QED
    BY <2>2, <2>3
<1>2. CASE ReadDirect(n)
  <2>1. PICK k \in InnerRead(n) :
           /\ ReadResult(Bytes(ipos, k)) /\ ipos' = ipos + k
           /\ stale' = IF k = 0 THEN stale ELSE start
    BY <1>2 DEF ReadDirect
  <2>2. UNCHANGED <<data, start, end, fastPos, fastLen>> /\ start = end
    BY <1>0, <1>2 DEF ReadDirect, fast
  <2>3. k \in 0..n /\ k \in Nat /\ ipos + k <= StreamLen /\ (k = 0 => ipos = StreamLen)
    BY InnerReadIs
  <2>4. ReaderInv'
    <3>1. ReaderTypeOK'
      BY <1>0, <2>1, <2>2, <2>3 DEF ReaderInv, ReaderTypeOK
    <3>2. Before'
      BY <1>0, <2>1, <2>2, <2>3 DEF ReaderInv, Before
    <3> QED
      BY <3>1, <3>2 DEF ReaderInv
  <2>5. Cursor' = Cursor + k /\ Cursor = ipos
    BY <1>0, <2>1, <2>2, <2>3, <2>4, CursorAfter
  <2> QED
    BY <2>1, <2>3, <2>4, <2>5 DEF Delivers
<1>3. CASE ReadFill(n)
  <2>1. PICK k \in InnerRead(Cap) :
           /\ FillRange(0, k)
           /\ start' = IF k = 0 THEN start ELSE Least(n, k)
           /\ stale' = IF k = 0 THEN stale ELSE 0
           /\ ReadResult(Bytes(ipos, Least(n, k)))
    BY <1>3 DEF ReadFill
  <2>2. UNCHANGED <<fastPos, fastLen>> /\ start = end
    BY <1>0, <1>3 DEF ReadFill, fast
  <2>3. k \in Nat /\ k <= Cap /\ ipos + k <= StreamLen /\ (k = 0 => ipos = StreamLen)
    BY <1>0, InnerReadIs, ReaderAssumption
  <2>4. /\ data' = [i \in 0..(Cap - 1) |-> IF i \in 0..(0 + k - 1) THEN ipos + (i - 0) ELSE data[i]]
        /\ end' = (IF k = 0 THEN end ELSE 0 + k) /\ ipos' = ipos + k
    BY <2>1 DEF FillRange
  <2>5. data' \in [0..(Cap - 1) -> Int] /\ \A i \in 0..(k - 1) : data'[i] = ipos + i
    BY <1>0, <2>3, <2>4
  <2>6. /\ Least(n, k) \in Nat /\ Least(n, k) <= k /\ (k = 0 => Least(n, k) = 0)
        /\ Least(n, k) \in 0..n /\ (Least(n, k) = 0 => k = 0)
    BY <2>3 DEF Least
  <2>7. CASE k = 0
    <3>1. data' = data
      BY <1>0, <2>4, <2>7
    <3>2. ReaderInv'
      BY <1>0, <2>1, <2>2, <2>4, <2>7, <3>1 DEF ReaderInv, ReaderTypeOK, Before
    <3>3. Cursor' = Cursor + Least(n, k) /\ Cursor = ipos
      BY <1>0, <2>1, <2>2, <2>4, <2>6, <2>7, <3>2, CursorAfter
    <3> QED
      BY <2>1, <2>3, <2>6, <2>7, <3>2, <3>3 DEF Delivers
  <2>8. CASE k # 0
    <3>1. ReaderTypeOK'
      BY <1>0, <2>1, <2>2, <2>3, <2>4, <2>5, <2>6, <2>8 DEF ReaderInv, ReaderTypeOK
    <3>2. Before'
      BY <1>0, <2>1, <2>3, <2>4, <2>5, <2>8 DEF Before
    <3>3. ReaderInv'
      BY <3>1, <3>2 DEF ReaderInv
    <3>4. Cursor' = Cursor + Least(n, k) /\ Cursor = ipos
      BY <1>0, <2>1, <2>2, <2>3, <2>4, <2>6, <2>8, <3>3, CursorAfter
    <3> QED
      BY <2>1, <2>6, <2>8, <3>3, <3>4 DEF Delivers
  <2> QED
    BY <2>7, <2>8
<1> QED
  BY <1>1, <1>2, <1>3 DEF Read

\* A read that fails takes nothing, also when the bytes were moved for it.
LEMMA ErrorStep ==
  ASSUME res' = [op |-> "error"], Cursor' = Cursor
  PROVE  StreamStep
  BY DEF StreamStep, Abstract!StreamNext, Abstract!ReadFails

\* move_data_to_beginning copies the buffered bytes to the front.
LEMMA MovedIs ==
  ASSUME ReaderInv
  PROVE  /\ Moved \in [0..(Cap - 1) -> Int]
         /\ \A i \in Int : 0 <= i /\ i < end - start => Moved[i] = ipos - (end - start) + i
<1>0. /\ start \in Nat /\ end \in Nat /\ stale \in Nat /\ ipos \in Nat /\ Cap \in Nat
      /\ stale <= start /\ start <= end /\ end <= Cap /\ data \in [0..(Cap - 1) -> Int]
      /\ Cursor = ipos - (end - start) /\ Cursor \in Nat /\ Len(Buffer) = end - start
      /\ Buffer = Bytes(Cursor, end - start)
  BY BufferIs, ReaderAssumption DEF ReaderInv, ReaderTypeOK
<1>1. \A i \in Int : 0 <= i /\ i < end - start => Buffer[i + 1] = ipos - (end - start) + i
  <2>1. \A i \in Int : 0 <= i /\ i < end - start => i + 1 \in 1..(end - start)
    BY <1>0
  <2>2. \A j \in 1..(end - start) : Buffer[j] = Cursor + j - 1
    BY <1>0 DEF Bytes
  <2> QED
    BY <1>0, <2>1, <2>2
<1>2. \A i \in 0..(Cap - 1) : Moved[i] = IF i < end - start THEN Buffer[i + 1] ELSE data[i]
  BY <1>0 DEF Moved
<1>3. \A i \in 0..(Cap - 1) : Moved[i] \in Int
  BY <1>0, <1>1, <1>2
<1>4. Moved \in [0..(Cap - 1) -> Int]
  BY <1>3 DEF Moved
<1>5. \A i \in Int : 0 <= i /\ i < end - start => i \in 0..(Cap - 1)
  BY <1>0
<1> QED
  BY <1>1, <1>2, <1>4, <1>5

\* Moving the bytes keeps the invariant and the cursor.
LEMMA MoveKeepsCursor ==
  ASSUME ReaderInv, data' = Moved, start' = 0, end' = Len(Buffer), stale' = 0,
         UNCHANGED <<ipos, fast>>
  PROVE  ReaderInv' /\ Cursor' = Cursor
<1>0. /\ start \in Nat /\ end \in Nat /\ stale \in Nat /\ ipos \in Nat /\ Cap \in Nat
      /\ stale <= start /\ start <= end /\ end <= Cap /\ end - stale <= ipos
      /\ Cursor = ipos - (end - start) /\ Len(Buffer) = end - start /\ ipos <= StreamLen
  BY BufferIs, ReaderAssumption DEF ReaderInv, ReaderTypeOK, Before
<1>1. ReaderTypeOK'
  BY <1>0, MovedIs DEF ReaderInv, ReaderTypeOK, fast
<1>2. Before'
  BY <1>0, MovedIs DEF Before
<1>3. ReaderInv'
  BY <1>1, <1>2 DEF ReaderInv
<1> QED
  BY <1>0, <1>3, CursorAfter

\* fill_amount: whatever is moved, and however much is read, the cursor stays.
LEMMA FillStep ==
  ASSUME ReaderInv, NEW amount \in 1..Cap, FillAmount(amount)
  PROVE  ReaderInv' /\ Cursor' = Cursor /\ UNCHANGED res
<1> DEFINE at == FillAt(amount)
           move == NoRoom(amount) /\ Buffer # <<>>
<1>0. /\ start \in Nat /\ end \in Nat /\ stale \in Nat /\ ipos \in Nat /\ Cap \in Nat /\ StreamLen \in Nat
      /\ stale <= start /\ start <= end /\ end <= Cap /\ end - stale <= ipos
      /\ data \in [0..(Cap - 1) -> Int]
      /\ Cursor = ipos - (end - start) /\ Len(Buffer) = end - start /\ ipos <= StreamLen
      /\ Buffer = <<>> <=> start = end
      /\ \A i \in Int : stale <= i /\ i < end => data[i] = ipos - end + i
  BY BufferIs, ReaderAssumption DEF ReaderInv, ReaderTypeOK, Before
<1>1. /\ start + amount > end /\ UNCHANGED <<fastPos, fastLen, res>>
      /\ \E k \in InnerRead(FillTo(amount) - at) :
             /\ data' = [i \in 0..(Cap - 1) |->
                          IF i \in at..(at + k - 1) THEN ipos + (i - at)
                          ELSE IF move THEN Moved[i] ELSE data[i]]
             /\ end' = IF k # 0 THEN at + k ELSE IF move THEN at ELSE end
             /\ start' = IF move \/ (at = 0 /\ k # 0) THEN 0 ELSE start
             /\ stale' = IF move \/ (at = 0 /\ k # 0) THEN 0 ELSE stale
             /\ ipos' = ipos + k
  BY DEF FillAmount, fast
<1>2. PICK k \in InnerRead(FillTo(amount) - at) :
             /\ data' = [i \in 0..(Cap - 1) |->
                          IF i \in at..(at + k - 1) THEN ipos + (i - at)
                          ELSE IF move THEN Moved[i] ELSE data[i]]
             /\ end' = IF k # 0 THEN at + k ELSE IF move THEN at ELSE end
             /\ start' = IF move \/ (at = 0 /\ k # 0) THEN 0 ELSE start
             /\ stale' = IF move \/ (at = 0 /\ k # 0) THEN 0 ELSE stale
             /\ ipos' = ipos + k
  BY <1>1
<1>3. /\ at \in Nat /\ FillTo(amount) \in Nat /\ FillTo(amount) - at \in Nat /\ FillTo(amount) <= Cap
      /\ move => at = end - start
      /\ ~move => at = end \/ (at = 0 /\ start = end)
  BY <1>0, <1>1 DEF FillAt, FillTo, NoRoom
<1>4. k \in Nat /\ at + k <= Cap /\ ipos + k <= StreamLen
  <2>1. k \in Nat /\ k <= FillTo(amount) - at /\ ipos + k <= StreamLen
    BY <1>3, InnerReadIs
  <2> QED
    BY <1>0, <1>3, <2>1
<1>5. Moved \in [0..(Cap - 1) -> Int]
  BY MovedIs
<1> HIDE DEF at, move
<1>6. data' \in [0..(Cap - 1) -> Int]
  BY <1>0, <1>2, <1>3, <1>4, <1>5
<1>7. \A i \in 0..(Cap - 1) :
         /\ at <= i /\ i < at + k => data'[i] = ipos + (i - at)
         /\ i < at => data'[i] = IF move THEN Moved[i] ELSE data[i]
         /\ at + k <= i => data'[i] = IF move THEN Moved[i] ELSE data[i]
  BY <1>0, <1>2, <1>3, <1>4
<1>8. CASE move
  <2>1. at = end - start /\ end' = at + k /\ start' = 0 /\ stale' = 0 /\ ipos' = ipos + k
    BY <1>0, <1>2, <1>3, <1>4, <1>8
  <2>2. ReaderTypeOK'
    BY <1>0, <1>1, <1>3, <1>4, <1>6, <2>1, SMTT(20) DEF ReaderInv, ReaderTypeOK
  <2>3. ASSUME NEW i \in Int, stale' <= i, i < end' PROVE data'[i] = ipos' - end' + i
    <3>1. i \in 0..(Cap - 1)
      BY <1>0, <1>3, <1>4, <2>1, <2>3
    <3>2. CASE i < at
      BY <1>0, <1>4, <1>7, <1>8, <2>1, <2>3, <3>1, <3>2, MovedIs
    <3>3. CASE at <= i
      <4>1. i < at + k
        BY <2>1, <2>3
      <4>2. data'[i] = ipos + (i - at)
        BY <1>7, <3>1, <3>3, <4>1
      <4> QED
        BY <1>0, <1>3, <1>4, <2>1, <4>2
    <3> QED
      BY <1>3, <3>2, <3>3
  <2>4. end' - stale' <= ipos'
    BY <1>0, <1>4, <2>1
  <2>5. ReaderInv'
    BY <2>2, <2>3, <2>4 DEF ReaderInv, Before
  <2>6. Cursor' = Cursor
    BY <1>0, <1>4, <2>1, <2>5, CursorAfter
  <2> QED
    BY <1>1, <2>5, <2>6
<1>9. CASE ~move /\ k = 0
  <2>1. data' = data
    BY <1>0, <1>2, <1>3, <1>9
  <2>2. UNCHANGED <<end, start, stale, ipos>>
    BY <1>0, <1>2, <1>9
  <2>3. ReaderInv'
    BY <1>1, <2>1, <2>2 DEF ReaderInv, ReaderTypeOK, Before
  <2>4. Cursor' = Cursor
    BY <1>0, <2>2, <2>3, CursorAfter
  <2> QED
    BY <1>1, <2>3, <2>4
<1>10. CASE ~move /\ k # 0
  <2>1. /\ end' = at + k /\ ipos' = ipos + k
        /\ start' = (IF at = 0 THEN 0 ELSE start) /\ stale' = (IF at = 0 THEN 0 ELSE stale)
    BY <1>2, <1>10
  <2>2. ReaderTypeOK'
    BY <1>0, <1>1, <1>3, <1>4, <1>6, <1>10, <2>1 DEF ReaderInv, ReaderTypeOK
  <2>3. ASSUME NEW i \in Int, stale' <= i, i < end' PROVE data'[i] = ipos' - end' + i
    <3>1. i \in 0..(Cap - 1)
      BY <1>0, <1>3, <1>4, <2>1, <2>3
    <3>2. CASE i < at
      <4>1. at = end /\ stale' = stale
        BY <1>0, <1>3, <1>10, <2>1, <3>1, <3>2
      <4>2. data'[i] = data[i] /\ data[i] = ipos - end + i
        BY <1>0, <1>7, <1>10, <2>3, <3>1, <3>2, <4>1
      <4> QED
        BY <1>0, <1>4, <2>1, <4>1, <4>2
    <3>3. CASE at <= i
      <4>1. i < at + k
        BY <2>1, <2>3
      <4>2. data'[i] = ipos + (i - at)
        BY <1>7, <3>1, <3>3, <4>1
      <4> QED
        BY <1>0, <1>3, <1>4, <2>1, <4>2
    <3> QED
      BY <1>3, <3>2, <3>3
  <2>4. end' - stale' <= ipos'
    BY <1>0, <1>3, <1>4, <1>10, <2>1
  <2>5. ReaderInv'
    BY <2>2, <2>3, <2>4 DEF ReaderInv, Before
  <2>6. Cursor' = Cursor
    BY <1>0, <1>3, <1>4, <1>10, <2>1, <2>5, CursorAfter, SMTT(20)
  <2> QED
    BY <1>1, <2>5, <2>6
<1> QED
  BY <1>8, <1>9, <1>10

\* fill_amount that fails: the bytes may have been moved, the cursor stays.
LEMMA FillFailsStep ==
  ASSUME ReaderInv, NEW amount \in 1..Cap, FillFails(amount)
  PROVE  ReaderInv' /\ Cursor' = Cursor /\ res' = [op |-> "error"]
<1>1. res' = [op |-> "error"] /\ UNCHANGED <<ipos, fast>>
  BY DEF FillFails
<1>2. CASE NoRoom(amount) /\ Buffer # <<>>
  <2>1. data' = Moved /\ start' = 0 /\ end' = Len(Buffer) /\ stale' = 0
    BY <1>2 DEF FillFails
  <2> QED
    BY <1>1, <2>1, MoveKeepsCursor
<1>3. CASE ~(NoRoom(amount) /\ Buffer # <<>>)
  <2>1. UNCHANGED <<data, start, end, stale, ipos, fastPos, fastLen>>
    BY <1>1, <1>3 DEF FillFails, fast
  <2>2. ReaderInv' /\ Cursor' = Cursor
    BY <2>1 DEF ReaderInv, ReaderTypeOK, Before, Cursor, Buffer
  <2> QED
    BY <1>1, <2>2
<1> QED
  BY <1>2, <1>3

\* A read that fails.
LEMMA ReadFailsStep ==
  ASSUME ReaderInv, NEW n, ReadFails(n)
  PROVE  ReaderInv' /\ Cursor' = Cursor /\ res' = [op |-> "error"]
<1>1. res' = [op |-> "error"] /\ UNCHANGED <<data, start, end, ipos, fastPos, fastLen, stale>>
  BY DEF ReadFails, fast
<1> QED
  BY <1>1 DEF ReaderInv, ReaderTypeOK, Before, Cursor, Buffer

\* unconsume gives back bytes that are still there.
LEMMA UnconsumeStep ==
  ASSUME ~StaleRewind, ReaderInv, NEW k \in Nat, Unconsume(k)
  PROVE  ReaderInv' /\ StreamStep
<1>1. /\ start - k >= stale /\ start' = start - k /\ res' = [op |-> "unconsume"]
      /\ UNCHANGED <<data, end, ipos, fastPos, fastLen, stale>>
  BY DEF Unconsume, fast
<1>2. start \in Nat /\ end \in Nat /\ stale \in Nat /\ ipos \in Nat
  BY ReaderAssumption DEF ReaderInv, ReaderTypeOK
<1>3. ReaderInv'
  BY <1>1, <1>2 DEF ReaderInv, ReaderTypeOK, Before
<1>4. Cursor \in Int /\ Cursor' \in Int
  BY <1>3, BufferIs, CursorAfter
<1>5. Cursor' = Cursor - (Cursor - Cursor')
  <2>1. \A a, b \in Int : b = a - (a - b)
    OBVIOUS
  <2> QED
    BY <1>4, <2>1
<1> QED
  BY <1>1, <1>3, <1>5 DEF StreamStep, Abstract!StreamNext, Abstract!Back

\* The invariant of an emptied buffer.
LEMMA EmptyInv ==
  ASSUME ReaderInv, start' = 0, end' = 0, stale' = 0, UNCHANGED <<data, fast>>,
         ipos' \in 0..StreamLen
  PROVE  ReaderInv' /\ Cursor' = ipos'
<1>1. ReaderInv'
  BY ReaderAssumption DEF ReaderInv, ReaderTypeOK, Before, fast
<1>2. ipos' \in Int /\ Cursor' = ipos' - (end' - start')
  BY <1>1, ReaderAssumption, CursorAfter
<1>3. \A a \in Int : a - (0 - 0) = a
  OBVIOUS
<1> QED
  BY <1>1, <1>2, <1>3

\* discard drops the bytes between the cursor and the reader below.
LEMMA DiscardStep ==
  ASSUME ReaderInv, Discard
  PROVE  ReaderInv' /\ StreamStep
<1>1. ipos' \in 0..StreamLen /\ ipos' = ipos /\ res' = [op |-> "discard"]
  BY DEF Discard, ReaderInv, ReaderTypeOK
<1>2. ReaderInv' /\ Cursor' = ipos'
  BY <1>1, EmptyInv DEF Discard
<1>3. Cursor' >= Cursor
  BY <1>1, <1>2, BufferIs, ReaderAssumption DEF ReaderInv, ReaderTypeOK
<1> QED
  BY <1>1, <1>2, <1>3 DEF StreamStep, Abstract!StreamNext, Abstract!Drop

\* into_parts and from_parts keep every byte below end.
LEMMA ReassembleStep ==
  ASSUME ReaderInv, Reassemble
  PROVE  ReaderInv' /\ StreamStep
<1>0. /\ start \in Nat /\ end \in Nat /\ stale \in Nat /\ ipos \in Nat /\ Cap \in Nat
      /\ end <= Cap /\ data \in [0..(Cap - 1) -> Int]
  BY ReaderAssumption DEF ReaderInv, ReaderTypeOK
<1>1. /\ UNCHANGED <<start, end, ipos, fastPos, fastLen, res, stale>>
      /\ data' = [i \in 0..(Cap - 1) |-> IF i < end THEN data[i] ELSE 0]
  BY DEF Reassemble, fast
<1>2. ReaderTypeOK'
  BY <1>0, <1>1 DEF ReaderInv, ReaderTypeOK
<1>3. \A i \in Int : stale <= i /\ i < end => data'[i] = data[i]
  BY <1>0, <1>1
<1>4. Before'
  BY <1>1, <1>3 DEF ReaderInv, Before
<1>5. ReaderInv'
  BY <1>2, <1>4 DEF ReaderInv
<1>6. Cursor' = Cursor
  BY <1>1, <1>5, BufferIs, CursorAfter
<1> QED
  BY <1>1, <1>5, <1>6 DEF StreamStep

\* A seek that ends where it was asked to.
LEMMA SeekDoneStep ==
  ASSUME NEW asked, NEW at, SeekDone(asked, at), asked = at, Cursor' = at
  PROVE  StreamStep
<1>1. res' = [op |-> "seek", asked |-> at, pos |-> at]
  BY DEF SeekDone
<1>2. res'.op = "seek" /\ res'.pos = at
  BY <1>1
<1> QED
  BY <1>1, <1>2 DEF StreamStep, Abstract!StreamNext, Abstract!SeekTo

\* A seek that fails leaves some cursor.
LEMMA SeekFailsStep ==
  ASSUME Failed, Cursor' \in Nat
  PROVE  StreamStep
  BY DEF Failed, StreamStep, Abstract!StreamNext, Abstract!SeekFails

\* seek_inner to the position that was asked for.
LEMMA SeekInnerStep ==
  ASSUME ReaderInv, NEW p \in Int, SeekInner(p, p)
  PROVE  ReaderInv' /\ StreamStep
<1>1. start' = 0 /\ end' = 0 /\ stale' = 0 /\ UNCHANGED <<data, fast>>
  BY DEF SeekInner
<1>2. CASE p \in 0..StreamLen /\ ipos' = p /\ SeekDone(p, p)
  <2>1. ReaderInv' /\ Cursor' = p
    BY <1>1, <1>2, EmptyInv
  <2> QED
    BY <1>2, <2>1, SeekDoneStep
<1>3. CASE ipos' = ipos /\ Failed
  <2>1. ipos \in 0..StreamLen
    BY DEF ReaderInv, ReaderTypeOK
  <2>2. ReaderInv' /\ Cursor' = ipos
    BY <1>1, <1>3, <2>1, EmptyInv
  <2>3. Cursor' \in Nat
    BY <2>1, <2>2, ReaderAssumption
  <2> QED
    BY <1>3, <2>2, <2>3, SeekFailsStep
<1> QED
  BY <1>2, <1>3 DEF SeekInner

\* seek_relative: inside the buffer the reader below is left alone.
LEMMA SeekRelativeStep ==
  ASSUME ~StaleRewind, ReaderInv, NEW rel \in Int, SeekRelative(rel)
  PROVE  ReaderInv' /\ StreamStep
<1>0. /\ start \in Nat /\ end \in Nat /\ stale \in Nat /\ ipos \in Nat
      /\ Cursor = ipos - (end - start) /\ Cursor \in Nat /\ Len(Buffer) = end - start
  BY BufferIs, ReaderAssumption DEF ReaderInv, ReaderTypeOK
<1>1. CASE start + rel \in 0..end
  <2>1. /\ start' = start + rel /\ start' >= stale
        /\ SeekDone(Cursor + rel, ipos - (end - start')) \/ Failed
        /\ UNCHANGED <<data, end, ipos, fastPos, fastLen, stale>>
    BY <1>1 DEF SeekRelative, fast
  <2>2. ReaderInv'
    BY <1>0, <1>1, <2>1 DEF ReaderInv, ReaderTypeOK, Before
  <2>3. Cursor' = Cursor + rel /\ Cursor' = ipos - (end - start') /\ Cursor' \in Nat
    BY <1>0, <2>1, <2>2, CursorAfter
  <2>4. CASE SeekDone(Cursor + rel, ipos - (end - start'))
    <3>1. PICK at : at = ipos - (end - start')
      OBVIOUS
    <3> QED
      BY <2>2, <2>3, <2>4, <3>1, SeekDoneStep
  <2>5. CASE Failed
    BY <2>2, <2>3, <2>5, SeekFailsStep
  <2> QED
    BY <2>1, <2>4, <2>5
<1>2. CASE start + rel \notin 0..end
  <2>1. SeekInner(Cursor + rel, ipos + rel - Len(Buffer))
    BY <1>2 DEF SeekRelative
  <2>2. ipos + rel - Len(Buffer) = Cursor + rel /\ Cursor + rel \in Int
    BY <1>0
  <2> QED
    BY <2>1, <2>2, SeekInnerStep
<1> QED
  BY <1>1, <1>2

\* The reader starts at the beginning of the stream with an empty buffer.
LEMMA ReaderInitInv == ReaderInit => ReaderInv /\ Abstract!StreamInit
<1>1. ReaderInit => ReaderInv
  BY ReaderAssumption DEF ReaderInit, ReaderInv, ReaderTypeOK, Before
<1>2. ASSUME ReaderInit PROVE Cursor = 0
  BY <1>1, <1>2, BufferIs DEF ReaderInit
<1> QED
  BY <1>1, <1>2 DEF ReaderInit, Abstract!StreamInit

\* Every call keeps the invariant and is a step of the stream with a cursor.
LEMMA ReaderNextStep ==
  ASSUME ~StaleRewind, ReaderInv, [ReaderNext]_rvars
  PROVE  ReaderInv' /\ StreamStep
<1>0. Cap \in Nat /\ StreamLen \in Nat /\ Cursor \in Nat
  BY BufferIs, ReaderAssumption
<1>1. CASE UNCHANGED rvars
  BY <1>1 DEF rvars, ReaderInv, ReaderTypeOK, Before, StreamStep, Cursor, Buffer
<1>2. ASSUME NEW n \in 1..(Cap + 1), Read(n) PROVE ReaderInv' /\ StreamStep
  <2>1. ReaderInv' /\ \E k \in 0..n : Delivers(k)
    BY <1>0, <1>2, ReadStep
  <2>2. \A k \in 0..n : k \in Nat
    OBVIOUS
  <2> QED
    BY <2>1, <2>2, DeliverStep
<1>3. ASSUME NEW n \in 1..(Cap + 1), ReadFails(n) PROVE ReaderInv' /\ StreamStep
  BY <1>3, ReadFailsStep, ErrorStep
<1>4. ASSUME NEW n \in 1..Cap, Consume(n) \/ FillAmount(n) \/ FillFails(n)
      PROVE  ReaderInv' /\ StreamStep
  <2>1. ASSUME Consume(n) PROVE ReaderInv' /\ StreamStep
    BY <1>0, <2>1, TakeStep, DeliverStep DEF Consume
  <2>2. ASSUME FillAmount(n) PROVE ReaderInv' /\ StreamStep
    BY <2>2, FillStep DEF StreamStep
  <2>3. ASSUME FillFails(n) PROVE ReaderInv' /\ StreamStep
    BY <2>3, FillFailsStep, ErrorStep
  <2> QED
    BY <1>4, <2>1, <2>2, <2>3
<1>5. CASE MoveDataToBeginning
  BY <1>5, MoveKeepsCursor DEF MoveDataToBeginning, StreamStep
<1>6. ASSUME NEW p \in 0..StreamLen, SeekStart(p) PROVE ReaderInv' /\ StreamStep
  <2>1. p \in Int /\ p - Cursor \in Int
    BY <1>0
  <2> QED
    BY <1>6, <2>1, SeekRelativeStep, SeekInnerStep DEF SeekStart
<1>7. ASSUME NEW p \in 0..StreamLen, SeekEnd(-p) PROVE ReaderInv' /\ StreamStep
  <2>1. StreamLen + (-p) \in Int /\ StreamLen + (-p) - Cursor \in Int
    BY <1>0
  <2> QED
    BY <1>7, <2>1, SeekRelativeStep, SeekInnerStep DEF SeekEnd
<1>8. ASSUME NEW n \in 1..Cap, Unconsume(n) PROVE ReaderInv' /\ StreamStep
  BY <1>0, <1>8, UnconsumeStep
<1>9. ASSUME NEW rel \in (-StreamLen)..StreamLen, SeekRelative(rel) PROVE ReaderInv' /\ StreamStep
  BY <1>0, <1>9, SeekRelativeStep
<1> QED
  BY <1>1, <1>2, <1>3, <1>4, <1>5, <1>6, <1>7, <1>8, <1>9, DiscardStep, ReassembleStep
  DEF ReaderNext

\* For every capacity, every length of the stream and any reads, fills and
\* failures, BufReader is the stream with a cursor: each read gets the bytes at
\* the cursor, each seek that succeeds ends and says where it was asked to. Seeks
\* and put-backs that stay in the buffer but go behind the last read that was
\* made past it (~StaleRewind) are left out: the code serves them from the old
\* bytes of the buffer (buf_reader.rs:70-77, 191-197, 208-224; SeekReadsThere).
THEOREM ReaderRefines ==
  ASSUME ~StaleRewind
  PROVE  ReaderSpec => ReaderStream
<1>1. ReaderInv /\ [ReaderNext]_rvars => ReaderInv' /\ StreamStep
  BY ReaderNextStep
<1> QED
  BY <1>1, ReaderInitInv, PTL DEF ReaderSpec, ReaderStream, Abstract!StreamSpec, StreamStep

-----------------------------------------------------------------------------
(* BufWriter: the file with what is buffered laid over it *)

\* Nothing laid over a file is the file.
LEMMA OverlayNothing == \A c, p : F!Overlay(c, p, <<>>) = c
  BY DEF F!Overlay

\* u is the file c with the bytes a in their place from position p on; a gap
\* between the end of c and p is zeroes.
Laid(u, c, p, a) ==
    /\ u \in Seq(Nat)
    /\ Len(u) = IF p + Len(a) > Len(c) THEN p + Len(a) ELSE Len(c)
    /\ \A i \in Int : p < i /\ i <= p + Len(a) => u[i] = a[i - p]
    /\ \A i \in Int : 1 <= i /\ i <= p /\ i <= Len(c) => u[i] = c[i]
    /\ \A i \in Int : 1 <= i /\ i <= p /\ Len(c) < i => u[i] = 0
    /\ \A i \in Int : p + Len(a) < i /\ i <= Len(c) => u[i] = c[i]

\* What a write of some bytes leaves.
LEMMA OverlayIs ==
  ASSUME NEW c \in Seq(Nat), NEW p \in Nat, NEW a \in Seq(Nat), a # <<>>
  PROVE  Laid(F!Overlay(c, p, a), c, p, a)
<1> DEFINE total == IF p + Len(a) > Len(c) THEN p + Len(a) ELSE Len(c)
           e(i) == IF i \in (p + 1)..(p + Len(a)) THEN a[i - p]
                   ELSE IF i <= Len(c) THEN c[i] ELSE 0
           u == [i \in 1..total |-> e(i)]
<1>1. F!Overlay(c, p, a) = u
  BY DEF F!Overlay
<1>2. Len(a) \in Nat /\ Len(c) \in Nat /\ total \in Nat /\ p + Len(a) <= total /\ Len(c) <= total
  OBVIOUS
<1>3. \A i \in 1..total : e(i) \in Nat
  <2>1. \A i \in 1..total : i \in (p + 1)..(p + Len(a)) => i - p \in 1..Len(a)
    BY <1>2
  <2>2. \A i \in 1..total : i <= Len(c) => i \in 1..Len(c)
    BY <1>2
  <2>3. (\A i \in 1..Len(a) : a[i] \in Nat) /\ (\A i \in 1..Len(c) : c[i] \in Nat)
    OBVIOUS
  <2> QED
    BY <2>1, <2>2, <2>3
<1>4. /\ \A i \in Int : p < i /\ i <= p + Len(a) => i \in 1..total /\ e(i) = a[i - p]
      /\ \A i \in Int : 1 <= i /\ i <= p /\ i <= Len(c) => i \in 1..total /\ e(i) = c[i]
      /\ \A i \in Int : 1 <= i /\ i <= p /\ Len(c) < i => i \in 1..total /\ e(i) = 0
      /\ \A i \in Int : p + Len(a) < i /\ i <= Len(c) => i \in 1..total /\ e(i) = c[i]
  BY <1>2
<1>5. total = IF p + Len(a) > Len(c) THEN p + Len(a) ELSE Len(c)
  OBVIOUS
<1> HIDE DEF total, e
<1>6. u \in Seq(Nat) /\ Len(u) = total /\ \A i \in 1..total : u[i] = e(i)
  BY <1>2, <1>3
<1> HIDE DEF u
<1> QED
  BY <1>1, <1>4, <1>5, <1>6 DEF Laid

Joined(ab, a, b) ==
    /\ Len(ab) = Len(a) + Len(b)
    /\ \A i \in 1..Len(a) : ab[i] = a[i]
    /\ \A i \in 1..Len(b) : ab[Len(a) + i] = b[i]

\* Writing a and then b behind it is writing both at once: the facts about the
\* three files, without the operator.
LEMMA LaidAppend ==
  ASSUME NEW c \in Seq(Nat), NEW p \in Nat, NEW a \in Seq(Nat), NEW b \in Seq(Nat),
         NEW ab \in Seq(Nat), Joined(ab, a, b), NEW u, Laid(u, c, p, a),
         NEW q \in Nat, q = p + Len(a), NEW v, Laid(v, u, q, b), NEW z, Laid(z, c, p, ab)
  PROVE  v = z
<1>0. /\ Len(ab) = Len(a) + Len(b)
      /\ \A i \in 1..Len(a) : ab[i] = a[i]
      /\ \A i \in 1..Len(b) : ab[Len(a) + i] = b[i]
  BY DEF Joined
<1>1. Len(a) \in Nat /\ Len(b) \in Nat /\ Len(c) \in Nat
  OBVIOUS
<1>2. v \in Seq(Nat) /\ z \in Seq(Nat) /\ Len(u) \in Nat /\ Len(v) \in Nat
  BY DEF Laid
<1>3. Len(u) = (IF p + Len(a) > Len(c) THEN p + Len(a) ELSE Len(c)) /\ p + Len(ab) = p + Len(a) + Len(b)
  BY <1>0, <1>1 DEF Laid
<1>4. Len(v) = IF p + Len(a) + Len(b) > Len(u) THEN p + Len(a) + Len(b) ELSE Len(u)
  BY <1>1 DEF Laid
<1>5. Len(v) = Len(z)
  <2>1. Len(z) = IF p + Len(ab) > Len(c) THEN p + Len(ab) ELSE Len(c)
    BY DEF Laid
  <2>2. CASE p + Len(a) + Len(b) > Len(c)
    <3>1. Len(z) = p + Len(a) + Len(b)
      BY <1>3, <2>1, <2>2
    <3>2. Len(u) <= p + Len(a) + Len(b)
      BY <1>1, <1>3, <2>2
    <3>3. p + Len(a) + Len(b) \in Nat
      BY <1>1
    <3>4. \A m, n \in Nat : n <= m => (IF m > n THEN m ELSE n) = m
      OBVIOUS
    <3> QED
      BY <1>2, <1>4, <3>1, <3>2, <3>3, <3>4
  <2>3. CASE ~(p + Len(a) + Len(b) > Len(c))
    <3>1. Len(z) = Len(c)
      BY <1>3, <2>1, <2>3
    <3>2. Len(u) = Len(c)
      BY <1>1, <1>3, <2>3
    <3> QED
      BY <1>4, <2>3, <3>1, <3>2
  <2> QED
    BY <2>2, <2>3
<1>6. ASSUME NEW i \in 1..Len(v) PROVE v[i] = z[i]
  <2>0. i \in Int /\ 1 <= i /\ i <= Len(v)
    BY <1>2
  <2>1. CASE i <= p /\ i <= Len(c)
    <3>1. v[i] = u[i]
      BY <1>1, <1>2, <1>3, <2>0, <2>1, SMTT(20) DEF Laid
    <3> QED
      BY <1>1, <2>0, <2>1, <3>1 DEF Laid
  <2>2. CASE i <= p /\ Len(c) < i
    <3>0. i <= p + Len(a) /\ i <= Len(u)
      BY <1>1, <1>2, <1>3, <2>0, <2>2, SMTT(20)
    <3>1. v[i] = u[i]
      BY <2>0, <3>0 DEF Laid
    <3> QED
      BY <1>1, <2>0, <2>2, <3>1 DEF Laid
  <2>3. CASE p < i /\ i <= p + Len(a)
    <3>1. v[i] = u[i]
      BY <1>1, <1>2, <1>3, <2>0, <2>3 DEF Laid
    <3>2. u[i] = a[i - p] /\ i - p \in 1..Len(a)
      BY <1>1, <2>0, <2>3 DEF Laid
    <3>3. z[i] = ab[i - p]
      BY <1>1, <1>3, <2>0, <2>3 DEF Laid
    <3> QED
      BY <1>0, <3>1, <3>2, <3>3
  <2>4. CASE p + Len(a) < i /\ i <= p + Len(a) + Len(b)
    <3>1. v[i] = b[i - (p + Len(a))]
      BY <1>1, <2>0, <2>4 DEF Laid
    <3>2. z[i] = ab[i - p]
      <4>1. p < i /\ i <= p + Len(ab)
        BY <1>1, <1>3, <2>0, <2>4
      <4> QED
        BY <2>0, <4>1 DEF Laid
    <3>3. i - (p + Len(a)) \in 1..Len(b) /\ i - p = Len(a) + (i - (p + Len(a)))
      BY <1>1, <2>0, <2>4
    <3> QED
      BY <1>0, <3>1, <3>2, <3>3
  <2>5. CASE p + Len(a) + Len(b) < i
    <3>1. i <= Len(u) /\ i <= Len(c)
      BY <1>1, <1>2, <1>3, <1>4, <2>0, <2>5
    <3>2. v[i] = u[i]
      BY <1>1, <2>0, <2>5, <3>1 DEF Laid
    <3>3. u[i] = c[i]
      BY <1>1, <2>0, <2>5, <3>1 DEF Laid
    <3>4. z[i] = c[i]
      BY <1>1, <1>3, <2>0, <2>5, <3>1 DEF Laid
    <3> QED
      BY <3>2, <3>3, <3>4
  <2> QED
    BY <1>1, <2>0, <2>1, <2>2, <2>3, <2>4, <2>5
<1> QED
  BY <1>2, <1>5, <1>6, SeqEqual

\* The same of the operator, and for bytes that may be none.
LEMMA OverlayAppend ==
  ASSUME NEW c \in Seq(Nat), NEW p \in Nat, NEW a \in Seq(Nat), NEW b \in Seq(Nat)
  PROVE  F!Overlay(F!Overlay(c, p, a), p + Len(a), b) = F!Overlay(c, p, a \o b)
<1>1. CASE a = <<>>
  <2>1. p + Len(a) = p /\ a \o b = b
    BY <1>1
  <2> QED
    BY <1>1, <2>1, OverlayNothing
<1>2. CASE b = <<>>
  <2>1. a \o b = a
    BY <1>2
  <2> QED
    BY <1>2, <2>1, OverlayNothing
<1>3. CASE a # <<>> /\ b # <<>>
  <2>1. PICK ab : ab = a \o b
    OBVIOUS
  <2>2. ab \in Seq(Nat) /\ Joined(ab, a, b) /\ p + Len(a) \in Nat
    BY <2>1 DEF Joined
  <2>3. ab # <<>>
    BY <1>3, <2>1
  <2>4. PICK u : u = F!Overlay(c, p, a)
    OBVIOUS
  <2>5. Laid(u, c, p, a) /\ u \in Seq(Nat)
    <3>1. Laid(u, c, p, a)
      BY <1>3, <2>4, OverlayIs
    <3> QED
      BY <3>1 DEF Laid
  <2>6. Laid(F!Overlay(u, p + Len(a), b), u, p + Len(a), b)
    BY <1>3, <2>2, <2>5, OverlayIs
  <2>7. Laid(F!Overlay(c, p, ab), c, p, ab)
    BY <2>2, <2>3, OverlayIs
  <2>8. F!Overlay(u, p + Len(a), b) = F!Overlay(c, p, ab)
    <3>0. PICK q \in Nat : q = p + Len(a)
      BY <2>2
    <3>1. PICK v : v = F!Overlay(u, q, b)
      OBVIOUS
    <3>2. PICK z : z = F!Overlay(c, p, ab)
      OBVIOUS
    <3>3. Laid(v, u, q, b) /\ Laid(z, c, p, ab)
      BY <2>6, <2>7, <3>0, <3>1, <3>2
    <3>4. v = z
      BY <2>2, <2>5, <3>0, <3>3, LaidAppend
    <3> QED
      BY <3>0, <3>1, <3>2, <3>4
  <2> QED
    BY <2>1, <2>4, <2>8
<1> QED
  BY <1>1, <1>2, <1>3

WriterTypeOK ==
    /\ file \in Seq(Nat) /\ wpos \in Nat
    /\ pend \in Seq(Nat) /\ wstart \in Nat

\* What is buffered lies within the buffer.
Fits == wstart + Len(pend) <= WCap

WriterInv == WriterTypeOK /\ Fits

FileStep == [AbstractWriter!FileNext]_<<Want, WCursor, wres>>

\* The operator of the two instances is one.
LEMMA OneOverlay == \A c, p, a : AbstractWriter!Overlay(c, p, a) = F!Overlay(c, p, a)
  BY DEF AbstractWriter!Overlay, F!Overlay

\* The file a caller sees after a step.
LEMMA WantAfter == Want' = F!Overlay(file', wpos', pend') /\ WCursor' = wpos' + Len(pend')
  BY DEF Want, WCursor, F!Overlay

\* The file below, and the file a caller sees, are files.
LEMMA OverlayType ==
  ASSUME NEW c \in Seq(Nat), NEW p \in Nat, NEW a \in Seq(Nat)
  PROVE  F!Overlay(c, p, a) \in Seq(Nat)
<1>1. CASE a = <<>>
  BY <1>1, OverlayNothing
<1>2. CASE a # <<>>
  BY <1>2, OverlayIs DEF Laid
<1> QED
  BY <1>1, <1>2

\* The bytes are accepted at the cursor.
Puts(bytes) ==
    Wrote(bytes) /\ Want' = F!Overlay(Want, WCursor, bytes) /\ WCursor' = WCursor + Len(bytes)

\* Which is a step of the file.
LEMMA PutStep == ASSUME NEW bytes, Puts(bytes) PROVE FileStep
<1>1. wres'.op = "write" /\ wres'.bytes = bytes
  BY DEF Puts, Wrote
<1>2. wres' = [op |-> "write", bytes |-> bytes]
  BY DEF Puts, Wrote
<1>3. Want' = AbstractWriter!Overlay(Want, WCursor, bytes)
  BY OneOverlay DEF Puts
<1> QED
  BY <1>1, <1>2, <1>3 DEF Puts, FileStep, AbstractWriter!FileNext, AbstractWriter!Put

\* A step that accepts nothing and leaves the cursor.
LEMMA QuietStep ==
  ASSUME WFailed \/ wres' = [op |-> "flush"], Want' = Want, WCursor' = WCursor
  PROVE  FileStep
<1>1. wres'.op \in {"flush", "failed"}
  BY DEF WFailed
<1> QED
  BY <1>1 DEF FileStep, AbstractWriter!FileNext, AbstractWriter!Quiet

\* flush_buf to its end: what the caller saw is what the file holds, and what is
\* buffered next is laid over that.
LEMMA FlushAll ==
  ASSUME WriterInv, Inner(pend)
  PROVE  /\ file' = Want /\ wpos' = WCursor /\ file' \in Seq(Nat) /\ wpos' \in Nat
         /\ Want' = F!Overlay(Want, WCursor, pend')
         /\ WCursor' = WCursor + Len(pend')
         /\ pend' = <<>> => Want' = Want /\ WCursor' = WCursor
<1>0. file \in Seq(Nat) /\ wpos \in Nat /\ pend \in Seq(Nat)
  BY DEF WriterInv, WriterTypeOK
<1>1. file' = Want /\ wpos' = WCursor
  BY DEF Inner, Want, WCursor
<1>2. file' \in Seq(Nat) /\ wpos' \in Nat
  BY <1>0, <1>1, OverlayType DEF Want, WCursor
<1>3. Want' = F!Overlay(Want, WCursor, pend') /\ WCursor' = WCursor + Len(pend')
  BY <1>1, WantAfter
<1>4. ASSUME pend' = <<>> PROVE Want' = Want /\ WCursor' = WCursor
  <2>1. Want' = Want
    BY <1>3, <1>4, OverlayNothing
  <2>2. Len(pend') = 0
    BY <1>4
  <2> QED
    BY <1>1, <1>2, <1>3, <2>1, <2>2
<1> QED
  BY <1>1, <1>2, <1>3, <1>4

\* flush_buf that stops behind m bytes: they are in the file, the others are
\* still buffered, behind them.
LEMMA FlushPartKeeps ==
  ASSUME WriterInv, NEW m \in 0..(Len(pend) - 1), FlushPart(m)
  PROVE  WriterInv' /\ Want' = Want /\ WCursor' = WCursor
<1>0. file \in Seq(Nat) /\ wpos \in Nat /\ pend \in Seq(Nat) /\ wstart \in Nat /\ Len(pend) \in Nat
  BY DEF WriterInv, WriterTypeOK
<1>1. PICK a : a = SubSeq(pend, 1, m)
  OBVIOUS
<1>2. PICK b : b = SubSeq(pend, m + 1, Len(pend))
  OBVIOUS
<1>3. a \in Seq(Nat) /\ Len(a) = m /\ b \in Seq(Nat) /\ Len(b) = Len(pend) - m
  BY <1>0, <1>1, <1>2, SMTT(20)
<1>4. a \o b = pend
  <2>1. 1 \in 1..(Len(pend) + 1) /\ m \in (1 - 1)..Len(pend) /\ Len(pend) \in m..Len(pend)
    BY <1>0
  <2>2. SubSeq(pend, 1, m) \o SubSeq(pend, m + 1, Len(pend)) = SubSeq(pend, 1, Len(pend))
    BY <1>0, <2>1, ConcatAdjacentSubSeq
  <2> QED
    BY <1>0, <1>1, <1>2, <2>2, SubSeqFull
<1>5. /\ file' = F!Overlay(file, wpos, a) /\ wpos' = wpos + Len(a) /\ pend' = b
      /\ wstart' = wstart + m
  BY <1>1, <1>2 DEF FlushPart, Inner, Prefix, Rest
<1>6. Want' = F!Overlay(file, wpos, a \o b)
  BY <1>0, <1>3, <1>5, WantAfter, OverlayAppend, ZenonT(30)
<1>7. Want' = Want
  BY <1>4, <1>6 DEF Want
<1>8. WCursor' = WCursor
  <2>1. WCursor' = wpos + m + (Len(pend) - m)
    BY <1>3, <1>5, WantAfter
  <2> QED
    BY <1>0, <2>1 DEF WCursor
<1>9. file' \in Seq(Nat)
  BY <1>0, <1>3, <1>5, OverlayType
<1>10. WriterInv'
  <2>1. wpos' \in Nat /\ wstart' \in Nat /\ pend' \in Seq(Nat)
    BY <1>0, <1>3, <1>5
  <2>2. WriterTypeOK'
    BY <1>9, <2>1 DEF WriterInv, WriterTypeOK
  <2>3. wstart' + Len(pend') = wstart + Len(pend)
    <3>1. Len(pend') = Len(pend) - m /\ m \in Nat
      BY <1>0, <1>3, <1>5
    <3>2. \A u, v, w \in Nat : (u + w) + (v - w) = u + v
      OBVIOUS
    <3> QED
      BY <1>0, <1>5, <3>1, <3>2
  <2> QED
    BY <2>2, <2>3 DEF WriterInv, Fits
<1> QED
  BY <1>7, <1>8, <1>10

\* A caller's buffer is a sequence of bytes.
LEMMA BufsType == \A buf \in Bufs : buf \in Seq(Nat)
<1>1. SUFFICES ASSUME NEW n \in 1..(WCap + 1), NEW buf \in [1..n -> Byte] PROVE buf \in Seq(Nat)
  BY DEF Bufs
<1>2. n \in Nat
  BY WriterAssumption
<1>3. buf \in [1..n -> Nat]
  BY WriterAssumption
<1> QED
  BY <1>2, <1>3

\* A prefix of a buffer has the bytes that were asked for.
LEMMA PrefixType ==
  ASSUME NEW buf \in Seq(Nat), NEW k \in 0..Len(buf)
  PROVE  Prefix(buf, k) \in Seq(Nat) /\ Len(Prefix(buf, k)) = k
  BY DEF Prefix

\* write into the spare capacity, also from a pipe: bytes join the buffer.
LEMMA BufferStep ==
  ASSUME WriterInv, NEW bytes \in Seq(Nat), Len(bytes) <= SpareCapacity,
         pend' = pend \o bytes, Wrote(bytes), UNCHANGED <<file, wpos, wstart, wfast>>
  PROVE  WriterInv' /\ Puts(bytes)
<1>0. /\ file \in Seq(Nat) /\ wpos \in Nat /\ pend \in Seq(Nat) /\ wstart \in Nat
      /\ Len(pend) \in Nat /\ Len(bytes) \in Nat /\ WCap \in Nat
  BY WriterAssumption DEF WriterInv, WriterTypeOK
<1>1. pend' \in Seq(Nat) /\ Len(pend') = Len(pend) + Len(bytes)
  BY <1>0
<1>2. WriterInv'
  <2>1. WriterTypeOK'
    BY <1>1 DEF WriterInv, WriterTypeOK
  <2>2. wstart' + Len(pend') <= WCap
    BY <1>0, <1>1 DEF SpareCapacity, BufferedEnd
  <2> QED
    BY <2>1, <2>2 DEF WriterInv, Fits
<1>3. Want' = F!Overlay(file, wpos, pend \o bytes)
  BY WantAfter
<1>4. F!Overlay(file, wpos, pend \o bytes) = F!Overlay(Want, WCursor, bytes)
  BY <1>0, OverlayAppend DEF Want, WCursor
<1>5. WCursor' = WCursor + Len(bytes)
  BY <1>0, <1>1, WantAfter DEF WCursor
<1> QED
  BY <1>2, <1>3, <1>4, <1>5 DEF Puts

\* write and pipe_from_once into a full buffer: flush_buf, then the bytes are
\* the first of the buffer.
LEMMA FlushThenBufferStep ==
  ASSUME WriterInv, NEW bytes \in Seq(Nat), Len(bytes) <= WCap, Inner(pend), pend' = bytes,
         wstart' = 0, Wrote(bytes)
  PROVE  WriterInv' /\ Puts(bytes)
<1>1. WriterTypeOK'
  BY FlushAll DEF WriterInv, WriterTypeOK
<1>2. Fits'
  BY WriterAssumption DEF Fits
<1> QED
  BY <1>1, <1>2, FlushAll DEF WriterInv, Puts

\* flush, whatever it answers once the bytes are in the file.
LEMMA FlushStep ==
  ASSUME WriterInv, Inner(pend), pend' = <<>>, wstart' = 0
  PROVE  WriterInv' /\ Want' = Want /\ WCursor' = WCursor
<1>0. pend' \in Seq(Nat) /\ wstart' \in Nat
  BY DEF WriterInv, WriterTypeOK
<1>1. WriterTypeOK'
  BY <1>0, FlushAll DEF WriterTypeOK
<1>2. Fits'
  BY WriterAssumption DEF Fits
<1> QED
  BY <1>1, <1>2, FlushAll DEF WriterInv

\* flush_buf, then a large buffer goes to the file directly.
LEMMA WriteDirectStep ==
  ASSUME WriterInv, NEW buf \in Seq(Nat), WriteDirect(buf)
  PROVE  WriterInv' /\ \E k \in 0..Len(buf) : Puts(Prefix(buf, k))
<1>0. /\ file \in Seq(Nat) /\ wpos \in Nat /\ pend \in Seq(Nat)
      /\ Len(pend) \in Nat /\ Len(buf) \in Nat
  BY DEF WriterInv, WriterTypeOK
<1>1. PICK k \in 0..Len(buf) : Inner(pend \o Prefix(buf, k)) /\ Wrote(Prefix(buf, k))
  BY DEF WriteDirect
<1>2. pend' = <<>> /\ wstart' = 0 /\ wfast' = wfast
  BY DEF WriteDirect
<1>3. PICK u : u = Prefix(buf, k)
  OBVIOUS
<1>4. u \in Seq(Nat) /\ Len(u) = k
  BY <1>3, PrefixType
<1>5. pend \o u \in Seq(Nat) /\ Len(pend \o u) = Len(pend) + k
  BY <1>0, <1>4, ConcatProperties
<1>6. file' = F!Overlay(file, wpos, pend \o u) /\ wpos' = wpos + (Len(pend) + k)
  BY <1>1, <1>3, <1>5 DEF Inner
<1>7. WriterInv'
  <2>1. file' \in Seq(Nat)
    BY <1>0, <1>5, <1>6, OverlayType
  <2>2. wpos' \in Nat
    BY <1>0, <1>6
  <2> QED
    BY <1>0, <1>2, <2>1, <2>2, WriterAssumption DEF WriterInv, WriterTypeOK, Fits
<1>8. Want' = F!Overlay(Want, WCursor, u)
  <2>1. Want' = file'
    BY <1>2, WantAfter, OverlayNothing
  <2>2. F!Overlay(file, wpos, pend \o u) = F!Overlay(Want, WCursor, u)
    BY <1>0, <1>4, OverlayAppend DEF Want, WCursor
  <2> QED
    BY <1>6, <2>1, <2>2
<1>9. WCursor' = WCursor + Len(u)
  <2>1. Len(pend') = 0
    BY <1>2
  <2> QED
    BY <1>0, <1>4, <1>6, <2>1, WantAfter DEF WCursor
<1> QED
  BY <1>1, <1>3, <1>7, <1>8, <1>9 DEF Puts

\* write that succeeds.
LEMMA WriteStep ==
  ASSUME WriterInv, NEW buf \in Seq(Nat), Write(buf)
  PROVE  WriterInv' /\ \E k \in 0..Len(buf) : Puts(Prefix(buf, k))
<1>0. Len(buf) \in Nat /\ Len(pend) \in Nat /\ wstart \in Nat /\ WCap \in Nat
  BY WriterAssumption DEF WriterInv, WriterTypeOK
<1>1. CASE WriteBuffered(buf)
  <2>1. PICK k : k = Least(SpareCapacity, Len(buf))
    OBVIOUS
  <2>2. /\ SpareCapacity > 0 /\ pend' = pend \o Prefix(buf, k) /\ Wrote(Prefix(buf, k))
        /\ UNCHANGED <<file, wpos, wstart, wfast>>
    BY <1>1, <2>1 DEF WriteBuffered
  <2>3. k \in 0..Len(buf) /\ k <= SpareCapacity
    BY <1>0, <2>1, <2>2 DEF Least, SpareCapacity, BufferedEnd
  <2>4. Prefix(buf, k) \in Seq(Nat) /\ Len(Prefix(buf, k)) = k
    BY <2>3, PrefixType
  <2> QED
    BY <2>2, <2>3, <2>4, BufferStep
<1>2. CASE WriteDirect(buf)
  BY <1>2, WriteDirectStep
<1>3. CASE WriteFlush(buf)
  <2>1. Len(buf) <= WCap
    BY <1>0, <1>3 DEF WriteFlush
  <2>2. WriterInv' /\ Puts(buf)
    BY <1>3, <2>1, FlushThenBufferStep DEF WriteFlush
  <2>3. Len(buf) \in 0..Len(buf) /\ Prefix(buf, Len(buf)) = buf
    BY <1>0, SubSeqFull DEF Prefix
  <2> QED
    BY <2>2, <2>3
<1> QED
  BY <1>1, <1>2, <1>3 DEF Write

\* write, flush and pipe_from_once that fail, also within flush_buf.
LEMMA FailsStep ==
  ASSUME WriterInv,
         \/ \E m \in 0..(Len(pend) - 1) : FlushPart(m)
         \/ Inner(pend) /\ pend' = <<>> /\ wstart' = 0
  PROVE  WriterInv' /\ Want' = Want /\ WCursor' = WCursor
BY FlushPartKeeps, FlushStep

\* pipe_from_once that had bytes, or none.
LEMMA PipeStep ==
  ASSUME WriterInv, NEW bytes \in Seq(Nat), PipeFromOnce(bytes)
  PROVE  WriterInv' /\ Puts(bytes)
<1>1. CASE SpareCapacity > 0
  BY <1>1, BufferStep DEF PipeFromOnce
<1>2. CASE ~(SpareCapacity > 0)
  BY <1>2, FlushThenBufferStep DEF PipeFromOnce
<1> QED
  BY <1>1, <1>2

\* pipe_from_once that fails.
LEMMA PipeFailsStep ==
  ASSUME WriterInv, PipeFails
  PROVE  WriterInv' /\ Want' = Want /\ WCursor' = WCursor
<1>1. CASE FlushFails
  BY <1>1, FailsStep DEF FlushFails
<1>2. CASE WFailed /\ UNCHANGED <<file, wpos, pend, wstart, wfast>>
  <2>1. WriterInv'
    BY <1>2 DEF WriterInv, WriterTypeOK, Fits
  <2> QED
    BY <1>2, <2>1, WantAfter DEF Want, WCursor
<1> QED
  BY <1>1, <1>2 DEF PipeFails

\* seek_inner: the buffered bytes reach the file first. To the position that was asked
\* for it is a step of the file.
LEMMA WSeekInnerStep ==
  ASSUME WriterInv, NEW asked \in Int, NEW p \in Int, WSeekInner(asked, p)
  PROVE  WriterInv' /\ (asked = p => FileStep)
<1>0. /\ file \in Seq(Nat) /\ wpos \in Nat /\ pend \in Seq(Nat)
      /\ Len(pend) \in Nat /\ WCap \in Nat /\ FileMax \in Nat
  BY WriterAssumption DEF WriterInv, WriterTypeOK
<1>1. UNCHANGED wfast
  BY DEF WSeekInner
<1>2. CASE \E m \in 0..(Len(pend) - 1) : FlushPart(m) /\ WFailed
  BY <1>1, <1>2, FailsStep, QuietStep
<1>3. CASE /\ file' = F!Overlay(file, wpos, pend) /\ pend' = <<>> /\ wstart' = 0
           /\ \/ p \in 0..FileMax /\ wpos' = p /\ WSeekDone(asked, p)
              \/ wpos' = WCursor /\ WFailed
  <2>1. file' = Want /\ file' \in Seq(Nat) /\ WCursor \in Nat
    BY <1>0, <1>3, OverlayType DEF Want, WCursor
  <2>2. wpos' \in Nat
    BY <1>0, <1>3, <2>1
  <2>3. pend' \in Seq(Nat) /\ Len(pend') = 0 /\ wstart' \in Nat
    BY <1>0, <1>1, <1>3
  <2>4. WriterInv'
    BY <1>0, <1>3, <2>1, <2>2, <2>3 DEF WriterInv, WriterTypeOK, Fits
  <2>5. Want' = Want
    BY <1>3, <2>1, WantAfter, OverlayNothing
  <2>6. WCursor' = wpos'
    <3>1. WCursor' = wpos' + 0
      BY <2>3, WantAfter
    <3>2. \A n \in Nat : n + 0 = n
      OBVIOUS
    <3> QED
      BY <2>2, <3>1, <3>2
  <2>7. CASE p \in 0..FileMax /\ wpos' = p /\ WSeekDone(asked, p)
    <3>1. wres' = [op |-> "seek", asked |-> asked, pos |-> p]
      BY <2>7 DEF WSeekDone
    <3>2. wres'.op = "seek" /\ wres'.pos = p
      BY <3>1
    <3> QED
      BY <2>4, <2>5, <2>6, <2>7, <3>1, <3>2
      DEF FileStep, AbstractWriter!FileNext, AbstractWriter!SeekTo
  <2>8. CASE wpos' = WCursor /\ WFailed
    BY <2>4, <2>5, <2>6, <2>8, QuietStep
  <2> QED
    BY <1>3, <2>7, <2>8
<1> QED
  BY <1>2, <1>3 DEF WSeekInner

\* What is in the way of the refinement.
SlowSeeks == ~SeekBuffered /\ wfast = FALSE

\* seek_relative; within the buffer it takes back what was accepted.
LEMMA WSeekRelativeStep ==
  ASSUME WriterInv, NEW asked \in Int, NEW rel \in Int, WSeekRelative(asked, rel)
  PROVE  WriterInv' /\ (SlowSeeks /\ asked = WCursor + rel => FileStep)
<1>0. pend \in Seq(Nat) /\ Len(pend) \in Nat /\ wpos \in Nat /\ WCursor \in Nat /\ wstart \in Nat /\ WCap \in Nat
  BY WriterAssumption DEF WriterInv, WriterTypeOK, WCursor
<1>1. CASE rel \in 0..Len(pend)
  <2>1. /\ SeekBuffered /\ pend' = Prefix(pend, rel)
        /\ UNCHANGED <<file, wpos, wstart>>
    BY <1>1 DEF WSeekRelative
  <2>2. pend' \in Seq(Nat) /\ Len(pend') = rel
    BY <1>0, <1>1, <2>1, PrefixType
  <2>3. wstart + rel <= WCap
    BY <1>0, <1>1 DEF WriterInv, Fits
  <2> QED
    BY <2>1, <2>2, <2>3 DEF WriterInv, WriterTypeOK, Fits, SlowSeeks
<1>2. CASE rel \notin 0..Len(pend)
  <2>1. WCursor + rel \in Int /\ WSeekInner(asked, WCursor + rel)
    BY <1>0, <1>2 DEF WSeekRelative
  <2> QED
    BY <2>1, WSeekInnerStep
<1> QED
  BY <1>1, <1>2

\* The answers of the writer below about its speed do not change.
LEMMA SpeedStays == ASSUME [WriterNext]_wvars PROVE UNCHANGED wfast
BY DEF WriterNext, Write, WriteBuffered, WriteDirect, WriteFlush, WriteFails, Flush, FlushFails,
       PipeFromOnce, PipeFails, WSeekRelative, SeekAbs, WSeekInner, wvars

\* Every call keeps the invariant and, with seeks that go to the writer below, is a step of
\* the file with a cursor.
LEMMA WriterNextStep ==
  ASSUME WriterInv, [WriterNext]_wvars
  PROVE  WriterInv' /\ (SlowSeeks => FileStep)
<1>0. /\ pend \in Seq(Nat) /\ Len(pend) \in Nat /\ wpos \in Nat
      /\ FileMax \in Nat /\ WCap \in Nat /\ WCursor \in Nat
  BY WriterAssumption DEF WriterInv, WriterTypeOK, WCursor
<1>1. CASE UNCHANGED wvars
  <2>1. WriterInv'
    BY <1>1 DEF wvars, WriterInv, WriterTypeOK, Fits
  <2>2. Want' = Want /\ WCursor' = WCursor /\ wres' = wres
    BY <1>1, WantAfter DEF wvars, Want, WCursor
  <2> QED
    BY <2>1, <2>2 DEF FileStep
<1>2. ASSUME NEW buf \in Bufs, Write(buf) PROVE WriterInv' /\ FileStep
  BY <1>2, BufsType, WriteStep, PutStep
<1>3. ASSUME NEW buf \in Bufs, WriteFails(buf) PROVE WriterInv' /\ FileStep
  BY <1>3, FailsStep, QuietStep DEF WriteFails
<1>4. CASE Flush
  BY <1>4, FlushStep, QuietStep DEF Flush
<1>5. CASE FlushFails
  BY <1>5, FailsStep, QuietStep DEF FlushFails
<1>6. ASSUME NEW buf \in Bufs \cup {<<>>}, PipeFromOnce(buf) PROVE WriterInv' /\ FileStep
  <2>1. buf \in Seq(Nat)
    <3>1. <<>> \in Seq(Nat)
      OBVIOUS
    <3> QED
      BY <3>1, BufsType
  <2> QED
    BY <1>6, <2>1, PipeStep, PutStep
<1>7. CASE PipeFails
  BY <1>7, PipeFailsStep, QuietStep DEF PipeFails, FlushFails
<1>8. ASSUME NEW rel \in (-FileMax)..FileMax, WSeekRelative(WCursor + rel, rel)
      PROVE  WriterInv' /\ (SlowSeeks => FileStep)
  <2>1. rel \in Int /\ WCursor + rel \in Int
    BY <1>0
  <2> QED
    BY <1>8, <2>1, WSeekRelativeStep
<1>9. ASSUME NEW p \in 0..FileMax, SeekAbs(p) PROVE WriterInv' /\ (SlowSeeks => FileStep)
  <2>1. p \in Int /\ StreamPosition \in Int /\ p - StreamPosition \in Int
    BY <1>0 DEF StreamPosition
  <2>2. CASE wfast
    BY <1>9, <2>1, <2>2, WSeekRelativeStep DEF SeekAbs, SlowSeeks
  <2>3. CASE ~wfast
    BY <1>9, <2>1, <2>3, WSeekInnerStep DEF SeekAbs
  <2> QED
    BY <2>2, <2>3
<1> QED
  BY <1>1, <1>2, <1>3, <1>4, <1>5, <1>6, <1>7, <1>8, <1>9 DEF WriterNext

\* A new writer, and one made from a buffer with bytes in it.
LEMMA WriterInitInv ==
  ASSUME WriterInit
  PROVE  WriterInv /\ (~SeekBuffered => SlowSeeks)
<1>0. ~SeekBuffered => SlowSeeks
  <2>1. wfast \in {FALSE, SeekBuffered} /\ SeekBuffered \in BOOLEAN
    BY WriterAssumption DEF WriterInit
  <2> QED
    BY <2>1 DEF SlowSeeks
<1>1. file = <<>> /\ wpos = 0 /\ wstart \in 0..WCap
  BY DEF WriterInit
<1>2. PICK n \in 0..(WCap - wstart) : pend \in [1..n -> Byte]
  BY DEF WriterInit
<1>3. n \in Nat /\ wstart \in Nat /\ WCap \in Nat
  BY <1>1, WriterAssumption
<1>4. pend \in [1..n -> Nat]
  BY <1>2, WriterAssumption
<1>5. pend \in Seq(Nat) /\ Len(pend) = n
  BY <1>3, <1>4
<1> QED
  BY <1>0, <1>1, <1>3, <1>5 DEF WriterInv, WriterTypeOK, Fits

\* For every capacity, every size of the file and every byte, and however far the
\* flushes get before they fail, BufWriter is the file with a cursor: the bytes a
\* call accepts are the file's bytes at the cursor, laid over it once, and a seek
\* that goes to the writer below ends where it was asked to. Seeks within the
\* pending bytes (~SeekBuffered) are left out: the code answers them from the
\* buffer, drops the pending bytes behind the target (buf_writer.rs:205-218;
\* SeekKeepsBytes) and returns another position (SeekReturnsPosition).
THEOREM WriterRefines ==
  ASSUME ~SeekBuffered
  PROVE  WriterSpec => WriterFile
<1>1. WriterInit => WriterInv /\ SlowSeeks
  BY WriterInitInv
<1>2. WriterInv /\ SlowSeeks /\ [WriterNext]_wvars => (WriterInv /\ SlowSeeks)' /\ FileStep
  BY WriterNextStep, SpeedStays DEF SlowSeeks
<1> QED
  BY <1>1, <1>2, PTL DEF WriterSpec, WriterFile, AbstractWriter!FileSpec, FileStep

-----------------------------------------------------------------------------
(* SeekNumbers *)

\* The factors are multiplied from the left; the units have at most five.
LEMMA ProductIs ==
  ASSUME NEW s \in Seq(Nat)
  PROVE  /\ Len(s) = 1 => Product(s) = s[1]
         /\ Len(s) = 2 => Product(s) = s[1] * s[2]
         /\ Len(s) = 3 => Product(s) = s[1] * s[2] * s[3]
         /\ Len(s) = 4 => Product(s) = s[1] * s[2] * s[3] * s[4]
         /\ Len(s) = 5 => Product(s) = s[1] * s[2] * s[3] * s[4] * s[5]
<1> DEFINE n == Len(s)
           Partial(f) == f = [i \in 0..n |-> IF i = 0 THEN 1 ELSE f[i - 1] * s[i]]
           p == CHOOSE f : Partial(f)
<1>1. Product(s) = p[n]
  BY DEF Product
<1> SUFFICES ASSUME n \in 1..5
             PROVE  /\ n = 1 => p[n] = s[1]
                    /\ n = 2 => p[n] = s[1] * s[2]
                    /\ n = 3 => p[n] = s[1] * s[2] * s[3]
                    /\ n = 4 => p[n] = s[1] * s[2] * s[3] * s[4]
                    /\ n = 5 => p[n] = s[1] * s[2] * s[3] * s[4] * s[5]
  BY <1>1
<1>2. \A i \in 1..n : s[i] \in Int
  OBVIOUS
<1> HIDE DEF n
<1>3. \E f : Partial(f)
  <2> DEFINE q1 == s[1]
             q2 == q1 * s[2]
             q3 == q2 * s[3]
             q4 == q3 * s[4]
             q5 == q4 * s[5]
             g == [i \in 0..n |-> IF i = 0 THEN 1 ELSE IF i = 1 THEN q1 ELSE IF i = 2 THEN q2
                                  ELSE IF i = 3 THEN q3 ELSE IF i = 4 THEN q4 ELSE q5]
  <2>1. q1 = 1 * s[1] /\ q2 = q1 * s[2] /\ q3 = q2 * s[3] /\ q4 = q3 * s[4] /\ q5 = q4 * s[5]
    BY <1>2
  <2> HIDE DEF q1, q2, q3, q4, q5
  <2>2. ASSUME NEW i \in 0..n PROVE g[i] = IF i = 0 THEN 1 ELSE g[i - 1] * s[i]
    <3>1. i \in {0, 1, 2, 3, 4, 5}
      OBVIOUS
    <3> QED
      BY <2>1, <3>1, SMTT(20)
  <2>3. g = [i \in 0..n |-> IF i = 0 THEN 1 ELSE g[i - 1] * s[i]]
    BY <2>2
  <2> QED
    BY <2>3
<1>4. Partial(p)
  BY <1>3
<1> HIDE DEF p
<1>5. \A i \in 0..n : p[i] = IF i = 0 THEN 1 ELSE p[i - 1] * s[i]
  BY <1>4
<1>6. p[0] = 1 /\ p[1] = 1 * s[1]
  BY <1>5
<1>7. /\ n >= 2 => p[2] = p[1] * s[2]
      /\ n >= 3 => p[3] = p[2] * s[3]
      /\ n >= 4 => p[4] = p[3] * s[4]
      /\ n >= 5 => p[5] = p[4] * s[5]
  BY <1>5
<1>8. p[1] = s[1]
  BY <1>2, <1>6
<1> QED
  BY <1>7, <1>8

\* Both notations count the same units.
LEMMA ScalesAgree == \A i \in 0..3 : UnnamedScale(i) = NamedScale(4 - i)
<1> DEFINE P == MsPerSec
           N == NsPerMs
           m == P * N
<1>1. m \in Nat /\ P \in Nat /\ N \in Nat
  BY NumberAssumption
<1> HIDE DEF m, P, N
<1> DEFINE A == <<24, 60, 60, P, N>>
           B == <<24, 60, 60, m>>
<1>2. /\ A \in Seq(Nat) /\ Len(A) = 5 /\ A[1] = 24 /\ A[2] = 60 /\ A[3] = 60 /\ A[4] = P /\ A[5] = N
      /\ B \in Seq(Nat) /\ Len(B) = 4 /\ B[1] = 24 /\ B[2] = 60 /\ B[3] = 60 /\ B[4] = m
  BY <1>1
<1>3. NamedScales = A /\ UnnamedScales = B
  BY DEF NamedScales, UnnamedScales, m, P, N
<1> HIDE DEF A, B
<1>4. ASSUME NEW j \in 1..4
      PROVE  LET s == SubSeq(A, j, 5)
             IN  s \in Seq(Nat) /\ Len(s) = 6 - j /\ \A i \in 1..(6 - j) : s[i] = A[j + i - 1]
  <2>1. j \in Int /\ 5 \in Int /\ j <= 5 /\ 5 - j + 1 = 6 - j /\ \A i \in j..5 : i \in 1..5
    OBVIOUS
  <2>2. \A i \in j..5 : A[i] \in Nat
    <3>1. \A q \in Seq(Nat) : \A i \in 1..Len(q) : q[i] \in Nat
      OBVIOUS
    <3>2. \A i \in 1..5 : A[i] \in Nat
      BY <1>2, <3>1, Zenon
    <3> QED
      BY <2>1, <3>2, Zenon
  <2> QED
    BY <2>1, <2>2, SubSeqProperties
<1>5. ASSUME NEW j \in 1..4
      PROVE  LET s == SubSeq(B, j, 4)
             IN  s \in Seq(Nat) /\ Len(s) = 5 - j /\ \A i \in 1..(5 - j) : s[i] = B[j + i - 1]
  <2>1. j \in Int /\ 4 \in Int /\ j <= 4 /\ 4 - j + 1 = 5 - j /\ \A i \in j..4 : i \in 1..4
    OBVIOUS
  <2>2. \A i \in j..4 : B[i] \in Nat
    <3>1. \A q \in Seq(Nat) : \A i \in 1..Len(q) : q[i] \in Nat
      OBVIOUS
    <3>2. \A i \in 1..4 : B[i] \in Nat
      BY <1>2, <3>1, Zenon
    <3> QED
      BY <2>1, <3>2, Zenon
  <2> QED
    BY <2>1, <2>2, SubSeqProperties
<1>6. /\ Product(SubSeq(A, 4, 5)) = P * N
      /\ Product(SubSeq(A, 3, 5)) = 60 * P * N
      /\ Product(SubSeq(A, 2, 5)) = 60 * 60 * P * N
      /\ Product(SubSeq(A, 1, 5)) = 24 * 60 * 60 * P * N
  <2> DEFINE s(j) == SubSeq(A, j, 5)
  <2>1. /\ s(4) \in Seq(Nat) /\ Len(s(4)) = 2 /\ s(4)[1] = P /\ s(4)[2] = N
        /\ s(3) \in Seq(Nat) /\ Len(s(3)) = 3 /\ s(3)[1] = 60 /\ s(3)[2] = P /\ s(3)[3] = N
    BY <1>2, <1>4
  <2>2. /\ s(2) \in Seq(Nat) /\ Len(s(2)) = 4 /\ s(2)[1] = 60 /\ s(2)[2] = 60 /\ s(2)[3] = P /\ s(2)[4] = N
        /\ s(1) \in Seq(Nat) /\ Len(s(1)) = 5 /\ s(1)[1] = 24 /\ s(1)[2] = 60 /\ s(1)[3] = 60 /\ s(1)[4] = P
        /\ s(1)[5] = N
    BY <1>2, <1>4
  <2> HIDE DEF s
  <2>3. /\ Product(s(4)) = P * N /\ Product(s(3)) = 60 * P * N /\ Product(s(2)) = 60 * 60 * P * N
        /\ Product(s(1)) = 24 * 60 * 60 * P * N
    BY <2>1, <2>2, ProductIs, SMTT(20)
  <2> QED
    BY <2>3 DEF s
<1>7. /\ Product(SubSeq(B, 4, 4)) = m
      /\ Product(SubSeq(B, 3, 4)) = 60 * m
      /\ Product(SubSeq(B, 2, 4)) = 60 * 60 * m
      /\ Product(SubSeq(B, 1, 4)) = 24 * 60 * 60 * m
  <2> DEFINE s(j) == SubSeq(B, j, 4)
  <2>1. /\ s(4) \in Seq(Nat) /\ Len(s(4)) = 1 /\ s(4)[1] = m
        /\ s(3) \in Seq(Nat) /\ Len(s(3)) = 2 /\ s(3)[1] = 60 /\ s(3)[2] = m
    BY <1>2, <1>5
  <2>2. /\ s(2) \in Seq(Nat) /\ Len(s(2)) = 3 /\ s(2)[1] = 60 /\ s(2)[2] = 60 /\ s(2)[3] = m
        /\ s(1) \in Seq(Nat) /\ Len(s(1)) = 4 /\ s(1)[1] = 24 /\ s(1)[2] = 60 /\ s(1)[3] = 60 /\ s(1)[4] = m
    BY <1>2, <1>5
  <2> HIDE DEF s
  <2>3. /\ Product(s(4)) = m /\ Product(s(3)) = 60 * m /\ Product(s(2)) = 60 * 60 * m
        /\ Product(s(1)) = 24 * 60 * 60 * m
    BY <2>1, <2>2, ProductIs
  <2> QED
    BY <2>3 DEF s
<1>8. /\ P * N = m /\ 60 * P * N = 60 * m /\ 60 * 60 * P * N = 60 * 60 * m
      /\ 24 * 60 * 60 * P * N = 24 * 60 * 60 * m
  BY <1>1 DEF m
<1>9. \A i \in 0..3 : /\ UnnamedScale(i) = Product(SubSeq(B, 4 - i, 4))
                      /\ NamedScale(4 - i) = Product(SubSeq(A, 4 - i, 5))
  BY <1>2, <1>3 DEF UnnamedScale, NamedScale
<1>10. \A i \in 0..3 : 4 - i \in {1, 2, 3, 4}
  OBVIOUS
<1> QED
  BY <1>6, <1>7, <1>8, <1>9, <1>10

\* A difference that wraps once.
LEMMA WrapIs ==
  /\ \A n \in U64 : Wrap(n) = n
  /\ \A n \in Int : -(2 * Half) <= n /\ n < 0 => Wrap(n) = n + 2 * Half
  /\ \A n \in Int : 2 * Half <= n /\ n < 4 * Half => Wrap(n) = n - 2 * Half
<1> DEFINE M == 2 * Half
<1>1. M \in Nat \ {0} /\ Half \in Nat
  BY NumberAssumption
<1>2. /\ \A n \in U64 : Wrap(n) = n % M /\ n \in Int /\ 0 <= n /\ n < M
      /\ \A n \in Int : Wrap(n) = n % M
  BY <1>1 DEF U64, Wrap
<1> HIDE DEF M
<1>3. \A n \in Int : n = M * (n \div M) + (n % M) /\ n \div M \in Int /\ n % M \in 0..(M - 1)
  BY <1>1
<1>4. \A a \in Int : (a >= 1 => M * a >= M) /\ (a <= -1 => M * a <= -M) /\ (a <= -2 => M * a <= -M - M)
                     /\ M * a \in Int /\ (a = 0 => M * a = 0) /\ (a = -1 => M * a = -M)
                     /\ (a >= 2 => M * a >= M + M) /\ (a <= 0 => M * a <= 0) /\ (a = 1 => M * a = M)
  BY <1>1
<1>5. ASSUME NEW n \in Int, 0 <= n, n < M PROVE n % M = n
  <2>1. n \div M = 0
    BY <1>1, <1>3, <1>4, <1>5
  <2> QED
    BY <1>1, <1>3, <1>4, <2>1
<1>6. ASSUME NEW n \in Int, -M <= n, n < 0 PROVE n % M = n + M
  <2>1. n \div M = -1
    BY <1>1, <1>3, <1>4, <1>6
  <2> QED
    BY <1>1, <1>3, <1>4, <2>1
<1>7. ASSUME NEW n \in Int, M <= n, n < M + M PROVE n % M = n - M
  <2>1. n \div M = 1
    BY <1>1, <1>3, <1>4, <1>7
  <2> QED
    BY <1>1, <1>3, <1>4, <2>1
<1>8. 4 * Half = M + M /\ -(2 * Half) = -M /\ 2 * Half = M
  BY <1>1 DEF M
<1> QED
  BY <1>2, <1>5, <1>6, <1>7, <1>8

\* Times convert without loss.
LEMMA TimesExact ==
  /\ \A t \in Nat : TryAsNanos(FromMs(t)) = {t * NsPerMs} /\ TryAsNanos(FromNanos(t)) = {t}
  /\ TryAsNanos(Indefinite) = {}
<1> DEFINE P == MsPerSec
           N == NsPerMs
           m == P * N
<1>1. P \in Nat \ {0} /\ N \in Nat \ {0}
  BY NumberAssumption
<1>2. m \in Nat \ {0}
  BY <1>1
<1>3. \A k \in Nat \ {0}, t \in Nat : t = k * (t \div k) + (t % k) /\ t \div k \in Nat /\ t % k \in Nat
  OBVIOUS
<1>4. TryAsNanos(Indefinite) = {}
  BY DEF TryAsNanos, Indefinite
<1>5. ASSUME NEW t \in Nat PROVE TryAsNanos(FromMs(t)) = {t * N}
  <2> DEFINE s == t \div P
             r == t % P
  <2>1. t = P * s + r /\ s \in Nat /\ r \in Nat
    BY <1>1, <1>3
  <2>2. FromMs(t) = [sec |-> s, nanos |-> r * N]
    BY DEF FromMs
  <2> HIDE DEF s, r
  <2>3. r * N \in Nat
    BY <1>1, <2>1
  <2>4. TryAsNanos(FromMs(t)) = {r * N + s * P * N}
    BY <2>1, <2>2, <2>3 DEF TryAsNanos
  <2>5. \A a, b, c, d \in Nat : b * c + a * d * c = (d * a + b) * c
    OBVIOUS
  <2> QED
    BY <1>1, <2>1, <2>4, <2>5
<1>6. ASSUME NEW t \in Nat PROVE TryAsNanos(FromNanos(t)) = {t}
  <2> DEFINE s == t \div m
             r == t % m
  <2>1. t = m * s + r /\ s \in Nat /\ r \in Nat
    BY <1>2, <1>3
  <2>2. FromNanos(t) = [sec |-> s, nanos |-> r]
    BY DEF FromNanos
  <2> HIDE DEF s, r
  <2>3. TryAsNanos(FromNanos(t)) = {r + s * P * N}
    BY <2>1, <2>2 DEF TryAsNanos
  <2>4. \A a, b, c, d \in Nat : b + a * c * d = (c * d) * a + b
    OBVIOUS
  <2> QED
    BY <1>1, <2>1, <2>3, <2>4
<1> QED
  BY <1>4, <1>5, <1>6

\* The i64 with the same bits as a difference of two u64.
LEMMA AsI64Is ==
  \A n \in Int : -(2 * Half) < n /\ n < 2 * Half =>
     AsI64(n) = IF n < -Half THEN n + 2 * Half ELSE IF n < Half THEN n ELSE n - 2 * Half
<1> SUFFICES ASSUME NEW n \in Int, -(2 * Half) < n, n < 2 * Half
             PROVE  AsI64(n) = IF n < -Half THEN n + 2 * Half ELSE IF n < Half THEN n ELSE n - 2 * Half
  OBVIOUS
<1>1. Half \in Nat /\ Half > 1
  BY NumberAssumption
<1>2. Wrap(n) = IF n < 0 THEN n + 2 * Half ELSE n
  BY <1>1, WrapIs DEF U64
<1> QED
  BY <1>1, <1>2 DEF AsI64

\* UintExt agrees with the integers.
LEMMA MixedSigns ==
  ASSUME x \in U64, y \in U64
  PROVE  /\ CheckedSignedDiff(x, y) = {x - y} \cap I64
         /\ SaturatingSignedDiff(x, y) = Clamp(x - y, -Half, Half - 1)
         /\ LET s == AsI64(y)
                d == OverflowingSubSigned(x, s)
            IN  /\ d.overflow = (x - s \notin U64) /\ d.res = Wrap(x - s)
                /\ SaturatingSubSigned(x, s) = Clamp(x - s, 0, 2 * Half - 1)
<1>1. Half \in Nat /\ Half > 1 /\ x \in Int /\ y \in Int /\ 0 <= x /\ 0 <= y /\ x < 2 * Half /\ y < 2 * Half
  BY NumberAssumption DEF U64
<1> DEFINE e == OverflowingSignedDiff(x, y)
           r == AsI64(x - y)
<1>2. r = IF x - y < -Half THEN x - y + 2 * Half ELSE IF x - y < Half THEN x - y ELSE x - y - 2 * Half
  BY <1>1, AsI64Is
<1>3. e = [res |-> r, overflow |-> (x >= y) = (r < 0)]
  BY DEF OverflowingSignedDiff
<1> HIDE DEF r, e
<1>4. r \in Int /\ ((x >= y) = (r < 0)) = (x - y < -Half \/ x - y >= Half)
  BY <1>1, <1>2
<1>5. e.res = r /\ e.overflow = (x - y < -Half \/ x - y >= Half)
  BY <1>3, <1>4
<1>6. CheckedSignedDiff(x, y) = {x - y} \cap I64
  <2>1. CheckedSignedDiff(x, y) = IF e.overflow THEN {} ELSE {e.res}
    BY DEF CheckedSignedDiff, e
  <2>2. x - y \in I64 <=> ~(x - y < -Half \/ x - y >= Half)
    BY <1>1 DEF I64
  <2>3. x - y \in I64 => r = x - y
    BY <1>1, <1>2, <2>2
  <2> QED
    BY <1>5, <2>1, <2>2, <2>3
<1>7. SaturatingSignedDiff(x, y) = Clamp(x - y, -Half, Half - 1)
  <2>1. SaturatingSignedDiff(x, y) = IF ~e.overflow THEN e.res ELSE IF e.res < 0 THEN Half - 1 ELSE -Half
    BY DEF SaturatingSignedDiff, e
  <2>2. CASE x - y < -Half
    <3>1. ~(r < 0)
      BY <1>1, <1>2, <2>2
    <3> QED
      BY <1>5, <2>1, <2>2, <3>1 DEF Clamp
  <2>3. CASE x - y >= Half
    <3>1. r < 0 /\ ~(x - y < -Half) /\ x - y > Half - 1
      BY <1>1, <1>2, <2>3
    <3> QED
      BY <1>5, <2>1, <2>3, <3>1 DEF Clamp
  <2>4. CASE ~(x - y < -Half \/ x - y >= Half)
    <3>1. r = x - y /\ ~(x - y < -Half) /\ ~(x - y > Half - 1)
      BY <1>1, <1>2, <2>4
    <3> QED
      BY <1>5, <2>1, <2>4, <3>1 DEF Clamp
  <2> QED
    BY <2>2, <2>3, <2>4
<1> DEFINE s == AsI64(y)
           d == OverflowingSubSigned(x, s)
<1>8. s = IF y < Half THEN y ELSE y - 2 * Half
  BY <1>1, AsI64Is
<1>9. d = [res |-> Wrap(x - Wrap(s)), overflow |-> (x < Wrap(s)) # (s < 0)]
  BY DEF OverflowingSubSigned
<1>10. SaturatingSubSigned(x, s) = IF ~d.overflow THEN d.res ELSE IF s < 0 THEN 2 * Half - 1 ELSE 0
  BY DEF SaturatingSubSigned
<1> HIDE DEF s, d
<1>11. Wrap(s) = y /\ s \in Int
  BY <1>1, <1>8, WrapIs DEF U64
<1>12. Wrap(x - y) = IF x - y < 0 THEN x - y + 2 * Half ELSE x - y
  BY <1>1, WrapIs DEF U64
<1>13. Wrap(x - s) = Wrap(x - y)
  <2>1. CASE y < Half
    BY <1>8, <2>1
  <2>2. CASE ~(y < Half)
    <3>1. s = y - 2 * Half /\ x - s = x - y + 2 * Half
      BY <1>1, <1>8, <2>2
    <3>2. CASE x - s < 2 * Half
      <4>1. x - s \in U64
        BY <1>1, <3>1, <3>2 DEF U64
      <4>2. x - y < 0
        BY <1>1, <3>1, <3>2
      <4> QED
        BY <1>12, <3>1, <4>1, <4>2, WrapIs
    <3>3. CASE ~(x - s < 2 * Half)
      <4>1. x - s \in Int /\ 2 * Half <= x - s /\ x - s < 4 * Half /\ ~(x - y < 0) /\ x - s - 2 * Half = x - y
        BY <1>1, <3>1, <3>3
      <4> QED
        BY <1>12, <4>1, WrapIs
    <3> QED
      BY <3>2, <3>3
  <2> QED
    BY <2>1, <2>2
<1>14. ((x < y) # (s < 0)) = (x - s \notin U64)
  BY <1>1, <1>8 DEF U64
<1>15. d.res = Wrap(x - s) /\ d.overflow = (x - s \notin U64)
  BY <1>9, <1>11, <1>13, <1>14
<1>16. SaturatingSubSigned(x, s) = Clamp(x - s, 0, 2 * Half - 1)
  <2>1. CASE x - s \in U64
    <3>1. Wrap(x - s) = x - s /\ ~(x - s < 0) /\ ~(x - s > 2 * Half - 1)
      BY <1>1, <1>11, <2>1, WrapIs DEF U64
    <3> QED
      BY <1>10, <1>15, <2>1, <3>1 DEF Clamp
  <2>2. CASE x - s \notin U64
    <3>1. CASE s < 0
      <4>1. ~(x - s < 0) /\ x - s > 2 * Half - 1
        BY <1>1, <1>11, <2>2, <3>1 DEF U64
      <4> QED
        BY <1>10, <1>15, <2>2, <3>1, <4>1 DEF Clamp
    <3>2. CASE ~(s < 0)
      <4>1. x - s < 0
        BY <1>1, <1>11, <2>2, <3>2 DEF U64
      <4> QED
        BY <1>10, <1>15, <2>2, <3>2, <4>1 DEF Clamp
    <3> QED
      BY <3>1, <3>2
  <2> QED
    BY <2>1, <2>2
<1> QED
  BY <1>6, <1>7, <1>15, <1>16 DEF s, d

\* The positions and the arguments are what a u64 can hold.
NumbersInv == pos \in U64 /\ slen \in U64 /\ x \in U64 /\ y \in U64 /\ SeekExact

\* The two seeks of a large amount add up.
LEMMA RewindStep ==
  ASSUME NumbersInv, NEW amount \in U64, RewindAmount(amount)
  PROVE  NumbersInv'
<1>0. Half \in Nat /\ Half > 1 /\ amount \in Int /\ amount < 2 * Half /\ pos \in Int
  BY NumberAssumption DEF U64, NumbersInv
<1>1. UNCHANGED <<slen, x, y>>
  BY DEF RewindAmount
<1>2. pos' \in U64 /\ (Fail \/ (Result("rewind", amount, pos) /\ pos' = pos - amount))
  <2>1. CASE amount < Half
    BY <1>0, <2>1 DEF RewindAmount, Seekable, NumbersInv
  <2>2. CASE amount >= Half
    <3>1. AsI64(amount - Half) = amount - Half
      BY <1>0, <2>2, AsI64Is
    <3>2. pos - Half + (-AsI64(amount - Half)) = pos - amount
      BY <1>0, <3>1
    <3> QED
      BY <1>0, <2>2, <3>2 DEF RewindAmount, Seekable, NumbersInv
  <2> QED
    BY <1>0, <2>1, <2>2
<1>3. SeekExact'
  BY <1>2 DEF SeekExact, Fail, Result
<1> QED
  BY <1>1, <1>2, <1>3 DEF NumbersInv

\* Every operation keeps the invariant.
LEMMA NumbersStep == ASSUME ~FarSkip PROVE NumbersInv /\ [NumbersNext]_nvars => NumbersInv'
<1> SUFFICES ASSUME NumbersInv, [NumbersNext]_nvars PROVE NumbersInv'
  OBVIOUS
<1>0. Half \in Nat /\ Half > 1 /\ pos \in Int
  BY NumberAssumption DEF U64, NumbersInv
<1>1. CASE StreamLenDefault
  <2>1. UNCHANGED <<slen, x, y>> /\ pos' \in U64
    BY <1>1 DEF StreamLenDefault, NumbersInv
  <2>2. SeekExact'
    BY <1>1, <2>1 DEF StreamLenDefault, SeekExact, Fail
  <2> QED
    BY <2>1, <2>2 DEF NumbersInv
<1>2. CASE Rewind
  <2>1. UNCHANGED <<slen, x, y>> /\ pos' \in U64
    BY <1>0, <1>2 DEF Rewind, NumbersInv, U64
  <2>2. 0 = pos - pos
    BY <1>0
  <2>3. SeekExact'
    BY <1>2, <2>1, <2>2 DEF Rewind, SeekExact, Fail, Result
  <2> QED
    BY <2>1, <2>3 DEF NumbersInv
<1>3. ASSUME NEW amount \in U64, SkipAmount(amount) PROVE NumbersInv'
  <2>0. amount < Half
    BY <1>0, <1>3 DEF SkipAmount, U64
  <2>1. UNCHANGED <<slen, x, y>> /\ pos' \in U64 /\ (Fail \/ (Result("skip", amount, pos) /\ pos' = pos + amount))
    BY <1>3, <2>0 DEF SkipAmount, Seekable, NumbersInv
  <2>2. SeekExact'
    BY <2>1 DEF SeekExact, Fail, Result
  <2> QED
    BY <2>1, <2>2 DEF NumbersInv
<1>4. ASSUME NEW a \in U64, NEW b \in U64, Ask(a, b) PROVE NumbersInv'
  BY <1>4 DEF Ask, NumbersInv, SeekExact
<1>5. CASE UNCHANGED nvars
  BY <1>5 DEF nvars, NumbersInv, SeekExact
<1> QED
  BY <1>1, <1>2, <1>3, <1>4, <1>5, RewindStep DEF NumbersNext

\* For any width of the integers and any scales: the default methods of Seek move
\* by exactly the amount they are given, UintExt agrees with the integers, and
\* times and durations convert without loss.  (Not when skip_amount is called with
\* more than i64::MAX.)
THEOREM NumbersCorrect == ASSUME ~FarSkip PROVE NumbersSpec => []NumbersExact
<1>1. NumbersInit => NumbersInv
  <2>1. 0 \in U64
    BY NumberAssumption DEF U64
  <2> QED
    BY <2>1 DEF NumbersInit, NumbersInv, SeekExact
<1>2. NumbersInv /\ [NumbersNext]_nvars => NumbersInv'
  BY NumbersStep
<1>3. NumbersInv => NumbersExact
  <2> SUFFICES ASSUME NumbersInv PROVE NumbersExact
    OBVIOUS
  <2>1. x \in Nat
    BY NumberAssumption DEF NumbersInv, U64
  <2>2. ArithmeticExact
    BY <2>1, MixedSigns, TimesExact, ScalesAgree DEF NumbersInv, ArithmeticExact
  <2> QED
    BY <2>2 DEF NumbersExact, NumbersInv
<1> QED
  BY <1>1, <1>2, <1>3, PTL DEF NumbersSpec

-----------------------------------------------------------------------------
(* ReadDir: the buffer is the last piece of the directory that was read *)

\* Induction, over a set of numbers.
LEMMA Induction ==
  ASSUME NEW S \in SUBSET Nat, 0 \in S, \A n \in S : n + 1 \in S
  PROVE  \A n \in Nat : n \in S
<1> DEFINE R == {ss \in Nat \X Nat : ss[1] < ss[2]}
           T == Nat \ S
<1>1. IsWellFoundedOn(R, Nat)
  BY NatLessThanWellFounded DEF OpToRel
<1>2. \A m, n \in Nat : <<m, n>> \in R <=> m < n
  OBVIOUS
<1> HIDE DEF R
<1> SUFFICES ASSUME T # {} PROVE FALSE
  OBVIOUS
<1>3. PICK n \in T : \A m \in T : ~(<<m, n>> \in R)
  BY <1>1, WFMin
<1>4. n \in Nat /\ n # 0 /\ n - 1 \in Nat /\ n - 1 < n /\ (n - 1) + 1 = n
  BY <1>3
<1>5. n - 1 \in S
  BY <1>2, <1>3, <1>4
<1> QED
  BY <1>3, <1>4, <1>5

\* The sizes of the first records of r, in a directory.
PartialSums(dir, r, f) == f = [i \in 0..Len(r) |-> IF i = 0 THEN 0 ELSE f[i - 1] + dir[r[i]]]
Sums(dir, r) == CHOOSE f : PartialSums(dir, r, f)

\* What it is to be records of a directory whose lengths are positive.
Records(dir, r) == r \in Seq(Nat) /\ \A i \in 1..Len(r) : dir[r[i]] \in Nat \ {0}

\* The sums start at zero and grow by each record.
LEMMA SumsAre ==
  ASSUME NEW dir, NEW r, Records(dir, r)
  PROVE  /\ \A i \in 0..Len(r) : Sums(dir, r)[i] \in Nat
         /\ Sums(dir, r)[0] = 0
         /\ \A i \in 1..Len(r) : Sums(dir, r)[i] = Sums(dir, r)[i - 1] + dir[r[i]]
<1> DEFINE n == Len(r)
           Next(f, i) == IF i = 0 THEN 0 ELSE f[i - 1] + dir[r[i]]
           S == {m \in Nat : m <= n => \E f \in [0..m -> Nat] : \A i \in 0..m : f[i] = Next(f, i)}
           v == [i \in 1..n |-> dir[r[i]]]
<1>0. n \in Nat /\ \A i \in 1..n : dir[r[i]] \in Nat
  BY DEF Records
<1> HIDE DEF n
<1>1. 0 \in S
  <2>1. [i \in 0..0 |-> 0] \in [0..0 -> Nat] /\ \A i \in 0..0 : i = 0
    OBVIOUS
  <2> QED
    BY <2>1
<1>2. ASSUME NEW m \in S PROVE m + 1 \in S
  <2> SUFFICES ASSUME m + 1 <= n
               PROVE  \E f \in [0..(m + 1) -> Nat] : \A i \in 0..(m + 1) : f[i] = Next(f, i)
    <3>1. m + 1 \in Nat
      OBVIOUS
    <3> QED
      BY <3>1, Zenon
  <2>1. m \in Nat /\ m <= n /\ m + 1 \in 1..n
    BY <1>0
  <2>2. PICK f \in [0..m -> Nat] : \A i \in 0..m : f[i] = Next(f, i)
    BY <2>1
  <2> DEFINE next == f[m] + dir[r[m + 1]]
             g == [i \in 0..(m + 1) |-> IF i = m + 1 THEN next ELSE f[i]]
  <2>3. next \in Nat
    BY <1>0, <2>1
  <2> HIDE DEF next
  <2>4. g \in [0..(m + 1) -> Nat]
    BY <2>1, <2>3
  <2>5. ASSUME NEW i \in 0..(m + 1) PROVE g[i] = Next(g, i)
    <3>1. CASE i = m + 1
      <4>1. i # 0 /\ i - 1 = m /\ g[i] = next /\ g[i - 1] = f[m]
        BY <2>1, <3>1
      <4> QED
        BY <3>1, <4>1 DEF next
    <3>2. CASE i # m + 1
      <4>1. i \in 0..m /\ g[i] = f[i] /\ (i # 0 => i - 1 \in 0..m /\ g[i - 1] = f[i - 1])
        BY <2>1, <3>2
      <4> QED
        BY <2>2, <4>1
    <3> QED
      BY <3>1, <3>2
  <2> QED
    BY <2>4, <2>5
<1>3. n \in S
  <2> HIDE DEF S
  <2>1. S \in SUBSET Nat
    BY DEF S
  <2> QED
    BY <1>0, <1>1, <1>2, <2>1, Induction
<1>4. PICK f \in [0..n -> Nat] : \A i \in 0..n : f[i] = Next(f, i)
  BY <1>0, <1>3
<1>5. f = [i \in 0..n |-> Next(f, i)]
  BY <1>4
<1>6. PartialSums(dir, r, f)
  BY <1>5 DEF PartialSums, n
<1>7. PartialSums(dir, r, Sums(dir, r))
  BY <1>6 DEF Sums
<1> DEFINE p == Sums(dir, r)
<1>8. \A i \in 0..n : p[i] = Next(p, i)
  <2>1. p = [i \in 0..n |-> Next(p, i)]
    BY <1>7 DEF PartialSums, n
  <2> HIDE DEF p
  <2> QED
    BY <2>1
<1> HIDE DEF p
<1> DEFINE Q == {m \in Nat : m <= n => p[m] = f[m]}
<1>9. 0 \in Q
  BY <1>0, <1>4, <1>8
<1>10. ASSUME NEW m \in Q PROVE m + 1 \in Q
  <2> SUFFICES ASSUME m + 1 <= n PROVE p[m + 1] = f[m + 1]
    OBVIOUS
  <2>1. m + 1 \in 0..n /\ m + 1 # 0 /\ (m + 1) - 1 = m /\ m <= n
    BY <1>0
  <2>2. p[m] = f[m]
    BY <2>1
  <2> QED
    BY <1>4, <1>8, <2>1, <2>2
<1>11. \A m \in Nat : m \in Q
  <2> HIDE DEF Q
  <2>1. Q \in SUBSET Nat
    BY DEF Q
  <2> QED
    BY <1>9, <1>10, <2>1, Induction
<1>12. \A i \in 0..n : p[i] \in Nat
  BY <1>0, <1>4, <1>11
<1>13. p[0] = 0
  BY <1>0, <1>8
<1>14. \A i \in 1..n : p[i] = p[i - 1] + dir[r[i]]
  BY <1>0, <1>8
<1> QED
  BY <1>12, <1>13, <1>14 DEF n, p

\* The size of some records is the last of their sums.
LEMMA SizeIs == \A r : Size(r) = Sums(directory, r)[Len(r)]
BY DEF Size, Sums, PartialSums

\* Sums depend on the first records and their lengths alone.
LEMMA SumsSame ==
  ASSUME NEW dir, NEW r, Records(dir, r), NEW dd, NEW q, Records(dd, q), Len(q) <= Len(r),
         \A i \in 1..Len(q) : dir[r[i]] = dd[q[i]]
  PROVE  \A i \in 0..Len(q) : Sums(dir, r)[i] = Sums(dd, q)[i]
<1> DEFINE n == Len(q)
           p == Sums(dir, r)
           f == Sums(dd, q)
           Q == {m \in Nat : m <= n => p[m] = f[m]}
<1>0. n \in Nat /\ Len(r) \in Nat /\ n <= Len(r)
  BY DEF Records
<1>1. p[0] = 0 /\ f[0] = 0
  BY SumsAre
<1>2. \A i \in 1..n : p[i] = p[i - 1] + dir[r[i]] /\ f[i] = f[i - 1] + dd[q[i]]
  <2>1. \A i \in 1..n : i \in 1..Len(r)
    BY <1>0
  <2> QED
    BY <2>1, SumsAre
<1>3. \A i \in 1..n : dir[r[i]] = dd[q[i]]
  OBVIOUS
<1> HIDE DEF n, p, f
<1>4. 0 \in Q
  BY <1>1
<1>5. ASSUME NEW m \in Q PROVE m + 1 \in Q
  <2> SUFFICES ASSUME m + 1 <= n PROVE p[m + 1] = f[m + 1]
    OBVIOUS
  <2>1. m + 1 \in 1..n /\ (m + 1) - 1 = m /\ m <= n
    BY <1>0
  <2> QED
    BY <1>2, <1>3, <2>1
<1>6. \A m \in Nat : m \in Q
  <2> HIDE DEF Q
  <2>1. Q \in SUBSET Nat
    BY DEF Q
  <2> QED
    BY <1>4, <1>5, <2>1, Induction
<1>7. \A i \in 0..n : p[i] = f[i]
  BY <1>0, <1>6
<1> QED
  BY <1>7 DEF n, p, f

\* They grow with every record.
LEMMA SumsGrow ==
  ASSUME NEW dir, NEW r, Records(dir, r), NEW i \in 0..Len(r), NEW j \in 0..Len(r), i < j
  PROVE  Sums(dir, r)[i] < Sums(dir, r)[j]
<1> DEFINE n == Len(r)
           p == Sums(dir, r)
           Q == {m \in Nat : i < m /\ m <= n => p[i] < p[m]}
<1>0. n \in Nat /\ \A k \in 1..n : dir[r[k]] \in Nat /\ dir[r[k]] > 0
  BY DEF Records
<1>1. /\ \A k \in 0..n : p[k] \in Nat
      /\ \A k \in 1..n : p[k] = p[k - 1] + dir[r[k]]
  BY SumsAre
<1>2. i \in 0..n /\ j \in 0..n
  OBVIOUS
<1> HIDE DEF n, p
<1>3. 0 \in Q
  BY <1>0, <1>2
<1>4. ASSUME NEW m \in Q PROVE m + 1 \in Q
  <2> SUFFICES ASSUME i < m + 1, m + 1 <= n PROVE p[i] < p[m + 1]
    OBVIOUS
  <2>1. m + 1 \in 1..n /\ (m + 1) - 1 = m /\ m \in 0..n /\ (i < m \/ i = m)
    BY <1>0, <1>2
  <2>2. p[i] <= p[m]
    BY <1>1, <1>2, <2>1
  <2>3. p[m + 1] = p[m] + dir[r[m + 1]]
    BY <1>1, <2>1
  <2>4. p[m] \in Nat /\ p[i] \in Nat /\ dir[r[m + 1]] \in Nat /\ dir[r[m + 1]] > 0
    BY <1>0, <1>1, <1>2, <2>1
  <2> QED
    BY <2>2, <2>3, <2>4
<1>5. \A m \in Nat : m \in Q
  <2> HIDE DEF Q
  <2>1. Q \in SUBSET Nat
    BY DEF Q
  <2> QED
    BY <1>3, <1>4, <2>1, Induction
<1>6. p[i] < p[j]
  BY <1>0, <1>2, <1>5
<1> QED
  BY <1>6 DEF p

\* What the buffer holds ends where the file description is, what was given out ends
\* within it, and the offset is the length of what was given out of this fill.
Filled == fdPos - Len(dirBuf)
Gone == Len(yielded) - Filled

DirBufOK ==
    /\ directory \in Seq(Reclen) /\ fdPos \in 0..Len(directory)
    /\ dirBuf \in Seq(Nat) /\ Len(dirBuf) <= fdPos
    /\ \A i \in 1..Len(dirBuf) : dirBuf[i] = Filled + i

WalkOK ==
    /\ yielded \in Seq(Nat) /\ Gone \in 0..Len(dirBuf)
    /\ \A i \in 1..Len(yielded) : yielded[i] = i
    /\ offset = Sums(directory, dirBuf)[Gone]
    /\ len = Sums(directory, dirBuf)[Len(dirBuf)]

SizeOK ==
    /\ eof => dirBuf = <<>>
    /\ state = "open" => dirSize \in Nat /\ dirSize >= MinSize

DirInv == DirBufOK /\ WalkOK /\ SizeOK

\* The records in the buffer are entries of the directory.
LEMMA EntriesAre ==
  ASSUME NEW dir \in Seq(Reclen), NEW past \in 0..Len(dir), NEW r \in Seq(Nat), Len(r) <= past,
         \A i \in 1..Len(r) : r[i] = past - Len(r) + i
  PROVE  Records(dir, r) /\ \A i \in 1..Len(r) : r[i] \in 1..Len(dir)
<1>1. \A i \in 1..Len(r) : r[i] \in 1..Len(dir)
  OBVIOUS
<1>2. \A i \in 1..Len(dir) : dir[i] \in Nat \ {0}
  <2>1. \A i \in 1..Len(dir) : dir[i] \in Reclen
    OBVIOUS
  <2> QED
    BY <2>1, ReadDirAssumption
<1> QED
  BY <1>1, <1>2 DEF Records

\* So the sums over the buffer are sums of positive lengths.
LEMMA DirRecords ==
  ASSUME DirBufOK
  PROVE  /\ Records(directory, dirBuf)
         /\ \A i \in 1..Len(dirBuf) : dirBuf[i] \in 1..Len(directory)
BY EntriesAre DEF DirBufOK, Filled

\* The walk is at the end of the buffer exactly when all of it was given out.
LEMMA WalkEnds ==
  ASSUME DirBufOK, WalkOK
  PROVE  /\ offset \in Nat /\ len \in Nat /\ offset <= len
         /\ HasNextCached <=> Len(yielded) < fdPos
         /\ Len(yielded) <= fdPos
<1> DEFINE p == Sums(directory, dirBuf)
           k == Len(dirBuf)
<1>0. k \in Nat /\ Gone \in 0..k /\ fdPos \in Nat /\ Len(yielded) \in Nat /\ Gone = Len(yielded) - (fdPos - k)
  BY DEF DirBufOK, WalkOK, Gone, Filled
<1>1. offset = p[Gone] /\ len = p[k]
  BY DEF WalkOK
<1>2. \A i \in 0..k : p[i] \in Nat
  BY DirRecords, SumsAre
<1>3. Gone < k => p[Gone] < p[k]
  BY <1>0, DirRecords, SumsGrow
<1> HIDE DEF p, k
<1>4. Gone <= k /\ (Gone < k <=> Len(yielded) < fdPos) /\ Len(yielded) <= fdPos
  BY <1>0
<1>5. p[Gone] \in Nat /\ p[k] \in Nat
  BY <1>0, <1>2
<1>6. CASE Gone < k
  BY <1>1, <1>3, <1>4, <1>5, <1>6 DEF HasNextCached
<1>7. CASE Gone = k
  <2>1. offset = len /\ offset \in Nat /\ ~(Gone < k)
    BY <1>0, <1>1, <1>5, <1>7
  <2> QED
    BY <1>4, <2>1 DEF HasNextCached
<1> QED
  BY <1>0, <1>4, <1>6, <1>7

\* A record starts where the records before it end.
LEMMA PrefixSize ==
  ASSUME DirBufOK, NEW k \in 0..Len(dirBuf)
  PROVE  Size(SubSeq(dirBuf, 1, k)) = Sums(directory, dirBuf)[k]
<1> DEFINE q == SubSeq(dirBuf, 1, k)
<1>0. Len(dirBuf) \in Nat /\ dirBuf \in Seq(Nat) /\ k \in Nat /\ k <= Len(dirBuf)
  BY DEF DirBufOK
<1>1. q \in Seq(Nat) /\ Len(q) = k /\ \A i \in 1..k : q[i] = dirBuf[i]
  BY <1>0
<1> HIDE DEF q
<1>2. Records(directory, dirBuf)
  BY DirRecords
<1>3. \A i \in 1..k : i \in 1..Len(dirBuf)
  BY <1>0
<1>4. Records(directory, q)
  BY <1>1, <1>2, <1>3 DEF Records
<1>5. Len(q) <= Len(dirBuf) /\ k \in 0..Len(q)
  BY <1>0, <1>1
<1>6. \A i \in 1..Len(q) : directory[dirBuf[i]] = directory[q[i]]
  BY <1>1
<1>7. \A i \in 0..Len(q) : Sums(directory, dirBuf)[i] = Sums(directory, q)[i]
  BY <1>2, <1>4, <1>5, <1>6, SumsSame
<1>8. Size(q) = Sums(directory, q)[Len(q)]
  BY SizeIs
<1> QED
  BY <1>1, <1>5, <1>7, <1>8 DEF q

\* So the header at the offset is the one of the next entry.
LEMMA HeaderIs ==
  ASSUME DirBufOK, WalkOK, HasNextCached
  PROVE  Header(offset) = {Len(yielded) + 1} /\ Gone + 1 \in 1..Len(dirBuf)
<1> DEFINE p == Sums(directory, dirBuf)
           k == Len(dirBuf)
<1>0. /\ k \in Nat /\ Gone \in 0..k /\ fdPos \in Nat /\ Len(yielded) \in Nat /\ Gone = Len(yielded) - (fdPos - k)
      /\ offset = p[Gone] /\ k <= fdPos
  BY DEF DirBufOK, WalkOK, Gone, Filled
<1>1. \A i \in 1..k : dirBuf[i] = fdPos - k + i
  BY DEF DirBufOK, Filled
<1>2. \A i \in 1..k : dirBuf[i] \in Nat
  BY DEF DirBufOK
<1>3. DOMAIN dirBuf = 1..k
  BY DEF DirBufOK
<1>4. \A i \in 0..k : Size(SubSeq(dirBuf, 1, i)) = p[i]
  BY PrefixSize
<1>5. \A i, j \in 0..k : i < j => p[i] < p[j]
  BY DirRecords, SumsGrow
<1>6. \A i \in 0..k : p[i] \in Nat
  BY DirRecords, SumsAre
<1>7. Len(yielded) < fdPos
  BY WalkEnds
<1> HIDE DEF p, k
<1>8. Gone + 1 \in 1..k /\ (Gone + 1) - 1 = Gone /\ fdPos - k + (Gone + 1) = Len(yielded) + 1
  BY <1>0, <1>7
<1>9. ASSUME NEW i \in 1..k PROVE Size(SubSeq(dirBuf, 1, i - 1)) = offset <=> i = Gone + 1
  <2>1. i - 1 \in 0..k /\ i \in Int /\ Gone \in Int
    BY <1>0
  <2>2. p[i - 1] = p[Gone] => i - 1 = Gone
    <3>1. p[i - 1] \in Nat /\ p[Gone] \in Nat
      BY <1>0, <1>6, <2>1
    <3>2. i - 1 < Gone \/ Gone < i - 1 \/ i - 1 = Gone
      BY <2>1
    <3> QED
      BY <1>0, <1>5, <2>1, <3>1, <3>2
  <2> QED
    BY <1>0, <1>4, <2>1, <2>2
<1>10. Header(offset) = {dirBuf[i] : i \in {i \in 1..k : i = Gone + 1}}
  BY <1>3, <1>9 DEF Header
<1>11. {i \in 1..k : i = Gone + 1} = {Gone + 1}
  BY <1>8
<1>12. Header(offset) = {dirBuf[Gone + 1]}
  BY <1>10, <1>11
<1> QED
  BY <1>1, <1>8, <1>12 DEF k

\* Without records there is nothing to walk.
LEMMA NoRecords ==
  ASSUME NEW dir
  PROVE  Records(dir, <<>>) /\ Sums(dir, <<>>)[0] = 0
<1>1. Records(dir, <<>>)
  BY DEF Records
<1> QED
  BY <1>1, SumsAre

\* Before it is opened there is nothing to walk.
LEMMA DirInitInv == ReadDirInit => DirInv
<1> SUFFICES ASSUME ReadDirInit PROVE DirInv
  OBVIOUS
<1>1. directory \in Seq(Reclen)
  BY ReadDirAssumption DEF ReadDirInit, SeqOf
<1>2. fdPos = 0 /\ dirBuf = <<>> /\ offset = 0 /\ len = 0 /\ yielded = <<>> /\ state = "closed"
  BY DEF ReadDirInit
<1>3. Filled = 0 /\ Gone = 0
  <2>1. Len(dirBuf) = 0 /\ Len(yielded) = 0 /\ fdPos = 0
    BY <1>2
  <2> QED
    BY <2>1 DEF Filled, Gone
<1>4. DirBufOK
  BY <1>1, <1>2 DEF DirBufOK
<1>5. WalkOK
  BY <1>2, <1>3, NoRecords DEF WalkOK
<1>6. SizeOK
  BY <1>2 DEF SizeOK
<1> QED
  BY <1>4, <1>5, <1>6 DEF DirInv

\* A refill: the walk starts again, at the entry after the last one.
LEMMA RefillInv == DirInv /\ Refill => DirInv'
<1> SUFFICES ASSUME DirInv, Refill PROVE DirInv'
  OBVIOUS
<1>0. DirBufOK /\ WalkOK /\ SizeOK
  BY DEF DirInv
<1>1. PICK answer \in {"ok", "noent", "error"}, found \in 0..MaxEntries :
        /\ Getdents(answer, found)
        /\ fdPos' = fdPos + found
        /\ dirBuf' = [i \in 1..found |-> fdPos + i]
        /\ offset' = 0
        /\ len' = Size(dirBuf')
        /\ eof' = (answer # "error" /\ found = 0)
  BY DEF Refill
<1>2. UNCHANGED <<directory, dirSize, state, yielded>> /\ ~HasNextCached
  BY DEF Refill
<1>3. /\ found \in Nat /\ fdPos \in Nat /\ Len(directory) \in Nat /\ fdPos <= Len(directory)
      /\ directory \in Seq(Reclen) /\ yielded \in Seq(Nat) /\ Len(yielded) \in Nat
  BY <1>0, ReadDirAssumption DEF DirBufOK, WalkOK
<1>4. fdPos + found <= Len(directory)
  BY <1>1, <1>3 DEF Getdents
<1>5. Len(yielded) = fdPos
  BY <1>0, <1>2, <1>3, WalkEnds
<1>6. dirBuf' \in Seq(Nat) /\ Len(dirBuf') = found /\ \A i \in 1..found : dirBuf'[i] = fdPos + i
  BY <1>1, <1>3
<1>7. Filled' = fdPos /\ Gone' = 0
  BY <1>1, <1>2, <1>3, <1>5, <1>6 DEF Filled, Gone
<1>8. DirBufOK'
  BY <1>1, <1>2, <1>3, <1>4, <1>6, <1>7 DEF DirBufOK
<1>9. Records(directory, dirBuf')
  BY <1>2, <1>8, EntriesAre DEF DirBufOK, Filled
<1>10. Sums(directory, dirBuf')[0] = 0 /\ Sums(directory, dirBuf)' = Sums(directory, dirBuf')
  BY <1>2, <1>9, SumsAre DEF Sums, PartialSums
<1>11. len' = Sums(directory, dirBuf')[Len(dirBuf')]
  BY <1>1, SizeIs
<1>12. \A i \in 1..Len(yielded) : yielded[i] = i
  BY <1>0 DEF WalkOK
<1>13. WalkOK'
  BY <1>1, <1>2, <1>3, <1>6, <1>7, <1>10, <1>11, <1>12 DEF WalkOK
<1>14. SizeOK'
  <2>1. eof' => found = 0
    BY <1>1
  <2>2. eof' => dirBuf' = <<>>
    BY <1>6, <2>1
  <2> QED
    BY <1>0, <1>2, <2>2 DEF SizeOK
<1> QED
  BY <1>8, <1>13, <1>14 DEF DirInv

\* An entry: the walk goes on to the next record.
LEMMA NextEntryInv == DirInv /\ NextEntry => DirInv'
<1> SUFFICES ASSUME DirInv, NextEntry PROVE DirInv'
  OBVIOUS
<1>0. DirBufOK /\ WalkOK /\ SizeOK
  BY DEF DirInv
<1>1. HasNextCached /\ UNCHANGED <<directory, fdPos, dirBuf, dirSize, len, eof, state>>
  BY DEF NextEntry
<1>2. Header(offset) = {Len(yielded) + 1} /\ Gone + 1 \in 1..Len(dirBuf)
  BY <1>0, <1>1, HeaderIs
<1>3. yielded' = Append(yielded, Len(yielded) + 1) /\ offset' = offset + directory[Len(yielded) + 1]
  BY <1>2 DEF NextEntry
<1>4. DirBufOK' /\ SizeOK'
  BY <1>0, <1>1 DEF DirBufOK, Filled, SizeOK
<1>5. yielded \in Seq(Nat) /\ \A i \in 1..Len(yielded) : yielded[i] = i
  BY <1>0 DEF WalkOK
<1>6. yielded' \in Seq(Nat) /\ Len(yielded') = Len(yielded) + 1 /\ \A i \in 1..Len(yielded') : yielded'[i] = i
  BY <1>3, <1>5
<1>7. Filled' = Filled /\ Filled \in Int /\ Gone \in Int /\ Len(yielded) \in Int /\ Gone = Len(yielded) - Filled
  BY <1>0, <1>1 DEF DirBufOK, WalkOK, Filled, Gone
<1>8. Gone' = Gone + 1 /\ Filled + (Gone + 1) = Len(yielded) + 1 /\ (Gone + 1) - 1 = Gone
  <2>1. Gone' = Len(yielded') - Filled'
    BY DEF Gone
  <2> QED
    BY <1>6, <1>7, <2>1
<1>9. dirBuf[Gone + 1] = Len(yielded) + 1
  BY <1>0, <1>2, <1>8 DEF DirBufOK
<1>10. Records(directory, dirBuf)
  BY <1>0, DirRecords
<1>11. Sums(directory, dirBuf)[Gone + 1] = Sums(directory, dirBuf)[Gone] + directory[dirBuf[Gone + 1]]
  BY <1>2, <1>8, <1>10, SumsAre
<1>12. offset = Sums(directory, dirBuf)[Gone] /\ len = Sums(directory, dirBuf)[Len(dirBuf)]
  BY <1>0 DEF WalkOK
<1>13. offset' = Sums(directory, dirBuf)'[Gone']
  BY <1>1, <1>3, <1>8, <1>9, <1>11, <1>12 DEF Sums, PartialSums
<1>14. len' = Sums(directory, dirBuf)'[Len(dirBuf')]
  BY <1>1, <1>12 DEF Sums, PartialSums
<1>15. Gone' \in 0..Len(dirBuf')
  BY <1>1, <1>2, <1>8
<1>16. WalkOK'
  BY <1>6, <1>13, <1>14, <1>15 DEF WalkOK
<1> QED
  BY <1>4, <1>16 DEF DirInv

\* A file that is created comes behind what is in the buffer.
LEMMA CreateInv == ASSUME DirInv, NEW reclen \in Reclen, Create(reclen) PROVE DirInv'
<1>0. DirBufOK /\ WalkOK /\ SizeOK
  BY DEF DirInv
<1>1. /\ directory' = Append(directory, reclen)
      /\ UNCHANGED <<fdPos, dirBuf, dirSize, offset, len, eof, state, yielded>>
  BY DEF Create
<1>2. /\ directory' \in Seq(Reclen) /\ Len(directory') = Len(directory) + 1
      /\ \A i \in 1..Len(directory) : directory'[i] = directory[i]
  BY <1>0, <1>1 DEF DirBufOK
<1>3. DirBufOK' /\ SizeOK'
  BY <1>0, <1>1, <1>2 DEF DirBufOK, Filled, SizeOK
<1>4. Records(directory, dirBuf) /\ Records(directory', dirBuf)
  <2>1. Records(directory', dirBuf)
    BY <1>1, <1>3, EntriesAre DEF DirBufOK, Filled
  <2> QED
    BY <1>0, <2>1, DirRecords
<1>5. \A i \in 1..Len(dirBuf) : directory[dirBuf[i]] = directory'[dirBuf[i]]
  BY <1>0, <1>2, DirRecords
<1>6. \A i \in 0..Len(dirBuf) : Sums(directory, dirBuf)[i] = Sums(directory', dirBuf)[i]
  <2>1. Len(dirBuf) <= Len(dirBuf)
    BY <1>0 DEF DirBufOK
  <2> QED
    BY <1>4, <1>5, <2>1, SumsSame
<1>7. Sums(directory, dirBuf)' = Sums(directory', dirBuf)
  BY <1>1 DEF Sums, PartialSums
<1>8. Gone' = Gone /\ Gone \in 0..Len(dirBuf) /\ Len(dirBuf) \in 0..Len(dirBuf)
  BY <1>0, <1>1 DEF DirBufOK, WalkOK, Gone, Filled
<1>9. WalkOK'
  BY <1>0, <1>1, <1>6, <1>7, <1>8 DEF WalkOK
<1> QED
  BY <1>3, <1>9 DEF DirInv

\* What does not touch the walk.
LEMMA SameWalk ==
  ASSUME DirInv, UNCHANGED <<directory, fdPos, dirBuf, offset, len, eof, yielded>>, SizeOK'
  PROVE  DirInv'
<1>1. DirBufOK'
  BY DEF DirInv, DirBufOK, Filled
<1>2. Gone' = Gone /\ Sums(directory, dirBuf)' = Sums(directory, dirBuf)
  BY DEF Gone, Filled, Sums, PartialSums
<1>3. WalkOK'
  BY <1>2 DEF DirInv, WalkOK
<1> QED
  BY <1>1, <1>3 DEF DirInv

\* Every step of a listing keeps it.
LEMMA DirStep == DirInv /\ [ReadDirNext]_dirvars => DirInv'
<1> SUFFICES ASSUME DirInv, [ReadDirNext]_dirvars PROVE DirInv'
  OBVIOUS
<1>1. ASSUME NEW size \in BlockSize, Open(size) PROVE DirInv'
  <2>1. size \in Nat /\ MinSize \in Nat /\ MaxSize \in Nat /\ MinSize <= MaxSize
    BY ReadDirAssumption
  <2>2. NewFromBlockSize(size) \in Nat /\ NewFromBlockSize(size) >= MinSize
    BY <2>1 DEF NewFromBlockSize
  <2>3. SizeOK'
    BY <1>1, <2>2 DEF Open, DirInv, SizeOK
  <2> QED
    BY <1>1, <2>3, SameWalk DEF Open
<1>2. CASE Rmdir
  <2>1. SizeOK'
    BY <1>2 DEF Rmdir, DirInv, SizeOK
  <2> QED
    BY <1>2, <2>1, SameWalk DEF Rmdir
<1>3. CASE UNCHANGED dirvars
  <2>1. SizeOK'
    BY <1>3 DEF dirvars, DirInv, SizeOK
  <2> QED
    BY <1>3, <2>1, SameWalk DEF dirvars
<1> QED
  BY <1>1, <1>2, <1>3, RefillInv, NextEntryInv, CreateInv DEF ReadDirNext

\* What is left of a sequence behind its first members.
LEMMA TailIs ==
  ASSUME NEW r \in Seq(Nat), NEW g \in 0..Len(r)
  PROVE  /\ SubSeq(r, g + 1, Len(r)) \in Seq(Nat) /\ Len(SubSeq(r, g + 1, Len(r))) = Len(r) - g
         /\ \A i \in 1..(Len(r) - g) : SubSeq(r, g + 1, Len(r))[i] = r[g + i]
<1>1. g \in Int /\ Len(r) \in Nat /\ g + 1 \in Int
  OBVIOUS
<1>2. \A i \in (g + 1)..Len(r) : r[i] \in Nat
  OBVIOUS
<1>3. /\ SubSeq(r, g + 1, Len(r)) \in Seq(Nat)
      /\ Len(SubSeq(r, g + 1, Len(r))) = IF g + 1 <= Len(r) THEN Len(r) - (g + 1) + 1 ELSE 0
      /\ \A i \in 1..(Len(r) - (g + 1) + 1) : SubSeq(r, g + 1, Len(r))[i] = r[g + 1 + i - 1]
  BY <1>1, <1>2, SubSeqProperties
<1>4. Len(SubSeq(r, g + 1, Len(r))) = Len(r) - g /\ Len(r) - (g + 1) + 1 = Len(r) - g
  BY <1>1, <1>3
<1>5. ASSUME NEW i \in 1..(Len(r) - g) PROVE SubSeq(r, g + 1, Len(r))[i] = r[g + i]
  <2>1. g + 1 + i - 1 = g + i
    BY <1>1
  <2> QED
    BY <1>3, <1>4, <2>1
<1> QED
  BY <1>3, <1>4, <1>5

\* Counting on.
LEMMA CountOn ==
  ASSUME NEW u \in Seq(Nat), NEW v \in Seq(Nat), \A i \in 1..Len(u) : u[i] = i,
         \A i \in 1..Len(v) : v[i] = Len(u) + i
  PROVE  u \o v = [i \in 1..(Len(u) + Len(v)) |-> i]
<1> DEFINE a == u \o v
           n == Len(u) + Len(v)
<1>1. a \in Seq(Nat) /\ Len(a) = n /\ n \in Nat
  OBVIOUS
<1>2. \A i \in 1..n : a[i] = IF i <= Len(u) THEN u[i] ELSE v[i - Len(u)]
  BY ConcatProperties
<1>3. ASSUME NEW i \in 1..n PROVE a[i] = i
  <2>1. CASE i <= Len(u)
    BY <1>2, <2>1
  <2>2. CASE ~(i <= Len(u))
    <3>1. i - Len(u) \in 1..Len(v) /\ Len(u) + (i - Len(u)) = i
      BY <2>2
    <3> QED
      BY <1>2, <2>2, <3>1
  <2> QED
    BY <2>1, <2>2
<1>4. a = [i \in 1..n |-> a[i]]
  <2>1. \A q \in Seq(Nat) : q = [i \in 1..Len(q) |-> q[i]]
    OBVIOUS
  <2> HIDE DEF a, n
  <2> QED
    BY <1>1, <2>1
<1> QED
  BY <1>3, <1>4

\* What the invariant says of the entries.
LEMMA DirInvExact == DirInv => EntriesExact
<1> SUFFICES ASSUME DirInv PROVE EntriesExact
  OBVIOUS
<1>0. DirBufOK /\ WalkOK /\ SizeOK
  BY DEF DirInv
<1>1. HasNextCached => Header(offset) # {}
  BY <1>0, HeaderIs
<1>2. offset \in Nat /\ len \in Nat /\ offset <= len /\ (HasNextCached <=> Len(yielded) < fdPos)
  BY <1>0, WalkEnds
<1>3. /\ fdPos \in Nat /\ Len(yielded) \in Nat /\ Len(dirBuf) \in Nat /\ Gone \in 0..Len(dirBuf)
      /\ Gone = Len(yielded) - (fdPos - Len(dirBuf)) /\ yielded \in Seq(Nat) /\ dirBuf \in Seq(Nat)
  BY <1>0 DEF DirBufOK, WalkOK, Gone, Filled
<1>4. Size(SubSeq(dirBuf, 1, Gone)) = offset
  BY <1>0, <1>3, PrefixSize DEF WalkOK
<1>5. yielded \o SubSeq(dirBuf, Gone + 1, Len(dirBuf)) = [i \in 1..fdPos |-> i]
  <2>1. /\ \A i \in 1..Len(yielded) : yielded[i] = i
        /\ \A i \in 1..Len(dirBuf) : dirBuf[i] = fdPos - Len(dirBuf) + i
    BY <1>0 DEF DirBufOK, WalkOK, Filled
  <2>2. PICK q \in Seq(Nat) : /\ q = SubSeq(dirBuf, Gone + 1, Len(dirBuf)) /\ Len(q) = Len(dirBuf) - Gone
                              /\ \A i \in 1..Len(q) : q[i] = dirBuf[Gone + i]
    BY <1>3, TailIs
  <2>3. Len(yielded) + Len(q) = fdPos /\ \A i \in 1..Len(q) : q[i] = Len(yielded) + i
    BY <1>3, <2>1, <2>2
  <2> QED
    <3>1. yielded \o q = [i \in 1..(Len(yielded) + Len(q)) |-> i]
      BY <1>3, <2>1, <2>2, <2>3, CountOn
    <3> QED
      BY <2>2, <2>3, <3>1
<1>6. eof => ~HasNextCached /\ Len(yielded) = fdPos
  <2>1. dirBuf = <<>> => Len(dirBuf) = 0
    OBVIOUS
  <2>2. dirBuf = <<>> => Len(yielded) = fdPos /\ ~(Len(yielded) < fdPos)
    BY <1>3, <2>1
  <2> QED
    BY <1>0, <1>2, <2>2 DEF SizeOK
<1>7. state = "open" /\ fdPos < Len(directory) => directory[fdPos + 1] <= dirSize
  <2> SUFFICES ASSUME state = "open", fdPos < Len(directory) PROVE directory[fdPos + 1] <= dirSize
    OBVIOUS
  <2>1. directory \in Seq(Reclen) /\ Len(directory) \in Nat /\ fdPos + 1 \in 1..Len(directory)
    BY <1>0, <1>3 DEF DirBufOK
  <2>2. directory[fdPos + 1] \in Reclen
    BY <2>1
  <2>3. dirSize \in Nat /\ dirSize >= MinSize
    BY <1>0 DEF SizeOK
  <2>4. directory[fdPos + 1] \in Nat /\ directory[fdPos + 1] <= MinSize /\ MinSize \in Nat
    BY <2>2, ReadDirAssumption
  <2> QED
    BY <2>3, <2>4
<1>8. Gone \in 0..Len(dirBuf)
  BY <1>3
<1> QED
  BY <1>1, <1>2, <1>4, <1>5, <1>6, <1>7, <1>8 DEF EntriesExact

\* For every directory and any sizes of records and blocks, however many records a
\* fill gets, whatever is created, removed or fails meanwhile: each entry is given
\* out once, in order, and the walk stays on the starts of records.
THEOREM ListingExact == ReadDirSpec => []EntriesExact
<1>1. ReadDirSpec => []DirInv
  BY DirInitInv, DirStep, PTL DEF ReadDirSpec
<1> QED
  BY <1>1, DirInvExact, PTL

-----------------------------------------------------------------------------
(* Errors: whoever owns an error owns a chain of boxes *)

\* The tag and the address that a word is made of.
LEMMA CustomIs ==
  \A a \in Addr : NewCustom(a) \in Nat /\ Tag(NewCustom(a)) = "Custom" /\ BoxOf(NewCustom(a)) = a
<1> SUFFICES ASSUME NEW a \in Addr
             PROVE  NewCustom(a) \in Nat /\ Tag(NewCustom(a)) = "Custom" /\ BoxOf(NewCustom(a)) = a
  OBVIOUS
<1>1. a \in Nat /\ a % 4 = 0
  BY ErrorAssumption
<1>2. (a + 3) % 4 = 3 /\ a + 3 \in Nat
  BY <1>1
<1> QED
  BY <1>1, <1>2 DEF NewCustom, Tag, BoxOf

\* The address of a static message has no tag.
LEMMA MessageIs == \A a \in Static : a \in Nat /\ Tag(NewSimpleMessage(a)) = "SimpleMessage"
<1>1. \A a \in Static : a \in Nat /\ a % 4 = 0
  BY ErrorAssumption
<1> QED
  BY <1>1 DEF NewSimpleMessage, Tag

\* What is shifted by a byte, of a word of 32 bits or more.
LEMMA Shifted ==
  ASSUME NEW n \in Int
  PROVE  /\ Shl8(n) = 256 * (n % (WordSize \div 256)) /\ n % (WordSize \div 256) \in Nat
         /\ WordSize \div 256 \in Nat /\ WordSize \div 256 >= 65536 /\ (WordSize \div 256) % 65536 = 0
<1> DEFINE m == WordSize \div 256
<1>1. WordSize \in Nat /\ WordSize > 0 /\ WordSize % 16777216 = 0
  BY ErrorAssumption
<1>2. m \in Nat /\ m >= 65536 /\ m % 65536 = 0
  BY <1>1
<1> HIDE DEF m
<1>3. n % m \in Nat
  BY <1>2
<1> QED
  BY <1>2, <1>3 DEF m, Shl8

\* A code of errno fits beside the tag.
LEMMA OsIs ==
  \A code \in OsErrors \cup {-1} :
     NewOs(code) \in Nat /\ Tag(NewOs(code)) = "Os" /\ OsCode(NewOs(code)) = code
<1> SUFFICES ASSUME NEW code \in OsErrors \cup {-1}
             PROVE  NewOs(code) \in Nat /\ Tag(NewOs(code)) = "Os" /\ OsCode(NewOs(code)) = code
  OBVIOUS
<1> DEFINE m == WordSize \div 256
           u == code % m
<1>0. code \in Int /\ code >= -1 /\ code <= 133
  BY DEF OsErrors
<1>1. /\ Shl8(code) = 256 * u /\ u \in Nat
      /\ m \in Nat /\ m >= 65536 /\ m % 65536 = 0
  BY <1>0, Shifted
<1> HIDE DEF m
<1>2. u = IF code = -1 THEN m - 1 ELSE code
  BY <1>0, <1>1
<1> HIDE DEF u
<1>3. NewOs(code) = 256 * u + 2 /\ NewOs(code) \in Nat
  BY <1>1 DEF NewOs
<1>4. NewOs(code) % 4 = 2
  BY <1>1, <1>3
<1>5. BoxOf(NewOs(code)) = 256 * u /\ BoxOf(NewOs(code)) \div 256 = u
  BY <1>1, <1>3, <1>4 DEF BoxOf
<1>6. u % 65536 = IF code = -1 THEN 65535 ELSE code
  BY <1>0, <1>1, <1>2
<1>7. AsI16(u) = code
  BY <1>0, <1>6 DEF AsI16
<1> QED
  BY <1>3, <1>4, <1>5, <1>7 DEF Tag, OsCode

\* So does a kind.
LEMMA SimpleIs ==
  \A k \in 0..255 :
     NewSimple(k) \in Nat /\ Tag(NewSimple(k)) = "Simple" /\ SimpleKind(NewSimple(k)) = k
<1> SUFFICES ASSUME NEW k \in 0..255
             PROVE  NewSimple(k) \in Nat /\ Tag(NewSimple(k)) = "Simple" /\ SimpleKind(NewSimple(k)) = k
  OBVIOUS
<1> DEFINE m == WordSize \div 256
           u == k % m
<1>1. Shl8(k) = 256 * u /\ m \in Nat /\ m >= 65536
  BY Shifted
<1> HIDE DEF m
<1>2. u = k
  BY <1>1
<1> HIDE DEF u
<1>3. NewSimple(k) = 256 * k + 1
  BY <1>1, <1>2 DEF NewSimple
<1>4. NewSimple(k) % 4 = 1 /\ NewSimple(k) \in Nat
  BY <1>3
<1>5. BoxOf(NewSimple(k)) \div 256 = k
  BY <1>3, <1>4 DEF BoxOf
<1>6. k % 256 = k
  OBVIOUS
<1> QED
  BY <1>4, <1>5, <1>6 DEF Tag, SimpleKind

-----------------------------------------------------------------------------

\* What Below, Root and Boxes say, of a heap.
ContextIn(h, w) == Tag(w) = "Custom" /\ h[BoxOf(w)].vt = "context"
Following(h, w, f) ==
    f = [n \in 0..Cardinality(Addr) |->
           IF n = 0 THEN w ELSE IF ContextIn(h, f[n - 1]) THEN h[BoxOf(f[n - 1])].inner ELSE f[n - 1]]
BelowIn(h, w) == CHOOSE f : Following(h, w, f)
RootIn(h, w) == BelowIn(h, w)[Cardinality(Addr)]
BoxesIn(h, w) ==
    {BoxOf(BelowIn(h, w)[n]) : n \in {m \in DOMAIN BelowIn(h, w) : Tag(BelowIn(h, w)[m]) = "Custom"}}

\* The errors from w down to one that is no context, each in a box of its own.
IsChain(h, w, c) ==
    /\ c \in Seq(Nat) /\ c # <<>> /\ c[1] = w
    /\ \A i \in 1..Len(c) : Tag(c[i]) = "Custom" => BoxOf(c[i]) \in DOMAIN h
    /\ \A i \in 1..(Len(c) - 1) : ContextIn(h, c[i]) /\ h[BoxOf(c[i])].inner = c[i + 1]
    /\ ~ContextIn(h, c[Len(c)])
    /\ \A i, j \in 1..Len(c) :
         Tag(c[i]) = "Custom" /\ Tag(c[j]) = "Custom" /\ BoxOf(c[i]) = BoxOf(c[j]) => i = j

BoxesOf(c) == {BoxOf(c[i]) : i \in {j \in 1..Len(c) : Tag(c[j]) = "Custom"}}

\* The payload at its end, 0 for none.
Carries(h, c, p) ==
    IF Tag(c[Len(c)]) = "Custom" THEN h[BoxOf(c[Len(c)])].p = p ELSE p = 0

\* The model's operators are those of the heap it has.
LEMMA ThisHeap == \A w : Root(w) = RootIn(heap, w) /\ Boxes(w) = BoxesIn(heap, w)
BY Zenon DEF Root, RootIn, Boxes, BoxesIn, Below, BelowIn, Following, IsContext, ContextIn

\* A chain is not longer than there are addresses, so Below comes to its end.
LEMMA ChainEnds ==
  ASSUME NEW h, DOMAIN h \subseteq Addr, NEW w, NEW c, IsChain(h, w, c)
  PROVE  RootIn(h, w) = c[Len(c)] /\ BoxesIn(h, w) = BoxesOf(c)
<1> DEFINE k == Cardinality(Addr)
           n == Len(c)
           at(i) == c[IF i < n THEN i + 1 ELSE n]
           f == [i \in 0..k |-> at(i)]
           g == BelowIn(h, w)
<1>0. k \in Nat /\ n \in Nat /\ n >= 1
  BY ErrorAssumption, FS_CardinalityType DEF IsChain
<1>1. n - 1 <= k
  <2> DEFINE b == [i \in 1..(n - 1) |-> BoxOf(c[i])]
  <2>1. \A i \in 1..(n - 1) : i \in 1..n /\ Tag(c[i]) = "Custom" /\ BoxOf(c[i]) \in Addr
    BY <1>0 DEF IsChain, ContextIn
  <2>2. b \in Injection(1..(n - 1), Addr)
    <3>1. b \in [1..(n - 1) -> Addr]
      BY <2>1
    <3>2. \A i, j \in 1..(n - 1) : b[i] = b[j] => i = j
      BY <2>1 DEF IsChain
    <3> QED
      BY <3>1, <3>2 DEF Injection, IsInjective
  <2>3. Cardinality(1..(n - 1)) <= k
    BY <2>2, FS_Injection, ErrorAssumption
  <2>4. Cardinality(1..(n - 1)) = n - 1
    BY <1>0, FS_Interval
  <2> QED
    BY <2>3, <2>4
<1>2. c[1] = w /\ ~ContextIn(h, c[n]) /\ \A i \in 1..(n - 1) : ContextIn(h, c[i]) /\ h[BoxOf(c[i])].inner = c[i + 1]
  BY DEF IsChain
<1> HIDE DEF k, n
<1> DEFINE Next(q, i) == IF i = 0 THEN w ELSE IF ContextIn(h, q[i - 1]) THEN h[BoxOf(q[i - 1])].inner ELSE q[i - 1]
<1>3. ASSUME NEW i \in 0..k PROVE f[i] = Next(f, i)
  <2>1. CASE i = 0
    BY <1>0, <1>2, <2>1
  <2>2. CASE i # 0 /\ i < n
    <3>1. i - 1 \in 0..k /\ i - 1 < n /\ i \in 1..(n - 1) /\ (i - 1) + 1 = i
      BY <1>0, <2>2
    <3>2. f[i] = c[i + 1] /\ f[i - 1] = c[i]
      BY <2>2, <3>1
    <3> QED
      BY <1>2, <2>2, <3>1, <3>2
  <2>3. CASE i # 0 /\ ~(i < n)
    <3>1. i - 1 \in 0..k /\ (i - 1 < n => (i - 1) + 1 = n)
      BY <1>0, <2>3
    <3>2. f[i] = c[n] /\ f[i - 1] = c[n]
      BY <2>3, <3>1
    <3> QED
      BY <1>2, <2>3, <3>2
  <2> QED
    BY <2>1, <2>2, <2>3
<1>4. Following(h, w, f)
  BY <1>3 DEF Following, k
<1>5. Following(h, w, g)
  BY <1>4 DEF BelowIn
<1>6. \A i \in 0..k : g[i] = Next(g, i)
  <2>1. g = [i \in 0..k |-> Next(g, i)]
    BY <1>5 DEF Following, k
  <2> HIDE DEF g
  <2> QED
    BY <2>1
<1>7. DOMAIN g = 0..k
  BY <1>5 DEF Following, k
<1> HIDE DEF g, f
<1> DEFINE Q == {m \in Nat : m <= k => g[m] = f[m]}
<1>8. 0 \in Q
  BY <1>0, <1>3, <1>6
<1>9. ASSUME NEW m \in Q PROVE m + 1 \in Q
  <2> SUFFICES ASSUME m + 1 <= k PROVE g[m + 1] = f[m + 1]
    OBVIOUS
  <2>1. m + 1 \in 0..k /\ m + 1 # 0 /\ (m + 1) - 1 = m /\ m <= k
    BY <1>0
  <2>2. g[m] = f[m]
    BY <2>1
  <2> QED
    BY <1>3, <1>6, <2>1, <2>2
<1>10. \A m \in Nat : m \in Q
  <2> HIDE DEF Q
  <2>1. Q \in SUBSET Nat
    BY DEF Q
  <2> QED
    BY <1>8, <1>9, <2>1, Induction
<1>11. \A i \in 0..k : g[i] = at(i)
  <2>1. \A i \in 0..k : g[i] = f[i]
    BY <1>0, <1>10
  <2>2. \A i \in 0..k : f[i] = at(i)
    BY DEF f
  <2> QED
    BY <2>1, <2>2
<1>12. RootIn(h, w) = c[n]
  <2>1. g[k] = c[n]
    BY <1>0, <1>1, <1>11
  <2> QED
    BY <2>1 DEF RootIn, g, k
<1>13. BoxesIn(h, w) = BoxesOf(c)
  <2>1. BoxesIn(h, w) = {BoxOf(g[i]) : i \in {m \in 0..k : Tag(g[m]) = "Custom"}}
    BY <1>7 DEF BoxesIn, g
  <2>2. ASSUME NEW i \in 0..k PROVE \E j \in 1..n : g[i] = c[j]
    <3>1. (IF i < n THEN i + 1 ELSE n) \in 1..n
      BY <1>0
    <3> QED
      BY <1>11, <3>1
  <2>3. ASSUME NEW j \in 1..n PROVE \E i \in 0..k : g[i] = c[j]
    <3>1. j - 1 \in 0..k /\ j - 1 < n /\ (j - 1) + 1 = j
      BY <1>0, <1>1
    <3>2. g[j - 1] = c[j]
      BY <1>11, <3>1
    <3> QED
      BY <3>1, <3>2
  <2> QED
    BY <2>1, <2>2, <2>3 DEF BoxesOf, n
<1> QED
  BY <1>12, <1>13 DEF n
\* A chain stays one in any heap that has its boxes.
LEMMA ChainKept ==
  ASSUME NEW h, NEW g, NEW w, NEW c, NEW p, IsChain(h, w, c),
         \A a \in BoxesOf(c) : a \in DOMAIN g /\ g[a] = h[a]
  PROVE  IsChain(g, w, c) /\ (Carries(h, c, p) => Carries(g, c, p))
<1>0. c \in Seq(Nat) /\ c # <<>> /\ Len(c) \in Nat /\ Len(c) >= 1 /\ Len(c) \in 1..Len(c)
  BY DEF IsChain
<1>1. \A i \in 1..Len(c) : Tag(c[i]) = "Custom" => BoxOf(c[i]) \in DOMAIN g /\ g[BoxOf(c[i])] = h[BoxOf(c[i])]
  BY DEF BoxesOf
<1>2. \A i \in 1..Len(c) : ContextIn(g, c[i]) <=> ContextIn(h, c[i])
  BY <1>1 DEF ContextIn
<1>3. \A i \in 1..(Len(c) - 1) : i \in 1..Len(c) /\ Tag(c[i]) = "Custom" /\ ContextIn(h, c[i]) /\ h[BoxOf(c[i])].inner = c[i + 1]
  BY <1>0 DEF IsChain, ContextIn
<1>4. \A i \in 1..(Len(c) - 1) : ContextIn(g, c[i]) /\ g[BoxOf(c[i])].inner = c[i + 1]
  BY <1>1, <1>2, <1>3
<1>5. ~ContextIn(g, c[Len(c)])
  BY <1>0, <1>2 DEF IsChain
<1>6. IsChain(g, w, c)
  BY <1>1, <1>4, <1>5 DEF IsChain
<1>7. Carries(h, c, p) => Carries(g, c, p)
  BY <1>0, <1>1 DEF Carries
<1> QED
  BY <1>6, <1>7

\* An error that is no context is a chain by itself.
LEMMA OneLink ==
  ASSUME NEW h, NEW w \in Nat, NEW p,
         IF Tag(w) = "Custom" THEN BoxOf(w) \in DOMAIN h /\ h[BoxOf(w)].vt # "context" /\ h[BoxOf(w)].p = p
                              ELSE p = 0
  PROVE  /\ IsChain(h, w, <<w>>) /\ Carries(h, <<w>>, p)
         /\ BoxesOf(<<w>>) = IF Tag(w) = "Custom" THEN {BoxOf(w)} ELSE {}
<1> DEFINE c == <<w>>
<1>1. c \in Seq(Nat) /\ c # <<>> /\ Len(c) = 1 /\ c[1] = w /\ 1..Len(c) = {1} /\ 1..(Len(c) - 1) = {}
  OBVIOUS
<1> HIDE DEF c
<1>2. ~ContextIn(h, c[1])
  BY <1>1 DEF ContextIn
<1>3. IsChain(h, w, c)
  BY <1>1, <1>2 DEF IsChain
<1>4. Carries(h, c, p)
  BY <1>1 DEF Carries
<1>5. BoxesOf(c) = IF Tag(w) = "Custom" THEN {BoxOf(w)} ELSE {}
  BY <1>1 DEF BoxesOf
<1> QED
  BY <1>3, <1>4, <1>5 DEF c

\* Such a chain has one link.
LEMMA ChainOfOne ==
  ASSUME NEW h, NEW w, NEW c, IsChain(h, w, c), ~ContextIn(h, w)
  PROVE  Len(c) = 1 /\ c[1] = w /\ BoxesOf(c) = IF Tag(w) = "Custom" THEN {BoxOf(w)} ELSE {}
<1>1. Len(c) \in Nat /\ Len(c) >= 1 /\ c[1] = w /\ (Len(c) > 1 => 1 \in 1..(Len(c) - 1))
  BY DEF IsChain
<1>2. ~(Len(c) > 1)
  BY <1>1 DEF IsChain
<1>3. \A n \in Nat : n >= 1 /\ ~(n > 1) => n = 1
  OBVIOUS
<1>4. Len(c) = 1
  BY <1>1, <1>2, <1>3, Zenon
<1> QED
  BY <1>1, <1>4 DEF BoxesOf

\* A context in a box of its own is one link more.
LEMMA OneMore ==
  ASSUME NEW h, NEW w, NEW c, NEW p, IsChain(h, w, c), Carries(h, c, p),
         NEW v \in Nat, ContextIn(h, v), BoxOf(v) \in DOMAIN h, h[BoxOf(v)].inner = w,
         BoxOf(v) \notin BoxesOf(c)
  PROVE  \E d : /\ IsChain(h, v, d) /\ Carries(h, d, p) /\ BoxesOf(d) = {BoxOf(v)} \cup BoxesOf(c)
              /\ d[Len(d)] = c[Len(c)]
<1> DEFINE n == Len(c)
           d == [i \in 1..(n + 1) |-> IF i = 1 THEN v ELSE c[i - 1]]
<1>0. c \in Seq(Nat) /\ n \in Nat /\ n >= 1 /\ c[1] = w /\ \A i \in 1..n : c[i] \in Nat
  BY DEF IsChain
<1>1. /\ \A i \in 1..n : Tag(c[i]) = "Custom" => BoxOf(c[i]) \in DOMAIN h
      /\ \A i \in 1..(n - 1) : ContextIn(h, c[i]) /\ h[BoxOf(c[i])].inner = c[i + 1]
      /\ ~ContextIn(h, c[n])
      /\ \A i, j \in 1..n :
           Tag(c[i]) = "Custom" /\ Tag(c[j]) = "Custom" /\ BoxOf(c[i]) = BoxOf(c[j]) => i = j
  BY DEF IsChain
<1>2. \A i \in 1..n : Tag(c[i]) = "Custom" => BoxOf(c[i]) \in BoxesOf(c)
  BY DEF BoxesOf
<1>3. Carries(h, c, p) <=> IF Tag(c[n]) = "Custom" THEN h[BoxOf(c[n])].p = p ELSE p = 0
  BY DEF Carries
<1> HIDE DEF n
<1>4. \A i \in 1..(n + 1) : i = 1 \/ i - 1 \in 1..n
  BY <1>0
<1>5. d \in Seq(Nat) /\ Len(d) = n + 1
  <2>1. \A i \in 1..(n + 1) : (IF i = 1 THEN v ELSE c[i - 1]) \in Nat
    BY <1>0, <1>4
  <2> QED
    BY <1>0, <2>1
<1>6. d[1] = v /\ \A i \in 1..n : d[i + 1] = c[i]
  <2>1. 1 \in 1..(n + 1) /\ \A i \in 1..n : i + 1 \in 1..(n + 1) /\ i + 1 # 1 /\ (i + 1) - 1 = i
    BY <1>0
  <2> QED
    BY <2>1
<1> HIDE DEF d
<1>7. \A i \in 1..(n + 1) : i = 1 \/ (i - 1 \in 1..n /\ d[i] = c[i - 1])
  <2>1. \A i \in 1..(n + 1) : i # 1 => i - 1 \in 1..n /\ (i - 1) + 1 = i
    BY <1>0
  <2> QED
    BY <1>6, <2>1
<1>8. Tag(v) = "Custom" /\ d # <<>>
  <2>1. Len(d) # 0
    BY <1>0, <1>5
  <2> QED
    BY <1>5, <2>1 DEF ContextIn
<1>9. \A i \in 1..(n + 1) : Tag(d[i]) = "Custom" => BoxOf(d[i]) \in DOMAIN h
  BY <1>1, <1>6, <1>7
<1>10. \A i \in 1..((n + 1) - 1) : ContextIn(h, d[i]) /\ h[BoxOf(d[i])].inner = d[i + 1]
  <2> SUFFICES ASSUME NEW i \in 1..n PROVE ContextIn(h, d[i]) /\ h[BoxOf(d[i])].inner = d[i + 1]
    BY <1>0
  <2>1. CASE i = 1
    BY <1>0, <1>6, <2>1
  <2>2. CASE i # 1
    <3>1. i \in 1..(n + 1) /\ i - 1 \in 1..(n - 1) /\ (i - 1) + 1 = i
      BY <1>0, <2>2
    <3> QED
      BY <1>1, <1>6, <1>7, <2>2, <3>1
  <2> QED
    BY <2>1, <2>2
<1>11. n \in 1..n /\ ~ContextIn(h, d[n + 1])
  BY <1>0, <1>1, <1>6
<1>12. \A i, j \in 1..(n + 1) :
         Tag(d[i]) = "Custom" /\ Tag(d[j]) = "Custom" /\ BoxOf(d[i]) = BoxOf(d[j]) => i = j
  <2> SUFFICES ASSUME NEW i \in 1..(n + 1), NEW j \in 1..(n + 1),
                      Tag(d[i]) = "Custom", Tag(d[j]) = "Custom", BoxOf(d[i]) = BoxOf(d[j])
               PROVE  i = j
    OBVIOUS
  <2>1. CASE i = 1 \/ j = 1
    BY <1>2, <1>6, <1>7, <2>1
  <2>2. CASE i # 1 /\ j # 1
    <3>1. i - 1 \in 1..n /\ j - 1 \in 1..n /\ d[i] = c[i - 1] /\ d[j] = c[j - 1]
      BY <1>7, <2>2
    <3>2. i - 1 = j - 1
      BY <1>1, <3>1
    <3> QED
      BY <3>2
  <2> QED
    BY <2>1, <2>2
<1>13. IsChain(h, v, d)
  BY <1>5, <1>6, <1>8, <1>9, <1>10, <1>11, <1>12 DEF IsChain
<1>14. Carries(h, d, p)
  BY <1>3, <1>5, <1>6, <1>11 DEF Carries
<1>15. BoxesOf(d) = {BoxOf(v)} \cup BoxesOf(c)
  <2>1. BoxesOf(d) = {BoxOf(d[i]) : i \in {j \in 1..(n + 1) : Tag(d[j]) = "Custom"}}
    BY <1>5 DEF BoxesOf
  <2>2. BoxesOf(c) = {BoxOf(c[i]) : i \in {j \in 1..n : Tag(c[j]) = "Custom"}}
    BY DEF BoxesOf, n
  <2>3. 1 \in 1..(n + 1) /\ \A i \in 1..n : i + 1 \in 1..(n + 1)
    BY <1>0
  <2> QED
    BY <1>6, <1>7, <1>8, <2>1, <2>2, <2>3
<1>16. d[Len(d)] = c[Len(c)]
  BY <1>5, <1>6, <1>11 DEF n
<1> QED
  BY <1>13, <1>14, <1>15, <1>16

-----------------------------------------------------------------------------
(* What the slots own *)

ValOK(s) ==
    \/ val[s] = Empty /\ born[s].p = 0
    \/ val[s].t = "error" /\ val[s].w \in Nat
    \/ /\ val[s].t = "io"
       /\ \/ val[s].io.payload = "error" /\ val[s].io.w \in Nat /\ val[s].p = 0
          \/ val[s].io.payload \in {"os", "none"} /\ val[s].p = 0 /\ born[s].p = 0
          \/ val[s].io.payload = "user" /\ val[s].p = born[s].p

\* Each error is a chain in the heap.
Chained(s) == \A w \in Words(s) : \E c : IsChain(heap, w, c) /\ Carries(heap, c, born[s].p)

\* A box has one owner.
OneOwnerEach ==
    /\ DOMAIN heap = UNION {Owned(s) : s \in Slot}
    /\ \A s, t \in Slot : s # t => Owned(s) \cap Owned(t) = {}

HeapOK ==
    /\ val \in [Slot -> {val[s] : s \in Slot}] /\ born \in [Slot -> {born[s] : s \in Slot}]
    /\ DOMAIN heap \subseteq Addr
    /\ \A s \in Slot : ValOK(s) /\ Chained(s)
    /\ OneOwnerEach

\* What a slot owns by its value.
LEMMA WordsAre ==
  ASSUME NEW s \in Slot, ValOK(s)
  PROVE  /\ val[s] = Empty => Words(s) = {}
         /\ val[s].t = "error" => Words(s) = {val[s].w}
         /\ val[s].t = "io" => Words(s) = IF val[s].io.payload = "error" THEN {val[s].io.w} ELSE {}
         /\ \A w \in Words(s) : w \in Nat /\ Words(s) = {w}
BY DEF ValOK, Words, Empty

\* A step of one slot keeps what the others own, if it leaves their boxes alone.
LEMMA OneMoves ==
  ASSUME HeapOK, NEW s \in Slot, NEW v, NEW b, Set(s, v, b), DOMAIN heap' \subseteq Addr, ValOK(s)',
         NEW O, O \cap (DOMAIN heap \ Owned(s)) = {}, DOMAIN heap' = (DOMAIN heap \ Owned(s)) \cup O,
         \A a \in DOMAIN heap \ Owned(s) : heap'[a] = heap[a],
         Words(s)' = {} => O = {},
         \A w \in Words(s)' : \E c : IsChain(heap', w, c) /\ Carries(heap', c, b.p) /\ BoxesOf(c) = O
  PROVE  HeapOK'
<1>0. /\ DOMAIN val = Slot /\ DOMAIN born = Slot /\ DOMAIN heap \subseteq Addr
      /\ \A t \in Slot : ValOK(t) /\ Chained(t)
      /\ DOMAIN heap = UNION {Owned(t) : t \in Slot}
      /\ \A t, u \in Slot : t # u => Owned(t) \cap Owned(u) = {}
  BY DEF HeapOK, OneOwnerEach
<1>1. /\ val' = [val EXCEPT ![s] = v] /\ born' = [born EXCEPT ![s] = b]
      /\ val'[s] = v /\ born'[s] = b
      /\ \A t \in Slot : t # s => val'[t] = val[t] /\ born'[t] = born[t]
  BY <1>0 DEF Set
<1>2. val' \in [Slot -> {val'[t] : t \in Slot}] /\ born' \in [Slot -> {born'[t] : t \in Slot}]
  BY <1>0, <1>1
<1>3. ASSUME NEW t \in Slot, t # s PROVE ValOK(t)' /\ Chained(t)' /\ Owned(t)' = Owned(t)
  <2>1. val'[t] = val[t] /\ born'[t] = born[t]
    BY <1>1, <1>3
  <2>2. ValOK(t)' /\ Words(t)' = Words(t)
    BY <1>0, <2>1 DEF ValOK, Words
  <2>3. \A a \in Owned(t) : a \in DOMAIN heap' /\ heap'[a] = heap[a]
    BY <1>0, <1>3
  <2>4. ASSUME NEW w \in Words(t)
        PROVE  (\E c : IsChain(heap', w, c) /\ Carries(heap', c, born[t].p)) /\ Boxes(w)' = Boxes(w)
    <3>1. PICK c : IsChain(heap, w, c) /\ Carries(heap, c, born[t].p)
      BY <1>0 DEF Chained
    <3>2. Boxes(w) = BoxesOf(c)
      BY <1>0, <3>1, ChainEnds, ThisHeap
    <3>3. BoxesOf(c) \subseteq Owned(t)
      BY <3>2 DEF Owned
    <3>4. IsChain(heap', w, c) /\ Carries(heap', c, born[t].p)
      BY <2>3, <3>1, <3>3, ChainKept
    <3>5. BoxesIn(heap', w) = BoxesOf(c)
      BY <3>4, ChainEnds
    <3>6. Boxes(w)' = BoxesIn(heap', w)
      BY Zenon DEF Boxes, BoxesIn, Below, BelowIn, Following, IsContext, ContextIn
    <3> QED
      BY <3>2, <3>4, <3>5, <3>6
  <2>5. Chained(t)'
    BY <2>1, <2>2, <2>4 DEF Chained
  <2>6. Owned(t)' = Owned(t)
    BY <2>2, <2>4 DEF Owned
  <2> QED
    BY <2>2, <2>5, <2>6
<1>4. Chained(s)'
  BY <1>1 DEF Chained
<1>5. Owned(s)' = O
  <2>1. \A w \in Words(s)' : Boxes(w)' = O
    <3> SUFFICES ASSUME NEW w \in Words(s)' PROVE Boxes(w)' = O
      OBVIOUS
    <3>1. PICK c : IsChain(heap', w, c) /\ BoxesOf(c) = O
      OBVIOUS
    <3>2. BoxesIn(heap', w) = O
      BY <3>1, ChainEnds
    <3>3. Boxes(w)' = BoxesIn(heap', w)
      BY Zenon DEF Boxes, BoxesIn, Below, BelowIn, Following, IsContext, ContextIn
    <3> QED
      BY <3>2, <3>3
  <2>2. Words(s)' = {} \/ \E w \in Words(s)' : Words(s)' = {w}
    BY DEF ValOK, Words, Empty
  <2>3. Owned(s)' = UNION {Boxes(w)' : w \in Words(s)'}
    BY DEF Owned
  <2> QED
    BY <2>1, <2>2, <2>3
<1>6. DOMAIN heap' = UNION {Owned(t)' : t \in Slot}
  BY <1>0, <1>3, <1>5
<1>7. \A t, u \in Slot : t # u => Owned(t)' \cap Owned(u)' = {}
  BY <1>0, <1>3, <1>5
<1> QED
  BY <1>0, <1>2, <1>3, <1>4, <1>6, <1>7 DEF HeapOK, OneOwnerEach

\* The chain of an error that a slot owns, and what the operators say of it.
LEMMA OwnedIs ==
  ASSUME HeapOK, NEW s \in Slot, NEW w \in Words(s)
  PROVE  \E c : /\ IsChain(heap, w, c) /\ Carries(heap, c, born[s].p)
                /\ Boxes(w) = BoxesOf(c) /\ Owned(s) = BoxesOf(c) /\ Root(w) = c[Len(c)]
<1>1. ValOK(s) /\ Chained(s) /\ DOMAIN heap \subseteq Addr
  BY DEF HeapOK
<1>2. PICK c : IsChain(heap, w, c) /\ Carries(heap, c, born[s].p)
  BY <1>1 DEF Chained
<1>3. Boxes(w) = BoxesOf(c) /\ Root(w) = c[Len(c)]
  BY <1>1, <1>2, ChainEnds, ThisHeap
<1>4. Words(s) = {w}
  BY <1>1, WordsAre
<1>5. Owned(s) = BoxesOf(c)
  BY <1>3, <1>4 DEF Owned
<1> QED
  BY <1>2, <1>3, <1>5

\* The payload of an error is the one it was made with.
LEMMA PayloadIs ==
  ASSUME HeapOK, NEW s \in Slot, NEW w \in Words(s)
  PROVE  /\ Payload(w) \in {{}, {born[s].p}} /\ (Payload(w) = {} => born[s].p = 0)
         /\ \A ty : DowncastRef(w, ty) \subseteq Payload(w)
<1>1. PICK c : Carries(heap, c, born[s].p) /\ Root(w) = c[Len(c)]
  BY OwnedIs
<1>2. Payload(w) \in {{}, {born[s].p}} /\ (Payload(w) = {} => born[s].p = 0)
  BY <1>1 DEF Payload, Carries
<1>3. \A ty : DowncastRef(w, ty) \subseteq Payload(w)
  BY DEF DowncastRef, Payload
<1> QED
  BY <1>2, <1>3

\* A slot without an error owns no box, and every owned box is in the heap.
LEMMA NoWords ==
  ASSUME HeapOK, NEW s \in Slot
  PROVE  Owned(s) \subseteq DOMAIN heap /\ (Words(s) = {} => Owned(s) = {})
<1>1. Owned(s) \subseteq DOMAIN heap
  BY DEF HeapOK, OneOwnerEach
<1>2. Words(s) = {} => Owned(s) = {}
  BY DEF Owned
<1> QED
  BY <1>1, <1>2

\* A slot that owned no box gets an error without one.
LEMMA PlainStep ==
  ASSUME HeapOK, NEW s \in Slot, Owned(s) = {}, UNCHANGED heap,
         NEW w \in Nat, Tag(w) # "Custom", NEW b, b.p = 0, Set(s, ErrorOf(w), b)
  PROVE  HeapOK'
<1>1. val'[s] = ErrorOf(w) /\ DOMAIN heap \subseteq Addr
  BY DEF HeapOK, Set
<1>2. val'[s].t = "error" /\ val'[s].w = w
  BY <1>1 DEF ErrorOf
<1>3. ValOK(s)' /\ Words(s)' = {w}
  BY <1>2 DEF ValOK, Words
<1>4. \E c : IsChain(heap', w, c) /\ Carries(heap', c, b.p) /\ BoxesOf(c) = {}
  BY OneLink
<1> QED
  BY <1>1, <1>3, <1>4, OneMoves

\* A slot that owned no box gets a new one, with the payload.
LEMMA BoxStep ==
  ASSUME HeapOK, NEW s \in Slot, Owned(s) = {}, NEW a \in Free, NEW box, heap' = With(heap, a, box),
         box.vt # "context", NEW b, b.p = box.p, Set(s, ErrorOf(NewCustom(a)), b)
  PROVE  HeapOK'
<1>0. DOMAIN heap \subseteq Addr /\ a \in Addr /\ a \notin DOMAIN heap
  BY DEF HeapOK, Free
<1>1. DOMAIN heap' = DOMAIN heap \cup {a} /\ heap'[a] = box /\ \A e \in DOMAIN heap : heap'[e] = heap[e]
  BY <1>0 DEF With
<1> DEFINE w == NewCustom(a)
<1>2. w \in Nat /\ Tag(w) = "Custom" /\ BoxOf(w) = a
  BY <1>0, CustomIs
<1> HIDE DEF w
<1>3. val'[s] = ErrorOf(w)
  BY DEF HeapOK, Set, w
<1>4. val'[s].t = "error" /\ val'[s].w = w
  BY <1>3 DEF ErrorOf
<1>5. ValOK(s)' /\ Words(s)' = {w}
  BY <1>2, <1>4 DEF ValOK, Words
<1>6. \E c : IsChain(heap', w, c) /\ Carries(heap', c, b.p) /\ BoxesOf(c) = {a}
  BY <1>1, <1>2, OneLink
<1>7. {a} \cap (DOMAIN heap \ Owned(s)) = {} /\ DOMAIN heap' = (DOMAIN heap \ Owned(s)) \cup {a}
  BY <1>0, <1>1
<1>8. DOMAIN heap' \subseteq Addr
  BY <1>0, <1>1
<1> QED
  BY <1>1, <1>5, <1>6, <1>7, <1>8, OneMoves

\* A slot lets go of its error, and the boxes of it are freed.
LEMMA ClearStep ==
  ASSUME HeapOK, NEW s \in Slot, DOMAIN heap' = DOMAIN heap \ Owned(s),
         \A e \in DOMAIN heap' : heap'[e] = heap[e],
         NEW v, NEW b, Set(s, v, b), Words(s)' = {}, ValOK(s)'
  PROVE  HeapOK'
<1>1. DOMAIN heap' \subseteq Addr
  BY DEF HeapOK
<1> QED
  BY <1>1, OneMoves

\* A slot keeps its error, whether as one of ours or as an io::Error.
LEMMA KeepStep ==
  ASSUME HeapOK, NEW s \in Slot, UNCHANGED heap, NEW v, Set(s, v, born[s]),
         Words(s)' = Words(s), ValOK(s)'
  PROVE  HeapOK'
<1>1. ASSUME NEW w \in Words(s)
      PROVE  \E c : IsChain(heap, w, c) /\ Carries(heap, c, born[s].p) /\ BoxesOf(c) = Owned(s)
  BY <1>1, OwnedIs
<1>2. Owned(s) \subseteq DOMAIN heap /\ DOMAIN heap \subseteq Addr /\ (Words(s) = {} => Owned(s) = {})
  BY NoWords DEF HeapOK
<1>3. Owned(s) \cap (DOMAIN heap \ Owned(s)) = {} /\ DOMAIN heap = (DOMAIN heap \ Owned(s)) \cup Owned(s)
  BY <1>2
<1> QED
  BY <1>1, <1>2, <1>3, OneMoves

\* A context: a box around the error of the slot.
LEMMA ContextStep ==
  ASSUME HeapOK, NEW s \in Slot, NEW a \in Addr, Context(s, a) PROVE HeapOK'
<1> DEFINE w == val[s].w
           v == NewCustom(a)
           box == [vt |-> "context", ty |-> "context", kind |-> Other, p |-> 0,
                   bt |-> capture /\ ~HasBacktrace(w), inner |-> w]
<1>0. /\ val[s].t = "error" /\ a \notin DOMAIN heap /\ DOMAIN heap \subseteq Addr
      /\ heap' = With(heap, a, box) /\ Set(s, ErrorOf(v), born[s])
  BY DEF Context, Free, HeapOK
<1>1. DOMAIN heap' = DOMAIN heap \cup {a} /\ heap'[a] = box /\ \A e \in DOMAIN heap : heap'[e] = heap[e]
  BY <1>0 DEF With
<1>2. box.vt = "context" /\ box.inner = w
  OBVIOUS
<1>3. v \in Nat /\ Tag(v) = "Custom" /\ BoxOf(v) = a
  BY CustomIs
<1>4. w \in Words(s)
  BY <1>0 DEF Words
<1> HIDE DEF box, v, w
<1>5. val'[s] = ErrorOf(v)
  BY <1>0 DEF HeapOK, Set
<1>6. val'[s].t = "error" /\ val'[s].w = v
  BY <1>5 DEF ErrorOf
<1>7. ValOK(s)' /\ Words(s)' = {v}
  BY <1>3, <1>6 DEF ValOK, Words
<1>8. PICK c : IsChain(heap, w, c) /\ Carries(heap, c, born[s].p) /\ Owned(s) = BoxesOf(c)
  BY <1>4, OwnedIs
<1>9. Owned(s) \subseteq DOMAIN heap
  BY NoWords
<1>10. IsChain(heap', w, c) /\ Carries(heap', c, born[s].p)
  BY <1>1, <1>8, <1>9, ChainKept
<1>11. ContextIn(heap', v) /\ BoxOf(v) \in DOMAIN heap' /\ heap'[BoxOf(v)].inner = w /\ BoxOf(v) \notin BoxesOf(c)
  BY <1>0, <1>1, <1>2, <1>3, <1>8, <1>9 DEF ContextIn
<1>12. \E d : IsChain(heap', v, d) /\ Carries(heap', d, born[s].p) /\ BoxesOf(d) = {a} \cup Owned(s)
  BY <1>3, <1>8, <1>10, <1>11, OneMore
<1>13. DOMAIN heap' = (DOMAIN heap \ Owned(s)) \cup ({a} \cup Owned(s)) /\ DOMAIN heap' \subseteq Addr
  BY <1>0, <1>1, <1>9
<1>14. ({a} \cup Owned(s)) \cap (DOMAIN heap \ Owned(s)) = {}
  BY <1>0
<1> QED
  BY <1>0, <1>1, <1>7, <1>12, <1>13, <1>14, OneMoves

\* Where each payload is: in one slot's error, handed out, or dropped.
Ledger ==
    /\ made \in 0..MaxPayload /\ dropped \in [1..MaxPayload -> Nat]
    /\ \A s \in Slot : born[s].p \in 0..made
    /\ \A s, t \in Slot : s # t /\ born[s].p = born[t].p => born[s].p = 0
    /\ \A p \in moved : p \in 0..made /\ (p # 0 => \A s \in Slot : born[s].p # p)
    /\ \A p \in 1..MaxPayload :
         dropped[p] = IF p <= made /\ p \notin moved /\ \A s \in Slot : born[s].p # p THEN 1 ELSE 0

HeapInv == HeapOK /\ Ledger

\* A payload that stays where it is.
LEMMA LedgerKept ==
  ASSUME Ledger, UNCHANGED <<made, moved, dropped>>, \A s \in Slot : born'[s].p = born[s].p
  PROVE  Ledger'
BY DEF Ledger

\* A new payload.
LEMMA LedgerMade ==
  ASSUME Ledger, made < MaxPayload, made' = made + 1, UNCHANGED <<moved, dropped>>,
         NEW s \in Slot, born[s].p = 0, born'[s].p = made + 1, \A t \in Slot : t # s => born'[t].p = born[t].p
  PROVE  Ledger'
<1>0. /\ made \in Nat /\ MaxPayload \in Nat /\ made + 1 \in 0..MaxPayload /\ made < made + 1
      /\ 0..made \subseteq 0..(made + 1) /\ made + 1 \notin 0..made
  BY ErrorAssumption DEF Ledger
<1>1. \A t \in Slot : born[t].p \in 0..made
  BY DEF Ledger
<1>2. \A t \in Slot : born'[t].p \in 0..(made + 1)
  BY <1>0, <1>1
<1>3. \A t, u \in Slot : t # u /\ born'[t].p = born'[u].p => born'[t].p = 0
  BY <1>0, <1>1 DEF Ledger
<1>4. \A p \in moved : p \in 0..(made + 1) /\ (p # 0 => \A t \in Slot : born'[t].p # p)
  BY <1>0 DEF Ledger
<1>5. ASSUME NEW p \in 1..MaxPayload
      PROVE  dropped[p] = IF p <= made + 1 /\ p \notin moved /\ \A t \in Slot : born'[t].p # p THEN 1 ELSE 0
  <2>0. dropped[p] = IF p <= made /\ p \notin moved /\ \A t \in Slot : born[t].p # p THEN 1 ELSE 0
    BY DEF Ledger
  <2>1. CASE p = made + 1
    BY <1>0, <2>0, <2>1
  <2>2. CASE p # made + 1
    <3>1. p <= made <=> p <= made + 1
      BY <1>0, <2>2
    <3>2. \A t \in Slot : born[t].p # p <=> born'[t].p # p
      BY <2>2
    <3> QED
      BY <2>0, <3>1, <3>2
  <2> QED
    BY <2>1, <2>2
<1> QED
  BY <1>0, <1>2, <1>3, <1>4, <1>5 DEF Ledger

\* A payload that is handed out.
LEMMA LedgerMoved ==
  ASSUME Ledger, UNCHANGED <<made, dropped>>, NEW s \in Slot, moved' = moved \cup {born[s].p},
         born'[s].p = 0, \A t \in Slot : t # s => born'[t].p = born[t].p
  PROVE  Ledger'
<1>0. made \in Nat /\ MaxPayload \in Nat /\ 0 \in 0..made
  BY ErrorAssumption DEF Ledger
<1>1. \A t \in Slot : born[t].p \in 0..made
  BY DEF Ledger
<1>2. \A t, u \in Slot : t # u /\ born[t].p = born[u].p => born[t].p = 0
  BY DEF Ledger
<1>3. \A t \in Slot : born'[t].p \in 0..made
  BY <1>0, <1>1
<1>4. \A t, u \in Slot : t # u /\ born'[t].p = born'[u].p => born'[t].p = 0
  BY <1>2
<1>5. \A p \in moved' : p \in 0..made /\ (p # 0 => \A t \in Slot : born'[t].p # p)
  <2> SUFFICES ASSUME NEW p \in moved' PROVE p \in 0..made /\ (p # 0 => \A t \in Slot : born'[t].p # p)
    OBVIOUS
  <2>1. CASE p = born[s].p
    BY <1>1, <1>2, <2>1
  <2>2. CASE p \in moved
    BY <2>2 DEF Ledger
  <2> QED
    BY <2>1, <2>2
<1>6. ASSUME NEW p \in 1..MaxPayload
      PROVE  dropped[p] = IF p <= made /\ p \notin moved' /\ \A t \in Slot : born'[t].p # p THEN 1 ELSE 0
  <2>0. dropped[p] = IF p <= made /\ p \notin moved /\ \A t \in Slot : born[t].p # p THEN 1 ELSE 0
    BY DEF Ledger
  <2>1. CASE p = born[s].p
    BY <2>0, <2>1
  <2>2. CASE p # born[s].p
    <3>1. p # 0 /\ (p \in moved' <=> p \in moved)
      BY <2>2
    <3>2. \A t \in Slot : born[t].p # p <=> born'[t].p # p
      BY <2>2, <3>1
    <3> QED
      BY <2>0, <3>1, <3>2
  <2> QED
    BY <2>1, <2>2
<1> QED
  BY <1>0, <1>3, <1>4, <1>5, <1>6 DEF Ledger

\* A payload that is dropped.
LEMMA LedgerDropped ==
  ASSUME Ledger, UNCHANGED <<made, moved>>, NEW s \in Slot,
         dropped' = [p \in DOMAIN dropped |-> dropped[p] + IF p = born[s].p THEN 1 ELSE 0],
         born'[s].p = 0, \A t \in Slot : t # s => born'[t].p = born[t].p
  PROVE  Ledger'
<1>0. made \in Nat /\ MaxPayload \in Nat /\ made <= MaxPayload /\ 0 \in 0..made /\ DOMAIN dropped = 1..MaxPayload
  BY ErrorAssumption DEF Ledger
<1>1. \A t \in Slot : born[t].p \in 0..made
  BY DEF Ledger
<1>2. \A t, u \in Slot : t # u /\ born[t].p = born[u].p => born[t].p = 0
  BY DEF Ledger
<1>3. \A t \in Slot : born'[t].p \in 0..made
  BY <1>0, <1>1
<1>4. \A t, u \in Slot : t # u /\ born'[t].p = born'[u].p => born'[t].p = 0
  BY <1>2
<1>5. \A p \in moved : p \in 0..made /\ (p # 0 => \A t \in Slot : born'[t].p # p)
  BY DEF Ledger
<1>6. \A p \in 1..MaxPayload : dropped[p] \in Nat /\ dropped'[p] = dropped[p] + IF p = born[s].p THEN 1 ELSE 0
  BY <1>0 DEF Ledger
<1>7. dropped' \in [1..MaxPayload -> Nat]
  BY <1>0 DEF Ledger
<1>8. ASSUME NEW p \in 1..MaxPayload
      PROVE  dropped'[p] = IF p <= made /\ p \notin moved /\ \A t \in Slot : born'[t].p # p THEN 1 ELSE 0
  <2>0. dropped[p] = IF p <= made /\ p \notin moved /\ \A t \in Slot : born[t].p # p THEN 1 ELSE 0
    BY DEF Ledger
  <2>1. CASE p = born[s].p
    <3>1. p <= made /\ p # 0 /\ p \notin moved
      BY <1>1, <2>1 DEF Ledger
    <3>2. \A t \in Slot : born'[t].p # p
      BY <1>2, <2>1, <3>1
    <3>3. dropped[p] = 0
      BY <2>0, <2>1
    <3> QED
      BY <1>6, <2>1, <3>1, <3>2, <3>3
  <2>2. CASE p # born[s].p
    <3>1. \A t \in Slot : born[t].p # p <=> born'[t].p # p
      BY <2>2
    <3>2. dropped'[p] = dropped[p]
      BY <1>6, <2>2
    <3> QED
      BY <2>0, <3>1, <3>2
  <2> QED
    BY <2>1, <2>2
<1> QED
  BY <1>0, <1>3, <1>4, <1>5, <1>7, <1>8 DEF Ledger

\* Set, slot by slot.
LEMMA SetIs ==
  ASSUME HeapOK, NEW s \in Slot, NEW v, NEW b, Set(s, v, b)
  PROVE  /\ val'[s] = v /\ born'[s] = b
         /\ \A t \in Slot : t # s => val'[t] = val[t] /\ born'[t] = born[t]
BY DEF HeapOK, Set

\* An empty slot owns nothing.
LEMMA EmptyOwns ==
  ASSUME HeapInv, NEW s \in Slot, val[s] = Empty
  PROVE  Owned(s) = {} /\ Words(s) = {} /\ born[s].p = 0
<1>1. HeapOK /\ ValOK(s)
  BY DEF HeapInv, HeapOK
<1>2. Words(s) = {}
  BY <1>1, WordsAre
<1>3. born[s].p = 0
  BY <1>1 DEF ValOK, Empty
<1> QED
  BY <1>1, <1>2, <1>3, NoWords

\* The code of an error that a system call returned.
LEMMA ResultsAre ==
  ASSUME NEW code \in Int,
         NEW r \in {ResultFromInt(-code), ResultFromPtr(WordSize - code), ResultFromLibc(-1, code)}, ~r.ok
  PROVE  r.err = OsErrorFrom(code) /\ r.err \in OsErrors \cup {-1}
<1>0. WordSize \in Nat
  BY ErrorAssumption
<1>1. -(-code) = code /\ WordSize - (WordSize - code) = code
  BY <1>0
<1>2. r = ErrResult(code) \/ r = [ok |-> TRUE]
  BY <1>1 DEF ResultFromInt, ResultFromPtr, ResultFromLibc
<1>3. r = ErrResult(code)
  BY <1>2
<1>4. r.err = OsErrorFrom(code)
  BY <1>3 DEF ErrResult
<1> QED
  BY <1>4 DEF OsErrorFrom

\* The numbers of kinds.
LEMMA KindsAre ==
  /\ Interrupted \in 0..255 /\ Uncategorized \in 0..255
<1>1. ErrorKinds[36] = "Interrupted" /\ ErrorKinds[47] = "Uncategorized" /\ DOMAIN ErrorKinds = 1..47
  BY DEF ErrorKinds
<1>2. ASSUME NEW name, \E i \in DOMAIN ErrorKinds : ErrorKinds[i] = name PROVE KindNo(name) \in 0..255
  <2> DEFINE no == CHOOSE i \in DOMAIN ErrorKinds : ErrorKinds[i] = name
  <2>1. no \in DOMAIN ErrorKinds
    BY <1>2
  <2>2. KindNo(name) = no - 1
    BY DEF KindNo
  <2> HIDE DEF no
  <2> QED
    BY <1>1, <2>1, <2>2
<1>3. 36 \in DOMAIN ErrorKinds /\ 47 \in DOMAIN ErrorKinds
  BY <1>1
<1> QED
  BY <1>1, <1>2, <1>3 DEF Interrupted, Uncategorized

\* What makes an error without a box.
LEMMA PlainInv ==
  ASSUME HeapInv, NEW s \in Slot, NEW w \in Nat, Tag(w) # "Custom", val[s] = Empty,
         NEW b, b.p = 0, Set(s, ErrorOf(w), b), UNCHANGED <<heap, made, moved, dropped>>
  PROVE  HeapInv'
<1>1. HeapOK /\ Ledger /\ Owned(s) = {} /\ born[s].p = 0
  BY EmptyOwns DEF HeapInv
<1>2. HeapOK'
  BY <1>1, PlainStep
<1>3. Ledger'
  <2>1. \A t \in Slot : born'[t].p = born[t].p
    BY <1>1, SetIs
  <2> QED
    BY <1>1, <2>1, LedgerKept
<1> QED
  BY <1>2, <1>3 DEF HeapInv

\* From a system call, with a code and no payload.
LEMMA FromOsInv ==
  ASSUME HeapInv, NEW s \in Slot, NEW code \in Codes, FromOs(s, code) PROVE HeapInv'
<1>1. PICK r \in {ResultFromInt(-code), ResultFromPtr(WordSize - code), ResultFromLibc(-1, code)} :
        ~r.ok /\ Set(s, ErrorOf(NewOs(r.err)), [kind |-> OsKind(OsErrorFrom(code)), p |-> 0])
  BY DEF FromOs
<1>2. r.err \in OsErrors \cup {-1}
  BY <1>1, ResultsAre, ErrorAssumption
<1>3. NewOs(r.err) \in Nat /\ Tag(NewOs(r.err)) # "Custom"
  BY <1>2, OsIs
<1>4. [kind |-> OsKind(OsErrorFrom(code)), p |-> 0].p = 0
  OBVIOUS
<1> QED
  BY <1>1, <1>3, <1>4, PlainInv DEF FromOs

\* From a kind.
LEMMA FromKindInv ==
  ASSUME HeapInv, NEW s \in Slot, NEW k \in {Interrupted, Uncategorized}, FromKind(s, k) PROVE HeapInv'
<1>1. k \in 0..255
  BY KindsAre
<1>2. NewSimple(k) \in Nat /\ Tag(NewSimple(k)) # "Custom"
  BY <1>1, SimpleIs
<1>3. [kind |-> k, p |-> 0].p = 0
  OBVIOUS
<1> QED
  BY <1>2, <1>3, PlainInv DEF FromKind

\* From a static message.
LEMMA FromMessageInv ==
  ASSUME HeapInv, NEW s \in Slot, NEW a \in Static, FromMessage(s, a) PROVE HeapInv'
<1>1. NewSimpleMessage(a) \in Nat /\ Tag(NewSimpleMessage(a)) # "Custom"
  BY MessageIs DEF NewSimpleMessage
<1>2. [kind |-> MessageKind(a), p |-> 0].p = 0
  OBVIOUS
<1> QED
  BY <1>1, <1>2, PlainInv DEF FromMessage

\* The errors that have a box of their own for a new payload.
LEMMA NewDynInv ==
  ASSUME HeapInv, NEW s \in Slot, NEW a, NEW vt, vt # "context", NEW ty, NEW kind, NewDyn(s, a, vt, ty, kind)
  PROVE  HeapInv'
<1> DEFINE box == [vt |-> vt, ty |-> ty, kind |-> kind, p |-> made + 1, bt |-> capture, inner |-> 0]
           b == [kind |-> kind, p |-> made + 1]
<1>0. /\ val[s] = Empty /\ a \in Free /\ made < MaxPayload /\ heap' = With(heap, a, box) /\ made' = made + 1
      /\ Set(s, ErrorOf(NewCustom(a)), b) /\ UNCHANGED <<moved, dropped>>
  BY DEF NewDyn
<1>1. HeapOK /\ Ledger /\ Owned(s) = {} /\ born[s].p = 0
  BY <1>0, EmptyOwns DEF HeapInv
<1>2. box.vt # "context" /\ box.p = made + 1 /\ b.p = made + 1
  OBVIOUS
<1> HIDE DEF box, b
<1>3. HeapOK'
  BY <1>0, <1>1, <1>2, BoxStep
<1>4. born'[s].p = made + 1 /\ \A t \in Slot : t # s => born'[t].p = born[t].p
  BY <1>0, <1>1, <1>2, SetIs
<1>5. Ledger'
  BY <1>0, <1>1, <1>4, LedgerMade
<1> QED
  BY <1>3, <1>5 DEF HeapInv

\* A context leaves the payload where it is.
LEMMA ContextInv == ASSUME HeapInv, NEW s \in Slot, NEW a \in Addr, Context(s, a) PROVE HeapInv'
<1>1. HeapOK /\ Ledger
  BY DEF HeapInv
<1>2. HeapOK'
  BY <1>1, ContextStep
<1>3. \A t \in Slot : born'[t].p = born[t].p
  <2>1. Set(s, ErrorOf(NewCustom(a)), born[s])
    BY DEF Context
  <2> QED
    BY <1>1, <2>1, SetIs
<1>4. Ledger'
  BY <1>1, <1>3, LedgerKept DEF Context
<1> QED
  BY <1>2, <1>4 DEF HeapInv

\* The boxes of an error are freed with it.
LEMMA FreedStep ==
  ASSUME HeapOK, NEW s \in Slot, val[s].t = "error", heap' = Without(heap, Boxes(val[s].w)), Clear(s)
  PROVE  HeapOK' /\ born'[s].p = 0 /\ \A t \in Slot : t # s => born'[t].p = born[t].p
<1>1. ValOK(s)
  BY DEF HeapOK
<1>2. Words(s) = {val[s].w}
  BY <1>1, WordsAre
<1>3. Owned(s) = Boxes(val[s].w)
  BY <1>2 DEF Owned
<1>4. DOMAIN heap' = DOMAIN heap \ Owned(s) /\ \A e \in DOMAIN heap' : heap'[e] = heap[e]
  BY <1>3 DEF Without
<1>5. Set(s, Empty, Unborn) /\ Unborn.p = 0
  BY DEF Clear, Unborn
<1>6. val'[s] = Empty /\ born'[s].p = 0 /\ \A t \in Slot : t # s => born'[t].p = born[t].p
  BY <1>5, SetIs
<1>7. ValOK(s)' /\ Words(s)' = {}
  BY <1>6 DEF ValOK, Words, Empty
<1> QED
  BY <1>4, <1>5, <1>6, <1>7, ClearStep

\* A downcast frees the boxes and hands out the payload.
LEMMA DowncastInv == ASSUME HeapInv, NEW s \in Slot, NEW ty, Downcast(s, ty) PROVE HeapInv'
<1>0. HeapOK /\ Ledger
  BY DEF HeapInv
<1>1. HeapOK' /\ born'[s].p = 0 /\ \A t \in Slot : t # s => born'[t].p = born[t].p
  BY <1>0, FreedStep DEF Downcast
<1>2. moved' = moved \cup {born[s].p}
  <2>1. val[s].w \in Words(s)
    BY DEF Downcast, Words
  <2>2. DowncastRef(val[s].w, ty) = {born[s].p}
    BY <1>0, <2>1, PayloadIs DEF Downcast
  <2> QED
    BY <2>2 DEF Downcast
<1>3. Ledger'
  BY <1>0, <1>1, <1>2, LedgerMoved DEF Downcast
<1> QED
  BY <1>1, <1>3 DEF HeapInv

\* A drop frees the boxes and drops the payload.
LEMMA DropInv == ASSUME HeapInv, NEW s \in Slot, Drop(s) PROVE HeapInv'
<1>0. HeapOK /\ Ledger
  BY DEF HeapInv
<1>1. HeapOK' /\ born'[s].p = 0 /\ \A t \in Slot : t # s => born'[t].p = born[t].p
  BY <1>0, FreedStep DEF Drop
<1>2. dropped' = [p \in DOMAIN dropped |-> dropped[p] + IF p = born[s].p THEN 1 ELSE 0]
  <2>1. val[s].w \in Words(s)
    BY DEF Drop, Words
  <2>2. \A p \in DOMAIN dropped : p \in Payload(val[s].w) <=> p = born[s].p
    <3>1. 0 \notin DOMAIN dropped
      BY <1>0 DEF Ledger
    <3> QED
      BY <1>0, <2>1, <3>1, PayloadIs
  <2>3. dropped' = [p \in DOMAIN dropped |-> dropped[p] + IF p \in Payload(val[s].w) THEN 1 ELSE 0]
    BY DEF Drop
  <2> QED
    BY <2>2, <2>3
<1>3. Ledger'
  BY <1>0, <1>1, <1>2, LedgerDropped DEF Drop
<1> QED
  BY <1>1, <1>3 DEF HeapInv

\* An io::Error that is made holds its payload itself.
LEMMA NewIoInv == ASSUME HeapInv, NEW s \in Slot, NEW io \in IoErrors, NewIo(s, io) PROVE HeapInv'
<1> DEFINE q == IF io.payload = "user" THEN made + 1 ELSE 0
           v == [t |-> "io", io |-> io, p |-> q]
           b == [kind |-> IF io.payload = "os" THEN OsKind(OsErrorFrom(io.code)) ELSE IoKind(io.kind), p |-> q]
<1>0. /\ val[s] = Empty /\ (io.payload = "user" => made < MaxPayload)
      /\ made' = (IF io.payload = "user" THEN made + 1 ELSE made)
      /\ Set(s, v, b) /\ UNCHANGED <<heap, moved, dropped>>
  BY DEF NewIo
<1>1. HeapOK /\ Ledger /\ Owned(s) = {} /\ born[s].p = 0
  BY <1>0, EmptyOwns DEF HeapInv
<1>2. io.payload \in {"os", "none", "user"}
  BY DEF IoErrors
<1>3. v.t = "io" /\ v.io = io /\ v.p = q /\ b.p = q
  OBVIOUS
<1>4. io.payload # "user" => q = 0
  OBVIOUS
<1>5. io.payload = "user" => q = made + 1
  OBVIOUS
<1> HIDE DEF v, b, q
<1>6. val'[s] = v /\ born'[s] = b /\ \A t \in Slot : t # s => born'[t] = born[t]
  BY <1>0, <1>1, SetIs
<1>7. ValOK(s)'
  BY <1>2, <1>3, <1>4, <1>6 DEF ValOK
<1>8. Words(s)' = {}
  BY <1>2, <1>3, <1>6 DEF Words
<1>9. HeapOK'
  <2>1. DOMAIN heap' = DOMAIN heap \ Owned(s) /\ \A e \in DOMAIN heap' : heap'[e] = heap[e]
    BY <1>0, <1>1
  <2> QED
    BY <1>0, <1>1, <1>7, <1>8, <2>1, ClearStep
<1>10. Ledger'
  <2>1. CASE io.payload = "user"
    <3>1. born'[s].p = made + 1 /\ \A t \in Slot : t # s => born'[t].p = born[t].p
      BY <1>3, <1>5, <1>6, <2>1
    <3> QED
      BY <1>0, <1>1, <2>1, <3>1, LedgerMade
  <2>2. CASE io.payload # "user"
    <3>1. \A t \in Slot : born'[t].p = born[t].p
      BY <1>1, <1>3, <1>4, <1>6, <2>2
    <3> QED
      BY <1>0, <1>1, <2>2, <3>1, LedgerKept
  <2> QED
    BY <2>1, <2>2
<1> QED
  BY <1>9, <1>10 DEF HeapInv

\* An error that becomes an io::Error: an OS error owns no box and no payload, any
\* other is kept as the payload of the io::Error.
LEMMA IntoIoInv == ASSUME HeapInv, NEW s \in Slot, IntoIo(s) PROVE HeapInv'
<1> DEFINE w == val[s].w
           os == [t |-> "io", io |-> [payload |-> "os", code |-> OsCode(w)], p |-> 0]
           ours == [t |-> "io", io |-> [payload |-> "error", kind |-> "Other", w |-> w], p |-> 0]
<1>0. /\ val[s].t = "error" /\ Set(s, IF OsErrorOf(w) # {} THEN os ELSE ours, born[s])
      /\ UNCHANGED <<heap, made, moved, dropped>>
  BY DEF IntoIo
<1>1. HeapOK /\ Ledger /\ ValOK(s)
  BY DEF HeapInv, HeapOK
<1>2. w \in Nat /\ Words(s) = {w}
  BY <1>0, <1>1, WordsAre
<1>3. /\ os.t = "io" /\ os.io.payload = "os" /\ os.p = 0
      /\ ours.t = "io" /\ ours.io.payload = "error" /\ ours.io.w = w /\ ours.p = 0
  OBVIOUS
<1> HIDE DEF w, os, ours
<1>4. HeapOK'
  <2>1. CASE OsErrorOf(w) # {}
    <3>1. Tag(w) = "Os"
      BY <2>1 DEF OsErrorOf
    <3>2. PICK c : IsChain(heap, w, c) /\ Carries(heap, c, born[s].p) /\ Owned(s) = BoxesOf(c)
      BY <1>1, <1>2, OwnedIs
    <3>3. ~ContextIn(heap, w)
      BY <3>1 DEF ContextIn
    <3>4. Len(c) = 1 /\ c[1] = w /\ BoxesOf(c) = {}
      BY <3>1, <3>2, <3>3, ChainOfOne
    <3>5. Owned(s) = {} /\ born[s].p = 0
      BY <3>1, <3>2, <3>4 DEF Carries
    <3>6. val'[s] = os /\ born'[s] = born[s]
      BY <1>0, <1>1, <2>1, SetIs
    <3>7. ValOK(s)' /\ Words(s)' = {}
      BY <1>3, <3>5, <3>6 DEF ValOK, Words
    <3>8. DOMAIN heap' = DOMAIN heap \ Owned(s) /\ \A e \in DOMAIN heap' : heap'[e] = heap[e]
      BY <1>0, <3>5
    <3> QED
      BY <1>0, <1>1, <3>7, <3>8, ClearStep
  <2>2. CASE ~(OsErrorOf(w) # {})
    <3>1. val'[s] = ours /\ born'[s] = born[s]
      BY <1>0, <1>1, <2>2, SetIs
    <3>2. ValOK(s)' /\ Words(s)' = Words(s)
      BY <1>2, <1>3, <3>1 DEF ValOK, Words
    <3> QED
      BY <1>0, <1>1, <3>2, KeepStep
  <2> QED
    BY <2>1, <2>2
<1>5. \A t \in Slot : born'[t].p = born[t].p
  BY <1>0, <1>1, SetIs
<1>6. Ledger'
  BY <1>0, <1>1, <1>5, LedgerKept
<1> QED
  BY <1>4, <1>6 DEF HeapInv

\* And back: what was kept is taken out again, what was not is put into a box.
LEMMA FromIoInv == ASSUME HeapInv, NEW s \in Slot, NEW a \in Addr, FromIo(s, a) PROVE HeapInv'
<1> DEFINE io == val[s].io
           box(vt, ty, kind) == [vt |-> vt, ty |-> ty, kind |-> kind, p |-> val[s].p, bt |-> capture, inner |-> 0]
<1>0. val[s].t = "io" /\ a \in Free /\ UNCHANGED <<made, moved, dropped>>
  BY DEF FromIo
<1>1. HeapOK /\ Ledger /\ ValOK(s)
  BY DEF HeapInv, HeapOK
<1>2. \/ io.payload = "error" /\ io.w \in Nat
      \/ io.payload \in {"os", "none"} /\ val[s].p = 0 /\ born[s].p = 0
      \/ io.payload = "user" /\ val[s].p = born[s].p
  BY <1>0, <1>1 DEF ValOK, Empty
<1>3. Words(s) = IF io.payload = "error" THEN {io.w} ELSE {}
  BY <1>0, <1>1, WordsAre
<1>4. HeapOK' /\ \E v : Set(s, v, born[s])
  <2>1. CASE io.payload = "os"
    <3>1. Set(s, ErrorOf(NewOs(OsErrorFrom(io.code))), born[s]) /\ UNCHANGED heap
      BY <2>1 DEF FromIo
    <3>2. OsErrorFrom(io.code) \in OsErrors \cup {-1}
      BY DEF OsErrorFrom
    <3>3. NewOs(OsErrorFrom(io.code)) \in Nat /\ Tag(NewOs(OsErrorFrom(io.code))) # "Custom"
      BY <3>2, OsIs
    <3>4. born[s].p = 0 /\ Owned(s) = {}
      BY <1>1, <1>2, <1>3, <2>1, NoWords
    <3> QED
      BY <1>1, <3>1, <3>3, <3>4, PlainStep
  <2>2. CASE io.payload = "error"
    <3>1. Set(s, ErrorOf(io.w), born[s]) /\ UNCHANGED heap
      BY <2>2 DEF FromIo
    <3>2. val'[s] = ErrorOf(io.w)
      BY <1>1, <3>1, SetIs
    <3>3. val'[s].t = "error" /\ val'[s].w = io.w
      BY <3>2 DEF ErrorOf
    <3>4. ValOK(s)' /\ Words(s)' = Words(s)
      BY <1>2, <1>3, <2>2, <3>3 DEF ValOK, Words
    <3> QED
      BY <1>1, <3>1, <3>4, KeepStep
  <2>3. CASE io.payload = "user"
    <3>1. heap' = With(heap, a, box("boxed", "BoxedError", IoKind(io.kind))) /\ Set(s, ErrorOf(NewCustom(a)), born[s])
      BY <2>3 DEF FromIo
    <3>2. Owned(s) = {} /\ val[s].p = born[s].p
      BY <1>1, <1>2, <1>3, <2>3, NoWords
    <3>3. /\ box("boxed", "BoxedError", IoKind(io.kind)).vt # "context"
          /\ box("boxed", "BoxedError", IoKind(io.kind)).p = val[s].p
      OBVIOUS
    <3> HIDE DEF box
    <3> QED
      BY <1>0, <1>1, <3>1, <3>2, <3>3, BoxStep
  <2>4. CASE io.payload = "none"
    <3>1. heap' = With(heap, a, box("impl", "io", IoKind(io.kind))) /\ Set(s, ErrorOf(NewCustom(a)), born[s])
      BY <2>4 DEF FromIo
    <3>2. Owned(s) = {} /\ val[s].p = born[s].p
      BY <1>1, <1>2, <1>3, <2>4, NoWords
    <3>3. box("impl", "io", IoKind(io.kind)).vt # "context" /\ box("impl", "io", IoKind(io.kind)).p = val[s].p
      OBVIOUS
    <3> HIDE DEF box
    <3> QED
      BY <1>0, <1>1, <3>1, <3>2, <3>3, BoxStep
  <2> QED
    BY <1>2, <2>1, <2>2, <2>3, <2>4
<1>5. \A t \in Slot : born'[t].p = born[t].p
  BY <1>1, <1>4, SetIs
<1>6. Ledger'
  BY <1>0, <1>1, <1>5, LedgerKept
<1> QED
  BY <1>4, <1>6 DEF HeapInv

\* No error was made at first.
LEMMA HeapInitInv == ErrorInit => HeapInv
<1> SUFFICES ASSUME ErrorInit PROVE HeapInv
  OBVIOUS
<1>1. /\ DOMAIN heap = {} /\ made = 0 /\ moved = {} /\ dropped = [p \in 1..MaxPayload |-> 0]
      /\ val = [s \in Slot |-> Empty] /\ born = [s \in Slot |-> Unborn]
  BY DEF ErrorInit
<1>2. Unborn.p = 0 /\ MaxPayload \in Nat
  BY ErrorAssumption DEF Unborn
<1>3. \A s \in Slot : val[s] = Empty /\ born[s].p = 0
  BY <1>1, <1>2
<1>4. \A s \in Slot : ValOK(s) /\ Words(s) = {}
  BY <1>3 DEF ValOK, Words, Empty
<1>5. \A s \in Slot : Chained(s)
  BY <1>4 DEF Chained
<1>6. \A s \in Slot : Owned(s) = {}
  BY <1>4 DEF Owned
<1>7. HeapOK
  BY <1>1, <1>4, <1>5, <1>6 DEF HeapOK, OneOwnerEach
<1>8. Ledger
  BY <1>1, <1>2, <1>3 DEF Ledger
<1> QED
  BY <1>7, <1>8 DEF HeapInv

\* Every call keeps it.
LEMMA HeapStep == HeapInv /\ [ErrorNext]_evars => HeapInv'
<1> SUFFICES ASSUME HeapInv, [ErrorNext]_evars PROVE HeapInv'
  OBVIOUS
<1>1. CASE UNCHANGED evars
  <2>1. heap' = heap /\ val' = val /\ born' = born
    BY <1>1 DEF evars
  <2>2. \A w : Boxes(w)' = Boxes(w)
    <3>1. \A w : Boxes(w)' = BoxesIn(heap', w)
      BY Zenon DEF Boxes, BoxesIn, Below, BelowIn, Following, IsContext, ContextIn
    <3> QED
      BY <2>1, <3>1, ThisHeap
  <2>3. \A s \in Slot : Words(s)' = Words(s) /\ (ValOK(s)' <=> ValOK(s))
    BY <2>1 DEF Words, ValOK
  <2>4. \A s \in Slot : Owned(s)' = Owned(s)
    BY <2>2, <2>3 DEF Owned
  <2>5. \A s \in Slot : Chained(s)' <=> Chained(s)
    BY <2>1, <2>3, Zenon DEF Chained
  <2>6. OneOwnerEach'
    BY <2>1, <2>4 DEF HeapInv, HeapOK, OneOwnerEach
  <2>7. HeapOK'
    BY <2>1, <2>3, <2>5, <2>6 DEF HeapInv, HeapOK
  <2>8. Ledger'
    BY <1>1 DEF evars, HeapInv, Ledger
  <2> QED
    BY <2>7, <2>8 DEF HeapInv
<1>2. ASSUME NEW s \in Slot, NEW a \in Allocated,
             (\E ty \in Type : NewBasic(s, a, ty) \/ NewStd(s, a, ty)
                               \/ \E k \in {Interrupted, Other} : NewErrorImpl(s, a, ty, k)) \/ NewBoxed(s, a)
      PROVE  HeapInv'
  BY <1>2, NewDynInv DEF NewBasic, NewStd, NewErrorImpl, NewBoxed
<1>3. Allocated \subseteq Addr
  BY DEF Allocated, Free
<1> QED
  BY <1>1, <1>2, <1>3, FromOsInv, FromKindInv, FromMessageInv, ContextInv, FromIoInv, DowncastInv, DropInv,
     IntoIoInv, NewIoInv DEF ErrorNext

\* A set of which at most one is a member.
LEMMA AtMostOne ==
  ASSUME NEW S, \A e, f \in S : e = f
  PROVE  Cardinality(S) = IF S = {} THEN 0 ELSE 1
<1>1. CASE S = {}
  BY <1>1, FS_EmptySet
<1>2. CASE S # {}
  <2>1. PICK e \in S : S = {e}
    BY <1>2
  <2> QED
    BY <1>2, <2>1, FS_Singleton
<1> QED
  BY <1>1, <1>2

\* What the invariant says of the boxes and the payloads.
LEMMA HeapInvExact == HeapInv => HeapExact
<1> SUFFICES ASSUME HeapInv PROVE HeapExact
  OBVIOUS
<1>1. HeapOK /\ Ledger
  BY DEF HeapInv
<1>2. OneOwnerEach
  BY <1>1 DEF HeapOK
<1>3. ASSUME NEW s \in Slot PROVE Held(s) = {born[s].p} \ {0}
  <2>1. ValOK(s)
    BY <1>1 DEF HeapOK
  <2>2. CASE \E w \in Words(s) : TRUE
    <3>1. PICK w \in Words(s) : TRUE
      BY <2>2
    <3>2. Words(s) = {w}
      BY <2>1, WordsAre
    <3>3. ~(val[s].t = "io" /\ val[s].p # 0)
      BY <2>1, <3>1 DEF ValOK, Words, Empty
    <3>4. Held(s) = Payload(w) \ {0}
      <4>1. UNION {Payload(e) : e \in Words(s)} = Payload(w)
        BY <3>2
      <4>2. Held(s) = (UNION {Payload(e) : e \in Words(s)}) \ {0}
        BY <3>3, Zenon DEF Held
      <4> QED
        BY <4>1, <4>2
    <3> QED
      BY <1>1, <3>1, <3>4, PayloadIs
  <2>3. CASE Words(s) = {}
    <3>1. Held(s) = IF val[s].t = "io" /\ val[s].p # 0 THEN {val[s].p} ELSE {}
      BY <2>3 DEF Held
    <3>2. \/ val[s].t = "io" /\ val[s].p = born[s].p
          \/ val[s] = Empty /\ born[s].p = 0
      BY <2>1, <2>3 DEF ValOK, Words
    <3>3. val[s] = Empty => val[s].t # "io"
      BY DEF Empty
    <3> QED
      BY <3>1, <3>2, <3>3
  <2> QED
    BY <2>2, <2>3
<1>4. ASSUME NEW p \in 1..made
      PROVE  dropped[p] + (IF p \in moved THEN 1 ELSE 0) + Cardinality({s \in Slot : p \in Held(s)}) = 1
  <2>0. p \in Nat /\ p # 0 /\ p <= made /\ p \in 1..MaxPayload
    BY <1>1, ErrorAssumption DEF Ledger
  <2> DEFINE S == {s \in Slot : p \in Held(s)}
  <2>1. S = {s \in Slot : born[s].p = p}
    BY <1>3, <2>0
  <2>2. \A e, f \in S : e = f
    BY <1>1, <2>0, <2>1 DEF Ledger
  <2> HIDE DEF S
  <2>3. Cardinality(S) = IF S = {} THEN 0 ELSE 1
    BY <2>2, AtMostOne
  <2>4. p \in moved => S = {}
    BY <1>1, <2>0, <2>1 DEF Ledger
  <2>5. dropped[p] = IF p \notin moved /\ S = {} THEN 1 ELSE 0
    BY <1>1, <2>0, <2>1 DEF Ledger
  <2>6. dropped[p] + (IF p \in moved THEN 1 ELSE 0) + Cardinality(S) = 1
    BY <2>3, <2>4, <2>5
  <2> QED
    BY <2>6 DEF S
<1> QED
  BY <1>2, <1>4 DEF HeapExact, OneOwnerEach

\* For any addresses, codes and error types, however errors are wrapped, converted
\* to io::Errors and back, downcast and dropped: a box has one owner until it is
\* freed, once, none is left behind, and each payload is in one error, or was handed
\* out, or dropped, once.
THEOREM ErrorsOwnBoxes == ErrorSpec => []HeapExact
<1>1. ErrorSpec => []HeapInv
  BY HeapInitInv, HeapStep, PTL DEF ErrorSpec
<1> QED
  BY <1>1, HeapInvExact, PTL

-----------------------------------------------------------------------------
(* What an error was made with *)

\* The boxes of an error that have a backtrace.
Traces(w) == {e \in Boxes(w) : heap[e].bt}

\* An io::Error from elsewhere has the kind it will have as one of ours.
IoOK(s) ==
    val[s].t = "io" =>
        /\ val[s].io.payload = "os" => born[s].kind = OsKind(OsErrorFrom(val[s].io.code))
        /\ val[s].io.payload = "none" => born[s].kind = IoKind(val[s].io.kind)
        /\ val[s].io.payload = "user" => born[s].kind = Other

BornOK(s) ==
    /\ IoOK(s)
    /\ \A w \in Words(s) :
         /\ Kind(w) = born[s].kind
         /\ Tag(w) = "Os" => OsCode(w) \in OsErrors \cup {-1}
         /\ Tag(w) = "Custom" => IF capture THEN \E e : Traces(w) = {e} ELSE Traces(w) = {}

BornInv == HeapInv /\ capture \in BOOLEAN /\ \A s \in Slot : BornOK(s)

\* The kind of an error that is no context, in a heap.
RootKindIn(h, w) ==
    CASE Tag(w) = "Os" -> OsKind(OsCode(w))
      [] Tag(w) = "Simple" -> SimpleKind(w)
      [] Tag(w) = "SimpleMessage" -> MessageKind(w)
      [] OTHER -> IF h[BoxOf(w)].vt = "impl" THEN h[BoxOf(w)].kind ELSE Other

\* What the operators say of an error whose chain is known.
LEMMA SaysNow ==
  ASSUME NEW w, NEW c, IsChain(heap, w, c), DOMAIN heap \subseteq Addr
  PROVE  /\ Kind(w) = RootKindIn(heap, c[Len(c)]) /\ Boxes(w) = BoxesOf(c)
         /\ Traces(w) = {e \in BoxesOf(c) : heap[e].bt}
<1>1. Boxes(w) = BoxesOf(c) /\ Root(w) = c[Len(c)]
  BY ChainEnds, ThisHeap
<1>2. Kind(w) = RootKindIn(heap, Root(w))
  BY Zenon DEF Kind, RootKind, RootKindIn
<1> QED
  BY <1>1, <1>2 DEF Traces

\* The same after a step.
LEMMA SaysThen ==
  ASSUME NEW w, NEW c, IsChain(heap', w, c), DOMAIN heap' \subseteq Addr
  PROVE  /\ Kind(w)' = RootKindIn(heap', c[Len(c)]) /\ Boxes(w)' = BoxesOf(c)
         /\ Traces(w)' = {e \in BoxesOf(c) : heap'[e].bt}
<1>1. Boxes(w)' = BoxesIn(heap', w)
  BY Zenon DEF Boxes, BoxesIn, Below, BelowIn, Following, IsContext, ContextIn
<1>2. Root(w)' = RootIn(heap', w)
  BY Zenon DEF Root, RootIn, Below, BelowIn, Following, IsContext, ContextIn
<1>3. Boxes(w)' = BoxesOf(c) /\ Root(w)' = c[Len(c)]
  BY <1>1, <1>2, ChainEnds
<1>4. Kind(w)' = RootKindIn(heap', Root(w)')
  BY Zenon DEF Kind, RootKind, RootKindIn
<1> QED
  BY <1>3, <1>4 DEF Traces

\* The kind is in the last box, if there is one.
LEMMA KindKept ==
  ASSUME NEW h, NEW g, NEW w, Tag(w) = "Custom" => g[BoxOf(w)] = h[BoxOf(w)]
  PROVE  RootKindIn(g, w) = RootKindIn(h, w)
BY DEF RootKindIn, Tag

\* A step of one slot keeps what is said of the others.
LEMMA OthersSay ==
  ASSUME BornInv, HeapOK', NEW s \in Slot, NEW v, NEW b, Set(s, v, b), UNCHANGED capture, BornOK(s)',
         \A e \in DOMAIN heap \ Owned(s) : e \in DOMAIN heap' /\ heap'[e] = heap[e]
  PROVE  \A t \in Slot : BornOK(t)'
<1>0. HeapOK /\ DOMAIN heap \subseteq Addr /\ DOMAIN heap' \subseteq Addr
  BY DEF BornInv, HeapInv, HeapOK
<1> SUFFICES ASSUME NEW t \in Slot, t # s PROVE BornOK(t)'
  OBVIOUS
<1>1. val'[t] = val[t] /\ born'[t] = born[t]
  BY <1>0, SetIs
<1>2. IoOK(t)' /\ Words(t)' = Words(t)
  BY <1>1 DEF BornInv, BornOK, IoOK, Words
<1>3. ASSUME NEW w \in Words(t)
      PROVE  Kind(w)' = Kind(w) /\ Traces(w)' = Traces(w)
  <2>1. PICK c : IsChain(heap, w, c) /\ Owned(t) = BoxesOf(c)
    BY <1>0, OwnedIs
  <2>2. \A e \in BoxesOf(c) : e \in DOMAIN heap' /\ heap'[e] = heap[e]
    BY <1>0, <2>1 DEF HeapOK, OneOwnerEach
  <2>3. IsChain(heap', w, c)
    BY <2>1, <2>2, ChainKept
  <2>4. c \in Seq(Nat) /\ Len(c) \in 1..Len(c)
    BY <2>1 DEF IsChain
  <2>5. Tag(c[Len(c)]) = "Custom" => BoxOf(c[Len(c)]) \in BoxesOf(c)
    BY <2>4 DEF BoxesOf
  <2>6. RootKindIn(heap', c[Len(c)]) = RootKindIn(heap, c[Len(c)])
    BY <2>2, <2>5, KindKept
  <2>7. {e \in BoxesOf(c) : heap'[e].bt} = {e \in BoxesOf(c) : heap[e].bt}
    BY <2>2
  <2> QED
    BY <1>0, <2>1, <2>3, <2>6, <2>7, SaysNow, SaysThen
<1> QED
  BY <1>1, <1>2, <1>3 DEF BornInv, BornOK

\* What is said of an error that is no context.
LEMMA OneSays ==
  ASSUME HeapOK', NEW s \in Slot, val'[s].t = "error", NEW w, val'[s].w = w,
         IF Tag(w) = "Custom" THEN ~ContextIn(heap', w) /\ heap'[BoxOf(w)].bt = capture' ELSE TRUE,
         RootKindIn(heap', w) = born'[s].kind, capture' \in BOOLEAN,
         Tag(w) = "Os" => OsCode(w) \in OsErrors \cup {-1}
  PROVE  BornOK(s)'
<1>0. DOMAIN heap' \subseteq Addr /\ Words(s)' = {w}
  BY DEF HeapOK, Words
<1>1. PICK c : IsChain(heap', w, c)
  BY <1>0 DEF HeapOK, Chained
<1>2. ~ContextIn(heap', w)
  BY DEF ContextIn
<1>5. Len(c) = 1 /\ c[1] = w /\ BoxesOf(c) = IF Tag(w) = "Custom" THEN {BoxOf(w)} ELSE {}
  BY <1>1, <1>2, ChainOfOne
<1>6. Kind(w)' = born'[s].kind /\ Traces(w)' = {e \in BoxesOf(c) : heap'[e].bt}
  BY <1>0, <1>1, <1>5, SaysThen
<1>7. Tag(w) = "Custom" => IF capture' THEN \E e : Traces(w)' = {e} ELSE Traces(w)' = {}
  BY <1>5, <1>6
<1>8. IoOK(s)'
  BY DEF IoOK
<1> QED
  BY <1>0, <1>6, <1>7, <1>8 DEF BornOK
\* What the operators say depends on the heap alone.
LEMMA QuietSays ==
  ASSUME UNCHANGED heap, NEW w PROVE Kind(w)' = Kind(w) /\ Traces(w)' = Traces(w)
<1>1. Boxes(w)' = BoxesIn(heap', w) /\ Root(w)' = RootIn(heap', w)
  BY Zenon DEF Boxes, BoxesIn, Root, RootIn, Below, BelowIn, Following, IsContext, ContextIn
<1>2. Boxes(w)' = Boxes(w) /\ Root(w)' = Root(w)
  BY <1>1, ThisHeap
<1>3. Kind(w)' = RootKindIn(heap', Root(w)') /\ Kind(w) = RootKindIn(heap, Root(w))
  BY Zenon DEF Kind, RootKind, RootKindIn
<1> QED
  BY <1>2, <1>3 DEF Traces

\* A step that leaves the boxes of the others alone.
LEMMA SaysStep ==
  ASSUME BornInv, HeapInv', NEW s \in Slot, NEW v, NEW b, Set(s, v, b), UNCHANGED capture, BornOK(s)',
         \A e \in DOMAIN heap \ Owned(s) : e \in DOMAIN heap' /\ heap'[e] = heap[e]
  PROVE  BornInv'
<1>1. \A t \in Slot : BornOK(t)'
  BY OthersSay DEF HeapInv
<1> QED
  BY <1>1 DEF BornInv

\* An error without a box says itself what it is.
LEMMA PlainBorn ==
  ASSUME BornInv, HeapInv', NEW s \in Slot, NEW w, Tag(w) # "Custom", NEW b, Set(s, ErrorOf(w), b),
         UNCHANGED <<heap, capture>>, RootKindIn(heap, w) = b.kind,
         Tag(w) = "Os" => OsCode(w) \in OsErrors \cup {-1}
  PROVE  BornInv'
<1>1. val'[s] = ErrorOf(w) /\ born'[s] = b
  BY SetIs DEF BornInv, HeapInv
<1>2. val'[s].t = "error" /\ val'[s].w = w
  BY <1>1 DEF ErrorOf
<1>3. BornOK(s)'
  <2>1. HeapOK' /\ capture' \in BOOLEAN /\ RootKindIn(heap', w) = born'[s].kind
    BY <1>1 DEF BornInv, HeapInv
  <2> QED
    BY <1>2, <2>1, OneSays
<1> QED
  BY <1>3, SaysStep

\* A new box says what its error is, and has the backtrace.
LEMMA BoxBorn ==
  ASSUME BornInv, HeapInv', NEW s \in Slot, NEW a \in Free, NEW box, heap' = With(heap, a, box),
         box.vt # "context", box.bt = capture, UNCHANGED capture,
         NEW b, Set(s, ErrorOf(NewCustom(a)), b), b.kind = IF box.vt = "impl" THEN box.kind ELSE Other
  PROVE  BornInv'
<1> DEFINE w == NewCustom(a)
<1>0. a \in Addr /\ a \notin DOMAIN heap
  BY DEF Free
<1>1. Tag(w) = "Custom" /\ BoxOf(w) = a
  BY <1>0, CustomIs
<1>2. heap'[a] = box /\ \A e \in DOMAIN heap : e \in DOMAIN heap' /\ heap'[e] = heap[e]
  BY <1>0 DEF With
<1> HIDE DEF w
<1>3. val'[s] = ErrorOf(w) /\ born'[s] = b
  BY SetIs DEF BornInv, HeapInv, w
<1>4. val'[s].t = "error" /\ val'[s].w = w
  BY <1>3 DEF ErrorOf
<1>5. ~ContextIn(heap', w) /\ heap'[BoxOf(w)].bt = capture'
  BY <1>1, <1>2 DEF ContextIn
<1>6. RootKindIn(heap', w) = born'[s].kind
  BY <1>1, <1>2, <1>3 DEF RootKindIn
<1>7. BornOK(s)'
  <2>1. HeapOK' /\ capture' \in BOOLEAN
    BY DEF BornInv, HeapInv
  <2> QED
    BY <1>1, <1>4, <1>5, <1>6, <2>1, OneSays
<1> QED
  BY <1>2, <1>7, SaysStep

\* The code of a system call survives the word.
LEMMA FromOsBorn ==
  ASSUME BornInv, HeapInv', NEW s \in Slot, NEW code \in Codes, FromOs(s, code) PROVE BornInv'
<1>1. PICK r \in {ResultFromInt(-code), ResultFromPtr(WordSize - code), ResultFromLibc(-1, code)} :
        ~r.ok /\ Set(s, ErrorOf(NewOs(r.err)), [kind |-> OsKind(OsErrorFrom(code)), p |-> 0])
  BY DEF FromOs
<1>2. r.err \in OsErrors \cup {-1} /\ r.err = OsErrorFrom(code)
  BY <1>1, ResultsAre, ErrorAssumption
<1>3. Tag(NewOs(r.err)) = "Os" /\ OsCode(NewOs(r.err)) = r.err
  BY <1>2, OsIs
<1>4. RootKindIn(heap, NewOs(r.err)) = [kind |-> OsKind(OsErrorFrom(code)), p |-> 0].kind
  BY <1>2, <1>3 DEF RootKindIn
<1> QED
  BY <1>1, <1>2, <1>3, <1>4, PlainBorn DEF FromOs

\* So does a kind.
LEMMA FromKindBorn ==
  ASSUME BornInv, HeapInv', NEW s \in Slot, NEW k \in {Interrupted, Uncategorized}, FromKind(s, k)
  PROVE  BornInv'
<1>1. Tag(NewSimple(k)) = "Simple" /\ SimpleKind(NewSimple(k)) = k
  BY KindsAre, SimpleIs
<1>2. RootKindIn(heap, NewSimple(k)) = [kind |-> k, p |-> 0].kind
  BY <1>1 DEF RootKindIn
<1> QED
  BY <1>1, <1>2, PlainBorn DEF FromKind

\* A message has the kind of its address.
LEMMA FromMessageBorn ==
  ASSUME BornInv, HeapInv', NEW s \in Slot, NEW a \in Static, FromMessage(s, a) PROVE BornInv'
<1>1. Tag(NewSimpleMessage(a)) = "SimpleMessage" /\ NewSimpleMessage(a) = a
  BY MessageIs DEF NewSimpleMessage
<1>2. RootKindIn(heap, NewSimpleMessage(a)) = [kind |-> MessageKind(a), p |-> 0].kind
  BY <1>1 DEF RootKindIn
<1> QED
  BY <1>1, <1>2, PlainBorn DEF FromMessage

\* Only an error with a kind of its own is asked for it.
LEMMA NewDynBorn ==
  ASSUME BornInv, HeapInv', NEW s \in Slot, NEW a, NEW vt, vt # "context", NEW ty, NEW kind,
         vt # "impl" => kind = Other, NewDyn(s, a, vt, ty, kind)
  PROVE  BornInv'
<1> DEFINE box == [vt |-> vt, ty |-> ty, kind |-> kind, p |-> made + 1, bt |-> capture, inner |-> 0]
           b == [kind |-> kind, p |-> made + 1]
<1>1. a \in Free /\ heap' = With(heap, a, box) /\ Set(s, ErrorOf(NewCustom(a)), b) /\ UNCHANGED capture
  BY DEF NewDyn
<1>2. box.vt # "context" /\ box.bt = capture /\ b.kind = IF box.vt = "impl" THEN box.kind ELSE Other
  OBVIOUS
<1> HIDE DEF box, b
<1> QED
  BY <1>1, <1>2, BoxBorn

\* A context has the kind of what it is around, and no second backtrace.
LEMMA ContextBorn ==
  ASSUME BornInv, HeapInv', NEW s \in Slot, NEW a \in Addr, Context(s, a) PROVE BornInv'
<1> DEFINE w == val[s].w
           v == NewCustom(a)
           box == [vt |-> "context", ty |-> "context", kind |-> Other, p |-> 0,
                   bt |-> capture /\ ~HasBacktrace(w), inner |-> w]
<1>0. /\ val[s].t = "error" /\ a \notin DOMAIN heap /\ HeapOK /\ DOMAIN heap \subseteq Addr /\ DOMAIN heap' \subseteq Addr
      /\ heap' = With(heap, a, box) /\ Set(s, ErrorOf(v), born[s]) /\ UNCHANGED capture /\ BornOK(s)
      /\ capture \in BOOLEAN
  BY DEF Context, Free, BornInv, HeapInv, HeapOK
<1>1. heap'[a] = box /\ \A e \in DOMAIN heap : e \in DOMAIN heap' /\ heap'[e] = heap[e]
  BY <1>0 DEF With
<1>2. box.vt = "context" /\ box.inner = w /\ box.bt = (capture /\ ~HasBacktrace(w))
  OBVIOUS
<1>3. v \in Nat /\ Tag(v) = "Custom" /\ BoxOf(v) = a
  BY CustomIs
<1>4. w \in Words(s)
  BY <1>0 DEF Words
<1>5. a \in DOMAIN heap'
  BY <1>0 DEF With
<1> HIDE DEF box, v, w
<1>6. val'[s] = ErrorOf(v) /\ born'[s] = born[s]
  BY <1>0, SetIs
<1>7. val'[s].t = "error" /\ Words(s)' = {v}
  BY <1>6 DEF ErrorOf, Words
<1>8. PICK c : IsChain(heap, w, c) /\ Carries(heap, c, born[s].p) /\ Owned(s) = BoxesOf(c)
  BY <1>0, <1>4, OwnedIs
<1>9. Owned(s) \subseteq DOMAIN heap
  BY <1>0, NoWords
<1>10. IsChain(heap', w, c) /\ Carries(heap', c, born[s].p)
  BY <1>1, <1>8, <1>9, ChainKept
<1>11. ContextIn(heap', v) /\ BoxOf(v) \in DOMAIN heap' /\ heap'[BoxOf(v)].inner = w /\ BoxOf(v) \notin BoxesOf(c)
  BY <1>0, <1>1, <1>2, <1>3, <1>5, <1>8, <1>9 DEF ContextIn
<1>12. PICK d : IsChain(heap', v, d) /\ BoxesOf(d) = {a} \cup BoxesOf(c) /\ d[Len(d)] = c[Len(c)]
  BY <1>3, <1>10, <1>11, OneMore
<1>13. Kind(v)' = born'[s].kind
  <2>1. Kind(v)' = RootKindIn(heap', c[Len(c)])
    BY <1>0, <1>12, SaysThen
  <2>2. Kind(w) = RootKindIn(heap, c[Len(c)])
    BY <1>0, <1>8, SaysNow
  <2>3. Len(c) \in 1..Len(c)
    BY <1>8 DEF IsChain
  <2>4. Tag(c[Len(c)]) = "Custom" => BoxOf(c[Len(c)]) \in BoxesOf(c)
    BY <2>3 DEF BoxesOf
  <2>5. RootKindIn(heap', c[Len(c)]) = RootKindIn(heap, c[Len(c)])
    BY <1>1, <1>8, <1>9, <2>4, KindKept
  <2> QED
    BY <1>0, <1>4, <1>6, <2>1, <2>2, <2>5 DEF BornOK
<1>14. IF capture' THEN \E e : Traces(v)' = {e} ELSE Traces(v)' = {}
  <2>1. Traces(v)' = {e \in {a} \cup BoxesOf(c) : heap'[e].bt}
    BY <1>0, <1>12, SaysThen
  <2>2. Traces(w) = {e \in BoxesOf(c) : heap[e].bt} /\ Boxes(w) = BoxesOf(c)
    BY <1>0, <1>8, SaysNow
  <2>3. {e \in BoxesOf(c) : heap'[e].bt} = Traces(w)
    BY <1>1, <1>8, <1>9, <2>2
  <2>4. HasBacktrace(w) <=> Traces(w) # {}
    BY <2>2 DEF HasBacktrace
  <2>5. heap'[a].bt <=> capture /\ Traces(w) = {}
    BY <1>1, <1>2, <2>4
  <2>6. Traces(v)' = IF capture /\ Traces(w) = {} THEN {a} \cup Traces(w) ELSE Traces(w)
    BY <2>1, <2>3, <2>5
  <2>7. Traces(w) = {} \/ (capture /\ \E e : Traces(w) = {e})
    <3>1. CASE Tag(w) = "Custom"
      BY <1>0, <1>4, <3>1 DEF BornOK
    <3>2. CASE Tag(w) # "Custom"
      <4>1. ~ContextIn(heap, w)
        BY <3>2 DEF ContextIn
      <4>6. BoxesOf(c) = {}
        BY <1>8, <3>2, <4>1, ChainOfOne
      <4> QED
        BY <2>2, <4>6
    <3> QED
      BY <3>1, <3>2
  <2> QED
    BY <1>0, <2>6, <2>7
<1>15. BornOK(s)'
  <2>1. IoOK(s)'
    BY <1>7 DEF IoOK
  <2> QED
    BY <1>3, <1>7, <1>13, <1>14, <2>1 DEF BornOK
<1> QED
  BY <1>0, <1>1, <1>15, SaysStep

\* What is dropped or downcast says nothing any more.
LEMMA FreedBorn ==
  ASSUME BornInv, HeapInv', NEW s \in Slot, val[s].t = "error", heap' = Without(heap, Boxes(val[s].w)),
         Clear(s), UNCHANGED capture
  PROVE  BornInv'
<1>0. HeapOK /\ ValOK(s)
  BY DEF BornInv, HeapInv, HeapOK
<1>1. Words(s) = {val[s].w}
  BY <1>0, WordsAre
<1>2. Owned(s) = Boxes(val[s].w)
  BY <1>1 DEF Owned
<1>3. \A e \in DOMAIN heap \ Owned(s) : e \in DOMAIN heap' /\ heap'[e] = heap[e]
  BY <1>2 DEF Without
<1>4. Set(s, Empty, Unborn)
  BY DEF Clear
<1>5. val'[s] = Empty
  BY <1>0, <1>4, SetIs
<1>6. BornOK(s)'
  BY <1>5 DEF BornOK, IoOK, Words, Empty
<1> QED
  BY <1>3, <1>4, <1>6, SaysStep

\* An io::Error has the kind that its conversion gives it.
LEMMA NewIoBorn ==
  ASSUME ~KindedIo, BornInv, HeapInv', NEW s \in Slot, NEW io \in IoErrors, NewIo(s, io) PROVE BornInv'
<1> DEFINE q == IF io.payload = "user" THEN made + 1 ELSE 0
           v == [t |-> "io", io |-> io, p |-> q]
           b == [kind |-> IF io.payload = "os" THEN OsKind(OsErrorFrom(io.code)) ELSE IoKind(io.kind), p |-> q]
<1>0. Set(s, v, b) /\ UNCHANGED <<heap, capture>> /\ HeapOK
  BY DEF NewIo, BornInv, HeapInv
<1>1. io.payload \in {"os", "none", "user"} /\ (io.payload = "user" => io.kind = "Other")
  BY DEF IoErrors
<1>2. /\ v.t = "io" /\ v.io = io
      /\ b.kind = IF io.payload = "os" THEN OsKind(OsErrorFrom(io.code)) ELSE IoKind(io.kind)
  OBVIOUS
<1>3. IoKind("Other") = Other
  BY DEF IoKind, IoKinds
<1> HIDE DEF v, b, q
<1>4. val'[s] = v /\ born'[s] = b
  BY <1>0, SetIs
<1>5. IoOK(s)'
  BY <1>1, <1>2, <1>3, <1>4 DEF IoOK
<1>6. Words(s)' = {}
  BY <1>1, <1>2, <1>4 DEF Words
<1>7. BornOK(s)'
  BY <1>5, <1>6 DEF BornOK
<1> QED
  BY <1>0, <1>7, SaysStep

\* An OS error keeps its code as an io::Error, any other error is kept whole.
LEMMA IntoIoBorn == ASSUME BornInv, HeapInv', NEW s \in Slot, IntoIo(s) PROVE BornInv'
<1> DEFINE w == val[s].w
           os == [t |-> "io", io |-> [payload |-> "os", code |-> OsCode(w)], p |-> 0]
           ours == [t |-> "io", io |-> [payload |-> "error", kind |-> "Other", w |-> w], p |-> 0]
<1>0. /\ val[s].t = "error" /\ Set(s, IF OsErrorOf(w) # {} THEN os ELSE ours, born[s])
      /\ UNCHANGED <<heap, capture>> /\ HeapOK /\ BornOK(s) /\ ValOK(s)
  BY DEF IntoIo, BornInv, HeapInv, HeapOK
<1>1. Words(s) = {w}
  BY <1>0, WordsAre
<1>2. /\ os.t = "io" /\ os.io.payload = "os" /\ os.io.code = OsCode(w)
      /\ ours.t = "io" /\ ours.io.payload = "error" /\ ours.io.w = w
  OBVIOUS
<1> HIDE DEF w, os, ours
<1>3. CASE OsErrorOf(w) # {}
  <2>1. Tag(w) = "Os"
    BY <1>3 DEF OsErrorOf
  <2>2. val'[s] = os /\ born'[s] = born[s]
    BY <1>0, <1>3, SetIs
  <2>3. Kind(w) = OsKind(OsCode(w))
    <3>1. PICK c : IsChain(heap, w, c)
      BY <1>0, <1>1, OwnedIs
    <3>2. ~ContextIn(heap, w)
      BY <2>1 DEF ContextIn
    <3>6. Len(c) = 1 /\ c[1] = w
      BY <3>1, <3>2, ChainOfOne
    <3>7. Kind(w) = RootKindIn(heap, w)
      BY <1>0, <3>1, <3>6, SaysNow DEF HeapOK
    <3> QED
      BY <2>1, <3>7 DEF RootKindIn
  <2>4. OsCode(w) \in OsErrors \cup {-1} /\ Kind(w) = born[s].kind
    BY <1>0, <1>1, <2>1 DEF BornOK
  <2>5. OsErrorFrom(OsCode(w)) = OsCode(w)
    BY <2>4 DEF OsErrorFrom
  <2>6. IoOK(s)' /\ Words(s)' = {}
    BY <1>2, <2>2, <2>3, <2>4, <2>5 DEF IoOK, Words
  <2>7. BornOK(s)'
    BY <2>6 DEF BornOK
  <2> QED
    BY <1>0, <1>3, <2>7, SaysStep
<1>4. CASE ~(OsErrorOf(w) # {})
  <2>1. val'[s] = ours /\ born'[s] = born[s]
    BY <1>0, <1>4, SetIs
  <2>2. IoOK(s)' /\ Words(s)' = Words(s)
    BY <1>1, <1>2, <2>1 DEF IoOK, Words
  <2>3. BornOK(s)'
    BY <1>0, <2>1, <2>2, QuietSays DEF BornOK
  <2> QED
    BY <1>0, <1>4, <2>3, SaysStep
<1> QED
  BY <1>3, <1>4

\* And both come back as they were.
LEMMA FromIoBorn == ASSUME BornInv, HeapInv', NEW s \in Slot, NEW a \in Addr, FromIo(s, a) PROVE BornInv'
<1> DEFINE io == val[s].io
           box(vt, ty, kind) == [vt |-> vt, ty |-> ty, kind |-> kind, p |-> val[s].p, bt |-> capture, inner |-> 0]
<1>0. val[s].t = "io" /\ a \in Free /\ UNCHANGED capture /\ HeapOK /\ BornOK(s) /\ ValOK(s)
  BY DEF FromIo, BornInv, HeapInv, HeapOK
<1>1. io.payload \in {"os", "error", "user", "none"}
  BY <1>0 DEF ValOK, Empty
<1>2. CASE io.payload = "os"
  <2>1. Set(s, ErrorOf(NewOs(OsErrorFrom(io.code))), born[s]) /\ UNCHANGED heap
    BY <1>2 DEF FromIo
  <2>2. OsErrorFrom(io.code) \in OsErrors \cup {-1}
    BY DEF OsErrorFrom
  <2>3. Tag(NewOs(OsErrorFrom(io.code))) = "Os" /\ OsCode(NewOs(OsErrorFrom(io.code))) = OsErrorFrom(io.code)
    BY <2>2, OsIs
  <2>4. born[s].kind = OsKind(OsErrorFrom(io.code))
    BY <1>0, <1>2 DEF BornOK, IoOK
  <2>5. RootKindIn(heap, NewOs(OsErrorFrom(io.code))) = born[s].kind
    BY <2>3, <2>4 DEF RootKindIn
  <2> QED
    BY <1>0, <2>1, <2>2, <2>3, <2>5, PlainBorn
<1>3. CASE io.payload = "error"
  <2>1. Set(s, ErrorOf(io.w), born[s]) /\ UNCHANGED heap
    BY <1>3 DEF FromIo
  <2>2. val'[s] = ErrorOf(io.w) /\ born'[s] = born[s]
    BY <1>0, <2>1, SetIs
  <2>3. Words(s) = {io.w}
    BY <1>0, <1>3, WordsAre
  <2>4. val'[s].t = "error" /\ Words(s)' = Words(s)
    BY <2>2, <2>3 DEF ErrorOf, Words
  <2>5. BornOK(s)'
    <3>1. IoOK(s)'
      BY <2>4 DEF IoOK
    <3> QED
      BY <1>0, <2>1, <2>2, <2>4, <3>1, QuietSays DEF BornOK
  <2> QED
    BY <1>0, <2>1, <2>5, SaysStep
<1>4. CASE io.payload = "user"
  <2>1. heap' = With(heap, a, box("boxed", "BoxedError", IoKind(io.kind))) /\ Set(s, ErrorOf(NewCustom(a)), born[s])
    BY <1>4 DEF FromIo
  <2>2. born[s].kind = Other
    BY <1>0, <1>4 DEF BornOK, IoOK
  <2>3. box("boxed", "BoxedError", IoKind(io.kind)).vt = "boxed" /\ box("boxed", "BoxedError", IoKind(io.kind)).bt = capture
    OBVIOUS
  <2> HIDE DEF box
  <2> QED
    BY <1>0, <2>1, <2>2, <2>3, BoxBorn
<1>5. CASE io.payload = "none"
  <2>1. heap' = With(heap, a, box("impl", "io", IoKind(io.kind))) /\ Set(s, ErrorOf(NewCustom(a)), born[s])
    BY <1>5 DEF FromIo
  <2>2. born[s].kind = IoKind(io.kind)
    BY <1>0, <1>5 DEF BornOK, IoOK
  <2>3. /\ box("impl", "io", IoKind(io.kind)).vt = "impl" /\ box("impl", "io", IoKind(io.kind)).bt = capture
        /\ box("impl", "io", IoKind(io.kind)).kind = IoKind(io.kind)
    OBVIOUS
  <2> HIDE DEF box
  <2> QED
    BY <1>0, <2>1, <2>2, <2>3, BoxBorn
<1> QED
  BY <1>1, <1>2, <1>3, <1>4, <1>5

\* Before any error is made.
LEMMA BornInitInv == ErrorInit => BornInv
<1> SUFFICES ASSUME ErrorInit PROVE BornInv
  OBVIOUS
<1>1. capture \in BOOLEAN /\ \A s \in Slot : val[s] = Empty
  BY DEF ErrorInit
<1>2. \A s \in Slot : BornOK(s)
  BY <1>1 DEF BornOK, IoOK, Words, Empty
<1> QED
  BY <1>1, <1>2, HeapInitInv DEF BornInv

\* Every call keeps what errors were made with.
LEMMA BornStep == ASSUME ~KindedIo PROVE BornInv /\ [ErrorNext]_evars => BornInv'
<1> SUFFICES ASSUME BornInv, [ErrorNext]_evars PROVE BornInv'
  OBVIOUS
<1>0. HeapInv'
  BY HeapStep DEF BornInv
<1>1. CASE UNCHANGED evars
  <2>1. heap' = heap /\ val' = val /\ born' = born /\ capture' = capture
    BY <1>1 DEF evars
  <2>2. \A s \in Slot : Words(s)' = Words(s) /\ (IoOK(s)' <=> IoOK(s))
    BY <2>1 DEF Words, IoOK
  <2>3. \A s \in Slot : BornOK(s)'
    BY <2>1, <2>2, QuietSays DEF BornInv, BornOK
  <2> QED
    BY <1>0, <2>1, <2>3 DEF BornInv
<1>2. ASSUME NEW s \in Slot, NEW a \in Allocated,
             (\E ty \in Type : NewBasic(s, a, ty) \/ NewStd(s, a, ty)
                               \/ \E k \in {Interrupted, Other} : NewErrorImpl(s, a, ty, k)) \/ NewBoxed(s, a)
      PROVE  BornInv'
  <2>1. \A vt \in {"basic", "std", "boxed", "impl"} : vt # "context"
    OBVIOUS
  <2> QED
    BY <1>0, <1>2, <2>1, NewDynBorn DEF NewBasic, NewStd, NewErrorImpl, NewBoxed
<1>3. Allocated \subseteq Addr
  BY DEF Allocated, Free
<1>4. ASSUME NEW s \in Slot, (\E ty : Downcast(s, ty)) \/ Drop(s) PROVE BornInv'
  BY <1>0, <1>4, FreedBorn DEF Downcast, Drop
<1> QED
  BY <1>0, <1>1, <1>2, <1>3, <1>4, FromOsBorn, FromKindBorn, FromMessageBorn, ContextBorn, FromIoBorn,
     IntoIoBorn, NewIoBorn DEF ErrorNext

\* What the invariant says of an error as it is read.
LEMMA BornInvExact == BornInv => Transparent
<1> SUFFICES ASSUME BornInv PROVE Transparent
  OBVIOUS
<1>1. WordExact
  <2>1. Len(ErrorKinds) = 47
    BY DEF ErrorKinds
  <2>2. \A k \in 0..(Len(ErrorKinds) - 1) : k \in 0..255
    BY <2>1
  <2> QED
    BY <2>2, OsIs, SimpleIs DEF WordExact
<1>2. ASSUME NEW s \in Slot, NEW w \in Words(s)
      PROVE  /\ Kind(w) = born[s].kind
             /\ Payload(w) \ {0} = {born[s].p} \ {0}
             /\ \A ty \in Type : DowncastRef(w, ty) \subseteq {born[s].p}
             /\ Tag(w) = "Custom" => Cardinality({b \in Boxes(w) : heap[b].bt}) = IF capture THEN 1 ELSE 0
  <2>0. HeapOK /\ BornOK(s)
    BY DEF BornInv, HeapInv
  <2>1. Payload(w) \in {{}, {born[s].p}} /\ (Payload(w) = {} => born[s].p = 0)
        /\ \A ty : DowncastRef(w, ty) \subseteq Payload(w)
    BY <2>0, PayloadIs
  <2>2. Payload(w) \ {0} = {born[s].p} \ {0} /\ \A ty \in Type : DowncastRef(w, ty) \subseteq {born[s].p}
    BY <2>1
  <2>3. Tag(w) = "Custom" => Cardinality(Traces(w)) = IF capture THEN 1 ELSE 0
    <3>1. Cardinality({}) = 0 /\ \A e : Cardinality({e}) = 1
      BY FS_EmptySet, FS_Singleton
    <3>2. Tag(w) = "Custom" => IF capture THEN \E e : Traces(w) = {e} ELSE Traces(w) = {}
      BY <2>0 DEF BornOK
    <3> QED
      BY <3>1, <3>2
  <2> QED
    BY <2>0, <2>2, <2>3 DEF BornOK, Traces
<1> QED
  BY <1>1, <1>2 DEF Transparent

\* As long as no io::Error with a payload has a kind of its own: an error has the
\* kind and the payload it was made with however it was wrapped and converted, the
\* payload is found under its type alone, and one backtrace was taken if any.
THEOREM ErrorsTransparent == ASSUME ~KindedIo PROVE ErrorSpec => []Transparent
<1>1. BornInv /\ [ErrorNext]_evars => BornInv'
  BY BornStep
<1>2. ErrorSpec => []BornInv
  BY <1>1, BornInitInv, PTL DEF ErrorSpec
<1> QED
  BY <1>2, BornInvExact, PTL

-----------------------------------------------------------------------------
(* IoBytes: numbers as digits, lengths of buffers *)

\* A recursive definition over 0..n whose step is a function of numbers has a solution there.
LEMMA Solution ==
  ASSUME NEW n \in Nat, NEW x0 \in Nat, NEW G \in [1..n -> [Nat -> Nat]]
  PROVE  \E f \in [0..n -> Nat] : f[0] = x0 /\ \A i \in 1..n : f[i] = G[i][f[i - 1]]
<1> DEFINE Solves(f, m) == f \in [0..m -> Nat] /\ f[0] = x0 /\ \A i \in 1..m : f[i] = G[i][f[i - 1]]
           S == {m \in Nat : m <= n => \E f : Solves(f, m)}
<1>1. 0 \in S
  <2>1. Solves([i \in 0..0 |-> x0], 0)
    OBVIOUS
  <2> QED
    BY <2>1
<1>2. ASSUME NEW m \in S PROVE m + 1 \in S
  <2>1. m \in Nat /\ m + 1 \in Nat
    OBVIOUS
  <2> SUFFICES ASSUME m + 1 <= n PROVE \E g : Solves(g, m + 1)
    BY <2>1, Zenon
  <2>2. m <= n /\ m + 1 \in 1..n
    BY <2>1
  <2>3. PICK f : Solves(f, m)
    BY <2>2
  <2> DEFINE a == G[m + 1][f[m]]
             g == [i \in 0..(m + 1) |-> IF i = m + 1 THEN a ELSE f[i]]
  <2>4. a \in Nat
    BY <2>1, <2>2, <2>3
  <2> HIDE DEF a
  <2>a. 0 \in 0..(m + 1) /\ 0 # m + 1 /\ \A i \in 0..(m + 1) : i = m + 1 \/ i \in 0..m
    <3>1. \A k \in Nat : 0 \in 0..(k + 1) /\ 0 # k + 1
      OBVIOUS
    <3>2. \A k \in Nat : \A i \in 0..(k + 1) : i = k + 1 \/ i \in 0..k
      OBVIOUS
    <3> QED
      BY <2>1, <3>1, <3>2, Zenon
  <2>b. \A i \in 1..(m + 1) : i # m + 1 =>
           /\ i \in 1..m /\ i \in 0..(m + 1)
           /\ i - 1 \in 0..(m + 1) /\ i - 1 # m + 1
    BY <2>1
  <2>5. g \in [0..(m + 1) -> Nat] /\ g[0] = x0
    <3>1. f \in [0..m -> Nat] /\ f[0] = x0
      BY <2>3
    <3> QED
      BY <2>4, <2>a, <3>1
  <2>6. ASSUME NEW i \in 1..(m + 1) PROVE g[i] = G[i][g[i - 1]]
    <3>1. CASE i = m + 1
      <4>1. g[i] = a /\ g[i - 1] = f[m]
        BY <2>1, <3>1
      <4> QED
        BY <3>1, <4>1 DEF a
    <3>2. CASE i # m + 1
      <4>1. i \in 1..m /\ g[i] = f[i] /\ g[i - 1] = f[i - 1]
        BY <2>b, <3>2
      <4> QED
        BY <2>3, <4>1
    <3> QED
      BY <3>1, <3>2
  <2>7. Solves(g, m + 1)
    BY <2>5, <2>6
  <2> QED
    BY <2>7
<1>3. n \in S
  <2> HIDE DEF S
  <2>1. S \in SUBSET Nat
    BY DEF S
  <2> QED
    BY <1>1, <1>2, <2>1, Induction
<1>4. \E f : Solves(f, n)
  <2>1. n <= n
    OBVIOUS
  <2> QED
    BY <1>3, <2>1
<1>5. PICK f : Solves(f, n)
  BY <1>4
<1>6. f \in [0..n -> Nat] /\ f[0] = x0 /\ \A i \in 1..n : f[i] = G[i][f[i - 1]]
  BY <1>5
<1> QED
  BY <1>6

\* What is computed step by step within A stays in A.
LEMMA StaysIn ==
  ASSUME NEW A, NEW n \in Nat, NEW f, f[0] \in A, \A i \in 1..n : f[i - 1] \in A => f[i] \in A
  PROVE  \A i \in 0..n : f[i] \in A
<1> DEFINE S == {m \in Nat : m <= n => f[m] \in A}
<1>1. 0 \in S
  OBVIOUS
<1>2. ASSUME NEW m \in S PROVE m + 1 \in S
  <2> SUFFICES ASSUME m + 1 <= n PROVE f[m + 1] \in A
    OBVIOUS
  <2>1. m <= n /\ m + 1 \in 1..n /\ (m + 1) - 1 = m
    OBVIOUS
  <2> QED
    BY <2>1
<1>3. \A m \in Nat : m \in S
  <2> HIDE DEF S
  <2>1. S \in SUBSET Nat
    BY DEF S
  <2> QED
    BY <1>1, <1>2, <2>1, Induction
<1> QED
  BY <1>3

\* The numbers that each more digit makes.
HornerFun(h, b, s) == CHOOSE v : v = [i \in 0..Len(s) |-> IF i = 0 THEN h ELSE v[i - 1] * b + s[i]]

\* The last of them is the number.
LEMMA HornerAt == \A h, b, s : Horner(h, b, s) = HornerFun(h, b, s)[Len(s)]
  BY DEF Horner, HornerFun

\* They start with what is before the digits and take one after the other.
LEMMA HornerIs ==
  ASSUME NEW s \in Seq(Nat), NEW x0 \in Nat, NEW b \in Nat
  PROVE  /\ \A i \in 0..Len(s) : HornerFun(x0, b, s)[i] \in Nat
         /\ HornerFun(x0, b, s)[0] = x0
         /\ \A i \in 1..Len(s) : HornerFun(x0, b, s)[i] = HornerFun(x0, b, s)[i - 1] * b + s[i]
<1> DEFINE n == Len(s)
           G == [i \in 1..n |-> [a \in Nat |-> a * b + s[i]]]
           Is(f) == f = [i \in 0..n |-> IF i = 0 THEN x0 ELSE f[i - 1] * b + s[i]]
           p == HornerFun(x0, b, s)
<1>0. n \in Nat /\ \A i \in 1..n : s[i] \in Nat
  OBVIOUS
<1>a. \A a, c, d \in Nat : a * c + d \in Nat
  OBVIOUS
<1>1. p = CHOOSE f : Is(f)
  BY DEF HornerFun
<1> HIDE DEF n, p
<1>2. G \in [1..n -> [Nat -> Nat]]
  BY <1>0, <1>a
<1>3. \A i \in 1..n : \A a \in Nat : G[i][a] = a * b + s[i]
  OBVIOUS
<1> HIDE DEF G
<1>4. PICK f \in [0..n -> Nat] : f[0] = x0 /\ \A i \in 1..n : f[i] = G[i][f[i - 1]]
  BY <1>0, <1>2, Solution
<1>5. \A i \in 0..n : f[i] = IF i = 0 THEN x0 ELSE f[i - 1] * b + s[i]
  <2>1. \A i \in 0..n : i = 0 \/ (i \in 1..n /\ i - 1 \in 0..n)
    BY <1>0
  <2> QED
    BY <1>3, <1>4, <2>1
<1>6. Is(f)
  BY <1>4, <1>5
<1>7. Is(p)
  BY <1>1, <1>6
<1>8. p[0] = x0 /\ \A i \in 1..n : p[i] = p[i - 1] * b + s[i]
  <2>1. \A i \in 0..n : p[i] = IF i = 0 THEN x0 ELSE p[i - 1] * b + s[i]
    BY <1>7
  <2>2. 0 \in 0..n /\ \A i \in 1..n : i \in 0..n /\ i # 0
    BY <1>0
  <2> QED
    BY <2>1, <2>2
<1>9. ASSUME NEW i \in 1..n, p[i - 1] \in Nat PROVE p[i] \in Nat
  BY <1>0, <1>8, <1>9, <1>a
<1>10. \A i \in 0..n : p[i] \in Nat
  <2>1. p[0] \in Nat
    BY <1>8
  <2> QED
    BY <1>0, <1>9, <2>1, StaysIn, Zenon
<1> QED
  BY <1>8, <1>10 DEF n, p

\* Where a digit joins.
LEMMA HornerJoin ==
  ASSUME NEW x0 \in Nat, NEW b \in Nat, NEW s \in Seq(Nat), NEW d \in Nat
  PROVE  Horner(x0, b, s \o <<d>>) = Horner(x0, b, s) * b + d
<1> DEFINE n == Len(s)
           u == s \o <<d>>
           f == HornerFun(x0, b, s)
           g == HornerFun(x0, b, u)
<1>0. /\ n \in Nat /\ u \in Seq(Nat) /\ Len(u) = n + 1 /\ u[n + 1] = d
      /\ \A i \in 1..n : u[i] = s[i]
  OBVIOUS
<1>1. f[0] = x0 /\ \A i \in 1..n : f[i] = f[i - 1] * b + s[i]
  BY HornerIs
<1>2. g[0] = x0 /\ \A i \in 1..(n + 1) : g[i] = g[i - 1] * b + u[i]
  <2> HIDE DEF u, n
  <2>1. /\ HornerFun(x0, b, u)[0] = x0
        /\ \A i \in 1..Len(u) : HornerFun(x0, b, u)[i] = HornerFun(x0, b, u)[i - 1] * b + u[i]
    BY <1>0, HornerIs
  <2> QED
    BY <1>0, <2>1
<1>3. Horner(x0, b, s) = f[n] /\ Horner(x0, b, u) = g[n + 1]
  BY <1>0, HornerAt
<1> HIDE DEF n, u, f, g
<1>4. \A i \in 0..n : g[i] \in {f[i]}
  <2> DEFINE S == {m \in Nat : m <= n => g[m] = f[m]}
  <2>1. 0 \in S
    BY <1>1, <1>2
  <2>2. ASSUME NEW m \in S PROVE m + 1 \in S
    <3> SUFFICES ASSUME m + 1 <= n PROVE g[m + 1] = f[m + 1]
      OBVIOUS
    <3>1. m <= n /\ m + 1 \in 1..n /\ m + 1 \in 1..(n + 1) /\ (m + 1) - 1 = m
      BY <1>0
    <3>2. g[m] = f[m]
      BY <3>1
    <3>3. g[m + 1] = g[(m + 1) - 1] * b + u[m + 1] /\ f[m + 1] = f[(m + 1) - 1] * b + s[m + 1]
      BY <1>1, <1>2, <3>1
    <3> QED
      BY <1>0, <3>1, <3>2, <3>3, Zenon
  <2>3. \A m \in Nat : m \in S
    <3> HIDE DEF S
    <3>1. S \in SUBSET Nat
      BY DEF S
    <3> QED
      BY <2>1, <2>2, <3>1, Induction
  <2> QED
    BY <1>0, <2>3
<1>5. n \in 0..n /\ n + 1 \in 1..(n + 1) /\ (n + 1) - 1 = n
  BY <1>0
<1>6. g[n + 1] = g[n] * b + d
  BY <1>0, <1>2, <1>5, Zenon
<1> QED
  BY <1>3, <1>4, <1>5, <1>6 DEF u

\* The same for bytes.
LEMMA JoinBe ==
  ASSUME NEW b \in Nat, NEW s \in Seq(Nat), NEW d \in Nat
  PROVE  FromBe(b, s \o <<d>>) = FromBe(b, s) * b + d
<1>1. 0 \in Nat
  OBVIOUS
<1> QED
  BY <1>1, HornerJoin DEF FromBe

\* Where there is no digit.
LEMMA HornerNone == ASSUME NEW x0 \in Nat, NEW b \in Nat PROVE Horner(x0, b, <<>>) = x0
<1>1. <<>> \in Seq(Nat) /\ Len(<<>>) = 0
  OBVIOUS
<1>2. HornerFun(x0, b, <<>>)[0] = x0
  BY <1>1, HornerIs
<1> QED
  BY <1>1, <1>2, HornerAt

\* It is a number.
LEMMA HornerNat ==
  ASSUME NEW x0 \in Nat, NEW b \in Nat, NEW s \in Seq(Nat)
  PROVE  Horner(x0, b, s) \in Nat
<1>1. Len(s) \in 0..Len(s)
  OBVIOUS
<1> QED
  BY <1>1, HornerAt, HornerIs

\* Induction over sequences of numbers, by their length.
LEMMA SeqInduction ==
  ASSUME NEW D, NEW T \in SUBSET Seq(D), <<>> \in T, \A s \in T : \A d \in D : s \o <<d>> \in T
  PROVE  T = Seq(D)
<1> DEFINE S == {n \in Nat : \A s \in Seq(D) : Len(s) = n => s \in T}
<1>1. 0 \in S
  <2>1. \A s \in Seq(D) : Len(s) = 0 => s = <<>>
    OBVIOUS
  <2> QED
    BY <2>1
<1>2. ASSUME NEW m \in S PROVE m + 1 \in S
  <2> SUFFICES ASSUME NEW s \in Seq(D), Len(s) = m + 1 PROVE s \in T
    OBVIOUS
  <2>1. m \in Nat
    OBVIOUS
  <2> DEFINE u == SubSeq(s, 1, m)
  <2>2. u \in Seq(D) /\ Len(u) = m /\ s[m + 1] \in D
    BY <2>1
  <2>3. s = u \o <<s[m + 1]>>
    BY <2>1
  <2>4. u \in T
    BY <2>2
  <2> QED
    BY <2>2, <2>3, <2>4, Zenon
<1>3. \A m \in Nat : m \in S
  <2> HIDE DEF S
  <2>1. S \in SUBSET Nat
    BY DEF S
  <2> QED
    BY <1>1, <1>2, <2>1, Induction
<1>4. \A s \in Seq(D) : Len(s) \in Nat /\ Len(s) \in S => s \in T
  OBVIOUS
<1>5. \A s \in Seq(D) : Len(s) \in Nat
  OBVIOUS
<1> HIDE DEF S
<1> QED
  BY <1>3, <1>4, <1>5

\* One number behind the other.
LEMMA HornerConcat ==
  ASSUME NEW x0 \in Nat, NEW b \in Nat, NEW p \in Seq(Nat), NEW q \in Seq(Nat)
  PROVE  Horner(x0, b, p \o q) = Horner(Horner(x0, b, p), b, q)
<1> DEFINE y0 == Horner(x0, b, p)
           T == {s \in Seq(Nat) : Horner(x0, b, p \o s) = Horner(y0, b, s)}
<1>1. y0 \in Nat
  BY HornerNat
<1>2. <<>> \in T
  <2>1. p \o <<>> = p /\ <<>> \in Seq(Nat)
    OBVIOUS
  <2> QED
    BY <1>1, <2>1, HornerNone
<1> HIDE DEF y0
<1>3. ASSUME NEW s \in T, NEW d \in Nat PROVE s \o <<d>> \in T
  <2>1. p \o (s \o <<d>>) = (p \o s) \o <<d>> /\ p \o s \in Seq(Nat) /\ s \o <<d>> \in Seq(Nat)
    OBVIOUS
  <2>2. Horner(x0, b, (p \o s) \o <<d>>) = Horner(x0, b, p \o s) * b + d
    BY <2>1, HornerJoin
  <2>3. Horner(y0, b, s \o <<d>>) = Horner(y0, b, s) * b + d
    BY <1>1, HornerJoin
  <2> QED
    BY <2>1, <2>2, <2>3
<1>4. q \in T
  <2> HIDE DEF T
  <2>1. T \in SUBSET Seq(Nat)
    BY DEF T
  <2> QED
    BY <1>2, <1>3, <2>1, SeqInduction, Zenon
<1> QED
  BY <1>4 DEF y0

\* Powers by their exponents.
LEMMA PowerIs ==
  ASSUME NEW b \in Nat
  PROVE  /\ Power(b, 0) = 1
         /\ \A n \in Nat : Power(b, n) \in Nat /\ Power(b, n + 1) = Power(b, n) * b
<1> DEFINE z(n) == [i \in 1..n |-> 0]
<1>1. \A n \in Nat : z(n) \in Seq(Nat) /\ z(n + 1) = z(n) \o <<0>>
  <2> TAKE n \in Nat
  <2>1. z(n) \in Seq(Nat) /\ Len(z(n)) = n /\ z(n + 1) \in Seq(Nat) /\ Len(z(n + 1)) = n + 1
    OBVIOUS
  <2>2. \A i \in 1..n : z(n)[i] = 0
    OBVIOUS
  <2>3. \A i \in 1..(n + 1) : z(n + 1)[i] = 0
    OBVIOUS
  <2> HIDE DEF z
  <2>4. z(n) \o <<0>> \in Seq(Nat) /\ Len(z(n) \o <<0>>) = n + 1 /\ \A i \in 1..(n + 1) : (z(n) \o <<0>>)[i] = 0
    BY <2>1, <2>2
  <2> QED
    BY <2>1, <2>3, <2>4, SeqEqual
<1>2. z(0) = <<>>
  OBVIOUS
<1>3. \A n : Power(b, n) = Horner(1, b, z(n))
  BY DEF Power
<1> HIDE DEF z
<1>4. Power(b, 0) = 1
  BY <1>2, <1>3, HornerNone
<1>5. ASSUME NEW n \in Nat PROVE Power(b, n) \in Nat /\ Power(b, n + 1) = Power(b, n) * b
  <2>1. Horner(1, b, z(n) \o <<0>>) = Horner(1, b, z(n)) * b + 0
    <3>1. 1 \in Nat /\ 0 \in Nat /\ z(n) \in Seq(Nat)
      BY <1>1
    <3> QED
      BY <3>1, HornerJoin
  <2>2. Horner(1, b, z(n)) \in Nat
    BY <1>1, HornerNat
  <2>3. \A k \in Nat : k * b + 0 = k * b
    OBVIOUS
  <2> QED
    BY <1>1, <1>3, <2>1, <2>2, <2>3
<1> QED
  BY <1>4, <1>5

\* The value of digits behind a number.
LEMMA HornerShift ==
  ASSUME NEW x0 \in Nat, NEW b \in Nat, NEW q \in Seq(Nat)
  PROVE  Horner(x0, b, q) = x0 * Power(b, Len(q)) + FromBe(b, q)
<1> DEFINE T == {s \in Seq(Nat) : Horner(x0, b, s) = x0 * Power(b, Len(s)) + FromBe(b, s)}
<1>1. <<>> \in T
  <2>1. <<>> \in Seq(Nat) /\ Len(<<>>) = 0
    OBVIOUS
  <2>2. x0 = x0 * 1 + 0
    OBVIOUS
  <2> QED
    BY <2>1, <2>2, HornerNone, PowerIs DEF FromBe
<1>2. ASSUME NEW s \in T, NEW d \in Nat PROVE s \o <<d>> \in T
  <2>1. s \in Seq(Nat) /\ s \o <<d>> \in Seq(Nat) /\ Len(s) \in Nat /\ Len(s \o <<d>>) = Len(s) + 1
    OBVIOUS
  <2>2. Horner(x0, b, s \o <<d>>) = Horner(x0, b, s) * b + d /\ FromBe(b, s \o <<d>>) = FromBe(b, s) * b + d
    BY <2>1, HornerJoin DEF FromBe
  <2>3. Power(b, Len(s)) \in Nat /\ Power(b, Len(s \o <<d>>)) = Power(b, Len(s)) * b /\ FromBe(b, s) \in Nat
    BY <2>1, PowerIs, HornerNat DEF FromBe
  <2>4. \A u, v, w, c \in Nat : (u * v + w) * c + d = u * (v * c) + (w * c + d)
    OBVIOUS
  <2>5. Horner(x0, b, s) = x0 * Power(b, Len(s)) + FromBe(b, s)
    OBVIOUS
  <2> QED
    BY <2>1, <2>2, <2>3, <2>4, <2>5
<1>3. q \in T
  <2> HIDE DEF T
  <2>1. T \in SUBSET Seq(Nat)
    BY DEF T
  <2> QED
    BY <1>1, <1>2, <2>1, SeqInduction, Zenon
<1> QED
  BY <1>3

\* Digits below the base make a number below its power.
LEMMA HornerBelow ==
  ASSUME NEW b \in Nat, NEW q \in Seq(0..(b - 1))
  PROVE  FromBe(b, q) \in Nat /\ FromBe(b, q) < Power(b, Len(q))
<1> DEFINE D == 0..(b - 1)
           T == {s \in Seq(D) : FromBe(b, s) \in Nat /\ FromBe(b, s) < Power(b, Len(s))}
<1>1. <<>> \in T
  <2>1. <<>> \in Seq(D) /\ Len(<<>>) = 0
    OBVIOUS
  <2>2. FromBe(b, <<>>) = 0 /\ Power(b, 0) = 1
    BY HornerNone, PowerIs DEF FromBe
  <2> QED
    BY <2>1, <2>2
<1>2. ASSUME NEW s \in T, NEW d \in D PROVE s \o <<d>> \in T
  <2>1. s \in Seq(D) /\ s \o <<d>> \in Seq(D) /\ Len(s) \in Nat /\ Len(s \o <<d>>) = Len(s) + 1
    OBVIOUS
  <2>2. s \in Seq(Nat) /\ d \in Nat /\ d < b
    OBVIOUS
  <2>3. FromBe(b, s \o <<d>>) = FromBe(b, s) * b + d
    BY <2>2, HornerJoin DEF FromBe
  <2>4. Power(b, Len(s)) \in Nat /\ Power(b, Len(s \o <<d>>)) = Power(b, Len(s)) * b /\ FromBe(b, s) \in Nat
        /\ FromBe(b, s) < Power(b, Len(s))
    BY <2>1, PowerIs
  <2>5. \A u, v \in Nat : u < v => u * b + d \in Nat /\ u * b + d < v * b
    <3> SUFFICES ASSUME NEW u \in Nat, NEW v \in Nat, u < v PROVE u * b + d \in Nat /\ u * b + d < v * b
      OBVIOUS
    <3>1. PICK w \in Nat : v = u + 1 + w
      <4>1. v - u - 1 \in Nat /\ v = u + 1 + (v - u - 1)
        OBVIOUS
      <4> QED
        BY <4>1
    <3>2. v * b = u * b + b + w * b
      BY <3>1
    <3>3. u * b \in Nat /\ w * b \in Nat
      OBVIOUS
    <3>4. \A k, l, e \in Nat : e = k + b + l => k + d \in Nat /\ k + d < e
      BY <2>2
    <3>5. v * b \in Nat
      OBVIOUS
    <3> QED
      BY <3>2, <3>3, <3>4, <3>5, Zenon
  <2> HIDE DEF D
  <2> QED
    BY <2>1, <2>3, <2>4, <2>5
<1>3. q \in T
  <2> HIDE DEF T, D
  <2>1. T \in SUBSET Seq(D)
    BY DEF T
  <2>2. q \in Seq(D)
    BY DEF D
  <2> QED
    BY <1>1, <1>2, <2>1, <2>2, SeqInduction, Zenon
<1> QED
  BY <1>3

\* Quotient and remainder are what they are.
LEMMA DivMod ==
  ASSUME NEW m \in Nat, NEW t \in Nat, NEW v \in Nat, v < m
  PROVE  (t * m + v) \div m = t /\ (t * m + v) % m = v
<1> DEFINE n == t * m + v
           e == n \div m
           r == n % m
<1>1. n \in Nat /\ m > 0
  OBVIOUS
<1>2. \A k \in Nat : k = m * (k \div m) + (k % m) /\ k \div m \in Nat /\ k % m \in Nat /\ k % m < m
  BY <1>1
<1>3. n = m * e + r /\ e \in Nat /\ r \in Nat /\ r < m
  BY <1>1, <1>2
<1>4. n = t * m + v
  OBVIOUS
<1> HIDE DEF n, e, r
<1>5. \A a, c \in Nat : a < c => a * m + m <= c * m
  <2> SUFFICES ASSUME NEW a \in Nat, NEW c \in Nat, a < c PROVE a * m + m <= c * m
    OBVIOUS
  <2>1. PICK w \in Nat : c = a + 1 + w
    <3>1. c - a - 1 \in Nat /\ c = a + 1 + (c - a - 1)
      OBVIOUS
    <3> QED
      BY <3>1
  <2>2. c * m = a * m + m + w * m /\ w * m \in Nat /\ a * m \in Nat
    BY <2>1
  <2> QED
    BY <2>2
<1>6. m * e = e * m /\ e * m \in Nat /\ t * m \in Nat
  BY <1>3
<1>7. e = t
  <2>1. ~(e < t)
    <3> SUFFICES ASSUME e < t PROVE FALSE
      OBVIOUS
    <3>1. e * m + m <= t * m
      BY <1>3, <1>5
    <3> QED
      BY <1>3, <1>4, <1>6, <3>1
  <2>2. ~(t < e)
    <3> SUFFICES ASSUME t < e PROVE FALSE
      OBVIOUS
    <3>1. t * m + m <= e * m
      BY <1>3, <1>5
    <3> QED
      BY <1>3, <1>4, <1>6, <3>1
  <2> QED
    BY <1>3, <2>1, <2>2
<1>8. r = v
  BY <1>3, <1>4, <1>6, <1>7
<1> QED
  BY <1>7, <1>8 DEF n, e, r

\* A power of a base is not zero.
LEMMA PowerPositive == ASSUME NEW b \in Nat \ {0}, NEW n \in Nat PROVE Power(b, n) \in Nat \ {0}
<1> DEFINE S == {k \in Nat : Power(b, k) \in Nat \ {0}}
<1>1. 0 \in S
  BY PowerIs
<1>2. ASSUME NEW k \in S PROVE k + 1 \in S
  <2>1. Power(b, k + 1) = Power(b, k) * b
    BY PowerIs
  <2>2. \A u \in Nat \ {0} : u * b \in Nat \ {0}
    OBVIOUS
  <2> QED
    BY <2>1, <2>2
<1>3. n \in S
  <2> HIDE DEF S
  <2>1. S \in SUBSET Nat
    BY DEF S
  <2> QED
    BY <1>1, <1>2, <2>1, Induction
<1> QED
  BY <1>3

\* Division by one factor after the other.
LEMMA DivDiv ==
  ASSUME NEW b \in Nat \ {0}, NEW c \in Nat \ {0}, NEW n \in Nat
  PROVE  n \div (c * b) = (n \div c) \div b
<1>1. \A m \in Nat \ {0}, k \in Nat : k = m * (k \div m) + (k % m) /\ k \div m \in Nat /\ k % m \in Nat /\ k % m < m
  OBVIOUS
<1>2. PICK q \in Nat, r \in Nat : q = n \div c /\ n = c * q + r /\ r < c
  BY <1>1
<1>3. PICK t \in Nat, u \in Nat : t = q \div b /\ q = b * t + u /\ u < b
  BY <1>1
<1>4. c * u + r < c * b /\ c * u + r \in Nat
  <2>1. PICK w \in Nat : b = u + 1 + w
    <3>1. b - u - 1 \in Nat /\ b = u + 1 + (b - u - 1)
      BY <1>3
    <3> QED
      BY <3>1
  <2>2. c * b = c * u + c + c * w
    BY <2>1
  <2>3. c * u \in Nat /\ c * w \in Nat /\ c * b \in Nat
    OBVIOUS
  <2>4. \A k, l, e \in Nat : e = k + c + l => k + r < e /\ k + r \in Nat
    BY <1>2
  <2> QED
    BY <2>2, <2>3, <2>4, Zenon
<1>5. n = t * (c * b) + (c * u + r)
  <2>1. \A k, l, m \in Nat : c * (b * k + l) + m = k * (c * b) + (c * l + m)
    OBVIOUS
  <2> QED
    <3>1. b \in Nat /\ c \in Nat /\ n = c * q + r /\ q = b * t + u
      BY <1>2, <1>3
    <3>2. c * (b * t + u) + r = t * (c * b) + (c * u + r)
      BY <2>1
    <3> QED
      BY <3>1, <3>2
<1>6. c * b \in Nat
  OBVIOUS
<1>7. n \div (c * b) = t
  BY <1>4, <1>5, <1>6, DivMod
<1> QED
  BY <1>2, <1>3, <1>7

\* The digits of a number, the most significant first.
LEMMA IntoBe ==
  ASSUME NEW b \in Nat \ {0}, NEW w \in Nat, NEW n \in Nat, n < Power(b, w)
  PROVE  /\ IntoBytes(b, w, n, FALSE) \in Seq(Nat) /\ Len(IntoBytes(b, w, n, FALSE)) = w
         /\ FromBe(b, IntoBytes(b, w, n, FALSE)) = n
<1> DEFINE B == IntoBytes(b, w, n, FALSE)
           S == {j \in Nat : j <= w => FromBe(b, SubSeq(B, 1, j)) = n \div Power(b, w - j)}
<1>1. B = [i \in 1..w |-> (n \div Power(b, w - i)) % b]
  BY DEF IntoBytes
<1>2. \A i \in 1..w : (n \div Power(b, w - i)) \in Nat /\ (n \div Power(b, w - i)) % b \in Nat
  <2> TAKE i \in 1..w
  <2>1. w - i \in Nat
    OBVIOUS
  <2>2. Power(b, w - i) \in Nat \ {0}
    BY <2>1, PowerPositive
  <2>3. \A m \in Nat \ {0} : n \div m \in Nat /\ (n \div m) % b \in Nat
    OBVIOUS
  <2> QED
    BY <2>2, <2>3
<1> HIDE DEF B
<1>3. B \in Seq(Nat) /\ Len(B) = w /\ \A i \in 1..w : B[i] = (n \div Power(b, w - i)) % b
  BY <1>1, <1>2
<1>4. 0 \in S
  <2>1. SubSeq(B, 1, 0) = <<>>
    BY <1>3
  <2>2. FromBe(b, <<>>) = 0
    BY HornerNone DEF FromBe
  <2>3. Power(b, w) \in Nat /\ w - 0 = w
    BY PowerIs
  <2>4. n = 0 * Power(b, w) + n
    BY <2>3
  <2>5. n \div Power(b, w) = 0
    BY <2>3, <2>4, DivMod
  <2> QED
    BY <2>1, <2>2, <2>3, <2>5
<1>5. ASSUME NEW j \in S PROVE j + 1 \in S
  <2> SUFFICES ASSUME j + 1 <= w PROVE FromBe(b, SubSeq(B, 1, j + 1)) = n \div Power(b, w - (j + 1))
    OBVIOUS
  <2>1. j \in Nat /\ j <= w /\ j + 1 \in 1..w
    OBVIOUS
  <2>2. FromBe(b, SubSeq(B, 1, j)) = n \div Power(b, w - j)
    BY <2>1
  <2> DEFINE u == SubSeq(B, 1, j)
             k == w - (j + 1)
  <2>3. SubSeq(B, 1, j + 1) = u \o <<B[j + 1]>> /\ u \in Seq(Nat) /\ B[j + 1] \in Nat
    BY <1>3, <2>1
  <2>4. k \in Nat /\ w - j = k + 1
    BY <2>1
  <2>5. FromBe(b, SubSeq(B, 1, j + 1)) = FromBe(b, u) * b + B[j + 1]
    BY <2>3, JoinBe
  <2>6. B[j + 1] = (n \div Power(b, k)) % b
    BY <1>3, <2>1
  <2> HIDE DEF u, k
  <2>7. Power(b, k) \in Nat \ {0} /\ Power(b, k + 1) = Power(b, k) * b
    BY <2>4, PowerPositive, PowerIs
  <2>8. n \div (Power(b, k) * b) = (n \div Power(b, k)) \div b
    BY <2>7, DivDiv
  <2>9. \A m \in Nat \ {0} : n \div m \in Nat
    OBVIOUS
  <2>10. \A q \in Nat : (q \div b) * b + (q % b) = q
    OBVIOUS
  <2>11. n \div Power(b, k) \in Nat
    BY <2>7, <2>9
  <2>12. FromBe(b, u) = (n \div Power(b, k)) \div b
    BY <2>2, <2>4, <2>7, <2>8 DEF u
  <2> QED
    BY <2>5, <2>6, <2>10, <2>11, <2>12 DEF k
<1>6. w \in S
  <2> HIDE DEF S
  <2>1. S \in SUBSET Nat
    BY DEF S
  <2> QED
    BY <1>4, <1>5, <2>1, Induction
<1>7. FromBe(b, SubSeq(B, 1, w)) = n \div Power(b, w - w)
  BY <1>6
<1>8. SubSeq(B, 1, w) = B /\ w - w = 0
  BY <1>3, SubSeqFull
<1>9. n \div 1 = n
  OBVIOUS
<1> QED
  BY <1>3, <1>7, <1>8, <1>9, PowerIs DEF B

\* The least significant first are these, backwards.
LEMMA IntoLe ==
  ASSUME NEW b \in Nat \ {0}, NEW w \in Nat, NEW n \in Nat, n < Power(b, w)
  PROVE  /\ IntoBytes(b, w, n, TRUE) \in Seq(Nat) /\ Len(IntoBytes(b, w, n, TRUE)) = w
         /\ FromLe(b, IntoBytes(b, w, n, TRUE)) = n
<1> DEFINE B == IntoBytes(b, w, n, FALSE)
           C == IntoBytes(b, w, n, TRUE)
<1>1. C = [i \in 1..w |-> (n \div Power(b, i - 1)) % b] /\ B = [i \in 1..w |-> (n \div Power(b, w - i)) % b]
  BY DEF IntoBytes
<1>2. B \in Seq(Nat) /\ Len(B) = w /\ FromBe(b, B) = n
  BY IntoBe
<1> HIDE DEF B, C
<1>3. \A i \in 1..w : B[i] \in Nat
  BY <1>2
<1>4. \A i \in 1..w : (w - i) + 1 \in 1..w /\ ((w - i) + 1) - 1 = w - i /\ w - ((w - i) + 1) = i - 1
  OBVIOUS
<1>5. \A i \in 1..w : C[i] = B[(w - i) + 1] /\ C[(w - i) + 1] = B[i]
  BY <1>1, <1>4
<1>6. C \in Seq(Nat) /\ Len(C) = w
  <2>1. C \in [1..w -> Nat]
    BY <1>1, <1>3, <1>4, <1>5
  <2> QED
    BY <2>1
<1>7. Reverse(C) = [i \in 1..w |-> C[(w - i) + 1]]
  BY <1>6 DEF Reverse
<1>8. Reverse(C) = B
  BY <1>1, <1>5, <1>7
<1> QED
  BY <1>2, <1>6, <1>8 DEF FromLe, B, C

\* A set of numbers below a bound has a last one.
LEMMA LastOf ==
  ASSUME NEW n \in Nat, NEW R \in SUBSET (0..n), R # {}
  PROVE  \E r \in R : \A q \in R : q <= r
<1>1. SUFFICES ASSUME \A r \in R : \E q \in R : r < q PROVE FALSE
  OBVIOUS
<1> DEFINE T == {k \in Nat : k <= n => \A q \in R : q <= n - k}
<1>2. 0 \in T
  OBVIOUS
<1>3. ASSUME NEW k \in T PROVE k + 1 \in T
  <2> SUFFICES ASSUME k + 1 <= n, NEW q \in R PROVE q <= n - (k + 1)
    OBVIOUS
  <2>1. k \in Nat /\ k <= n /\ q \in Nat
    OBVIOUS
  <2>2. PICK p \in R : q < p
    BY <1>1
  <2>3. p <= n - k /\ p \in Nat
    BY <2>1
  <2> QED
    BY <2>1, <2>2, <2>3
<1>4. n \in T
  <2> HIDE DEF T
  <2>1. T \in SUBSET Nat
    BY DEF T
  <2> QED
    BY <1>2, <1>3, <2>1, Induction
<1>5. PICK r \in R : TRUE
  OBVIOUS
<1>6. PICK q \in R : r < q
  BY <1>1
<1>7. q <= n - n /\ q \in Nat /\ r \in Nat
  BY <1>4
<1> QED
  BY <1>6, <1>7

\* Lengths add up.
LEMMA TotalIs ==
  /\ Total(<<>>) = 0
  /\ \A v \in Seq(Nat) : Total(v) \in Nat
  /\ \A a \in Nat : Total(<<a>>) = a
  /\ \A v, u \in Seq(Nat) : Total(v \o u) = Total(v) + Total(u)
<1>0. 0 \in Nat /\ 1 \in Nat /\ <<>> \in Seq(Nat)
  OBVIOUS
<1>1. Total(<<>>) = 0
  BY <1>0, HornerNone DEF Total
<1>2. \A v \in Seq(Nat) : Total(v) \in Nat
  BY <1>0, HornerNat DEF Total
<1>3. \A k \in Nat : Power(1, k) = 1
  <2> DEFINE S == {k \in Nat : Power(1, k) = 1}
  <2>1. 0 \in S
    BY <1>0, PowerIs
  <2>2. ASSUME NEW k \in S PROVE k + 1 \in S
    <3>1. Power(1, k + 1) = Power(1, k) * 1
      BY <1>0, PowerIs
    <3> QED
      BY <3>1
  <2> HIDE DEF S
  <2>3. S \in SUBSET Nat
    BY DEF S
  <2>4. \A k \in Nat : k \in S
    BY <2>1, <2>2, <2>3, Induction
  <2> QED
    BY <2>4 DEF S
<1>4. ASSUME NEW v \in Seq(Nat), NEW u \in Seq(Nat) PROVE Total(v \o u) = Total(v) + Total(u)
  <2>1. Total(v \o u) = Horner(Total(v), 1, u)
    BY <1>0, HornerConcat DEF Total
  <2>2. Horner(Total(v), 1, u) = Total(v) * Power(1, Len(u)) + FromBe(1, u)
    BY <1>0, <1>2, HornerShift
  <2>3. FromBe(1, u) = Total(u) /\ Len(u) \in Nat
    BY DEF FromBe, Total
  <2>4. \A k, l \in Nat : k * 1 + l = k + l
    OBVIOUS
  <2> QED
    BY <1>2, <1>3, <2>1, <2>2, <2>3, <2>4
<1>5. ASSUME NEW a \in Nat PROVE Total(<<a>>) = a
  <2>1. <<>> \o <<a>> = <<a>>
    OBVIOUS
  <2>2. Horner(0, 1, <<>> \o <<a>>) = Horner(0, 1, <<>>) * 1 + a
    BY <1>0, HornerJoin
  <2>3. 0 * 1 + a = a
    OBVIOUS
  <2> QED
    BY <1>1, <2>1, <2>2, <2>3 DEF Total
<1> QED
  BY <1>1, <1>2, <1>4, <1>5

\* A sequence is what is before a place and what is behind it.
LEMMA Cut ==
  ASSUME NEW D, NEW v \in Seq(D), NEW r \in 0..Len(v)
  PROVE  /\ SubSeq(v, 1, r) \in Seq(D) /\ SubSeq(v, r + 1, Len(v)) \in Seq(D)
         /\ Len(SubSeq(v, 1, r)) = r /\ Len(SubSeq(v, r + 1, Len(v))) = Len(v) - r
         /\ SubSeq(v, 1, r) \o SubSeq(v, r + 1, Len(v)) = v
<1>1. 1 \in 1..(Len(v) + 1) /\ r \in (1 - 1)..Len(v) /\ Len(v) \in r..Len(v)
  OBVIOUS
<1>2. SubSeq(v, 1, r) \o SubSeq(v, r + 1, Len(v)) = SubSeq(v, 1, Len(v))
  BY <1>1, ConcatAdjacentSubSeq
<1>3. SubSeq(v, 1, Len(v)) = v
  BY SubSeqFull
<1>4. /\ SubSeq(v, 1, r) \in Seq(D) /\ SubSeq(v, r + 1, Len(v)) \in Seq(D)
      /\ Len(SubSeq(v, 1, r)) = r /\ Len(SubSeq(v, r + 1, Len(v))) = Len(v) - r
  BY SMTT(20)
<1> QED
  BY <1>2, <1>3, <1>4

\* Empty buffers have no room.
LEMMA NoRoomIs == \A s \in Seq({0}) : Total(s) = 0
<1> DEFINE T == {s \in Seq({0}) : Total(s) = 0}
<1>1. <<>> \in T
  BY TotalIs
<1>2. ASSUME NEW s \in T, NEW d \in {0} PROVE s \o <<d>> \in T
  <2>1. s \in Seq(Nat) /\ <<0>> \in Seq(Nat) /\ 0 \in Nat /\ d = 0 /\ s \o <<0>> \in Seq({0}) /\ 0 + 0 = 0
    OBVIOUS
  <2>2. Total(s) = 0
    OBVIOUS
  <2>3. Total(s \o <<0>>) = Total(s) + Total(<<0>>) /\ Total(<<0>>) = 0
    BY <2>1, TotalIs, Zenon
  <2> QED
    BY <2>1, <2>2, <2>3
<1> HIDE DEF T
<1>3. T \in SUBSET Seq({0})
  BY DEF T
<1>4. T = Seq({0})
  BY <1>1, <1>2, <1>3, SeqInduction
<1> QED
  BY <1>4 DEF T

\* The first buffer with room is not larger than all of them; there is one if they have room.
LEMMA FirstSliceIs ==
  ASSUME NEW v \in Seq(Nat)
  PROVE  FirstSlice(v) \in Nat /\ FirstSlice(v) <= Total(v) /\ (Total(v) > 0 => FirstSlice(v) > 0)
<1>1. CASE ~\E i \in DOMAIN v : v[i] > 0
  <2>1. v \in Seq({0})
    <3>1. \A i \in 1..Len(v) : v[i] \in Nat /\ ~(v[i] > 0)
      BY <1>1
    <3>2. \A i \in 1..Len(v) : v[i] = 0
      BY <3>1
    <3>3. Len(v) \in Nat /\ v = [i \in 1..Len(v) |-> v[i]]
      OBVIOUS
    <3>4. v \in [1..Len(v) -> {0}]
      BY <3>2, <3>3
    <3> QED
      BY <3>3, <3>4
  <2>2. Total(v) = 0
    BY <2>1, NoRoomIs
  <2> QED
    BY <1>1, <2>2 DEF FirstSlice
<1>2. CASE \E i \in DOMAIN v : v[i] > 0
  <2> DEFINE P(i) == v[i] > 0 /\ \A j \in 1..(i - 1) : v[j] = 0
  <2>1. \E i \in DOMAIN v : P(i)
    <3> DEFINE S == {n \in Nat : \A i \in DOMAIN v : i <= n => v[i] = 0}
    <3>1. SUFFICES ASSUME \A i \in DOMAIN v : ~P(i) PROVE FALSE
      OBVIOUS
    <3>2. 0 \in S
      OBVIOUS
    <3>3. ASSUME NEW n \in S PROVE n + 1 \in S
      <4> SUFFICES ASSUME NEW i \in DOMAIN v, i <= n + 1 PROVE v[i] = 0
        OBVIOUS
      <4>1. i \in Nat /\ n \in Nat /\ v[i] \in Nat /\ DOMAIN v = 1..Len(v)
        OBVIOUS
      <4>2. \A j \in 1..(i - 1) : j \in DOMAIN v /\ j <= n
        BY <4>1
      <4>3. \A j \in 1..(i - 1) : v[j] = 0
        BY <4>2
      <4> QED
        BY <3>1, <4>1, <4>3
    <3>4. \A n \in Nat : n \in S
      <4> HIDE DEF S
      <4>1. S \in SUBSET Nat
        BY DEF S
      <4> QED
        BY <3>2, <3>3, <4>1, Induction
    <3>5. PICK i \in DOMAIN v : v[i] > 0
      BY <1>2
    <3>6. i \in Nat /\ i <= i
      OBVIOUS
    <3> QED
      BY <3>4, <3>5, <3>6
  <2>2. PICK i \in DOMAIN v : FirstSlice(v) = v[i] /\ v[i] > 0
    BY <1>2, <2>1 DEF FirstSlice
  <2>3. i \in 1..Len(v) /\ i \in 0..Len(v) /\ v[i] \in Nat
    OBVIOUS
  <2> DEFINE a == SubSeq(v, 1, i)
             b == SubSeq(v, i + 1, Len(v))
             c == SubSeq(v, 1, i - 1)
  <2>4. a \in Seq(Nat) /\ b \in Seq(Nat) /\ a \o b = v
    BY <2>3, Cut
  <2>5. c \in Seq(Nat) /\ a = c \o <<v[i]>>
    BY <2>3
  <2>6. <<v[i]>> \in Seq(Nat)
    BY <2>3
  <2> HIDE DEF a, b, c
  <2>7. Total(v) = Total(c) + v[i] + Total(b) /\ Total(c) \in Nat /\ Total(b) \in Nat
    <3>1. Total(v) = Total(a) + Total(b)
      BY <2>4, TotalIs, Zenon
    <3>2. Total(a) = Total(c) + v[i]
      BY <2>3, <2>5, <2>6, TotalIs, Zenon
    <3> QED
      BY <2>4, <2>5, <3>1, <3>2, TotalIs
  <2> QED
    BY <2>2, <2>3, <2>7
<1> QED
  BY <1>1, <1>2

\* What advance_slices leaves is what was not used, and no buffers when all was.
LEMMA AdvanceIs ==
  ASSUME NEW v \in Seq(Nat), NEW k \in Nat, k <= Total(v)
  PROVE  /\ AdvanceSlices(v, k) \in Seq(Nat) /\ Total(AdvanceSlices(v, k)) = Total(v) - k
         /\ AdvanceSlices(v, k) = <<>> \/ Total(AdvanceSlices(v, k)) > 0
<1> DEFINE P(r) == Total(SubSeq(v, 1, r))
           R == {r \in 0..Len(v) : P(r) <= k}
           U(r) == P(r) <= k /\ \A q \in (r + 1)..Len(v) : P(q) > k
           r == CHOOSE r \in 0..Len(v) : U(r)
           rest == SubSeq(v, r + 1, Len(v))
<1>0. Len(v) \in Nat
  OBVIOUS
<1>1. \A q \in 0..Len(v) : P(q) \in Nat
  BY Cut, TotalIs
<1>2. \E q \in 0..Len(v) : U(q)
  <2>1. SubSeq(v, 1, 0) = <<>> /\ 0 \in 0..Len(v)
    OBVIOUS
  <2>2. 0 \in R
    <3>1. P(0) = 0
      BY <2>1, TotalIs, Zenon
    <3>2. 0 <= k
      OBVIOUS
    <3> QED
      BY <2>1, <3>1, <3>2
  <2>3. PICK q \in R : \A p \in R : p <= q
    <3>1. R \in SUBSET (0..Len(v)) /\ R # {}
      BY <2>2
    <3> HIDE DEF R
    <3> QED
      BY <1>0, <3>1, LastOf
  <2>4. \A p \in (q + 1)..Len(v) : P(p) > k
    <3> SUFFICES ASSUME NEW p \in (q + 1)..Len(v), ~(P(p) > k) PROVE FALSE
      OBVIOUS
    <3>1. p \in 0..Len(v) /\ ~(p <= q)
      BY <1>0
    <3>2. P(p) <= k
      BY <1>1, <3>1
    <3> QED
      BY <2>3, <3>1, <3>2
  <2> QED
    BY <2>3, <2>4
<1>3. r \in 0..Len(v) /\ U(r)
  BY <1>2
<1>4. AdvanceSlices(v, k) = IF rest = <<>> THEN rest ELSE [rest EXCEPT ![1] = @ - (k - P(r))]
  BY DEF AdvanceSlices
<1> HIDE DEF r
<1>5. /\ SubSeq(v, 1, r) \in Seq(Nat) /\ rest \in Seq(Nat) /\ Len(rest) = Len(v) - r
      /\ SubSeq(v, 1, r) \o rest = v
  BY <1>3, Cut
<1> HIDE DEF rest, P
<1>6. Total(v) = P(r) + Total(rest) /\ P(r) \in Nat /\ Total(rest) \in Nat
  BY <1>5, TotalIs DEF P
<1>7. CASE rest = <<>>
  BY <1>3, <1>4, <1>6, <1>7, TotalIs
<1>8. CASE rest # <<>>
  <2>1. r + 1 \in 1..Len(v) /\ rest[1] = v[r + 1] /\ v[r + 1] \in Nat /\ r + 1 \in (r + 1)..Len(v)
    <3>1. r \in Nat /\ Len(rest) # 0 /\ r + 1 <= Len(v)
      BY <1>0, <1>3, <1>5, <1>8
    <3>2. r + 1 \in 1..Len(v) /\ r + 1 \in (r + 1)..Len(v) /\ v[r + 1] \in Nat
      BY <1>0, <3>1
    <3>3. rest[1] = v[r + 1]
      BY <1>0, <3>1 DEF rest
    <3> QED
      BY <3>2, <3>3
  <2>2. SubSeq(v, 1, r + 1) = SubSeq(v, 1, r) \o <<v[r + 1]>> /\ <<v[r + 1]>> \in Seq(Nat)
    BY <1>3, <2>1
  <2>3. P(r + 1) = P(r) + v[r + 1]
    BY <1>5, <2>1, <2>2, TotalIs DEF P
  <2>4. P(r + 1) > k /\ P(r) <= k
    BY <1>3, <2>1
  <2> DEFINE a == v[r + 1] - (k - P(r))
             t == Tail(rest)
  <2>5. a \in Nat /\ a + k = P(r) + v[r + 1]
    BY <1>6, <2>1, <2>3, <2>4
  <2>6. t \in Seq(Nat) /\ rest = <<v[r + 1]>> \o t
    BY <1>5, <1>8, <2>1
  <2>7. [rest EXCEPT ![1] = @ - (k - P(r))] = <<a>> \o t
    BY <1>5, <1>8, <2>1, <2>6
  <2> HIDE DEF a, t
  <2>8. <<a>> \in Seq(Nat) /\ <<a>> \o t \in Seq(Nat)
    BY <2>5, <2>6
  <2>9. Total(<<a>> \o t) = a + Total(t) /\ Total(rest) = v[r + 1] + Total(t) /\ Total(t) \in Nat
    BY <2>1, <2>2, <2>5, <2>6, <2>8, TotalIs
  <2>10. Total(v) - k = a + Total(t)
    <3>1. Total(v) = P(r) + (v[r + 1] + Total(t)) /\ a + k = P(r) + v[r + 1]
      BY <1>6, <2>5, <2>9
    <3>3. P(r) \in Nat /\ v[r + 1] \in Nat /\ a \in Nat /\ Total(t) \in Nat /\ Total(v) \in Nat
      BY <1>6, <2>1, <2>5, <2>9, TotalIs
    <3>4. PICK p \in Nat, b \in Nat, c \in Nat, d \in Nat, e \in Nat :
             p = P(r) /\ b = v[r + 1] /\ c = a /\ d = Total(t) /\ e = Total(v)
      BY <3>3
    <3>5. e = p + (b + d)
      BY <3>1, <3>4, Zenon
    <3>6. c + k = p + b
      BY <3>1, <3>4, Zenon
    <3>7. e - k = c + d
      BY <3>5, <3>6
    <3> QED
      BY <3>4, <3>7
  <2>11. Total(<<a>> \o t) > 0
    <3>1. a + k = P(r + 1)
      BY <2>3, <2>5
    <3>2. PICK u : u = P(r + 1)
      OBVIOUS
    <3>3. a > 0
      BY <2>4, <2>5, <3>1, <3>2
    <3> QED
      BY <2>5, <2>9, <3>3
  <2> QED
    BY <1>4, <1>8, <2>7, <2>8, <2>9, <2>10, <2>11
<1> QED
  BY <1>7, <1>8

-----------------------------------------------------------------------------
(* WriteLoops: what a call has accepted is in its place *)

\* The bytes a call has written so far are the first it was given, from the
\* cursor it began at on.
Accepted ==
    /\ given \in Seq(Nat) /\ count \in 0..Len(given) /\ worigin \in Nat
    /\ WCursor = worigin + count
    /\ \A i \in 1..count : worigin + i <= Len(Want) /\ Want[worigin + i] = given[i]

\* The buffers or pieces that are left hold what is left.
SlicesLeft ==
    wpc = "loop" /\ wcall.op \in WVectored \cup {"write_fmt"}
        => wslices \in Seq(Nat) /\ Total(wslices) = Len(given) - count

\* A typed write is given the digits of its value.
Digits ==
    /\ wcall.op = "write_type_le" => Len(given) = WWidth /\ FromLe(WBase, given) = wcall.val
    /\ wcall.op = "write_type_be" => Len(given) = WWidth /\ FromBe(WBase, given) = wcall.val

Reported ==
    wpc = "done" =>
        /\ wret.ok => wret.n = count
        /\ wret.ok /\ wcall.op \in MustWriteAll => count = Len(given)
        /\ ~wret.ok /\ wret.err = "Interrupted" /\ wcall.op \notin MustWriteAll => count = 0

WriteLoopsInv ==
    WriterInv /\ (wpc # "idle" => Accepted /\ SlicesLeft /\ Digits /\ Reported)

\* The file a caller sees is one.
LEMMA WantType == ASSUME WriterInv PROVE Want \in Seq(Nat) /\ WCursor \in Nat
<1>1. file \in Seq(Nat) /\ wpos \in Nat /\ pend \in Seq(Nat) /\ Len(pend) \in Nat
  BY DEF WriterInv, WriterTypeOK
<1> QED
  BY <1>1, OverlayType DEF Want, WCursor

\* What is left of what was given, and a part of that.
LEMMA LeftIs ==
  ASSUME NEW g \in Seq(Nat), NEW c \in 0..Len(g)
  PROVE  /\ Rest(g, c) \in Seq(Nat) /\ Len(Rest(g, c)) = Len(g) - c
         /\ Prefix(Rest(g, c), Len(Rest(g, c))) = Rest(g, c)
         /\ \A m \in 0..(Len(g) - c) :
              /\ Prefix(Rest(g, c), m) \in Seq(Nat) /\ Len(Prefix(Rest(g, c), m)) = m
              /\ \A k \in 0..m :
                   LET bytes == Prefix(Prefix(Rest(g, c), m), k)
                   IN  bytes \in Seq(Nat) /\ Len(bytes) = k /\ \A i \in 1..k : bytes[i] = g[c + i]
<1> DEFINE r == Rest(g, c)
<1>1. r \in Seq(Nat) /\ Len(r) = Len(g) - c /\ \A i \in 1..(Len(g) - c) : r[i] = g[c + i]
  BY SMTT(20) DEF Rest
<1>2. Prefix(r, Len(r)) = r
  BY <1>1, SubSeqFull DEF Prefix
<1>3. Len(g) - c \in Nat
  OBVIOUS
<1> HIDE DEF r
<1>4. ASSUME NEW m \in 0..(Len(g) - c)
      PROVE  /\ Prefix(r, m) \in Seq(Nat) /\ Len(Prefix(r, m)) = m
             /\ \A i \in 1..m : Prefix(r, m)[i] = g[c + i]
  <2>1. m \in 0..Len(r)
    BY <1>1
  <2>2. Prefix(r, m) \in Seq(Nat) /\ Len(Prefix(r, m)) = m
    BY <1>1, <2>1, PrefixType
  <2>3. \A i \in 1..m : Prefix(r, m)[i] = r[i]
    BY <1>1, <2>1 DEF Prefix
  <2>4. \A i \in 1..m : i \in 1..(Len(g) - c)
    BY <1>3
  <2> QED
    BY <1>1, <2>2, <2>3, <2>4
<1>5. ASSUME NEW m \in 0..(Len(g) - c), NEW k \in 0..m
      PROVE  LET bytes == Prefix(Prefix(r, m), k)
             IN  bytes \in Seq(Nat) /\ Len(bytes) = k /\ \A i \in 1..k : bytes[i] = g[c + i]
  <2> DEFINE q == Prefix(r, m)
  <2>1. q \in Seq(Nat) /\ Len(q) = m /\ \A i \in 1..m : q[i] = g[c + i]
    BY <1>4
  <2> HIDE DEF q
  <2>2. k \in 0..Len(q) /\ \A i \in 1..k : i \in 1..m
    BY <1>3, <2>1
  <2>3. Prefix(q, k) \in Seq(Nat) /\ Len(Prefix(q, k)) = k
    BY <2>1, <2>2, PrefixType
  <2>4. \A i \in 1..k : Prefix(q, k)[i] = q[i]
    BY <2>1, <2>2 DEF Prefix
  <2> QED
    BY <2>1, <2>2, <2>3, <2>4 DEF q
<1> QED
  BY <1>1, <1>2, <1>4, <1>5 DEF r

\* Bytes that are accepted join the ones before.
LEMMA PutsMore ==
  ASSUME WriterInv, Accepted, NEW k \in 0..(Len(given) - count), NEW bytes \in Seq(Nat), Len(bytes) = k,
         \A i \in 1..k : bytes[i] = given[count + i],
         Puts(bytes), count' = count + k, UNCHANGED <<given, worigin>>
  PROVE  Accepted'
<1>0. /\ given \in Seq(Nat) /\ count \in Nat /\ Len(given) \in Nat /\ count <= Len(given) /\ worigin \in Nat
      /\ k \in Nat /\ count + k <= Len(given)
  BY DEF Accepted
<1>1. Want \in Seq(Nat) /\ WCursor \in Nat /\ Len(Want) \in Nat /\ WCursor = worigin + count
  BY WantType DEF Accepted
<1>2. WCursor' = worigin' + count'
  BY <1>0, <1>1 DEF Puts
<1>3. \A i \in 1..count : worigin + i <= Len(Want) /\ Want[worigin + i] = given[i]
  BY DEF Accepted
<1>4. ASSUME NEW i \in 1..(count + k)
      PROVE  worigin + i <= Len(Want') /\ Want'[worigin + i] = given[i]
  <2>1. CASE k = 0
    <3>1. bytes = <<>> /\ i \in 1..count
      BY <1>0, <2>1
    <3>2. Want' = Want
      BY <3>1, OverlayNothing DEF Puts
    <3> QED
      BY <1>3, <3>1, <3>2
  <2>2. CASE k # 0
    <3>1. bytes # <<>>
      BY <2>2
    <3>2. Laid(Want', Want, WCursor, bytes)
      BY <1>1, <3>1, OverlayIs DEF Puts
    <3>3. /\ Len(Want') = IF WCursor + k > Len(Want) THEN WCursor + k ELSE Len(Want)
          /\ \A j \in Int : WCursor < j /\ j <= WCursor + k => Want'[j] = bytes[j - WCursor]
          /\ \A j \in Int : 1 <= j /\ j <= WCursor /\ j <= Len(Want) => Want'[j] = Want[j]
      BY <3>2 DEF Laid
    <3>4. worigin + i <= Len(Want')
      <4>1. WCursor + k <= Len(Want')
        <5>1. \A c, l \in Nat : c <= (IF c > l THEN c ELSE l)
          OBVIOUS
        <5>2. WCursor + k \in Nat
          BY <1>0, <1>1
        <5> QED
          BY <1>1, <3>3, <5>1, <5>2, Zenon
      <4>2. \A l \in Nat : WCursor + k <= l => worigin + i <= l
        BY <1>0, <1>1
      <4>3. Len(Want') \in Nat
        BY <3>2 DEF Laid
      <4> QED
        BY <4>1, <4>2, <4>3, Zenon
    <3>5. CASE i <= count
      <4>1. i \in 1..count
        BY <1>0, <3>5
      <4>2. worigin + i \in Int /\ 1 <= worigin + i /\ worigin + i <= WCursor
        BY <1>0, <1>1, <4>1
      <4> QED
        BY <1>3, <3>3, <3>4, <4>1, <4>2
    <3>6. CASE ~(i <= count)
      <4>1. worigin + i \in Int /\ WCursor < worigin + i /\ worigin + i <= WCursor + k
        BY <1>0, <1>1, <3>6
      <4>2. (worigin + i) - WCursor = i - count /\ i - count \in 1..k /\ count + (i - count) = i
        BY <1>0, <1>1, <3>6
      <4> QED
        BY <3>3, <3>4, <4>1, <4>2
    <3> QED
      BY <3>5, <3>6
  <2> QED
    BY <2>1, <2>2
<1>5. count' \in 0..Len(given)
  BY <1>0
<1> QED
  BY <1>0, <1>2, <1>4, <1>5 DEF Accepted

\* A step that accepts nothing.
LEMMA PutsNothing ==
  ASSUME Accepted, Want' = Want, WCursor' = WCursor, UNCHANGED <<given, count, worigin>>
  PROVE  Accepted'
BY DEF Accepted

\* A write of the first m bytes that are left.
LEMMA WriteSome ==
  ASSUME WriterInv, Accepted, NEW m \in 0..Len(Left), NEW buf, buf = Prefix(Left, m),
         Write(buf), count' = count + Len(wres'.bytes), UNCHANGED <<given, worigin>>
  PROVE  WriterInv' /\ Accepted' /\ Len(wres'.bytes) \in 0..m
<1>0. given \in Seq(Nat) /\ count \in 0..Len(given)
  BY DEF Accepted
<1>1. Len(Left) = Len(given) - count
  BY <1>0, LeftIs DEF Left
<1>2. buf \in Seq(Nat) /\ Len(buf) = m
  BY <1>0, <1>1, LeftIs DEF Left
<1>3. WriterInv' /\ \E k \in 0..Len(buf) : Puts(Prefix(buf, k))
  BY <1>2, WriteStep
<1>4. PICK k \in 0..m : Puts(Prefix(buf, k))
  BY <1>2, <1>3
<1>5. Prefix(buf, k) \in Seq(Nat) /\ Len(Prefix(buf, k)) = k /\ \A i \in 1..k : Prefix(buf, k)[i] = given[count + i]
  <2>1. m \in 0..(Len(given) - count)
    BY <1>1
  <2> QED
    BY <1>0, <2>1, LeftIs, Zenon DEF Left
<1>6. wres'.bytes = Prefix(buf, k)
  BY <1>4 DEF Puts, Wrote
<1>7. k \in 0..(Len(given) - count)
  BY <1>0, <1>1
<1>8. Accepted'
  BY <1>4, <1>5, <1>6, <1>7, PutsMore
<1> QED
  BY <1>3, <1>5, <1>6, <1>8

\* Steps that leave the writer alone.
LEMMA WriterKept ==
  ASSUME WriterInv, UNCHANGED wvars
  PROVE  WriterInv' /\ Want' = Want /\ WCursor' = WCursor
<1>1. UNCHANGED <<file, wpos, pend, wstart, wfast>>
  BY DEF wvars
<1> QED
  BY <1>1, WantAfter DEF WriterInv, WriterTypeOK, Fits, Want, WCursor

\* The first buffer, and the others.
LEMMA HeadIs ==
  ASSUME NEW v \in Seq(Nat), v # <<>>
  PROVE  /\ Head(v) \in Nat /\ Tail(v) \in Seq(Nat)
         /\ Total(v) = Head(v) + Total(Tail(v)) /\ Head(v) <= Total(v)
<1>1. Head(v) \in Nat /\ Tail(v) \in Seq(Nat) /\ <<Head(v)>> \in Seq(Nat) /\ v = <<Head(v)>> \o Tail(v)
  OBVIOUS
<1>2. Total(v) = Head(v) + Total(Tail(v))
  BY <1>1, TotalIs, Zenon
<1>3. Total(Tail(v)) \in Nat
  BY <1>1, TotalIs
<1> QED
  BY <1>1, <1>2, <1>3

\* The base of the digits.
LEMMA BaseIs == WBase \in Nat \ {0}
<1>1. PICK b : b = CHOOSE a \in Byte : \A c \in Byte : c <= a
  OBVIOUS
<1>2. b \in Byte
  BY <1>1, WriteLoopAssumption
<1>3. b \in Nat /\ WBase = 1 + b
  BY <1>1, <1>2, WriterAssumption DEF WBase
<1> QED
  BY <1>3

\* What a caller gives is bytes.
LEMMA GivenType == \A bytes \in Given : bytes \in Seq(Nat)
<1>1. ASSUME NEW bytes \in Seq(Byte) PROVE bytes \in Seq(Nat)
  <2>1. Len(bytes) \in Nat /\ bytes \in [1..Len(bytes) -> Byte]
    OBVIOUS
  <2>2. bytes \in [1..Len(bytes) -> Nat]
    BY <2>1, WriterAssumption
  <2> QED
    BY <2>1, <2>2
<1> QED
  BY <1>1, WriteLoopAssumption

\* A call begins with nothing written.
LEMMA StartInv ==
  ASSUME WriterInv, NEW c, NEW bytes \in Seq(Nat), NEW lens, Start(c, bytes, lens),
         c.op \in WVectored \cup {"write_fmt"} => lens \in Seq(Nat) /\ Total(lens) = Len(bytes),
         c.op = "write_type_le" => Len(bytes) = WWidth /\ FromLe(WBase, bytes) = c.val,
         c.op = "write_type_be" => Len(bytes) = WWidth /\ FromBe(WBase, bytes) = c.val
  PROVE  WriteLoopsInv'
<1>1. WriterInv' /\ Want' = Want /\ WCursor' = WCursor
  BY WriterKept DEF Start
<1>2. given' = bytes /\ count' = 0 /\ worigin' = WCursor /\ wslices' = lens /\ wcall' = c /\ wpc' = "loop"
  BY DEF Start
<1>3. WCursor \in Nat /\ WCursor = WCursor + 0 /\ Len(bytes) \in Nat /\ Len(bytes) - 0 = Len(bytes)
  BY WantType
<1>4. Accepted'
  <2>1. 0 \in 0..Len(bytes) /\ 1..0 = {}
    BY <1>3
  <2> QED
    BY <1>1, <1>2, <1>3, <2>1 DEF Accepted
<1>5. SlicesLeft'
  BY <1>2, <1>3 DEF SlicesLeft
<1>6. Digits' /\ Reported'
  BY <1>2 DEF Digits, Reported
<1> QED
  BY <1>1, <1>4, <1>5, <1>6 DEF WriteLoopsInv

\* A call of one buffer, or a pipe.
LEMMA StartPlainInv ==
  ASSUME WriterInv, NEW op \in WWhole \cup {"pipe_from"}, NEW bytes \in Given, Start([op |-> op], bytes, <<>>)
  PROVE  WriteLoopsInv'
<1>1. op \notin WVectored \cup {"write_fmt", "write_type_le", "write_type_be"} /\ [op |-> op].op = op
  BY DEF WWhole, WVectored
<1> QED
  BY <1>1, GivenType, StartInv

\* A call of several buffers.
LEMMA StartVectoredInv ==
  ASSUME WriterInv, NEW op \in WVectored, NEW bytes \in Given, NEW k \in Nat, k <= Len(bytes),
         StartVectored(op, bytes, k)
  PROVE  WriteLoopsInv'
<1>0. bytes \in Seq(Nat) /\ Len(bytes) \in Nat /\ Len(bytes) - k \in Nat
  BY GivenType
<1>1. op \notin {"write_type_le", "write_type_be"} /\ [op |-> op].op = op
  BY DEF WVectored
<1> DEFINE a == Len(bytes) - k
<1>2. <<k>> \in Seq(Nat) /\ <<a>> \in Seq(Nat) /\ <<k, a>> = <<k>> \o <<a>> /\ <<k, a>> \in Seq(Nat)
  BY <1>0
<1>3. k + a = Len(bytes)
  BY <1>0
<1>4. Start([op |-> op], bytes, <<k, a>>)
  BY DEF StartVectored
<1>5. a \in Nat
  BY <1>0
<1> HIDE DEF a
<1>6. Total(<<k, a>>) = Len(bytes)
  BY <1>2, <1>3, <1>5, TotalIs
<1> QED
  BY <1>0, <1>1, <1>2, <1>4, <1>6, StartInv

\* The pieces of a format.
LEMMA StartFmtInv ==
  ASSUME WriterInv, NEW bytes \in Given, NEW k \in Nat, k <= Len(bytes), StartFmt(bytes, k)
  PROVE  WriteLoopsInv'
<1>0. bytes \in Seq(Nat) /\ Len(bytes) \in Nat /\ Len(bytes) - k \in Nat
  BY GivenType
<1> DEFINE a == Len(bytes) - k
<1>1. /\ <<k>> \in Seq(Nat) /\ <<0>> \in Seq(Nat) /\ <<a>> \in Seq(Nat)
      /\ <<0>> \o <<a>> \in Seq(Nat) /\ <<k, 0, a>> = <<k>> \o (<<0>> \o <<a>>) /\ <<k, 0, a>> \in Seq(Nat)
  BY <1>0
<1>2. k + a = Len(bytes) /\ a \in Nat /\ 0 + a = a
  BY <1>0
<1>3. Start([op |-> "write_fmt"], bytes, <<k, 0, a>>)
  BY DEF StartFmt
<1> HIDE DEF a
<1>4. Total(<<k, 0, a>>) = Len(bytes)
  <2>0. 0 \in Nat
    OBVIOUS
  <2>1. Total(<<0>> \o <<a>>) = Total(<<0>>) + Total(<<a>>) /\ Total(<<0>>) = 0 /\ Total(<<a>>) = a
    BY <1>1, <1>2, <2>0, TotalIs, Zenon
  <2>2. Total(<<k>> \o (<<0>> \o <<a>>)) = Total(<<k>>) + Total(<<0>> \o <<a>>) /\ Total(<<k>>) = k
    BY <1>1, TotalIs, Zenon
  <2> QED
    BY <1>1, <1>2, <2>1, <2>2
<1>5. [op |-> "write_fmt"].op = "write_fmt"
  OBVIOUS
<1> QED
  BY <1>0, <1>1, <1>3, <1>4, <1>5, StartInv

\* A number, as its digits.
LEMMA StartTypedInv ==
  ASSUME WriterInv, NEW op \in WTyped, NEW n \in 0..(Power(WBase, WWidth) - 1), StartTyped(op, n)
  PROVE  WriteLoopsInv'
<1>1. WBase \in Nat \ {0} /\ WWidth \in Nat /\ Power(WBase, WWidth) \in Nat
  BY BaseIs, WriteLoopAssumption, PowerPositive
<1>2. n \in Nat /\ n < Power(WBase, WWidth)
  BY <1>1
<1> DEFINE c == [op |-> op, val |-> n]
<1>3. c.op = op /\ c.val = n
  OBVIOUS
<1> HIDE DEF c
<1>4. op = "write_type_le" \/ op = "write_type_be"
  BY DEF WTyped
<1>5. CASE op = "write_type_le"
  <2> DEFINE bytes == IntoBytes(WBase, WWidth, n, TRUE)
  <2>1. bytes \in Seq(Nat) /\ Len(bytes) = WWidth /\ FromLe(WBase, bytes) = n
    BY <1>1, <1>2, IntoLe
  <2>2. Start(c, bytes, <<>>)
    BY <1>5 DEF StartTyped, c
  <2>3. op \notin WVectored \cup {"write_fmt", "write_type_be"}
    BY <1>5 DEF WVectored
  <2> HIDE DEF bytes
  <2> QED
    BY <1>3, <2>1, <2>2, <2>3, StartInv
<1>6. CASE op = "write_type_be"
  <2> DEFINE bytes == IntoBytes(WBase, WWidth, n, FALSE)
  <2>1. bytes \in Seq(Nat) /\ Len(bytes) = WWidth /\ FromBe(WBase, bytes) = n
    BY <1>1, <1>2, IntoBe
  <2>2. Start(c, bytes, <<>>)
    BY <1>6 DEF StartTyped, c
  <2>3. op \notin WVectored \cup {"write_fmt", "write_type_le"}
    BY <1>6 DEF WVectored
  <2> HIDE DEF bytes
  <2> QED
    BY <1>3, <2>1, <2>2, <2>3, StartInv
<1> QED
  BY <1>4, <1>5, <1>6

\* What a method does to its call is no business of the others.
LEMMA SameCall ==
  ASSUME WriteLoopsInv, WriterInv', Accepted', UNCHANGED <<wcall, given, worigin>>,
         SlicesLeft', Reported', wpc # "idle"
  PROVE  WriteLoopsInv'
<1>1. Digits'
  BY DEF WriteLoopsInv, Digits
<1> QED
  BY <1>1 DEF WriteLoopsInv

\* A write of all that is left.
LEMMA LoopWriteAllInv == ASSUME WriteLoopsInv, LoopWriteAll PROVE WriteLoopsInv'
<1>1. WriterInv /\ Accepted /\ wpc = "loop" /\ wcall.op \in WWhole \cup WTyped
  BY DEF LoopWriteAll, WriteLoopsInv
<1>2. WriterInv' /\ Accepted' /\ wpc' \in {"loop", "end"}
  <2>1. CASE Left # <<>>
    <3>1. Write(Left) /\ Took(Len(wres'.bytes)) /\ UNCHANGED <<given, worigin>>
      BY <2>1 DEF LoopWriteAll
    <3>2. Left = Prefix(Left, Len(Left)) /\ Len(Left) \in 0..Len(Left)
      <4>1. given \in Seq(Nat) /\ count \in 0..Len(given)
        BY <1>1 DEF Accepted
      <4>2. Left \in Seq(Nat) /\ Prefix(Left, Len(Left)) = Left
        BY <4>1, LeftIs DEF Left
      <4> QED
        BY <4>2
    <3> QED
      BY <1>1, <3>1, <3>2, WriteSome DEF Took
  <2>2. CASE ~(Left # <<>>)
    <3>1. wpc' = "end" /\ UNCHANGED <<wvars, count, given, worigin>>
      BY <2>2 DEF LoopWriteAll
    <3> QED
      BY <1>1, <3>1, WriterKept, PutsNothing
  <2> QED
    BY <2>1, <2>2
<1>3. UNCHANGED <<wcall, given, worigin>>
  BY DEF LoopWriteAll
<1>4. SlicesLeft' /\ Reported'
  BY <1>1, <1>2, <1>3 DEF SlicesLeft, Reported, WWhole, WTyped, WVectored
<1> QED
  BY <1>1, <1>2, <1>3, <1>4, SameCall

\* A write of the first buffer that is not empty.
LEMMA LoopWriteVectoredInv == ASSUME WriteLoopsInv, LoopWriteVectored PROVE WriteLoopsInv'
<1>1. /\ WriterInv /\ Accepted /\ wpc = "loop" /\ wcall.op \in WVectored
      /\ wslices \in Seq(Nat) /\ Total(wslices) = Len(given) - count
  BY DEF LoopWriteVectored, WriteLoopsInv, SlicesLeft
<1>2. UNCHANGED <<wcall, given, worigin>>
  BY DEF LoopWriteVectored
<1>3. CASE wslices # <<>> /\ FirstSlice(wslices) # 0
  <2>1. /\ Write(Prefix(Left, FirstSlice(wslices))) /\ Took(Len(wres'.bytes))
        /\ wslices' = AdvanceSlices(wslices, Len(wres'.bytes))
    BY <1>3 DEF LoopWriteVectored
  <2>2. given \in Seq(Nat) /\ count \in 0..Len(given) /\ Len(Left) = Len(given) - count
    <3>1. given \in Seq(Nat) /\ count \in 0..Len(given)
      BY <1>1 DEF Accepted
    <3> QED
      BY <3>1, LeftIs DEF Left
  <2>3. FirstSlice(wslices) \in 0..Len(Left)
    <3>1. FirstSlice(wslices) \in Nat /\ FirstSlice(wslices) <= Total(wslices)
      BY <1>1, FirstSliceIs
    <3> QED
      BY <1>1, <2>2, <3>1
  <2>4. WriterInv' /\ Accepted' /\ Len(wres'.bytes) \in 0..FirstSlice(wslices)
    BY <1>1, <1>2, <2>1, <2>3, WriteSome DEF Took
  <2> DEFINE k == Len(wres'.bytes)
  <2>5. k \in Nat /\ k <= Total(wslices)
    BY <1>1, <2>2, <2>3, <2>4
  <2>6. count' = count + k /\ wpc' \in {"loop", "end"}
    BY <2>1 DEF Took
  <2> HIDE DEF k
  <2>7. AdvanceSlices(wslices, k) \in Seq(Nat) /\ Total(AdvanceSlices(wslices, k)) = Total(wslices) - k
    BY <1>1, <2>5, AdvanceIs
  <2>8. wslices' \in Seq(Nat) /\ Total(wslices') = Len(given') - count'
    <3>1. (Len(given) - count) - k = Len(given) - (count + k)
      BY <2>2, <2>5
    <3>2. wslices' = AdvanceSlices(wslices, k)
      BY <2>1 DEF k
    <3> QED
      BY <1>1, <1>2, <2>6, <2>7, <3>1, <3>2
  <2>9. SlicesLeft' /\ Reported'
    BY <2>6, <2>8 DEF SlicesLeft, Reported
  <2> QED
    BY <1>1, <1>2, <2>4, <2>9, SameCall
<1>4. CASE ~(wslices # <<>> /\ FirstSlice(wslices) # 0)
  <2>1. wpc' = "end" /\ UNCHANGED <<wvars, count>>
    BY <1>4 DEF LoopWriteVectored
  <2>2. SlicesLeft' /\ Reported'
    BY <2>1 DEF SlicesLeft, Reported
  <2> QED
    BY <1>1, <1>2, <2>1, <2>2, WriterKept, PutsNothing, SameCall
<1> QED
  BY <1>3, <1>4

\* A write of the first piece of a format.
LEMMA LoopFmtInv == ASSUME WriteLoopsInv, LoopFmt PROVE WriteLoopsInv'
<1>1. /\ WriterInv /\ Accepted /\ wpc = "loop" /\ wcall.op = "write_fmt"
      /\ wslices \in Seq(Nat) /\ Total(wslices) = Len(given) - count
  BY DEF LoopFmt, WriteLoopsInv, SlicesLeft
<1>2. UNCHANGED <<wcall, given, worigin>>
  BY DEF LoopFmt
<1>3. CASE wslices = <<>>
  <2>1. wpc' = "end" /\ UNCHANGED <<wvars, count>>
    BY <1>3 DEF LoopFmt
  <2>2. SlicesLeft' /\ Reported'
    BY <2>1 DEF SlicesLeft, Reported
  <2> QED
    BY <1>1, <1>2, <2>1, <2>2, WriterKept, PutsNothing, SameCall
<1>4. CASE wslices # <<>> /\ Head(wslices) = 0
  <2> DEFINE checked == CheckInterruptIfZero(0, winterrupted)
  <2>1. /\ wpc' = IF checked.ok THEN "loop" ELSE "done"
        /\ wret' = IF checked.ok THEN wret ELSE checked
        /\ wslices' = Tail(wslices) /\ UNCHANGED <<wvars, count>>
    BY <1>4 DEF LoopFmt
  <2>2. Tail(wslices) \in Seq(Nat) /\ Total(Tail(wslices)) = Total(wslices)
    <3>1. /\ Tail(wslices) \in Seq(Nat) /\ Total(wslices) = Head(wslices) + Total(Tail(wslices))
          /\ Total(Tail(wslices)) \in Nat
      BY <1>1, <1>4, HeadIs, TotalIs
    <3>2. \A t \in Nat : 0 + t = t
      OBVIOUS
    <3> QED
      BY <1>4, <3>1, <3>2
  <2>3. SlicesLeft'
    BY <1>1, <1>2, <2>1, <2>2 DEF SlicesLeft
  <2>4. Reported'
    <3>1. wpc' = "done" => wret' = checked /\ ~checked.ok
      BY <2>1
    <3>2. wcall'.op \in MustWriteAll
      BY <1>1, <1>2 DEF MustWriteAll
    <3> QED
      BY <3>1, <3>2 DEF Reported
  <2> QED
    BY <1>1, <1>2, <2>1, <2>3, <2>4, WriterKept, PutsNothing, SameCall
<1>5. CASE wslices # <<>> /\ Head(wslices) # 0
  <2> DEFINE a == Head(wslices)
             rest == Tail(wslices)
             k == Len(wres'.bytes)
  <2>1. /\ Write(Prefix(Left, a)) /\ Took(k)
        /\ wslices' = (IF a - k = 0 THEN <<>> ELSE <<a - k>>) \o rest
    BY <1>5 DEF LoopFmt
  <2>2. given \in Seq(Nat) /\ count \in 0..Len(given) /\ Len(Left) = Len(given) - count
    <3>1. given \in Seq(Nat) /\ count \in 0..Len(given)
      BY <1>1 DEF Accepted
    <3> QED
      BY <3>1, LeftIs DEF Left
  <2>3. /\ a \in Nat /\ rest \in Seq(Nat) /\ Total(rest) \in Nat
        /\ Total(wslices) = a + Total(rest) /\ a <= Total(wslices)
    BY <1>1, <1>5, HeadIs, TotalIs
  <2>4. a \in 0..Len(Left)
    BY <1>1, <2>2, <2>3
  <2>5. WriterInv' /\ Accepted' /\ k \in 0..a
    <3> HIDE DEF a
    <3> QED
      BY <1>1, <1>2, <2>1, <2>4, WriteSome DEF Took
  <2>6. count' = count + k /\ wpc' \in {"loop", "end"}
    BY <2>1 DEF Took
  <2> HIDE DEF a, rest, k
  <2>7. wslices' \in Seq(Nat) /\ Total(wslices') = (a - k) + Total(rest)
    <3>1. a - k \in Nat
      BY <2>3, <2>5
    <3>2. CASE a - k = 0
      <4>1. wslices' = rest
        BY <2>1, <2>3, <3>2
      <4>2. \A t \in Nat : 0 + t = t
        OBVIOUS
      <4> QED
        BY <2>3, <3>2, <4>1, <4>2
    <3>3. CASE a - k # 0
      <4>1. wslices' = <<a - k>> \o rest
        BY <2>1, <3>3
      <4>2. PICK d \in Nat : d = a - k
        BY <3>1
      <4>3. <<d>> \in Seq(Nat) /\ <<d>> \o rest \in Seq(Nat)
        BY <2>3
      <4>4. Total(<<d>> \o rest) = Total(<<d>>) + Total(rest) /\ Total(<<d>>) = d
        BY <2>3, <4>3, TotalIs, Zenon
      <4> QED
        BY <4>1, <4>2, <4>3, <4>4
    <3> QED
      BY <3>2, <3>3
  <2>8. Total(wslices') = Len(given') - count'
    <3>1. (a - k) + Total(rest) = (a + Total(rest)) - k
      BY <2>3, <2>5
    <3>2. (Len(given) - count) - k = Len(given) - (count + k)
      BY <2>2, <2>3, <2>5
    <3> QED
      BY <1>1, <1>2, <2>3, <2>6, <2>7, <3>1, <3>2
  <2>9. SlicesLeft' /\ Reported'
    BY <2>6, <2>7, <2>8 DEF SlicesLeft, Reported
  <2> QED
    BY <1>1, <1>2, <2>5, <2>9, SameCall
<1> QED
  BY <1>3, <1>4, <1>5

\* What the reader of a pipe has.
LEMMA LoopPipeInv == ASSUME WriteLoopsInv, LoopPipe PROVE WriteLoopsInv'
<1>1. WriterInv /\ Accepted /\ wpc = "loop" /\ wcall.op = "pipe_from"
  BY DEF LoopPipe, WriteLoopsInv
<1>2. UNCHANGED <<wcall, given, worigin>>
  BY DEF LoopPipe
<1>3. PICK k \in 0..Len(Left) : PipeFromOnce(Prefix(Left, k)) /\ Took(k)
  BY DEF LoopPipe
<1>4. given \in Seq(Nat) /\ count \in 0..Len(given)
  BY <1>1 DEF Accepted
<1>5. Len(Left) = Len(given) - count
  BY <1>4, LeftIs DEF Left
<1>6. k \in 0..(Len(given) - count) /\ k \in 0..k
  BY <1>3, <1>4, <1>5
<1> DEFINE q == Prefix(Left, k)
<1>7. /\ q \in Seq(Nat) /\ Len(q) = k
      /\ Prefix(q, k) \in Seq(Nat) /\ Len(Prefix(q, k)) = k
      /\ \A i \in 1..k : Prefix(q, k)[i] = given[count + i]
  BY <1>4, <1>6, LeftIs, Zenon DEF Left
<1> HIDE DEF q
<1>8. \A i \in 1..k : q[i] = given[count + i]
  <2>1. \A i \in 1..k : Prefix(q, k)[i] = q[i]
    BY <1>6, <1>7 DEF Prefix
  <2> QED
    BY <1>7, <2>1
<1>9. WriterInv' /\ Puts(q)
  BY <1>1, <1>3, <1>7, PipeStep DEF q
<1>10. Accepted' /\ wpc' \in {"loop", "end"}
  BY <1>1, <1>2, <1>3, <1>6, <1>7, <1>8, <1>9, PutsMore DEF Took
<1>11. SlicesLeft' /\ Reported'
  BY <1>1, <1>2, <1>10 DEF SlicesLeft, Reported, WVectored
<1> QED
  BY <1>1, <1>2, <1>9, <1>10, <1>11, SameCall

\* A write that fails.
LEMMA LoopWriteErrorInv ==
  ASSUME WriteLoopsInv, NEW kind \in {"Interrupted", "Other"}, LoopWriteError(kind)
  PROVE  WriteLoopsInv'
<1>1. WriterInv /\ Accepted /\ wpc = "loop"
  BY DEF LoopWriteError, WriteLoopsInv
<1>2. UNCHANGED <<wcall, given, count, worigin>>
  BY DEF LoopWriteError
<1>3. (\E buf : WriteFails(buf)) \/ PipeFails
  <2>1. \/ WriteFails(Left) \/ WriteFails(Prefix(Left, FirstSlice(wslices)))
        \/ WriteFails(Prefix(Left, Head(wslices))) \/ PipeFails
    BY DEF LoopWriteError
  <2> QED
    BY <2>1, Zenon
<1>4. WriterInv' /\ Want' = Want /\ WCursor' = WCursor
  <2>1. ASSUME NEW buf, WriteFails(buf) PROVE WriterInv' /\ Want' = Want /\ WCursor' = WCursor
    BY <1>1, <2>1, FailsStep DEF WriteFails
  <2> QED
    BY <1>1, <1>3, <2>1, PipeFailsStep
<1>5. Accepted'
  BY <1>1, <1>2, <1>4, PutsNothing
<1>6. wpc' = "end" \/ (wpc' = "done" /\ wret' = [ok |-> FALSE, err |-> "Other"])
  BY DEF LoopWriteError
<1>7. SlicesLeft' /\ Reported'
  BY <1>6 DEF SlicesLeft, Reported
<1> QED
  BY <1>1, <1>2, <1>4, <1>5, <1>7, SameCall

\* The end of a call. What it says is what it did.
LEMMA EndsInv ==
  ASSUME WriteLoopsInv, NEW ops, NEW result, Ends(ops, result),
         /\ result.ok => result.n = count
         /\ result.ok /\ wcall.op \in MustWriteAll => count = Len(given)
         /\ ~result.ok /\ result.err = "Interrupted" /\ wcall.op \notin MustWriteAll => count = 0
  PROVE  WriteLoopsInv'
<1>1. WriterInv /\ Accepted /\ wpc = "end"
  BY DEF Ends, WriteLoopsInv
<1>2. wpc' = "done" /\ wret' = result /\ UNCHANGED <<wvars, wcall, given, count, worigin>>
  BY DEF Ends
<1>3. SlicesLeft' /\ Reported'
  BY <1>2 DEF SlicesLeft, Reported
<1> QED
  BY <1>1, <1>2, <1>3, WriterKept, PutsNothing, SameCall

\* Nothing is left when all was written.
LEMMA NothingLeft == ASSUME Accepted, ~(Left # <<>>) PROVE count = Len(given)
<1>1. given \in Seq(Nat) /\ count \in 0..Len(given)
  BY DEF Accepted
<1>2. Len(Left) = Len(given) - count
  BY <1>1, LeftIs DEF Left
<1> QED
  BY <1>1, <1>2

\* The results of the methods.
LEMMA EndInv ==
  ASSUME WriteLoopsInv, EndTryWriteAll \/ EndWriteAll \/ EndWriteVectored \/ EndPipe \/ EndFmt
  PROVE  WriteLoopsInv'
<1>1. wpc # "idle" => Accepted
  BY DEF WriteLoopsInv
<1> DEFINE c == CheckInterruptIfZero(count, winterrupted)
           f == ShortIoError(winterrupted)
<1>2. c.ok => c.n = count
  BY DEF CheckInterruptIfZero
<1>3. ~c.ok => count = 0
  BY DEF CheckInterruptIfZero
<1>4. f.ok = FALSE
  BY DEF ShortIoError
<1>5. Counted.ok = TRUE /\ Counted.n = count
  BY DEF Counted
<1> HIDE DEF c, f
<1>6. CASE EndTryWriteAll
  <2>1. Ends({"try_write_all"} \cup WTyped, c)
    BY <1>6 DEF EndTryWriteAll, c
  <2>2. wcall.op \notin MustWriteAll
    BY <2>1 DEF Ends, WTyped, MustWriteAll
  <2> QED
    BY <1>2, <1>3, <2>1, <2>2, EndsInv
<1>7. CASE EndWriteAll
  <2>1. Ends({"write_all"}, IF Left # <<>> THEN f ELSE c)
    BY <1>7 DEF EndWriteAll, c, f
  <2>2. wcall.op \in MustWriteAll /\ wpc = "end"
    BY <2>1 DEF Ends, MustWriteAll
  <2>3. CASE Left # <<>>
    BY <1>4, <2>1, <2>2, <2>3, EndsInv
  <2>4. CASE ~(Left # <<>>)
    BY <1>1, <1>2, <2>1, <2>2, <2>4, EndsInv, NothingLeft
  <2> QED
    BY <2>3, <2>4
<1>8. CASE EndWriteVectored
  <2>1. CASE Ends({"try_write_all_vectored"}, Counted)
    <3>1. wcall.op \notin MustWriteAll
      BY <2>1 DEF Ends, MustWriteAll
    <3> QED
      BY <1>5, <2>1, <3>1, EndsInv
  <2>2. CASE Ends({"write_all_vectored"}, IF Left # <<>> THEN f ELSE Counted)
    <3>1. wcall.op \in MustWriteAll /\ wpc = "end"
      BY <2>2 DEF Ends, MustWriteAll
    <3>2. CASE Left # <<>>
      BY <1>4, <2>2, <3>1, <3>2, EndsInv
    <3>3. CASE ~(Left # <<>>)
      BY <1>1, <1>5, <2>2, <3>1, <3>3, EndsInv, NothingLeft
    <3> QED
      BY <3>2, <3>3
  <2> QED
    BY <1>8, <2>1, <2>2 DEF EndWriteVectored, f
<1>9. CASE EndPipe
  <2>1. wcall.op \notin MustWriteAll /\ Ends({"pipe_from"}, Counted)
    BY <1>9 DEF EndPipe, Ends, MustWriteAll
  <2> QED
    BY <1>5, <2>1, EndsInv
<1>10. CASE EndFmt
  <2>1. Ends({"write_fmt"}, IF Left # <<>> THEN f ELSE Counted)
    BY <1>10 DEF EndFmt, f
  <2>2. wcall.op \in MustWriteAll /\ wpc = "end"
    BY <2>1 DEF Ends, MustWriteAll
  <2>3. CASE Left # <<>>
    BY <1>4, <2>1, <2>2, <2>3, EndsInv
  <2>4. CASE ~(Left # <<>>)
    BY <1>1, <1>5, <2>1, <2>2, <2>4, EndsInv, NothingLeft
  <2> QED
    BY <2>3, <2>4
<1> QED
  BY <1>6, <1>7, <1>8, <1>9, <1>10

\* Every step keeps the invariant.
LEMMA WriteLoopsStep ==
  WriteLoopsInv /\ [WriteLoopsNext]_<<wvars, wcvars>> => WriteLoopsInv'
<1> SUFFICES ASSUME WriteLoopsInv, [WriteLoopsNext]_<<wvars, wcvars>> PROVE WriteLoopsInv'
  OBVIOUS
<1>0. WriterInv
  BY DEF WriteLoopsInv
<1>1. CASE UNCHANGED <<wvars, wcvars>>
  <2>1. UNCHANGED wvars /\ UNCHANGED <<wpc, wcall, given, count, wslices, worigin, wret>>
    BY <1>1 DEF wcvars
  <2>2. CASE wpc = "idle"
    BY <1>0, <2>1, <2>2, WriterKept DEF WriteLoopsInv
  <2>3. CASE wpc # "idle"
    <3>1. Accepted /\ SlicesLeft /\ Reported
      BY <2>3 DEF WriteLoopsInv
    <3>2. SlicesLeft' /\ Reported'
      BY <2>1, <3>1 DEF SlicesLeft, Reported
    <3> QED
      BY <1>0, <2>1, <2>3, <3>1, <3>2, WriterKept, PutsNothing, SameCall
  <2> QED
    BY <2>2, <2>3
<1>2. CASE wpc = "idle" /\ WriterNext /\ UNCHANGED wcvars
  <2>1. WriterInv' /\ wpc' = "idle"
    BY <1>0, <1>2, WriterNextStep DEF wcvars
  <2> QED
    BY <2>1 DEF WriteLoopsInv
<1>3. ASSUME NEW op \in WWhole, NEW bytes \in Given, StartWhole(op, bytes) PROVE WriteLoopsInv'
  BY <1>0, <1>3, StartPlainInv DEF StartWhole
<1>4. ASSUME NEW op \in WVectored, NEW bytes \in Given, NEW k \in 0..WCap, k <= Len(bytes),
             StartVectored(op, bytes, k)
      PROVE  WriteLoopsInv'
  <2>1. k \in Nat
    BY WriterAssumption
  <2> QED
    BY <1>0, <1>4, <2>1, StartVectoredInv
<1>5. ASSUME NEW bytes \in Given, NEW k \in 0..WCap, k <= Len(bytes), StartFmt(bytes, k)
      PROVE  WriteLoopsInv'
  <2>1. k \in Nat
    BY WriterAssumption
  <2> QED
    BY <1>0, <1>5, <2>1, StartFmtInv
<1>6. ASSUME NEW op \in WTyped, NEW n \in 0..(Power(WBase, WWidth) - 1), StartTyped(op, n)
      PROVE  WriteLoopsInv'
  BY <1>0, <1>6, StartTypedInv
<1>7. ASSUME NEW bytes \in Given, StartPipe(bytes) PROVE WriteLoopsInv'
  BY <1>0, <1>7, StartPlainInv DEF StartPipe
<1>8. CASE WReturn
  <2>1. wpc' = "idle" /\ UNCHANGED wvars
    BY <1>8 DEF WReturn
  <2> QED
    BY <1>0, <2>1, WriterKept DEF WriteLoopsInv
<1>9. CASE WInterrupt
  <2>1. /\ wpc \in {"loop", "end"} /\ UNCHANGED wvars
        /\ UNCHANGED <<wpc, wcall, given, count, wslices, worigin, wret>>
    BY <1>9 DEF WInterrupt
  <2>2. Accepted /\ SlicesLeft /\ Reported /\ wpc # "idle"
    BY <2>1 DEF WriteLoopsInv
  <2>3. SlicesLeft' /\ Reported'
    BY <2>1, <2>2 DEF SlicesLeft, Reported
  <2> QED
    BY <1>0, <2>1, <2>2, <2>3, WriterKept, PutsNothing, SameCall
<1>10. CASE \/ LoopWriteAll \/ LoopWriteVectored \/ LoopFmt \/ LoopPipe
            \/ \E kind \in {"Interrupted", "Other"} : LoopWriteError(kind)
  BY <1>10, LoopWriteAllInv, LoopWriteVectoredInv, LoopFmtInv, LoopPipeInv, LoopWriteErrorInv
<1>11. CASE EndTryWriteAll \/ EndWriteAll \/ EndWriteVectored \/ EndPipe \/ EndFmt
  BY <1>11, EndInv
<1> QED
  BY <1>1, <1>2, <1>3, <1>4, <1>5, <1>6, <1>7, <1>8, <1>9, <1>10, <1>11, Zenon DEF WriteLoopsNext

\* The invariant is the property.
LEMMA WriteLoopsInvExact == WriteLoopsInv => WriteExact
<1> SUFFICES ASSUME WriteLoopsInv, wpc = "done" PROVE WriteExact
  BY DEF WriteExact
<1>1. WriterInv /\ Accepted /\ Digits /\ Reported
  BY DEF WriteLoopsInv
<1>2. /\ given \in Seq(Nat) /\ count \in Nat /\ Len(given) \in Nat /\ count <= Len(given) /\ worigin \in Nat
      /\ WCursor = worigin + count /\ WCursor - worigin = count
      /\ Want \in Seq(Nat)
  BY <1>1, WantType DEF Accepted
<1>3. Written = Prefix(given, count)
  <2>1. \A i \in 1..count : worigin + i <= Len(Want) /\ Want[worigin + i] = given[i]
    BY <1>1 DEF Accepted
  <2>2. CASE count = 0
    <3>1. SubSeq(Want, worigin + 1, worigin) = <<>> /\ SubSeq(given, 1, 0) = <<>>
      BY <1>2
    <3> QED
      BY <1>2, <2>2, <3>1 DEF Written, Prefix
  <2>3. CASE count # 0
    <3>1. worigin + count <= Len(Want) /\ worigin + 1 \in 1..(worigin + count)
      BY <1>2, <2>1, <2>3
    <3>2. /\ Written \in Seq(Nat) /\ Len(Written) = count
          /\ \A i \in 1..count : Written[i] = Want[worigin + i]
      <4>1. PICK c \in Nat : c = worigin + count
        BY <1>2
      <4>2. Written = SubSeq(Want, worigin + 1, c)
        BY <1>2, <4>1 DEF Written
      <4>3. /\ worigin + 1 \in 1..(c + 1) /\ c \in worigin..Len(Want)
            /\ c - (worigin + 1) + 1 = count /\ \A i \in 1..count : (worigin + 1) + i - 1 = worigin + i
        BY <1>2, <3>1, <4>1
      <4>4. /\ SubSeq(Want, worigin + 1, c) \in Seq(Nat)
            /\ Len(SubSeq(Want, worigin + 1, c)) = c - (worigin + 1) + 1
            /\ \A i \in 1..(c - (worigin + 1) + 1) :
                 SubSeq(Want, worigin + 1, c)[i] = Want[(worigin + 1) + i - 1]
        BY <1>2, <4>3, SubSeqProperties
      <4> QED
        BY <4>2, <4>3, <4>4
    <3>3. /\ Prefix(given, count) \in Seq(Nat) /\ Len(Prefix(given, count)) = count
          /\ \A i \in 1..count : Prefix(given, count)[i] = given[i]
      BY <1>2 DEF Prefix
    <3>4. \A i \in 1..count : Written[i] = Prefix(given, count)[i]
      BY <2>1, <3>2, <3>3
    <3> QED
      BY <3>2, <3>3, <3>4, SeqEqual
  <2> QED
    BY <2>2, <2>3
<1>4. Len(given) = count => Prefix(given, count) = given
  BY <1>2, SubSeqFull DEF Prefix
<1>5. wcall.op = "write_type_le" /\ count = WWidth => FromLe(WBase, Written) = wcall.val
  BY <1>1, <1>3, <1>4 DEF Digits
<1>6. wcall.op = "write_type_be" /\ count = WWidth => FromBe(WBase, Written) = wcall.val
  BY <1>1, <1>3, <1>4 DEF Digits
<1> QED
  BY <1>1, <1>2, <1>3, <1>5, <1>6 DEF WriteExact, Reported

\* The writer's methods put into the file what they are given and say how much, whatever the
\* writer below takes or fails at and whenever a signal comes, on writers that seek in their
\* buffer too.
THEOREM WritesExact == WriteLoopsSpec => []WriteExact
<1>1. WriteLoopsInit => WriteLoopsInv
  BY WriterInitInv DEF WriteLoopsInit, WriteLoopsInv
<1>2. WriteLoopsInv /\ [WriteLoopsNext]_<<wvars, wcvars>> => WriteLoopsInv'
  BY WriteLoopsStep
<1>3. WriteLoopsInv => WriteExact
  BY WriteLoopsInvExact
<1> QED
  BY <1>1, <1>2, <1>3, PTL DEF WriteLoopsSpec

-----------------------------------------------------------------------------
(* ReadLoops: what a call has is what the stream has *)

\* What a call has are the bytes from the cursor it began at up to the cursor.
Plain ==
    /\ origin \in Nat /\ Len(acc) \in Nat
    /\ acc = Bytes(origin, Len(acc)) /\ Cursor = origin + Len(acc)

Holding == Plain /\ (call.op \in Whole \cup Typed => Len(acc) <= call.n)

\* A typed read that found its number in the buffer has loaded the bytes behind it too.
Loaded ==
    /\ rpc = "end" /\ call.op \in Typed /\ origin \in Nat
    /\ acc = Bytes(origin, call.load) /\ origin + call.load <= StreamLen /\ Cursor = origin + call.n

KnownCall ==
    /\ call.op \in Whole => call.n \in Nat \ {0}
    /\ call.op \in Typed =>
         call.n \in 1..Width /\ call.load \in Nat /\ call.load \in {call.n, Width} /\ call.le \in BOOLEAN
    /\ call.op = "read_line" => call.held \in Seq(Int)

\* The vector has room or is full; only read_to_end has zeroes behind its bytes, or probes.
VectorRoom ==
    /\ rpc \in {"loop", "probe"} /\ call.op \in ToEnd => vcap \in Nat /\ Len(acc) <= vcap
    /\ rpc = "probe" => call.op \in ToEnd
    /\ call.op \notin ToEnd => pad = 0

\* The buffers that are left have the room that is left.
RoomLeft ==
    call.op \in Vectored =>
        /\ slices \in Seq(Nat) /\ Total(slices) + Len(acc) = Total(call.lens)
        /\ slices = <<>> \/ Total(slices) > 0
        /\ Total(call.lens) > 0

\* There is nothing more to read, or an error said so.
LoopOver == Cursor = StreamLen \/ cut

\* Why a call ended.
Ended ==
    /\ rpc = "fill" => call.op \in Until /\ Buffer = <<>>
    /\ rpc = "end" /\ call.op \in Whole \cup Typed => Len(acc) >= call.n \/ LoopOver
    /\ rpc = "end" /\ call.op \in Vectored => slices = <<>> \/ LoopOver
    /\ rpc = "end" /\ call.op \in ToEnd => LoopOver \/ interrupted
    /\ rpc = "end" /\ call.op \in Until =>
         Cursor = StreamLen \/ (Len(acc) > 0 /\ origin + Len(acc) - 1 \in Delim)

LoopsInv ==
    /\ ReaderInv /\ ReadExact
    /\ rpc \in {"loop", "probe", "fill", "end"} =>
         (Holding \/ Loaded) /\ KnownCall /\ VectorRoom /\ RoomLeft /\ Ended

-----------------------------------------------------------------------------

\* Consecutive bytes, and those behind them.
LEMMA BytesAre ==
  ASSUME NEW p \in Int, NEW k \in Nat
  PROVE  Bytes(p, k) \in Seq(Int) /\ Len(Bytes(p, k)) = k /\ \A i \in 1..k : Bytes(p, k)[i] = p + i - 1
  BY DEF Bytes

\* Two pieces of the stream, one after the other, are one piece.
LEMMA BytesJoin ==
  ASSUME NEW p \in Int, NEW k \in Nat, NEW m \in Nat
  PROVE  Bytes(p, k) \o Bytes(p + k, m) = Bytes(p, k + m)
<1> DEFINE a == Bytes(p, k)
           b == Bytes(p + k, m)
           c == Bytes(p, k + m)
<1>1. /\ p + k \in Int /\ k + m \in Nat
      /\ a \in Seq(Int) /\ Len(a) = k /\ \A i \in 1..k : a[i] = p + i - 1
  BY BytesAre
<1>2. /\ b \in Seq(Int) /\ Len(b) = m /\ \A i \in 1..m : b[i] = (p + k) + i - 1
  BY <1>1, BytesAre
<1>3. /\ c \in Seq(Int) /\ Len(c) = k + m /\ \A i \in 1..(k + m) : c[i] = p + i - 1
  BY <1>1, BytesAre
<1> HIDE DEF a, b, c
<1>4. /\ a \o b \in Seq(Int) /\ Len(a \o b) = k + m
      /\ \A i \in 1..(k + m) : (a \o b)[i] = IF i <= k THEN a[i] ELSE b[i - k]
  BY <1>1, <1>2, ConcatProperties
<1>5. \A i \in 1..(k + m) : (a \o b)[i] = c[i]
  <2> SUFFICES ASSUME NEW i \in 1..(k + m) PROVE (a \o b)[i] = c[i]
    OBVIOUS
  <2>1. CASE i <= k
    <3>1. i \in 1..k
      BY <2>1
    <3> QED
      BY <1>1, <1>3, <1>4, <2>1, <3>1
  <2>2. CASE ~(i <= k)
    <3>1. i - k \in 1..m /\ (p + k) + (i - k) - 1 = p + i - 1
      BY <2>2
    <3> QED
      BY <1>2, <1>3, <1>4, <2>2, <3>1
  <2> QED
    BY <2>1, <2>2
<1> QED
  BY <1>3, <1>4, <1>5, SeqEqual DEF a, b, c

\* Steps that leave the reader alone.
LEMMA ReaderKept == ASSUME ReaderInv, UNCHANGED rvars PROVE ReaderInv' /\ Cursor' = Cursor
  BY DEF rvars, fast, ReaderInv, ReaderTypeOK, Before, Cursor, Buffer

\* The cursor is in the stream.
LEMMA CursorIn == ASSUME ReaderInv PROVE Cursor \in Nat /\ Cursor <= StreamLen
  BY BufferIs, ReaderAssumption DEF ReaderInv, ReaderTypeOK

\* No step takes the cursor out of the stream.
LEMMA CursorStaysIn == ASSUME ReaderInv' PROVE Cursor' \in Nat /\ Cursor' <= StreamLen
  BY CursorAfter, ReaderAssumption DEF ReaderInv, ReaderTypeOK

\* Bytes that are delivered join the ones before.
LEMMA GotMore ==
  ASSUME ReaderInv, Plain, NEW k \in Nat, Delivers(k), acc' = acc \o res'.bytes, origin' = origin
  PROVE  Plain' /\ Len(acc') = Len(acc) + k /\ Len(res'.bytes) = k
<1>1. /\ origin \in Nat /\ Len(acc) \in Nat /\ acc = Bytes(origin, Len(acc)) /\ Cursor = origin + Len(acc)
      /\ Cursor \in Int /\ Cursor' = Cursor + k
  BY CursorIn DEF Plain, Delivers
<1>2. res'.bytes = Bytes(Cursor, k)
  BY DEF Delivers, ReadResult
<1>3. acc' = Bytes(origin, Len(acc) + k)
  <2>1. PICK n \in Nat : n = Len(acc)
    BY <1>1
  <2>0. origin \in Int
    BY <1>1
  <2>2. Bytes(origin, n) \o Bytes(origin + n, k) = Bytes(origin, n + k)
    BY <2>0, <2>1, BytesJoin
  <2> QED
    BY <1>1, <1>2, <2>1, <2>2, Zenon
<1>4. Len(acc') = Len(acc) + k /\ Len(res'.bytes) = k
  <2>1. PICK n \in Nat : n = Len(acc) + k
    BY <1>1
  <2>2. origin \in Int
    BY <1>1
  <2>3. Len(Bytes(origin, n)) = n /\ Len(Bytes(Cursor, k)) = k
    BY <1>1, <2>2, BytesAre
  <2> QED
    BY <1>2, <1>3, <2>1, <2>3, Zenon
<1>5. Cursor' = origin' + Len(acc')
  BY <1>1, <1>4
<1> QED
  BY <1>1, <1>3, <1>4, <1>5 DEF Plain

\* A read within a call. It gives nothing only at the end.
LEMMA ReadGot ==
  ASSUME ReaderInv, Plain, NEW n \in Nat, n > 0, Read(n), acc' = acc \o res'.bytes, origin' = origin
  PROVE  /\ ReaderInv' /\ Plain' /\ Len(res'.bytes) \in 0..n /\ Len(acc') = Len(acc) + Len(res'.bytes)
         /\ res'.bytes = <<>> => Cursor' = StreamLen
<1>1. PICK k \in 0..n : Delivers(k) /\ (k = 0 => Cursor = StreamLen)
  BY ReadStep
<1>2. Plain' /\ Len(acc') = Len(acc) + k /\ Len(res'.bytes) = k /\ ReaderInv'
  BY <1>1, GotMore, ReadStep
<1>3. res'.bytes = <<>> => k = 0
  BY <1>2
<1>4. k = 0 => Cursor' = Cursor
  BY <1>1, CursorIn DEF Delivers
<1> QED
  BY <1>1, <1>2, <1>3, <1>4

\* A step that delivers nothing.
LEMMA SameBytes ==
  ASSUME Plain, Cursor' = Cursor, UNCHANGED <<acc, origin>>
  PROVE  Plain'
  BY DEF Plain

\* A call that is not done has nothing to report.
LEMMA NotDone == ASSUME rpc' # "done" PROVE ReadExact'
  BY DEF ReadExact, CallExact, TypedExact

\* A step of a call that goes on.
LEMMA MidStep ==
  ASSUME LoopsInv, rpc \in {"loop", "probe", "fill", "end"}, UNCHANGED <<call, origin>>, ReaderInv',
         rpc' # "done", Holding' \/ Loaded', VectorRoom', RoomLeft', Ended'
  PROVE  LoopsInv'
<1>1. KnownCall'
  BY DEF LoopsInv, KnownCall
<1> QED
  BY <1>1, NotDone DEF LoopsInv

\* In the loops the bytes are where the cursor is.
LEMMA InLoop ==
  ASSUME LoopsInv, rpc \in {"loop", "probe", "fill"}
  PROVE  ReaderInv /\ Holding /\ Plain /\ KnownCall /\ VectorRoom /\ RoomLeft /\ Ended /\ Len(acc) \in Nat
  BY DEF LoopsInv, Loaded, Holding, Plain

\* A call begins with no bytes.
LEMMA BeginInv ==
  ASSUME LoopsInv, NEW c, Begin(c),
         c.op \in Whole => c.n \in Nat \ {0},
         c.op \in Typed =>
           c.n \in 1..Width /\ c.load \in Nat /\ c.load \in {c.n, Width} /\ c.le \in BOOLEAN,
         c.op \in Vectored => c.lens \in Seq(Nat) /\ Total(c.lens) > 0,
         c.op = "read_line" => c.held \in Seq(Int)
  PROVE  LoopsInv'
<1>1. ReaderInv' /\ Cursor' = Cursor /\ Cursor \in Nat
  BY ReaderKept, CursorIn DEF Begin, LoopsInv
<1>2. /\ call' = c /\ acc' = <<>> /\ pad' = 0 /\ vcap' = 0 /\ origin' = Cursor /\ rpc' = "loop"
      /\ slices' = IF c.op \in Vectored THEN c.lens ELSE <<>>
  BY DEF Begin
<1>3. Len(acc') = 0
  BY <1>2
<1>4. Holding'
  <2>1. Cursor + 0 = Cursor /\ 0 \in Nat /\ Bytes(Cursor, 0) = <<>>
    BY <1>1 DEF Bytes
  <2>2. Plain'
    BY <1>1, <1>2, <1>3, <2>1 DEF Plain
  <2>3. call'.op \in Whole \cup Typed => Len(acc') <= call'.n
    BY <1>2, <1>3
  <2> QED
    BY <2>2, <2>3 DEF Holding
<1>5. KnownCall'
  BY <1>2 DEF KnownCall
<1>6. VectorRoom' /\ Ended'
  BY <1>2, <1>3 DEF VectorRoom, Ended, LoopOver
<1>7. RoomLeft'
  <2> SUFFICES ASSUME c.op \in Vectored PROVE RoomLeft'
    BY <1>2 DEF RoomLeft
  <2>1. Total(c.lens) \in Nat /\ slices' = c.lens
    BY <1>2, TotalIs
  <2>2. \A t \in Nat : t + 0 = t
    OBVIOUS
  <2> QED
    BY <1>2, <1>3, <2>1, <2>2 DEF RoomLeft
<1> QED
  BY <1>1, <1>2, <1>4, <1>5, <1>6, <1>7, NotDone DEF LoopsInv

\* The room of two buffers.
LEMMA TwoBuffers ==
  ASSUME NEW a \in Nat, NEW b \in Nat
  PROVE  <<a, b>> \in Seq(Nat) /\ Total(<<a, b>>) = a + b
<1>1. <<a>> \in Seq(Nat) /\ <<b>> \in Seq(Nat)
  OBVIOUS
<1>3. <<a, b>> \in Seq(Nat) 
  OBVIOUS
<1>4. Len(<<a>> \o <<b>>) = 2 /\ (<<a>> \o <<b>>)[1] = a /\ (<<a>> \o <<b>>)[2] = b /\ <<a>> \o <<b>> \in Seq(Nat)
  OBVIOUS
<1>5. <<a, b>> = <<a>> \o <<b>>
  <2>1. \A i \in 1..2 : i = 1 \/ i = 2
    OBVIOUS
  <2>2. Len(<<a, b>>) = 2 /\ <<a, b>>[1] = a /\ <<a, b>>[2] = b
    OBVIOUS
  <2>3. \A i \in 1..2 : <<a, b>>[i] = (<<a>> \o <<b>>)[i]
    BY <1>4, <2>1, <2>2, Zenon
  <2> QED
    BY <1>3, <1>4, <2>2, <2>3, SeqEqual, Zenon
<1>2. Total(<<a>> \o <<b>>) = Total(<<a>>) + Total(<<b>>) /\ Total(<<a>>) = a /\ Total(<<b>>) = b
  BY <1>1, TotalIs, Zenon
<1> QED
  BY <1>3, <1>5, <1>2, Zenon

\* The room of three buffers.
LEMMA ThreeBuffers ==
  ASSUME NEW a \in Nat, NEW b \in Nat, NEW d \in Nat
  PROVE  <<a, b, d>> \in Seq(Nat) /\ Total(<<a, b, d>>) = a + (b + d)
<1>1. <<a>> \in Seq(Nat) /\ <<b, d>> \in Seq(Nat)
  OBVIOUS
<1>3. <<a, b, d>> \in Seq(Nat) 
  OBVIOUS
<1>6. Len(<<a>>) = 1 /\ Len(<<b, d>>) = 2 /\ <<a>>[1] = a /\ <<b, d>>[1] = b /\ <<b, d>>[2] = d
  OBVIOUS
<1>4. /\ Len(<<a>> \o <<b, d>>) = 3
      /\ (<<a>> \o <<b, d>>)[1] = a
      /\ (<<a>> \o <<b, d>>)[2] = b
      /\ (<<a>> \o <<b, d>>)[3] = d
      /\ <<a>> \o <<b, d>> \in Seq(Nat)
  <2> DEFINE p == <<a>>
             q == <<b, d>>
  <2>1. /\ Len(p \o q) = Len(p) + Len(q) /\ p \o q \in Seq(Nat)
        /\ \A i \in 1..(Len(p) + Len(q)) : (p \o q)[i] = IF i <= Len(p) THEN p[i] ELSE q[i - Len(p)]
    BY <1>1, ConcatProperties
  <2> HIDE DEF p, q
  <2>2. Len(p) = 1 /\ Len(q) = 2 /\ p[1] = a /\ q[1] = b /\ q[2] = d
    BY <1>6, Zenon DEF p, q
  <2>3. /\ Len(p \o q) = 3 /\ (p \o q)[1] = a /\ (p \o q)[2] = b /\ (p \o q)[3] = d /\ p \o q \in Seq(Nat)
    BY <2>1, <2>2
  <2> QED
    BY <2>3, Zenon DEF p, q
<1>5. <<a, b, d>> = <<a>> \o <<b, d>>
  <2>1. \A i \in 1..3 : i = 1 \/ i = 2 \/ i = 3
    OBVIOUS
  <2>2. Len(<<a, b, d>>) = 3 /\ <<a, b, d>>[1] = a /\ <<a, b, d>>[2] = b /\ <<a, b, d>>[3] = d
    OBVIOUS
  <2>3. \A i \in 1..3 : <<a, b, d>>[i] = (<<a>> \o <<b, d>>)[i]
    BY <1>4, <2>1, <2>2, Zenon
  <2> QED
    BY <1>3, <1>4, <2>2, <2>3, SeqEqual, Zenon
<1>2. Total(<<a>> \o <<b, d>>) = Total(<<a>>) + Total(<<b, d>>) /\ Total(<<a>>) = a /\ Total(<<b, d>>) = b + d
  BY <1>1, TotalIs, TwoBuffers, Zenon
<1> QED
  BY <1>3, <1>5, <1>2, Zenon

\* The calls that are not typed.
LEMMA CallsInv == ASSUME LoopsInv, NEW c \in Calls, Begin(c) PROVE LoopsInv'
<1>0. Cap \in Nat /\ Cap > 0 /\ StreamLen \in Nat /\ 0 \in Nat /\ 1 \in Nat /\ 2 \in Nat
  BY ReaderAssumption
<1>1. CASE c \in [op : Whole, n : 1..(StreamLen + 1)]
  <2>1. c.op \in Whole /\ c.n \in Nat \ {0}
    BY <1>0, <1>1
  <2> QED
    BY <2>1, BeginInv DEF Whole, Typed, Vectored
<1>2. CASE c \in [op : Vectored, lens : {<<1, 2>>, <<0, Cap>>, <<1, 0, 1>>}]
  <2>1. c.op \in Vectored /\ c.lens \in {<<1, 2>>, <<0, Cap>>, <<1, 0, 1>>}
    BY <1>2
  <2>2. \A a, b \in Nat : <<a, b>> \in Seq(Nat) /\ Total(<<a, b>>) = a + b
    BY TwoBuffers
  <2>3. <<1, 0, 1>> \in Seq(Nat) /\ Total(<<1, 0, 1>>) > 0
    <3>1. \A a, b, d \in Nat : <<a, b, d>> \in Seq(Nat) /\ Total(<<a, b, d>>) = a + (b + d)
      BY ThreeBuffers
    <3>2. <<1, 0, 1>> \in Seq(Nat) /\ Total(<<1, 0, 1>>) = 1 + (0 + 1)
      BY <1>0, <3>1, Zenon
    <3>3. 1 + (0 + 1) > 0
      OBVIOUS
    <3> QED
      BY <3>2, <3>3
  <2>4. Total(<<1, 2>>) > 0 /\ Total(<<0, Cap>>) > 0
    <3>1. Total(<<1, 2>>) = 1 + 2 /\ Total(<<0, Cap>>) = 0 + Cap
      BY <1>0, <2>2, Zenon
    <3>2. 1 + 2 > 0 /\ 0 + Cap > 0
      BY <1>0
    <3> QED
      BY <3>1, <3>2
  <2>5. c.lens \in Seq(Nat) /\ Total(c.lens) > 0
    BY <1>0, <2>1, <2>2, <2>3, <2>4
  <2> QED
    BY <2>1, <2>5, BeginInv DEF Whole, Typed, Vectored
<1>3. CASE c \in [op : ToEnd \cup {"read_until"}]
  <2>1. c.op \in ToEnd \cup {"read_until"}
    BY <1>3
  <2> QED
    BY <2>1, BeginInv DEF Whole, Typed, Vectored, ToEnd
<1> QED
  BY <1>1, <1>2, <1>3 DEF Calls

\* The typed calls.
LEMMA TypedInv ==
  ASSUME LoopsInv, NEW op \in Typed, NEW n \in 0..Width, NEW le \in BOOLEAN,
         (n > 0 /\ BeginTyped(op, n, le)) \/ BeginVfloat(op, n, le) \/ BeginVint(op, n, le)
  PROVE  LoopsInv'
<1>0. Width \in Nat /\ Width >= 2
  BY LoopAssumption
<1>1. op \notin Whole \cup Vectored /\ op # "read_line"
  BY DEF Typed, Whole, Vectored
<1>2. ASSUME NEW w \in {n, Width}, n > 0, Begin([op |-> op, n |-> n, load |-> w, le |-> le])
      PROVE  LoopsInv'
  <2> DEFINE c == [op |-> op, n |-> n, load |-> w, le |-> le]
  <2>1. c.op = op /\ c.n = n /\ c.load = w /\ c.le = le
    OBVIOUS
  <2> HIDE DEF c
  <2>2. n \in 1..Width /\ w \in Nat
    BY <1>0, <1>2
  <2>3. Begin(c)
    BY <1>2 DEF c
  <2> QED
    BY <1>1, <2>1, <2>2, <2>3, BeginInv
<1>3. CASE n > 0 /\ BeginTyped(op, n, le)
  BY <1>2, <1>3 DEF BeginTyped
<1>4. CASE BeginVfloat(op, n, le)
  <2>1. Width \div 2 > 0
    BY <1>0
  <2>2. n > 0 /\ BeginTyped(op, n, le)
    BY <1>0, <1>4, <2>1 DEF BeginVfloat
  <2> QED
    BY <1>2, <2>2 DEF BeginTyped
<1>5. CASE BeginVint(op, n, le)
  <2>1. CASE n > 0
    BY <1>2, <1>5, <2>1 DEF BeginVint
  <2>2. CASE ~(n > 0)
    <3>1. /\ rpc' = "done" /\ call' = [op |-> op, n |-> 0, load |-> Width, le |-> le]
          /\ ret' = [ok |-> TRUE, value |-> 0] /\ origin' = Cursor /\ UNCHANGED rvars
      BY <1>5, <2>2 DEF BeginVint
    <3>2. ReaderInv' /\ Cursor' = Cursor /\ Cursor \in Nat
      BY <3>1, ReaderKept, CursorIn DEF LoopsInv
    <3>3. CallExact'
      BY <3>1 DEF CallExact
    <3>4. FromBe(Base, <<>>) = 0 /\ FromLe(Base, <<>>) = 0
      <4>1. Base \in Nat /\ 0 \in Nat /\ Reverse(<<>>) = <<>>
        BY ReaderAssumption DEF Base, Reverse
      <4> QED
        BY <4>1, HornerNone DEF FromBe, FromLe
    <3>5. Bytes(Cursor, 0) = <<>> /\ Cursor - Cursor = 0
      BY <3>2 DEF Bytes
    <3>6. call'.n = 0 /\ call'.op = op /\ ret'.ok = TRUE /\ ret'.value = 0 /\ "none" \notin DOMAIN ret'
      BY <3>1
    <3>7. TypedExact'
      BY <3>1, <3>2, <3>4, <3>5, <3>6 DEF TypedExact
    <3> QED
      BY <3>1, <3>2, <3>3, <3>7 DEF LoopsInv, ReadExact
  <2> QED
    BY <2>1, <2>2
<1> QED
  BY <1>3, <1>4, <1>5

\* try_read_fully, and the loop of the typed reads.
LEMMA LoopWholeInv == ASSUME LoopsInv, LoopWhole PROVE LoopsInv'
<1>1. /\ rpc = "loop" /\ call.op \in Whole \cup Typed
      /\ UNCHANGED <<call, pad, vcap, slices, origin, ret, interrupted, cut>>
  BY DEF LoopWhole
<1>2. ReaderInv /\ Holding /\ Plain /\ KnownCall /\ VectorRoom /\ Len(acc) \in Nat
  BY <1>1, InLoop
<1>3. call.n \in Nat /\ Len(acc) <= call.n /\ call.op \notin ToEnd \cup Vectored \cup Until
  BY <1>1, <1>2, LoopAssumption DEF Holding, KnownCall, Whole, Typed, ToEnd, Vectored, Until
<1>4. CASE Len(acc) < call.n
  <2>1. Read(call.n - Len(acc)) /\ Got("loop")
    BY <1>4 DEF LoopWhole
  <2>2. call.n - Len(acc) \in Nat /\ call.n - Len(acc) > 0
    BY <1>2, <1>3, <1>4
  <2>3. /\ ReaderInv' /\ Plain' /\ Len(res'.bytes) \in 0..(call.n - Len(acc))
        /\ Len(acc') = Len(acc) + Len(res'.bytes) /\ (res'.bytes = <<>> => Cursor' = StreamLen)
    BY <1>1, <1>2, <2>1, <2>2, ReadGot DEF Got
  <2>4. Len(acc') <= call.n
    BY <1>2, <1>3, <2>3
  <2>5. rpc' \in {"loop", "end"} /\ (rpc' = "end" => Cursor' = StreamLen)
    BY <2>1, <2>3 DEF Got
  <2>6. Holding' /\ VectorRoom' /\ RoomLeft' /\ Ended'
    BY <1>1, <1>2, <1>3, <2>3, <2>4, <2>5 DEF Holding, VectorRoom, RoomLeft, Ended, LoopOver
  <2> QED
    BY <1>1, <2>3, <2>5, <2>6, MidStep
<1>5. CASE ~(Len(acc) < call.n)
  <2>1. rpc' = "end" /\ UNCHANGED <<rvars, acc>>
    BY <1>5 DEF LoopWhole
  <2>2. ReaderInv' /\ Cursor' = Cursor
    BY <1>2, <2>1, ReaderKept
  <2>3. Holding'
    BY <1>1, <1>2, <2>1, <2>2, SameBytes DEF Holding
  <2>4. Len(acc) >= call.n
    BY <1>2, <1>3, <1>5
  <2>5. VectorRoom' /\ RoomLeft' /\ Ended'
    BY <1>1, <1>2, <1>3, <2>1, <2>4 DEF VectorRoom, RoomLeft, Ended, LoopOver
  <2> QED
    BY <1>1, <2>1, <2>2, <2>3, <2>5, MidStep
<1> QED
  BY <1>4, <1>5

\* The number is in the buffer.
LEMMA LoopTypedFastInv == ASSUME LoopsInv, LoopTypedFast PROVE LoopsInv'
<1>1. /\ rpc = "loop" /\ call.op \in Typed /\ acc = <<>> /\ Len(Buffer) >= call.load /\ Consume(call.n)
      /\ acc' = SubSeq(Buffer, 1, call.load) /\ rpc' = "end"
      /\ UNCHANGED <<call, pad, vcap, slices, origin, ret, interrupted, cut>>
  BY DEF LoopTypedFast
<1>2. ReaderInv /\ Plain /\ KnownCall /\ VectorRoom
  BY <1>1, InLoop
<1>3. /\ call.n \in Nat /\ call.load \in Nat /\ call.n <= call.load
      /\ call.op \notin ToEnd \cup Vectored \cup Until
  BY <1>1, <1>2, LoopAssumption DEF KnownCall, Typed, ToEnd, Vectored, Until
<1>4. /\ origin \in Nat /\ Cursor = origin /\ Cursor \in Int
      /\ Buffer = Bytes(Cursor, end - start) /\ Len(Buffer) = end - start /\ end - start \in Nat
      /\ Cursor = ipos - (end - start) /\ ipos <= StreamLen /\ ipos \in Int /\ StreamLen \in Int
  BY <1>1, <1>2, BufferIs, ReaderAssumption DEF Plain, ReaderInv, ReaderTypeOK
<1>5. ReaderInv' /\ Delivers(call.n)
  BY <1>1, <1>2, <1>3, TakeStep DEF Consume
<1>6. acc' = Bytes(Cursor, call.load)
  <2>1. call.load \in 0..(end - start)
    BY <1>1, <1>3, <1>4
  <2>2. SubSeq(Bytes(Cursor, end - start), 1, call.load) = Bytes(Cursor, call.load)
    BY <1>4, <2>1, BytesPrefix
  <2> QED
    BY <1>1, <1>4, <2>2
<1>7. Len(acc') = call.load
  BY <1>3, <1>4, <1>6, BytesAre
<1>8. origin + call.load <= StreamLen
  BY <1>1, <1>3, <1>4
<1>9. Loaded'
  BY <1>1, <1>4, <1>5, <1>6, <1>8 DEF Loaded, Delivers
<1>10. VectorRoom' /\ RoomLeft' /\ Ended'
  BY <1>1, <1>2, <1>3, <1>7 DEF VectorRoom, RoomLeft, Ended, LoopOver
<1> QED
  BY <1>1, <1>5, <1>9, <1>10, MidStep

\* The first buffer with room is read into.
LEMMA LoopVectoredInv == ASSUME LoopsInv, LoopVectored PROVE LoopsInv'
<1>1. rpc = "loop" /\ call.op \in Vectored /\ UNCHANGED <<call, pad, vcap, origin, ret, interrupted, cut>>
  BY DEF LoopVectored
<1>2. ReaderInv /\ Plain /\ VectorRoom /\ RoomLeft /\ Len(acc) \in Nat
  BY <1>1, InLoop
<1>3. call.op \notin ToEnd \cup Whole \cup Typed \cup Until
  BY <1>1 DEF Whole, Typed, ToEnd, Vectored, Until
<1>4. /\ slices \in Seq(Nat) /\ Total(slices) + Len(acc) = Total(call.lens)
      /\ slices = <<>> \/ Total(slices) > 0
      /\ Total(call.lens) > 0
      /\ Total(slices) \in Nat
      /\ FirstSlice(slices) \in Nat /\ FirstSlice(slices) <= Total(slices)
      /\ Total(slices) > 0 => FirstSlice(slices) > 0
  BY <1>1, <1>2, TotalIs, FirstSliceIs DEF RoomLeft
<1>5. CASE slices # <<>> /\ FirstSlice(slices) # 0
  <2>1. /\ Read(FirstSlice(slices)) /\ Got("loop")
        /\ slices' = AdvanceSlices(slices, Len(res'.bytes))
    BY <1>5 DEF LoopVectored
  <2>2. FirstSlice(slices) > 0
    BY <1>4, <1>5
  <2>3. /\ ReaderInv' /\ Plain' /\ Len(res'.bytes) \in 0..FirstSlice(slices)
        /\ Len(acc') = Len(acc) + Len(res'.bytes) /\ (res'.bytes = <<>> => Cursor' = StreamLen)
    BY <1>1, <1>2, <1>4, <2>1, <2>2, ReadGot DEF Got
  <2>4. rpc' \in {"loop", "end"} /\ (rpc' = "end" => Cursor' = StreamLen)
    BY <2>1, <2>3 DEF Got
  <2>5. PICK k \in Nat : k = Len(res'.bytes) /\ k <= Total(slices)
    BY <1>4, <2>3
  <2>6. /\ AdvanceSlices(slices, k) \in Seq(Nat) /\ Total(AdvanceSlices(slices, k)) = Total(slices) - k
        /\ AdvanceSlices(slices, k) = <<>> \/ Total(AdvanceSlices(slices, k)) > 0
    BY <1>4, <2>5, AdvanceIs
  <2>7. slices' = AdvanceSlices(slices, k) /\ Len(acc') = Len(acc) + k
    BY <2>1, <2>3, <2>5
  <2>8. (Total(slices) - k) + (Len(acc) + k) = Total(slices) + Len(acc)
    BY <1>2, <1>4, <2>5
  <2>9. RoomLeft'
    BY <1>1, <1>4, <2>6, <2>7, <2>8 DEF RoomLeft
  <2>10. Holding' /\ VectorRoom' /\ Ended'
    BY <1>1, <1>2, <1>3, <2>3, <2>4 DEF Holding, VectorRoom, Ended, LoopOver
  <2> QED
    BY <1>1, <2>3, <2>4, <2>9, <2>10, MidStep
<1>6. CASE ~(slices # <<>> /\ FirstSlice(slices) # 0)
  <2>1. rpc' = "end" /\ UNCHANGED <<rvars, acc, slices>>
    BY <1>6 DEF LoopVectored
  <2>2. ReaderInv' /\ Cursor' = Cursor
    BY <1>2, <2>1, ReaderKept
  <2>3. slices = <<>>
    BY <1>4, <1>6
  <2>4. Holding'
    BY <1>1, <1>2, <1>3, <2>1, <2>2, SameBytes DEF Holding
  <2>5. VectorRoom' /\ RoomLeft' /\ Ended'
    BY <1>1, <1>2, <1>3, <2>1, <2>3 DEF VectorRoom, RoomLeft, Ended, LoopOver
  <2> QED
    BY <1>1, <2>1, <2>2, <2>4, <2>5, MidStep
<1> QED
  BY <1>5, <1>6

\* read_to_end: the vector has room for what is read.
LEMMA LoopToEndInv == ASSUME LoopsInv, LoopToEnd PROVE LoopsInv'
<1>1. rpc = "loop" /\ call.op \in ToEnd /\ UNCHANGED <<call, slices, origin, ret, interrupted, cut>>
  BY DEF LoopToEnd
<1>2. ReaderInv /\ Plain /\ VectorRoom /\ Len(acc) \in Nat
  BY <1>1, InLoop
<1>3. call.op \notin Vectored \cup Whole \cup Typed \cup Until
  BY <1>1 DEF Whole, Typed, ToEnd, Vectored, Until
<1>4. vcap \in Nat /\ Len(acc) <= vcap
  BY <1>1, <1>2 DEF VectorRoom
<1>5. CASE interrupted
  <2>1. rpc' = "end" /\ UNCHANGED <<rvars, acc, pad, vcap>>
    BY <1>5 DEF LoopToEnd
  <2>2. ReaderInv' /\ Cursor' = Cursor
    BY <1>2, <2>1, ReaderKept
  <2>3. Holding'
    BY <1>1, <1>2, <1>3, <2>1, <2>2, SameBytes DEF Holding
  <2>4. VectorRoom' /\ RoomLeft' /\ Ended'
    BY <1>1, <1>3, <1>5, <2>1 DEF VectorRoom, RoomLeft, Ended, LoopOver
  <2> QED
    BY <1>1, <2>1, <2>2, <2>3, <2>4, MidStep
<1>6. CASE ~interrupted
  <2>1. /\ vcap' = IF Len(acc) = vcap THEN vcap + Reserve ELSE vcap
        /\ Read(vcap' - Len(acc))
        /\ Got(IF Len(acc) + Len(res'.bytes) < vcap' THEN "loop" ELSE "probe")
    BY <1>6 DEF LoopToEnd
  <2>2. vcap' \in Nat /\ vcap' - Len(acc) \in Nat /\ vcap' - Len(acc) > 0
    BY <1>2, <1>4, <2>1, LoopAssumption
  <2>3. /\ ReaderInv' /\ Plain' /\ Len(res'.bytes) \in 0..(vcap' - Len(acc))
        /\ Len(acc') = Len(acc) + Len(res'.bytes) /\ (res'.bytes = <<>> => Cursor' = StreamLen)
    BY <1>1, <1>2, <2>1, <2>2, ReadGot DEF Got
  <2>4. Len(acc') <= vcap'
    BY <1>2, <2>2, <2>3
  <2>5. rpc' \in {"loop", "probe", "end"} /\ (rpc' = "end" => Cursor' = StreamLen)
    BY <2>1, <2>3 DEF Got
  <2>6. Holding' /\ VectorRoom' /\ RoomLeft' /\ Ended'
    BY <1>1, <1>3, <2>2, <2>3, <2>4, <2>5 DEF Holding, VectorRoom, RoomLeft, Ended, LoopOver
  <2> QED
    BY <1>1, <2>3, <2>5, <2>6, MidStep
<1> QED
  BY <1>5, <1>6

\* A probe's bytes are used.
LEMMA LoopProbeInv == ASSUME LoopsInv, LoopProbe PROVE LoopsInv'
<1>1. /\ rpc = "probe" /\ Read(Probe) /\ Got("loop") /\ pad' = 0
      /\ vcap' = (IF Len(acc') > vcap THEN Len(acc') ELSE vcap)
      /\ UNCHANGED <<call, slices, origin, ret, interrupted, cut>>
  BY DEF LoopProbe
<1>2. ReaderInv /\ Plain /\ VectorRoom /\ Len(acc) \in Nat
  BY <1>1, InLoop
<1>3. call.op \in ToEnd /\ call.op \notin Vectored \cup Whole \cup Typed \cup Until
  BY <1>1, <1>2 DEF VectorRoom, Whole, Typed, ToEnd, Vectored, Until
<1>4. vcap \in Nat /\ Probe \in Nat /\ Probe > 0
  BY <1>1, <1>2, <1>3, LoopAssumption DEF VectorRoom
<1>5. /\ ReaderInv' /\ Plain' /\ Len(res'.bytes) \in 0..Probe
      /\ Len(acc') = Len(acc) + Len(res'.bytes) /\ (res'.bytes = <<>> => Cursor' = StreamLen)
  BY <1>1, <1>2, <1>4, ReadGot DEF Got
<1>6. vcap' \in Nat /\ Len(acc') <= vcap'
  BY <1>1, <1>2, <1>4, <1>5
<1>7. rpc' \in {"loop", "end"} /\ (rpc' = "end" => Cursor' = StreamLen)
  BY <1>1, <1>5 DEF Got
<1>8. Holding' /\ VectorRoom' /\ RoomLeft' /\ Ended'
  BY <1>1, <1>3, <1>5, <1>6, <1>7 DEF Holding, VectorRoom, RoomLeft, Ended, LoopOver
<1> QED
  BY <1>1, <1>5, <1>7, <1>8, MidStep

\* A set of numbers has a least one.
LEMMA FirstOf == ASSUME NEW H \in SUBSET Nat, H # {} PROVE \E i \in H : \A j \in H : i <= j
<1>1. SUFFICES ASSUME \A i \in H : \E j \in H : ~(i <= j) PROVE FALSE
  OBVIOUS
<1> DEFINE T == {k \in Nat : \A j \in H : k <= j}
<1>2. 0 \in T
  OBVIOUS
<1>3. ASSUME NEW k \in T PROVE k + 1 \in T
  <2>1. k \notin H
    BY <1>1
  <2> QED
    BY <2>1
<1>4. \A k \in Nat : k \in T
  <2>1. T \in SUBSET Nat
    OBVIOUS
  <2> HIDE DEF T
  <2> QED
    BY <1>2, <1>3, <2>1, Induction
<1>5. PICK j : j \in H /\ j + 1 \in Nat
  <2>1. PICK j : j \in H
    OBVIOUS
  <2>2. j + 1 \in Nat
    BY <2>1
  <2> QED
    BY <2>1, <2>2
<1>6. j + 1 <= j
  BY <1>4, <1>5
<1> QED
  BY <1>5, <1>6

\* read_until takes what is buffered, up to the first delimiter.
LEMMA LoopUntilInv == ASSUME LoopsInv, LoopUntil PROVE LoopsInv'
<1> DEFINE hits == {i \in DOMAIN Buffer : Buffer[i] \in Delim}
           used == IF hits = {} THEN Len(Buffer) ELSE CHOOSE i \in hits : \A j \in hits : i <= j
<1>1. /\ rpc = "loop" /\ call.op \in Until /\ Consume(used)
      /\ rpc' = (IF hits = {} THEN "fill" ELSE "end") /\ acc' = acc \o SubSeq(Buffer, 1, used)
      /\ UNCHANGED <<call, pad, vcap, slices, origin, ret, interrupted, cut>>
  BY DEF LoopUntil
<1>2. ReaderInv /\ Plain /\ VectorRoom /\ Len(acc) \in Nat
  BY <1>1, InLoop
<1>3. call.op \notin ToEnd \cup Whole \cup Typed \cup Vectored
  BY <1>1 DEF Whole, Typed, ToEnd, Vectored, Until
<1>4. /\ Len(Buffer) = end - start /\ Len(Buffer) \in Nat /\ Buffer = Bytes(Cursor, end - start)
      /\ Cursor \in Int /\ DOMAIN Buffer = 1..Len(Buffer) /\ start \in Int /\ end \in Int
  <2>1. DOMAIN Buffer = 1..(end - start)
    BY DEF Buffer
  <2> QED
    BY <1>2, <2>1, BufferIs DEF ReaderInv, ReaderTypeOK
<1>5. used \in Nat /\ used <= Len(Buffer) /\ (hits # {} => used > 0 /\ Buffer[used] \in Delim)
  <2>1. CASE hits = {}
    BY <1>4, <2>1
  <2>2. CASE hits # {}
    <3>1. hits \in SUBSET Nat /\ \A i \in hits : i > 0 /\ i <= Len(Buffer) /\ Buffer[i] \in Delim
      BY <1>4
    <3> HIDE DEF hits
    <3>2. \E i \in hits : \A j \in hits : i <= j
      BY <2>2, <3>1, FirstOf
    <3>3. used \in hits
      BY <2>2, <3>2
    <3> QED
      BY <3>1, <3>3
  <2> QED
    BY <2>1, <2>2
<1> DEFINE none == hits = {}
<1>6. used = Len(Buffer) \/ ~none
  OBVIOUS
<1>7. rpc' = IF none THEN "fill" ELSE "end"
  BY <1>1
<1> HIDE DEF used, hits
<1>8. PICK k \in Nat : k = used
  BY <1>5
<1>9. ReaderInv' /\ Delivers(k)
  BY <1>1, <1>2, <1>5, <1>8, TakeStep DEF Consume
<1>10. acc' = acc \o res'.bytes
  BY <1>1 DEF Consume, ReadResult
<1>11. Plain' /\ Len(acc') = Len(acc) + k
  BY <1>1, <1>2, <1>9, <1>10, GotMore
<1>12. none => Buffer' = <<>>
  <2> SUFFICES ASSUME none PROVE Buffer' = <<>>
    OBVIOUS
  <2>1. start' = start + k /\ end' = end /\ k = end - start
    BY <1>1, <1>4, <1>6, <1>8 DEF Consume
  <2>2. end' - start' = 0
    BY <1>4, <2>1
  <2> QED
    BY <2>2 DEF Buffer
<1>13. ~none => Len(acc') > 0 /\ origin' + Len(acc') - 1 \in Delim
  <2> SUFFICES ASSUME ~none PROVE Len(acc') > 0 /\ origin' + Len(acc') - 1 \in Delim
    OBVIOUS
  <2>1. k > 0 /\ Buffer[k] \in Delim /\ k \in 1..(end - start) /\ end - start \in Nat
    BY <1>4, <1>5, <1>8 DEF none
  <2>2. Buffer[k] = Cursor + k - 1
    BY <1>4, <2>1 DEF Bytes
  <2>3. Cursor = origin + Len(acc) /\ origin \in Nat /\ origin' = origin
    BY <1>1, <1>2 DEF Plain
  <2>4. origin' + Len(acc') - 1 = Cursor + k - 1
    BY <1>2, <1>11, <2>3
  <2>5. Len(acc') > 0
    BY <1>2, <1>11, <2>1
  <2> QED
    BY <2>1, <2>2, <2>4, <2>5
<1>14. Holding' /\ VectorRoom' /\ RoomLeft' /\ Ended'
  BY <1>1, <1>2, <1>3, <1>7, <1>11, <1>12, <1>13 DEF Holding, VectorRoom, RoomLeft, Ended, LoopOver
<1> QED
  BY <1>1, <1>7, <1>9, <1>14, MidStep

\* read_until fills the buffer; the end of the stream is where nothing comes.
LEMMA LoopFillInv == ASSUME LoopsInv, LoopFill PROVE LoopsInv'
<1>1. /\ rpc = "fill" /\ FillAmount(Cap) /\ rpc' = (IF ipos' = ipos THEN "end" ELSE "loop")
      /\ UNCHANGED <<call, acc, pad, vcap, slices, origin, ret, interrupted, cut>>
  BY DEF LoopFill
<1>2. ReaderInv /\ Plain /\ VectorRoom /\ Ended
  BY <1>1, InLoop
<1>3. /\ call.op \in Until /\ Buffer = <<>>
      /\ call.op \notin ToEnd \cup Whole \cup Typed \cup Vectored
  BY <1>1, <1>2 DEF Ended, Whole, Typed, ToEnd, Vectored, Until
<1>4. /\ Cap \in 1..Cap /\ Cap \in Nat /\ Cap > 0 /\ StreamLen \in Nat /\ ipos \in Nat
      /\ start \in Nat /\ start = end /\ Len(Buffer) = 0 /\ Cursor = ipos
  BY <1>2, <1>3, BufferIs, ReaderAssumption DEF ReaderInv, ReaderTypeOK
<1>5. ReaderInv' /\ Cursor' = Cursor
  BY <1>1, <1>2, <1>4, FillStep
<1>6. ipos' = ipos => Cursor' = StreamLen
  <2> SUFFICES ASSUME ipos' = ipos PROVE Cursor' = StreamLen
    OBVIOUS
  <2>1. PICK k \in InnerRead(FillTo(Cap) - FillAt(Cap)) : ipos' = ipos + k
    BY <1>1 DEF FillAmount
  <2>2. FillTo(Cap) - FillAt(Cap) = Cap
    BY <1>4 DEF FillTo, FillAt, NoRoom
  <2>3. k \in Nat /\ (k = 0 => ipos = StreamLen)
    BY <1>2, <1>4, <2>1, <2>2, InnerReadIs
  <2>4. k = 0
    BY <1>4, <2>1, <2>3
  <2> QED
    BY <1>4, <1>5, <2>3, <2>4
<1>7. rpc' \in {"loop", "end"} /\ (rpc' = "end" => Cursor' = StreamLen)
  BY <1>1, <1>6
<1>8. Holding' /\ VectorRoom' /\ RoomLeft' /\ Ended'
  BY <1>1, <1>2, <1>3, <1>5, <1>7, SameBytes DEF Holding, VectorRoom, RoomLeft, Ended, LoopOver
<1> QED
  BY <1>1, <1>5, <1>7, <1>8, MidStep

\* A call that is done.
LEMMA DoneStep ==
  ASSUME ReaderInv', CallExact', TypedExact', rpc' = "done"
  PROVE  LoopsInv'
  BY DEF LoopsInv, ReadExact

\* A sequence with one more at its end.
LEMMA AppendedIs ==
  ASSUME NEW s \in Seq(Int), NEW z \in Int
  PROVE  /\ s \o <<z>> \in Seq(Int) /\ Len(s) \in Nat /\ Len(s \o <<z>>) = Len(s) + 1
         /\ (s \o <<z>>)[Len(s) + 1] = z
         /\ \A i \in 1..Len(s) : (s \o <<z>>)[i] = s[i]
  OBVIOUS

\* The last of a sequence behind the others.
LEMMA FrontAndLast ==
  ASSUME NEW s \in Seq(Int), s # <<>>
  PROVE  /\ Front(s) \in Seq(Int) /\ Last(s) \in Int /\ Len(Front(s)) = Len(s) - 1 /\ Len(s) > 0
         /\ s = Front(s) \o <<Last(s)>>
         /\ \A i \in 1..(Len(s) - 1) : Front(s)[i] = s[i]
<1>1. Len(s) \in Nat /\ Len(s) > 0
  OBVIOUS
<1>2. /\ Front(s) \in Seq(Int) /\ Len(Front(s)) = Len(s) - 1
      /\ \A i \in 1..(Len(s) - 1) : Front(s)[i] = s[i]
  <2>1. /\ 1 \in Int /\ Len(s) - 1 \in Int /\ Len(s) - 1 - 1 + 1 = Len(s) - 1
        /\ \A i \in 1..(Len(s) - 1) : s[i] \in Int /\ 1 + i - 1 = i
    BY <1>1
  <2> QED
    BY <1>1, <2>1, SubSeqProperties DEF Front
<1>3. Last(s) \in Int /\ Last(s) = s[Len(s)]
  BY <1>1 DEF Last
<1>4. PICK f, z : f = Front(s) /\ z = Last(s)
  OBVIOUS
<1>5. /\ f \o <<z>> \in Seq(Int) /\ Len(f \o <<z>>) = Len(s)
      /\ \A i \in 1..Len(s) : (f \o <<z>>)[i] = s[i]
  BY <1>1, <1>2, <1>3, <1>4
<1>6. s = f \o <<z>>
  BY <1>5, SeqEqual
<1> QED
  BY <1>1, <1>2, <1>3, <1>4, <1>6, Zenon

\* t is s without the line ending that s had.
Chomped(t, s) ==
    \/ t = s /\ ~EndsIn(s, Delim)
    \/ ~EndsIn(t, Cr) /\ \E d \in Delim : s = t \o <<d>>
    \/ \E r \in Cr, d \in Delim : s = t \o <<r, d>>

\* That is what Chomp leaves.
LEMMA ChompIs == ASSUME NEW s \in Seq(Int), NEW t, t = Chomp(s) PROVE Chomped(t, s)
<1>1. CASE ~EndsIn(s, Delim)
  BY <1>1 DEF Chomp, Chomped
<1>2. CASE EndsIn(s, Delim) /\ ~EndsIn(Front(s), Cr)
  <2>1. t = Front(s) /\ s # <<>> /\ Last(s) \in Delim
    BY <1>2 DEF Chomp, EndsIn
  <2>2. s = t \o <<Last(s)>>
    BY <2>1, FrontAndLast
  <2> QED
    BY <1>2, <2>1, <2>2 DEF Chomped
<1>3. CASE EndsIn(s, Delim) /\ EndsIn(Front(s), Cr)
  <2>1. PICK f, d : f = Front(s) /\ d = Last(s)
    OBVIOUS
  <2>2. PICK r : r = Last(f)
    OBVIOUS
  <2>3. t = Front(f) /\ s # <<>> /\ f # <<>> /\ d \in Delim /\ r \in Cr
    BY <1>3, <2>1, <2>2 DEF Chomp, EndsIn
  <2>4. f \in Seq(Int) /\ d \in Int /\ s = f \o <<d>>
    BY <2>1, <2>3, FrontAndLast
  <2>5. t \in Seq(Int) /\ r \in Int /\ f = t \o <<r>>
    BY <2>2, <2>3, <2>4, FrontAndLast
  <2>6. s = t \o <<r, d>>
    <3>1. /\ f \in Seq(Int) /\ Len(f) = Len(t) + 1 /\ f[Len(t) + 1] = r
          /\ \A i \in 1..Len(t) : f[i] = t[i]
      BY <2>5, AppendedIs
    <3>2. /\ Len(s) = Len(t) + 2 /\ s[Len(t) + 2] = d /\ s[Len(t) + 1] = r
          /\ \A i \in 1..Len(t) : s[i] = t[i]
      <4>1. /\ Len(s) = Len(f) + 1 /\ s[Len(f) + 1] = d /\ \A i \in 1..Len(f) : s[i] = f[i]
        BY <2>4, AppendedIs
      <4>2. Len(t) \in Nat
        BY <2>5, AppendedIs
      <4> QED
        BY <3>1, <4>1, <4>2, SMTT(30)
    <3>3. PICK q \in Seq(Int) : q = <<r, d>> /\ Len(q) = 2 /\ q[1] = r /\ q[2] = d
      <4>1. <<r, d>> \in Seq(Int) /\ Len(<<r, d>>) = 2 /\ <<r, d>>[1] = r /\ <<r, d>>[2] = d
        BY <2>4, <2>5
      <4> QED
        BY <4>1
    <3>4. /\ t \o q \in Seq(Int) /\ Len(t \o q) = Len(t) + 2
          /\ \A i \in 1..(Len(t) + 2) : (t \o q)[i] = IF i <= Len(t) THEN t[i] ELSE q[i - Len(t)]
      BY <2>5, <3>3, ConcatProperties
    <3>5. ASSUME NEW i \in 1..(Len(t) + 2) PROVE (t \o q)[i] = s[i]
      <4>1. Len(t) \in Nat
        BY <2>5
      <4>2. i \in 1..Len(t) \/ i = Len(t) + 1 \/ i = Len(t) + 2
        BY <4>1, SMTT(30)
      <4>3. CASE i \in 1..Len(t)
        BY <3>2, <3>4, <4>1, <4>3
      <4>4. CASE i = Len(t) + 1
        <5>1. (t \o q)[i] = q[1]
          BY <3>4, <4>1, <4>4
        <5> QED
          BY <3>2, <3>3, <4>4, <5>1
      <4>5. CASE i = Len(t) + 2
        <5>1. (t \o q)[i] = q[2]
          BY <3>4, <4>1, <4>5
        <5> QED
          BY <3>2, <3>3, <4>5, <5>1
      <4> QED
        BY <4>2, <4>3, <4>4, <4>5
    <3>6. s = t \o q
      BY <3>2, <3>4, <3>5, SeqEqual
    <3> QED
      BY <3>3, <3>6
  <2> QED
    BY <2>3, <2>6 DEF Chomped
<1> QED
  BY <1>1, <1>2, <1>3

\* A read_line that is done has the caller's string, what it read and no line ending.
LEMMA LineStep ==
  ASSUME ReaderInv', rpc' = "done", call'.op = "read_line", NEW s \in Seq(Int),
         s = call'.held \o (IF ret'.ok THEN Bytes(origin', Cursor' - origin') ELSE <<>>),
         acc' = Chomp(s), ret'.ok => Cursor' = StreamLen \/ Cursor' - 1 \in Delim
  PROVE  LineExact'
<1>1. PICK t : t = acc' /\ t = Chomp(s)
  OBVIOUS
<1>2. Chomped(t, s)
  BY <1>1, ChompIs
<1>3. \/ acc' = s /\ ~EndsIn(s, Delim)
      \/ ~EndsIn(acc', Cr) /\ \E d \in Delim : s = acc' \o <<d>>
      \/ \E r \in Cr, d \in Delim : s = acc' \o <<r, d>>
  BY <1>1, <1>2, Zenon DEF Chomped
<1>4. Stripped(s)'
  BY <1>3, Zenon DEF Stripped, EndsIn
<1> QED
  BY <1>4, Zenon DEF LineExact

\* An error promises nothing, unless it tells of the end or of an interrupt.
LEMMA PlainError ==
  ASSUME ReaderInv', rpc' = "done", NEW e, ret' = [ok |-> FALSE, err |-> e], e # "UnexpectedEof",
         e # "Interrupted" \/ call'.op \notin CancelSafe, call'.op # "read_line"
  PROVE  LoopsInv'
<1>1. ret'.ok = FALSE /\ ret'.err = e /\ "n" \notin DOMAIN ret' /\ "none" \notin DOMAIN ret'
  OBVIOUS
<1>2. CallExact'
  BY <1>1 DEF CallExact
<1>3. TypedExact'
  BY <1>1 DEF TypedExact
<1> QED
  BY <1>2, <1>3, DoneStep

\* A read_line that fails leaves the string as it was, less a line ending.
LEMMA LineError ==
  ASSUME ReaderInv', rpc' = "done", NEW e, ret' = [ok |-> FALSE, err |-> e], e # "UnexpectedEof",
         call'.op = "read_line", call'.held \in Seq(Int), acc' = Chomp(call'.held)
  PROVE  LoopsInv'
<1>1. ret'.ok = FALSE /\ ret'.err = e /\ "n" \notin DOMAIN ret' /\ "none" \notin DOMAIN ret'
  OBVIOUS
<1>2. PICK s : s = call'.held
  OBVIOUS
<1>3. s \o <<>> = s /\ s \in Seq(Int)
  BY <1>2, ConcatEmptySeq
<1>4. LineExact'
  BY <1>1, <1>2, <1>3, LineStep
<1>5. CallExact'
  BY <1>1, <1>4 DEF CallExact, CancelSafe, ToEnd
<1>6. TypedExact'
  BY <1>1 DEF TypedExact
<1> QED
  BY <1>5, <1>6, DoneStep

\* The reader below fails.
LEMMA LoopErrorInv ==
  ASSUME LoopsInv, NEW kind \in {"Interrupted", "Other"}, LoopError(kind)
  PROVE  LoopsInv'
<1>1. /\ rpc \in {"loop", "probe"} /\ call.op \notin Until /\ ReadFails(1)
      /\ IF kind = "Interrupted"
         THEN rpc' = "end" /\ cut' = TRUE /\ UNCHANGED <<acc, ret>>
         ELSE rpc' = "done" /\ ret' = [ok |-> FALSE, err |-> kind] /\ acc' = Truncated(acc) /\ UNCHANGED cut
      /\ pad' = (IF call.op \in ToEnd /\ rpc = "loop" /\ Len(acc) = vcap THEN Reserve ELSE pad)
      /\ UNCHANGED <<call, vcap, slices, origin>>
  BY DEF LoopError
<1>2. ReaderInv /\ Holding /\ Plain /\ VectorRoom /\ RoomLeft
  BY <1>1, InLoop
<1>3. ReaderInv' /\ Cursor' = Cursor
  BY <1>1, <1>2, ReadFailsStep
<1>4. CASE kind = "Interrupted"
  <2>1. rpc' = "end" /\ acc' = acc /\ cut' = TRUE
    BY <1>1, <1>4
  <2>2. Holding'
    BY <1>1, <1>2, <1>3, <2>1, SameBytes DEF Holding
  <2>3. VectorRoom' /\ RoomLeft'
    BY <1>1, <1>2, <2>1 DEF VectorRoom, RoomLeft
  <2>4. Ended'
    BY <1>1, <2>1 DEF Ended, LoopOver
  <2> QED
    BY <1>1, <1>3, <2>1, <2>2, <2>3, <2>4, MidStep
<1>5. CASE kind = "Other"
  <2>1. rpc' = "done" /\ ret' = [ok |-> FALSE, err |-> kind] /\ call'.op # "read_line"
    BY <1>1, <1>5 DEF Until
  <2> QED
    BY <1>3, <1>5, <2>1, PlainError
<1> QED
  BY <1>4, <1>5

\* The fill of read_until fails: what was read before is in the caller's vector.
LEMMA FillErrorInv ==
  ASSUME LoopsInv, NEW kind \in {"Interrupted", "Other"}, FillError(kind)
  PROVE  LoopsInv'
<1>1. /\ rpc = "fill" /\ FillFails(Cap) /\ rpc' = "done"
      /\ ret' = [ok |-> FALSE, err |-> kind]
      /\ acc' = Truncated(acc)
      /\ UNCHANGED <<call, pad, vcap, slices, origin, cut>>
  BY DEF FillError
<1>2. ReaderInv /\ Plain /\ VectorRoom /\ Ended /\ KnownCall
  BY <1>1, InLoop
<1>3. call.op \in Until /\ call.op \notin ToEnd \cup Typed /\ pad = 0
  BY <1>1, <1>2 DEF Ended, VectorRoom, Until, ToEnd, Typed
<1>4. Cap \in 1..Cap
  BY ReaderAssumption
<1>5. ReaderInv' /\ Cursor' = Cursor
  BY <1>1, <1>2, <1>4, FillFailsStep
<1>6. CASE call.op = "read_until"
  <2>1. acc' = acc
    BY <1>1, <1>6 DEF Truncated
  <2>2. Cursor' - origin' = Len(acc) /\ acc' = Bytes(origin', Len(acc)) /\ pad' = 0
    BY <1>1, <1>2, <1>3, <1>5, <2>1 DEF Plain
  <2>3. ret'.ok = FALSE /\ ret'.err # "UnexpectedEof" /\ "n" \notin DOMAIN ret' /\ "none" \notin DOMAIN ret'
    BY <1>1
  <2>4. call'.op # "read_line"
    BY <1>1, <1>6
  <2>5. CallExact'
    BY <2>2, <2>3, <2>4 DEF CallExact
  <2>6. TypedExact'
    BY <1>1, <1>3 DEF TypedExact
  <2> QED
    BY <1>1, <1>5, <2>5, <2>6, DoneStep
<1>7. CASE call.op # "read_until"
  <2>1. call.op = "read_line" /\ call' = call
    BY <1>1, <1>3, <1>7 DEF Until
  <2>2. acc' = Chomp(call'.held) /\ call'.held \in Seq(Int) /\ call'.op = "read_line"
    BY <1>1, <1>2, <2>1 DEF Truncated, KnownCall
  <2>3. kind # "UnexpectedEof"
    OBVIOUS
  <2> QED
    BY <1>1, <1>5, <2>2, <2>3, LineError
<1> QED
  BY <1>6, <1>7

\* What is held at the end of a call that is not typed.
LEMMA AtEnd ==
  ASSUME LoopsInv, rpc = "end", call.op \notin Typed, UNCHANGED <<rvars, origin>>
  PROVE  /\ ReaderInv' /\ VectorRoom /\ RoomLeft /\ Ended /\ Len(acc) \in Nat /\ origin \in Nat
         /\ acc = Bytes(origin', Len(acc)) /\ Cursor' - origin' = Len(acc) /\ Cursor' = Cursor
         /\ Cursor = origin + Len(acc)
         /\ call.op \in Whole => Len(acc) <= call.n /\ call.n \in Nat /\ call.n > 0
         /\ call.op = "read_line" => call.held \in Seq(Int)
<1>1. ReaderInv /\ Holding /\ KnownCall /\ VectorRoom /\ RoomLeft /\ Ended
  BY DEF LoopsInv, Loaded
<1>2. ReaderInv' /\ Cursor' = Cursor
  BY <1>1, ReaderKept
<1>3. /\ origin \in Nat /\ Len(acc) \in Nat /\ acc = Bytes(origin, Len(acc)) /\ Cursor = origin + Len(acc)
      /\ origin' = origin
  BY <1>1 DEF Holding, Plain
<1>4. Cursor' - origin' = Len(acc)
  <2>1. \A o, k \in Nat : (o + k) - o = k
    OBVIOUS
  <2> QED
    BY <1>2, <1>3, <2>1, Zenon
<1>5. /\ call.op \in Whole => Len(acc) <= call.n /\ call.n \in Nat /\ call.n > 0
      /\ call.op = "read_line" => call.held \in Seq(Int)
  BY <1>1 DEF Holding, KnownCall
<1> QED
  BY <1>1, <1>2, <1>3, <1>4, <1>5, Zenon

\* The result of a call that says how much it read, or that it was interrupted before it did.
LEMMA Counts ==
  ASSUME ReaderInv', rpc' = "done", call'.op \notin Typed \cup {"read_line"}, pad' = 0,
         NEW k, acc' = Bytes(origin', k), Cursor' - origin' = k,
         \/ ret' = [ok |-> TRUE, n |-> k]
         \/ ret' = [ok |-> FALSE, err |-> "Interrupted"],
         ret'.ok /\ call'.op = "read_fully" => k = call'.n,
         ret'.ok /\ call'.op = "read_fully_vectored" => k = Total(call'.lens),
         ret'.ok /\ k = 0 => LoopOver',
         ret'.ok /\ call'.op \in ToEnd => LoopOver' \/ interrupted'
  PROVE  LoopsInv'
<1>1. TypedExact'
  BY DEF TypedExact
<1>2. CASE ret' = [ok |-> TRUE, n |-> k]
  <2>1. ret'.ok = TRUE /\ ret'.n = k /\ "none" \notin DOMAIN ret'
    BY <1>2
  <2>2. CallExact'
    BY <2>1 DEF CallExact, LoopOver
  <2> QED
    BY <1>1, <2>2, DoneStep
<1>3. CASE ret' = [ok |-> FALSE, err |-> "Interrupted"]
  <2>1. ret'.ok = FALSE /\ ret'.err = "Interrupted" /\ "n" \notin DOMAIN ret' /\ "none" \notin DOMAIN ret'
    BY <1>3
  <2>2. CallExact'
    BY <2>1 DEF CallExact, LoopOver
  <2> QED
    BY <1>1, <2>2, DoneStep
<1> QED
  BY <1>2, <1>3

\* check_interrupt_if_zero says one or the other.
LEMMA OkIs ==
  \A k : /\ Ok(k) = [ok |-> TRUE, n |-> k] \/ Ok(k) = [ok |-> FALSE, err |-> "Interrupted"]
        /\ Ok(k).ok /\ k = 0 => ~interrupted
  BY DEF Ok, CheckInterruptIfZero

\* A call that must fill its buffer and did not.
LEMMA ShortStep ==
  ASSUME ReaderInv', rpc' = "done", call'.op \notin Typed \cup CancelSafe,
         call'.op # "read_line", ret' = Short, LoopOver'
  PROVE  LoopsInv'
<1>1. ret'.ok = FALSE /\ "n" \notin DOMAIN ret' /\ "none" \notin DOMAIN ret'
  BY DEF Short, ShortIoError
<1>2. CallExact'
  BY <1>1 DEF CallExact, LoopOver
<1>3. TypedExact'
  BY DEF TypedExact
<1> QED
  BY <1>2, <1>3, DoneStep

\* The end of try_read_fully and read_to_end: they report what they took.
LEMMA EndReadInv == ASSUME LoopsInv, EndRead PROVE LoopsInv'
<1>1. /\ rpc = "end" /\ call.op \in {"try_read_fully", "read_to_end"} /\ ret' = Ok(Len(acc)) /\ pad' = 0
      /\ rpc' = "done" /\ UNCHANGED <<rvars, call, acc, origin, interrupted, cut>>
  BY DEF EndRead
<1>2. /\ call.op \notin Typed \cup {"read_line", "read_fully", "read_fully_vectored"}
      /\ call.op \in Whole \cup ToEnd /\ (call.op \in ToEnd <=> call.op \notin Whole)
  BY <1>1 DEF Typed, Whole, ToEnd
<1>3. /\ ReaderInv' /\ acc = Bytes(origin', Len(acc)) /\ Cursor' - origin' = Len(acc) /\ Cursor' = Cursor
      /\ Len(acc) \in Nat /\ Ended /\ (call.op \in Whole => call.n \in Nat /\ call.n > 0)
  BY <1>1, <1>2, AtEnd
<1>4. ret'.ok /\ Len(acc) = 0 => LoopOver'
  <2> SUFFICES ASSUME ret'.ok, Len(acc) = 0 PROVE LoopOver
    BY <1>1, <1>3 DEF LoopOver
  <2>1. ~interrupted
    BY <1>1 DEF Ok, CheckInterruptIfZero
  <2> QED
    BY <1>1, <1>2, <1>3, <2>1 DEF Ended
<1>5. ret'.ok /\ call'.op \in ToEnd => LoopOver' \/ interrupted'
  BY <1>1, <1>3 DEF Ended, LoopOver
<1>6. PICK k : k = Len(acc)
  OBVIOUS
<1>7. /\ acc' = Bytes(origin', k) /\ Cursor' - origin' = k
      /\ ret' = [ok |-> TRUE, n |-> k] \/ ret' = [ok |-> FALSE, err |-> "Interrupted"]
      /\ ret'.ok /\ k = 0 => LoopOver'
  BY <1>1, <1>3, <1>4, <1>6 DEF Ok, CheckInterruptIfZero
<1> QED
  BY <1>1, <1>2, <1>3, <1>5, <1>7, Counts

\* The end of read_fully: all it asked for, or an error, interrupted or out of data.
LEMMA EndReadFullyInv == ASSUME LoopsInv, EndReadFully PROVE LoopsInv'
<1>1. /\ rpc = "end" /\ call.op = "read_fully"
      /\ ret' = (IF Len(acc) # call.n THEN Short ELSE Ok(Len(acc)))
      /\ rpc' = "done" /\ UNCHANGED <<rvars, call, acc, pad, origin, interrupted, cut>>
  BY DEF EndReadFully
<1>2. /\ call.op \in Whole
      /\ call.op \notin Typed \cup CancelSafe \cup ToEnd \cup {"read_line", "read_fully_vectored"}
  BY <1>1 DEF Typed, Whole, CancelSafe, ToEnd
<1>3. /\ ReaderInv' /\ acc = Bytes(origin', Len(acc)) /\ Cursor' - origin' = Len(acc) /\ Cursor' = Cursor
      /\ Len(acc) \in Nat /\ Len(acc) <= call.n /\ call.n \in Nat /\ call.n > 0 /\ VectorRoom /\ Ended
  BY <1>1, <1>2, AtEnd
<1>4. CASE Len(acc) # call.n
  <2>1. LoopOver'
    BY <1>1, <1>2, <1>3, <1>4 DEF Ended, LoopOver
  <2> QED
    BY <1>1, <1>2, <1>3, <1>4, <2>1, ShortStep
<1>5. CASE Len(acc) = call.n
  <2>1. pad' = 0
    BY <1>1, <1>2, <1>3 DEF VectorRoom
  <2> QED
    <3>1. PICK k : k = Len(acc)
      OBVIOUS
    <3>2. /\ acc' = Bytes(origin', k) /\ Cursor' - origin' = k /\ k = call'.n /\ k # 0
          /\ ret' = [ok |-> TRUE, n |-> k] \/ ret' = [ok |-> FALSE, err |-> "Interrupted"]
      BY <1>1, <1>3, <1>5, <3>1 DEF Ok, CheckInterruptIfZero
    <3> QED
      BY <1>1, <1>2, <1>3, <2>1, <3>2, Counts
<1> QED
  BY <1>4, <1>5

\* The end of read_to_string: what was read must be text.
LEMMA EndToStringInv == ASSUME LoopsInv, EndToString PROVE LoopsInv'
<1>1. /\ rpc = "end" /\ call.op = "read_to_string"
      /\ ret' = Ok(Len(acc)) \/ ret' = [ok |-> FALSE, err |-> "InvalidUtf8"]
      /\ acc' = (IF ret'.ok THEN acc ELSE Truncated(acc)) /\ pad' = 0
      /\ rpc' = "done" /\ UNCHANGED <<rvars, call, origin, interrupted, cut>>
  BY DEF EndToString
<1>2. /\ call.op \notin Typed \cup CancelSafe \cup {"read_line", "read_fully", "read_fully_vectored"}
      /\ call.op \in ToEnd
  BY <1>1 DEF Typed, CancelSafe, ToEnd
<1>3. /\ ReaderInv' /\ acc = Bytes(origin', Len(acc)) /\ Cursor' - origin' = Len(acc) /\ Cursor' = Cursor
      /\ Ended
  BY <1>1, <1>2, AtEnd
<1>6. LoopOver' \/ interrupted'
  BY <1>1, <1>2, <1>3 DEF Ended, LoopOver
<1>4. CASE ret' = Ok(Len(acc)) /\ ret' = [ok |-> TRUE, n |-> Len(acc)]
  <2>1. acc' = acc
    BY <1>1, <1>4
  <2>2. ret'.ok /\ Len(acc) = 0 => LoopOver'
    BY <1>1, <1>4, <1>6, OkIs
  <2> QED
    BY <1>1, <1>2, <1>3, <1>4, <1>6, <2>1, <2>2, Counts
<1>5. CASE ret' = [ok |-> FALSE, err |-> "Interrupted"] \/ ret' = [ok |-> FALSE, err |-> "InvalidUtf8"]
  BY <1>1, <1>2, <1>3, <1>5, PlainError
<1> QED
  BY <1>1, <1>4, <1>5 DEF Ok, CheckInterruptIfZero

\* The end of a vectored call: its buffers are full where it says so.
LEMMA EndVectoredInv == ASSUME LoopsInv, EndVectored PROVE LoopsInv'
<1>1. /\ rpc = "end" /\ call.op \in Vectored
      /\ ret' = (IF call.op = "read_fully_vectored" /\ slices # <<>> THEN Short
                 ELSE [ok |-> TRUE, n |-> Len(acc)])
      /\ rpc' = "done" /\ UNCHANGED <<rvars, call, acc, pad, origin, interrupted, cut>>
  BY DEF EndVectored
<1>2. call.op \notin Typed \cup ToEnd \cup {"read_line", "read_fully"}
  BY <1>1 DEF Typed, Vectored, ToEnd
<1>3. /\ ReaderInv' /\ acc = Bytes(origin', Len(acc)) /\ Cursor' - origin' = Len(acc) /\ Cursor' = Cursor
      /\ Len(acc) \in Nat /\ VectorRoom /\ Ended /\ RoomLeft
  BY <1>1, <1>2, AtEnd
<1>4. CASE call.op = "read_fully_vectored" /\ slices # <<>>
  <2>1. LoopOver'
    BY <1>1, <1>3, <1>4 DEF Ended, LoopOver
  <2>2. call.op \notin CancelSafe
    BY <1>4 DEF CancelSafe
  <2> QED
    BY <1>1, <1>2, <1>3, <1>4, <2>1, <2>2, ShortStep
<1>5. CASE ~(call.op = "read_fully_vectored" /\ slices # <<>>)
  <2>1. pad' = 0
    BY <1>1, <1>2, <1>3 DEF VectorRoom
  <2>2. call.op = "read_fully_vectored" => Len(acc) = Total(call.lens)
    <3> SUFFICES ASSUME call.op = "read_fully_vectored" PROVE Len(acc) = Total(call.lens)
      OBVIOUS
    <3>1. slices = <<>> /\ Total(slices) + Len(acc) = Total(call.lens)
      BY <1>1, <1>3, <1>5 DEF RoomLeft
    <3>2. 0 + Len(acc) = Len(acc)
      BY <1>3
    <3> QED
      BY <3>1, <3>2, TotalIs
  <2>3. Len(acc) = 0 => LoopOver'
    <3> SUFFICES ASSUME Len(acc) = 0 PROVE LoopOver
      BY <1>1, <1>3 DEF LoopOver
    <3>1. ~(slices = <<>>)
      BY <1>1, <1>3, TotalIs DEF RoomLeft
    <3> QED
      BY <1>1, <1>3, <3>1 DEF Ended
  <2> QED
    BY <1>1, <1>2, <1>3, <1>5, <2>1, <2>2, <2>3, Counts
<1> QED
  BY <1>4, <1>5

\* read_until gives its bytes; read_line strips the line ending.
LEMMA EndUntilInv == ASSUME LoopsInv, EndUntil PROVE LoopsInv'
<1>1. /\ rpc = "end" /\ call.op \in Until /\ rpc' = "done"
      /\ UNCHANGED <<rvars, call, pad, origin, interrupted, cut>>
      /\ \/ /\ ret' = (IF acc = <<>> THEN [ok |-> TRUE, none |-> TRUE] ELSE [ok |-> TRUE, n |-> Len(acc)])
            /\ acc' = (IF call.op = "read_line" THEN Chomp(call.held \o acc) ELSE acc)
         \/ /\ call.op = "read_line" /\ ret' = [ok |-> FALSE, err |-> "InvalidUtf8"]
            /\ acc' = Truncated(acc)
  BY DEF EndUntil
<1>2. call.op \notin Typed \cup ToEnd \cup {"read_fully", "read_fully_vectored"}
  BY <1>1 DEF Typed, Until, ToEnd
<1>3. /\ ReaderInv' /\ acc = Bytes(origin', Len(acc)) /\ Cursor' - origin' = Len(acc) /\ Cursor' = Cursor
      /\ Cursor = origin + Len(acc) /\ origin \in Nat
      /\ Len(acc) \in Nat /\ VectorRoom /\ Ended
      /\ call.op = "read_line" => call.held \in Seq(Int)
  BY <1>1, <1>2, AtEnd
<1>4. CASE /\ call.op = "read_line" /\ ret' = [ok |-> FALSE, err |-> "InvalidUtf8"]
           /\ acc' = Truncated(acc)
  <2>1. call'.op = "read_line" /\ call'.held \in Seq(Int) /\ acc' = Chomp(call'.held)
    BY <1>1, <1>3, <1>4 DEF Truncated
  <2> QED
    BY <1>1, <1>3, <1>4, <2>1, LineError
<1>5. CASE /\ ret' = (IF acc = <<>> THEN [ok |-> TRUE, none |-> TRUE] ELSE [ok |-> TRUE, n |-> Len(acc)])
           /\ acc' = (IF call.op = "read_line" THEN Chomp(call.held \o acc) ELSE acc)
  <2>1. PICK k \in Nat : k = Len(acc)
    BY <1>3
  <2>2. /\ origin \in Int /\ origin' = origin /\ acc = Bytes(origin, k) /\ Cursor' - origin' = k
        /\ Cursor' = origin + k
        /\ pad' = 0
        /\ Cursor' = StreamLen \/ (k > 0 /\ origin + k - 1 \in Delim)
    BY <1>1, <1>2, <1>3, <2>1 DEF VectorRoom, Ended
  <2>3. (acc = <<>> <=> k = 0) /\ acc \in Seq(Int)
    <3>1. Len(acc) = k /\ acc \in Seq(Int)
      BY <2>1, <2>2, BytesAre
    <3> QED
      BY <3>1
  <2>4. /\ ret'.ok = TRUE /\ ("n" \in DOMAIN ret' => ret'.n = k /\ k # 0)
        /\ "none" \in DOMAIN ret' => k = 0
    <3>1. CASE acc = <<>>
      BY <1>5, <2>3, <3>1
    <3>2. CASE acc # <<>>
      BY <1>5, <2>1, <2>3, <3>2
    <3> QED
      BY <3>1, <3>2
  <2>5. k = 0 => Cursor' = StreamLen
    BY <2>2
  <2>6. call'.op # "read_line" => acc' = Bytes(origin', k)
    BY <1>1, <1>5, <2>2
  <2>7. call'.op = "read_line" => LineExact'
    <3> SUFFICES ASSUME call'.op = "read_line" PROVE LineExact'
      OBVIOUS
    <3>1. PICK s : s = call.held \o acc
      OBVIOUS
    <3>2. s \in Seq(Int) /\ acc' = Chomp(s) /\ call'.held = call.held
      BY <1>1, <1>3, <1>5, <2>3, <3>1
    <3>3. s = call'.held \o (IF ret'.ok THEN Bytes(origin', Cursor' - origin') ELSE <<>>)
      BY <2>2, <2>4, <3>1, <3>2
    <3>4. Cursor' = StreamLen \/ Cursor' - 1 \in Delim
      BY <2>2
    <3> QED
      BY <1>1, <1>3, <3>2, <3>3, <3>4, LineStep
  <2>8. CallExact'
    <3>1. call'.op \notin {"read_fully", "read_fully_vectored"} \cup ToEnd
      BY <1>1, <1>2
    <3> QED
      BY <2>2, <2>4, <2>5, <2>6, <2>7, <3>1 DEF CallExact
  <2>9. TypedExact'
    BY <1>1, <1>2 DEF TypedExact
  <2> QED
    BY <1>1, <1>3, <2>8, <2>9, DoneStep
<1> QED
  BY <1>1, <1>4, <1>5

\* Digits, and those behind them: what vint_from_bytes cuts off.
LEMMA CutOff ==
  ASSUME NEW b \in Nat \ {0}, NEW a \in Seq(0..(b - 1)), NEW d \in Seq(0..(b - 1))
  PROVE  /\ FromBe(b, a \o d) \div Power(b, Len(d)) = FromBe(b, a)
         /\ FromLe(b, a \o d) % Power(b, Len(a)) = FromLe(b, a)
<1> DEFINE D == 0..(b - 1)
<1>0. b \in Nat /\ 0 \in Nat
  OBVIOUS
<1>1. ASSUME NEW s \in Seq(D) PROVE s \in Seq(Nat) /\ Len(s) \in Nat
  <2>1. Len(s) \in Nat /\ s \in [1..Len(s) -> D]
    OBVIOUS
  <2>2. s \in [1..Len(s) -> Nat]
    BY <2>1
  <2> QED
    BY <2>1, <2>2
<1>2. ASSUME NEW p \in Seq(D), NEW q \in Seq(D)
      PROVE  /\ FromBe(b, p \o q) \div Power(b, Len(q)) = FromBe(b, p)
             /\ FromBe(b, p \o q) % Power(b, Len(q)) = FromBe(b, q)
  <2>1. p \in Seq(Nat) /\ q \in Seq(Nat) /\ Len(q) \in Nat
    BY <1>1
  <2>2. FromBe(b, p) \in Nat /\ FromBe(b, q) \in Nat /\ FromBe(b, q) < Power(b, Len(q))
    BY <1>0, HornerBelow
  <2>3. Power(b, Len(q)) \in Nat
    BY <1>0, <2>1, PowerIs
  <2>4. FromBe(b, p \o q) = Horner(FromBe(b, p), b, q)
    BY <1>0, <2>1, HornerConcat DEF FromBe
  <2>5. Horner(FromBe(b, p), b, q) = FromBe(b, p) * Power(b, Len(q)) + FromBe(b, q)
    BY <1>0, <2>1, <2>2, HornerShift
  <2> QED
    BY <2>2, <2>3, <2>4, <2>5, DivMod
<1>3. ASSUME NEW s \in Seq(D)
      PROVE  /\ Reverse(s) \in Seq(D) /\ Len(Reverse(s)) = Len(s)
             /\ \A i \in 1..Len(s) : Reverse(s)[i] = s[Len(s) - i + 1]
  <2>1. Len(s) \in Nat /\ \A i \in 1..Len(s) : Len(s) - i + 1 \in 1..Len(s)
    OBVIOUS
  <2>2. \A i \in 1..Len(s) : s[Len(s) - i + 1] \in D
    BY <2>1
  <2> QED
    BY <2>1, <2>2 DEF Reverse
<1>4. Reverse(a \o d) = Reverse(d) \o Reverse(a)
  <2> DEFINE s == a \o d
             t == Reverse(d) \o Reverse(a)
             u == Reverse(s)
             la == Len(a)
             ld == Len(d)
  <2>1. /\ la \in Nat /\ ld \in Nat /\ s \in Seq(D) /\ Len(s) = la + ld
        /\ \A i \in 1..(la + ld) : s[i] = IF i <= la THEN a[i] ELSE d[i - la]
    BY ConcatProperties
  <2>0. /\ Reverse(s) \in Seq(D) /\ Len(Reverse(s)) = Len(s)
        /\ \A i \in 1..Len(s) : Reverse(s)[i] = s[Len(s) - i + 1]
    <3> HIDE DEF s
    <3> QED
      BY <1>3, <2>1
  <2>3. /\ Reverse(a) \in Seq(D) /\ Len(Reverse(a)) = la /\ \A i \in 1..la : Reverse(a)[i] = a[la - i + 1]
        /\ Reverse(d) \in Seq(D) /\ Len(Reverse(d)) = ld /\ \A i \in 1..ld : Reverse(d)[i] = d[ld - i + 1]
    BY <1>3
  <2>4. /\ t \in Seq(D) /\ Len(t) = ld + la
        /\ \A i \in 1..(ld + la) : t[i] = IF i <= ld THEN Reverse(d)[i] ELSE Reverse(a)[i - ld]
    <3> DEFINE ra == Reverse(a)
               rd == Reverse(d)
    <3>1. ra \in Seq(D) /\ rd \in Seq(D) /\ Len(ra) = la /\ Len(rd) = ld
      BY <2>3
    <3> HIDE DEF ra, rd, la, ld
    <3>2. /\ rd \o ra \in Seq(D) /\ Len(rd \o ra) = Len(rd) + Len(ra)
          /\ \A i \in 1..(Len(rd) + Len(ra)) : (rd \o ra)[i] = IF i <= Len(rd) THEN rd[i] ELSE ra[i - Len(rd)]
      BY <3>1, ConcatProperties
    <3>3. /\ rd \o ra \in Seq(D) /\ Len(rd \o ra) = ld + la
          /\ \A i \in 1..(ld + la) : (rd \o ra)[i] = IF i <= ld THEN rd[i] ELSE ra[i - ld]
      BY <3>1, <3>2
    <3> QED
      BY <3>3, Zenon DEF ra, rd
  <2> HIDE DEF s, t, u, la, ld
  <2>6. u \in Seq(D) /\ Len(u) = Len(s) /\ \A i \in 1..Len(s) : u[i] = s[Len(s) - i + 1]
    BY <2>0, Zenon DEF u
  <2>2. u \in Seq(D) /\ Len(u) = la + ld /\ \A i \in 1..(la + ld) : u[i] = s[la + ld - i + 1]
    BY <2>1, <2>6
  <2>5. ASSUME NEW i \in 1..(la + ld) PROVE u[i] = t[i]
    <3>1. i \in 1..(ld + la) /\ la + ld - i + 1 \in 1..(la + ld)
      BY <2>1
    <3>2. CASE i <= ld
      <4>0. la \in Nat /\ ld \in Nat
        BY <2>1
      <4>1. i \in 1..ld /\ ~(la + ld - i + 1 <= la) /\ (la + ld - i + 1) - la = ld - i + 1
        BY <3>2, <4>0
      <4>2. u[i] = d[ld - i + 1]
        BY <2>1, <2>2, <3>1, <4>1
      <4> QED
        BY <2>3, <2>4, <3>1, <3>2, <4>1, <4>2
    <3>3. CASE ~(i <= ld)
      <4>0. la \in Nat /\ ld \in Nat
        BY <2>1
      <4>1. i - ld \in 1..la /\ la + ld - i + 1 <= la /\ la + ld - i + 1 = la - (i - ld) + 1
        BY <3>3, <4>0
      <4>2. u[i] = a[la - (i - ld) + 1]
        BY <2>1, <2>2, <3>1, <4>1
      <4> QED
        BY <2>3, <2>4, <3>1, <3>3, <4>1, <4>2
    <3> QED
      BY <3>2, <3>3
  <2>7. Len(u) = Len(t) /\ \A i \in 1..Len(u) : u[i] = t[i]
    BY <2>1, <2>2, <2>4, <2>5
  <2>8. u = t
    BY <2>2, <2>4, <2>7, SeqEqual
  <2> QED
    BY <2>8 DEF u, t, s
<1>5. FromBe(b, a \o d) \div Power(b, Len(d)) = FromBe(b, a)
  BY <1>2
<1>6. FromLe(b, a \o d) % Power(b, Len(a)) = FromLe(b, a)
  <2>1. Reverse(d) \in Seq(D) /\ Reverse(a) \in Seq(D) /\ Len(Reverse(a)) = Len(a)
    BY <1>3
  <2>2. FromBe(b, Reverse(d) \o Reverse(a)) % Power(b, Len(Reverse(a))) = FromBe(b, Reverse(a))
    BY <1>2, <2>1
  <2> QED
    BY <1>4, <2>1, <2>2 DEF FromLe
<1> QED
  BY <1>5, <1>6

\* The number of a typed read, whether its bytes were loaded with the ones behind them or
\* have zeroes behind them.
LEMMA ValueIs ==
  ASSUME NEW c, c.n \in 1..Width, c.load \in {c.n, Width}, NEW o \in Nat, NEW m \in {c.n, c.load},
         o + m <= StreamLen
  PROVE  TypedValue(c, Bytes(o, m)) =
           IF c.le THEN FromLe(Base, Bytes(o, c.n)) ELSE FromBe(Base, Bytes(o, c.n))
<1> DEFINE D == 0..(Base - 1)
<1>0. /\ Width \in Nat /\ StreamLen \in Nat /\ Base \in Nat \ {0} /\ Base - 1 = StreamLen
      /\ c.n \in Nat /\ c.n <= Width /\ m \in Nat /\ o \in Int
  BY LoopAssumption, ReaderAssumption DEF Base
<1>1. CASE c.load = c.n
  BY <1>1 DEF TypedValue
<1>2. CASE c.load # c.n
  <2> DEFINE n == c.n
             w == Width - n
             a == Bytes(o, n)
             zeros(k) == [i \in 1..k |-> 0]
  <2>1. c.load = Width /\ n \in Nat /\ w \in Nat
    BY <1>0, <1>2
  <2>2. Len(Bytes(o, m)) = m
    BY <1>0, BytesAre
  <2>3. ASSUME NEW p \in Nat, NEW k \in Nat, p + k <= StreamLen PROVE Bytes(p, k) \in Seq(D) /\ Len(Bytes(p, k)) = k
    <3>1. \A i \in 1..k : p + i - 1 \in D
      BY <1>0, <2>3
    <3> QED
      BY <3>1 DEF Bytes
  <2>4. ASSUME NEW k \in Nat PROVE zeros(k) \in Seq(D) /\ Len(zeros(k)) = k
    BY <1>0
  <2>5. PICK d \in Seq(D) : Len(d) = w /\ Bytes(o, m) \o zeros(Width - m) = a \o d
    <3>1. CASE m = n
      BY <2>1, <2>4, <3>1
    <3>2. CASE m # n
      <4>1. m = Width /\ n + w = m /\ o + n \in Nat /\ (o + n) + w <= StreamLen
        BY <1>0, <2>1, <3>2
      <4>2. Bytes(o + n, w) \in Seq(D) /\ Len(Bytes(o + n, w)) = w
        BY <2>1, <2>3, <4>1
      <4>3. a \o Bytes(o + n, w) = Bytes(o, n + w)
        BY <1>0, <2>1, BytesJoin
      <4>4. zeros(Width - m) = <<>>
        BY <1>0, <4>1
      <4>5. Bytes(o, m) \o <<>> = Bytes(o, m)
        <5>1. Bytes(o, m) \in Seq(Int)
          BY <1>0, BytesAre
        <5> QED
          BY <5>1, ConcatEmptySeq
      <4> QED
        BY <4>1, <4>2, <4>3, <4>4, <4>5
    <3> QED
      BY <3>1, <3>2
  <2>6. a \in Seq(D) /\ Len(a) = n
    <3>1. o + n <= StreamLen
      BY <1>0, <2>1
    <3> QED
      BY <2>1, <2>3, <3>1
  <2>7. TypedValue(c, Bytes(o, m)) = VintFromBytes(a \o d, n, c.le)
    BY <1>2, <2>2, <2>5 DEF TypedValue
  <2> HIDE DEF a, n, w
  <2>8. /\ FromBe(Base, a \o d) \div Power(Base, w) = FromBe(Base, a)
        /\ FromLe(Base, a \o d) % Power(Base, n) = FromLe(Base, a)
    BY <1>0, <2>5, <2>6, CutOff
  <2>9. TypedValue(c, Bytes(o, m)) = IF c.le THEN FromLe(Base, a) ELSE FromBe(Base, a)
    BY <2>7, <2>8 DEF VintFromBytes, w
  <2> QED
    BY <2>9 DEF a, n
<1> QED
  BY <1>1, <1>2

\* The typed reads: all or nothing.
LEMMA EndTypedInv == ASSUME LoopsInv, EndTyped PROVE LoopsInv'
<1>1. /\ rpc = "end" /\ call.op \in Typed /\ rpc' = "done"
      /\ ret' = (IF acc = <<>> /\ interrupted THEN Ok(0)
                 ELSE IF acc = <<>> /\ call.op = "try_read_type" THEN [ok |-> TRUE, none |-> TRUE]
                 ELSE IF Len(acc) < call.n THEN Short
                 ELSE [ok |-> TRUE, value |-> TypedValue(call, acc)])
      /\ UNCHANGED <<rvars, call, acc, origin, interrupted, cut>>
  BY DEF EndTyped
<1>2. ReaderInv /\ (Holding \/ Loaded) /\ KnownCall /\ Ended
  BY <1>1 DEF LoopsInv
<1>3. ReaderInv' /\ Cursor' = Cursor /\ Cursor \in Nat /\ Cursor <= StreamLen
  BY <1>1, <1>2, ReaderKept, CursorIn
<1>4. /\ call.n \in 1..Width /\ call.n \in Nat /\ call.n > 0 /\ call.load \in Nat /\ call.load \in {call.n, Width}
      /\ call.n <= call.load
  BY <1>1, <1>2, LoopAssumption DEF KnownCall
<1>5. PICK m \in Nat : /\ m = Len(acc) /\ acc = Bytes(origin, m) /\ origin \in Nat /\ origin + m <= StreamLen
                       /\ \/ m <= call.n /\ Cursor = origin + m
                          \/ m = call.load /\ Cursor = origin + call.n
  <2>1. CASE Holding
    BY <1>1, <1>3, <2>1 DEF Holding, Plain
  <2>2. CASE Loaded
    <3>1. /\ acc = Bytes(origin, call.load) /\ origin \in Nat /\ origin + call.load <= StreamLen
          /\ Cursor = origin + call.n
      BY <2>2 DEF Loaded
    <3>2. PICK k \in Nat : k = call.load
      BY <1>4
    <3>3. Len(Bytes(origin, k)) = k
      <4>1. origin \in Int
        BY <3>1
      <4> QED
        BY <4>1, BytesAre
    <3>4. Len(acc) = k
      BY <3>1, <3>2, <3>3, Zenon
    <3> QED
      BY <3>1, <3>2, <3>4
  <2> QED
    BY <1>2, <2>1, <2>2
<1>6. CallExact'
  BY <1>1 DEF CallExact
<1>7. acc = <<>> => m = 0
  BY <1>5
<1>8. m < call.n => Cursor = origin + m /\ LoopOver'
  BY <1>1, <1>2, <1>3, <1>4, <1>5 DEF Ended, LoopOver
<1>9. TypedExact'
  <2>1. CASE acc = <<>> /\ interrupted
    <3>1. ret'.ok = FALSE /\ ret'.err # "UnexpectedEof"
      BY <1>1, <2>1 DEF Ok, CheckInterruptIfZero
    <3> QED
      BY <3>1 DEF TypedExact
  <2>2. CASE acc = <<>> /\ ~interrupted /\ call.op = "try_read_type"
    <3>1. ret' = [ok |-> TRUE, none |-> TRUE]
      BY <1>1, <2>2
    <3>2. ret'.ok = TRUE /\ "none" \in DOMAIN ret'
      BY <3>1
    <3>3. Cursor' - origin' = 0 /\ LoopOver'
      BY <1>1, <1>3, <1>4, <1>5, <1>7, <1>8, <2>2
    <3> QED
      BY <3>2, <3>3 DEF TypedExact, LoopOver
  <2>3. CASE ~(acc = <<>> /\ interrupted) /\ ~(acc = <<>> /\ call.op = "try_read_type") /\ m < call.n
    <3>1. ret' = Short
      BY <1>1, <1>5, <2>3
    <3>2. ret'.ok = FALSE /\ LoopOver'
      BY <1>3, <1>8, <2>3, <3>1 DEF Short, ShortIoError
    <3> QED
      BY <3>2 DEF TypedExact, LoopOver
  <2>4. CASE ~(acc = <<>> /\ interrupted) /\ ~(acc = <<>> /\ call.op = "try_read_type") /\ ~(m < call.n)
    <3>1. ret' = [ok |-> TRUE, value |-> TypedValue(call, acc)]
      BY <1>1, <1>5, <2>4
    <3>2. m \in {call.n, call.load} /\ Cursor = origin + call.n
      BY <1>4, <1>5, <2>4
    <3>3. TypedValue(call, Bytes(origin, m)) =
             IF call.le THEN FromLe(Base, Bytes(origin, call.n)) ELSE FromBe(Base, Bytes(origin, call.n))
      BY <1>4, <1>5, <3>2, ValueIs
    <3>4. ret'.ok = TRUE /\ ret'.value = TypedValue(call, Bytes(origin, m)) /\ "none" \notin DOMAIN ret'
      BY <1>5, <3>1
    <3>5. Cursor' - origin' = call'.n
      <4>1. \A o, k \in Nat : (o + k) - o = k
        OBVIOUS
      <4> QED
        BY <1>1, <1>3, <1>4, <1>5, <3>2, <4>1, Zenon
    <3> QED
      BY <1>1, <3>3, <3>4, <3>5 DEF TypedExact
  <2> QED
    BY <2>1, <2>2, <2>3, <2>4
<1> QED
  BY <1>1, <1>3, <1>6, <1>9, DoneStep

\* Every step keeps the invariant.
LEMMA LoopsStep == ASSUME ~StaleRewind PROVE LoopsInv /\ [LoopsNext]_lvars => LoopsInv'
<1> SUFFICES ASSUME LoopsInv, [LoopsNext]_lvars PROVE LoopsInv'
  OBVIOUS
<1>0. ReaderInv /\ ReadExact
  BY DEF LoopsInv
<1>1. CASE UNCHANGED lvars
  <2>1. UNCHANGED rvars /\ UNCHANGED <<rpc, call, acc, pad, vcap, slices, origin, ret, interrupted, cut>>
    BY <1>1 DEF lvars, cvars
  <2>2. ReaderInv' /\ Cursor' = Cursor /\ Buffer' = Buffer
    BY <1>0, <2>1, ReaderKept DEF Buffer, rvars
  <2>3. CallExact' /\ TypedExact'
    BY <1>0, <2>1, <2>2 DEF ReadExact, CallExact, TypedExact, LineExact, Stripped
  <2> QED
    BY <2>1, <2>2, <2>3
    DEF LoopsInv, ReadExact, Holding, Plain, Loaded, KnownCall, VectorRoom, RoomLeft, Ended, LoopOver
<1>2. CASE rpc = "idle" /\ ReaderNext /\ UNCHANGED cvars
  <2>1. ReaderInv' /\ rpc' = "idle"
    BY <1>0, <1>2, ReaderNextStep DEF cvars
  <2> QED
    BY <2>1, NotDone DEF LoopsInv
<1>3. ASSUME NEW c \in Calls, Begin(c) PROVE LoopsInv'
  BY <1>3, CallsInv
<1>4. CASE LinesNext \/ \E string \in Prior : BeginLine(string)
  <2>1. PICK s \in Seq(Int) : BeginLine(s)
    <3>1. <<>> \in Seq(Int) /\ Prior \subseteq Seq(Int)
      BY LoopAssumption
    <3> QED
      BY <1>4, <3>1 DEF LinesNext
  <2>2. PICK c : c = [op |-> "read_line", held |-> s]
    OBVIOUS
  <2>3. c.op = "read_line" /\ c.held = s /\ c.op \notin Whole \cup Typed \cup Vectored
    BY <2>2 DEF Whole, Typed, Vectored
  <2> QED
    BY <2>1, <2>2, <2>3, BeginInv DEF BeginLine
<1>5. ASSUME NEW op \in Typed, NEW n \in 0..Width, NEW le \in BOOLEAN,
             (n > 0 /\ BeginTyped(op, n, le)) \/ BeginVfloat(op, n, le) \/ BeginVint(op, n, le)
      PROVE  LoopsInv'
  BY <1>5, TypedInv
<1>6. CASE Return
  <2>1. rpc' = "idle" /\ UNCHANGED rvars
    BY <1>6 DEF Return
  <2> QED
    BY <1>0, <2>1, ReaderKept, NotDone DEF LoopsInv
<1>7. CASE Interrupt
  <2>1. /\ rpc \notin {"idle", "done"} /\ interrupted' = TRUE
        /\ UNCHANGED rvars /\ UNCHANGED <<rpc, call, acc, pad, vcap, slices, origin, ret, cut>>
    BY <1>7 DEF Interrupt
  <2>2. ReaderInv' /\ Cursor' = Cursor /\ Buffer' = Buffer
    BY <1>0, <2>1, ReaderKept DEF Buffer, rvars
  <2> QED
    BY <2>1, <2>2, NotDone
    DEF LoopsInv, Holding, Plain, Loaded, KnownCall, VectorRoom, RoomLeft, Ended, LoopOver
<1>8. ASSUME NEW kind \in {"Interrupted", "Other"}, LoopError(kind) \/ FillError(kind) PROVE LoopsInv'
  BY <1>8, LoopErrorInv, FillErrorInv
<1> QED
  BY <1>1, <1>2, <1>3, <1>4, <1>5, <1>6, <1>7, <1>8, LoopWholeInv, LoopTypedFastInv, LoopVectoredInv,
     LoopToEndInv, LoopProbeInv, LoopUntilInv, LoopFillInv,
     EndReadInv, EndReadFullyInv, EndToStringInv, EndVectoredInv, EndTypedInv, EndUntilInv, Zenon
  DEF LoopsNext

\* Every method of a buffered reader takes from the stream what it gives to its caller and says
\* how much, whatever the reader below returns, fails with or is told by a signal, for every
\* capacity of the buffer and of the vector, every stream, every place of the line endings and
\* every string that a line is added to. It says that the stream is at its end only there, or
\* where an error of kind Interrupted stopped its loop (cut). Left out (~StaleRewind) are the
\* seeks and put-backs that stay in the buffer but go behind a read that was made past it.
THEOREM ReadsExact == ASSUME ~StaleRewind PROVE LoopsSpec => []ReadExact
<1>1. LoopsInit => LoopsInv
  <2> SUFFICES ASSUME LoopsInit PROVE LoopsInv
    OBVIOUS
  <2>1. ReaderInv /\ rpc = "idle"
    BY ReaderInitInv DEF LoopsInit
  <2> QED
    BY <2>1 DEF LoopsInv, ReadExact, CallExact, TypedExact
<1>2. LoopsInv /\ [LoopsNext]_lvars => LoopsInv'
  BY LoopsStep
<1>3. LoopsInv => ReadExact
  BY DEF LoopsInv
<1> QED
  BY <1>1, <1>2, <1>3, PTL DEF LoopsSpec

=============================================================================
