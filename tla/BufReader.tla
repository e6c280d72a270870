------------------------------ MODULE BufReader ------------------------------
(***************************************************************************)
(* The buffered reader (src/src/async_std/io/buf_reader.rs): BufReader,    *)
(* and BufReadHalf, which borrows its parts and has the same methods.      *)
(*                                                                         *)
(* The stream below has StreamLen bytes; the byte at position p is p. A    *)
(* read of it returns any number of bytes, 0 at the end, or fails; a seek  *)
(* goes where it is told, or fails. A method is one step: it has exclusive *)
(* access to the reader.                                                   *)
(***************************************************************************)
EXTENDS IoBytes

CONSTANTS
    Cap,          \* capacity of the buffer
    StreamLen,
    StaleRewind   \* also go back behind a direct read, which the code does not prevent

ASSUME ReaderAssumption == Cap \in Nat \ {0} /\ StreamLen \in Nat /\ StaleRewind \in BOOLEAN

VARIABLES
    data,          \* the buffer, indexed from 0
    start, end,    \* buffered
    ipos,          \* position of the reader below
    fastPos, fastLen, \* stream_position_fast, stream_len_fast of the reader below
    res,           \* result of the last call
    stale          \* history: bytes of data below this index do not precede the cursor

rvars == <<data, start, end, ipos, fastPos, fastLen, res, stale>>
fast == <<fastPos, fastLen>>

Bytes(p, k) == [i \in 1..k |-> p + i - 1]

Buffer == [i \in 1..(end - start) |-> data[start + i - 1]]
Cursor == ipos - Len(Buffer)

ReaderInit ==
    /\ data = [i \in 0..(Cap - 1) |-> -1]
    /\ start = 0 /\ end = 0 /\ ipos = 0 /\ stale = 0
    /\ fastPos \in BOOLEAN /\ fastLen \in BOOLEAN
    /\ res = [op |-> "none"]

\* what the reader below may return for n bytes
InnerRead(n) == IF n = 0 \/ ipos = StreamLen THEN {0} ELSE 1..Least(n, StreamLen - ipos)

ReadResult(bytes) == res' = [op |-> "read", bytes |-> bytes]
Failed == res' = [op |-> "failed"]

\* fill_buf_range(at..) with k bytes of the reader below
FillRange(at, k) ==
    /\ data' = [i \in 0..(Cap - 1) |-> IF i \in at..(at + k - 1) THEN ipos + (i - at) ELSE data[i]]
    /\ end' = IF k = 0 THEN end ELSE at + k
    /\ ipos' = ipos + k

-----------------------------------------------------------------------------
(* Read::read *)

ReadInto(n) ==
    /\ Buffer # <<>>
    /\ LET k == Least(n, Len(Buffer))
       IN  ReadResult(SubSeq(Buffer, 1, k)) /\ start' = start + k
    /\ UNCHANGED <<data, end, ipos, fast, stale>>

\* read_cold with a buffer as large as ours
ReadDirect(n) ==
    /\ Buffer = <<>> /\ n >= Cap
    /\ \E k \in InnerRead(n) :
         /\ ReadResult(Bytes(ipos, k))
         /\ ipos' = ipos + k
         /\ stale' = IF k = 0 THEN stale ELSE start
    /\ UNCHANGED <<data, start, end, fast>>

\* read_cold: fill_buf, then read_into
ReadFill(n) ==
    /\ Buffer = <<>> /\ n < Cap
    /\ \E k \in InnerRead(Cap) :
         /\ FillRange(0, k)
         /\ start' = IF k = 0 THEN start ELSE Least(n, k)
         /\ stale' = IF k = 0 THEN stale ELSE 0
         /\ ReadResult(Bytes(ipos, Least(n, k)))
    /\ UNCHANGED fast

ReadFails(n) ==
    /\ Buffer = <<>> /\ n > 0
    /\ res' = [op |-> "error"]
    /\ UNCHANGED <<data, start, end, ipos, fast, stale>>

Read(n) == ReadInto(n) \/ ReadDirect(n) \/ ReadFill(n)

-----------------------------------------------------------------------------
(* BufRead *)

Moved == [i \in 0..(Cap - 1) |-> IF i < Len(Buffer) THEN Buffer[i + 1] ELSE data[i]]

\* fill_amount has no room behind the buffered bytes: they are moved first, and
\* if there are none the buffer is used from its beginning
NoRoom(amount) == start + amount > Cap
FillAt(amount) == IF NoRoom(amount) THEN Len(Buffer) ELSE end
FillTo(amount) == IF NoRoom(amount) THEN amount ELSE start + amount

FillAmount(amount) ==
    LET at == FillAt(amount)
        move == NoRoom(amount) /\ Buffer # <<>>
    IN  /\ start + amount > end
        /\ \E k \in InnerRead(FillTo(amount) - at) :
             /\ data' = [i \in 0..(Cap - 1) |->
                          IF i \in at..(at + k - 1) THEN ipos + (i - at)
                          ELSE IF move THEN Moved[i] ELSE data[i]]
             /\ end' = IF k # 0 THEN at + k ELSE IF move THEN at ELSE end
             /\ start' = IF move \/ (at = 0 /\ k # 0) THEN 0 ELSE start
             /\ stale' = IF move \/ (at = 0 /\ k # 0) THEN 0 ELSE stale
             /\ ipos' = ipos + k
        /\ UNCHANGED <<fast, res>>

FillFails(amount) ==
    LET move == NoRoom(amount) /\ Buffer # <<>>
    IN  /\ start + amount > end
        /\ data' = IF move THEN Moved ELSE data
        /\ end' = IF move THEN Len(Buffer) ELSE end
        /\ start' = IF move THEN 0 ELSE start
        /\ stale' = IF move THEN 0 ELSE stale
        /\ res' = [op |-> "error"]
        /\ UNCHANGED <<ipos, fast>>

MoveDataToBeginning ==
    /\ start # 0
    /\ data' = Moved
    /\ start' = 0 /\ end' = Len(Buffer) /\ stale' = 0
    /\ UNCHANGED <<ipos, fast, res>>

\* the caller reads buffer() and consumes the bytes it used
Consume(k) ==
    /\ k <= Len(Buffer)
    /\ ReadResult(SubSeq(Buffer, 1, k))
    /\ start' = start + k
    /\ UNCHANGED <<data, end, ipos, fast, stale>>

Unconsume(k) ==
    /\ k <= start
    /\ StaleRewind \/ start - k >= stale
    /\ res' = [op |-> "unconsume"]
    /\ start' = start - k
    /\ UNCHANGED <<data, end, ipos, fast, stale>>

Discard ==
    /\ res' = [op |-> "discard"]
    /\ start' = 0 /\ end' = 0 /\ stale' = 0
    /\ UNCHANGED <<data, ipos, fast>>

\* into_parts, then from_parts with the vector it returned
Reassemble ==
    /\ data' = [i \in 0..(Cap - 1) |-> IF i < end THEN data[i] ELSE 0]
    /\ UNCHANGED <<start, end, ipos, fast, res, stale>>

-----------------------------------------------------------------------------
(* Seek; asked is the position the caller wants *)

SeekDone(asked, pos) == res' = [op |-> "seek", asked |-> asked, pos |-> pos]

\* seek_inner: the reader below goes to p; the buffer is discarded also when
\* it fails
SeekInner(asked, p) ==
    /\ \/ p \in 0..StreamLen /\ ipos' = p /\ SeekDone(asked, p)
       \/ ipos' = ipos /\ Failed
    /\ start' = 0 /\ end' = 0 /\ stale' = 0
    /\ UNCHANGED <<data, fast>>

\* seek_inner(Current(rel)) that forgets the bytes that are still buffered
SeekRelativeRaw(rel) ==
    IF start + rel \in 0..end
    THEN /\ start' = start + rel
         /\ StaleRewind \/ start' >= stale
         /\ SeekDone(Cursor + rel, ipos - (end - start')) \/ Failed
         /\ UNCHANGED <<data, end, ipos, fast, stale>>
    ELSE SeekInner(Cursor + rel, ipos + rel)

\* seek_relative: inside the buffer, or seek_inner(Current(rel)) less the
\* bytes that are still buffered
SeekRelative(rel) ==
    IF start + rel \in 0..end
    THEN /\ start' = start + rel
         /\ StaleRewind \/ start' >= stale
         /\ SeekDone(Cursor + rel, ipos - (end - start')) \/ Failed
         /\ UNCHANGED <<data, end, ipos, fast, stale>>
    ELSE SeekInner(Cursor + rel, ipos + rel - Len(Buffer))

\* seek(Start(p)): seek_abs when the position is cheap to get
SeekStart(p) == IF fastPos THEN SeekRelative(p - Cursor) ELSE SeekInner(p, p)

\* seek(End(e))
SeekEnd(e) ==
    IF fastPos /\ fastLen THEN SeekRelative(StreamLen + e - Cursor)
    ELSE SeekInner(StreamLen + e, StreamLen + e)

-----------------------------------------------------------------------------

ReaderNext ==
    \/ \E n \in 1..(Cap + 1) : Read(n) \/ ReadFails(n)
    \/ \E n \in 1..Cap : FillAmount(n) \/ FillFails(n) \/ Consume(n) \/ Unconsume(n)
    \/ MoveDataToBeginning \/ Discard \/ Reassemble
    \/ \E rel \in (-StreamLen)..StreamLen : SeekRelative(rel)
    \/ \E p \in 0..StreamLen : SeekStart(p) \/ SeekEnd(-p)

ReaderSpec == ReaderInit /\ [][ReaderNext]_rvars

-----------------------------------------------------------------------------
(* Properties *)

Abstract == INSTANCE AbstractStream WITH cursor <- Cursor, out <- res

\* The reader is the stream with a cursor: every read delivers the bytes at the
\* cursor, every seek that succeeds ends where it was asked to and says so, and
\* nothing else moves the cursor. This is so as long as no seek and no unconsume
\* goes back within the buffer to bytes from before a direct read (~StaleRewind).
\* read_cold reads past the buffer and leaves what is in it and its range as they
\* are (buf_reader.rs:70-77); seek_relative and unconsume go back into them all the
\* same (191-197, 208-224), and the next read delivers bytes of another place.
ReaderStream == Abstract!StreamSpec

\* "If the seek operation completed successfully, this method returns the new
\* position from the start of the stream" (async_std/io/seek.rs:10-11): what is
\* buffered after a seek, and is read next, are the bytes from that position on.
SeekReadsThere == res.op = "seek" => Buffer = Bytes(res.pos, Len(Buffer))
=============================================================================
