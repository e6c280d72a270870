------------------------------ MODULE BufWriter ------------------------------
(***************************************************************************)
(* The buffered writer (src/src/async_std/io/buf_writer.rs) on a file of   *)
(* at most FileMax bytes. A write of the file takes any number of bytes, 0 *)
(* if it is full, or fails; a seek of it goes where it is told, or fails.  *)
(* A method is one step: it has exclusive access to the writer. The writes *)
(* of flush_buf that succeed before one fails have reached the file.       *)
(***************************************************************************)
EXTENDS IoBytes

CONSTANTS
    WCap,        \* capacity of the buffer
    FileMax,
    Byte,        \* values of a byte
    SeekBuffered \* also take the seeks that are answered from the buffer

ASSUME WriterAssumption ==
    WCap \in Nat \ {0} /\ FileMax \in Nat /\ Byte \subseteq Nat /\ SeekBuffered \in BOOLEAN

VARIABLES
    file, wpos,   \* the writer below: its bytes and its position
    pend,         \* the bytes data[buffered]
    wstart,       \* buffered.start
    wfast,        \* stream_position_fast and stream_len_fast of the writer below
    wres          \* result of the last call

wvars == <<file, wpos, pend, wstart, wfast, wres>>

F == INSTANCE AbstractFile WITH content <- file, cursor <- wpos, out <- wres

BufferedEnd == wstart + Len(pend)
SpareCapacity == WCap - BufferedEnd
Prefix(s, k) == SubSeq(s, 1, k)
Rest(s, k) == SubSeq(s, k + 1, Len(s))

\* new, or from_parts with a buffer and a position in it
WriterInit ==
    /\ file = <<>> /\ wpos = 0
    /\ wstart \in 0..WCap
    /\ \E n \in 0..(WCap - wstart) : pend \in [1..n -> Byte]
    /\ wfast \in {FALSE, SeekBuffered}
    /\ wres = [op |-> "flush"]

\* the writer below takes bytes
Inner(bytes) ==
    /\ wpos + Len(bytes) <= FileMax \/ bytes = <<>>
    /\ file' = F!Overlay(file, wpos, bytes)
    /\ wpos' = wpos + Len(bytes)

Wrote(bytes) == wres' = [op |-> "write", bytes |-> bytes]
WFailed == wres' = [op |-> "failed"]

\* a flush that fails behind m bytes and discards what it has not written
FlushDiscards(m) == Inner(Prefix(pend, m)) /\ pend' = <<>> /\ wstart' = 0

\* flush_buf that fails, or is interrupted, behind m bytes
FlushPart(m) ==
    /\ m < Len(pend)
    /\ Inner(Prefix(pend, m))
    /\ pend' = Rest(pend, m) /\ wstart' = wstart + m

-----------------------------------------------------------------------------
(* Write *)

WriteBuffered(buf) ==
    LET k == Least(SpareCapacity, Len(buf))
    IN  /\ SpareCapacity > 0
        /\ pend' = pend \o Prefix(buf, k)
        /\ Wrote(Prefix(buf, k))
        /\ UNCHANGED <<file, wpos, wstart, wfast>>

\* flush_buf, then a buffer as large as ours goes to the writer below
WriteDirect(buf) ==
    /\ SpareCapacity = 0 /\ Len(buf) >= WCap
    /\ wpos + Len(pend) <= FileMax
    /\ \E k \in 0..Len(buf) :
         /\ k = 0 <=> wpos + Len(pend) = FileMax
         /\ Inner(pend \o Prefix(buf, k))
         /\ Wrote(Prefix(buf, k))
    /\ pend' = <<>> /\ wstart' = 0
    /\ UNCHANGED wfast

WriteFlush(buf) ==
    /\ SpareCapacity = 0 /\ Len(buf) < WCap
    /\ Inner(pend)
    /\ pend' = buf /\ wstart' = 0
    /\ Wrote(buf)
    /\ UNCHANGED wfast

WriteFails(buf) ==
    /\ SpareCapacity = 0
    /\ \/ \E m \in 0..(Len(pend) - 1) : FlushPart(m)
       \/ Len(buf) >= WCap /\ Inner(pend) /\ pend' = <<>> /\ wstart' = 0
    /\ WFailed
    /\ UNCHANGED wfast

Write(buf) == WriteBuffered(buf) \/ WriteDirect(buf) \/ WriteFlush(buf)

Flush ==
    /\ Inner(pend) /\ pend' = <<>> /\ wstart' = 0
    /\ wres' = [op |-> "flush"]
    /\ UNCHANGED wfast

\* also the flush of the writer below can fail
FlushFails ==
    /\ \/ \E m \in 0..(Len(pend) - 1) : FlushPart(m)
       \/ Inner(pend) /\ pend' = <<>> /\ wstart' = 0
    /\ WFailed
    /\ UNCHANGED wfast

\* pipe_from_once: the reader had bytes
PipeFromOnce(bytes) ==
    /\ IF SpareCapacity > 0
       THEN Len(bytes) <= SpareCapacity /\ pend' = pend \o bytes /\ UNCHANGED <<file, wpos, wstart>>
       ELSE Len(bytes) <= WCap /\ Inner(pend) /\ pend' = bytes /\ wstart' = 0
    /\ Wrote(bytes)
    /\ UNCHANGED wfast

\* the flush fails, or the reader
PipeFails ==
    \/ SpareCapacity = 0 /\ FlushFails
    \/ SpareCapacity > 0 /\ WFailed /\ UNCHANGED <<file, wpos, pend, wstart, wfast>>

-----------------------------------------------------------------------------
(* Seek; asked is the position the caller wants *)

WCursor == wpos + Len(pend)
StreamPosition == wpos + WCap

WSeekDone(asked, pos) == wres' = [op |-> "seek", asked |-> asked, pos |-> pos]

\* seek_inner to p
WSeekInner(asked, p) ==
    /\ \/ /\ WCursor <= FileMax \/ pend = <<>>
          /\ file' = F!Overlay(file, wpos, pend)
          /\ pend' = <<>> /\ wstart' = 0
          /\ \/ p \in 0..FileMax /\ wpos' = p /\ WSeekDone(asked, p)
             \/ wpos' = WCursor /\ WFailed
       \/ \E m \in 0..(Len(pend) - 1) : FlushPart(m) /\ WFailed
    /\ UNCHANGED wfast

\* seek_relative
WSeekRelative(asked, rel) ==
    IF rel \in 0..Len(pend)
    THEN /\ SeekBuffered
         /\ pend' = Prefix(pend, rel)
         /\ WSeekDone(asked, StreamPosition) \/ WFailed
         /\ UNCHANGED <<file, wpos, wstart, wfast>>
    ELSE WSeekInner(asked, WCursor + rel)

\* seek(Start(p)) and seek(End(e)) with p the position asked for
SeekAbs(p) == IF wfast THEN WSeekRelative(p, p - StreamPosition) ELSE WSeekInner(p, p)

-----------------------------------------------------------------------------

Bufs == UNION {[1..n -> Byte] : n \in 1..(WCap + 1)}

WriterNext ==
    \/ \E buf \in Bufs : Write(buf)
    \/ \E buf \in Bufs : WriteFails(buf)
    \/ Flush \/ FlushFails
    \/ \E buf \in Bufs \cup {<<>>} : PipeFromOnce(buf)
    \/ PipeFails
    \/ \E rel \in (-FileMax)..FileMax : WSeekRelative(WCursor + rel, rel)
    \/ \E p \in 0..FileMax : SeekAbs(p)

WriterSpec == WriterInit /\ [][WriterNext]_wvars

-----------------------------------------------------------------------------
(* Properties *)

Want == F!Overlay(file, wpos, pend)

AbstractWriter == INSTANCE AbstractFile WITH content <- Want, cursor <- WCursor, out <- wres

\* The writer is the file with a cursor, however far a flush got before it failed:
\* an accepted byte is the file's byte at the cursor, or will be when it is flushed,
\* and is neither lost nor written twice. This is so for seeks that flush
\* (~SeekBuffered). One that ends within the pending bytes, seek(Current(0)) among
\* them, is answered from the buffer: it sets buffered.end there and the bytes
\* behind, which were accepted, are gone (buf_writer.rs:205-218). Seeks from the
\* start and the end take that way too when the writer below tells its position
\* cheaply (wfast, buf_writer.rs:233-242).
WriterFile == AbstractWriter!FileSpec

\* "Write from `buf`, returning the amount of bytes wrote" (async_std/io/write.rs:35):
\* a seek takes none of them back.
SeekKeepsBytes == [][wres'.op = "seek" => Want' = Want]_wvars

\* "If the seek operation completed successfully, this method returns the new
\* position from the start of the stream" (async_std/io/seek.rs:10-11), which is
\* where the next byte goes.
SeekReturnsPosition == wres.op = "seek" => wres.pos = WCursor
=============================================================================
