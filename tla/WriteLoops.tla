----------------------------- MODULE WriteLoops -----------------------------
(***************************************************************************)
(* The methods of Write that repeat a write (src/src/async_std/io/write.rs)*)
(* and the typed writes (typed.rs), on a BufWriter, and pipe_from. Between *)
(* two writes of a call the task can be interrupted.                       *)
(*                                                                         *)
(* given is what the caller wants written: the bytes of its buffers one    *)
(* after the other, the pieces of a format, or what a reader has.          *)
(*                                                                         *)
(* wpc: idle; loop; end; done                                              *)
(***************************************************************************)
EXTENDS BufWriter

CONSTANTS
    Given,   \* the byte sequences that callers write
    WWidth   \* size in bytes of the integer type of the typed writes

ASSUME WriteLoopAssumption ==
    /\ Given \subseteq Seq(Byte) /\ WWidth \in Nat \ {0}
    /\ \E b \in Byte : \A c \in Byte : c <= b

VARIABLES
    wpc,
    wcall,         \* the method and its arguments
    given,
    count,         \* bytes written so far
    wslices,       \* lengths of the buffers or pieces that are left
    worigin,       \* history: cursor when the call began
    wret,          \* what the call returned
    winterrupted

wcvars == <<wpc, wcall, given, count, wslices, worigin, wret, winterrupted>>

WBase == 1 + CHOOSE b \in Byte : \A c \in Byte : c <= b
WWhole == {"try_write_all", "write_all"}
WVectored == {"try_write_all_vectored", "write_all_vectored"}
WTyped == {"write_type_le", "write_type_be"}

\* the calls that fail unless everything was written
MustWriteAll == {"write_all", "write_all_vectored", "write_fmt"}

WriteLoopsInit ==
    /\ WriterInit
    /\ wpc = "idle" /\ wcall = [op |-> "none"] /\ given = <<>> /\ count = 0 /\ wslices = <<>>
    /\ worigin = 0 /\ wret = [ok |-> TRUE] /\ winterrupted = FALSE

Start(c, bytes, lens) ==
    /\ wpc = "idle" /\ wpc' = "loop"
    /\ wcall' = c /\ given' = bytes /\ wslices' = lens
    /\ count' = 0 /\ worigin' = WCursor
    /\ UNCHANGED <<wvars, wret, winterrupted>>

\* write_all, write_string and write_char; the try_ forms
StartWhole(op, bytes) == Start([op |-> op], bytes, <<>>)
StartVectored(op, bytes, k) == Start([op |-> op], bytes, <<k, Len(bytes) - k>>)

\* the pieces of the arguments, an empty one among them
StartFmt(bytes, k) == Start([op |-> "write_fmt"], bytes, <<k, 0, Len(bytes) - k>>)

StartTyped(op, val) ==
    Start([op |-> op, val |-> val], IntoBytes(WBase, WWidth, val, op = "write_type_le"), <<>>)
StartPipe(bytes) == Start([op |-> "pipe_from"], bytes, <<>>)

Left == Rest(given, count)

\* a short write is taken for all of it
TookAll(k) == wpc' = "end" /\ count' = IF k = 0 THEN count ELSE Len(given)

\* the inner call took bytes: none ends the call
Took(k) ==
    /\ count' = count + k
    /\ wpc' = IF k = 0 THEN "end" ELSE "loop"

LoopWriteAll ==
    /\ wpc = "loop" /\ wcall.op \in WWhole \cup WTyped
    /\ IF Left # <<>>
       THEN Write(Left) /\ Took(Len(wres'.bytes))
       ELSE wpc' = "end" /\ UNCHANGED <<wvars, count>>
    /\ UNCHANGED <<wcall, given, wslices, worigin, wret, winterrupted>>

\* default_write_vectored, one buffer at a time
LoopWriteVectored ==
    /\ wpc = "loop" /\ wcall.op \in WVectored
    /\ IF wslices # <<>> /\ FirstSlice(wslices) # 0
       THEN /\ Write(Prefix(Left, FirstSlice(wslices)))
            /\ Took(Len(wres'.bytes))
            /\ wslices' = AdvanceSlices(wslices, Len(wres'.bytes))
       ELSE wpc' = "end" /\ UNCHANGED <<wvars, count, wslices>>
    /\ UNCHANGED <<wcall, given, worigin, wret, winterrupted>>

\* FmtAdapter::write_str: write_string of a piece, which for an empty one comes to
\* the check for an interrupt
LoopFmt ==
    /\ wpc = "loop" /\ wcall.op = "write_fmt"
    /\ IF wslices = <<>> THEN wpc' = "end" /\ UNCHANGED <<wvars, count, wslices, wret>>
       ELSE IF Head(wslices) = 0
       THEN LET checked == CheckInterruptIfZero(0, winterrupted)
            IN  /\ wpc' = IF checked.ok THEN "loop" ELSE "done"
                /\ wret' = IF checked.ok THEN wret ELSE checked
                /\ wslices' = Tail(wslices)
                /\ UNCHANGED <<wvars, count>>
       ELSE /\ Write(Prefix(Left, Head(wslices)))
            /\ Took(Len(wres'.bytes))
            /\ wslices' = LET left == Head(wslices) - Len(wres'.bytes)
                          IN  (IF left = 0 THEN <<>> ELSE <<left>>) \o Tail(wslices)
            /\ UNCHANGED wret
    /\ UNCHANGED <<wcall, given, worigin, winterrupted>>

\* the reader of pipe_from has the bytes Left; it reads as many as it likes
LoopPipe ==
    /\ wpc = "loop" /\ wcall.op = "pipe_from"
    /\ \E k \in 0..Len(Left) :
         /\ k = 0 <=> Left = <<>>
         /\ PipeFromOnce(Prefix(Left, k))
         /\ Took(k)
    /\ UNCHANGED <<wcall, given, wslices, worigin, wret, winterrupted>>

\* is_interrupted is about the error, which can come from a writer below that was
\* interrupted itself, or that took the task's interrupt: stop and return what was
\* written. Any other error leaves the call.
LoopWriteError(kind) ==
    /\ wpc = "loop"
    /\ \/ wcall.op \in WWhole \cup WTyped /\ Left # <<>> /\ WriteFails(Left)
       \/ /\ wcall.op \in WVectored /\ FirstSlice(wslices) # 0
          /\ WriteFails(Prefix(Left, FirstSlice(wslices)))
       \/ /\ wcall.op = "write_fmt" /\ wslices # <<>> /\ Head(wslices) # 0
          /\ WriteFails(Prefix(Left, Head(wslices)))
       \/ wcall.op = "pipe_from" /\ PipeFails
    /\ IF kind = "Interrupted"
       THEN wpc' = "end" /\ winterrupted' \in {winterrupted, FALSE} /\ UNCHANGED wret
       ELSE wpc' = "done" /\ wret' = [ok |-> FALSE, err |-> kind] /\ UNCHANGED winterrupted
    /\ UNCHANGED <<wcall, given, count, wslices, worigin>>

\* the end of a call
Ends(ops, result) ==
    /\ wpc = "end" /\ wcall.op \in ops
    /\ wpc' = "done" /\ wret' = result
    /\ UNCHANGED <<wvars, wcall, given, count, wslices, worigin, winterrupted>>

Counted == [ok |-> TRUE, n |-> count]

EndTryWriteAll == Ends({"try_write_all"} \cup WTyped, CheckInterruptIfZero(count, winterrupted))

EndWriteAll ==
    Ends({"write_all"}, IF Left # <<>> THEN ShortIoError(winterrupted)
                        ELSE CheckInterruptIfZero(count, winterrupted))

\* these do not look for an interrupt when nothing was written
EndWriteVectored ==
    \/ Ends({"try_write_all_vectored"}, Counted)
    \/ Ends({"write_all_vectored"}, IF Left # <<>> THEN ShortIoError(winterrupted) ELSE Counted)

EndPipe == Ends({"pipe_from"}, Counted)

\* write_args: the error of a piece, or the sum of the pieces
EndFmt == Ends({"write_fmt"}, IF Left # <<>> THEN ShortIoError(winterrupted) ELSE Counted)

WReturn ==
    /\ wpc = "done" /\ wpc' = "idle"
    /\ wcall' = [op |-> "none"] /\ given' = <<>> /\ count' = 0 /\ wslices' = <<>>
    /\ worigin' = 0 /\ wret' = [ok |-> TRUE] /\ winterrupted' = FALSE
    /\ UNCHANGED wvars

WInterrupt ==
    /\ wpc \in {"loop", "end"} /\ ~winterrupted
    /\ winterrupted' = TRUE
    /\ UNCHANGED <<wvars, wpc, wcall, given, count, wslices, worigin, wret>>

-----------------------------------------------------------------------------

WriteLoopsNext ==
    \/ wpc = "idle" /\ WriterNext /\ UNCHANGED wcvars
    \/ \E op \in WWhole, bytes \in Given : StartWhole(op, bytes)
    \/ \E op \in WVectored, bytes \in Given, k \in 0..WCap : k <= Len(bytes) /\ StartVectored(op, bytes, k)
    \/ \E bytes \in Given, k \in 0..WCap : k <= Len(bytes) /\ StartFmt(bytes, k)
    \/ \E op \in WTyped, val \in 0..(Power(WBase, WWidth) - 1) : StartTyped(op, val)
    \/ \E bytes \in Given : StartPipe(bytes)
    \/ LoopWriteAll \/ LoopWriteVectored \/ LoopFmt \/ LoopPipe
    \/ \E kind \in {"Interrupted", "Other"} : LoopWriteError(kind)
    \/ EndTryWriteAll \/ EndWriteAll \/ EndWriteVectored \/ EndPipe \/ EndFmt \/ WReturn \/ WInterrupt

WriteLoopsSpec == WriteLoopsInit /\ [][WriteLoopsNext]_<<wvars, wcvars>>

-----------------------------------------------------------------------------
(* Properties *)

Written == SubSeq(Want, worigin + 1, WCursor)

\* A call puts into the file the bytes it was given, from the front, in order,
\* and reports exactly how many; the calls that must write everything do so or
\* fail, and a call that can be repeated after an interrupt has written nothing
\* when it reports one. A number is written as the digits that read back to it.
WriteExact ==
    wpc = "done" =>
        LET taken == WCursor - worigin
        IN  /\ Written = Prefix(given, taken)
            /\ wret.ok => wret.n = taken
            /\ wret.ok /\ wcall.op \in MustWriteAll => taken = Len(given)
            /\ ~wret.ok /\ wret.err = "Interrupted" /\ wcall.op \notin MustWriteAll => taken = 0
            /\ wret.ok /\ wcall.op = "write_type_le" /\ taken = WWidth => FromLe(WBase, Written) = wcall.val
            /\ wret.ok /\ wcall.op = "write_type_be" /\ taken = WWidth => FromBe(WBase, Written) = wcall.val
=============================================================================
