------------------------------ MODULE ReadLoops ------------------------------
(***************************************************************************)
(* The methods of Read and BufRead that repeat a read or a fill            *)
(* (src/src/async_std/io/read.rs) and the typed reads (typed.rs), on a     *)
(* BufReader. The calls come one after the other; between two reads of a   *)
(* call the task can be interrupted.                                       *)
(*                                                                         *)
(* acc is what the call has put into the caller's buffer, pad the zeroes   *)
(* that read_to_end has behind it; at the end of a read_line acc is the    *)
(* caller's string, what was in it included. The byte at position p is p;  *)
(* those in Delim stand for the delimiter, those in Cr for a carriage      *)
(* return. A typed value is a number with digits in base Base, which       *)
(* stands for 256.                                                         *)
(*                                                                         *)
(* rpc: idle; loop; probe (read_to_end); fill (read_until); end; done      *)
(***************************************************************************)
EXTENDS BufReader

CONSTANTS
    Delim,    \* positions of the delimiter
    Cr,       \* positions of '\r'
    Prior,    \* what the caller's string can hold before a read_line
    Reserve,  \* what a full vector grows by (32)
    Probe,    \* size of the probe of read_to_end (32)
    Width     \* size in bytes of the integer type of the typed reads

ASSUME LoopAssumption ==
    /\ Delim \subseteq 0..StreamLen /\ Cr \subseteq 0..StreamLen /\ Prior \subseteq Seq(Int)
    /\ {Reserve, Probe, Width} \subseteq Nat \ {0}
    /\ Width >= 2

VARIABLES
    rpc,
    call,         \* the method and its arguments
    acc, pad,
    vcap,         \* capacity of the vector of read_to_end
    slices,       \* lengths of the buffers that are left (vectored reads)
    origin,       \* history: cursor when the call began
    ret,          \* what the call returned
    interrupted,
    cut           \* history: an error of kind Interrupted ended the loop of the call

cvars == <<rpc, call, acc, pad, vcap, slices, origin, ret, interrupted, cut>>
lvars == <<rvars, cvars>>

Base == StreamLen + 1
Whole == {"try_read_fully", "read_fully"}
Vectored == {"try_read_fully_vectored", "read_fully_vectored"}
Until == {"read_until", "read_line"}
ToEnd == {"read_to_end", "read_to_string"}
Typed == {"try_read_type", "read_type"}

LoopsInit ==
    /\ ReaderInit
    /\ rpc = "idle" /\ call = [op |-> "none"] /\ acc = <<>> /\ pad = 0 /\ vcap = 0 /\ slices = <<>>
    /\ origin = 0 /\ ret = [ok |-> TRUE] /\ interrupted = FALSE /\ cut = FALSE

\* vint_from_bytes of size digits in a number of Width digits
VintFromBytes(bytes, size, le) ==
    IF le THEN FromLe(Base, bytes) % Power(Base, size) ELSE FromBe(Base, bytes) \div Power(Base, Width - size)

\* the value of a typed read: from_bytes of a type, or of the array of the widest
\* type, zeroes behind what was read
TypedValue(c, bytes) ==
    IF c.load = c.n THEN IF c.le THEN FromLe(Base, bytes) ELSE FromBe(Base, bytes)
    ELSE VintFromBytes(bytes \o [i \in 1..(Width - Len(bytes)) |-> 0], c.n, c.le)

-----------------------------------------------------------------------------
(* Calls *)

Begin(c) ==
    /\ rpc = "idle"
    /\ call' = c /\ acc' = <<>> /\ pad' = 0 /\ vcap' = 0 /\ origin' = Cursor
    /\ slices' = IF c.op \in Vectored THEN c.lens ELSE <<>>
    /\ rpc' = "loop"
    /\ UNCHANGED <<rvars, ret, interrupted, cut>>

\* a type of n bytes
BeginTyped(op, n, le) == Begin([op |-> op, n |-> n, load |-> n, le |-> le])

\* a float is read as one of two types
BeginVfloat(op, n, le) == n \in {Width \div 2, Width} /\ BeginTyped(op, n, le)

\* an integer of n bytes, read as the widest type; no bytes are the number zero
BeginVint(op, n, le) ==
    IF n > 0 THEN Begin([op |-> op, n |-> n, load |-> Width, le |-> le])
    ELSE /\ rpc = "idle" /\ rpc' = "done"
         /\ call' = [op |-> op, n |-> 0, load |-> Width, le |-> le]
         /\ ret' = [ok |-> TRUE, value |-> 0] /\ origin' = Cursor
         /\ UNCHANGED <<rvars, acc, pad, vcap, slices, interrupted, cut>>

BeginLine(string) == Begin([op |-> "read_line", held |-> string])

\* Lines::next: read_line into a new string
LinesNext == BeginLine(<<>>)

\* Read::read inside a call returned bytes: the end of the stream ends the call
Got(next) ==
    /\ acc' = acc \o res'.bytes
    /\ rpc' = IF res'.bytes = <<>> THEN "end" ELSE next

\* try_read_fully, and the loop of the typed reads: read_bytes of ReadTyped, the
\* cold path of BufReadTyped
LoopWhole ==
    /\ rpc = "loop" /\ call.op \in Whole \cup Typed
    /\ IF Len(acc) < call.n
       THEN Read(call.n - Len(acc)) /\ Got("loop")
       ELSE rpc' = "end" /\ UNCHANGED <<rvars, acc>>
    /\ UNCHANGED <<call, pad, vcap, slices, origin, ret, interrupted, cut>>

\* buf_get_bytes of BufReadTyped: the bytes of the array are loaded, n are consumed
LoopTypedFast ==
    /\ rpc = "loop" /\ call.op \in Typed /\ acc = <<>> /\ Len(Buffer) >= call.load
    /\ Consume(call.n)
    /\ acc' = SubSeq(Buffer, 1, call.load)
    /\ rpc' = "end"
    /\ UNCHANGED <<call, pad, vcap, slices, origin, ret, interrupted, cut>>

\* default_read_vectored: read_vectored reads into the first buffer with room
LoopVectored ==
    /\ rpc = "loop" /\ call.op \in Vectored
    /\ IF slices # <<>> /\ FirstSlice(slices) # 0
       THEN /\ Read(FirstSlice(slices)) /\ Got("loop")
            /\ slices' = AdvanceSlices(slices, Len(res'.bytes))
       ELSE rpc' = "end" /\ UNCHANGED <<rvars, acc, slices>>
    /\ UNCHANGED <<call, pad, vcap, origin, ret, interrupted, cut>>

\* read_to_end: reserve and resize, then read
LoopToEnd ==
    /\ rpc = "loop" /\ call.op \in ToEnd
    /\ IF interrupted
       THEN rpc' = "end" /\ UNCHANGED <<rvars, acc, pad, vcap>>
       ELSE /\ vcap' = IF Len(acc) = vcap THEN vcap + Reserve ELSE vcap
            /\ Read(vcap' - Len(acc))
            /\ Got(IF Len(acc) + Len(res'.bytes) < vcap' THEN "loop" ELSE "probe")
            /\ pad' = vcap' - Len(acc')
    /\ UNCHANGED <<call, slices, origin, ret, interrupted, cut>>

\* a probe whose bytes are used only if there is room for them
ProbeLoses ==
    /\ rpc = "probe"
    /\ Read(Probe)
    /\ rpc' = IF res'.bytes = <<>> THEN "end" ELSE "loop"
    /\ UNCHANGED <<call, acc, pad, vcap, slices, origin, ret, interrupted, cut>>

LoopProbe ==
    /\ rpc = "probe"
    /\ Read(Probe) /\ Got("loop")
    /\ vcap' = IF Len(acc') > vcap THEN Len(acc') ELSE vcap
    /\ pad' = 0
    /\ UNCHANGED <<call, slices, origin, ret, interrupted, cut>>

\* read_until: the bytes up to the delimiter, or all that are buffered
LoopUntil ==
    /\ rpc = "loop" /\ call.op \in Until
    /\ LET hits == {i \in DOMAIN Buffer : Buffer[i] \in Delim}
           used == IF hits = {} THEN Len(Buffer) ELSE CHOOSE i \in hits : \A j \in hits : i <= j
       IN  /\ Consume(used)
           /\ rpc' = IF hits = {} THEN "fill" ELSE "end"
           /\ acc' = acc \o SubSeq(Buffer, 1, used)
    /\ UNCHANGED <<call, pad, vcap, slices, origin, ret, interrupted, cut>>

LoopFill ==
    /\ rpc = "fill"
    /\ FillAmount(Cap)
    /\ rpc' = IF ipos' = ipos THEN "end" ELSE "loop"
    /\ UNCHANGED <<call, acc, pad, vcap, slices, origin, ret, interrupted, cut>>

-----------------------------------------------------------------------------
(* Errors of the reader below, and the end of a call *)

\* read_line: the line ending that the caller's string ends with is popped
EndsIn(s, set) == s # <<>> /\ Last(s) \in set
Chomp(s) ==
    IF ~EndsIn(s, Delim) THEN s
    ELSE IF EndsIn(Front(s), Cr) THEN Front(Front(s)) ELSE Front(s)

\* append_to_string: the guard takes back what a failed call put into a string
Truncated(bytes) ==
    IF call.op = "read_to_string" THEN <<>>
    ELSE IF call.op = "read_line" THEN Chomp(call.held) ELSE bytes

\* The reader below gives an error of this kind. It is a reader of its own: it can
\* fail with Interrupted when the task is not interrupted (EINTR), and can have
\* taken the interrupt (check_interrupt_take).
ErrorBelow(kind) ==
    IF kind = "Interrupted" THEN interrupted' \in {interrupted, FALSE} ELSE UNCHANGED interrupted

\* is_interrupted is about the error: the loops that read stop at the kind
\* Interrupted and return what they have. Any other error leaves the call.
LoopError(kind) ==
    /\ rpc \in {"loop", "probe"} /\ call.op \notin Until
    /\ call.op \in ToEnd /\ rpc = "loop" => ~interrupted
    /\ call.op \in Whole \cup Typed => Len(acc) < call.n
    /\ call.op \in Vectored => FirstSlice(slices) > 0
    /\ ReadFails(1) /\ ErrorBelow(kind)
    /\ IF kind = "Interrupted"
       THEN rpc' = "end" /\ cut' = TRUE /\ UNCHANGED <<acc, ret>>
       ELSE /\ rpc' = "done" /\ ret' = [ok |-> FALSE, err |-> kind]
            /\ acc' = Truncated(acc)
            /\ UNCHANGED cut
    /\ pad' = IF call.op \in ToEnd /\ rpc = "loop" /\ Len(acc) = vcap THEN Reserve ELSE pad
    /\ UNCHANGED <<call, vcap, slices, origin>>

\* read_until leaves with any error
FillError(kind) ==
    /\ rpc = "fill"
    /\ FillFails(Cap) /\ ErrorBelow(kind)
    /\ rpc' = "done"
    /\ ret' = [ok |-> FALSE, err |-> kind]
    /\ acc' = Truncated(acc)
    /\ UNCHANGED <<call, pad, vcap, slices, origin, cut>>

Short == ShortIoError(interrupted)
Ok(n) == CheckInterruptIfZero(n, interrupted)

\* try_read_fully and read_to_end; read_fully
EndRead ==
    /\ rpc = "end" /\ call.op \in {"try_read_fully", "read_to_end"}
    /\ ret' = Ok(Len(acc))
    /\ pad' = 0
    /\ rpc' = "done"
    /\ UNCHANGED <<rvars, call, acc, vcap, slices, origin, interrupted, cut>>

EndReadFully ==
    /\ rpc = "end" /\ call.op = "read_fully"
    /\ ret' = IF Len(acc) # call.n THEN Short ELSE Ok(Len(acc))
    /\ rpc' = "done"
    /\ UNCHANGED <<rvars, call, acc, pad, vcap, slices, origin, interrupted, cut>>

\* read_to_string: what read_to_end returns, if the bytes are text
EndToString ==
    /\ rpc = "end" /\ call.op = "read_to_string"
    /\ \/ ret' = Ok(Len(acc))
       \/ acc # <<>> /\ ret' = [ok |-> FALSE, err |-> "InvalidUtf8"]
    /\ acc' = IF ret'.ok THEN acc ELSE Truncated(acc)
    /\ pad' = 0
    /\ rpc' = "done"
    /\ UNCHANGED <<rvars, call, vcap, slices, origin, interrupted, cut>>

EndVectored ==
    /\ rpc = "end" /\ call.op \in Vectored
    /\ ret' = IF call.op = "read_fully_vectored" /\ slices # <<>> THEN Short
              ELSE [ok |-> TRUE, n |-> Len(acc)]
    /\ rpc' = "done"
    /\ UNCHANGED <<rvars, call, acc, pad, vcap, slices, origin, interrupted, cut>>

\* read_bytes: all or nothing; read_type does not take nothing
EndTyped ==
    /\ rpc = "end" /\ call.op \in Typed
    /\ ret' = IF acc = <<>> /\ interrupted THEN Ok(0)
              ELSE IF acc = <<>> /\ call.op = "try_read_type" THEN [ok |-> TRUE, none |-> TRUE]
              ELSE IF Len(acc) < call.n THEN Short
              ELSE [ok |-> TRUE, value |-> TypedValue(call, acc)]
    /\ rpc' = "done"
    /\ UNCHANGED <<rvars, call, acc, pad, vcap, slices, origin, interrupted, cut>>

\* None at the end of the stream; read_line checks the bytes, which the caller
\* loses if they are not text
EndUntil ==
    /\ rpc = "end" /\ call.op \in Until
    /\ \/ /\ ret' = IF acc = <<>> THEN [ok |-> TRUE, none |-> TRUE] ELSE [ok |-> TRUE, n |-> Len(acc)]
          /\ acc' = IF call.op = "read_line" THEN Chomp(call.held \o acc) ELSE acc
       \/ /\ call.op = "read_line" /\ acc # <<>>
          /\ ret' = [ok |-> FALSE, err |-> "InvalidUtf8"]
          /\ acc' = Truncated(acc)
    /\ rpc' = "done"
    /\ UNCHANGED <<rvars, call, pad, vcap, slices, origin, interrupted, cut>>

\* the caller uses the result; an interrupt was for this call
Return ==
    /\ rpc = "done" /\ rpc' = "idle"
    /\ call' = [op |-> "none"] /\ acc' = <<>> /\ pad' = 0 /\ vcap' = 0 /\ slices' = <<>>
    /\ origin' = 0 /\ ret' = [ok |-> TRUE] /\ interrupted' = FALSE /\ cut' = FALSE
    /\ UNCHANGED rvars

Interrupt ==
    /\ rpc \notin {"idle", "done"} /\ ~interrupted
    /\ interrupted' = TRUE
    /\ UNCHANGED <<rvars, rpc, call, acc, pad, vcap, slices, origin, ret, cut>>

-----------------------------------------------------------------------------

Calls ==
    [op : Whole, n : 1..(StreamLen + 1)]
    \cup [op : Vectored, lens : {<<1, 2>>, <<0, Cap>>, <<1, 0, 1>>}]
    \cup [op : ToEnd \cup {"read_until"}]

LoopsNext ==
    \/ rpc = "idle" /\ ReaderNext /\ UNCHANGED cvars
    \/ \E c \in Calls : Begin(c)
    \/ LinesNext \/ \E string \in Prior : BeginLine(string)
    \/ \E op \in Typed, n \in 0..Width, le \in BOOLEAN :
         \/ n > 0 /\ BeginTyped(op, n, le)
         \/ BeginVfloat(op, n, le) \/ BeginVint(op, n, le)
    \/ LoopWhole \/ LoopTypedFast \/ LoopVectored \/ LoopToEnd \/ LoopProbe \/ LoopUntil \/ LoopFill
    \/ \E kind \in {"Interrupted", "Other"} : LoopError(kind) \/ FillError(kind)
    \/ EndRead \/ EndReadFully \/ EndToString \/ EndVectored \/ EndTyped \/ EndUntil
    \/ Return \/ Interrupt

LoopsSpec == LoopsInit /\ [][LoopsNext]_lvars

-----------------------------------------------------------------------------
(* Properties *)

\* The methods that can be called again after an interrupt.
CancelSafe == {"try_read_fully", "try_read_fully_vectored", "read_to_end", "read_until"}

\* The string of a read_line is this one without the line ending it had.
Stripped(whole) ==
    \/ acc = whole /\ ~EndsIn(whole, Delim)
    \/ ~EndsIn(acc, Cr) /\ \E d \in Delim : whole = acc \o <<d>>
    \/ \E r \in Cr, d \in Delim : whole = acc \o <<r, d>>

\* What the caller's string holds after a read_line: what it held, then the line,
\* which ends behind a delimiter or where the stream ends, less a line ending.
LineExact ==
    LET taken == Cursor - origin
    IN  /\ Stripped(call.held \o IF ret.ok THEN Bytes(origin, taken) ELSE <<>>)
        /\ ret.ok => Cursor = StreamLen \/ Cursor - 1 \in Delim

\* A call takes from the stream what it gives to the caller: the bytes at the
\* cursor, in order, as many as it reports and no zeroes behind them; so does a
\* cancel-safe call that is interrupted. The calls that must fill the buffer
\* fill it or fail. A call says that the stream is at its end (UnexpectedEof,
\* None, no bytes) only there, or when the reader below gave it an error of kind
\* Interrupted (cut), which the loops take for the end of what they can read and
\* which only the task's own flag turns back into an error (read.rs:66, 119, 124,
\* 150, 301). A read_to_end stops short of the end for an interrupt only.
CallExact ==
    rpc = "done" /\ call.op \notin Typed =>
        LET taken == Cursor - origin
            exact == pad = 0 /\ acc = Bytes(origin, taken)
            atEnd == Cursor = StreamLen \/ cut
        IN  /\ IF call.op = "read_line" THEN LineExact ELSE ret.ok => exact
            /\ "n" \in DOMAIN ret => ret.n = taken /\ (taken = 0 => atEnd)
            /\ "none" \in DOMAIN ret => taken = 0 /\ atEnd
            /\ ret.ok /\ call.op = "read_fully" => taken = call.n
            /\ ret.ok /\ call.op = "read_fully_vectored" => taken = Total(call.lens)
            /\ ret.ok /\ call.op \in ToEnd => atEnd \/ interrupted
            /\ ~ret.ok /\ ret.err = "Interrupted" /\ call.op \in CancelSafe => exact
            /\ ~ret.ok /\ ret.err = "UnexpectedEof" => atEnd

\* A typed read is the number that the next bytes spell, by either path, and
\* consumes exactly them; None means that there were none, at the end of the
\* stream or where an error of kind Interrupted cut the read.
TypedExact ==
    rpc = "done" /\ call.op \in Typed =>
        LET taken == Cursor - origin
            digits == Bytes(origin, call.n)
            atEnd == Cursor = StreamLen \/ cut
        IN  IF ~ret.ok THEN ret.err = "UnexpectedEof" => atEnd
            ELSE IF "none" \in DOMAIN ret THEN taken = 0 /\ atEnd
            ELSE taken = call.n
                 /\ ret.value = IF call.le THEN FromLe(Base, digits) ELSE FromBe(Base, digits)

\* Every call of a reader gives the caller what the stream has, as bytes or as a
\* number.
ReadExact == CallExact /\ TypedExact

\* "Read a type, returning `None` if EOF and no bytes were read"
\* (async_std/io/typed.rs:391).
NoneMeansEnd == rpc = "done" /\ "none" \in DOMAIN ret => Cursor = StreamLen

\* read_line "may return an invalid utf-8 error and the buf is truncated to its
\* original length" (async_std/io/read.rs:435-436).
FailedLineRestores ==
    rpc = "done" /\ call.op = "read_line" /\ ~ret.ok /\ ret.err = "InvalidUtf8" => acc = call.held
=============================================================================
