------------------------------- MODULE Errors -------------------------------
(***************************************************************************)
(* The error type (src/src/error): one word that is an OS error code, an   *)
(* error kind, a static message or an owned box, by its two lowest bits;   *)
(* contexts, which box another error; downcasts; and the conversions from  *)
(* and to std::io::Error, which is external.                               *)
(*                                                                         *)
(* A slot is a variable of the program that owns an error, an io::Error or *)
(* nothing. A payload is the value of the user's error type; it is dropped *)
(* or handed to the caller once.                                           *)
(***************************************************************************)
EXTENDS Integers, FiniteSets, Sequences, TLC

CONSTANTS
    Slot, Type,
    Addr,          \* addresses of boxes
    INVALID_UTF8, INVALID_CSTR,    \* addresses of static messages
    WordSize,      \* 2 to the width of usize
    Codes,         \* values of errno
    MaxPayload,    \* bound on the payloads made
    KindedIo       \* an io::Error with a payload of ours may have a kind

Static == {INVALID_UTF8, INVALID_CSTR}

ASSUME ErrorAssumption ==
    /\ Addr \cup Static \subseteq 1..(WordSize - 1) /\ Addr \cap Static = {} /\ IsFiniteSet(Addr)
    /\ \A a \in Addr \cup Static : a % 4 = 0
    /\ WordSize \in Nat /\ WordSize > 0 /\ WordSize % (256 * 65536) = 0
    /\ Codes \subseteq Int /\ MaxPayload \in Nat /\ KindedIo \in BOOLEAN

VARIABLES
    heap,      \* the allocated boxes
    val,       \* what a slot owns
    made,      \* payloads made so far
    moved,     \* payloads handed to the caller
    dropped,   \* payload -> times dropped
    capture,   \* backtraces are enabled
    born       \* history: slot -> kind and payload the error was made with

evars == <<heap, val, made, moved, dropped, capture, born>>

\* ErrorKind, by discriminant
ErrorKinds ==
    <<"NotFound", "PermissionDenied", "ConnectionRefused", "ConnectionReset",
      "HostUnreachable", "NetworkUnreachable", "ConnectionAborted", "NotConnected",
      "AddrInUse", "AddrNotAvailable", "NetworkDown", "BrokenPipe", "AlreadyExists",
      "WouldBlock", "NotADirectory", "IsADirectory", "DirectoryNotEmpty",
      "ReadOnlyFilesystem", "FileSystemLoop", "StaleNetworkFileHandle", "InvalidInput",
      "InvalidData", "TimedOut", "WriteZero", "StorageFull", "NotSeekable",
      "DiskQuotaExceeded", "FileTooLarge", "ResourceBusy", "ExecutableFileBusy",
      "Deadlock", "CrossesDevices", "TooManyLinks", "InvalidFilename",
      "ArgumentListTooLong", "Interrupted", "Unsupported", "UnexpectedEof",
      "OutOfMemory", "Overflow", "Shutdown", "FormatterError", "Unimplemented",
      "AlreadyInProgress", "NoData", "Other", "Uncategorized">>

KindNo(name) == (CHOOSE i \in DOMAIN ErrorKinds : ErrorKinds[i] = name) - 1

InvalidInput == KindNo("InvalidInput")
InvalidData == KindNo("InvalidData")
Interrupted == KindNo("Interrupted")
Other == KindNo("Other")
Uncategorized == KindNo("Uncategorized")

Empty == [t |-> "empty"]
ErrorOf(w) == [t |-> "error", w |-> w]
Unborn == [kind |-> Other, p |-> 0]

-----------------------------------------------------------------------------
(* The word *)

Shl8(n) == (n % (WordSize \div 256)) * 256
AsI16(n) == LET u == n % 65536 IN IF u >= 32768 THEN u - 65536 ELSE u

\* OsError: the codes of errno it has; any other is Unknown
OsErrors == (0..133) \ {41, 58}
OsErrorFrom(code) == IF code \in OsErrors THEN code ELSE -1

\* what a system call returned: a result, the address of a mapping, or -1 and errno
ErrResult(code) == [ok |-> FALSE, err |-> OsErrorFrom(code)]
ResultFromInt(result) == IF result >= 0 THEN [ok |-> TRUE] ELSE ErrResult(-result)
ResultFromPtr(word) == IF word <= WordSize - 4096 THEN [ok |-> TRUE] ELSE ErrResult(WordSize - word)
ResultFromLibc(result, errno) == IF result >= 0 THEN [ok |-> TRUE] ELSE ErrResult(errno)

NewOs(code) == Shl8(code) + 2
NewSimple(kind) == Shl8(kind) + 1
NewSimpleMessage(a) == a
NewCustom(a) == a + 3

Tag(w) == CASE w % 4 = 0 -> "SimpleMessage" [] w % 4 = 1 -> "Simple" [] w % 4 = 2 -> "Os" [] OTHER -> "Custom"
BoxOf(w) == w - (w % 4)
OsCode(w) == AsI16(BoxOf(w) \div 256)
SimpleKind(w) == (BoxOf(w) \div 256) % 256

\* ErrorKind::from(OsError)
OsKinds ==
    1 :> "PermissionDenied" @@ 2 :> "NotFound" @@ 4 :> "Interrupted" @@
    7 :> "ArgumentListTooLong" @@ 11 :> "WouldBlock" @@ 12 :> "OutOfMemory" @@
    13 :> "PermissionDenied" @@ 16 :> "ResourceBusy" @@ 17 :> "AlreadyExists" @@
    18 :> "CrossesDevices" @@ 20 :> "NotADirectory" @@ 21 :> "IsADirectory" @@
    22 :> "InvalidInput" @@ 26 :> "ExecutableFileBusy" @@ 27 :> "FileTooLarge" @@
    28 :> "StorageFull" @@ 29 :> "NotSeekable" @@ 30 :> "ReadOnlyFilesystem" @@
    31 :> "TooManyLinks" @@ 32 :> "BrokenPipe" @@ 35 :> "Deadlock" @@
    36 :> "InvalidFilename" @@ 38 :> "Unsupported" @@ 39 :> "DirectoryNotEmpty" @@
    40 :> "FileSystemLoop" @@ 98 :> "AddrInUse" @@ 99 :> "AddrNotAvailable" @@
    100 :> "NetworkDown" @@ 101 :> "NetworkUnreachable" @@
    103 :> "ConnectionAborted" @@ 104 :> "ConnectionReset" @@ 107 :> "NotConnected" @@
    110 :> "TimedOut" @@ 111 :> "ConnectionRefused" @@ 113 :> "HostUnreachable" @@
    116 :> "StaleNetworkFileHandle" @@ 122 :> "DiskQuotaExceeded" @@
    125 :> "Interrupted"

OsKind(code) == IF code \in DOMAIN OsKinds THEN KindNo(OsKinds[code]) ELSE Uncategorized

\* ErrorKind::from(io::ErrorKind), of the kinds of std that are stable
IoKinds ==
    {"NotFound", "PermissionDenied", "ConnectionRefused", "ConnectionReset",
     "ConnectionAborted", "NotConnected", "AddrInUse", "AddrNotAvailable", "BrokenPipe",
     "AlreadyExists", "WouldBlock", "InvalidInput", "InvalidData", "TimedOut", "WriteZero",
     "Interrupted", "Unsupported", "UnexpectedEof", "OutOfMemory"}
IoKind(name) == IF name \in IoKinds THEN KindNo(name) ELSE Other

MessageKind(a) == IF a = INVALID_UTF8 THEN InvalidData ELSE InvalidInput

-----------------------------------------------------------------------------
(* Chains of contexts *)

IsContext(w) == Tag(w) = "Custom" /\ heap[BoxOf(w)].vt = "context"

\* the error n contexts below w
Below(w) ==
    LET at[n \in 0..Cardinality(Addr)] ==
          IF n = 0 THEN w ELSE IF IsContext(at[n - 1]) THEN heap[BoxOf(at[n - 1])].inner ELSE at[n - 1]
    IN  at

Root(w) == Below(w)[Cardinality(Addr)]
Boxes(w) ==
    LET below == Below(w) IN {BoxOf(below[n]) : n \in {m \in DOMAIN below : Tag(below[m]) = "Custom"}}

\* the kind of an error that is not a context: the tables of new_basic, new_std
\* and new_boxed say Other, the one of new_error_impl asks the error
RootKind(w) ==
    CASE Tag(w) = "Os" -> OsKind(OsCode(w))
      [] Tag(w) = "Simple" -> SimpleKind(w)
      [] Tag(w) = "SimpleMessage" -> MessageKind(w)
      [] OTHER -> IF heap[BoxOf(w)].vt = "impl" THEN heap[BoxOf(w)].kind ELSE Other

\* a context that has a kind of its own
KindShallow(w) == IF IsContext(w) THEN Other ELSE RootKind(w)

Kind(w) == RootKind(Root(w))
OsErrorOf(w) == IF Tag(w) = "Os" THEN {OsCode(w)} ELSE {}
HasBacktrace(w) == \E b \in Boxes(w) : heap[b].bt

\* downcast_ptr: the payload of that type, if it is there
DowncastRef(w, ty) ==
    LET r == Root(w) IN IF Tag(r) = "Custom" /\ heap[BoxOf(r)].ty = ty THEN {heap[BoxOf(r)].p} ELSE {}

Payload(w) == IF Tag(Root(w)) = "Custom" THEN {heap[BoxOf(Root(w))].p} ELSE {}

-----------------------------------------------------------------------------
(* Boxes. Which free address the allocator returns tells nothing apart: the *)
(* lowest. *)

ErrorInit ==
    /\ heap = [a \in {} |-> Empty]
    /\ val = [s \in Slot |-> Empty] /\ born = [s \in Slot |-> Unborn]
    /\ made = 0 /\ moved = {} /\ dropped = [p \in 1..MaxPayload |-> 0]
    /\ capture \in BOOLEAN

Free == Addr \ DOMAIN heap
Allocated == {a \in Free : \A b \in Free : a <= b}
With(h, a, box) == [b \in DOMAIN h \cup {a} |-> IF b = a THEN box ELSE h[b]]
Without(h, as) == [b \in DOMAIN h \ as |-> h[b]]

Set(s, v, b) == val' = [val EXCEPT ![s] = v] /\ born' = [born EXCEPT ![s] = b]
Clear(s) == Set(s, Empty, Unborn)

-----------------------------------------------------------------------------
(* Constructors *)

FromOs(s, code) ==
    /\ val[s] = Empty
    /\ \E r \in {ResultFromInt(-code), ResultFromPtr(WordSize - code), ResultFromLibc(-1, code)} :
         ~r.ok /\ Set(s, ErrorOf(NewOs(r.err)), [kind |-> OsKind(OsErrorFrom(code)), p |-> 0])
    /\ UNCHANGED <<heap, made, moved, dropped, capture>>

FromKind(s, kind) ==
    /\ val[s] = Empty
    /\ Set(s, ErrorOf(NewSimple(kind)), [kind |-> kind, p |-> 0])
    /\ UNCHANGED <<heap, made, moved, dropped, capture>>

FromMessage(s, a) ==
    /\ val[s] = Empty
    /\ Set(s, ErrorOf(NewSimpleMessage(a)), [kind |-> MessageKind(a), p |-> 0])
    /\ UNCHANGED <<heap, made, moved, dropped, capture>>

\* CustomError::new: the table, the type it is found under and the kind it has
NewDyn(s, a, vt, ty, kind) ==
    /\ val[s] = Empty /\ a \in Free /\ made < MaxPayload
    /\ heap' = With(heap, a, [vt |-> vt, ty |-> ty, kind |-> kind, p |-> made + 1, bt |-> capture, inner |-> 0])
    /\ made' = made + 1
    /\ Set(s, ErrorOf(NewCustom(a)), [kind |-> kind, p |-> made + 1])
    /\ UNCHANGED <<moved, dropped, capture>>

\* Error::message, Error::new, From<BoxedError>, into_error
NewBasic(s, a, ty) == NewDyn(s, a, "basic", ty, Other)
NewStd(s, a, ty) == NewDyn(s, a, "std", ty, Other)
NewBoxed(s, a) == NewDyn(s, a, "boxed", "BoxedError", Other)
NewErrorImpl(s, a, ty, kind) == NewDyn(s, a, "impl", ty, kind)

\* context: a backtrace only if there is none below
Context(s, a) ==
    /\ val[s].t = "error" /\ a \in Free
    /\ LET w == val[s].w
       IN  heap' = With(heap, a, [vt |-> "context", ty |-> "context", kind |-> Other, p |-> 0,
                                  bt |-> capture /\ ~HasBacktrace(w), inner |-> w])
    /\ Set(s, ErrorOf(NewCustom(a)), born[s])
    /\ UNCHANGED <<made, moved, dropped, capture>>

-----------------------------------------------------------------------------
(* Downcast and drop *)

\* downcast_owned of a context that frees only the box of the payload
DowncastLeaks(s, ty) ==
    /\ val[s].t = "error"
    /\ DowncastRef(val[s].w, ty) # {}
    /\ heap' = Without(heap, {BoxOf(Root(val[s].w))})
    /\ moved' = moved \cup DowncastRef(val[s].w, ty)
    /\ Clear(s)
    /\ UNCHANGED <<made, dropped, capture>>

\* the payload is taken out and the boxes above it are freed; otherwise the
\* error is given back
Downcast(s, ty) ==
    /\ val[s].t = "error"
    /\ DowncastRef(val[s].w, ty) # {}
    /\ heap' = Without(heap, Boxes(val[s].w))
    /\ moved' = moved \cup DowncastRef(val[s].w, ty)
    /\ Clear(s)
    /\ UNCHANGED <<made, dropped, capture>>

Drop(s) ==
    /\ val[s].t = "error"
    /\ heap' = Without(heap, Boxes(val[s].w))
    /\ dropped' = [p \in DOMAIN dropped |-> dropped[p] + IF p \in Payload(val[s].w) THEN 1 ELSE 0]
    /\ Clear(s)
    /\ UNCHANGED <<made, moved, capture>>

-----------------------------------------------------------------------------
(* std::io::Error: of an OS code, of a kind, of a kind and a payload, which may
   be an Error of ours *)

NewIo(s, io) ==
    /\ val[s] = Empty
    /\ io.payload = "user" => made < MaxPayload
    /\ made' = IF io.payload = "user" THEN made + 1 ELSE made
    /\ Set(s, [t |-> "io", io |-> io, p |-> IF io.payload = "user" THEN made + 1 ELSE 0],
           [kind |-> IF io.payload = "os" THEN OsKind(OsErrorFrom(io.code)) ELSE IoKind(io.kind),
            p |-> IF io.payload = "user" THEN made + 1 ELSE 0])
    /\ UNCHANGED <<heap, moved, dropped, capture>>

IntoIo(s) ==
    /\ val[s].t = "error"
    /\ LET w == val[s].w
       IN  Set(s, IF OsErrorOf(w) # {}
                  THEN [t |-> "io", io |-> [payload |-> "os", code |-> OsCode(w)], p |-> 0]
                  ELSE [t |-> "io", io |-> [payload |-> "error", kind |-> "Other", w |-> w], p |-> 0],
               born[s])
    /\ UNCHANGED <<heap, made, moved, dropped, capture>>

\* into_error of an io::Error; new_boxed takes the kind and does not use it
FromIo(s, a) ==
    /\ val[s].t = "io" /\ a \in Free
    /\ LET io == val[s].io
           box(vt, ty, kind) == [vt |-> vt, ty |-> ty, kind |-> kind, p |-> val[s].p, bt |-> capture, inner |-> 0]
       IN  CASE io.payload = "os" -> Set(s, ErrorOf(NewOs(OsErrorFrom(io.code))), born[s]) /\ UNCHANGED heap
             [] io.payload = "error" -> Set(s, ErrorOf(io.w), born[s]) /\ UNCHANGED heap
             [] io.payload = "user" -> /\ heap' = With(heap, a, box("boxed", "BoxedError", IoKind(io.kind)))
                                       /\ Set(s, ErrorOf(NewCustom(a)), born[s])
             [] io.payload = "none" -> /\ heap' = With(heap, a, box("impl", "io", IoKind(io.kind)))
                                       /\ Set(s, ErrorOf(NewCustom(a)), born[s])
    /\ UNCHANGED <<made, moved, dropped, capture>>

IoErrors ==
    [payload : {"os"}, code : Codes] \cup [payload : {"none"}, kind : {"Interrupted", "HostUnreachable"}]
    \cup [payload : {"user"}, kind : IF KindedIo THEN {"Interrupted", "Other"} ELSE {"Other"}]

-----------------------------------------------------------------------------

ErrorNext == \E s \in Slot :
    \/ \E c \in Codes : FromOs(s, c)
    \/ \E k \in {Interrupted, Uncategorized} : FromKind(s, k)
    \/ \E a \in Static : FromMessage(s, a)
    \/ \E a \in Allocated, ty \in Type :
         \/ NewBasic(s, a, ty) \/ NewStd(s, a, ty)
         \/ \E k \in {Interrupted, Other} : NewErrorImpl(s, a, ty, k)
    \/ \E a \in Allocated : NewBoxed(s, a) \/ Context(s, a) \/ FromIo(s, a)
    \/ \E ty \in Type \cup {"BoxedError"} : Downcast(s, ty)
    \/ Drop(s) \/ IntoIo(s)
    \/ \E io \in IoErrors : NewIo(s, io)

ErrorSpec == ErrorInit /\ [][ErrorNext]_evars

-----------------------------------------------------------------------------
(* Properties *)

\* the error a slot owns, also through an io::Error
Words(s) == IF val[s].t = "error" THEN {val[s].w}
            ELSE IF val[s].t = "io" /\ val[s].io.payload = "error" THEN {val[s].io.w} ELSE {}

Owned(s) == UNION {Boxes(w) : w \in Words(s)}
Held(s) == IF val[s].t = "io" /\ val[s].p # 0 THEN {val[s].p} ELSE (UNION {Payload(w) : w \in Words(s)}) \ {0}

\* Every box has one owner and every payload ends once: the boxes of the errors
\* the program holds are allocated, no two errors share one, no box is left
\* behind, and a payload is in one error, or was handed out, or dropped, once.
HeapExact ==
    /\ DOMAIN heap = UNION {Owned(s) : s \in Slot}
    /\ \A s, t \in Slot : s # t => Owned(s) \cap Owned(t) = {}
    /\ \A p \in 1..made :
         dropped[p] + (IF p \in moved THEN 1 ELSE 0) + Cardinality({s \in Slot : p \in Held(s)}) = 1

\* every code and every kind fits into the word, beside the tag
WordExact ==
    /\ \A code \in OsErrors \cup {-1} : Tag(NewOs(code)) = "Os" /\ OsCode(NewOs(code)) = code
    /\ \A k \in 0..(Len(ErrorKinds) - 1) : Tag(NewSimple(k)) = "Simple" /\ SimpleKind(NewSimple(k)) = k

\* Contexts and conversions are transparent: an error has the kind and the
\* payload it was made with however it was wrapped, converted and encoded, the
\* payload is found under its type alone, and one backtrace was taken if any.
\* Left out (KindedIo = FALSE) is the io::Error that has both a payload of ours and
\* a kind of its own: new_boxed keeps its payload and loses its kind.
Transparent ==
    /\ (\A s \in Slot : val[s] = Empty) => WordExact
    /\ \A s \in Slot : \A w \in Words(s) :
         /\ Kind(w) = born[s].kind
         /\ Payload(w) \ {0} = {born[s].p} \ {0}
         /\ \A ty \in Type : DowncastRef(w, ty) \subseteq {born[s].p}
         /\ Tag(w) = "Custom" => Cardinality({b \in Boxes(w) : heap[b].bt}) = IF capture THEN 1 ELSE 0
=============================================================================
