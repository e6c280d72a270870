------------------------------- MODULE Logger -------------------------------
(* The logger (log/): threads log records through one std Mutex around a     *)
(* std BufWriter on stderr. A record is the sequence of strings its          *)
(* Arguments hand to write_str, a string a sequence of "x" (some text) and   *)
(* "n" (a newline). A Display that panics, or logs, does so while the mutex  *)
(* is held; a write to stderr may fail after a part of it.                   *)
EXTENDS Integers, Sequences, SequencesExt

CONSTANTS
    Thread, Boot,     \* the threads that log; the one that ran the constructor
    Record,           \* the records a thread may log: the strings, and the name of
                      \* the struct as the widths in bytes of its characters
    TargetCap,        \* UninitBuf::<64>
    HeadLen,          \* the bytes of "@ {:0>8x} "
    OutCap,           \* BufWriter::with_capacity(1024)
    MaxLogs           \* bound: records logged

ASSUME LoggerAssumption ==
    /\ Boot \in Thread
    /\ {OutCap, TargetCap, HeadLen, MaxLogs} \subseteq Nat \ {0}
    /\ HeadLen < TargetCap

VARIABLES
    holder,       \* the mutex: {} or the thread that holds it
    poisoned,
    output, pipe, \* what the BufWriter holds, what stderr has taken
    adapter,      \* wrote_prefix of the Adapter in use
    todo,         \* per thread: the records it is yet to log
    args,         \* per thread: what write_fmt is yet to write of its record
    at,           \* per thread
    maxLevel, panicLog,
    logged, stderrFailed    \* history: the records in the order of the mutex

logvars == <<holder, poisoned, output, pipe, adapter, todo, args, at, maxLevel,
             panicLog, logged, stderrFailed>>

Off == 0
ErrorLevel == 1
InfoLevel == 3
TraceLevel == 5

Text == <<"x">>
Fmt(strings) == [strings |-> strings, name |-> <<>>]

-----------------------------------------------------------------------------
(* log_struct: the target *)

\* extend_from_slice keeps what fits; write_all then fails, which is ignored.
ExtendFromSlice(buf, data) ==
    buf \o SubSeq(data, 1, IF TargetCap - Len(buf) < Len(data)
                           THEN TargetCap - Len(buf) ELSE Len(data))

\* the bytes of a character name its place and its last byte
NameBytes(name) ==
    FlattenSeq([i \in DOMAIN name |-> [b \in 1..name[i] |-> <<i, b = name[i]>>]])

FormatStruct(name) ==
    ExtendFromSlice(ExtendFromSlice(<<>>, [b \in 1..HeadLen |-> <<0, TRUE>>]), NameBytes(name))

BadUtf8 == -1    \* "<error>"

\* from_utf8(&fmt_buf).unwrap_or("<error>"): how much of the name is shown
LogStruct(name) ==
    LET shown == FormatStruct(name)
    IN  IF Last(shown)[2] THEN Last(shown)[1] ELSE BadUtf8

-----------------------------------------------------------------------------
(* The writer below *)

\* Stderr takes all of the data, or a part of it and fails. Bound: it fails in
\* one call of the logger's.
Stderr(data) == IF stderrFailed THEN {Len(data)} ELSE 0..Len(data)

FlushTo(s) ==
    {[s EXCEPT !.pipe = @ \o SubSeq(s.output, 1, k),
               !.output = SubSeq(s.output, k + 1, Len(s.output)),
               !.ok = k = Len(s.output)] : k \in Stderr(s.output)}

PutThrough(s, data) ==
    {[s EXCEPT !.pipe = @ \o SubSeq(data, 1, k), !.ok = k = Len(data)] : k \in Stderr(data)}

\* std BufWriter::write_all
WriteAll(s, data) ==
    UNION {IF ~f.ok THEN {f}
           ELSE IF Len(data) >= OutCap THEN PutThrough(f, data)
           ELSE {[f EXCEPT !.output = @ \o data]}
           : f \in IF Len(data) > OutCap - Len(s.output) THEN FlushTo(s) ELSE {s}}

\* the bytes of a record say which one it is, in the order of the mutex
Marked(data) == [i \in DOMAIN data |-> <<Len(logged), data[i], 0>>]
PrefixBytes(name) == <<<<Len(logged), "prefix", LogStruct(name)>>>>

-----------------------------------------------------------------------------
(* Adapter *)

WritePrefix(t, s) ==
    IF s.wrote THEN {s}
    ELSE {[p EXCEPT !.wrote = TRUE] :
            p \in WriteAll(s, PrefixBytes(args[t].name))}

\* Mutant: the flag stays set after a newline.
WriteLineKeepsPrefix(t, s, line) ==
    UNION {IF ~p.ok THEN {p} ELSE WriteAll(p, Marked(line)) : p \in WritePrefix(t, s)}

\* one line of split_inclusive
WriteLine(t, s, line) ==
    UNION {IF ~p.ok THEN {p}
           ELSE {[w EXCEPT !.wrote = ~(w.ok /\ line # <<>> /\ Last(line) = "n")] :
                    w \in WriteAll(p, Marked(line))}
           : p \in WritePrefix(t, s)}

SplitInclusive(data) ==
    LET ends == SetToSortSeq({i \in DOMAIN data : data[i] = "n" \/ i = Len(data)}, <)
    IN  [k \in DOMAIN ends |->
            SubSeq(data, IF k = 1 THEN 1 ELSE ends[k - 1] + 1, ends[k])]

WriteStr(t, s, data) ==
    FoldLeft(LAMBDA S, line : UNION {IF r.ok THEN WriteLine(t, r, line) ELSE {r} : r \in S},
             {s}, IF Contains(data, "n") THEN SplitInclusive(data) ELSE <<data>>)

Adapter == [output |-> output, pipe |-> pipe, wrote |-> adapter, ok |-> TRUE]

Becomes(s) ==
    /\ output' = s.output /\ pipe' = s.pipe /\ adapter' = s.wrote
    /\ stderrFailed' = (stderrFailed \/ ~s.ok)

-----------------------------------------------------------------------------
(* Actions *)

Goto(t, place) == at' = [at EXCEPT ![t] = place]

\* The log! macro: a record above the level goes no further.
Log(t, level, r) ==
    /\ at[t] = "idle"
    /\ Len(logged) + Len(todo[t]) < MaxLogs
    /\ level <= maxLevel
    /\ todo' = [todo EXCEPT ![t] = <<r>>]
    /\ Goto(t, "lock")
    /\ UNCHANGED <<holder, poisoned, output, pipe, adapter, args, maxLevel, panicLog,
                   logged, stderrFailed>>

\* get_stderr().unwrap(), the new Adapter
GetStderr(t) ==
    /\ at[t] = "lock"
    /\ holder = {}
    /\ IF poisoned
       THEN /\ Goto(t, "panicked")
            /\ UNCHANGED <<holder, adapter, todo, args, logged>>
       ELSE /\ holder' = {t}
            /\ adapter' = FALSE
            /\ args' = [args EXCEPT ![t] = Head(todo[t])]
            /\ todo' = [todo EXCEPT ![t] = Tail(@)]
            /\ logged' = Append(logged, Head(todo[t]))
            /\ Goto(t, "write")
    /\ UNCHANGED <<poisoned, output, pipe, maxLevel, panicLog, stderrFailed>>

\* write_fmt hands over the next string, and stops at the first error.
WriteFmt(t) ==
    /\ at[t] = "write"
    /\ args[t].strings # <<>>
    /\ \E s \in WriteStr(t, Adapter, Head(args[t].strings)) :
         /\ Becomes(s)
         /\ args' = [args EXCEPT ![t].strings = IF s.ok THEN Tail(@) ELSE <<>>]
    /\ UNCHANGED <<holder, poisoned, todo, at, maxLevel, panicLog, logged>>

\* The newline, the flush, whatever became of them, and the guard's drop.
Finish(t) ==
    /\ at[t] = "write"
    /\ args[t].strings = <<>>
    /\ \E n \in IF adapter THEN WriteAll(Adapter, Marked(<<"n">>)) ELSE {Adapter} :
         \E s \in FlushTo([n EXCEPT !.ok = TRUE]) :
            Becomes([s EXCEPT !.ok = s.ok /\ n.ok])
    /\ holder' = {}
    /\ Goto(t, IF todo[t] = <<>> THEN "idle" ELSE "lock")
    /\ UNCHANGED <<poisoned, todo, args, maxLevel, panicLog, logged>>

\* A Display panics in write_fmt. panic_hook logs, on the thread that holds the
\* mutex; without the hook the guard is dropped by the unwinding.
DisplayPanics(t) ==
    /\ at[t] = "write"
    /\ args[t].strings # <<>>
    /\ IF panicLog
       THEN Goto(t, "stuck") /\ UNCHANGED <<holder, poisoned>>
       ELSE Goto(t, "panicked") /\ holder' = {} /\ poisoned' = TRUE
    /\ UNCHANGED <<output, pipe, adapter, todo, args, maxLevel, panicLog, logged,
                   stderrFailed>>

\* A Display logs a record of its own: the mutex is not reentrant.
DisplayLogs(t) ==
    /\ at[t] = "write"
    /\ args[t].strings # <<>>
    /\ maxLevel >= ErrorLevel
    /\ Goto(t, "stuck")
    /\ UNCHANGED <<holder, poisoned, output, pipe, adapter, todo, args, maxLevel,
                   panicLog, logged, stderrFailed>>

\* print_panic: what happened and where, and the back trace or a note
PrintPanic(captured) ==
    <<Fmt(<<Text, Text, <<"n", "x">>, Text>>),
      IF captured THEN Fmt(<<<<"n", "x", "n">>, Text>>) ELSE Fmt(<<Text>>)>>

\* panic_hook of a thread that panics outside of the logger
PanicHook(t, captured) ==
    /\ at[t] = "idle"
    /\ panicLog
    /\ maxLevel >= ErrorLevel
    /\ Len(logged) + 2 <= MaxLogs
    /\ todo' = [todo EXCEPT ![t] = PrintPanic(captured)]
    /\ Goto(t, "lock")
    /\ UNCHANGED <<holder, poisoned, output, pipe, adapter, args, maxLevel, panicLog,
                   logged, stderrFailed>>

\* Log::flush
FlushLog(t) ==
    /\ at[t] = "idle"
    /\ holder = {}
    /\ IF poisoned
       THEN Goto(t, "panicked") /\ UNCHANGED <<output, pipe, adapter, stderrFailed>>
       ELSE /\ output # <<>>
            /\ \E s \in FlushTo(Adapter) : Becomes(s)
            /\ UNCHANGED at
    /\ UNCHANGED <<holder, poisoned, todo, args, maxLevel, panicLog, logged>>

\* the constructor: the level of XX_LOG, or Info, and what it logs
LogInit ==
    /\ holder = {} /\ poisoned = FALSE
    /\ output = <<>> /\ pipe = <<>> /\ adapter = FALSE
    /\ args = [t \in Thread |-> Fmt(<<>>)]
    /\ panicLog \in BOOLEAN
    /\ \E first \in {<<>>, <<Fmt(<<Text, Text>>)>>} :
         /\ todo = [t \in Thread |-> IF t = Boot THEN first ELSE <<>>]
         /\ at = [t \in Thread |-> IF todo[t] = <<>> THEN "idle" ELSE "lock"]
         /\ \/ maxLevel \in {Off, ErrorLevel, InfoLevel} /\ first = <<>>  \* XX_LOG or none
            \/ maxLevel = TraceLevel /\ first # <<>>                      \* the trace! of it
            \/ maxLevel = InfoLevel /\ first # <<>>                       \* invalid XX_LOG
    /\ logged = <<>> /\ stderrFailed = FALSE

LogNext ==
    \E t \in Thread :
        \/ \E level \in {ErrorLevel, InfoLevel, TraceLevel}, r \in Record : Log(t, level, r)
        \/ GetStderr(t) \/ WriteFmt(t) \/ Finish(t)
        \/ DisplayPanics(t) \/ DisplayLogs(t) \/ FlushLog(t)
        \/ \E captured \in BOOLEAN : PanicHook(t, captured)

LogSpec == LogInit /\ [][LogNext]_logvars

-----------------------------------------------------------------------------
(* Properties *)

\* A record as a reader wants it: each of its lines behind the prefix and ended
\* by a newline. A string that is empty opens a line too.
Rendered(i) ==
    LET r      == logged[i]
        text   == FlattenSeq(r.strings)
        lines  == SplitInclusive(text)
        open   == r.strings # <<>> /\ (Last(r.strings) = <<>> \/ Last(text) # "n")
        blank  == open /\ (text = <<>> \/ Last(text) = "n")
        prefix == <<<<i, "prefix", LogStruct(r.name)>>>>
        marked(data) == [c \in DOMAIN data |-> <<i, data[c], 0>>]
    IN  FlattenSeq([l \in DOMAIN lines |-> prefix \o marked(lines[l])])
            \o (IF blank THEN prefix ELSE <<>>)
            \o (IF open THEN marked(<<"n">>) ELSE <<>>)

\* Lines of different records never mix, whichever threads log, panic or fail to
\* write, and as long as stderr takes everything and no Display has panicked,
\* what stands there between two records is every record, whole, every line of it
\* with its prefix, nothing left in the buffer.
LinesWhole ==
    LET all == pipe \o output
    IN  /\ \A i, j \in DOMAIN all : i < j => all[i][1] <= all[j][1]
        /\ (holder = {} /\ ~poisoned /\ ~stderrFailed) =>
              output = <<>> /\ pipe = FlattenSeq([i \in DOMAIN logged |-> Rendered(i)])
=============================================================================
