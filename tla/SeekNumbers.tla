----------------------------- MODULE SeekNumbers -----------------------------
(***************************************************************************)
(* The default methods of Seek (src/src/async_std/io/seek.rs) and the      *)
(* arithmetic they and others depend on: UintExt (impls/uint.rs), TimeSpec *)
(* (os/time.rs) and the scales of duration! (macros/src/duration.rs).      *)
(*                                                                         *)
(* u64 and i64 have Half values on each side of zero, at least 2. The      *)
(* stream below goes to any position that a u64 can express, or fails.     *)
(* UintExt is asked at every step for the two arguments x and y, which a   *)
(* caller may choose.                                                      *)
(***************************************************************************)
EXTENDS Integers, Sequences

CONSTANTS
    Half,       \* i64::MAX + 1
    FarSkip,    \* skip_amount may be called with more than i64::MAX
    MsPerSec, NsPerMs  \* 1000 and 1000000

ASSUME NumberAssumption ==
    /\ Half \in Nat \ {0, 1} /\ FarSkip \in BOOLEAN
    /\ MsPerSec \in Nat \ {0} /\ NsPerMs \in Nat \ {0}

VARIABLES
    pos,    \* position of the stream
    slen,   \* its length
    x, y,   \* arguments of UintExt
    sres    \* result of the last call

nvars == <<pos, slen, x, y, sres>>

U64 == 0..(2 * Half - 1)
I64 == (-Half)..(Half - 1)
Wrap(n) == n % (2 * Half)
AsI64(n) == IF Wrap(n) >= Half THEN Wrap(n) - 2 * Half ELSE Wrap(n)

-----------------------------------------------------------------------------
(* UintExt: self, rhs in U64; signed in I64 *)

\* the sign of the result is not compared with the order of the arguments
SignedDiffUnchecked(self, rhs) == [res |-> AsI64(self - rhs), overflow |-> AsI64(self - rhs) < 0]

OverflowingSignedDiff(self, rhs) ==
    LET res == AsI64(self - rhs) IN [res |-> res, overflow |-> (self >= rhs) = (res < 0)]

SaturatingSignedDiff(self, rhs) ==
    LET d == OverflowingSignedDiff(self, rhs)
    IN  IF ~d.overflow THEN d.res ELSE IF d.res < 0 THEN Half - 1 ELSE -Half

CheckedSignedDiff(self, rhs) ==
    LET d == OverflowingSignedDiff(self, rhs) IN IF d.overflow THEN {} ELSE {d.res}

OverflowingSubSigned(self, signed) ==
    [res |-> Wrap(self - Wrap(signed)), overflow |-> (self < Wrap(signed)) # (signed < 0)]

SaturatingSubSigned(self, signed) ==
    LET d == OverflowingSubSigned(self, signed)
    IN  IF ~d.overflow THEN d.res ELSE IF signed < 0 THEN 2 * Half - 1 ELSE 0

-----------------------------------------------------------------------------
(* Time *)

FromMs(ms) == [sec |-> ms \div MsPerSec, nanos |-> (ms % MsPerSec) * NsPerMs]
FromNanos(ns) == [sec |-> ns \div (MsPerSec * NsPerMs), nanos |-> ns % (MsPerSec * NsPerMs)]

\* None for a time that is not a duration
TryAsNanos(ts) == IF ts.sec < 0 \/ ts.nanos < 0 THEN {} ELSE {ts.nanos + ts.sec * MsPerSec * NsPerMs}
Indefinite == [sec |-> -1, nanos |-> -1]

Product(s) == LET p[i \in 0..Len(s)] == IF i = 0 THEN 1 ELSE p[i - 1] * s[i] IN p[Len(s)]

\* nanoseconds in a unit: Day, Hour, Minute, Second; of d:h:m:s, counted from the end
NamedScales == <<24, 60, 60, MsPerSec, NsPerMs>>
UnnamedScales == <<24, 60, 60, MsPerSec * NsPerMs>>
NamedScale(unit) == Product(SubSeq(NamedScales, unit, Len(NamedScales)))
UnnamedScale(index) == Product(SubSeq(UnnamedScales, Len(UnnamedScales) - index, Len(UnnamedScales)))

-----------------------------------------------------------------------------
(* Seek *)

NumbersInit ==
    /\ pos = 0 /\ slen \in U64 /\ x = 0 /\ y = 0
    /\ sres = [op |-> "none"]

Seekable(p) == p \in U64
Result(op, arg, from) == sres' = [op |-> op, arg |-> arg, from |-> from, pos |-> pos']
Fail == sres' = [op |-> "failed"]

\* the position is read, moved to the end and restored unless it is the end
StreamLenDefault ==
    /\ \/ pos' = pos /\ sres' = [op |-> "stream_len", arg |-> 0, from |-> pos, pos |-> slen]
       \/ pos' \in {pos, slen} /\ Fail
    /\ UNCHANGED <<slen, x, y>>

Rewind ==
    /\ \/ pos' = 0 /\ Result("rewind", pos, pos)
       \/ pos' = pos /\ Fail
    /\ UNCHANGED <<slen, x, y>>

\* one seek, or two when the amount has no negative i64
RewindAmount(amount) ==
    LET second == -AsI64(amount - Half)
    IN  /\ \/ /\ amount < Half
              /\ \/ Seekable(pos - amount) /\ pos' = pos - amount /\ Result("rewind", amount, pos)
                 \/ pos' = pos /\ Fail
           \/ /\ amount >= Half
              /\ \/ /\ Seekable(pos - Half) /\ Seekable(pos - Half + second)
                    /\ pos' = pos - Half + second /\ Result("rewind", amount, pos)
                 \/ pos' \in {pos, pos - Half} \cap U64 /\ Fail
        /\ UNCHANGED <<slen, x, y>>

\* the amount of every round is the larger of what is left and i64::MAX, as an i64
SkipAmount(amount) ==
    LET step == IF amount < Half THEN amount ELSE AsI64(amount)
    IN  /\ amount >= Half => FarSkip
        /\ \/ Seekable(pos + step) /\ pos' = pos + step /\ Result("skip", amount, pos)
           \/ pos' = pos /\ Fail
        /\ UNCHANGED <<slen, x, y>>

\* a caller sets the arguments of UintExt
Ask(a, b) == x' = a /\ y' = b /\ UNCHANGED <<pos, slen, sres>>

NumbersNext ==
    \/ StreamLenDefault \/ Rewind
    \/ \E amount \in U64 : RewindAmount(amount) \/ SkipAmount(amount)
    \/ sres.op = "none" /\ \E a, b \in U64 : Ask(a, b)

NumbersSpec == NumbersInit /\ [][NumbersNext]_nvars

-----------------------------------------------------------------------------
(* Properties *)

Clamp(n, lo, hi) == IF n < lo THEN lo ELSE IF n > hi THEN hi ELSE n

\* The mixed-sign operations agree with the integers: the checked ones are
\* defined exactly when the result fits, the saturating ones return the nearest
\* value that does. Times convert without loss, and both notations of a duration
\* give a unit the same length.
ArithmeticExact ==
    /\ CheckedSignedDiff(x, y) = {x - y} \cap I64
    /\ SaturatingSignedDiff(x, y) = Clamp(x - y, -Half, Half - 1)
    /\ LET s == AsI64(y)
           d == OverflowingSubSigned(x, s)
       IN  /\ d.overflow = (x - s \notin U64) /\ d.res = Wrap(x - s)
           /\ SaturatingSubSigned(x, s) = Clamp(x - s, 0, 2 * Half - 1)
    /\ TryAsNanos(FromMs(x)) = {x * NsPerMs} /\ TryAsNanos(FromNanos(x)) = {x}
    /\ TryAsNanos(Indefinite) = {}
    /\ \A i \in 0..3 : UnnamedScale(i) = NamedScale(4 - i)

\* A seek by an amount that succeeds has moved by exactly that amount, also when
\* the amount takes two seeks, and asking for the length moves nothing.
SeekExact ==
    /\ sres.op = "rewind" => pos = sres.from - sres.arg
    /\ sres.op = "skip" => pos = sres.from + sres.arg
    /\ sres.op = "stream_len" => pos = sres.from /\ sres.pos = slen

\* The default methods of Seek and the arithmetic below them. Left out
\* (FarSkip = FALSE) are skip_amounts above i64::MAX.
NumbersExact == ArithmeticExact /\ SeekExact
=============================================================================
