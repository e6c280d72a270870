------------------------------- MODULE IoBytes -------------------------------
(***************************************************************************)
(* What the readers and the writers share (src/src/async_std/io/mod.rs,    *)
(* src/src/io/mod.rs, src/src/io/typed.rs): slices of buffers, the results *)
(* of calls that were cut short, and numbers as bytes. A number has digits *)
(* in base b, which stands for 256.                                        *)
(***************************************************************************)
EXTENDS Integers, SequencesExt

Least(a, b) == IF a < b THEN a ELSE b

\* x followed by digits in base b
Horner(x, b, digits) ==
    LET v[i \in 0..Len(digits)] == IF i = 0 THEN x ELSE v[i - 1] * b + digits[i]
    IN  v[Len(digits)]

Total(lens) == Horner(0, 1, lens)
Power(b, n) == Horner(1, b, [i \in 1..n |-> 0])

\* advance_slices: the buffers that are used up, empty ones at the front of
\* the rest included, are removed and the first of the rest is shortened
AdvanceSlices(lens, amount) ==
    LET used == CHOOSE r \in 0..Len(lens) :
                  /\ Total(SubSeq(lens, 1, r)) <= amount
                  /\ \A q \in (r + 1)..Len(lens) : Total(SubSeq(lens, 1, q)) > amount
        rest == SubSeq(lens, used + 1, Len(lens))
    IN  IF rest = <<>> THEN rest
        ELSE [rest EXCEPT ![1] = @ - (amount - Total(SubSeq(lens, 1, used)))]

\* the first buffer that is not empty; 0 if there is none
FirstSlice(lens) ==
    IF \E i \in DOMAIN lens : lens[i] > 0
    THEN lens[CHOOSE i \in DOMAIN lens : lens[i] > 0 /\ \A j \in 1..(i - 1) : lens[j] = 0]
    ELSE 0

\* short_io_error_unless_interrupt
ShortIoError(interrupted) ==
    [ok |-> FALSE, err |-> IF interrupted THEN "Interrupted" ELSE "UnexpectedEof"]

CheckInterruptIfZero(n, interrupted) ==
    IF n = 0 /\ interrupted THEN [ok |-> FALSE, err |-> "Interrupted"] ELSE [ok |-> TRUE, n |-> n]

FromBe(b, bytes) == Horner(0, b, bytes)
FromLe(b, bytes) == FromBe(b, Reverse(bytes))

\* into_bytes of a number of w digits
IntoBytes(b, w, val, le) ==
    [i \in 1..w |-> (val \div Power(b, IF le THEN i - 1 ELSE w - i)) % b]
=============================================================================
