--------------------------- MODULE AbstractStream ---------------------------
(***************************************************************************)
(* What a reader of a stream with a cursor promises: a read delivers the   *)
(* bytes at the cursor and moves the cursor behind them, a seek that       *)
(* succeeds moves it where it was asked to. The byte at position p of the  *)
(* stream is p.                                                            *)
(***************************************************************************)
EXTENDS Integers, Sequences

VARIABLES cursor, out

Bytes(p, k) == [i \in 1..k |-> p + i - 1]

Deliver(k) ==
    /\ out' = [op |-> "read", bytes |-> Bytes(cursor, k)]
    /\ cursor' = cursor + k

SeekTo(p) ==
    /\ out' = [op |-> "seek", asked |-> p, pos |-> p]
    /\ cursor' = p

\* nothing is promised of the cursor when a seek fails
SeekFails ==
    /\ out' = [op |-> "failed"]
    /\ cursor' \in Nat

\* a read that fails takes nothing from the stream
ReadFails == out' = [op |-> "error"] /\ cursor' = cursor

Back(k) == out' = [op |-> "unconsume"] /\ cursor' = cursor - k

\* buffered bytes are thrown away
Drop == out' = [op |-> "discard"] /\ cursor' >= cursor

StreamInit == cursor = 0 /\ out = [op |-> "none"]

StreamNext ==
    \/ out'.op = "read" /\ Deliver(Len(out'.bytes))
    \/ out'.op = "seek" /\ SeekTo(out'.pos)
    \/ SeekFails \/ ReadFails \/ Back(cursor - cursor') \/ Drop

StreamSpec == StreamInit /\ [][StreamNext]_<<cursor, out>>
=============================================================================
