---------------------------- MODULE AbstractFile ----------------------------
(***************************************************************************)
(* What a writer of a file with a cursor promises: the bytes that a write  *)
(* accepts are the file's bytes from the cursor on, a seek that succeeds   *)
(* moves the cursor where it was asked to, and a call that fails does      *)
(* neither.                                                                *)
(***************************************************************************)
EXTENDS Integers, Sequences

VARIABLES content, cursor, out

\* bytes written over c from position p on; a gap reads as zeroes
Overlay(c, p, bytes) ==
    LET len == IF p + Len(bytes) > Len(c) THEN p + Len(bytes) ELSE Len(c)
    IN  IF bytes = <<>> THEN c
        ELSE [i \in 1..len |->
               IF i \in (p + 1)..(p + Len(bytes)) THEN bytes[i - p]
               ELSE IF i <= Len(c) THEN c[i] ELSE 0]

Put(bytes) ==
    /\ out' = [op |-> "write", bytes |-> bytes]
    /\ content' = Overlay(content, cursor, bytes)
    /\ cursor' = cursor + Len(bytes)

SeekTo(p) ==
    /\ out' = [op |-> "seek", asked |-> p, pos |-> p]
    /\ cursor' = p
    /\ UNCHANGED content

\* a flush moves bytes below the interface; an error changes nothing
Quiet == out'.op \in {"flush", "failed"} /\ UNCHANGED <<content, cursor>>

FileNext ==
    \/ out'.op = "write" /\ Put(out'.bytes)
    \/ out'.op = "seek" /\ SeekTo(out'.pos)
    \/ Quiet

FileSpec == [][FileNext]_<<content, cursor, out>>
=============================================================================
