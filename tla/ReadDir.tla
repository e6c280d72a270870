------------------------------ MODULE ReadDir ------------------------------
(* Listing a directory (os/dirent.rs): ReadDir keeps a buffer of records that *)
(* getdents64 fills, and walks it by the length each record states. The       *)
(* directory may grow, and be removed, while it is listed.                    *)
EXTENDS Integers, Sequences, SequencesExt

CONSTANTS
    Reclen,               \* the lengths of records
    BlockSize,            \* the block sizes a file system may report
    MinSize, MaxSize,     \* 32 KiB, 1 MiB
    MaxEntries            \* bound: entries ever in the directory

ASSUME ReadDirAssumption ==
    /\ Reclen \subseteq Nat \ {0}
    /\ BlockSize \subseteq Nat
    /\ \A r \in Reclen : r <= MinSize
    /\ MaxEntries \in Nat /\ MinSize \in Nat /\ MaxSize \in Nat /\ MinSize <= MaxSize

VARIABLES
    directory,     \* the lengths of its entries, in the order they are listed
    removed,
    fdPos,         \* how many entries the file description is past
    dirBuf,        \* the records in the buffer, of what size it is
    dirSize, offset, len, eof,
    state,         \* "closed", "open", or "failed" to open
    yielded        \* the positions of the entries next_entry gave out

dirvars == <<directory, removed, fdPos, dirBuf, dirSize, offset, len, eof, state, yielded>>

Size(records) ==
    LET sum[i \in 0..Len(records)] == IF i = 0 THEN 0 ELSE sum[i - 1] + directory[records[i]]
    IN  sum[Len(records)]

\* the record that starts at a byte of the buffer, if one does
Header(off) ==
    {dirBuf[i] : i \in {i \in DOMAIN dirBuf : Size(SubSeq(dirBuf, 1, i - 1)) = off}}

HasNextCached == offset < len

-----------------------------------------------------------------------------
ReadDirInit ==
    /\ directory \in SeqOf(Reclen, MaxEntries)
    /\ removed = FALSE /\ fdPos = 0
    /\ dirBuf = <<>> /\ dirSize = 0 /\ offset = 0 /\ len = 0 /\ eof = FALSE
    /\ state = "closed" /\ yielded = <<>>

NewFromBlockSize(size) ==
    IF size < MinSize THEN MinSize ELSE IF size > MaxSize THEN MaxSize ELSE size

\* open, statx and the check that it is a directory, any of which may fail
Open(blockSize) ==
    /\ state = "closed"
    /\ \/ state' = "failed" /\ UNCHANGED dirSize
       \/ state' = "open" /\ dirSize' = NewFromBlockSize(blockSize)
    /\ UNCHANGED <<directory, removed, fdPos, dirBuf, offset, len, eof, yielded>>

\* getdents64: some of the whole records that fit, none at the end; ENOENT when
\* the directory is gone, or another error, EINVAL when not one record fits.
Getdents(answer, count) ==
    \/ /\ answer = "ok" /\ ~removed
       /\ fdPos + count <= Len(directory)
       /\ Size([i \in 1..count |-> fdPos + i]) <= dirSize
       /\ count = 0 <=> fdPos = Len(directory)
    \/ answer = "noent" /\ removed /\ count = 0
    \/ answer = "error" /\ count = 0

\* Mutant: the offset of the previous fill stays.
RefillKeepsOffset ==
    /\ state = "open" /\ ~HasNextCached /\ ~eof
    /\ \E count \in 0..MaxEntries :
         /\ Getdents("ok", count)
         /\ fdPos' = fdPos + count
         /\ dirBuf' = [i \in 1..count |-> fdPos + i]
         /\ len' = Size(dirBuf')
         /\ eof' = (count = 0)
    /\ UNCHANGED <<directory, removed, dirSize, offset, state, yielded>>

\* read_from_fd, which next_entry calls once the buffer is used up (after the end
\* it changes nothing)
Refill ==
    /\ state = "open" /\ ~HasNextCached /\ ~eof
    /\ \E answer \in {"ok", "noent", "error"}, count \in 0..MaxEntries :
         /\ Getdents(answer, count)
         /\ fdPos' = fdPos + count
         /\ dirBuf' = [i \in 1..count |-> fdPos + i]
         /\ offset' = 0
         /\ len' = Size(dirBuf')
         /\ eof' = (answer # "error" /\ count = 0)
    /\ UNCHANGED <<directory, removed, dirSize, state, yielded>>

\* next_entry with records in the buffer
NextEntry ==
    /\ state = "open" /\ HasNextCached
    /\ \E i \in Header(offset) :
         /\ yielded' = Append(yielded, i)
         /\ offset' = offset + directory[i]
    /\ UNCHANGED <<directory, removed, fdPos, dirBuf, dirSize, len, eof, state>>

\* a file is created, behind what was listed; the directory is removed
Create(reclen) ==
    /\ ~removed /\ Len(directory) < MaxEntries
    /\ directory' = Append(directory, reclen)
    /\ UNCHANGED <<removed, fdPos, dirBuf, dirSize, offset, len, eof, state, yielded>>

Rmdir ==
    /\ ~removed
    /\ removed' = TRUE
    /\ UNCHANGED <<directory, fdPos, dirBuf, dirSize, offset, len, eof, state, yielded>>

ReadDirNext ==
    \/ \E size \in BlockSize : Open(size)
    \/ Refill \/ NextEntry
    \/ \E reclen \in Reclen : Create(reclen)
    \/ Rmdir

ReadDirSpec == ReadDirInit /\ [][ReadDirNext]_dirvars

-----------------------------------------------------------------------------
(* Properties *)

\* Every entry is given out once, in order, and none is lost by an error between
\* two fills: what was given out and what the buffer holds behind the offset are
\* exactly the entries the file description is past. The walk stays on the starts of records
\* up to the end of the fill, and a directory of any block size can be listed.
EntriesExact ==
    /\ HasNextCached => Header(offset) # {}
    /\ offset <= len
    /\ \E k \in 0..Len(dirBuf) :
         /\ Size(SubSeq(dirBuf, 1, k)) = offset
         /\ yielded \o SubSeq(dirBuf, k + 1, Len(dirBuf)) = [i \in 1..fdPos |-> i]
    /\ eof => ~HasNextCached /\ Len(yielded) = fdPos
    /\ (state = "open" /\ ~removed /\ ~HasNextCached /\ fdPos < Len(directory))
            => directory[fdPos + 1] <= dirSize
=============================================================================
