------------------------------- MODULE MCData -------------------------------
(* What moves and carries data, each by itself: the calls on a buffered      *)
(* reader, the calls on a buffered writer, the error type, seek arithmetic,  *)
(* the logger, the listing of a directory.                                   *)
EXTENDS ReadLoops, WriteLoops, Errors, SeekNumbers, Logger, ReadDir

VARIABLE component

\* byte 0 is '\r' and byte 1 '\n'; strings before a read_line, one that ends in
\* '\r' and one in a whole line ending
MCPrior == {<<0>>, <<0, 1>>}

\* less than the buffer, more than it, and more than the file
MCGiven == {<<1, 0>>, <<0, 1, 1>>, <<1, 0, 0, 1, 0>>}

\* newlines in front and behind, an empty string and an empty record; a name that
\* fits the target and one that is cut within a character
MCRecord == {[strings |-> <<<<"n", "x">>, Text>>, name |-> <<1>>],
             [strings |-> <<<<"x", "n">>, <<>>>>, name |-> <<1, 2>>],
             Fmt(<<>>)}

readvars == lvars
writevars == <<wvars, wcvars>>

MCInit ==
    /\ component \in {"reader", "writer", "errors", "numbers", "log", "dir"}
    /\ LoopsInit /\ WriteLoopsInit /\ ErrorInit /\ NumbersInit /\ LogInit /\ ReadDirInit
    /\ component # "errors" => ~capture
    /\ component # "numbers" => slen = 0
    /\ component # "reader" => fastPos /\ fastLen
    /\ component # "writer" => ~wfast /\ wstart = 0 /\ pend = <<>>
    /\ component # "log" => ~panicLog /\ maxLevel = Off
    /\ component # "dir" => directory = <<>>

MCNext ==
    /\ UNCHANGED component
    /\ \/ component = "reader" /\ LoopsNext
          /\ UNCHANGED <<writevars, evars, nvars, logvars, dirvars>>
       \/ component = "writer" /\ WriteLoopsNext
          /\ UNCHANGED <<readvars, evars, nvars, logvars, dirvars>>
       \/ component = "errors" /\ ErrorNext
          /\ UNCHANGED <<readvars, writevars, nvars, logvars, dirvars>>
       \/ component = "numbers" /\ NumbersNext
          /\ UNCHANGED <<readvars, writevars, evars, logvars, dirvars>>
       \/ component = "log" /\ LogNext
          /\ UNCHANGED <<readvars, writevars, evars, nvars, dirvars>>
       \/ component = "dir" /\ ReadDirNext
          /\ UNCHANGED <<readvars, writevars, evars, nvars, logvars>>

MCSpec ==
    MCInit /\ [][MCNext]_<<component, readvars, writevars, evars, nvars, logvars, dirvars>>
=============================================================================
