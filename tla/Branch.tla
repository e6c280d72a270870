------------------------------- MODULE Branch -------------------------------
(***************************************************************************)
(* Running two futures together: Branch (src/src/coroutines/branch.rs),    *)
(* behind join and select.  Everything runs on one thread, but the code    *)
(* calls out (Future::run, Cancel::run, Request::complete) and the futures *)
(* call back: "the caller must be prepared for the callback to be executed *)
(* from within this call" (future/mod.rs).  The calls in progress are the  *)
(* sequence `calls`, innermost last.                                       *)
(*                                                                         *)
(* The two futures are the environment, constrained by the contract of     *)
(* Future: future i is running inside its run, then pending until it       *)
(* completes once, through its callback, never from within its own run.    *)
(* When one task's code wakes the other, a future completes inside a call  *)
(* made for the other one.  A completion that cancels nothing may always   *)
(* happen inside the other's run; Reentry adds the completions that do     *)
(* cancel ("run"), and those inside the other's cancel ("cancel").         *)
(***************************************************************************)
EXTENDS Naturals, Sequences

CONSTANTS
    Modes,       \* subset of {"select", "join"}: the should_cancel in use
    MayPanic,    \* whether a future may end with a panic or an error
    Reentry      \* subset of {"run", "cancel"}

ASSUME ModesAssumption == Modes \subseteq {"select", "join"} /\ Modes # {}
ASSUME MayPanicAssumption == MayPanic \in BOOLEAN
ASSUME ReentryAssumption == Reentry \subseteq {"run", "cancel"}

VARIABLES
    mode,
    future,     \* environment: idle, running, pending or done
    handle,     \* FutureHandle.state: Ready, Empty, Pending or Done
    icb,        \* interrupt_callback
    calls,      \* calls in progress
    phase,      \* new, running, pending (run returned Pending), returned (run
                \* returned Done), completed (Request::complete was called)
    cancelled,  \* futures whose cancel was run
    asked,      \* cancel_all was called
    output,     \* BranchOutput: is_first, and the futures with a result
    winner,     \* the future that ended first, 0 if none did
    failed,     \* futures that ended with a panic or an error
    fault

brvars == <<mode, future, handle, icb, calls, phase, cancelled, asked, output, winner, failed, fault>>

Two == {1, 2}
Other(i) == 3 - i
Over == phase \in {"returned", "completed"}

\* call: run | rcancel (the cancel inside run) | cancel | all (cancel_all);
\* also: cancel_all still holds the second future's cancel
Call(name, i, also) == [name |-> name, fut |-> i, also |-> also]
Calls == [name : {"run", "rcancel", "cancel", "all"}, fut : Two, also : BOOLEAN]
Inner == calls[Len(calls)]
InCall(name) == calls # <<>> /\ Inner.name = name
Returned == SubSeq(calls, 1, Len(calls) - 1)

\* the should_cancel of join: when a task failed; of select: always
JoinCancels(p) == p
SelectCancels(p) == TRUE

ShouldCancel(p) == IF mode = "select" THEN SelectCancels(p) ELSE JoinCancels(p)

\* from_branch: a result that failed is resumed; join needs both results, select
\* the one of the future that is first
JoinFromBranch(out, bad) ==
    IF out.of \cap bad # {} THEN "resumes panic" ELSE IF out.of = {1, 2} THEN "Join" ELSE "unreachable"

SelectFromBranch(out, bad) ==
    IF out.of \cap bad # {} THEN "resumes panic"
    ELSE IF out.first /\ 1 \in out.of THEN "First"
    ELSE IF ~out.first /\ 2 \in out.of THEN "Second" ELSE "unreachable"

Panics == IF MayPanic THEN BOOLEAN ELSE {FALSE}

NoOutput == [first |-> FALSE, of |-> {}]

BranchInit ==
    /\ mode \in Modes
    /\ future = [i \in Two |-> "idle"]
    /\ handle = [i \in Two |-> "Ready"]
    /\ icb = FALSE
    /\ calls = <<>>
    /\ phase = "new"
    /\ cancelled = {}
    /\ asked = FALSE
    /\ output = NoOutput
    /\ winner = 0
    /\ failed = {}
    /\ fault = "none"

Ended(i, p) ==
    /\ future' = [future EXCEPT ![i] = "done"]
    /\ failed' = IF p THEN failed \cup {i} ELSE failed
    /\ winner' = IF winner = 0 THEN i ELSE winner

-----------------------------------------------------------------------------
(* Branch::run *)

\* FutureHandle::run of the first future
Run ==
    /\ phase = "new"
    /\ phase' = "running"
    /\ handle' = [handle EXCEPT ![1] = "Empty"]
    /\ future' = [future EXCEPT ![1] = "running"]
    /\ calls' = Append(calls, Call("run", 1, FALSE))
    /\ UNCHANGED <<mode, icb, cancelled, asked, output, winner, failed, fault>>

\* the first future is pending: FutureHandle::run of the second
FirstPending ==
    /\ InCall("run") /\ Inner.fut = 1
    /\ handle' = [handle EXCEPT ![1] = "Pending", ![2] = "Empty"]
    /\ future' = [future EXCEPT ![1] = "pending", ![2] = "running"]
    /\ calls' = Append(Returned, Call("run", 2, FALSE))
    /\ UNCHANGED <<mode, icb, phase, cancelled, asked, output, winner, failed, fault>>

\* the first future ended in run (p: with a panic or an error)
FirstDone(p) ==
    /\ InCall("run") /\ Inner.fut = 1
    /\ winner' = 1
    /\ failed' = IF p THEN {1} ELSE {}
    /\ IF ShouldCancel(p)
         THEN /\ phase' = "returned"
              /\ output' = [first |-> TRUE, of |-> {1}]
              /\ handle' = [handle EXCEPT ![1] = "Empty"]
              /\ future' = [future EXCEPT ![1] = "done"]
              /\ calls' = Returned
         ELSE /\ handle' = [handle EXCEPT ![1] = "Done", ![2] = "Empty"]
              /\ future' = [future EXCEPT ![1] = "done", ![2] = "running"]
              /\ calls' = Append(Returned, Call("run", 2, FALSE))
              /\ UNCHANGED <<phase, output>>
    /\ UNCHANGED <<mode, icb, cancelled, asked, fault>>

\* the second future is pending: run returns Progress::Pending
SecondPending ==
    /\ InCall("run") /\ Inner.fut = 2
    /\ handle' = [handle EXCEPT ![2] = "Pending"]
    /\ future' = [future EXCEPT ![2] = "pending"]
    /\ calls' = Returned
    /\ phase' = "pending"
    /\ UNCHANGED <<mode, icb, cancelled, asked, output, winner, failed, fault>>

\* Progress::Done with both results; the code passes done, which is true
RunReturnsBoth ==
    /\ phase' = "returned"
    /\ output' = [first |-> TRUE, of |-> Two]

\* the second future ended in run
SecondDone(p) ==
    /\ InCall("run") /\ Inner.fut = 2
    /\ Ended(2, p)
    /\ CASE handle[1] = "Done" ->
              /\ RunReturnsBoth
              /\ handle' = [i \in Two |-> "Empty"]
              /\ calls' = Returned
              /\ UNCHANGED <<icb, cancelled, fault>>
         [] handle[1] # "Done" /\ ShouldCancel(p) ->
              /\ icb' = TRUE
              /\ handle' = [handle EXCEPT ![1] = "Empty", ![2] = "Done"]
              /\ fault' = IF handle[1] = "Pending" THEN fault ELSE "cancel called twice"
              /\ cancelled' = cancelled \cup {1}
              /\ calls' = Append(Returned, Call("rcancel", 1, FALSE))
              /\ UNCHANGED <<phase, output>>
         [] OTHER ->
              /\ handle' = [handle EXCEPT ![2] = "Done"]
              /\ phase' = "pending"
              /\ calls' = Returned
              /\ UNCHANGED <<icb, output, cancelled, fault>>
    /\ UNCHANGED <<mode, asked>>

\* the cancel inside run returned: the callback ran inside it iff it took icb
RunCancelReturns ==
    /\ InCall("rcancel")
    /\ calls' = Returned
    /\ icb' = FALSE
    /\ IF icb
         THEN phase' = "pending" /\ UNCHANGED <<handle, output>>
         ELSE RunReturnsBoth /\ handle' = [i \in Two |-> "Empty"]
    /\ UNCHANGED <<mode, future, cancelled, asked, winner, failed, fault>>

-----------------------------------------------------------------------------
(* Completion callbacks *)

\* where future i may call back: anywhere once run has returned, inside its own
\* cancel, and inside the other future's run or cancel where Reentry says so
MayCallBack(i, p) ==
    \/ calls = <<>> /\ phase \in {"pending", "completed"}
    \/ calls # <<>> /\ Inner.name # "run" /\ Inner.fut = i
    \/ InCall("run") /\ Inner.fut = Other(i) /\ (ShouldCancel(p) => "run" \in Reentry)
    \/ calls # <<>> /\ Inner.name # "run" /\ Inner.fut = Other(i) /\ "cancel" \in Reentry

\* complete_single once icb was found false
CompleteSingle(i, p) ==
    LET o == Other(i) IN
    CASE handle[o] = "Done" ->
           /\ phase' = "completed"
           /\ output' = [first |-> i # 1, of |-> Two]
           /\ handle' = [j \in Two |-> "Empty"]
           /\ UNCHANGED <<calls, cancelled, fault>>
      [] handle[o] # "Done" /\ ShouldCancel(p) ->
           /\ fault' = IF handle[o] = "Pending" THEN fault ELSE "cancel called twice"
           /\ handle' = [handle EXCEPT ![i] = "Done", ![o] = "Empty"]
           /\ cancelled' = cancelled \cup {o}
           /\ calls' = Append(calls, Call("cancel", o, FALSE))
           /\ UNCHANGED <<phase, output>>
      [] OTHER ->
           /\ handle' = [handle EXCEPT ![i] = "Done"]
           /\ UNCHANGED <<phase, output, calls, cancelled, fault>>

\* complete_first / complete_second
Complete(i, p) ==
    /\ fault = "none"
    /\ future[i] = "pending"
    /\ MayCallBack(i, p)
    /\ Ended(i, p)
    /\ IF Over \/ handle[i] = "Done"
         THEN fault' = "complete called twice"
              /\ UNCHANGED <<icb, handle, phase, output, calls, cancelled>>
         ELSE /\ icb' = FALSE
              /\ IF icb
                   THEN /\ handle' = [handle EXCEPT ![i] = "Done"]
                        /\ UNCHANGED <<phase, output, calls, cancelled, fault>>
                   ELSE CompleteSingle(i, p)
    /\ UNCHANGED <<mode, asked>>

\* the cancel run by complete_single returned
CancelReturns ==
    /\ InCall("cancel")
    /\ calls' = Returned
    /\ UNCHANGED <<mode, future, handle, icb, phase, cancelled, asked, output, winner, failed, fault>>

-----------------------------------------------------------------------------
(* cancel_all *)

RunCancel(i) == fault' = IF future[i] = "pending" THEN fault ELSE "cancel after completion"

\* cancel_all that does not set interrupt_callback
CancelAllNoFlag ==
    /\ calls = <<>>
    /\ phase = "pending"
    /\ ~asked
    /\ asked' = TRUE
    /\ LET taken == {i \in Two : handle[i] = "Pending"} IN
         /\ handle' = [i \in Two |-> IF i \in taken THEN "Empty" ELSE handle[i]]
         /\ IF taken = {}
              THEN UNCHANGED <<calls, cancelled, fault>>
              ELSE LET i == IF 1 \in taken THEN 1 ELSE 2 IN
                   /\ RunCancel(i)
                   /\ cancelled' = cancelled \cup {i}
                   /\ calls' = <<Call("all", i, taken = Two)>>
    /\ UNCHANGED <<mode, future, icb, phase, output, winner, failed>>

\* take both cancels, then run the first of them
CancelAll ==
    /\ calls = <<>>
    /\ phase = "pending"
    /\ ~asked
    /\ asked' = TRUE
    /\ LET taken == {i \in Two : handle[i] = "Pending"} IN
         /\ handle' = [i \in Two |-> IF i \in taken THEN "Empty" ELSE handle[i]]
         /\ icb' = (icb \/ taken = Two)
         /\ IF taken = {}
              THEN UNCHANGED <<calls, cancelled, fault>>
              ELSE LET i == IF 1 \in taken THEN 1 ELSE 2 IN
                   /\ RunCancel(i)
                   /\ cancelled' = cancelled \cup {i}
                   /\ calls' = <<Call("all", i, taken = Two)>>
    /\ UNCHANGED <<mode, future, phase, output, winner, failed>>

\* the cancel it ran returned: run the second, or return
CancelAllReturns ==
    /\ InCall("all")
    /\ IF Inner.also
         THEN /\ RunCancel(2)
              /\ cancelled' = cancelled \cup {2}
              /\ calls' = Append(Returned, Call("all", 2, FALSE))
         ELSE calls' = Returned /\ UNCHANGED <<cancelled, fault>>
    /\ UNCHANGED <<mode, future, handle, icb, phase, asked, output, winner, failed>>

-----------------------------------------------------------------------------

BranchNext ==
    /\ fault = "none"
    /\ \/ Run \/ FirstPending \/ SecondPending \/ RunCancelReturns
       \/ CancelReturns \/ CancelAll \/ CancelAllReturns
       \/ \E p \in Panics : FirstDone(p) \/ SecondDone(p)
       \/ \E i \in Two, p \in Panics : Complete(i, p)

BranchSpec == BranchInit /\ [][BranchNext]_brvars

-----------------------------------------------------------------------------
(* Properties *)

\* The variables have their types, and a handle still holds the future exactly
\* until the future is run.
BranchTypeOK ==
    /\ \A i \in Two : handle[i] = "Ready" <=> future[i] = "idle"
    /\ mode \in Modes
    /\ future \in [Two -> {"idle", "running", "pending", "done"}]
    /\ handle \in [Two -> {"Ready", "Empty", "Pending", "Done"}]
    /\ icb \in BOOLEAN
    /\ calls \in Seq(Calls)
    /\ phase \in {"new", "running", "pending", "returned", "completed"}
    /\ cancelled \subseteq Two
    /\ asked \in BOOLEAN
    /\ output \in [first : BOOLEAN, of : SUBSET Two]
    /\ winner \in 0..2
    /\ failed \subseteq Two
    /\ fault \in {"none", "cancel called twice", "complete called twice",
                  "cancel after completion"}

\* Both futures keep to the states the unsafe code asserts: a cancel is there to
\* be taken when it is wanted ("`FutureHandle::cancel` called twice",
\* branch.rs:169) and run on a future in progress, a future is completed once and
\* before the branch is gone ("if both aren't complete, then the other must be
\* running", branch.rs:245).
NoBranchFault == fault = "none"

\* "we may be freed by the callee" (branch.rs): the branch ends, and its memory
\* goes, only when no future is left that could still call back into it.
NoEarlyEnd == Over => \A i \in Two : future[i] \in {"idle", "done"}

\* When both futures have ended and every call has returned, the branch has
\* ended too: no interrupt_callback swallowed the completion.
NotStuck ==
    calls = <<>> /\ (\A i \in Two : future[i] = "done") => Over

\* A select whose one future ended has cancelled the other (once run returned
\* and every call is over); so has every branch that was asked to cancel.
LoserCancelled ==
    calls = <<>> /\ phase = "pending" =>
        \A i \in Two : future[i] = "pending"
            /\ (asked \/ (mode = "select" /\ future[Other(i)] = "done"))
                => i \in cancelled

\* from_branch of join and select never meets its unreachable_unchecked or
\* expect_unchecked "Branch failed": a join has a failure to resume or both
\* results ("waits for both of them to finish", join.rs), a select has the result
\* of the future it names.
OutputUsable ==
    Over => /\ mode = "join" => JoinFromBranch(output, failed) # "unreachable"
            /\ mode = "select" => SelectFromBranch(output, {}) # "unreachable"

\* What join and select promise of a branch: no cancel and no complete is called
\* twice, run does not return or resume its request before both futures are over
\* and does so then, the future that lost is cancelled, and from_branch finds the
\* results it unwraps.  Said for Reentry = {}: the futures may call back anywhere
\* once run has returned, inside their own cancel, and inside the other's run
\* where that cancels nothing.  A future that completes inside the other's run
\* and has to cancel it, or inside the other's cancel, is excluded, because the
\* code fails there: it takes the cancel of a handle that has none (branch.rs:168,
\* 245; NoBranchFault with Reentry = {"run"}) and loses a completion (324).
BranchSafe == NoBranchFault /\ NoEarlyEnd /\ NotStuck /\ LoserCancelled /\ OutputUsable

\* "Returns Select::First if the first task completed first or Select::Second if
\* the second task completed first" (select.rs:81).  Not so when the second
\* future is done in run and the cancel of the first completes at once: run
\* passes `done`, which is true, for is_first (branch.rs:397); TLC refutes this.
SelectReportsWinner ==
    Over /\ mode = "select" => (output.first <=> winner = 1)
=============================================================================
