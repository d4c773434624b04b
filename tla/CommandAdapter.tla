--------------------------- MODULE CommandAdapter ---------------------------
(***************************************************************************)
(* One call of CodexExecAdapter.complete, and of ExternalCommandAdapter    *)
(* .complete when codex is FALSE (adapters.py): a child process is         *)
(* polled until it ends, the call is cancelled or its time is over, and is *)
(* killed in the last two cases.  The Codex child leaves its final message *)
(* in a temporary file, which the call reads and removes.                  *)
(*                                                                         *)
(* A child may start helpers that inherit its pipes.  They are not killed  *)
(* with it, and "communicate" waits until the pipes are closed.            *)
(***************************************************************************)
EXTENDS Integers

CONSTANTS MaxInterrupts,  \* bound on KeyboardInterrupts
          Null

VARIABLES codex,      \* the adapter is CodexExecAdapter (never changes)
          pc,
          child,      \* "none", "running", "killed", or how it exited
          helper,     \* a helper of the child holds the pipes
          output,     \* the temporary file: Null, "empty" or "message"
          reply,      \* what the child has written to stdout
          expired,    \* timeout_seconds are over
          cancelled,  \* the token
          outcome,
          interrupts

vars == <<codex, pc, child, helper, output, reply, expired, cancelled, outcome, interrupts>>

process == <<child, helper, reply>>
signals == <<expired, cancelled, interrupts, codex>>

Exits == {"success", "quota", "failure"}

Init ==
  /\ codex \in BOOLEAN
  /\ pc = "entry" /\ outcome = Null
  /\ child = "none" /\ helper = FALSE /\ output = Null /\ reply = "empty"
  /\ expired = FALSE /\ cancelled = FALSE /\ interrupts = 0

Goto(l) == pc' = l /\ UNCHANGED outcome

Finish(o) == pc' = "done" /\ outcome' = o

Unlink == output' = Null

------------------------------------------------------------------------------
\* The token, the working directory and the executable; mkstemp for Codex.
Enter ==
  /\ pc = "entry"
  /\ \/ cancelled /\ Finish("cancelled") /\ UNCHANGED output
     \/ ~cancelled /\ Finish("failed") /\ UNCHANGED output
     \/ /\ ~cancelled
        /\ Goto("starting")
        /\ output' = IF codex THEN "empty" ELSE Null
  /\ UNCHANGED <<process, signals>>

\* The launcher is resolved and Popen called; either may fail.
Start ==
  /\ pc = "starting"
  /\ \/ child' = "running" /\ Goto("polling") /\ UNCHANGED output
     \/ UNCHANGED child /\ Finish("failed") /\ Unlink
  /\ UNCHANGED <<helper, reply, signals>>

\* The token is looked at first, then the clock.
Poll ==
  /\ pc = "polling"
  /\ Goto(IF cancelled \/ expired THEN "killing" ELSE "communicating")
  /\ UNCHANGED <<process, output, signals>>

\* All the output has been read and the process has been waited for.
Drained == ~helper /\ child # "running"

\* communicate with a short timeout.
Communicate ==
  /\ pc = "communicating"
  /\ Goto(IF Drained THEN "reading" ELSE "polling")
  /\ UNCHANGED <<process, output, signals>>

\* Slip: the child is waited for without being killed.
KillNothing ==
  /\ pc = "killing"
  /\ Goto("draining")
  /\ UNCHANGED <<process, output, signals>>

\* process.kill, which a child that has ended does not notice.
Kill ==
  /\ pc = "killing"
  /\ child' = IF child = "running" THEN "killed" ELSE child
  /\ Goto("draining")
  /\ UNCHANGED <<helper, reply, output, signals>>

\* Slip: the file is left where it is.
DrainOnly ==
  /\ pc = "draining" /\ Drained
  /\ Finish(IF cancelled THEN "cancelled" ELSE "failed")
  /\ UNCHANGED <<process, output, signals>>

\* communicate without a timeout, and the error that is reported.
Drain ==
  /\ pc = "draining" /\ Drained
  /\ Unlink
  /\ Finish(IF cancelled THEN "cancelled" ELSE "failed")
  /\ UNCHANGED <<process, signals>>

\* The final message: the temporary file of Codex, or stdout.
Message == IF codex THEN output ELSE reply

Usable == child = "success" /\ Message = "message"

\* The exit code and the message decide; the file goes on every path.
Read ==
  /\ pc = "reading"
  /\ Unlink
  /\ \/ Usable /\ (Finish("answered") \/ Finish("failed"))   \* it may not parse
     \/ ~Usable /\ Finish(IF codex /\ child = "quota" THEN "quota" ELSE "failed")
  /\ UNCHANGED <<process, signals>>

Caller == Enter \/ Start \/ Poll \/ Communicate \/ Kill \/ Drain \/ Read

\* A KeyboardInterrupt is caught nowhere; only Read is inside a "finally".
Interrupt ==
  /\ pc \notin {"entry", "done"}
  /\ interrupts < MaxInterrupts
  /\ interrupts' = interrupts + 1
  /\ Finish("interrupted")
  /\ IF pc = "reading" THEN Unlink ELSE UNCHANGED output
  /\ UNCHANGED <<process, expired, cancelled, codex>>

------------------------------------------------------------------------------
Work == child = "running" \/ helper

\* The child, or a helper of it, writes the message where it was told to.
Write ==
  /\ Work
  /\ reply' = "message"
  /\ output' = IF output = Null THEN Null ELSE "message"
  /\ UNCHANGED <<pc, child, helper, signals, outcome>>

StartHelper ==
  /\ child = "running" /\ ~helper
  /\ helper' = TRUE
  /\ UNCHANGED <<pc, child, reply, output, signals, outcome>>

HelperEnds ==
  /\ helper /\ helper' = FALSE
  /\ UNCHANGED <<pc, child, reply, output, signals, outcome>>

Exit(e) ==
  /\ child = "running" /\ child' = e
  /\ UNCHANGED <<pc, helper, reply, output, signals, outcome>>

Expire ==
  /\ child # "none" /\ ~expired /\ pc # "done"
  /\ expired' = TRUE
  /\ UNCHANGED <<pc, process, output, cancelled, interrupts, codex, outcome>>

Cancel ==
  /\ ~cancelled /\ pc # "done"
  /\ cancelled' = TRUE
  /\ UNCHANGED <<pc, process, output, expired, interrupts, codex, outcome>>

Next == \/ Caller \/ Interrupt
        \/ Write \/ StartHelper \/ HelperEnds \/ (\E e \in Exits : Exit(e))
        \/ Expire \/ Cancel

------------------------------------------------------------------------------
(***************************************************************************)
(* A call that was not interrupted leaves nothing: no child, no helper on  *)
(* its pipes and no temporary file, whichever way it ends.                 *)
(***************************************************************************)
NothingLeft ==
  outcome \notin {Null, "interrupted"} => child # "running" /\ ~helper /\ output = Null
==============================================================================
