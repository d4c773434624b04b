---------------------------- MODULE SoftwareCase ----------------------------
(***************************************************************************)
(* evaluate_case (evaluation.py) for a software case, up to the decision   *)
(* whether the judges are asked: both prompts are executed by a command    *)
(* adapter (CommandAdapter), then the two outputs are checked in the       *)
(* sandbox (SandboxRun), original first.  One thread does it all, and an   *)
(* exception anywhere ends the case.                                       *)
(***************************************************************************)
EXTENDS Integers, Sequences

CONSTANTS MaxInterrupts,   \* bound on KeyboardInterrupts
          Null

\* Null is None, no container's state, exit or result.
ASSUME CaseAssumption ==
  /\ MaxInterrupts \in Nat
  /\ Null \notin {"created", "running", "exited", "zero", "nonzero", "oom", "passed", "failed"}

VARIABLES stage,       \* calls and checks that are over
          checks,      \* what the checks that are over found
          ended,       \* Null, how the case was decided, or "abandoned"
          codex, calling, child, helper, output, reply, expired, cancelled, answer, interrupts,
          checking, container, policy, exit, late, uncertain, raised, client, timed_out,
          record, result

call == <<codex, calling, child, helper, output, reply, expired, cancelled, answer, interrupts>>
check == <<checking, container, policy, exit, late, uncertain, raised, client, timed_out,
           record, result>>
case == <<stage, checks, ended>>
vars == <<case, call, check>>

Adapter == INSTANCE CommandAdapter WITH pc <- calling, outcome <- answer
Sandbox == INSTANCE SandboxRun WITH pc <- checking, ended <- exit, outcome <- result

Calls == 2
Stages == 4     \* two calls, two checks

Init == stage = 0 /\ checks = <<>> /\ ended = Null /\ Adapter!Init /\ Sandbox!Init

Calling == ended = Null /\ stage < Calls
Checking == ended = Null /\ stage \in Calls .. Stages - 1

Call(step) == Calling /\ step /\ UNCHANGED <<case, check>>
Check(step) == Checking /\ step /\ UNCHANGED <<case, call>>

\* The output is kept and the other prompt executed; any other end of the call
\* is an exception.  The adapter, its token and the child's kind stay.
NextCall ==
  /\ Calling /\ calling = "done"
  /\ IF answer = "answered" THEN stage' = stage + 1 /\ UNCHANGED ended
     ELSE UNCHANGED stage /\ ended' = "abandoned"
  /\ IF answer = "answered" /\ stage + 1 < Calls
       THEN /\ calling' = "entry" /\ answer' = Null
            /\ child' = "none" /\ reply' = "empty" /\ expired' = FALSE
            /\ UNCHANGED <<codex, helper, output, cancelled, interrupts>>
       ELSE UNCHANGED call
  /\ UNCHANGED <<checks, check>>

\* _run_restricted turns an error into a failed check; the exception it does
\* not name ends the case.
NextCheck ==
  /\ Checking /\ checking = "done"
  /\ IF result = "escaped" THEN ended' = "abandoned" /\ UNCHANGED <<stage, checks>>
     ELSE stage' = stage + 1 /\ checks' = Append(checks, result = "passed") /\ UNCHANGED ended
  /\ IF result # "escaped" /\ stage + 1 < Stages
       THEN /\ checking' = "creating" /\ result' = Null /\ exit' = Null /\ policy' = Null
            /\ uncertain' = TRUE /\ raised' = Null /\ client' = Null
            /\ timed_out' = FALSE /\ record' = Sandbox!NoRecord
            /\ container' = Null /\ late' = {}      \* another container, by another name
       ELSE UNCHANGED check
  /\ UNCHANGED call

\* critical_regression, or both failed, or a case for the judges.
Decide ==
  /\ ended = Null /\ stage = Stages
  /\ ended' = IF checks[1] /\ ~checks[2] THEN "loss"
              ELSE IF ~checks[1] /\ ~checks[2] THEN "tie" ELSE "judged"
  /\ UNCHANGED <<stage, checks, call, check>>

Evaluator == \/ Call(Adapter!Caller) \/ NextCall
             \/ Check(Sandbox!Caller) \/ NextCheck \/ Decide

\* The children, the token, the clock and the daemon, at any time.
Others == \/ Call(Adapter!Interrupt)
          \/ ended = Null /\ stage < Calls /\ UNCHANGED <<case, check>>
             /\ (Adapter!Write \/ Adapter!StartHelper \/ Adapter!HelperEnds
                 \/ (\E e \in Adapter!Exits : Adapter!Exit(e)) \/ Adapter!Expire \/ Adapter!Cancel)
          \/ Check(Sandbox!ProcessEnds \/ Sandbox!LateCreate \/ Sandbox!LateStart)

Next == Evaluator \/ Others

Spec == Init /\ [][Next]_vars

\* The evaluator's thread runs and time passes; no process has to end.
LiveSpec == Spec /\ WF_vars(Evaluator) /\ WF_vars(Call(Adapter!Expire))

------------------------------------------------------------------------------
(***************************************************************************)
(* A call that was not interrupted leaves nothing: no child, no helper on  *)
(* its pipes and no temporary file, whichever way it ends and whatever the *)
(* call before it went through.                                            *)
(***************************************************************************)
NothingLeft == Adapter!NothingLeft

(***************************************************************************)
(* A check passes only when the script itself ran to its end with exit     *)
(* code zero, in time, under the required limits, whatever the client said *)
(* and however the end races the timeout and the inspection.               *)
(***************************************************************************)
PassedIsEarned == Sandbox!PassedIsEarned

(***************************************************************************)
(* A check that returns a result has removed its container for good: a     *)
(* removal that is not proven is always an error.                          *)
(***************************************************************************)
ResultMeansRemoved == Sandbox!ResultMeansRemoved

(***************************************************************************)
(* "command timeout": a case is decided or abandoned, whether or not its   *)
(* children, scripts and docker commands ever end by themselves.  It needs *)
(* the children's helpers to end: they are not killed, and the wait after  *)
(* the kill has no limit.                                                  *)
(***************************************************************************)
CaseEnds == WF_vars(Call(Adapter!HelperEnds)) => <>(ended # Null)
==============================================================================
