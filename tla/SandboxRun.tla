----------------------------- MODULE SandboxRun -----------------------------
(***************************************************************************)
(* DockerSandbox.run_script (software_sandbox.py) as _run_restricted of    *)
(* software_execution.py calls it: a container is created, inspected,      *)
(* started and inspected again by docker commands that each have a         *)
(* timeout, and it is removed whatever happened.  A command that timed out *)
(* leaves its request with the daemon, which may still act on it later.    *)
(***************************************************************************)
EXTENDS Integers

CONSTANT Null

VARIABLES pc,
          container,  \* Null, or its state: "created", "running", "exited"
          policy,     \* the limits the runtime gave it: "strict" or "weak"
          ended,      \* how its process ended: Null, "zero", "nonzero", "oom"
          late,       \* requests the daemon may still carry out
          uncertain,  \* create_outcome_uncertain
          raised,     \* the exception under way: Null, "error", "timeout"
          client,     \* exit of the attached client: Null, "zero", "nonzero"
          timed_out,  \* the local of that name
          record,     \* inspect_record
          outcome     \* what the verifier gets

daemon == <<container, policy, ended, late>>
locals == <<uncertain, raised, client, timed_out, record>>
vars == <<pc, daemon, locals, outcome>>

NoRecord == [policy |-> Null, state |-> Null, ended |-> Null]

Init ==
  /\ pc = "creating" /\ outcome = Null
  /\ container = Null /\ policy = Null /\ ended = Null /\ late = {}
  /\ uncertain = TRUE /\ raised = Null /\ client = Null
  /\ timed_out = FALSE /\ record = NoRecord

Goto(l) == pc' = l /\ UNCHANGED outcome

Raise(e) == raised' = e /\ Goto("removing")

Appear(p) == container' = "created" /\ policy' = p

------------------------------------------------------------------------------
\* docker create: done, refused (with or without a container), not started
\* at all, or abandoned after its timeout.
Create ==
  /\ pc = "creating"
  /\ \/ /\ \E p \in {"strict", "weak"} : Appear(p)
        /\ uncertain' = FALSE /\ Goto("inspecting") /\ UNCHANGED <<late, raised>>
     \/ /\ Appear("strict") \/ UNCHANGED <<container, policy>>
        /\ uncertain' = FALSE /\ Raise("error") /\ UNCHANGED late
     \/ Raise("error") /\ UNCHANGED <<container, policy, late, uncertain>>
     \/ /\ Raise("timeout") /\ UNCHANGED uncertain
        /\ \/ Appear("strict") /\ UNCHANGED late
           \/ late' = {"create"} /\ UNCHANGED <<container, policy>>
  /\ UNCHANGED <<ended, client, timed_out, record>>

\* _inspect: the record of the container, an error, or a timeout.
Inspect(next) ==
  \/ /\ container # Null
     /\ record' = [policy |-> policy, state |-> container, ended |-> ended]
     /\ next
  \/ UNCHANGED record /\ (Raise("error") \/ Raise("timeout"))

\* The policy must match before anything is executed.
Verify ==
  /\ pc = "inspecting"
  /\ Inspect(IF record'.policy = "strict" THEN Goto("starting") /\ UNCHANGED raised
                                          ELSE Raise("error"))
  /\ UNCHANGED <<daemon, uncertain, client, timed_out>>

\* docker start reaches the daemon, is refused, or is still to be carried out.
Start ==
  /\ pc = "starting"
  /\ \/ container' = "running" /\ UNCHANGED late
     \/ UNCHANGED <<container, late>>
     \/ late' = late \cup {"start"} /\ UNCHANGED container
  /\ Goto("attached")
  /\ UNCHANGED <<policy, ended, locals>>

\* The attached client returns: with the exit of the process, with an error of
\* its own, or with a success that the process did not have.
ClientReturns ==
  /\ pc = "attached"
  /\ \/ container = "exited" /\ client' = IF ended = "zero" THEN "zero" ELSE "nonzero"
     \/ client' = "nonzero"
     \/ container = "exited" /\ client' = "zero"
  /\ Goto("reinspecting")
  /\ UNCHANGED <<daemon, uncertain, raised, timed_out, record>>

\* The client is killed at its timeout; the container is not.
ClientTimesOut ==
  /\ pc = "attached"
  /\ timed_out' = TRUE
  /\ Goto("reinspecting")
  /\ UNCHANGED <<daemon, uncertain, raised, client, record>>

Reinspect ==
  /\ pc = "reinspecting"
  /\ Inspect(Goto("removing") /\ UNCHANGED raised)
  /\ UNCHANGED <<daemon, uncertain, client, timed_out>>

Vanish == container' = Null /\ UNCHANGED <<policy, ended, late>>

\* definitely_absent: "no such container", of a create that is not uncertain.
DefinitelyAbsent == container = Null /\ ~uncertain

\* Slip: a removal that fails is ignored.
RemoveCarelessly ==
  /\ pc = "removing"
  /\ Vanish \/ UNCHANGED daemon
  /\ Goto("judging")
  /\ UNCHANGED locals

(***************************************************************************)
(* docker rm --force in the "finally": a success, which newer clients      *)
(* report for a missing container too, or a failure, a timeout included,   *)
(* that replaces the exception under way.                                  *)
(***************************************************************************)
Remove ==
  /\ pc = "removing"
  /\ \/ Vanish /\ UNCHANGED raised
     \/ UNCHANGED daemon /\ (IF DefinitelyAbsent THEN UNCHANGED raised ELSE raised' = "error")
     \/ (Vanish \/ UNCHANGED daemon) /\ raised' = "error"
  /\ Goto("judging")
  /\ UNCHANGED <<uncertain, client, timed_out, record>>

StateConsistent ==
  /\ record.state \in {"created", "exited"}   \* Running is false
  /\ client = IF record.ended \in {Null, "zero"} THEN "zero" ELSE "nonzero"

\* Slip: the client's exit code decides.
PassedByClient == ~timed_out /\ client = "zero" /\ record.policy = "strict"

Passed ==
  /\ ~timed_out /\ StateConsistent
  /\ record.ended \in {Null, "zero"}
  /\ record.policy = "strict"

\* The result, or the exception as _run_restricted handles it: OSError,
\* RuntimeError and ValueError fail the check, TimeoutExpired is none of them.
\* A run that passed must also have printed the harness's last line.
Judge ==
  /\ pc = "judging"
  /\ pc' = "done"
  /\ outcome' \in CASE raised = "timeout" -> {"escaped"}
                    [] raised = "error"   -> {"error"}
                    [] OTHER              -> IF Passed THEN {"passed", "failed"} ELSE {"failed"}
  /\ UNCHANGED <<daemon, locals>>

Caller == \/ Create \/ Verify \/ Start \/ ClientReturns \/ ClientTimesOut
          \/ Reinspect \/ Remove \/ Judge

------------------------------------------------------------------------------
\* The process of the container ends by itself or at its memory limit.
ProcessEnds ==
  /\ container = "running"
  /\ container' = "exited"
  /\ ended' \in {"zero", "nonzero", "oom"}
  /\ UNCHANGED <<pc, policy, late, locals, outcome>>

\* The daemon carries out what an abandoned client had asked for.
LateCreate ==
  /\ "create" \in late /\ late' = late \ {"create"}
  /\ Appear("strict")
  /\ UNCHANGED <<pc, ended, locals, outcome>>

LateStart ==
  /\ "start" \in late /\ late' = late \ {"start"}
  /\ container' = IF container = "created" THEN "running" ELSE container
  /\ UNCHANGED <<pc, policy, ended, locals, outcome>>

Next == Caller \/ ProcessEnds \/ LateCreate \/ LateStart

Spec == Init /\ [][Next]_vars

------------------------------------------------------------------------------
(***************************************************************************)
(* A check passes only when the script itself ran to its end with exit     *)
(* code zero, in time, under the required limits, whatever the client said *)
(* and however the end races the timeout and the inspection.               *)
(***************************************************************************)
PassedIsEarned ==
  outcome = "passed" => ended = "zero" /\ policy = "strict" /\ ~timed_out

\* A run that returns a result has removed its container for good: unproven
\* removal is always an error.
ResultMeansRemoved ==
  outcome \in {"passed", "failed"} => container = Null /\ "create" \notin late

\* "treats unproven removal as a failed sandbox result": every failure of the
\* sandbox is one the verifier turns into a failed check.
FailureIsAResult == outcome # "escaped"
==============================================================================
