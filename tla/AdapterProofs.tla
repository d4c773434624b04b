------------------------------ MODULE AdapterProofs ------------------------------
(***************************************************************************)
(* Proofs about the model adapters and their users.  The first part is     *)
(* about one software case: what a call of the command adapter leaves      *)
(* behind and what a check in the sandbox shows, whatever the children,    *)
(* the daemon, the clocks and the docker clients do, and however often a   *)
(* call is interrupted.  The second part is about one request of the       *)
(* optimization runtime over the HTTP adapter: whose answers it uses, and  *)
(* what it returns.                                                        *)
(***************************************************************************)
EXTENDS SoftwareCase, Optimize, TLAPS

(***************************************************************************)
(* The call.  Once its child has been drained nothing can bring work back: *)
(* helpers are started by a running child only.                            *)
(***************************************************************************)
Clean == child # "running" /\ ~helper

CallInv ==
  /\ calling # "done" => answer = Null
  /\ calling \in {"entry", "starting"} => child = "none" /\ ~helper
  /\ calling = "entry" => output = Null
  /\ calling \in {"draining", "reading"} => child # "running"
  /\ calling = "reading" => Clean
  /\ calling = "done" /\ answer # "interrupted" => Clean /\ output = Null

(***************************************************************************)
(* The check.  A request the daemon still has to carry out can only start  *)
(* a container, or create one where no run reached the inspection; and an  *)
(* exit seen by the second inspection is the one the process had.          *)
(***************************************************************************)
Errors == {"error", "timeout"}
Ends == {"zero", "nonzero", "oom"}

ContainerInv ==
  /\ container \in {Null, "created", "running", "exited"}
  /\ container = "exited" => exit \in Ends

UnderWay ==
  /\ checking # "done" => result = Null
  /\ checking = "creating" => late = {}
  /\ checking \in {"inspecting", "starting", "attached", "reinspecting"} =>
       container # Null /\ "create" \notin late
  /\ checking \in {"starting", "attached", "reinspecting"} => policy = "strict"
  /\ checking = "reinspecting" /\ client = "zero" /\ ~timed_out => container = "exited"

\* What is known once both inspections succeeded.
Inspected ==
  /\ "create" \notin late /\ policy = "strict"
  /\ client = "zero" /\ ~timed_out => record.state = "exited"
  /\ record.state = "exited" =>
       container \in {Null, "exited"} /\ record.ended = exit /\ exit \in Ends

Finishing ==
  /\ checking \in {"removing", "judging"} /\ raised \notin Errors => Inspected
  /\ checking = "judging" /\ raised \notin Errors => container = Null

Finished == Sandbox!PassedIsEarned /\ Sandbox!ResultMeansRemoved

CheckInv == ContainerInv /\ UnderWay /\ Finishing /\ Finished

CaseInv == CallInv /\ CheckInv

------------------------------------------------------------------------------
(* The call.                                                               *)

LEMMA CallerKeepsCallInv ==
  ASSUME CallInv, Adapter!Caller
  PROVE  CallInv'
<1>1. CASE Adapter!Enter
  BY <1>1 DEF Adapter!Enter, Adapter!Finish, Adapter!Goto, Adapter!process, Adapter!signals,
     CallInv, Clean
<1>2. CASE Adapter!Start
  BY <1>2 DEF Adapter!Start, Adapter!Finish, Adapter!Goto, Adapter!Unlink, Adapter!signals,
     CallInv, Clean
<1>3. CASE Adapter!Poll
  BY <1>3 DEF Adapter!Poll, Adapter!Goto, Adapter!process, Adapter!signals, CallInv, Clean
<1>4. CASE Adapter!Communicate
  BY <1>4 DEF Adapter!Communicate, Adapter!Goto, Adapter!Drained, Adapter!process,
     Adapter!signals, CallInv, Clean
<1>5. CASE Adapter!Kill
  BY <1>5 DEF Adapter!Kill, Adapter!Goto, Adapter!signals, CallInv, Clean
<1>6. CASE Adapter!Drain
  BY <1>6 DEF Adapter!Drain, Adapter!Finish, Adapter!Unlink, Adapter!Drained,
     Adapter!process, Adapter!signals, CallInv, Clean
<1>7. CASE Adapter!Read
  BY <1>7 DEF Adapter!Read, Adapter!Finish, Adapter!Unlink, Adapter!process,
     Adapter!signals, CallInv, Clean
<1>8. QED
  BY <1>1, <1>2, <1>3, <1>4, <1>5, <1>6, <1>7 DEF Adapter!Caller

\* The child, its helpers, the clock, the token and the keyboard.
LEMMA OthersKeepCallInv ==
  ASSUME CallInv,
         \/ Adapter!Interrupt \/ Adapter!Write \/ Adapter!StartHelper \/ Adapter!HelperEnds
         \/ (\E e \in Adapter!Exits : Adapter!Exit(e)) \/ Adapter!Expire \/ Adapter!Cancel
  PROVE  CallInv'
<1>1. CASE Adapter!Interrupt
  BY <1>1 DEF Adapter!Interrupt, Adapter!Finish, Adapter!Unlink, Adapter!process,
     CallInv, Clean
<1>2. CASE Adapter!Write
  BY <1>2 DEF Adapter!Write, Adapter!Work, Adapter!signals, CallInv, Clean
<1>3. CASE Adapter!StartHelper
  BY <1>3 DEF Adapter!StartHelper, Adapter!signals, CallInv, Clean
<1>4. CASE Adapter!HelperEnds
  BY <1>4 DEF Adapter!HelperEnds, Adapter!signals, CallInv, Clean
<1>5. CASE \E e \in Adapter!Exits : Adapter!Exit(e)
  BY <1>5 DEF Adapter!Exits, Adapter!Exit, Adapter!signals, CallInv, Clean
<1>6. CASE Adapter!Expire
  BY <1>6 DEF Adapter!Expire, Adapter!process, CallInv, Clean
<1>7. CASE Adapter!Cancel
  BY <1>7 DEF Adapter!Cancel, Adapter!process, CallInv, Clean
<1>8. QED
  BY <1>1, <1>2, <1>3, <1>4, <1>5, <1>6, <1>7

------------------------------------------------------------------------------
(* The check.                                                              *)

LEMMA CreateKeeps ==
  ASSUME CheckInv, Sandbox!Create
  PROVE  CheckInv'
<1>1. /\ checking = "creating" /\ checking' \in {"inspecting", "removing"} /\ result' = result
      /\ UNCHANGED <<exit, client, timed_out, record>>
      /\ container' \in {container, "created"}
      /\ checking' = "inspecting" => container' = "created" /\ late' = late
      /\ checking' = "removing" => raised' \in Errors
  BY DEF Sandbox!Create, Sandbox!Raise, Sandbox!Goto, Sandbox!Appear, Errors
<1>2. result = Null /\ late = {} /\ Null \notin {"passed", "failed", "created"}
  BY <1>1, CaseAssumption DEF CheckInv, UnderWay
<1>3. ContainerInv'
  BY <1>1 DEF CheckInv, ContainerInv
<1>4. UnderWay'
  BY <1>1, <1>2 DEF UnderWay
<1>5. Finishing'
  BY <1>1 DEF Finishing
<1>6. Finished'
  BY <1>1, <1>2 DEF Finished, Sandbox!PassedIsEarned, Sandbox!ResultMeansRemoved
<1>7. QED
  BY <1>3, <1>4, <1>5, <1>6 DEF CheckInv

LEMMA VerifyKeeps ==
  ASSUME CheckInv, Sandbox!Verify
  PROVE  CheckInv'
<1>1. /\ checking = "inspecting" /\ checking' \in {"starting", "removing"} /\ result' = result
      /\ UNCHANGED <<container, policy, exit, late, uncertain, client, timed_out>>
      /\ checking' = "starting" => policy = "strict"
      /\ checking' = "removing" => raised' \in Errors
  BY DEF Sandbox!Verify, Sandbox!Inspect, Sandbox!Raise, Sandbox!Goto, Sandbox!daemon, Errors
<1>2. result = Null /\ Null \notin {"passed", "failed"}
  BY <1>1, CaseAssumption DEF CheckInv, UnderWay
<1>3. ContainerInv' /\ UnderWay'
  BY <1>1, <1>2 DEF CheckInv, ContainerInv, UnderWay
<1>4. Finishing' /\ Finished'
  BY <1>1, <1>2 DEF Finishing, Finished, Sandbox!PassedIsEarned, Sandbox!ResultMeansRemoved
<1>5. QED
  BY <1>3, <1>4 DEF CheckInv

LEMMA StartKeeps ==
  ASSUME CheckInv, Sandbox!Start
  PROVE  CheckInv'
<1>1. /\ checking = "starting" /\ checking' = "attached" /\ result' = result
      /\ container' \in {container, "running"} /\ late' \subseteq late \cup {"start"}
      /\ UNCHANGED <<policy, exit, uncertain, raised, client, timed_out, record>>
  BY DEF Sandbox!Start, Sandbox!Goto, Sandbox!locals
<1>2. result = Null /\ Null \notin {"passed", "failed", "running"}
  BY <1>1, CaseAssumption DEF CheckInv, UnderWay
<1>3. ContainerInv' /\ UnderWay'
  BY <1>1, <1>2 DEF CheckInv, ContainerInv, UnderWay
<1>4. Finishing' /\ Finished'
  BY <1>1, <1>2 DEF Finishing, Finished, Sandbox!PassedIsEarned, Sandbox!ResultMeansRemoved
<1>5. QED
  BY <1>3, <1>4 DEF CheckInv

LEMMA ClientKeeps ==
  ASSUME CheckInv, Sandbox!ClientReturns \/ Sandbox!ClientTimesOut
  PROVE  CheckInv'
<1>1. /\ checking = "attached" /\ checking' = "reinspecting" /\ result' = result
      /\ client' = "zero" /\ ~timed_out' => container = "exited"
      /\ UNCHANGED <<container, policy, exit, late, uncertain, raised, record>>
  BY DEF Sandbox!ClientReturns, Sandbox!ClientTimesOut, Sandbox!Goto, Sandbox!daemon
<1>2. result = Null /\ Null \notin {"passed", "failed"}
  BY <1>1, CaseAssumption DEF CheckInv, UnderWay
<1>3. ContainerInv' /\ UnderWay'
  BY <1>1, <1>2 DEF CheckInv, ContainerInv, UnderWay
<1>4. Finishing' /\ Finished'
  BY <1>1, <1>2 DEF Finishing, Finished, Sandbox!PassedIsEarned, Sandbox!ResultMeansRemoved
<1>5. QED
  BY <1>3, <1>4 DEF CheckInv

LEMMA ReinspectKeeps ==
  ASSUME CheckInv, Sandbox!Reinspect
  PROVE  CheckInv'
<1>1. /\ checking = "reinspecting" /\ checking' = "removing" /\ result' = result
      /\ UNCHANGED <<container, policy, exit, late, uncertain, client, timed_out>>
      /\ raised' \notin Errors =>
           record' = [policy |-> policy, state |-> container, ended |-> exit]
  BY DEF Sandbox!Reinspect, Sandbox!Inspect, Sandbox!Raise, Sandbox!Goto, Sandbox!daemon, Errors
<1>2. result = Null /\ Null \notin {"passed", "failed"}
  BY <1>1, CaseAssumption DEF CheckInv, UnderWay
<1>3. ContainerInv' /\ UnderWay'
  BY <1>1, <1>2 DEF CheckInv, ContainerInv, UnderWay
<1>4. Finishing'
  <2> SUFFICES ASSUME raised' \notin Errors PROVE Inspected'
    BY <1>1 DEF Finishing
  <2>1. record'.state = container /\ record'.ended = exit
    BY <1>1
  <2>2. QED
    BY <1>1, <2>1 DEF CheckInv, ContainerInv, UnderWay, Inspected
<1>5. Finished'
  BY <1>1, <1>2 DEF Finished, Sandbox!PassedIsEarned, Sandbox!ResultMeansRemoved
<1>6. QED
  BY <1>3, <1>4, <1>5 DEF CheckInv

LEMMA RemoveKeeps ==
  ASSUME CheckInv, Sandbox!Remove
  PROVE  CheckInv'
<1>1. /\ checking = "removing" /\ checking' = "judging" /\ result' = result
      /\ container' \in {container, Null} /\ UNCHANGED <<policy, exit, late>>
      /\ UNCHANGED <<uncertain, client, timed_out, record>>
      /\ raised' \notin Errors => raised' = raised /\ container' = Null
  BY DEF Sandbox!Remove, Sandbox!Vanish, Sandbox!DefinitelyAbsent, Sandbox!Goto,
     Sandbox!daemon, Errors
<1>2. result = Null /\ Null \notin {"passed", "failed", "exited"}
  BY <1>1, CaseAssumption DEF CheckInv, UnderWay
<1>3. ContainerInv' /\ UnderWay'
  BY <1>1, <1>2 DEF CheckInv, ContainerInv, UnderWay
<1>4. Finishing'
  BY <1>1 DEF CheckInv, Finishing, Inspected
<1>5. Finished'
  BY <1>1, <1>2 DEF Finished, Sandbox!PassedIsEarned, Sandbox!ResultMeansRemoved
<1>6. QED
  BY <1>3, <1>4, <1>5 DEF CheckInv

LEMMA JudgeKeeps ==
  ASSUME CheckInv, Sandbox!Judge
  PROVE  CheckInv'
<1>1. /\ checking = "judging" /\ checking' = "done"
      /\ UNCHANGED <<container, policy, exit, late, uncertain, raised, client, timed_out, record>>
  BY DEF Sandbox!Judge, Sandbox!daemon, Sandbox!locals
<1>2. /\ result' \in {"passed", "failed"} => raised \notin Errors
      /\ result' = "passed" => Sandbox!Passed
  BY DEF Sandbox!Judge, Errors
<1>3. result' \in {"passed", "failed"} => Inspected /\ container = Null
  BY <1>1, <1>2 DEF CheckInv, Finishing
<1>4. ASSUME result' = "passed" PROVE exit = "zero" /\ policy = "strict" /\ ~timed_out
  <2>1. /\ ~timed_out /\ record.ended \in {Null, "zero"} /\ Inspected
        /\ client = IF record.ended \in {Null, "zero"} THEN "zero" ELSE "nonzero"
    BY <1>2, <1>3, <1>4 DEF Sandbox!Passed, Sandbox!StateConsistent
  <2>2. record.ended = exit /\ exit \in Ends /\ policy = "strict"
    BY <2>1 DEF Inspected
  <2>3. Null \notin Ends
    BY CaseAssumption DEF Ends
  <2>4. QED
    BY <2>1, <2>2, <2>3
<1>5. Finished'
  BY <1>1, <1>3, <1>4 DEF Finished, Sandbox!PassedIsEarned, Sandbox!ResultMeansRemoved, Inspected
<1>6. ContainerInv' /\ UnderWay' /\ Finishing'
  BY <1>1 DEF CheckInv, ContainerInv, UnderWay, Finishing
<1>7. QED
  BY <1>5, <1>6 DEF CheckInv

\* The process ends, or the daemon carries out what an abandoned client asked.
LEMMA DaemonKeeps ==
  ASSUME CheckInv, Sandbox!ProcessEnds \/ Sandbox!LateCreate \/ Sandbox!LateStart
  PROVE  CheckInv'
<1>1. /\ UNCHANGED <<checking, uncertain, raised, client, timed_out, record, result>>
      /\ late' \subseteq late
  BY DEF Sandbox!ProcessEnds, Sandbox!LateCreate, Sandbox!LateStart, Sandbox!locals
<1>2. Null \notin {"created", "running", "exited", "passed", "failed"}
  BY CaseAssumption
<1>3. CASE Sandbox!ProcessEnds
  <2>1. /\ container = "running" /\ container' = "exited" /\ exit' \in Ends
        /\ UNCHANGED <<policy, late>>
    BY <1>3 DEF Sandbox!ProcessEnds, Ends
  <2>2. ContainerInv' /\ UnderWay'
    BY <1>1, <1>2, <2>1 DEF CheckInv, ContainerInv, UnderWay
  <2>3. Finishing'
    BY <1>1, <1>2, <2>1 DEF CheckInv, Finishing, Inspected
  <2>4. Finished'
    BY <1>1, <1>2, <2>1 DEF CheckInv, Finished, Sandbox!PassedIsEarned, Sandbox!ResultMeansRemoved
  <2>5. QED
    BY <2>2, <2>3, <2>4 DEF CheckInv
<1>4. CASE Sandbox!LateCreate
  <2>1. "create" \in late /\ container' = "created" /\ UNCHANGED exit
    BY <1>4 DEF Sandbox!LateCreate, Sandbox!Appear
  <2>2. /\ checking \notin {"inspecting", "starting", "attached", "reinspecting"}
        /\ checking \in {"removing", "judging"} => raised \in Errors
        /\ result \notin {"passed", "failed"}
    BY <2>1 DEF CheckInv, UnderWay, Finishing, Inspected, Finished, Sandbox!ResultMeansRemoved
  <2>3. ContainerInv' /\ Finishing'
    BY <1>1, <2>1, <2>2 DEF ContainerInv, Finishing
  <2>4. UnderWay'
    <3>1. checking # "creating" \/ "create" \in late
      BY <2>1
    <3>2. QED
      BY <1>1, <2>1, <2>2 DEF CheckInv, UnderWay
  <2>5. Finished'
    BY <1>1, <2>2 DEF Finished, Sandbox!PassedIsEarned, Sandbox!ResultMeansRemoved
  <2>6. QED
    BY <2>3, <2>4, <2>5 DEF CheckInv
<1>5. CASE Sandbox!LateStart
  <2>1. /\ container' = IF container = "created" THEN "running" ELSE container
        /\ UNCHANGED <<policy, exit>>
    BY <1>5 DEF Sandbox!LateStart
  <2>2. ContainerInv' /\ UnderWay'
    BY <1>1, <1>2, <2>1 DEF CheckInv, ContainerInv, UnderWay
  <2>3. Finishing'
    BY <1>1, <1>2, <2>1 DEF CheckInv, Finishing, Inspected
  <2>4. Finished'
    BY <1>1, <1>2, <2>1 DEF CheckInv, Finished, Sandbox!PassedIsEarned, Sandbox!ResultMeansRemoved
  <2>5. QED
    BY <2>2, <2>3, <2>4 DEF CheckInv
<1>6. QED
  BY <1>3, <1>4, <1>5

------------------------------------------------------------------------------
(* The case.                                                               *)

LEMMA CaseInit == Init => CaseInv
<1> SUFFICES ASSUME Init PROVE CaseInv
  OBVIOUS
<1>1. CallInv
  BY DEF Init, Adapter!Init, CallInv, Clean
<1>2. CheckInv
  BY CaseAssumption DEF Init, Sandbox!Init, CheckInv, ContainerInv, UnderWay, Finishing,
     Finished, Errors, Sandbox!PassedIsEarned, Sandbox!ResultMeansRemoved
<1>3. QED
  BY <1>1, <1>2 DEF CaseInv

LEMMA CallStays == ASSUME CallInv, UNCHANGED call PROVE CallInv'
BY DEF CallInv, Clean, call

LEMMA CheckStays == ASSUME CheckInv, UNCHANGED check PROVE CheckInv'
<1>1. UNCHANGED <<checking, container, policy, exit, late, uncertain, raised, client,
                  timed_out, record, result>>
  BY DEF check
<1>2. ContainerInv' /\ UnderWay'
  BY <1>1 DEF CheckInv, ContainerInv, UnderWay
<1>3. Finishing'
  BY <1>1 DEF CheckInv, Finishing, Inspected
<1>4. Finished'
  BY <1>1 DEF CheckInv, Finished, Sandbox!PassedIsEarned, Sandbox!ResultMeansRemoved
<1>5. QED
  BY <1>2, <1>3, <1>4 DEF CheckInv

\* A call that answered left nothing, so the next one starts clean.
LEMMA NextCallKeeps == ASSUME CaseInv, NextCall PROVE CaseInv'
<1>1. CheckInv'
  BY CheckStays DEF NextCall, CaseInv
<1>2. CASE UNCHANGED call
  BY <1>1, <1>2, CallStays DEF CaseInv
<1>3. CASE ~UNCHANGED call
  <2>1. /\ calling = "done" /\ answer = "answered"
        /\ calling' = "entry" /\ answer' = Null /\ child' = "none"
        /\ UNCHANGED <<helper, output>>
    BY <1>3 DEF NextCall
  <2>2. ~helper /\ output = Null
    BY <2>1 DEF CaseInv, CallInv, Clean
  <2>3. CallInv'
    BY <2>1, <2>2 DEF CallInv, Clean
  <2>4. QED
    BY <1>1, <2>3 DEF CaseInv
<1>4. QED
  BY <1>2, <1>3

LEMMA NextCheckKeeps == ASSUME CaseInv, NextCheck PROVE CaseInv'
<1>1. CallInv'
  BY CallStays DEF NextCheck, CaseInv
<1>2. CASE UNCHANGED check
  BY <1>1, <1>2, CheckStays DEF CaseInv
<1>3. CASE ~UNCHANGED check
  <2>1. /\ checking' = "creating" /\ result' = Null /\ container' = Null /\ late' = {}
    BY <1>3 DEF NextCheck
  <2>2. CheckInv'
    BY <2>1, CaseAssumption DEF CheckInv, ContainerInv, UnderWay, Finishing, Finished,
       Sandbox!PassedIsEarned, Sandbox!ResultMeansRemoved
  <2>3. QED
    BY <1>1, <2>2 DEF CaseInv
<1>4. QED
  BY <1>2, <1>3

LEMMA NextKeeps == ASSUME CaseInv, [Next]_vars PROVE CaseInv'
<1>1. CASE UNCHANGED vars
  BY <1>1, CallStays, CheckStays DEF vars, CaseInv
<1>2. CASE \/ Call(Adapter!Caller) \/ Call(Adapter!Interrupt)
           \/ ended = Null /\ stage < Calls /\ UNCHANGED <<case, check>>
              /\ (Adapter!Write \/ Adapter!StartHelper \/ Adapter!HelperEnds
                  \/ (\E e \in Adapter!Exits : Adapter!Exit(e))
                  \/ Adapter!Expire \/ Adapter!Cancel)
  <2>1. UNCHANGED check
    BY <1>2 DEF Call
  <2>2. CheckInv'
    BY <2>1, CheckStays DEF CaseInv
  <2>3. CallInv'
    BY <1>2, CallerKeepsCallInv, OthersKeepCallInv DEF Call, CaseInv
  <2>4. QED
    BY <2>2, <2>3 DEF CaseInv
<1>3. CASE Check(Sandbox!Caller) \/ Check(Sandbox!ProcessEnds \/ Sandbox!LateCreate \/ Sandbox!LateStart)
  <2>1. UNCHANGED call /\ (Sandbox!Caller \/ Sandbox!ProcessEnds \/ Sandbox!LateCreate
                             \/ Sandbox!LateStart)
    BY <1>3 DEF Check
  <2>2. CallInv'
    BY <2>1, CallStays DEF CaseInv
  <2>3. CheckInv
    BY DEF CaseInv
  <2>4. CASE Sandbox!Caller
    BY <2>3, <2>4, CreateKeeps, VerifyKeeps, StartKeeps, ClientKeeps, ReinspectKeeps,
       RemoveKeeps, JudgeKeeps, <2>2 DEF Sandbox!Caller, CaseInv
  <2>5. CASE Sandbox!ProcessEnds \/ Sandbox!LateCreate \/ Sandbox!LateStart
    BY <2>2, <2>3, <2>5, DaemonKeeps DEF CaseInv
  <2>6. QED
    BY <2>1, <2>4, <2>5
<1>4. CASE NextCall
  BY <1>4, NextCallKeeps
<1>5. CASE NextCheck
  BY <1>5, NextCheckKeeps
<1>6. CASE Decide
  BY <1>6, CallStays, CheckStays DEF Decide, CaseInv
<1>7. QED
  BY <1>1, <1>2, <1>3, <1>4, <1>5, <1>6 DEF Next, Evaluator, Others

\* Where a call and a check stand, whatever came before them in the case.
THEOREM CaseInvariant == Spec => []CaseInv
<1>1. Init => CaseInv
  BY CaseInit
<1>2. CaseInv /\ [Next]_vars => CaseInv'
  BY NextKeeps
<1>3. QED
  BY <1>1, <1>2, PTL DEF Spec

\* A call that was not interrupted leaves no child, no helper on its pipes and
\* no temporary file, for the second call of a case as for the first
\* (CodexExecAdapter and ExternalCommandAdapter.complete).
THEOREM CallsLeaveNothing == Spec => []NothingLeft
<1>1. CaseInv => NothingLeft
  BY DEF CaseInv, CallInv, Clean, NothingLeft, Adapter!NothingLeft
<1>2. QED
  BY <1>1, CaseInvariant, PTL

\* A check passes only on an exit the script itself had, in time and under the
\* required limits (DockerSandbox.run_script).
THEOREM PassesAreEarned == Spec => []PassedIsEarned
<1>1. CaseInv => PassedIsEarned
  BY DEF CaseInv, CheckInv, Finished, PassedIsEarned
<1>2. QED
  BY <1>1, CaseInvariant, PTL

\* A result means that the container is gone and that no abandoned request can
\* bring it back (_remove in run_script's "finally").
THEOREM ResultsAreCleared == Spec => []ResultMeansRemoved
<1>1. CaseInv => ResultMeansRemoved
  BY DEF CaseInv, CheckInv, Finished, ResultMeansRemoved
<1>2. QED
  BY <1>1, CaseInvariant, PTL

------------------------------------------------------------------------------
(* One request over the HTTP adapter.                                      *)

(***************************************************************************)
(* The call: what is judged was taken from the queue of the last attempt,  *)
(* and nothing is taken any more once the call has an outcome.             *)
(***************************************************************************)
GotInv ==
  /\ pc = "judging" => got = <<attempts, got[2]>>
  /\ outcome # None => pc = "done"
  /\ outcome = "answered" => got = <<attempts, "completed">>
  /\ outcome \in {None, "cancelled", "failed", "exhausted", "answered", "raised"}

Selected ==
  /\ artifact.prompt = candidates[selected_index + 1]
  /\ artifact.raw = raw_responses[selected_index + 1]

(***************************************************************************)
(* The request: every candidate is kept with the response it was parsed    *)
(* from; the last answer of a request with several candidates, once it has *)
(* left the selector, is the number of the one that was selected.          *)
(***************************************************************************)
RequestInv ==
  /\ raw_responses = candidates /\ candidates \in Seq(Prompts \cup {Malformed})
  /\ answered \in Seq(Prompts \cup {Malformed} \cup (0 .. MaxCandidates + 1))
  /\ phase \in {"building", "validating"} \/ ending = "returned" =>
       (candidate_count > 1 => answered[Len(answered)] = selected_index + 1)
  /\ phase = "validating" \/ ending = "returned" => Selected
  /\ ending # None => phase = "done"

OptimizeInv == GotInv /\ RequestInv

\* Every step of the adapter, and every new call, keeps what is known of a call.
LEMMA AdapterKeepsGot ==
  ASSUME GotInv, HttpNext
  PROVE  GotInv'
<1> USE HttpAssumption DEF GotInv, Goto, Finish
<1>1. CASE Enter
  BY <1>1 DEF Enter
<1>2. CASE BeginAttempt
  BY <1>2 DEF BeginAttempt
<1>3. CASE Send
  BY <1>3 DEF Send
<1>4. CASE Poll
  BY <1>4 DEF Poll
<1>5. CASE TimeOut
  BY <1>5 DEF TimeOut
<1>6. CASE Take
  BY <1>6 DEF Take
<1>7. CASE Again
  BY <1>7 DEF Again
<1>8. CASE Judge
  BY <1>8 DEF Judge
<1>9. CASE Sleep
  BY <1>9 DEF Sleep
<1>10. CASE Expire \/ Cancel
         \/ \E a \in Attempts, v \in Answers : Answer(a, v)
  BY <1>10 DEF Expire, Cancel, Answer
<1>11. QED
  BY <1>1, <1>2, <1>3, <1>4, <1>5, <1>6, <1>7, <1>8, <1>9, <1>10
     DEF HttpNext, Caller

\* What happens to the call when the request goes on or ends.
LEMMA ProceedKeepsGot ==
  ASSUME GotInv, NEW l, Proceed(l)
  PROVE  GotInv'
  BY HttpAssumption DEF GotInv, Proceed, StartCall, httpVars

LEMMA EndKeepsGot ==
  ASSUME GotInv, NEW o, End(o)
  PROVE  GotInv'
  BY DEF GotInv, End, httpVars

LEMMA WorkKeepsGot ==
  ASSUME GotInv, Work
  PROVE  GotInv'
<1>1. (\E l : Proceed(l)) \/ (\E o : End(o))
  BY DEF Work, Candidate, Repair, Select, CallRaises,
         Build, Validate, Accept
<1>2. QED
  BY <1>1, ProceedKeepsGot, EndKeepsGot

\* A response that is recorded is the last one, whatever came before it.
LEMMA AnsweredGrows ==
  ASSUME RequestInv, NEW r \in Prompts \cup {Malformed} \cup (0 .. MaxCandidates + 1),
         NEW l, NEW purpose, Called(l, purpose, r)
  PROVE  /\ answered' \in Seq(Prompts \cup {Malformed} \cup (0 .. MaxCandidates + 1))
         /\ answered'[Len(answered')] = r
  BY DEF RequestInv, Called

\* A parsed candidate is kept with its response and leads to the next candidate,
\* to the selector when there are several, or to the artifact.
LEMMA AcceptKeepsRequest ==
  ASSUME RequestInv, NEW p \in Prompts \cup {Malformed}, Accept(p, p),
         UNCHANGED <<candidate_count, selected_index, artifact>>,
         phase \in {"candidate", "repairing"},
         answered' \in Seq(Prompts \cup {Malformed} \cup (0 .. MaxCandidates + 1))
  PROVE  RequestInv'
<1>1. ending = None /\ ending' = None
  BY DEF RequestInv, Accept, Proceed
<1>2. raw_responses' = candidates' /\ candidates' \in Seq(Prompts \cup {Malformed})
  BY DEF RequestInv, Accept
<1>3. /\ phase' \in {"candidate", "selecting", "building"}
      /\ phase' = "building" => ~(candidate_count > 1)
  BY DEF Accept, Proceed, AfterCandidate
<1>4. QED
  BY <1>1, <1>2, <1>3, OptimizeAssumption DEF RequestInv

\* An end other than "returned" leaves nothing to be shown of the artifact.
LEMMA EndKeepsRequest ==
  ASSUME RequestInv, NEW o, o # "returned", End(o),
         UNCHANGED <<candidates, raw_responses>>,
         answered' \in Seq(Prompts \cup {Malformed} \cup (0 .. MaxCandidates + 1))
  PROVE  RequestInv'
  BY DEF RequestInv, End

LEMMA CandidateKeepsRequest ==
  ASSUME RequestInv, NEW r \in Prompts \cup {Malformed},
         Candidate(r) \/ Repair(r)
  PROVE  RequestInv'
<1>1. /\ phase \in {"candidate", "repairing"}
      /\ answered' \in Seq(Prompts \cup {Malformed} \cup (0 .. MaxCandidates + 1))
      /\ UNCHANGED <<candidate_count, selected_index, artifact>>
  BY AnsweredGrows DEF Candidate, Repair, Called, request
<1>2. \/ Accept(r, r)
      \/ /\ End("parse error") \/ (phase = "candidate" /\ Proceed("repairing"))
         /\ UNCHANGED <<candidates, raw_responses>>
  BY DEF Candidate, Repair, Called
<1>3. CASE Accept(r, r)
  BY <1>1, <1>3, AcceptKeepsRequest
<1>4. CASE End("parse error") /\ UNCHANGED <<candidates, raw_responses>>
  BY <1>1, <1>4, EndKeepsRequest
<1>5. CASE /\ phase = "candidate" /\ Proceed("repairing")
           /\ UNCHANGED <<candidates, raw_responses>>
  BY <1>1, <1>5, OptimizeAssumption DEF RequestInv, Proceed
<1>6. QED
  BY <1>2, <1>3, <1>4, <1>5

LEMMA SelectKeepsRequest ==
  ASSUME RequestInv,
         NEW n \in (0 .. MaxCandidates + 1) \cup {Malformed}, Select(n)
  PROVE  RequestInv'
<1>1. /\ answered' \in Seq(Prompts \cup {Malformed} \cup (0 .. MaxCandidates + 1))
      /\ answered'[Len(answered')] = n
  BY AnsweredGrows DEF Select
<1>2. CASE /\ n \in 1 .. Len(candidates)
           /\ selected_index' = ZeroBased(n) /\ Proceed("building")
  <2>1. n \in Int /\ selected_index' + 1 = n
    BY <1>2 DEF RequestInv, ZeroBased
  <2>2. phase = "selecting" /\ phase' = "building" /\ ending' = ending
    BY <1>2 DEF Select, Called, Proceed
  <2>3. ending = None /\ UNCHANGED <<candidates, raw_responses, candidate_count>>
    BY <2>2 DEF RequestInv, Select, request
  <2>4. QED
    BY <1>1, <2>1, <2>2, <2>3, OptimizeAssumption DEF RequestInv
<1>3. CASE End("selector error")
  BY <1>1, <1>3, EndKeepsRequest DEF Select
<1>4. QED
  BY <1>2, <1>3 DEF Select

LEMMA WorkKeepsRequest ==
  ASSUME GotInv, RequestInv, Work
  PROVE  RequestInv'
<1>1. CASE \E r \in Prompts \cup {Malformed} : Candidate(r) \/ Repair(r)
  BY <1>1, CandidateKeepsRequest
<1>2. CASE \E n \in (0 .. MaxCandidates + 1) \cup {Malformed} : Select(n)
  BY <1>2, SelectKeepsRequest
<1>3. CASE CallRaises
  BY <1>3, EndKeepsRequest DEF GotInv, RequestInv, CallRaises
<1>4. CASE Build
  <2>1. Selected'
    BY <1>4 DEF Build, request, Selected
  <2>2. ending = None /\ ending' = None /\ phase' = "validating"
    BY <1>4 DEF RequestInv, Build, Proceed
  <2>3. QED
    BY <1>4, <2>1, <2>2 DEF RequestInv, Build, request
<1>5. CASE Validate
  BY <1>5 DEF RequestInv, Selected, Validate, End, request
<1>6. QED
  BY <1>1, <1>2, <1>3, <1>4, <1>5 DEF Work

LEMMA RequestInitInv ==
  ASSUME OptimizeInit
  PROVE  OptimizeInv
<1>1. GotInv
  BY HttpAssumption DEF OptimizeInit, HttpInit, GotInv
<1>2. RequestInv
  BY OptimizeAssumption DEF OptimizeInit, RequestInv
<1>3. QED
  BY <1>1, <1>2 DEF OptimizeInv

LEMMA RequestNextKeeps ==
  ASSUME OptimizeInv,
         [OptimizeNext]_(allVars)
  PROVE  OptimizeInv'
<1>1. CASE Work
  BY <1>1, WorkKeepsGot, WorkKeepsRequest DEF OptimizeInv
<1>2. CASE HttpNext /\ UNCHANGED optimizeVars
  <2>1. RequestInv'
    BY <1>2 DEF OptimizeInv, RequestInv, Selected, optimizeVars, request
  <2>2. QED
    BY <1>2, <2>1, AdapterKeepsGot DEF OptimizeInv
<1>3. CASE UNCHANGED allVars
  BY <1>3 DEF OptimizeInv, GotInv, RequestInv, Selected, allVars, httpVars,
     optimizeVars, request
<1>4. QED
  BY <1>1, <1>2, <1>3 DEF OptimizeNext

\* What a call took and what a request made of it, at every place of both.
THEOREM OptimizeInvariant == OptimizeSpec => []OptimizeInv
<1>1. OptimizeInit => OptimizeInv
  BY RequestInitInv
<1>2. OptimizeInv /\ [OptimizeNext]_(allVars) => OptimizeInv'
  BY RequestNextKeeps
<1>3. QED
  BY <1>1, <1>2, PTL DEF OptimizeSpec

\* A call answers with what came back from its last request; what an abandoned
\* sender puts into its queue later is never used (OpenAIResponsesAdapter.complete).
THEOREM LateAnswersAreNotUsed == OptimizeSpec => []AnswerIsOfLastAttempt
<1>1. OptimizeInv => AnswerIsOfLastAttempt
  BY DEF OptimizeInv, GotInv, AnswerIsOfLastAttempt
<1>2. QED
  BY <1>1, OptimizeInvariant, PTL

\* What optimize returns is the candidate the selector named, with the response
\* it was parsed from, after a repair as well as without one.
THEOREM SelectedIsReturned == OptimizeSpec => []ResultIsTheSelected
<1>1. OptimizeInv => ResultIsTheSelected
  BY DEF OptimizeInv, RequestInv, Selected, ResultIsTheSelected, Last
<1>2. QED
  BY <1>1, OptimizeInvariant, PTL
==============================================================================
