------------------------------ MODULE Optimize ------------------------------
(***************************************************************************)
(* optimize of runtime.py: one model call per candidate strategy, at most  *)
(* one repair of a malformed response, a selector when there are several   *)
(* candidates, and an artifact that is validated (validation.py) before it *)
(* is returned.  Each model call is a call of HttpAdapter, which may fail; *)
(* one cancellation token serves them all.                                 *)
(*                                                                         *)
(* A response is what the parsers make of it: the prompt it contains or    *)
(* Malformed for a candidate, a number or Malformed for a selection.       *)
(***************************************************************************)
EXTENDS HttpAdapter, SequencesExt

CONSTANTS Prompts,        \* prompts a response can contain
          Garbled,        \* the prompts with mojibake markers
          Passing,        \* the prompts whose audit passes
          MaxCandidates,  \* bound on candidate_count
          Malformed

ASSUME OptimizeAssumption ==
  /\ Garbled \subseteq Prompts /\ Passing \subseteq Prompts
  /\ MaxCandidates \in 1..5 /\ Malformed \notin Prompts
  /\ None # "returned"

VARIABLES phase, candidate_count, max_repairs,
          candidates, raw_responses, repairs,
          model_calls,    \* the recorded calls: purpose and response
          selected_index, \* zero-based, as in the code
          answered,       \* responses the adapter returned, in order (history)
          artifact,       \* the artifact that is validated and returned
          ending          \* how the request ended

request == <<candidate_count, max_repairs>>
optimizeVars == <<phase, request, candidates, raw_responses, repairs, model_calls,
                  selected_index, answered, artifact, ending>>
allVars == <<httpVars, optimizeVars>>

OptimizeInit ==
  /\ HttpInit
  /\ phase = "candidate" /\ ending = None
  /\ candidate_count \in 1..MaxCandidates
  /\ max_repairs \in {0, 1}
  /\ candidates = <<>> /\ raw_responses = <<>> /\ repairs = 0
  /\ model_calls = <<>> /\ answered = <<>>
  /\ selected_index = 0 /\ artifact = None

AtCall == {"candidate", "repairing", "selecting"}

\* complete is called again: everything is new but the token.  Threads that
\* earlier calls abandoned can reach nothing of this one.
StartCall ==
  /\ pc' = "entry" /\ attempts' = 0
  /\ sender' = [a \in Attempts |-> "none"]
  /\ results' = [a \in Attempts |-> None]
  /\ got' = None /\ overdue' = FALSE /\ outcome' = None
  /\ UNCHANGED token_set

Proceed(l) == /\ phase' = l
              /\ IF l \in AtCall THEN StartCall ELSE UNCHANGED httpVars
              /\ UNCHANGED ending

End(o) == phase' = "done" /\ ending' = o /\ UNCHANGED httpVars

\* candidate_strategy_plan
Strategies(n) == IF n = 1 THEN <<"default">> ELSE [i \in 1..n |-> i]

\* The call at this phase returned r; its record binds purpose and response.
Called(l, purpose, r) ==
  /\ phase = l /\ outcome = "answered"
  /\ answered' = Append(answered, r)
  /\ model_calls' = Append(model_calls, [purpose |-> purpose, response |-> r])

AfterCandidate ==
  IF Len(candidates') < candidate_count THEN "candidate"
  ELSE IF candidate_count > 1 THEN "selecting" ELSE "building"

Accept(p, raw) ==
  /\ candidates' = Append(candidates, p)
  /\ raw_responses' = Append(raw_responses, raw)
  /\ Proceed(AfterCandidate)

------------------------------------------------------------------------------
\* The candidate call and extract_optimized_prompt.
Candidate(r) ==
  /\ Called("candidate", "optimization_candidate", r)
  /\ IF r # Malformed
       THEN Accept(r, r)
       ELSE /\ IF max_repairs = 0 THEN End("parse error") ELSE Proceed("repairing")
            /\ UNCHANGED <<candidates, raw_responses>>
  /\ UNCHANGED <<request, repairs, selected_index, artifact>>

\* Slip: the malformed response is kept as the raw one.
RepairOldRaw(r) ==
  /\ Called("repairing", "optimization_repair", r)
  /\ IF r # Malformed
       THEN Accept(r, Last(answered)) /\ repairs' = repairs + 1
       ELSE End("parse error") /\ UNCHANGED <<candidates, raw_responses, repairs>>
  /\ UNCHANGED <<request, selected_index, artifact>>

\* The one repair: a second malformed response is an error.
Repair(r) ==
  /\ Called("repairing", "optimization_repair", r)
  /\ IF r # Malformed
       THEN Accept(r, r) /\ repairs' = repairs + 1
       ELSE End("parse error") /\ UNCHANGED <<candidates, raw_responses, repairs>>
  /\ UNCHANGED <<request, selected_index, artifact>>

ZeroBased(n) == n - 1

\* _select_candidate: a one-based index within the candidates.
Select(n) ==
  /\ Called("selecting", "optimization_selector", n)
  /\ IF n # Malformed /\ n \in 1..Len(candidates)
       THEN selected_index' = ZeroBased(n) /\ Proceed("building")
       ELSE UNCHANGED selected_index /\ End("selector error")
  /\ UNCHANGED <<request, candidates, raw_responses, repairs, artifact>>

\* The call raised: an adapter failure or the cancellation.
CallRaises ==
  /\ phase \in AtCall
  /\ outcome \notin {None, "answered"}
  /\ End(outcome)
  /\ UNCHANGED <<request, candidates, raw_responses, repairs, model_calls,
                 selected_index, answered, artifact>>

\* _artifact
Build ==
  /\ phase = "building"
  /\ selected_index < Len(candidates)   \* an IndexError otherwise
  /\ artifact' =
       [prompt |-> candidates[selected_index + 1],
        raw    |-> raw_responses[selected_index + 1],
        calls  |-> model_calls, total_calls |-> Len(model_calls),
        method |-> IF Len(candidates) > 1 THEN "model_selector" ELSE "single_candidate",
        selected_index |-> selected_index + 1,
        selector |-> IF Len(candidates) > 1 THEN Last(model_calls).response ELSE None,
        candidates |-> [i \in 1..Len(candidates) |->
                          [strategy |-> Strategies(candidate_count)[i],
                           prompt |-> candidates[i],
                           selected |-> i = selected_index + 1]],
        level |-> IF candidates[selected_index + 1] \in Passing THEN "E1" ELSE "E0"]
  /\ Proceed("validating")
  /\ UNCHANGED <<request, candidates, raw_responses, repairs, model_calls,
                 selected_index, answered>>

\* _validate_selection
SelectionIsValid(a) ==
  LET cs == a.candidates
  IN /\ Len(cs) \in 1..5
     /\ a.selected_index \in 1..Len(cs)
     /\ \A i \in 1..Len(cs) : cs[i].strategy = Strategies(Len(cs))[i]
     /\ {i \in 1..Len(cs) : cs[i].selected} = {a.selected_index}
     /\ cs[a.selected_index].prompt = a.prompt
     /\ a.method = (IF Len(cs) > 1 THEN "model_selector" ELSE "single_candidate")
     /\ (Len(cs) > 1) <=> (a.selector # None)

\* _validate_runtime and _validate_artifact
IsValid(a) ==
  /\ a.calls # <<>> /\ a.total_calls = Len(a.calls)
  /\ SelectionIsValid(a)
  /\ a.prompt \notin Garbled
  /\ a.level = IF a.prompt \in Passing THEN "E1" ELSE "E0"

\* An artifact that does not validate is an error, not a result.
Validate ==
  /\ phase = "validating"
  /\ IF IsValid(artifact) THEN End("returned") ELSE End("invalid artifact")
  /\ UNCHANGED <<request, candidates, raw_responses, repairs, model_calls,
                 selected_index, answered, artifact>>

Work == \/ \E r \in Prompts \cup {Malformed} : Candidate(r) \/ Repair(r)
        \/ \E n \in (0 .. MaxCandidates + 1) \cup {Malformed} : Select(n)
        \/ CallRaises \/ Build \/ Validate

OptimizeNext == Work \/ (HttpNext /\ UNCHANGED optimizeVars)

\* The requesting thread runs, inside the adapter and outside of it.
OptimizeSpec == /\ OptimizeInit /\ [][OptimizeNext]_allVars
                /\ WF_allVars(Work) /\ WF_httpVars(Caller /\ UNCHANGED optimizeVars)

------------------------------------------------------------------------------
\* What is returned is the candidate the selector named, with the response it
\* was parsed from.
ResultIsTheSelected ==
  ending = "returned" =>
    /\ artifact.raw = artifact.prompt
    /\ candidate_count > 1 => artifact.prompt = candidates[Last(answered)]

\* A request ends when deadlines pass, even if no provider ever answers.
EveryRequestEnds == WF_httpVars(Expire /\ UNCHANGED optimizeVars) => <>(phase = "done")
==============================================================================
