---------------------------- MODULE BenchmarkRun ----------------------------
(***************************************************************************)
(* A benchmark run (scripts/run_codex_benchmark.py) over its output        *)
(* directory, with the call caches of codex_evaluation.py.  The run can    *)
(* fail or be killed between any two file operations and is then started   *)
(* again over what is on disk: a snapshot of the benchmark, the manifest   *)
(* that locks the configuration, one artifact and one evaluation per       *)
(* domain, one cached response per model call, and the summary.            *)
(*                                                                         *)
(* Every file is replaced atomically, so a write is one action; a check    *)
(* that a file exists and the write that follows are two.                  *)
(***************************************************************************)
EXTENDS Integers

CONSTANTS Domains, Prompts, Outputs,
          Configs,        \* records with the benchmark and the other settings
          Passing,        \* the outputs whose evaluation passes its gate
          MaxTrouble,     \* bound on failed calls and killed processes
          Null

\* Null is None, which is no configuration, no response and no exit.
ASSUME BenchAssumption ==
  /\ \A c \in Configs : DOMAIN c = {"benchmark", "model"}
  /\ Null \notin Configs /\ Null \notin Outputs /\ Null \notin {"passed", "failed"}
  /\ Passing \subseteq Outputs
  /\ MaxTrouble \in Nat

VARIABLES snapshot,    \* benchmark-definition.json
          manifest,    \* run-manifest.json
          artifact,    \* optimization.json of a domain: its prompt
          cache,       \* the responses stored by call key
          evaluation,  \* evaluation.json of a domain
          summary,     \* summary.json: the evaluations it reports, or Null
          failures,    \* domains with a failure report
          pc, config, selected, todo, domain, prompt, answers, results,
          exit,        \* how the last process ended
          paid,        \* model calls that were answered, by key (history)
          trouble

disk == <<snapshot, manifest, artifact, cache, evaluation, summary, failures>>
locals == <<config, selected, todo, domain, prompt, answers, results>>
vars == <<disk, pc, locals, exit, paid, trouble>>

Phases == {"execution", "judgement"}

\* The name of a cached response: the directory of the domain and a digest of
\* the request.  The settings are part of an execution's request only, the
\* output that is judged is part of a judgement's.
ExecutionKey(c, d, x) == [domain |-> d, prompt |-> x, config |-> c, on |-> Null]
JudgementKey(d, x, o) == [domain |-> d, prompt |-> x, config |-> Null, on |-> o]

NoAnswers == [ph \in Phases |-> Null]
NoResults == [d \in Domains |-> Null]

Init ==
  /\ snapshot = Null /\ manifest = Null
  /\ artifact = [d \in Domains |-> Null]
  /\ cache = <<>>
  /\ evaluation = NoResults
  /\ summary = Null /\ failures = {}
  /\ pc = "idle" /\ config = Null
  /\ selected = {} /\ todo = {}
  /\ domain = Null /\ prompt = Null
  /\ answers = NoAnswers
  /\ results = NoResults
  /\ exit = Null
  /\ paid = <<>> /\ trouble = 0

Goto(l) == pc' = l

\* The process ends; its locals are gone.
End(how) ==
  /\ Goto("idle")
  /\ exit' = how
  /\ config' = Null
  /\ selected' = {} /\ todo' = {}
  /\ domain' = Null /\ prompt' = Null
  /\ answers' = NoAnswers
  /\ results' = NoResults

Trouble == trouble < MaxTrouble /\ trouble' = trouble + 1

------------------------------------------------------------------------------
Launch(c, ds) ==
  /\ pc = "idle"
  /\ config' = c
  /\ selected' = ds /\ todo' = ds
  /\ Goto("snapshot")
  /\ UNCHANGED <<disk, domain, prompt, answers, results, exit, paid, trouble>>

\* ensure_benchmark_snapshot: what is there must be equal.
CheckSnapshot ==
  /\ pc = "snapshot"
  /\ IF snapshot \notin {Null, config.benchmark}
       THEN End("refused")
       ELSE /\ Goto(IF snapshot = Null THEN "write snapshot" ELSE "manifest")
            /\ UNCHANGED <<locals, exit>>
  /\ UNCHANGED <<disk, paid, trouble>>

WriteSnapshot ==
  /\ pc = "write snapshot"
  /\ snapshot' = config.benchmark
  /\ Goto("manifest")
  /\ UNCHANGED <<manifest, artifact, cache, evaluation, summary, failures, locals, exit, paid, trouble>>

\* ensure_run_manifest: the stored manifest, if there is one, is the run's own.
Compatible(c) == manifest \in {Null, c}

CheckManifest ==
  /\ pc = "manifest"
  /\ IF ~Compatible(config)
       THEN End("refused")
       ELSE /\ Goto(IF manifest = Null THEN "write manifest" ELSE "collecting")
            /\ UNCHANGED <<locals, exit>>
  /\ UNCHANGED <<disk, paid, trouble>>

WriteManifest ==
  /\ pc = "write manifest"
  /\ manifest' = config
  /\ Goto("collecting")
  /\ UNCHANGED <<snapshot, artifact, cache, evaluation, summary, failures, locals, exit, paid, trouble>>

\* Slip: a resumed run knows only what it does itself.
CollectNothing ==
  /\ pc = "collecting"
  /\ Goto("next")
  /\ UNCHANGED <<disk, locals, exit, paid, trouble>>

\* Every valid evaluation of the directory is a result, selected or not.
Collect ==
  /\ pc = "collecting"
  /\ results' = evaluation
  /\ Goto("next")
  /\ UNCHANGED <<disk, config, selected, todo, domain, prompt, answers, exit, paid, trouble>>

Begin(d) ==
  /\ domain' = d
  /\ prompt' = artifact[d]
  /\ answers' = NoAnswers
  /\ Goto(IF artifact[d] = Null THEN "optimizing" ELSE "evaluating")
  /\ UNCHANGED results

\* Slip: a domain with a failure report is not tried again.
NextDomainOnce(d) ==
  /\ pc = "next" /\ d \in todo
  /\ todo' = todo \ {d}
  /\ IF evaluation[d] # Null \/ d \in failures
       THEN UNCHANGED <<pc, domain, prompt, answers, results>>
       ELSE Begin(d)
  /\ UNCHANGED <<disk, config, selected, exit, paid, trouble>>

\* The next domain: evaluated already, optimized already, or to be optimized.
NextDomain(d) ==
  /\ pc = "next" /\ d \in todo
  /\ todo' = todo \ {d}
  /\ IF evaluation[d] # Null
       THEN /\ results' = [results EXCEPT ![d] = evaluation[d]]
            /\ UNCHANGED <<pc, domain, prompt, answers>>
       ELSE Begin(d)
  /\ UNCHANGED <<disk, config, selected, exit, paid, trouble>>

\* optimize: every call of the model may give another prompt.
Optimize(x) ==
  /\ pc = "optimizing"
  /\ prompt' = x
  /\ Goto("storing")
  /\ UNCHANGED <<disk, config, selected, todo, domain, answers, results, exit, paid, trouble>>

\* Slip: the artifact is kept in memory only.
StoreNoArtifact ==
  /\ pc = "storing"
  /\ Goto("evaluating")
  /\ UNCHANGED <<disk, locals, exit, paid, trouble>>

StoreArtifact ==
  /\ pc = "storing"
  /\ artifact' = [artifact EXCEPT ![domain] = prompt]
  /\ Goto("evaluating")
  /\ UNCHANGED <<snapshot, manifest, cache, evaluation, summary, failures, locals, exit, paid, trouble>>

\* The call that evaluate_suite makes next.
Phase == IF answers["execution"] = Null THEN "execution" ELSE "judgement"

Request(ph) ==
  IF ph = "execution" THEN ExecutionKey(config, domain, prompt)
                      ELSE JudgementKey(domain, prompt, answers["execution"])

Wanted == Request(Phase)

Evaluated == answers["judgement"] # Null

\* Slip: the cache is written but never read.
HitNever == FALSE

Hit == Wanted \in DOMAIN cache

Keep(o) == answers' = [answers EXCEPT ![Phase] = o]

\* A file written under its name, or a count under its key.
Put(f, k, v) == [j \in DOMAIN f \cup {k} |-> IF j = k THEN v ELSE f[j]]

Paid(k) == IF k \in DOMAIN paid THEN paid[k] ELSE 0

\* A cached response is taken, or the model is called and answers.
Respond(o) ==
  /\ pc = "evaluating" /\ ~Evaluated
  /\ Keep(o)
  /\ IF Hit
       THEN o = cache[Wanted] /\ UNCHANGED <<pc, paid>>
       ELSE /\ paid' = Put(paid, Wanted, Paid(Wanted) + 1)
            /\ Goto("caching")
  /\ UNCHANGED <<disk, config, selected, todo, domain, prompt, results, exit, trouble>>

\* The last answer is stored under its key.
Caching == IF answers["judgement"] # Null THEN "judgement" ELSE "execution"

Store ==
  /\ pc = "caching"
  /\ cache' = Put(cache, Request(Caching), answers[Caching])
  /\ Goto("evaluating")
  /\ UNCHANGED <<snapshot, manifest, artifact, evaluation, summary, failures, locals, exit, paid, trouble>>

Result == [config |-> config, prompt |-> prompt, output |-> answers["execution"],
              verdict |-> answers["judgement"]]

StoreEvaluation ==
  /\ pc = "evaluating" /\ Evaluated
  /\ evaluation' = [evaluation EXCEPT ![domain] = Result]
  /\ results' = [results EXCEPT ![domain] = Result]
  /\ Goto("summing")
  /\ UNCHANGED <<snapshot, manifest, artifact, cache, summary, failures,
                 config, selected, todo, domain, prompt, answers, exit, paid, trouble>>

\* build_summary from the results the process knows.
WriteSummary ==
  /\ pc = "summing"
  /\ summary' = results
  /\ Goto("next")
  /\ UNCHANGED <<snapshot, manifest, artifact, cache, evaluation, failures, locals, exit, paid, trouble>>

GatePassed(r) == r # Null /\ r.verdict \in Passing

\* The last summary and the exit code.
Finish ==
  /\ pc = "next" /\ todo = {}
  /\ summary' = results
  /\ End(IF \A d \in selected : GatePassed(results[d]) THEN "passed" ELSE "failed")
  /\ UNCHANGED <<snapshot, manifest, artifact, cache, evaluation, failures, paid, trouble>>

\* An AdapterError is reported; any other exception of a call is not.
CallFails ==
  /\ \/ pc = "optimizing"
     \/ pc = "evaluating" /\ ~Evaluated /\ ~Hit
  /\ Trouble
  /\ failures' = failures \cup {domain} \/ UNCHANGED failures
  /\ End("error")
  /\ UNCHANGED <<snapshot, manifest, artifact, cache, evaluation, summary, paid>>

\* The process is killed.
Kill ==
  /\ pc # "idle"
  /\ Trouble
  /\ End("killed")
  /\ UNCHANGED <<disk, paid>>

Work ==
  \/ CheckSnapshot \/ WriteSnapshot \/ CheckManifest \/ WriteManifest
  \/ Collect \/ (\E d \in Domains : NextDomain(d))
  \/ (\E x \in Prompts : Optimize(x)) \/ StoreArtifact
  \/ (\E o \in Outputs : Respond(o)) \/ Store
  \/ StoreEvaluation \/ WriteSummary \/ Finish

Next == \/ \E c \in Configs, ds \in SUBSET Domains \ {{}} : Launch(c, ds)
        \/ Work \/ CallFails \/ Kill

Spec == Init /\ [][Next]_vars

\* A process runs, and an operator starts one again with the configuration of
\* the directory and all the domains.
Resume ==
  \E c \in Configs : manifest \in {Null, c} /\ snapshot \in {Null, c.benchmark}
                     /\ Launch(c, Domains)

FairSpec == Spec /\ WF_vars(Work) /\ SF_vars(Resume)

------------------------------------------------------------------------------
(***************************************************************************)
(* An evaluation belongs to the directory: it was made under the manifest, *)
(* for the stored artifact, from the outputs in the cache, even if the     *)
(* process that optimized, the one that executed and the one that judged   *)
(* were different ones.                                                    *)
(***************************************************************************)
EvaluationBelongs ==
  \A d \in Domains : evaluation[d] # Null =>
    LET e == evaluation[d]
    IN /\ e.config = manifest
       /\ e.prompt = artifact[d]
       /\ e.output = cache[ExecutionKey(manifest, d, e.prompt)]
       /\ e.verdict = cache[JudgementKey(d, e.prompt, e.output)]

(***************************************************************************)
(* The summary reports evaluations that are on disk, unchanged, and after  *)
(* a run that ended with an exit code it reports all of them, those of     *)
(* earlier runs and of other domains included.                             *)
(***************************************************************************)
SummaryIsTrue ==
  /\ summary # Null => \A d \in Domains : summary[d] \in {Null, evaluation[d]}
  /\ exit \in {"passed", "failed"} /\ pc = "idle"
       => summary = evaluation

\* Resuming does not pay twice: a call whose answer was stored is never made
\* again, whatever happened to the process that made it.
StoredIsNotPaidAgain == [][\A k \in DOMAIN cache : Paid(k)' = Paid(k)]_vars

\* "Resumable": after finitely many failures and kills every domain has its
\* evaluation and the summary reports them all.
RunCompletes == <>(summary # Null /\ \A d \in Domains : summary[d] # Null)
==============================================================================
