--------------------------- MODULE BenchmarkRunProofs ---------------------------
(***************************************************************************)
(* Proofs about a benchmark run over its output directory, for every set   *)
(* of domains, prompts, outputs and configurations, any number of failed   *)
(* calls and killed processes, and any number of processes one after       *)
(* another.                                                                *)
(***************************************************************************)
EXTENDS BenchmarkRun, TLAPS

Locked == {"collecting", "next", "optimizing", "storing", "evaluating", "caching", "summing"}
AtDomain == {"optimizing", "storing", "evaluating", "caching"}
Answering == {"evaluating", "caching"}

ShapeInv ==
  /\ artifact = [d \in Domains |-> artifact[d]]
  /\ evaluation = [d \in Domains |-> evaluation[d]]
  /\ answers = [ph \in Phases |-> answers[ph]]
  /\ pc \in AtDomain => domain \in Domains

\* Past the check of the manifest a process runs the configuration the
\* directory is locked to, and nothing was evaluated before the lock.
LockInv ==
  /\ pc # "idle" => config \in Configs
  /\ pc = "write manifest" => manifest = Null
  /\ pc \in Locked => config = manifest
  /\ manifest = Null => \A d \in Domains : evaluation[d] = Null

\* The answers a process holds are stored ones, but for the one it is about to
\* store, whose key is free.
AnswersInv ==
  LET Stored(ph) == Request(ph) \in DOMAIN cache /\ cache[Request(ph)] = answers[ph]
  IN /\ answers["judgement"] # Null => answers["execution"] # Null
     /\ pc \in {"optimizing", "storing"} => \A ph \in Phases : answers[ph] = Null
     /\ pc = "evaluating" => \A ph \in Phases : answers[ph] # Null => Stored(ph)
     /\ pc = "caching" => /\ answers[Caching] # Null /\ Request(Caching) \notin DOMAIN cache
                          /\ Caching = "judgement" => Stored("execution")

\* The domain under way has no evaluation, and its prompt is the stored one.
DomainInv ==
  /\ pc \in AtDomain => evaluation[domain] = Null
  /\ pc \in Answering => prompt = artifact[domain]

\* An evaluation was made under the lock, and what it was made from is stored.
Belongs(d, e) ==
  /\ e.config = manifest /\ e.prompt = artifact[d]
  /\ ExecutionKey(manifest, d, e.prompt) \in DOMAIN cache
  /\ e.output = cache[ExecutionKey(manifest, d, e.prompt)]
  /\ JudgementKey(d, e.prompt, e.output) \in DOMAIN cache
  /\ e.verdict = cache[JudgementKey(d, e.prompt, e.output)]

EvaluationsInv == \A d \in Domains : evaluation[d] # Null => Belongs(d, evaluation[d])

\* What a process knows of the directory.
KnownInv ==
  /\ \A d \in Domains : results[d] \in {Null, evaluation[d]}
  /\ pc \in Locked \ {"collecting"} => results = evaluation

BenchInv ==
  /\ ShapeInv /\ LockInv /\ AnswersInv /\ DomainInv
  /\ EvaluationsInv /\ KnownInv /\ SummaryIsTrue

------------------------------------------------------------------------------
(* Facts that every step uses.                                             *)

\* A step that leaves the disk alone takes back no evaluation.
LEMMA DiskStays ==
  ASSUME EvaluationsInv, UNCHANGED <<manifest, artifact, cache, evaluation>>
  PROVE  EvaluationsInv'
BY DEF EvaluationsInv, Belongs, ExecutionKey, JudgementKey

\* Neither does one that stores more under free keys.
LEMMA CacheGrows ==
  ASSUME EvaluationsInv, UNCHANGED <<manifest, artifact, evaluation>>,
         DOMAIN cache \subseteq DOMAIN cache', \A k \in DOMAIN cache : cache'[k] = cache[k]
  PROVE  EvaluationsInv'
<1> SUFFICES ASSUME NEW d \in Domains, evaluation[d] # Null
             PROVE  Belongs(d, evaluation[d])'
  BY DEF EvaluationsInv
<1>1. Belongs(d, evaluation[d])
  BY DEF EvaluationsInv
<1>2. QED
  BY <1>1 DEF Belongs, ExecutionKey, JudgementKey

\* A process that ended holds nothing, and may have stopped anywhere.
LEMMA EndKeeps ==
  ASSUME BenchInv, NEW how, End(how), how \notin {"passed", "failed"},
         UNCHANGED <<snapshot, manifest, artifact, cache, evaluation, summary>>
  PROVE  BenchInv'
<1>1. /\ pc' = "idle" /\ exit' = how
      /\ answers' = [ph \in Phases |-> Null] /\ results' = [d \in Domains |-> Null]
  BY DEF End, Goto, NoAnswers, NoResults
<1>2. ShapeInv' /\ LockInv'
  BY <1>1 DEF BenchInv, ShapeInv, LockInv, AtDomain, Locked
<1>3. AnswersInv'
  BY <1>1 DEF AnswersInv, Phases
<1>4. DomainInv' /\ KnownInv'
  BY <1>1 DEF DomainInv, KnownInv, AtDomain, Answering, Locked
<1>5. EvaluationsInv'
  BY DiskStays DEF BenchInv
<1>6. SummaryIsTrue'
  BY <1>1 DEF BenchInv, SummaryIsTrue
<1>7. QED
  BY <1>2, <1>3, <1>4, <1>5, <1>6 DEF BenchInv

LEMMA BenchInit == Init => BenchInv
<1> SUFFICES ASSUME Init PROVE BenchInv
  OBVIOUS
<1>1. /\ pc = "idle" /\ manifest = Null /\ summary = Null /\ exit = Null
      /\ artifact = [d \in Domains |-> Null] /\ evaluation = [d \in Domains |-> Null]
      /\ answers = [ph \in Phases |-> Null] /\ results = [d \in Domains |-> Null]
  BY DEF Init, NoAnswers, NoResults
<1>2. ShapeInv /\ LockInv
  BY <1>1 DEF ShapeInv, LockInv, AtDomain, Locked
<1>3. AnswersInv
  BY <1>1 DEF AnswersInv, Phases
<1>4. DomainInv /\ KnownInv /\ EvaluationsInv
  BY <1>1 DEF DomainInv, KnownInv, EvaluationsInv, AtDomain, Answering, Locked
<1>5. SummaryIsTrue
  BY <1>1, BenchAssumption DEF SummaryIsTrue
<1>6. QED
  BY <1>2, <1>3, <1>4, <1>5 DEF BenchInv

------------------------------------------------------------------------------
(* The lock.                                                               *)

LEMMA LaunchKeeps ==
  ASSUME BenchInv, NEW c \in Configs, NEW ds, Launch(c, ds)
  PROVE  BenchInv'
<1>1. /\ pc' = "snapshot" /\ config' = c
      /\ UNCHANGED <<manifest, artifact, cache, evaluation, summary, domain, prompt,
                     answers, results, exit>>
  BY DEF Launch, Goto, disk
<1>2. ShapeInv' /\ LockInv'
  BY <1>1 DEF BenchInv, ShapeInv, LockInv, AtDomain, Locked
<1>3. AnswersInv'
  BY <1>1 DEF BenchInv, AnswersInv
<1>4. DomainInv' /\ KnownInv'
  BY <1>1 DEF BenchInv, DomainInv, KnownInv, AtDomain, Answering, Locked
<1>5. EvaluationsInv'
  BY <1>1, DiskStays DEF BenchInv
<1>6. SummaryIsTrue'
  BY <1>1 DEF BenchInv, SummaryIsTrue
<1>7. QED
  BY <1>2, <1>3, <1>4, <1>5, <1>6 DEF BenchInv

\* A step of a process that is not at a domain, before and after, and writes
\* no more than a snapshot.
LEMMA EarlyKeeps ==
  ASSUME BenchInv, pc' \in {"write snapshot", "manifest", "write manifest", "collecting"},
         UNCHANGED <<artifact, cache, evaluation, summary, exit>>, UNCHANGED locals,
         LockInv', EvaluationsInv'
  PROVE  BenchInv'
<1>1. UNCHANGED <<config, domain, prompt, answers, results>>
  BY DEF locals
<1>2. ShapeInv'
  BY <1>1 DEF BenchInv, ShapeInv, AtDomain
<1>3. AnswersInv'
  BY <1>1 DEF BenchInv, AnswersInv
<1>4. DomainInv' /\ KnownInv'
  BY <1>1 DEF BenchInv, DomainInv, KnownInv, AtDomain, Answering, Locked
<1>5. SummaryIsTrue'
  BY DEF BenchInv, SummaryIsTrue
<1>6. QED
  BY <1>2, <1>3, <1>4, <1>5 DEF BenchInv

LEMMA CheckSnapshotKeeps == ASSUME BenchInv, CheckSnapshot PROVE BenchInv'
<1>1. CASE End("refused")
  <2>1. UNCHANGED <<snapshot, manifest, artifact, cache, evaluation, summary>>
    BY DEF CheckSnapshot, disk
  <2>2. QED
    BY <1>1, <2>1, EndKeeps
<1>2. CASE /\ pc = "snapshot" /\ pc' \in {"write snapshot", "manifest"}
           /\ UNCHANGED <<manifest, artifact, cache, evaluation, summary, exit>>
           /\ UNCHANGED locals
  <2>1. EvaluationsInv'
    BY <1>2, DiskStays DEF BenchInv
  <2>2. LockInv'
    BY <1>2 DEF BenchInv, LockInv, Locked, locals
  <2>3. QED
    BY <1>2, <2>1, <2>2, EarlyKeeps
<1>3. QED
  BY <1>1, <1>2 DEF CheckSnapshot, Goto, disk

LEMMA WriteSnapshotKeeps == ASSUME BenchInv, WriteSnapshot PROVE BenchInv'
<1>1. /\ pc = "write snapshot" /\ pc' = "manifest"
      /\ UNCHANGED <<manifest, artifact, cache, evaluation, summary, exit>>
      /\ UNCHANGED locals
  BY DEF WriteSnapshot, Goto
<1>2. EvaluationsInv'
  BY <1>1, DiskStays DEF BenchInv
<1>3. LockInv'
  BY <1>1 DEF BenchInv, LockInv, Locked, locals
<1>4. QED
  BY <1>1, <1>2, <1>3, EarlyKeeps

LEMMA CheckManifestKeeps == ASSUME BenchInv, CheckManifest PROVE BenchInv'
<1>1. CASE End("refused")
  <2>1. UNCHANGED <<snapshot, manifest, artifact, cache, evaluation, summary>>
    BY DEF CheckManifest, disk
  <2>2. QED
    BY <1>1, <2>1, EndKeeps
<1>2. CASE /\ pc = "manifest" /\ manifest \in {Null, config}
           /\ pc' = IF manifest = Null THEN "write manifest" ELSE "collecting"
           /\ UNCHANGED <<manifest, artifact, cache, evaluation, summary, exit>>
           /\ UNCHANGED locals
  <2>1. EvaluationsInv'
    BY <1>2, DiskStays DEF BenchInv
  <2>2. LockInv'
    BY <1>2 DEF BenchInv, LockInv, Locked, locals
  <2>3. QED
    BY <1>2, <2>1, <2>2, EarlyKeeps
<1>3. QED
  BY <1>1, <1>2 DEF CheckManifest, Compatible, Goto, disk

\* Nothing was evaluated before the directory is locked.
LEMMA WriteManifestKeeps == ASSUME BenchInv, WriteManifest PROVE BenchInv'
<1>1. /\ pc = "write manifest" /\ pc' = "collecting" /\ manifest' = config
      /\ UNCHANGED <<artifact, cache, evaluation, summary, exit>>
      /\ UNCHANGED locals
  BY DEF WriteManifest, Goto
<1>2. /\ \A d \in Domains : evaluation[d] = Null
      /\ config \in Configs /\ UNCHANGED config
  BY <1>1 DEF BenchInv, LockInv, locals
<1>3. EvaluationsInv'
  BY <1>1, <1>2 DEF EvaluationsInv
<1>4. LockInv'
  BY <1>1, <1>2 DEF LockInv, Locked
<1>5. QED
  BY <1>1, <1>3, <1>4, EarlyKeeps

------------------------------------------------------------------------------
(* The domains.                                                            *)

LEMMA CollectKeeps == ASSUME BenchInv, Collect PROVE BenchInv'
<1>1. /\ pc = "collecting" /\ pc' = "next" /\ results' = evaluation
      /\ UNCHANGED <<manifest, artifact, cache, evaluation, summary, config, domain, prompt,
                     answers, exit>>
  BY DEF Collect, Goto, disk
<1>2. ShapeInv' /\ LockInv'
  BY <1>1 DEF BenchInv, ShapeInv, LockInv, AtDomain, Locked
<1>3. AnswersInv'
  BY <1>1 DEF BenchInv, AnswersInv
<1>4. DomainInv' /\ KnownInv'
  BY <1>1 DEF BenchInv, DomainInv, KnownInv, AtDomain, Answering, Locked
<1>5. EvaluationsInv'
  BY <1>1, DiskStays DEF BenchInv
<1>6. SummaryIsTrue'
  BY <1>1 DEF BenchInv, SummaryIsTrue
<1>7. QED
  BY <1>2, <1>3, <1>4, <1>5, <1>6 DEF BenchInv

LEMMA NextDomainKeeps ==
  ASSUME BenchInv, NEW d \in Domains, NextDomain(d)
  PROVE  BenchInv'
<1>1. /\ pc = "next" /\ UNCHANGED <<manifest, artifact, cache, evaluation, summary, config, exit>>
      /\ results = evaluation /\ evaluation = [e \in Domains |-> evaluation[e]]
  BY DEF NextDomain, disk, BenchInv, KnownInv, Locked, ShapeInv
<1>2. EvaluationsInv'
  BY <1>1, DiskStays DEF BenchInv
<1>3. CASE evaluation[d] # Null
  <2>1. /\ results' = [evaluation EXCEPT ![d] = evaluation[d]]
        /\ UNCHANGED <<pc, domain, prompt, answers>>
    BY <1>1, <1>3 DEF NextDomain
  <2>2. results' = evaluation
    BY <1>1, <2>1
  <2>3. ShapeInv' /\ LockInv'
    BY <1>1, <2>1 DEF BenchInv, ShapeInv, LockInv, AtDomain, Locked
  <2>4. AnswersInv'
    BY <1>1, <2>1 DEF BenchInv, AnswersInv
  <2>5. DomainInv' /\ KnownInv'
    BY <1>1, <2>1, <2>2 DEF BenchInv, DomainInv, KnownInv, AtDomain, Answering, Locked
  <2>6. SummaryIsTrue'
    BY <1>1, <2>1 DEF BenchInv, SummaryIsTrue
  <2>7. QED
    BY <1>2, <2>3, <2>4, <2>5, <2>6 DEF BenchInv
<1>4. CASE evaluation[d] = Null
  <2>1. /\ domain' = d /\ prompt' = artifact[d] /\ UNCHANGED results
        /\ answers' = [ph \in Phases |-> Null] /\ pc' \in {"optimizing", "evaluating"}
    BY <1>4 DEF NextDomain, Begin, Goto, NoAnswers
  <2>2. ShapeInv' /\ LockInv'
    BY <1>1, <2>1 DEF BenchInv, ShapeInv, LockInv, AtDomain, Locked
  <2>3. AnswersInv'
    BY <2>1 DEF AnswersInv, Phases
  <2>4. DomainInv' /\ KnownInv'
    BY <1>1, <1>4, <2>1 DEF DomainInv, KnownInv, AtDomain, Answering, Locked
  <2>5. SummaryIsTrue'
    BY <1>1, <2>1 DEF BenchInv, SummaryIsTrue
  <2>6. QED
    BY <1>2, <2>2, <2>3, <2>4, <2>5 DEF BenchInv
<1>5. QED
  BY <1>3, <1>4

LEMMA OptimizeKeeps ==
  ASSUME BenchInv, NEW x, Optimize(x)
  PROVE  BenchInv'
<1>1. /\ pc = "optimizing" /\ pc' = "storing"
      /\ UNCHANGED <<manifest, artifact, cache, evaluation, summary, config, domain, answers,
                     results, exit>>
  BY DEF Optimize, Goto, disk
<1>2. ShapeInv' /\ LockInv'
  BY <1>1 DEF BenchInv, ShapeInv, LockInv, AtDomain, Locked
<1>3. AnswersInv'
  BY <1>1 DEF BenchInv, AnswersInv
<1>4. DomainInv' /\ KnownInv'
  BY <1>1 DEF BenchInv, DomainInv, KnownInv, AtDomain, Answering, Locked
<1>5. EvaluationsInv'
  BY <1>1, DiskStays DEF BenchInv
<1>6. SummaryIsTrue'
  BY <1>1 DEF BenchInv, SummaryIsTrue
<1>7. QED
  BY <1>2, <1>3, <1>4, <1>5, <1>6 DEF BenchInv

\* The artifact is replaced while the domain has no evaluation.
LEMMA StoreArtifactKeeps == ASSUME BenchInv, StoreArtifact PROVE BenchInv'
<1>1. /\ pc = "storing" /\ pc' = "evaluating"
      /\ artifact' = [artifact EXCEPT ![domain] = prompt]
      /\ UNCHANGED <<manifest, cache, evaluation, summary, config, domain, prompt, answers,
                     results, exit>>
  BY DEF StoreArtifact, Goto, locals
<1>2. /\ domain \in Domains /\ evaluation[domain] = Null
      /\ artifact = [d \in Domains |-> artifact[d]]
  BY <1>1 DEF BenchInv, ShapeInv, DomainInv, AtDomain
<1>3. /\ artifact'[domain] = prompt /\ artifact' = [d \in Domains |-> artifact'[d]]
      /\ \A d \in Domains \ {domain} : artifact'[d] = artifact[d]
  BY <1>1, <1>2
<1>4. ShapeInv' /\ LockInv'
  BY <1>1, <1>2, <1>3 DEF BenchInv, ShapeInv, LockInv, AtDomain, Locked
<1>5. AnswersInv'
  BY <1>1 DEF BenchInv, AnswersInv
<1>6. DomainInv' /\ KnownInv'
  BY <1>1, <1>2, <1>3 DEF BenchInv, DomainInv, KnownInv, AtDomain, Answering, Locked
<1>7. EvaluationsInv'
  BY <1>1, <1>2, <1>3 DEF BenchInv, EvaluationsInv, Belongs, ExecutionKey, JudgementKey
<1>8. SummaryIsTrue'
  BY <1>1 DEF BenchInv, SummaryIsTrue
<1>9. QED
  BY <1>4, <1>5, <1>6, <1>7, <1>8 DEF BenchInv

\* An answer is under the key it is looked up by: a stored one already, a new
\* one as soon as the process wrote it.
LEMMA RespondKeeps ==
  ASSUME BenchInv, NEW o \in Outputs, Respond(o)
  PROVE  BenchInv'
<1>1. /\ pc = "evaluating" /\ answers["judgement"] = Null /\ o # Null
      /\ answers' = [answers EXCEPT ![Phase] = o]
      /\ UNCHANGED <<manifest, artifact, cache, evaluation, summary, config, domain, prompt,
                     results, exit>>
      /\ \/ Wanted \in DOMAIN cache /\ o = cache[Wanted] /\ pc' = "evaluating"
         \/ Wanted \notin DOMAIN cache /\ pc' = "caching"
  BY BenchAssumption DEF Respond, Keep, Hit, Goto, Evaluated, disk
<1>2. answers = [ph \in Phases |-> answers[ph]]
  BY DEF BenchInv, ShapeInv
<1>3. ShapeInv' /\ LockInv'
  <2>1. answers' = [ph \in Phases |-> answers'[ph]]
    BY <1>1, <1>2
  <2>2. QED
    BY <1>1, <2>1 DEF BenchInv, ShapeInv, LockInv, AtDomain, Locked
<1>4. AnswersInv'
  <2>1. CASE Phase = "execution"
    <3>1. answers'["execution"] = o /\ answers'["judgement"] = Null
      BY <1>1, <1>2, <2>1 DEF Phases
    <3>2. Request("execution")' = Wanted
      BY <1>1, <2>1 DEF Wanted, Request, ExecutionKey
    <3>3. Caching' = "execution"
      BY <3>1 DEF Caching
    <3>4. QED
      BY <1>1, <3>1, <3>2, <3>3 DEF AnswersInv, Phases
  <2>2. CASE Phase = "judgement"
    <3>1. /\ answers'["execution"] = answers["execution"] /\ answers'["judgement"] = o
          /\ answers["execution"] # Null
      BY <1>1, <1>2, <2>2 DEF Phases, Phase
    <3>2. Request("judgement")' = Wanted /\ Request("execution")' = Request("execution")
      BY <1>1, <2>2, <3>1 DEF Wanted, Request, ExecutionKey, JudgementKey
    <3>3. Caching' = "judgement"
      BY <1>1, <3>1 DEF Caching
    <3>4. Request("execution") \in DOMAIN cache
          /\ cache[Request("execution")] = answers["execution"]
      BY <1>1, <3>1 DEF BenchInv, AnswersInv, Phases
    <3>5. QED
      BY <1>1, <3>1, <3>2, <3>3, <3>4 DEF AnswersInv, Phases
  <2>3. QED
    BY <2>1, <2>2 DEF Phase
<1>5. DomainInv' /\ KnownInv'
  BY <1>1 DEF BenchInv, DomainInv, KnownInv, AtDomain, Answering, Locked
<1>6. EvaluationsInv'
  BY <1>1, DiskStays DEF BenchInv
<1>7. SummaryIsTrue'
  BY <1>1 DEF BenchInv, SummaryIsTrue
<1>8. QED
  BY <1>3, <1>4, <1>5, <1>6, <1>7 DEF BenchInv

LEMMA StoreKeeps == ASSUME BenchInv, Store PROVE BenchInv'
<1>1. PICK k : k = Request(Caching)
  OBVIOUS
<1>2. /\ pc = "caching" /\ pc' = "evaluating" /\ cache' = Put(cache, k, answers[Caching])
      /\ UNCHANGED <<manifest, artifact, evaluation, summary, config, domain, prompt, answers,
                     results, exit>>
  BY <1>1 DEF Store, Goto, locals
<1>3. /\ answers[Caching] # Null /\ k \notin DOMAIN cache
      /\ Caching = "judgement" => /\ Request("execution") \in DOMAIN cache
                                  /\ cache[Request("execution")] = answers["execution"]
  BY <1>1, <1>2 DEF BenchInv, AnswersInv
<1>4. /\ DOMAIN cache' = DOMAIN cache \cup {k} /\ cache'[k] = answers[Caching]
      /\ \A j \in DOMAIN cache : cache'[j] = cache[j]
  <2>1. PICK f, v : f = cache /\ v = answers[Caching]
    OBVIOUS
  <2>2. /\ DOMAIN Put(f, k, v) = DOMAIN f \cup {k} /\ Put(f, k, v)[k] = v
        /\ \A j \in DOMAIN f \ {k} : Put(f, k, v)[j] = f[j]
    BY DEF Put
  <2>3. QED
    BY <1>2, <1>3, <2>1, <2>2
<1>5. ShapeInv' /\ LockInv'
  BY <1>2 DEF BenchInv, ShapeInv, LockInv, AtDomain, Locked
<1>6. AnswersInv'
  <2>1. Request("execution")' = Request("execution")
        /\ Request("judgement")' = Request("judgement")
    BY <1>2 DEF Request, ExecutionKey, JudgementKey
  <2>2. CASE Caching = "judgement"
    BY <1>1, <1>2, <1>3, <1>4, <2>1, <2>2 DEF BenchInv, AnswersInv, Phases
  <2>3. CASE Caching = "execution"
    <3>1. answers["judgement"] = Null
      BY <2>3 DEF Caching
    <3>2. QED
      BY <1>1, <1>2, <1>4, <2>1, <2>3, <3>1 DEF AnswersInv, Phases
  <2>4. QED
    BY <2>2, <2>3 DEF Caching
<1>7. DomainInv' /\ KnownInv'
  BY <1>2 DEF BenchInv, DomainInv, KnownInv, AtDomain, Answering, Locked
<1>8. EvaluationsInv'
  BY <1>2, <1>4, CacheGrows DEF BenchInv
<1>9. SummaryIsTrue'
  BY <1>2 DEF BenchInv, SummaryIsTrue
<1>10. QED
  BY <1>5, <1>6, <1>7, <1>8, <1>9 DEF BenchInv

\* What an evaluation is made from is what the process has stored.
LEMMA StoreEvaluationKeeps == ASSUME BenchInv, StoreEvaluation PROVE BenchInv'
<1>1. PICK r : r = Result
  OBVIOUS
<1>2. /\ pc = "evaluating" /\ pc' = "summing" /\ answers["judgement"] # Null
      /\ evaluation' = [evaluation EXCEPT ![domain] = r]
      /\ results' = [results EXCEPT ![domain] = r]
      /\ UNCHANGED <<manifest, artifact, cache, summary, config, domain, prompt, answers, exit>>
  BY <1>1 DEF StoreEvaluation, Goto, Evaluated
<1>3. /\ domain \in Domains /\ evaluation = [d \in Domains |-> evaluation[d]]
      /\ results = evaluation /\ evaluation[domain] = Null /\ prompt = artifact[domain]
      /\ config = manifest /\ config \in Configs
  BY <1>2 DEF BenchInv, ShapeInv, LockInv, DomainInv, KnownInv, AtDomain, Answering, Locked
<1>4. /\ evaluation'[domain] = r /\ evaluation' = [d \in Domains |-> evaluation'[d]]
      /\ \A d \in Domains \ {domain} : evaluation'[d] = evaluation[d]
      /\ results' = evaluation'
  BY <1>2, <1>3
<1>5. Belongs(domain, r)
  <2>1. /\ r.config = config /\ r.prompt = prompt /\ r.output = answers["execution"]
        /\ r.verdict = answers["judgement"]
    BY <1>1 DEF Result
  <2>2. \A ph \in Phases : Request(ph) \in DOMAIN cache /\ cache[Request(ph)] = answers[ph]
    BY <1>2 DEF BenchInv, AnswersInv, Phases
  <2>3. /\ Request("execution") = ExecutionKey(manifest, domain, r.prompt)
        /\ Request("judgement") = JudgementKey(domain, r.prompt, r.output)
    BY <1>3, <2>1 DEF Request
  <2>4. QED
    BY <1>3, <2>1, <2>2, <2>3 DEF Belongs, Phases
<1>6. EvaluationsInv'
  <2> SUFFICES ASSUME NEW d \in Domains, evaluation'[d] # Null
               PROVE  Belongs(d, evaluation[d])'
    BY DEF EvaluationsInv
  <2>1. Belongs(d, evaluation'[d])
    BY <1>4, <1>5 DEF BenchInv, EvaluationsInv
  <2>2. QED
    BY <1>2, <2>1 DEF Belongs, ExecutionKey, JudgementKey
<1>7. ShapeInv' /\ LockInv'
  <2>1. manifest # Null
    BY <1>3, BenchAssumption
  <2>2. QED
    BY <1>2, <1>4, <2>1 DEF BenchInv, ShapeInv, LockInv, AtDomain, Locked
<1>8. AnswersInv'
  BY <1>2 DEF BenchInv, AnswersInv
<1>9. DomainInv' /\ KnownInv'
  BY <1>2, <1>4 DEF DomainInv, KnownInv, AtDomain, Answering, Locked
<1>10. SummaryIsTrue'
  BY <1>2, <1>3, <1>4 DEF BenchInv, SummaryIsTrue
<1>11. QED
  BY <1>6, <1>7, <1>8, <1>9, <1>10 DEF BenchInv

LEMMA WriteSummaryKeeps == ASSUME BenchInv, WriteSummary PROVE BenchInv'
<1>1. /\ pc = "summing" /\ pc' = "next" /\ summary' = results
      /\ UNCHANGED <<manifest, artifact, cache, evaluation, config, domain, prompt, answers,
                     results, exit>>
  BY DEF WriteSummary, Goto, locals
<1>2. ShapeInv' /\ LockInv'
  BY <1>1 DEF BenchInv, ShapeInv, LockInv, AtDomain, Locked
<1>3. AnswersInv'
  BY <1>1 DEF BenchInv, AnswersInv
<1>4. DomainInv' /\ KnownInv'
  BY <1>1 DEF BenchInv, DomainInv, KnownInv, AtDomain, Answering, Locked
<1>5. EvaluationsInv'
  BY <1>1, DiskStays DEF BenchInv
<1>6. SummaryIsTrue'
  BY <1>1 DEF BenchInv, KnownInv, SummaryIsTrue
<1>7. QED
  BY <1>2, <1>3, <1>4, <1>5, <1>6 DEF BenchInv

\* A process that reached its last domain knows every evaluation there is.
LEMMA FinishKeeps == ASSUME BenchInv, Finish PROVE BenchInv'
<1>1. /\ pc = "next" /\ pc' = "idle" /\ summary' = results
      /\ answers' = [ph \in Phases |-> Null] /\ results' = [d \in Domains |-> Null]
      /\ UNCHANGED <<manifest, artifact, cache, evaluation>>
  BY DEF Finish, End, Goto, NoAnswers, NoResults
<1>2. results = evaluation
  BY <1>1 DEF BenchInv, KnownInv, Locked
<1>3. ShapeInv' /\ LockInv'
  BY <1>1 DEF BenchInv, ShapeInv, LockInv, AtDomain, Locked
<1>4. AnswersInv'
  BY <1>1 DEF AnswersInv, Phases
<1>5. DomainInv' /\ KnownInv'
  BY <1>1 DEF DomainInv, KnownInv, AtDomain, Answering, Locked
<1>6. EvaluationsInv'
  BY <1>1, DiskStays DEF BenchInv
<1>7. SummaryIsTrue'
  BY <1>1, <1>2 DEF SummaryIsTrue
<1>8. QED
  BY <1>3, <1>4, <1>5, <1>6, <1>7 DEF BenchInv

LEMMA TroubleKeeps == ASSUME BenchInv, CallFails \/ Kill PROVE BenchInv'
<1>1. /\ End("error") \/ End("killed")
      /\ UNCHANGED <<snapshot, manifest, artifact, cache, evaluation, summary>>
  BY DEF CallFails, Kill, disk
<1>2. QED
  BY <1>1, EndKeeps

LEMMA StutterKeeps == ASSUME BenchInv, UNCHANGED vars PROVE BenchInv'
<1>1. UNCHANGED <<manifest, artifact, cache, evaluation, summary, pc, config, domain, prompt,
                  answers, results, exit>>
  BY DEF vars, disk, locals
<1>2. ShapeInv' /\ LockInv'
  BY <1>1 DEF BenchInv, ShapeInv, LockInv
<1>3. AnswersInv'
  BY <1>1 DEF BenchInv, AnswersInv, Request, ExecutionKey, JudgementKey, Caching
<1>4. DomainInv' /\ KnownInv'
  BY <1>1 DEF BenchInv, DomainInv, KnownInv
<1>5. EvaluationsInv'
  BY <1>1, DiskStays DEF BenchInv
<1>6. SummaryIsTrue'
  BY <1>1 DEF BenchInv, SummaryIsTrue
<1>7. QED
  BY <1>2, <1>3, <1>4, <1>5, <1>6 DEF BenchInv

------------------------------------------------------------------------------
(* What holds in every run.                                                *)

\* However often the process fails or is killed and is started again, what it
\* holds and what is on disk are pieces of one run.
THEOREM BenchInvariant == Spec => []BenchInv
<1>1. BenchInv /\ [Next]_vars => BenchInv'
  <2> SUFFICES ASSUME BenchInv, [Next]_vars PROVE BenchInv'
    OBVIOUS
  <2>1. CASE \E c \in Configs, ds \in SUBSET Domains \ {{}} : Launch(c, ds)
    BY <2>1, LaunchKeeps
  <2>2. CASE CheckSnapshot \/ WriteSnapshot \/ CheckManifest \/ WriteManifest
    BY <2>2, CheckSnapshotKeeps, WriteSnapshotKeeps, CheckManifestKeeps, WriteManifestKeeps
  <2>3. CASE Collect \/ \E d \in Domains : NextDomain(d)
    BY <2>3, CollectKeeps, NextDomainKeeps
  <2>4. CASE (\E x \in Prompts : Optimize(x)) \/ StoreArtifact
    BY <2>4, OptimizeKeeps, StoreArtifactKeeps
  <2>5. CASE (\E o \in Outputs : Respond(o)) \/ Store
    BY <2>5, RespondKeeps, StoreKeeps
  <2>6. CASE StoreEvaluation \/ WriteSummary \/ Finish
    BY <2>6, StoreEvaluationKeeps, WriteSummaryKeeps, FinishKeeps
  <2>7. CASE CallFails \/ Kill
    BY <2>7, TroubleKeeps
  <2>8. CASE UNCHANGED vars
    BY <2>8, StutterKeeps
  <2>9. QED
    BY <2>1, <2>2, <2>3, <2>4, <2>5, <2>6, <2>7, <2>8 DEF Next, Work
<1>2. QED
  BY <1>1, BenchInit, PTL DEF Spec

\* An evaluation of the directory was made under its manifest, for the stored
\* artifact and from stored answers, whichever processes made the three
\* (ensure_run_manifest, CachedCodexExecutor, CachedCodexBlindJudge).
THEOREM EvaluationsBelong == Spec => []EvaluationBelongs
<1>1. BenchInv => EvaluationBelongs
  BY DEF BenchInv, EvaluationsInv, Belongs, EvaluationBelongs
<1>2. QED
  BY <1>1, BenchInvariant, PTL

\* The summary reports evaluations as they are on disk, and all of them after
\* a run that ended with an exit code (build_summary).
THEOREM SummariesAreTrue == Spec => []SummaryIsTrue
<1>1. BenchInv => SummaryIsTrue
  BY DEF BenchInv
<1>2. QED
  BY <1>1, BenchInvariant, PTL

\* No step pays for a call whose answer is stored, in this process or a later
\* one (the cache lookups of codex_evaluation.py).
THEOREM StoredIsPaidOnce == Spec => StoredIsNotPaidAgain
<1>1. [Next]_vars => [\A k \in DOMAIN cache : Paid(k)' = Paid(k)]_vars
  <2> SUFFICES ASSUME Next PROVE \A k \in DOMAIN cache : Paid(k)' = Paid(k)
    OBVIOUS
  <2>1. CASE UNCHANGED paid
    BY <2>1 DEF Paid
  <2>2. CASE ~UNCHANGED paid
    <3>1. /\ Wanted \notin DOMAIN cache
          /\ paid' = Put(paid, Wanted, Paid(Wanted) + 1)
      BY <2>2 DEF Next, Work, Launch, CheckSnapshot, WriteSnapshot, CheckManifest,
         WriteManifest, Collect, NextDomain, Optimize, StoreArtifact, Respond, Hit, Store,
         StoreEvaluation, WriteSummary, Finish, CallFails, Kill
    <3>2. PICK f, k, v : f = paid /\ k = Wanted /\ v = Paid(Wanted) + 1
      OBVIOUS
    <3>3. /\ DOMAIN Put(f, k, v) = DOMAIN f \cup {k}
          /\ \A j \in DOMAIN f \ {k} : Put(f, k, v)[j] = f[j]
      BY DEF Put
    <3>4. \A j \in DOMAIN cache : j # k
      BY <3>1, <3>2
    <3>5. QED
      BY <3>1, <3>2, <3>3, <3>4 DEF Paid
  <2>3. QED
    BY <2>1, <2>2
<1>2. QED
  BY <1>1, PTL DEF Spec, StoredIsNotPaidAgain
==============================================================================
