# Prompt Performance Engine: a TLA+ model of the evidence and execution core

This directory specifies, model-checks and proves parts of
`prompt-performance-engine`. Paths below are relative to
`src/src/prompt_performance_engine/` unless they say otherwise.

The engine optimizes prompts, executes and grades the result, and gathers
evidence good enough to publish a claim from. Most of its code validates
documents. What is hard to test is the rest: a budget shared by threads, a host
that runs paid provider calls under it, a job service that restarts, files
published without overwriting, containers that must be killed in time. The
project starts with those, and goes on to the decisions that evidence is built
from, because they are taken over files that are made anew at any time.

## 1. Inventory

| Component | Code | State it keeps | Operations | What is hard |
|---|---|---|---|---|
| Budget ledger | `frontier_budget.py` | consumed totals, active reservations, used ids, events, cancellations, rejections, breach flag | `reserve`, `cancel_before_call`, `settle`, `snapshot` | concurrent reservations against one ceiling; a `settle` that charges and then raises |
| Execution host | `frontier_host.py` | used slots, places per component, receipts, reports, the ledger | `execute_attempt`, `snapshot`, the manifest | six critical sections and a provider call per attempt, interrupts between any two |
| Job service | `service.py` | SQLite job table, artifact files, in-memory queue, worker thread | `submit`, `_work`, `stop`, recovery at start | crashes between commits; retries with the same key |
| Authority files | `frontier_io.py` | a directory of artifacts, temporary files, hard links | `write_authority_artifact` | concurrent writers, rollback of a published name |
| Adapters | `adapters.py` | attempt counter, cancellation token, one answer queue per call | `complete`, `cancel` | retries, late answers, cancellation while sleeping |
| Sandbox | `software_sandbox.py` | one container | `run_script` | timeout against normal exit, removal on every path |
| Benchmark runs | `src/scripts/run_codex_benchmark.py`, `codex_evaluation.py` | snapshot, manifest, per-domain results, response cache | a resumable loop over domains | crash and resume, stale caches |
| Runtime | `runtime.py`, `validation.py` | candidates, calls and selection of one request | `optimize` | at most one repair, indices that change base |
| Compilation | `compiler.py`, `evidence.py` | none | texts and levels | pure |
| Evaluation | `evaluation.py`, `evidence.py` | the records of a suite, `evaluation.json` | `evaluate_suite`, `validate_evaluation` | labels placed anew per case, a verdict derived twice in two ways |
| Replicates | `benchmark_replicates.py` | run directories, detached reports | aggregation, the E3 claim, rebuilding a report from its sources | directories filled again, responses counted twice, harm in one run |
| Campaign contracts | `frontier_contracts.py` | the plan and the files it refers to by digest | load and validate a bundle | revisions written while others are read; sums made by different people |
| Campaign preflight | `frontier_preflight.py` | the report it issues | `run_frontier_preflight` | plan, files, clock and authorities are asked one after the other |
| Campaign reporting | `frontier_reporting.py` | a report, a claim inventory | derive a status, build a report, validate claims | a status derived again by everybody who validates, from authorities that come and go |
| Campaign replay | `frontier_replay.py` | a reproduction plan, replays, a reproduction set | `run_frontier_offline_replay`, `build_frontier_reproduction_set` | inputs of several revisions; three operators at three times |
| Reviews | `human_review.py`, `image_review.py` | packets, keys, submissions, reports: all files | blind packets, counting of votes, adjudication, E4 | a packet made anew between answer and count, position bias |
| Readiness | `readiness.py` | none, reads all of the above | the gate R01 to R10 | sources replaced since the report was made |
| Command line, hashing, release checks | `cli.py`, `hashing.py`, ... | none | encoding and output | nothing a model would add to |

How they interact. The *host* owns a *ledger* and calls it under the ledger's
own lock, never while it holds its own lock except in `snapshot`. A host is
built from a *preflight* report and a frozen *plan*; its *manifest* is one of the
files that a *reproduction plan* pins and a *replay* holds a top-tier *report* to. The *job service* calls the *runtime*,
which calls an *adapter*. *Benchmark runs* call *evaluation*, which calls
adapters and, for software cases, the *sandbox*. *Replicates* reads the directories
of several benchmark runs; *human review* shows outputs of the runs behind an E3
report; *image review* does the same for images; *readiness* follows these reports back to
the files they were made from.
They meet only in files: each report binds its sources by digest, and nothing but
a later comparison notices that a source has changed.

What makes each component correct:

- ledger: a ceiling is never passed by reservations; every attempt is charged
  once; a breach is final and has evidence;
- host: a slot is called at most once and only when funded; a manifest is
  accepted if and only if it tells the whole truth of a run inside its budget;
- service: an answered job survives, is run, ends once, and is shown as
  succeeded only with its artifact;
- authority files: a name that was published is never changed, and a writer that
  reported success finds its content there;
- adapters, sandbox, benchmark: an attempt bound, no late answer used, nothing
  left running, no stale result reused;
- evaluation: a verdict is about the outputs and not about their places, a gate
  that passes hides no harm, and what the validator accepts is what the evaluator
  would have said;
- campaign: a provider is called only after a passed preflight inside its window, a
  frozen budget suffices, and what three operators replayed as top tier is one
  campaign with independent evidence;
- replicates, reviews, readiness: E3 counts separate runs that agree, E4 counts
  what people preferred when they looked, and a complete assessment stands on one
  chain of runs.

## 2. Modules

| Module | Models | Extends / instances |
|---|---|---|
| `HardCeiling` | what the ledger promises: an abstract account with an amount spent, an amount held and a gate | |
| `BudgetLedger` | `BudgetLedger` of `frontier_budget.py`, one action per method | instances `HardCeiling` |
| `AttemptOnce` | what the host promises: each slot is called, charged and answered at most once, and a schedule is sealed for good | |
| `FrontierHost` | `execute_attempt`, `_claim_slot`, `_release_slot`, `_record`, `snapshot`, and the checks of the manifest | extends `BudgetLedger`, instances `AttemptOnce` |
| `FrontierHostProofs` | proofs about the ledger, then about the host | extends `FrontierHost` |
| `JobTable` | what the service promises about each key: one request for good, statuses in order, one end, success with its artifact | |
| `JobService` | `JobStore`, `ArtifactStore`, `OptimizationService` | instances `JobTable` |
| `JobServiceProofs` | proofs about `JobService` | extends it |
| `WriteOnce` | what a published authority file promises while nothing fails: bytes are given once and never change | |
| `AuthorityFile` | `write_authority_artifact` of `frontier_io.py` over a shared directory | instances `WriteOnce` |
| `AuthorityFileProofs` | proofs about `AuthorityFile` | extends it |
| `HttpAdapter` | one call of `OpenAIResponsesAdapter.complete` with its sender threads | |
| `CommandAdapter` | one call of `CodexExecAdapter.complete` or, with `codex` false, of `ExternalCommandAdapter.complete` | |
| `SandboxRun` | `DockerSandbox.run_script` as a verifier calls it | |
| `SoftwareCase` | `evaluate_case` for a software case: two adapter calls, then two sandbox runs | instances `CommandAdapter`, `SandboxRun` |
| `BenchmarkRun` | `run_codex_benchmark.py` over its output directory, with the caches of `codex_evaluation.py` | |
| `BenchmarkRunProofs` | proofs about `BenchmarkRun` | extends it |
| `Optimize` | `optimize` of `runtime.py` over the adapter, with the structural part of `validation.py` | extends `HttpAdapter` |
| `AdapterProofs` | proofs about a software case, then about a request over HTTP | extends `SoftwareCase` and `Optimize` |
| `Evaluation` | `evaluate_suite`, `evaluate_case` and `validate_evaluation` | |
| `EvaluationProofs` | proofs about `Evaluation` | extends it |
| `Replicates` | run directories and `benchmark_replicates.py` | |
| `HumanReview` | `human_review.py` over the files of its reviewers | extends `Replicates` |
| `ImageReview` | `image_review.py` over image files, packets, keys and submissions | extends `HumanReview` |
| `Readiness` | R03, R04, R06 and R07 of `assess_readiness`, over everything they follow | extends `ImageReview` |
| `ReadinessProofs` | proofs about replicates, both reviews and readiness | extends `Readiness` |
| `CampaignContracts` | the frozen bundle of a campaign and what is asked of it | |
| `Preflight` | `run_frontier_preflight` | extends `CampaignContracts` |
| `Execution` | the host's constructor, its attempts as one thread makes them, the execution bundle | extends `Preflight` |
| `Reporting` | items of evidence, the status, reports and claims | extends `Execution` |
| `Replay` | reproduction plan, replays, reproduction set | extends `Reporting` |
| `Campaign` | all of these as one system, and its properties | extends `Replay` |
| `CampaignProofs` | proofs about a campaign, from contracts to replays | extends `Campaign` |
| `MC...` | constants for TLC | extend the module they check |

Every property module holds, next to the definition it could be mistaken for,
an operator commented "Slip": the same definition with a plausible mistake. The
mutation runs put each slip in place of the real definition and expect the
property named for it to be violated.

### BudgetLedger

Each method runs under `self._lock`, so each is one action. `reserve` is split
by its outcome: `Reserve` returns a receipt, `Reject` records a rejection and
raises; its two early errors (`id` used, ledger breached) change nothing and are
stuttering steps. `settle` is one action although it may raise, because it
charges first. The secret reservation token is the caller's knowledge: a
reservation has a `holder`, and only the holder settles or cancels it.
A sum of amounts (`_sum_amounts`) is the number of unit tokens it stands for;
this makes sums provable without induction over data.

### FrontierHost

`execute_attempt` is cut at every lock acquisition and around the provider call:

| Location | Code | Leaves by |
|---|---|---|
| `idle` | | `Admit` (897-939: expiry, metadata, text, clock) |
| `admitted` | `_claim_slot` | `ClaimSlot`, `RefuseSlot` |
| `claimed` | `ledger.reserve` in its `try` | `ReserveBudget`, `ReserveFails`, `ReserveInterrupted` |
| `releasing` | `_release_slot` | `ReleaseSlot` |
| `reserved` | building the request | `Dispatch` |
| `calling` | the `try` around the call | `CallAttested`, `CallReplayed`, `CallUnverified`, `CallRaises`, `CallInterrupted`, `AttestedInterrupted` |
| `settling` | charge and `ledger.settle` | `SettleAttempt` |
| `recording` | `_build_report`, `_record`, return | `Record` |

`Unwind` is an interrupt outside a `try`: it abandons the thread's work where it
is. An interrupt inside a ledger method (between two lines of a critical
section) is not modelled: the ledger's methods stay atomic. A snapshot is two
steps, as in the code: the reports under the host's lock, then the ledger under
its own, with the host's lock held throughout (`snap # Null`). The manifest is
built from it in the second step.

The validation of documents is reduced to what the host's state can make true or
false: fields that the host copies from its own frozen inputs (digests,
identifiers, timestamps) always match and are left out.

`ImplementsAttemptOnce` maps a slot's `called` to the provider calls made for it, its
`charge` to what its event in the ledger says of the limits (`Charges`), its `answer`
to what its report releases or withholds (`Answers`), and `sealed` to an accepted
manifest. An attempt may exceed a limit it did not cause: its charge is inside its own
reservation while an earlier overrun has already filled the campaign's ceiling. The
abstract schedule withholds that output too, and the code does, because `settle` raises
for either reason.

### JobService

A job is its idempotency key (the column is unique and submissions carry one).
Each store call is a transaction, so an action. The table and artifact files
survive; `Vanish` is what a crash takes away: the queue, the worker's locals and
the requests being served. `Recover` and `StartWorker` are the constructor;
`Create`, `Enqueue`, `Replay` and `SubmitFails` are `submit`; the rest is the
worker's loop. `Fault` is an exception of one iteration, `WorkerDies` an
exception of the handler itself. Nothing in the code prevents a second instance
over the same store, so `Recover` may start one beside the first; `overlapped`
remembers that it happened, and `dropped` the jobs whose submission ended in an
error after their row was committed.

`ImplementsJobTable` maps a job to the request and status a client is shown (`View`,
`Shown`), `stored` to the artifact files, `answered` to the submissions that were
accepted, and `alone` to "no two instances have overlapped". The table has two kinds of
steps: orderly ones, each an operation on one key or a restart, and those after an
overlap, of which it says only what no overlap may break.

### AuthorityFile

A writer is cut at each system call another writer can see: stage, link,
compare, revalidate, remove. `created`, `identity` and `data` are its locals.
Inode numbers return to the file system when no name holds them, so an identity
check that compares numbers can be wrong only for that reason, and the model lets
it be. The `lstat` and `unlink` of `_safe_unlink_owned` are one action; a
replacement of the name between the two is not modelled. A success counts as
reported where the final revalidation accepts it. `Remove` and `Plant` are
somebody outside the program who replaces the name; `Relink` frees an inode when
its last name goes. `ImplementsWriteOnce` maps the register's `clean` to "no system
call failed and nobody else touched the name", and holds through any crashes.

### Adapters

In `HttpAdapter` each attempt has a sender thread and a queue of its own; the
caller polls queue, token and clock, and each poll is an action. An abandoned
sender goes on and may answer at any later time. In `CommandAdapter` the child
process, its helpers (which keep its pipes open), the temporary output file and
a `KeyboardInterrupt` are the environment; `codex` is chosen at the start and
tells the two adapters apart.

### SandboxRun

Each docker command is one action with the outcomes success, error and timeout.
A timed-out command leaves its request in `late`: the daemon may still carry it
out. `_run_restricted` of `software_execution.py` decides what the verifier gets.

### SoftwareCase

Instances of `CommandAdapter` and `SandboxRun` one after the other in one thread:
`NextCall` and `NextCheck` reset what a new call or container starts with, and keep
what lives longer: the token, the adapter, and what an interrupt left behind. A
container that the daemon creates too late for a check has that check's random
name and is not followed into the next one: `ResultMeansRemoved` is about the
check that returned. An exception anywhere abandons the case; a removal that was not
proven is an error, and so a failed check after which the next one runs.

### BenchmarkRun

A file is replaced atomically by the code, so a write is one action; looking
whether a file exists and writing it are two. `Kill` takes the locals away at any
point, `CallFails` writes a failure report and ends the run. A cached response is
keyed by what the code hashes into the key. The two judges are one judgement, and
a domain's cases one execution: they differ in number only. One process runs at a
time.

### Optimize

A response is what the parsers make of it. `Build` is `_artifact`, `Validate` the
validation that follows; the validator is written from `validation.py`, not from
`Build`, so that the two can disagree. Every model call of a request is a whole
call of `HttpAdapter`: `StartCall` resets its variables, `Called` reads its outcome,
and one cancellation token serves all of them. Threads that an earlier call
abandoned hold queues of that call only, so nothing of them is kept.

### Evaluation

One case at a time: `Execute` runs both sides and their hard checks, `Judge` asks
the next judge, `Decide` makes the case's record, `Conclude` sums up and writes.
`CallRaises` abandons the suite. A judge has an opinion of the two outputs, which
`opinions` remembers; what the code sees is that opinion in labels
(`DecisionOn`), and it maps it back. The properties speak of opinions only, so they
do not follow from the mapping. `Rewrite` is another writer of `evaluation.json`:
one record or one sum is changed, everything else is made consistent with it. The
validator (`Accepts`) is written from `_validate_evaluation`, which derives the
verdict by code of its own. Not modelled: the recorded inputs and their hashes,
which no writer can change without a digest failing, and sums per domain.

### Replicates, HumanReview and Readiness

One state machine in three modules, each of which adds the files of its component.
`Execute` and `Replay` fill a run directory, also one in use; a replay answers
another id from responses that were already used, as a cache that is copied along
does. A run's response ids and receipts are one token (`calls`). `Aggregate` writes
a detached report over some directories, with or without a receipt verifier.
`E3Claim` is what a reader of the report alone can check, `E3Authority` what it can
check with the directories.

`CreatePacket` makes a reviewer's packet and then, by a second write that may not
happen, its key; it may be made anew at any time. `Submit` writes answers to the
packet in hand, from a `view` the properties look at and the code never sees; a
reviewer with the view "first" answers with the position. `AggregateHuman` reads
packets, keys and submissions as they are then. An adjudicator may decide the cases
that are tied, none of them, or some.

`ImageReview` has image files that are generated anew over one another, the manifest
that registers them, and packets, keys and submissions as above. An image is named by
its generation, so an image copied over another is told from a second one. The
delivered copies lie under names made with a fresh secret (`_blind_asset_path`) and are
compared with the digests before the packet is written, so a packet on disk stands
for the images that were shown; what happens to a reviewer's copies later is not
modelled. A report is made once; `VisualAuthority` makes it again. The two verifiers
(generation receipts, reviewer receipts) are there or missing together.

`Readiness` adds no action: `assess_readiness` reads and writes nothing that a
later step reads, so `Complete` is an operator and `CompleteIsOneChain` quantifies
over every assessment that could be made in a state: every report, every set of
source directories and every plan. The other requirements (R01, R02, R05, R08
to R10) each read artifacts of one kind and are taken to hold, which only makes
`Complete` true more often.

Images and benchmark directories share no file, so a behaviour changes the ones or the
others, never both (the guards of `Next`, a bound on the interleavings).

### The campaign

A bundle (plan, policy, commitment) is named by its digest, and `Contents` gives what
it says: a record with what the validators compare. The model has revisions of one
campaign, written over each other on disk at any time. Each stage is handed files by
people, so it may be handed what another revision produced; the code's own checks are
all that keeps revisions apart.

| Action | Code |
|---|---|
| `LoadPlan`, `LoadFiles`, `AskClock`, `AskAuthorities` | `run_frontier_preflight` in the order of its early returns |
| `ConstructHost` | `FrontierExecutionHost.__init__`: the ceilings and components are arguments of the caller |
| `EnterAttempt`, `SettleAttempt` | `execute_attempt` before and after the call, one thread, one axis of the ledger |
| `TakeManifest` | `build_frontier_execution_manifest` |
| `BuildReport`, `WriteInventory` | `build_frontier_report`, and the claims' author |
| `FreezePlan`, `ReplayReport`, `ReplayEvidence` | the reproduction plan, `run_frontier_offline_replay` in two steps |
| `BuildReproduction` | `build_frontier_reproduction_set` |
| `EditPlan`, `EditFiles`, `Tick`, `AuthorityChanges` | people, time and authorities |

A verifier is an authority that answers with a receipt, or none, or one that somebody
else issued. What an item of evidence, a claim or an input may have wrong is a set of
variants (`ItemVariants`, `ClaimChoices`, `Answers`, `MeasuredChoices`). `Regular`
counts: a behaviour has at most `MaxFaults` irregular steps in all.

What the code leaves to its caller shows in the model. Only the preflight (a clock
authority) and the host (`datetime.now`) read a clock; a report's `generated_at` and
`evidence_as_of`, a claim's `as_of` and the time claims are validated at are stated by
the caller, so they are chosen freely. A replay never compares the preflight's campaign
with the plan's: that they agree in `ReplayedIsOneCampaign` follows from the host's
constructor alone. A sandbox error on the optimized output is a failed check and so a
loss, by design.

## 3. What the runs check

| Run | Question | Bounds |
|---|---|---|
| `budget_ledger` | does the ledger keep its promises and refine `HardCeiling`? | 4 ids, 2 callers, 2 axes, amounts 0..2, ceiling 3 |
| `frontier_host` | is every slot called once and funded, every call accounted for but for interrupts, a manifest accepted exactly when it tells the truth, and is all of it a behaviour of `AttemptOnce`? | 3 slots, 2 components, 2 threads, 3 axes, 2 receipts, elapsed times 1 and 3, 1 interrupt, 1 snapshot |
| `job_service` | do restarts, faults, retries and overlapping instances lose, mix up or re-open a job, is all of it a behaviour of `JobTable`, and does every job end? | 2 instances, 2 keys, 2 requests, 1 crash or stop, 1 fault |
| `authority_file` | is a name written once and whole, and are only own links taken back? | 3 writers, 2 contents, 4 inodes, 1 error, 1 crash, 1 outside change |
| `authority_file_rollback` | does a reported success last? No: see section 5 | 2 writers, 3 inodes, 1 error |
| `optimize` | does a request use no late answer, give the candidate it selected, and end? | 3 candidates, 3 prompts, 0 or 1 repair, 1 retry, 1 cancellation |
| `software_case` | is nothing left running or on disk, is a pass earned under verified limits, does a result mean the container is gone, and does a case end? | two calls of either adapter, two containers, every outcome of every command, one helper at a time, 1 interrupt |
| `sandbox_timeout` | is every failure a result? No: see section 5 | one run |
| `benchmark_run` | do results, caches and summary stay those of one run over failures and kills, and does a resumed run complete? | 2 domains, 2 prompts, 2 outputs, 3 configurations, 1 failure or kill |
| `evaluation` | are verdicts about the outputs wherever they stood, does a pass hide no harm, and do evaluator and validator agree? | suites of 1 or 2 cases, 2 check groups, 5 opinions, 2 judges, 2 cases for a gate |
| `campaign` | is a provider called only under a fair, funded and current campaign, and what do a top-tier replay and a reproduction stand on? | 2 systems, 4 revisions, 2 preflights, 2 hosts, times 0..2, 2 gates, 2 comparisons, 3 authorities, 2 groups of operators, 1 irregularity |
| `release_evidence` | what do an E3 report, an E4 report, an image report and a complete assessment stand on? | 2 directories, 2 ids, 2 executions, 2 reports, 2 cases of one domain, 3 verdicts of a run, 2 reviewers, 2 blindings, 3 views, 2 packets; 2 image cases, 2 placements, 2 opinions, 3 image packets, 1 image replaced |

Why the bounds are enough. In the ledger four ids allow two attempts in flight,
one settled and one rejected at once, and amounts up to 2 under a ceiling of 3
reach equality, one above, and a breach by overage. In the host two threads race
for one slot and for the money ceiling, which holds two of three full
reservations; `MaxInterrupts` = 1 suffices because an interrupt only removes a
thread. An elapsed time of 3 exceeds one reservation, so a later attempt that stays
within its own finds the campaign's ceiling passed. `MaxSnapshots` = 1 because snapshots
do not influence one another; that an accepted manifest stays accepted by later
snapshots is proved for any number of them (`HostImplementsAttemptOnce`).
Two instances and two keys let an old worker finish the job a new instance has
re-queued, and two requests a retry that conflicts. Three writers of two contents
meet with a winner, a loser of equal and a loser of different content; with four
inodes and an outside change one number is used again. One retry makes the late
answer of the first attempt meet the second; three candidates separate the first,
the last and one in between, which an index off by one confuses. Two domains
separate a finished evaluation from a domain in progress, and one kill puts the
resumed run at every file it can find; the three configurations differ in the
benchmark or in another setting, the two kinds of difference the manifest check
tells apart. In the evaluation two cases make a suite with one win and one harm, two
judges a split vote, and the two parities every placement; a check group of one
advisory and one of one authoritative failure separate the checks that decide from
those that do not, and one case alone is a suite below the gate's minimum. In the
release evidence the code's minimum of three replicates is 1 over two directories,
so that reports over one and over both directories, and over an old and a new
filling of one, exist beside each other; two runs disagree evenly or agree. Two
packets are one for each reviewer or one reviewer's twice, and the blindings differ in the labels of a case,
so that answers read with the other key turn. One human report suffices because a
report reads the same files whether or not another was made before. Three image
packets are one for each of the two reviewers an image report needs and one made anew
over other labels or other images; the two opinions lead to a report that passes and
to one that passes only if its labels are read the wrong way round. In the campaign
the revisions are the frozen one, one that is as good with a smaller budget, one that
cannot pay for its retries and one that is judged by a system's maker, so that every
stage can be handed a valid and an invalid stranger. One irregularity is enough to
break any one check that is missing; two that excuse each other are not explored.
A lower bound is on the margin or above it, which is all the status looks at. The
clock stops when the report is written: later times are stated by callers.
`MaxExecutions`, `MaxReports` and `MaxPackets` bound operators' work, and
`MaxDowns`, `MaxTrouble`, `MaxCrashes`, `MaxSwaps`, `MaxInterrupts` and `MaxFaults`
bound environment events, never the code. `CHECK_DEADLOCK FALSE` is set where the
system may stop: ids, slots and environment events run out.

Fairness. `JobService!Fairness`: threads are scheduled, and an operator starts the
service when it is down and replaces an instance whose worker has ended (its
health is "degraded"); he is never required to start a second one. No fairness is
put on faults, crashes or interrupts. `Optimize!OptimizeSpec`: the requesting thread
runs, inside the adapter and outside of it; no sender ever has to answer, and that
deadlines pass is a premise of `EveryRequestEnds`. `SoftwareCase!LiveSpec`: the evaluator's thread runs and a
call's time passes; no child, script or docker command has to end by itself. That helpers of a child end is the premise of
`CaseEnds`: the code waits for them without a limit. `BenchmarkRun!FairSpec`:
a process runs, and an operator who starts runs again does so with the directory's
configuration; this is strong fairness because the start is disabled while a
process is alive. The other specifications have no fairness and only safety
properties.

## 4. What is proved

Every theorem holds for every value of the constants that the named assumptions
allow. Each inductive invariant was checked by TLC on the instance of its run before
it was proved.

`FrontierHostProofs` begins with the ledger, for every finite set of ids and every
set of callers, axes, amounts and ceilings allowed by `LedgerAssumption`:

- `LedgerInvariant`: `LedgerInv`, the conjunction of the ledger's invariants, is
  inductive. `CeilingRespected` is not inductive alone: it needs the types, and
  `OneDispositionPerId` so that a new reservation adds its amount exactly once;
- `LedgerTypeCorrect`, `CeilingIsHard`, `OverrunIsBounded`,
  `EveryAttemptAccountedOnce`, `BreachIsEvidenced` follow from it;
- `BreachStopsTheLedger`: the action property `BreachIsFinal`;
- `LedgerImplementsHardCeiling`: each step of the ledger is a step of
  `HardCeiling` or leaves it unchanged.

Sums are cardinalities of sets of unit tokens, and the lemmas `TotalSplit`,
`TotalExtensional`, `TotalAssign`, `AddReservation`, `DropReservation` and
`AddEvent` say how they move when one id is added or removed; they rest on the
library's facts about finite cardinalities and need no induction.

Its second part is about the host, for every set of slots, components and threads and
every bound on interrupts and snapshots (`HostAssumption`):

- `PlacesInvariant`: `PlacesInv`, the conjunction of `HostTypeOK`,
  `PlacesAreSlots` and the ownership of slots, is inductive. `PlacesAreSlots` (a
  place is counted for each claimed slot and no other) is not inductive alone: the
  thread that releases a slot must be its only owner;
- `HostTypeCorrect` and `NoPlaceLeaks` follow from it;
- `HostIsLedgerUser`: every host step is a step of the ledger or leaves it
  unchanged, so all that is proved of the ledger holds of the host's ledger;
  `HostRespectsCeilings` is the ceiling carried over;
- `CallsAreFunded`: a thread that calls a provider holds an active reservation of
  its own, from `PlacesInv` and `LedgerInv` together;
- `HostInvariant`: `HostInv` adds to these what an attempt leaves behind. A settled
  slot was called once (`SettledInv`), a report is the account of its slot's event
  (`ReportedInv`), no two attempts carry the same receipt (`ReceiptsInv`), a snapshot
  under way is the reports as they are (`ManifestInv`), and each call that is neither
  under way nor both settled and reported has its interrupt (`LostInv`, a cardinality).
  These need each other: a report is new because its slot was not settled before, and
  the slot was not settled because the thread that reports it owns it;
- `ReleasesAreAttested`, `ManifestsAreExact`, `CompleteIsAccepted` and
  `InterruptsBoundLosses` follow: an output handed to the caller has a receipt of its own
  and stayed within its budget, an accepted manifest names exactly the attempts that were
  charged, a complete host can always make one, and only an interrupt loses a call;
- `HostImplementsAttemptOnce`: each step of the host is a step of `AttemptOnce` or
  changes nothing it shows. Three actions are visible: `Dispatch` is a call, because a
  reserved slot was never called; `SettleAttempt` is the charge, because a slot that a
  thread is about to settle has no event; `Record` is the answer, because the thread
  carries the verdict of its slot's event. A snapshot seals only what `SealedInv` says (all
  slots charged within the limits and answered), and the abstract steps keep `SealedInv`
  themselves: with every slot charged and answered none of them is left but the seal.

`AuthorityFileProofs` proves about the authority file, for every number of writers,
contents and inodes and every bound on errors, crashes and outside changes, from
`FileAssumption` only:

- `FileInvariant`: `FileInv` is inductive. It says what a writer knows at each place
  of its call: that its temporary name stands for a file it made itself
  (`NamesInv`), that the bytes are complete before the link (`CallInv`), and that a
  name it linked or compared is still there as long as nothing disturbed it
  (`StaysInv`). TLC checked it before it was proved;
- `NameIsWhole`, `OnlyOwnLinksWithdrawn` and `CallsLeaveNothing` follow from it.
  The second rests on the temporary name: while a writer holds it, no other file
  can get the same inode number;
- `FileImplementsWriteOnce`: every step is a step of `WriteOnce` or changes nothing
  that readers and callers see. Steps that end undisturbed are treated action by
  action; every other step is one about which the register promises nothing.

`CampaignProofs` proves, first for the stages up to the host's manifest and then for
reports, claims and replays, the five properties of a campaign, for every set
of systems, bundles, gates, comparisons, authorities and operators, whatever the bundles
say, and every bound on time, preflights, hosts and irregularities. They
assume only that the numbers of a bundle are naturals (`ContractsAssumption`) and that
a report weighs finitely many items (`ReportingAssumption`):

- `CampaignInvariant`: `CampaignInv` is inductive. It follows the data from stage to
  stage: a report that passed is about a valid bundle (`WellFounded`), a host stands on
  such a report (`Admitted`), its money on its attempts (`Funded`), each attempt on a
  call (`AllCalled`), a manifest on all the attempts of its budget (`ManifestOK`), and
  a top-tier replay on manifests of one campaign (`ReplaysInv`). Reports are only ever
  added, so what rests on one keeps standing while plans are edited and time passes;
- `CallsFollowPreflightHolds`: four receipts in the report, one at the host, five
  together; the judges come from the bundle that was valid when it was preflighted;
- `AffordedToTheEndHolds`: `CampaignAffords` (a valid bundle pays for all its attempts)
  and the inequality `RoomForOneMore` leave room for each attempt that is left, so a
  refusal means that the budget is another revision's;
- `ReplayedIsOneCampaignHolds`: the calls under the plan are exactly those the manifests
  account for, in both directions;
- `ReplayInvariant`, `TopTierIsEarnedHolds`, `ThreeIndependentReplaysHolds`: what a
  replay checked cannot be taken back. The operators' order in a set is arbitrary; that
  they are three follows from the one-to-one map `OneToOne`.

`JobServiceProofs` proves about the job service, for every finite set of keys, every set
of requests and instances and every bound on crashes and faults, from
`ServiceAssumption` only:

- `JobInvariant`: `JobInv` is inductive. Its first half holds with any number of
  instances at once: every key in a queue, a submission or a worker's hands is in the
  table (`HeldInv`), a process that is down has nothing (`DownInv`), and a worker about
  to report success has written the artifact of the row's request (`WrittenInv`). The
  second half (`OwnerInv`) speaks of instances that do not overlap: a job that has not
  ended is in one place, a submission, the queue or the worker, and its status says
  which. TLC checked it before it was proved;
- `AcknowledgedIsStoredHolds` and `SucceededHasItsArtifactHolds` follow from the first
  half, `TerminalIsFinalHolds` from the second: what a worker marks is not finished;
- `ServiceImplementsJobTable`: each step of the service is a step of `JobTable` or
  changes nothing a client sees. Steps after an overlap follow from the first half and
  from `FilesInv` (an artifact on disk is of the request of its row), by what every step
  keeps (`StepKeeps`). Steps without one are taken action by action, and the second half
  gives the status from which a worker's mark starts: queued when it is claimed, running
  when its artifact is written and its success marked, either when it is failed.

`ReadinessProofs` proves about replicates, both reviews and the assessment, for every set
of directories, cases, reviewers and images and every threshold the four assumptions
allow:

- `ReadyInvariant`: `ReadyInv` is inductive. A replicate report on disk is about
  finitely many runs that share no id and no answer (`ReportOK`); a packet's number
  names one packet among all that people hold, as packets, as keys and inside
  submissions (`PapersInv`); and a submission answers what its reviewer thought of
  the packet it names (`AnswersInv`), with the same two for image packets;
- `ReplicatesAreIndependent`, `ReplicatesAgree`: E3 rests on separate runs with one
  majority. `ConsensusIsTheLeader` says when a count has a winner;
- `VotesAreSeen`, `E4IsPreference`: from the numbers of packets, a counted vote is about
  the outputs its reviewer saw, and the labels of its packet undo the placement;
- `ReadinessIsOneChain`, `ImagesArePreferred`: a complete assessment stands on the
  reports it followed, and those on one set of runs.

`EvaluationProofs` proves about a pairwise evaluation, from `EvaluationAssumption`:

- `EvalInvariant`: `EvalInv` is inductive. While a case is judged, the decisions so far
  are the opinions of its judges under the case's labels (`JudgingInv`); a record
  follows from its checks and those opinions (`RecordsInv`), and a result from the
  records (`ResultInv`); an artifact, whoever wrote it, has its parts (`ArtifactInv`);
- `WinsArePreferred`: placing the outputs the other way round changes no verdict.
  `PlacementIsUndone` and `VotesArePreferences` carry it from one judge to the votes;
- `WrittenPasses`, `AcceptedFollows`: the validator accepts what the evaluator wrote,
  and what it accepts, edited or not, is what the evaluator's rules derive from the
  records in it; `PassedIsHarmless` then holds of edited artifacts too.

`AdapterProofs` proves about a software case, from `CaseAssumption`:

- `CaseInvariant`: `CaseInv` is inductive. For the call (`CallInv`): once the child has
  been drained nothing can start a helper. For the check (`CheckInv`): what each docker
  command established, and which requests the daemon may still carry out late. After
  the first inspection a late request can start the container and no longer create one,
  so an exit seen by the second inspection is the one the process had (`Inspected`);
- `CallsLeaveNothing`, `PassesAreEarned` and `ResultsAreCleared` follow.

Its second part is about one request over HTTP, from `HttpAssumption` and
`OptimizeAssumption`:

- `OptimizeInvariant`: `OptimizeInv` is inductive. `GotInv` says from which queue a call
  took what it judges, and that nothing is taken after its outcome; `RequestInv` that
  each candidate lies beside the response it was parsed from, and that the last answer
  of a request past the selector is the selected number;
- `LateAnswersAreNotUsed` and `SelectedIsReturned` follow.

`BenchmarkRunProofs` proves about runs over one directory, from `BenchAssumption`:

- `BenchInvariant`: `BenchInv` is inductive. A process past the check of the manifest
  runs the configuration of the directory, and nothing is evaluated before there is a
  manifest (`LockInv`); the answers a process holds are stored ones, but for the one it
  is about to store, whose key is free (`AnswersInv`); so no stored answer is replaced,
  and what an evaluation was made from stays (`EvaluationsInv`); what a process knows of
  an evaluation is what is on disk (`KnownInv`);
- `EvaluationsBelong`, `SummariesAreTrue` and the action property of `StoredIsPaidOnce`
  follow.

Beside the sizes of sets and the ranges of numbers these assumptions say that `Null`
(in the two HTTP modules `None`), which stands for Python's `None`, is none of the
values it is told apart from (failure codes, states of a container, outcomes of a call, configurations, outputs).

`LedgerTypeOK`, `CeilingRespected`, `HostTypeOK`, `AcknowledgedIsStored`,
`TerminalIsFinal`, `PublishedIsWhole`, `ConsumedIsCharged`, `OverrunBoundedByOverages`,
`NothingLeftBehind`, `HostUsesLedger`, `BreachHasEvidence` and `BreachIsFinal` are
proved and not run: what is proved for every instance is run only where the run
asks something more. (That answered jobs are stored and finished ones final is part of
what `ImplementsJobTable` says on the run.) Every safety property of a passing run is proved. Model-checked
only: the liveness properties (`EveryJobEnds`, `EveryRequestEnds`, `CaseEnds`,
`RunCompletes`), which are outside the prover's logic, and the two disagreements of
section 5, which are counterexamples.

## 5. Disagreements between code and documents

Shown by a run:

- `authority_file_rollback`: a creator whose check fails takes its link back
  although another writer has meanwhile found the file, compared it and reported
  success for it.
- `sandbox_timeout`: a `docker create` or `docker inspect` that times out raises
  `TimeoutExpired` through `_run_restricted`, which turns other failures into results.

Met while modelling, and written into the models as the code has them:

- A reservation granted before a breach is still turned into a provider call after
  it (`frontier_host.py:983`); `src/FRONTIER-EVIDENCE-CAMPAIGN.md:131` says that
  exceeding a ceiling stops the campaign. `BreachIsFinal` states what does hold.
- The evidence window is checked on entry to `execute_attempt`, not at dispatch,
  although the error says "before dispatch" (`frontier_host.py:905`).
- When the read-back after the committed insert fails, the job is in no queue, and a
  retry with its key is answered without queueing it (`service.py:130`). `dropped`
  makes that exception explicit in `EveryJobEnds`.
- After killing its child a command adapter waits for the pipes without a limit
  (`adapters.py:724`); hence the premise of `CaseEnds`.
- Two runs started at once over an empty directory both find no manifest, and the
  second replaces the first one's (`src/scripts/run_codex_benchmark.py:194`).
- The stable E3 level needs a receipt verifier, and the command line aggregates
  without one, so its reports are at most E1 (`cli.py:601`).
  `Aggregate` has both cases.
- The replay reads the campaign bundle again from disk after it has loaded the
  artifact by digest, and does not compare the two (`frontier_replay.py:884`):
  `BundleStands` validates whatever lies there then.
- Image files are checked under the root of the assessment by
  `validate_image_evidence_assets`, and under the directory of their plan by
  `validate_visual_review_authority` (`readiness.py`). The model has one directory.
- Packet and key of a review are two plain writes (`cli.py`): a stop between them
  leaves a packet whose key is missing or belongs to the one before. Counting
  refuses it (`KeyOfPacket`, `VisualKeyMatches`).

## 6. Not modelled

- `frontier_statistics.py`: bootstrap intervals over floating-point numbers from a
  seeded generator. Its outcome is an input of `Reporting` (the lower bound of a
  comparison).
- `audit.py`, `contracts.py`, `analysis.py`, `profiles.py`, `compiler.py`,
  `benchmark.py`: pure functions of the text or the form of one document. What the
  runtime does with an audit's verdict is in `Optimize`.
- `software_execution.py`, `software_evidence.py`, `case_checks.py` beyond the calls
  of the sandbox: allowlists and harness texts are data.
- `hashing.py`, `manifest.py`, `migration.py`: encodings. A digest stands for the
  identity of what it covers in every module.
- HTTP parsing, authentication, the request window and metrics of the service; the
  command line; PNG inspection; forms of fields everywhere.
- Two benchmark processes over one directory (section 5), which the documents do not
  foresee.

## 7. Plan

Every component of section 1 whose state several steps or several actors share is
modelled, every safety property the passing runs check is proved, and so are the
four refinements. Nothing of the plan is left. What would carry the project further
needs another tool or other code:

1. the liveness properties for every instance, which the prover's logic cannot express;
2. the statistics of a campaign, over floating-point numbers (section 6);
3. a lock over a benchmark directory, once the code has one: the run with two processes
   (section 5) then becomes a property that holds.

The runs are kept few: each asks one question of one part, and a new one has to ask
something the present ones do not.
