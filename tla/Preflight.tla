----------------------------- MODULE Preflight -----------------------------
(***************************************************************************)
(* run_frontier_preflight (frontier_preflight.py): load the frozen bundle, *)
(* validate it, ask the trusted clock, then the other authorities, and     *)
(* issue a report.  The plan and its files are read one after the other    *)
(* and the clock moves while authorities are asked, so each is a step.     *)
(*                                                                         *)
(* A receipt is named by the role whose verifier issues it; a verifier     *)
(* that repeats what another one issued is a role that answers with the    *)
(* other's name.  A report embeds a receipt as a one-place tuple.          *)
(***************************************************************************)
EXTENDS CampaignContracts, Sequences

CONSTANTS MaxPreflights,  \* bound on preflights run
          NoReceipt       \* a verifier that is missing, raises or refuses

Principals == {"clock", "owner", "dataset_custodian"}
Resources == {"human_gold", "host_capability", "storage"}
Roles == Principals \cup Resources

VARIABLES run,      \* the preflight that is running: where it is, what it read
          issued,   \* the reports issued, in order; a report's digest is its place
          preflights

pvars == <<run, issued, preflights>>

Idle == [at |-> "idle"]

PreflightInit == run = Idle /\ issued = <<>> /\ preflights = 0

\* What the verifiers answer: each its own receipt, but at most one that
\* repeats another verifier's or gives none.
OwnReceipts == [r \in Roles |-> r]
Answers == {[OwnReceipts EXCEPT ![q] = a] : q \in Roles, a \in Roles \cup {NoReceipt}}

(***************************************************************************)
(* What two of the authorities measured, beside signing: the human-gold    *)
(* calibration (cases covered, calibrated, and calibrated in both          *)
(* positions, the fewest reviewers of a case) and the free storage.        *)
(***************************************************************************)
Measured(c) == [covered |-> c.cases, calibrated |-> c.calibrated, pairs |-> c.calibrated,
                reviewers |-> c.forCritical, free |-> c.room]

MeasuredChoices(c) ==
  {Measured(c)} \cup {[Measured(c) EXCEPT !.covered = c.cases \ c.critical]}
  \cup {[Measured(c) EXCEPT !.calibrated = @ - 1]} \cup {[Measured(c) EXCEPT !.pairs = @ - 1]}
  \cup {[Measured(c) EXCEPT !.reviewers = @ - 1]} \cup {[Measured(c) EXCEPT !.free = c.need - 1]}

\* _human_gold_receipt: complete over the committed cases, no case too few.
GoldSuffices(c, found) == /\ found.covered = c.cases
                          /\ c.calibrated <= found.calibrated
                          /\ found.calibrated <= Cardinality(found.covered)
                          /\ found.pairs = found.calibrated
                          /\ found.reviewers >= c.forCritical

\* _storage_receipt: what is free now, against what was declared and is needed.
StorageSuffices(c, found) == found.free >= c.room /\ found.free >= c.need

\* Every authority asked gave a receipt and no receipt counts twice.
ReceiptsIndependent(answer) ==
  /\ \A r \in Roles : answer[r] # NoReceipt
  /\ \A r, q \in Roles : answer[r] = answer[q] => r = q

\* capability_receipts_sha256: one digest over the receipts of the resources.
Capability(answer) == <<answer["human_gold"], answer["host_capability"], answer["storage"]>>

\* The receipts a report embeds: those of the principals and the capability digest.
Embedded(answer) == {<<answer[r]>> : r \in Principals} \cup {Capability(answer)}

\* _build_report; the report of a preflight that failed carries no authority.
Failed(b) == [passed |-> FALSE, campaign |-> b, timestamp |-> 0,
              expires |-> Contents[b].expires, receipts |-> {}]
Passed(b, t, answer) == [passed |-> TRUE, campaign |-> b, timestamp |-> t,
                         expires |-> Contents[b].expires, receipts |-> Embedded(answer)]

Issue(report) == issued' = Append(issued, report) /\ run' = Idle

\* validate_frontier_preflight_report: a pass needs evidence, inside its window.
ValidReport(p) == p.passed => p.timestamp < p.expires /\ Cardinality(p.receipts) = 4

------------------------------------------------------------------------------
\* The plan is read first, and must be well formed before anything else is read.
LoadPlan ==
  /\ run = Idle
  /\ preflights < MaxPreflights
  /\ preflights' = preflights + 1
  /\ IF PlanFormed(Contents[plan]) THEN run' = [at |-> "files", bundle |-> plan] /\ issued' = issued
     ELSE Issue(Failed(plan))
  /\ UNCHANGED cvars

\* Then its files, against the digests in the plan that was read; no authority
\* is asked about a bundle that does not load or does not validate.
LoadFiles ==
  /\ run.at = "files"
  /\ IF FilesMatch(run.bundle) /\ ValidBundle(Contents[run.bundle])
       THEN run' = [at |-> "clock", bundle |-> run.bundle] /\ issued' = issued
       ELSE Issue(Failed(run.bundle))
  /\ UNCHANGED <<cvars, preflights>>

\* Only the clock authority says what time it is.
AskClock ==
  /\ run.at = "clock"
  /\ \E answered \in BOOLEAN :
       /\ Regular(answered)
       /\ IF /\ answered
             /\ Contents[run.bundle].created <= now /\ now < Contents[run.bundle].expires
            THEN /\ run' = [at |-> "authorities", bundle |-> run.bundle, timestamp |-> now]
                 /\ issued' = issued
            ELSE Issue(Failed(run.bundle))
  /\ UNCHANGED <<now, disk, preflights>>

\* Owner, custodian, human gold, host capabilities and storage, then the report.
AskAuthorities ==
  /\ run.at = "authorities"
  /\ LET c == Contents[run.bundle] IN
     \E answer \in Answers, found \in MeasuredChoices(c) :
       /\ answer["clock"] = "clock"
       /\ Regular(answer = OwnReceipts /\ found = Measured(c))
       /\ Issue(IF /\ ReceiptsIndependent(answer)
                   /\ GoldSuffices(c, found) /\ StorageSuffices(c, found)
                  THEN Passed(run.bundle, run.timestamp, answer)
                  ELSE Failed(run.bundle))
  /\ UNCHANGED <<now, disk, preflights>>

PreflightNext == LoadPlan \/ LoadFiles \/ AskClock \/ AskAuthorities
==============================================================================
