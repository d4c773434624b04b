------------------------------- MODULE Replay -------------------------------
(***************************************************************************)
(* The offline replay of a report by independent operators, and the        *)
(* reproduction set of three of them (frontier_replay.py).  A reproduction *)
(* plan pins every input by digest; each operator rebuilds the report from *)
(* them, compares it with the expected one, validates the claims at a time *)
(* the caller states, and, when the report says top tier, checks that the  *)
(* evidence under it is one campaign's.                                    *)
(*                                                                         *)
(* The inputs are read from disk one after the other and the authorities   *)
(* asked in between, so a replay is two steps: the report and its claims,  *)
(* then the evidence under it and the operator's attestation.              *)
(***************************************************************************)
EXTENDS Reporting

CONSTANTS Groups,      \* the operator commitments a plan may freeze, in order
          NoPlan       \* no reproduction plan was frozen

VARIABLES frozen,        \* the reproduction plan
          replaying,     \* the replay that is running
          replays,       \* what each operator's last replay gave
          reproduction   \* the replays of the set that was built, in order

yvars == <<frozen, replaying, replays, reproduction>>

NoReplay == [passed |-> FALSE]
Places == 1..3

ReplayInit == /\ frozen = NoPlan /\ replaying = Idle
              /\ replays = [k \in Places |-> NoReplay]
              /\ reproduction = <<>>

Distinct(group, part) == \A j, k \in Places : group[j][part] = group[k][part] => j = k

\* validate_frontier_reproduction_plan: three operators independent in everything.
ValidPlan(group) == /\ Distinct(group, "operator") /\ Distinct(group, "machine")
                    /\ Distinct(group, "authority")

(***************************************************************************)
(* The owner freezes a plan over what was written, with every kind of      *)
(* input that a top-tier report needs: a campaign plan with its files, a   *)
(* preflight report, a manifest per system, a report and its inventory.    *)
(* Nothing but the replay looks at whether they belong together.           *)
(***************************************************************************)
FreezePlan ==
  /\ frozen = NoPlan /\ inventory # NoInventory
  /\ \E b \in Bundles, p \in DOMAIN issued, group \in Groups :
     \E ms \in [Systems -> manifests] :
       /\ Regular(/\ b = inventory.report.campaign /\ ValidPlan(group)
                  /\ p = inventory.report.preflight
                  /\ \A s \in Systems : ms[s].system = s /\ ms[s].preflight = p)
       /\ frozen' = [campaign |-> b, preflight |-> p, executions |-> ms,
                     report |-> inventory.report, group |-> group]
  /\ UNCHANGED <<now, disk, pvars, evars, rvars, replaying, replays, reproduction>>

\* Slip: the execution is complete, its preflight is not compared.
AnyPreflight(f, r) ==
  /\ issued[f.preflight].passed /\ ValidReport(issued[f.preflight]) /\ f.preflight = r.preflight
  /\ f.campaign = r.campaign
  /\ ExecutionBundle(f.executions, f.campaign)

\* The preflight, the execution and the report are of the campaign in the plan.
OneCampaign(f, r) ==
  /\ issued[f.preflight].passed /\ ValidReport(issued[f.preflight]) /\ f.preflight = r.preflight
  /\ f.campaign = r.campaign
  /\ ExecutionBundle(f.executions, f.campaign)
  /\ \A s \in Systems : f.executions[s].preflight = f.preflight

\* The bundle is loaded again from the plan's path and validated again.
BundleStands == PlanFormed(Contents[plan]) /\ FilesMatch(plan) /\ ValidBundle(Contents[plan])

\* validate_frontier_evidence_envelope: passing evidence has no failed case.
EvidenceFormed(e) == e.failedCases = 0

\* The evidence of each item is this campaign's, of the report's window, and an
\* authority that attests no item says what it means.
EvidenceStands(r) ==
  \A i \in Items : LET e == r.items[i] IN
     /\ EvidenceFormed(e) /\ e.evidence = r.campaign
     /\ r.asOf <= e.dated /\ e.dated < r.expires
     /\ e.semantic \notin refusing \cup ReportAuthorities(r)

\* _top_tier_artifact_failures: only a report that says top tier is held to it.
TopTierStands(f, r) ==
  r.status = "top_tier_scoped" => OneCampaign(f, r) /\ BundleStands /\ EvidenceStands(r)

------------------------------------------------------------------------------
\* The inputs are loaded by digest, the report rebuilt and compared, the claims
\* validated at the time the caller states.
ReplayReport(k, asOf) ==
  /\ frozen # NoPlan /\ replaying = Idle /\ reproduction = <<>>
  /\ LET input == frozen.report
         rebuilt == Built(input)
     IN IF /\ ValidPlan(frozen.group)
           /\ plan = frozen.campaign
           /\ ValidInput(input) /\ rebuilt = frozen.report
           /\ ValidInventory(inventory, rebuilt, asOf)
          THEN /\ replaying' = [at |-> "evidence", place |-> k, asOf |-> asOf, report |-> rebuilt]
               /\ replays' = replays
          ELSE /\ replaying' = Idle
               /\ replays' = [replays EXCEPT ![k] = NoReplay]
  /\ UNCHANGED <<cvars, pvars, evars, rvars, frozen, reproduction>>

\* The evidence, then the operator's attestation over the identities and hashes.
ReplayEvidence ==
  /\ replaying # Idle
  /\ LET k == replaying.place
         by == frozen.group[k]
     IN \E receipt \in {by.authority, "common", NoReceipt} :
       /\ Regular(receipt = by.authority)
       /\ replays' = [replays EXCEPT ![k] =
            IF TopTierStands(frozen, replaying.report) /\ receipt # NoReceipt
              THEN [passed |-> TRUE, by |-> by, receipt |-> receipt,
                    asOf |-> replaying.asOf, report |-> replaying.report]
              ELSE NoReplay]
  /\ replaying' = Idle
  /\ UNCHANGED <<now, disk, pvars, evars, rvars, frozen, reproduction>>

\* validate_frontier_replay_report: a passed replay of this plan by the operator
\* in place k, whose attestation is asked for again.
ValidReplay(rep, k) == /\ rep.passed /\ rep.receipt # NoReceipt
                       /\ rep.by = frozen.group[k] /\ rep.report = frozen.report

\* Slip: the hashes are compared, the time the claims were validated at is not.
IsReproductionAnyTime(rs) ==
  /\ \A k \in Places : ValidReplay(rs[k], k)
  /\ Distinct(rs, "receipt")
  /\ \A k \in Places : rs[k].report = rs[1].report

\* build_frontier_reproduction_set: three passed replays, in the order of the
\* frozen group, independent of each other, with one result.
IsReproduction(rs) ==
  /\ \A k \in Places : ValidReplay(rs[k], k)
  /\ Distinct([k \in Places |-> rs[k].by], "operator")
  /\ Distinct([k \in Places |-> rs[k].by], "machine")
  /\ Distinct([k \in Places |-> rs[k].by], "authority")
  /\ Distinct(rs, "receipt")
  /\ \A k \in Places : rs[k].report = rs[1].report /\ rs[k].asOf = rs[1].asOf

BuildReproduction ==
  /\ frozen # NoPlan /\ reproduction = <<>>
  /\ \E order \in [Places -> Places] :
       LET rs == [k \in Places |-> replays[order[k]]]
       IN IsReproduction(rs) /\ reproduction' = rs
  /\ UNCHANGED <<cvars, pvars, evars, rvars, frozen, replaying, replays>>

ReplayNext == \/ FreezePlan
              \/ \E k \in Places, asOf \in Times : ReplayReport(k, asOf)
              \/ ReplayEvidence \/ BuildReproduction
==============================================================================
