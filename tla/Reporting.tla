----------------------------- MODULE Reporting -----------------------------
(***************************************************************************)
(* The report of a campaign and the claims made from it                    *)
(* (frontier_reporting.py).  A report weighs items of evidence: the gates, *)
(* and the comparisons with each strong baseline, the original prompt      *)
(* first.  Its status is derived from their outcomes and from what the     *)
(* authorities that attest them say when they are asked, and it is derived *)
(* again by everybody who validates the report.                            *)
(***************************************************************************)
EXTENDS Execution

CONSTANTS Gates, Invalidating,   \* FRONTIER_GATE_IDS, INVALIDATING_GATE_IDS
          Comparisons, Original, \* the strong baselines, and the first of them
          RoleOf,                \* GATE_AUTHORITY_ROLES, "quality_statistics" for comparisons
          Authorities,           \* who may attest evidence, claims and replays
          Attesting,             \* the authority each item is given to by default
          NoAuthority,           \* evidence and authority are absent
          Margin,                \* the policy's minimum meaningful effect
          ReportWindows,         \* the [asOf, generated, expires, domains] a report may state
          Auditor                \* the authority claims are given to by default

ASSUME ReportingAssumption == IsFiniteSet(Gates) /\ IsFiniteSet(Comparisons)

Items == Gates \cup Comparisons
Outcomes == {"passed", "failed", "not_evaluable"}
Effects == {Margin, Margin + 1} \* lower bounds of an interval: on the margin, above it

VARIABLES refusing,   \* authorities that do not confirm their receipts now
          reports,    \* reports built
          inventory   \* the claim inventory written, or none

rvars == <<refusing, reports, inventory>>

NoInventory == [report |-> "none"]

ReportingInit == refusing = {} /\ reports = {} /\ inventory = NoInventory

\* An authority is withdrawn, or answers again.
AuthorityChanges ==
  /\ \E a \in Authorities : refusing' = IF a \in refusing THEN refusing \ {a}
                                        ELSE refusing \cup {a}
  /\ Regular(FALSE)
  /\ UNCHANGED <<now, disk, pvars, evars, reports, inventory>>

------------------------------------------------------------------------------
(* An item: its outcome, who attests it with which receipt, for a          *)
(* comparison the lower bound of the interval, and of the evidence itself  *)
(* the campaign it is of, its date, the cases that failed in it, and the   *)
(* authority of its meaning.                                               *)

FavourableItem(b, w, i) == [outcome |-> "passed", by |-> Attesting[i], receipt |-> i,
                            lower |-> Margin + 1, evidence |-> b, dated |-> w.asOf,
                            failedCases |-> 0, semantic |-> Auditor]

\* What may be wrong with one item.
ItemVariants(b, w, i) ==
  LET good == FavourableItem(b, w, i)
      bounds == IF i \in Comparisons THEN Effects ELSE {Margin + 1}
  IN {[good EXCEPT !.outcome = o, !.lower = e] : o \in Outcomes, e \in bounds}
     \cup {[good EXCEPT !.outcome = "not_evaluable", !.by = NoAuthority]}
     \cup {[good EXCEPT !.by = a] : a \in Authorities}
     \cup {[good EXCEPT !.receipt = j] : j \in Items}
     \cup {[good EXCEPT !.evidence = c] : c \in Bundles}
     \cup {[good EXCEPT !.dated = t] : t \in Times}
     \cup {[good EXCEPT !.failedCases = 1]}
     \cup {[good EXCEPT !.semantic = a] : a \in Authorities}

\* The items of a report: all favourable, but at most one.
ItemChoices(b, w) ==
  LET favourable == [i \in Items |-> FavourableItem(b, w, i)]
  IN UNION {{[favourable EXCEPT ![i] = v] : v \in ItemVariants(b, w, i)} : i \in Items}

\* _validate_gate, _validate_baseline_comparison: an evaluated item has an
\* authority, and a comparison is superior exactly if it clears the margin.
ValidItem(i, item) ==
  /\ item.outcome \in Outcomes
  /\ item.outcome # "not_evaluable" => item.by # NoAuthority
  /\ i \in Comparisons => /\ item.outcome = "passed" => item.lower > Margin
                          /\ item.outcome = "failed" => item.lower <= Margin

\* validate_frontier_report_input
ValidInput(r) == /\ \A i \in Items : ValidItem(i, r.items[i])
                 /\ r.asOf <= r.generated /\ r.generated < r.expires

Populated(items) == {i \in Items : items[i].by # NoAuthority}

\* The live verifiers confirm the receipts stated, and none counts twice.
Confirmed(items) ==
  /\ \A i \in Populated(items) : items[i].by \notin refusing
  /\ \A i, j \in Populated(items) : items[i].receipt = items[j].receipt => i = j

\* _authority_topology_failures: an authority has one role.
RolesIndependent(items) ==
  \A i, j \in Populated(items) : items[i].by = items[j].by => RoleOf[i] = RoleOf[j]

\* Slip: the authorities are asked, their roles are not compared.
StatusWithoutTopology(items) ==
  CASE \/ \E i \in Items : items[i].outcome = "not_evaluable"
       \/ \E i \in Invalidating : items[i].outcome = "failed"
       \/ ~Confirmed(items) -> "not_evaluable"
    [] OTHER ->
       IF items[Original].outcome # "passed" THEN "not_superior"
       ELSE IF \E i \in Items : items[i].outcome = "failed" THEN "verified_improvement"
       ELSE "top_tier_scoped"

\* _derive_report_outcome
StatusOf(items) ==
  LET having(o, among) == {i \in among : items[i].outcome = o}
  IN CASE \/ having("not_evaluable", Items) # {}
          \/ having("failed", Invalidating) # {}
          \/ ~Confirmed(items) \/ ~RolesIndependent(items) -> "not_evaluable"
       [] OTHER ->
          IF items[Original].outcome # "passed" THEN "not_superior"
          ELSE IF having("failed", Items) # {} THEN "verified_improvement"
          ELSE "top_tier_scoped"

\* build_frontier_report: the input with the status derived from it.
Built(r) == [campaign |-> r.campaign, preflight |-> r.preflight, asOf |-> r.asOf,
             generated |-> r.generated, expires |-> r.expires,
             domains |-> r.domains, items |-> r.items,
             status |-> StatusOf(r.items)]

\* validate_frontier_report: it is what building it again would give.
ValidReportNow(r) == ValidInput(r) /\ r = Built(r)

\* The reports an input over the campaign b and the preflight p may lead to.
BuildReport(b, p) ==
  /\ \E w \in ReportWindows : \E items \in ItemChoices(b, w) :
       LET input == [campaign |-> b, preflight |-> p, asOf |-> w.asOf, generated |-> w.generated,
                     expires |-> w.expires, domains |-> w.domains, items |-> items]
       IN /\ ValidInput(input)
          /\ Regular(issued[p].campaign = b /\ \A i \in Items : items[i] = FavourableItem(b, w, i))
          /\ reports' = reports \cup {Built(input)}
  /\ UNCHANGED <<now, disk, pvars, evars, refusing, inventory>>

------------------------------------------------------------------------------
\* A claim of the report r: what it says in its scope, with all its numbers, or
\* with one thing wrong.
Metric(r, i) == [source |-> i, lower |-> r.items[i].lower, evidence |-> r.items[i].evidence]
FairClaim(r) == [status |-> r.status, asOf |-> r.asOf, expires |-> r.expires,
                 domains |-> r.domains, metrics |-> {Metric(r, i) : i \in Items},
                 by |-> Auditor, receipt |-> "first"]
ClaimChoices(r) ==
  {FairClaim(r), [FairClaim(r) EXCEPT !.status = "top_tier_scoped"]}
  \cup {[FairClaim(r) EXCEPT !.expires = t] : t \in Times}
  \cup {[FairClaim(r) EXCEPT !.domains = d] : d \in SUBSET (r.domains \cup {"elsewhere"})}
  \cup {[FairClaim(r) EXCEPT !.metrics = {[Metric(r, Original) EXCEPT !.lower = e]}] : e \in Effects}
  \cup {[FairClaim(r) EXCEPT !.by = a] : a \in Authorities}

ReportAuthorities(r) == {r.items[i].by : i \in Items} \ {NoAuthority}

\* _claim_scope_matches_report: no wider than the report, valid no longer.
ScopeWithin(c, r) == /\ c.domains # {} /\ c.domains \subseteq r.domains
                     /\ c.asOf = r.asOf /\ c.asOf < c.expires /\ c.expires <= r.expires

\* _claim_metric_report_source, frontier_claim_evidence_summary_sha256: every
\* number is exactly the report's, and none is given twice.
MetricsMirror(c, r) ==
  /\ c.metrics # {} /\ \A q \in c.metrics : q = Metric(r, q.source)
  /\ \A q, u \in c.metrics : q.source = u.source => q = u

\* One claim of an inventory, at the time asOf.
ValidClaim(c, r, asOf) == /\ c.status = r.status
                          /\ ScopeWithin(c, r) /\ MetricsMirror(c, r)
                          /\ asOf < c.expires
                          /\ c.by \notin ReportAuthorities(r) /\ c.by \notin refusing

\* validate_frontier_claim_inventory
ValidInventory(v, r, asOf) ==
  /\ v.report = r
  /\ ValidReportNow(r)
  /\ r.asOf <= asOf /\ asOf < r.expires
  /\ v.claims # {} /\ \A c \in v.claims : ValidClaim(c, r, asOf)
  /\ Cardinality({c.receipt : c \in v.claims}) = Cardinality(v.claims)

\* The owner publishes claims about a report that was built.
WriteInventory ==
  /\ inventory = NoInventory
  /\ \E r \in reports : \E c \in ClaimChoices(r) :
       /\ Regular(c = FairClaim(r))
       /\ inventory' = [report |-> r, claims |-> {c}]
  /\ UNCHANGED <<now, disk, pvars, evars, refusing, reports>>
==============================================================================
