------------------------------ MODULE Replicates ------------------------------
(***************************************************************************)
(* Repeated benchmark runs and their aggregation into an E3 report         *)
(* (benchmark_replicates.py).  Every run lies in a directory of its own,   *)
(* which an operator may fill again at any time, also from responses that  *)
(* were already used; a report is a file that outlives the directories it  *)
(* was made from and is compared with them whenever authority is claimed.  *)
(*                                                                         *)
(* A report binds its runs by their digests, so it is modelled as carrying *)
(* them.  The response ids and receipts of a run are one token, new with   *)
(* every execution.                                                        *)
(***************************************************************************)
EXTENDS Integers, FiniteSets

CONSTANTS Dirs, Ids, Definitions,
          Cases, Domains, DomainOf,  \* the benchmark, and the domain of a case
          Profiles,                  \* verdicts a run may reach, by case
          MinimumReplicates,         \* 3 in the code
          MinimumCases,              \* cases a domain gate needs (5)
          ReleaseDomains, ReleaseCases,  \* full coverage (12, 60)
          MaxExecutions, MaxReports, \* bounds
          Null

Outcomes == {"win", "tie", "loss"}
Observation == [outcome : Outcomes, critical : BOOLEAN, fatal : BOOLEAN, hard : BOOLEAN]

ASSUME ReplicatesAssumption ==
  /\ IsFiniteSet(Dirs) /\ IsFiniteSet(Cases) /\ IsFiniteSet(Domains)
  /\ DomainOf \in [Cases -> Domains]
  /\ Profiles \subseteq [Cases -> Observation]
  /\ {MinimumReplicates, MinimumCases, ReleaseDomains, ReleaseCases,
      MaxExecutions, MaxReports} \subseteq Nat

VARIABLES run,       \* what lies in a directory
          reports,   \* replicate reports on disk
          executed   \* executions so far (bounded)

replicateVars == <<run, reports, executed>>

ReplicatesInit ==
  /\ run = [d \in Dirs |-> Null]
  /\ reports = {} /\ executed = 0

------------------------------------------------------------------------------
(* Gates and consensus.                                                    *)

Count(seen, cases, o) == Cardinality({c \in cases : seen[c].outcome = o})

Harmless(o) == ~o.critical /\ ~o.fatal /\ ~o.hard

CasesOf(domain) == {c \in Cases : DomainOf[c] = domain}

DomainGate(seen, domain) ==
  LET cases == CasesOf(domain)
  IN /\ Cardinality(cases) >= MinimumCases
     /\ Count(seen, cases, "win") > Count(seen, cases, "loss")
     /\ \A c \in cases : Harmless(seen[c])

\* A net improvement of at least a tenth, over the cases of all domains.
NetGate(seen) ==
  10 * (Count(seen, Cases, "win") - Count(seen, Cases, "loss")) >= Cardinality(Cases)

RunGate(seen) ==
  /\ Cardinality(Domains) = ReleaseDomains
  /\ \A domain \in Domains : DomainGate(seen, domain)
  /\ NetGate(seen)
  /\ \A c \in Cases : Harmless(seen[c])

OutcomeCounts(runs, c) ==
  [o \in Outcomes |-> Cardinality({r \in runs : r.seen[c].outcome = o})]

\* Slip: a case on which the runs disagree evenly goes to the optimized prompt.
ConsensusForWin(counts) ==
  IF \A o \in Outcomes : counts[o] <= counts["win"] THEN "win"
  ELSE IF \A o \in Outcomes : counts[o] <= counts["tie"] THEN "tie" ELSE "loss"

\* The outcome most runs saw, a tie when two lead.
Consensus(counts) ==
  LET leaders == {o \in Outcomes : \A p \in Outcomes : counts[p] <= counts[o]}
  IN IF Cardinality(leaders) > 1 THEN "tie" ELSE CHOOSE o \in leaders : TRUE

\* What the runs saw together; harm in one run is harm.
Merged(runs) ==
  [c \in Cases |-> [outcome |-> Consensus(OutcomeCounts(runs, c)),
                    critical |-> \E r \in runs : r.seen[c].critical,
                    fatal |-> \E r \in runs : r.seen[c].fatal,
                    hard |-> \E r \in runs : r.seen[c].hard]]

DomainPasses(runs, merged, domain) ==
  /\ \A r \in runs : DomainGate(r.seen, domain)
  /\ DomainGate(merged, domain)

ReleaseGate(runs, merged, verified) ==
  /\ Cardinality(runs) >= MinimumReplicates
  /\ Cardinality(Domains) = ReleaseDomains /\ Cardinality(Cases) >= ReleaseCases
  /\ \A r \in runs : RunGate(r.seen)
  /\ verified
  /\ \A domain \in Domains : DomainPasses(runs, merged, domain)
  /\ NetGate(merged)
  /\ \A c \in Cases : Harmless(merged[c])

ReplicateReport(runs, verified) ==
  LET merged == Merged(runs)
      release == ReleaseGate(runs, merged, verified)
  IN [runs |-> runs, verified |-> verified,
      consensus |-> [c \in Cases |-> merged[c].outcome],
      domainGates |-> [domain \in Domains |-> DomainPasses(runs, merged, domain)],
      release |-> release,
      evidence |-> IF release THEN "E3" ELSE "E1"]

------------------------------------------------------------------------------
(* Operators, and the aggregation.                                         *)

\* A new run in a directory, over whatever was there.
Execute(d, id, definition, seen) ==
  /\ executed < MaxExecutions
  /\ executed' = executed + 1
  /\ run' = [run EXCEPT ![d] = [id |-> id, definition |-> definition,
                                calls |-> executed + 1, seen |-> seen]]
  /\ UNCHANGED reports

\* A run under another id whose calls were answered from the responses another
\* directory holds.
Replay(d, from, id) ==
  /\ run[from] # Null /\ run[from].id # id /\ executed < MaxExecutions
  /\ executed' = executed + 1
  /\ run' = [run EXCEPT ![d] = [run[from] EXCEPT !.id = id]]
  /\ UNCHANGED reports

\* Slip: the ids of the runs are compared, not those of the responses.
IndependentById(S) ==
  \A d, e \in S : d # e => run[d].id # run[e].id

\* No two runs share an id, a response or a receipt.
Independent(S) ==
  \A d, e \in S : d # e => run[d].id # run[e].id /\ run[d].calls # run[e].calls

Aggregable(S) ==
  /\ Cardinality(S) >= MinimumReplicates
  /\ \A d \in S : run[d] # Null
  /\ \A d, e \in S : run[d].definition = run[e].definition
  /\ Independent(S)

\* verified tells whether the caller supplied a receipt verifier.
Aggregate(S, verified) ==
  /\ Aggregable(S) /\ Cardinality(reports) < MaxReports
  /\ reports' = reports \cup {ReplicateReport({run[d] : d \in S}, verified)}
  /\ UNCHANGED <<run, executed>>

ReplicatesNext ==
  \/ \E d \in Dirs, id \in Ids, definition \in Definitions, seen \in Profiles :
       Execute(d, id, definition, seen)
  \/ \E d, from \in Dirs, id \in Ids : Replay(d, from, id)
  \/ \E S \in SUBSET Dirs, verified \in BOOLEAN : Aggregate(S, verified)

------------------------------------------------------------------------------
(* Reading a report.                                                       *)

\* Every derived fact of a report is recomputed from the observations in it.
ValidReport(report) ==
  /\ Cardinality(report.runs) >= MinimumReplicates
  /\ \A r, s \in report.runs : r # s => r.id # s.id /\ r.calls # s.calls
  /\ report = ReplicateReport(report.runs, report.verified)

E3Claim(report) ==
  report.release /\ report.evidence = "E3" /\ ValidReport(report)

\* The detached report is rebuilt from its source directories, with a verifier.
RebuildsFrom(report, S) ==
  Aggregable(S) /\ ReplicateReport({run[d] : d \in S}, TRUE) = report

E3Authority(report, S) == E3Claim(report) /\ RebuildsFrom(report, S)

------------------------------------------------------------------------------
(* Properties                                                              *)

\* An E3 report rests on as many separate executions as it counts, whichever
\* directories were filled again or answered from old responses: no response
\* was counted twice.
E3IsIndependent ==
  \A report \in reports : report.evidence = "E3" =>
    /\ Cardinality({r.calls : r \in report.runs}) = Cardinality(report.runs)
    /\ Cardinality({r.id : r \in report.runs}) >= MinimumReplicates

\* No agreement among runs hides harm, and no disagreement counts as a win: an
\* E3 report has no harmful case in any run, and in every domain more cases were
\* won in most of its runs than lost.
E3IsAgreed ==
  \A report \in reports : report.evidence = "E3" =>
    LET Saw(c, o) == Cardinality({r \in report.runs : r.seen[c].outcome = o})
        Most(c, o) == \A p \in Outcomes \ {o} : Saw(c, o) > Saw(c, p)
    IN /\ \A r \in report.runs, c \in Cases : Harmless(r.seen[c])
       /\ \A domain \in Domains :
            Cardinality({c \in CasesOf(domain) : Most(c, "win")})
              > Cardinality({c \in CasesOf(domain) : Most(c, "loss")})
===============================================================================
