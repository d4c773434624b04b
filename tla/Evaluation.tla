------------------------------ MODULE Evaluation ------------------------------
(***************************************************************************)
(* The blind evaluation of one prompt pair over a suite of cases           *)
(* (evaluate_suite and evaluate_case of evaluation.py) and the validator   *)
(* that every reader of evaluation.json runs (validate_evaluation).  The   *)
(* evaluator places the two outputs of a case at labels A and B, asks the  *)
(* judges one after the other, maps their answers back and sums up.  The   *)
(* validator derives the same verdict a second time, in its own way, from  *)
(* the facts the artifact carries.                                         *)
(*                                                                         *)
(* A group of hard checks is the set of its results; outputs are known by  *)
(* their side.                                                             *)
(***************************************************************************)
EXTENDS Integers, Sequences, FiniteSets

CONSTANTS Cases,         \* cases a suite may hold
          CheckGroups,   \* results the hard checks of one output may have
          Opinions,      \* what a judge may think of the two outputs of a case
          Judges,        \* number of judges
          MinimumCases,  \* cases a passing gate needs (5 in the code)
          Null

Sides == {"original", "optimized"}
Labels == {"A", "B"}
Outcomes == {"win", "tie", "loss"}
Check == [passed : BOOLEAN, authoritative : BOOLEAN]

\* An opinion is about the outputs, a decision about the labels they stood at.
Opinion == [prefers : Sides \cup {"tie"}, fatal : SUBSET Sides]
ASSUME EvaluationAssumption ==
  /\ IsFiniteSet(Cases)
  /\ CheckGroups \subseteq SUBSET Check
  /\ Opinions \subseteq Opinion
  /\ Judges \in Nat /\ Judges >= 2
  /\ MinimumCases \in Nat

VARIABLES suite,         \* the cases of the suite
          optimizedIsA,  \* parity of the digest of seed and case
          pc, case,      \* the case being evaluated
          checks,        \* the check groups of its two outputs
          decisions,     \* the judges' answers to it, so far
          records,       \* the records of the finished cases
          result,        \* what evaluate_suite returned
          artifact,      \* evaluation.json as a reader finds it
          opinions       \* what the judges of each case thought (history)

vars == <<suite, optimizedIsA, pc, case, checks, decisions, records, result,
          artifact, opinions>>

------------------------------------------------------------------------------
(* Hard checks and the judges' answers.                                    *)

\* Slip: every check decides.
AllPassed(group) == \A check \in group : check.passed

\* Only authoritative checks decide whether an output passes.
HardPassed(group) == \A check \in group : check.authoritative => check.passed

\* The label at which the evaluator puts an output.
LabelOf(side, isA) == IF (side = "optimized") = isA THEN "A" ELSE "B"

DecisionOn(opinion, isA) ==
  [winner |-> IF opinion.prefers = "tie" THEN "tie" ELSE LabelOf(opinion.prefers, isA),
   fatal |-> {LabelOf(side, isA) : side \in opinion.fatal}]

MapWinner(winner, isA) ==
  IF winner = "tie" THEN "tie"
  ELSE IF (winner = "A") = isA THEN "win" ELSE "loss"

Votes(answers, isA, outcome) ==
  Cardinality({j \in DOMAIN answers : MapWinner(answers[j].winner, isA) = outcome})

\* Slip: the flaw of the output at A is taken for the optimized output's.
FatalAtA(answers, isA) == \E j \in DOMAIN answers : "A" \in answers[j].fatal

FatalOptimized(answers, isA) ==
  \E j \in DOMAIN answers : LabelOf("optimized", isA) \in answers[j].fatal

\* One fatal flaw of the optimized output outweighs every vote.
AggregateJudges(answers, isA) ==
  LET wins == Votes(answers, isA, "win")
      losses == Votes(answers, isA, "loss")
  IN IF FatalOptimized(answers, isA) THEN "loss"
     ELSE IF wins > losses THEN "win"
     ELSE IF losses > wins THEN "loss"
     ELSE "tie"

------------------------------------------------------------------------------
(* The evaluator.                                                          *)

Regressed(passed) == passed["original"] /\ ~passed["optimized"]
BothFailed(passed) == ~passed["original"] /\ ~passed["optimized"]

\* Judges are asked only when the checks leave the case open.
Open(passed) == ~Regressed(passed) /\ ~BothFailed(passed)

Record(isA, groups, answers) ==
  LET passed == [side \in Sides |-> HardPassed(groups[side])]
      open == Open(passed)
  IN [optimizedIsA |-> isA, checks |-> groups, passed |-> passed,
      decisions |-> answers,
      outcome |-> IF Regressed(passed) THEN "loss"
                  ELSE IF BothFailed(passed) THEN "tie"
                  ELSE AggregateJudges(answers, isA),
      critical |-> Regressed(passed),
      fatal |-> open /\ FatalOptimized(answers, isA)]

Count(recs, field, value) == Cardinality({c \in DOMAIN recs : recs[c][field] = value})

\* Slip: an optimized output that failed its checks is not counted.
TotalsBlindToHard(recs) ==
  [wins |-> Count(recs, "outcome", "win"),
   ties |-> Count(recs, "outcome", "tie"),
   losses |-> Count(recs, "outcome", "loss"),
   critical |-> Count(recs, "critical", TRUE),
   fatal |-> Count(recs, "fatal", TRUE),
   hard |-> Count(recs, "critical", TRUE)]

Totals(recs) ==
  [wins |-> Count(recs, "outcome", "win"),
   ties |-> Count(recs, "outcome", "tie"),
   losses |-> Count(recs, "outcome", "loss"),
   critical |-> Count(recs, "critical", TRUE),
   fatal |-> Count(recs, "fatal", TRUE),
   hard |-> Cardinality({c \in DOMAIN recs : ~recs[c].passed["optimized"]})]

Gate(cases, totals) ==
  /\ cases >= MinimumCases
  /\ totals.wins > totals.losses
  /\ totals.critical = 0 /\ totals.fatal = 0 /\ totals.hard = 0

InferEvidence(cases, gate) == IF cases >= MinimumCases /\ gate THEN "E2" ELSE "E1"

Evaluated(recs) ==
  LET cases == Cardinality(DOMAIN recs)
      gate == Gate(cases, Totals(recs))
  IN [records |-> recs, caseCount |-> cases, totals |-> Totals(recs), gate |-> gate,
      evidence |-> InferEvidence(cases, gate)]

Init ==
  /\ suite \in SUBSET Cases \ {{}}
  /\ optimizedIsA \in [suite -> BOOLEAN]
  /\ pc = "next" /\ case = Null /\ checks = Null /\ decisions = <<>>
  /\ records = <<>>
  /\ result = Null /\ artifact = Null
  /\ opinions = [c \in suite |-> <<>>]

Passed == [side \in Sides |-> HardPassed(checks[side])]

\* Both executions of the next case and the checks of their outputs.
Execute(c) ==
  /\ pc = "next" /\ c \in suite \ DOMAIN records
  /\ \E groups \in [Sides -> CheckGroups] :
       checks' = groups /\ case' = c /\ decisions' = <<>> /\ pc' = "judging"
  /\ UNCHANGED <<suite, optimizedIsA, records, result, artifact, opinions>>

\* The next judge answers for the two labels.
Judge ==
  /\ pc = "judging" /\ Open(Passed) /\ Len(decisions) < Judges
  /\ \E o \in Opinions :
       /\ decisions' = Append(decisions, DecisionOn(o, optimizedIsA[case]))
       /\ opinions' = [opinions EXCEPT ![case] = Append(@, o)]
  /\ UNCHANGED <<suite, optimizedIsA, pc, case, checks, records, result, artifact>>

Decide ==
  /\ pc = "judging" /\ (Open(Passed) => Len(decisions) = Judges)
  /\ records' = [c \in DOMAIN records \cup {case} |->
                   IF c = case THEN Record(optimizedIsA[case], checks, decisions)
                   ELSE records[c]]
  /\ pc' = "next" /\ case' = Null /\ checks' = Null /\ decisions' = <<>>
  /\ UNCHANGED <<suite, optimizedIsA, result, artifact, opinions>>

\* An execution or a judge raises: the whole suite is abandoned.
CallRaises ==
  /\ \/ pc = "next" /\ DOMAIN records # suite
     \/ pc = "judging" /\ Open(Passed) /\ Len(decisions) < Judges
  /\ pc' = "failed"
  /\ UNCHANGED <<suite, optimizedIsA, case, checks, decisions, records, result,
                 artifact, opinions>>

Conclude ==
  /\ pc = "next" /\ DOMAIN records = suite
  /\ result' = Evaluated(records) /\ artifact' = Evaluated(records)
  /\ pc' = "written"
  /\ UNCHANGED <<suite, optimizedIsA, case, checks, decisions, records, opinions>>

------------------------------------------------------------------------------
(* Readers take evaluation.json from a directory, with whatever was written *)
(* there: another writer may state other facts or claim more than they show.*)

RecordVariants(r) ==
       {[r EXCEPT !.outcome = o] : o \in Outcomes}
  \cup {[r EXCEPT !.critical = ~@], [r EXCEPT !.fatal = ~@],
        [r EXCEPT !.optimizedIsA = ~@],
        [r EXCEPT !.passed["original"] = ~@], [r EXCEPT !.passed["optimized"] = ~@],
        [r EXCEPT !.decisions = IF @ = <<>> THEN @ ELSE Tail(@)]}
  \cup {[r EXCEPT !.checks[side] = g] : side \in Sides, g \in CheckGroups}

\* One record differs, with the sums to match, or one of the sums does.
Variants(a) ==
  (UNION {{Evaluated([a.records EXCEPT ![c] = r]) : r \in RecordVariants(a.records[c])} :
            c \in DOMAIN a.records})
  \cup {[a EXCEPT !.gate = ~@], [a EXCEPT !.evidence = "E2"],
        [a EXCEPT !.totals.losses = 0], [a EXCEPT !.totals.hard = 0]}

Rewrite ==
  /\ pc = "written"
  /\ artifact' \in Variants(artifact)
  /\ pc' = "rewritten"
  /\ UNCHANGED <<suite, optimizedIsA, case, checks, decisions, records, result, opinions>>

Next ==
  \/ \E c \in Cases : Execute(c)
  \/ Judge \/ Decide \/ CallRaises \/ Conclude \/ Rewrite

Spec == Init /\ [][Next]_vars

------------------------------------------------------------------------------
(* The validator.                                                          *)

\* Slip: advisory checks are recomputed as if they decided.
GroupsMatchAll(r) == \A side \in Sides : r.passed[side] = AllPassed(r.checks[side])

\* The claimed result of a check group is recomputed from its checks.
GroupsMatch(r) == \A side \in Sides : r.passed[side] = HardPassed(r.checks[side])

\* Slip: the claimed outcome of an open case is believed.
DerivedOrOpen(c, r) ==
  LET passed == [side \in Sides |-> HardPassed(r.checks[side])]
  IN /\ r.critical = Regressed(passed)
     /\ Regressed(passed) => r.outcome = "loss" /\ ~r.fatal
     /\ BothFailed(passed) => r.outcome = "tie" /\ ~r.fatal

\* Outcome, regression and flaw follow from the checks, else from the answers
\* of at least two judges, read under the labels of the seed.
RecordIsDerived(c, r) ==
  LET passed == [side \in Sides |-> HardPassed(r.checks[side])]
  IN /\ r.critical = Regressed(passed)
     /\ Regressed(passed) => r.outcome = "loss" /\ ~r.fatal
     /\ BothFailed(passed) => r.outcome = "tie" /\ ~r.fatal
     /\ Open(passed) =>
          /\ Len(r.decisions) >= 2
          /\ r.outcome = AggregateJudges(r.decisions, optimizedIsA[c])
          /\ r.fatal = FatalOptimized(r.decisions, optimizedIsA[c])

LabelsMatchSeed(c, r) == r.optimizedIsA = optimizedIsA[c]

FailedChecks(recs) ==
  Cardinality({c \in DOMAIN recs : ~HardPassed(recs[c].checks["optimized"])})

\* The sums are taken from the claims of the records, except for the hard
\* failures, which are taken from the recomputed groups.
SumsMatch(a) ==
  LET hard == FailedChecks(a.records)
      expected == [Totals(a.records) EXCEPT !.hard = hard]
      cases == Cardinality(DOMAIN a.records)
  IN /\ a.caseCount = cases
     /\ a.totals = expected
     /\ a.gate = Gate(cases, expected)
     /\ a.evidence = InferEvidence(cases, Gate(cases, expected))

Accepts(a) ==
  /\ \A c \in DOMAIN a.records :
       /\ GroupsMatch(a.records[c])
       /\ LabelsMatchSeed(c, a.records[c])
       /\ RecordIsDerived(c, a.records[c])
  /\ SumsMatch(a)

------------------------------------------------------------------------------
(* Properties                                                              *)

Prefer(c, side) == {j \in DOMAIN opinions[c] : opinions[c][j].prefers = side}
SawFatal(c, side) == \E j \in DOMAIN opinions[c] : side \in opinions[c][j].fatal

\* A case is won only by what the judges thought of the outputs themselves: the
\* optimized output passed its checks, no judge saw a fatal flaw in it, and it
\* was preferred more often than the original, wherever the two were placed.
WinIsPreferred ==
  \A c \in DOMAIN records :
    LET ahead == Cardinality(Prefer(c, "optimized")) - Cardinality(Prefer(c, "original"))
        ok(side) == HardPassed(records[c].checks[side])
    IN records[c].outcome = "win" <=>
         ok("optimized") /\ ~SawFatal(c, "optimized") /\ ahead > 0

\* A suite that passes its gate did no harm on any case: every optimized output
\* passed its checks, no judge saw a fatal flaw in one, and more cases were won
\* by preference than lost.
PassedDoesNoHarm ==
  result # Null /\ result.gate =>
    LET Leads(c, x, y) == Cardinality(Prefer(c, x)) > Cardinality(Prefer(c, y))
    IN /\ Cardinality(suite) >= MinimumCases
       /\ \A c \in suite : /\ HardPassed(result.records[c].checks["optimized"])
                           /\ ~SawFatal(c, "optimized")
       /\ Cardinality({c \in suite : Leads(c, "optimized", "original")})
            > Cardinality({c \in suite : Leads(c, "original", "optimized")})

\* The validator accepts what the evaluator writes.
WrittenIsAccepted == result # Null => Accepts(result)

\* An artifact the validator accepts carries the verdict the evaluator would
\* have reached from the checks and answers in it, whoever wrote it.
AcceptedIsDerived ==
  artifact # Null /\ Accepts(artifact) =>
    LET Again(c) == Record(optimizedIsA[c], artifact.records[c].checks,
                           artifact.records[c].decisions)
    IN artifact = Evaluated([c \in DOMAIN artifact.records |-> Again(c)])
===============================================================================
