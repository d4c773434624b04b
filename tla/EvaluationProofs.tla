---------------------------- MODULE EvaluationProofs ----------------------------
(***************************************************************************)
(* Proofs about the evaluation of a prompt pair and its validator, for     *)
(* every suite, every placement of the outputs, every number of judges and *)
(* whatever they think, and any threshold of cases.                        *)
(***************************************************************************)
EXTENDS Evaluation, FiniteSetTheorems, SequenceTheorems, TLAPS

\* What the judges of a case answered, under its labels.
Answers(c) == [j \in 1 .. Len(opinions[c]) |-> DecisionOn(opinions[c][j], optimizedIsA[c])]

PassedOf(groups) == [side \in Sides |-> HardPassed(groups[side])]

\* A record follows from its checks and, where those leave the case open, from
\* one opinion of every judge.
RecordOK(c, r) ==
  /\ r = Record(optimizedIsA[c], r.checks, Answers(c))
  /\ Len(opinions[c]) = IF Open(PassedOf(r.checks)) THEN Judges ELSE 0

ShapeInv ==
  /\ suite \in SUBSET Cases /\ optimizedIsA \in [suite -> BOOLEAN]
  /\ DOMAIN records \subseteq suite /\ records = [c \in DOMAIN records |-> records[c]]
  /\ opinions \in [suite -> Seq(Opinion)]

\* The answers to the case under way are the opinions its judges had so far,
\* and no judge has seen a case that is not under way.
JudgingInv ==
  /\ pc = "judging" =>
       /\ case \in suite \ DOMAIN records
       /\ decisions = Answers(case)
       /\ Len(opinions[case]) <= IF Open(Passed) THEN Judges ELSE 0
  /\ \A c \in suite \ DOMAIN records :
       pc = "next" \/ (pc = "judging" /\ c # case) => opinions[c] = <<>>

RecordsInv == \A c \in DOMAIN records : RecordOK(c, records[c])

ResultInv ==
  /\ result # Null => /\ DOMAIN records = suite /\ result = Evaluated(records)
                      /\ pc \in {"written", "rewritten"}
  /\ pc = "written" => artifact = Evaluated(records)

\* Whoever writes an artifact, its parts are there and its flags are flags.
IsRecord(r) ==
  /\ r = [optimizedIsA |-> r.optimizedIsA, checks |-> r.checks, passed |-> r.passed,
          decisions |-> r.decisions, outcome |-> r.outcome,
          critical |-> r.critical, fatal |-> r.fatal]
  /\ r.passed \in [Sides -> BOOLEAN] /\ r.critical \in BOOLEAN /\ r.fatal \in BOOLEAN

IsArtifact(a) ==
  /\ a = [records |-> a.records, caseCount |-> a.caseCount, totals |-> a.totals,
          gate |-> a.gate, evidence |-> a.evidence]
  /\ a.records = [c \in DOMAIN a.records |-> a.records[c]]
  /\ \A c \in DOMAIN a.records : IsRecord(a.records[c])

ArtifactInv == artifact # Null => IsArtifact(artifact)

EvalInv == ShapeInv /\ JudgingInv /\ RecordsInv /\ ResultInv /\ ArtifactInv

------------------------------------------------------------------------------
(* Every step of the evaluator keeps the invariant.                        *)

LEMMA EvalInit == Init => EvalInv
<1> SUFFICES ASSUME Init PROVE EvalInv
  OBVIOUS
<1>1. /\ suite \in SUBSET Cases /\ optimizedIsA \in [suite -> BOOLEAN] /\ pc = "next"
      /\ records = <<>> /\ result = Null /\ artifact = Null /\ opinions = [c \in suite |-> <<>>]
  BY DEF Init
<1>2. DOMAIN records = {}
  BY <1>1
<1>3. opinions \in [suite -> Seq(Opinion)]
  BY <1>1
<1>4. QED
  BY <1>1, <1>2, <1>3 DEF EvalInv, ShapeInv, JudgingInv, RecordsInv, ResultInv, ArtifactInv

LEMMA ExecuteKeeps ==
  ASSUME EvalInv, NEW c \in Cases, Execute(c)
  PROVE  EvalInv'
<1>1. /\ pc = "next" /\ c \in suite \ DOMAIN records /\ case' = c /\ decisions' = <<>>
      /\ pc' = "judging"
      /\ UNCHANGED <<suite, optimizedIsA, records, result, artifact, opinions>>
  BY DEF Execute
<1>2. opinions[c] = <<>>
  BY <1>1 DEF EvalInv, JudgingInv
<1>3. /\ decisions' = [j \in 1 .. Len(opinions[c]) |-> DecisionOn(opinions[c][j], optimizedIsA[c])]
      /\ Len(opinions[c]) = 0
  BY <1>1, <1>2
<1>4. JudgingInv'
  <2>1. decisions' = Answers(case)'
    BY <1>1, <1>3 DEF Answers, DecisionOn
  <2>2. Len(opinions[case])' <= IF Open(Passed)' THEN Judges ELSE 0
    BY <1>1, <1>3, EvaluationAssumption
  <2>3. \A d \in suite' \ DOMAIN records' :
          pc' = "next" \/ (pc' = "judging" /\ d # case') => opinions'[d] = <<>>
    BY <1>1 DEF EvalInv, JudgingInv
  <2>4. QED
    BY <1>1, <2>1, <2>2, <2>3 DEF JudgingInv
<1>5. ResultInv'
  BY <1>1 DEF EvalInv, ResultInv
<1>6. RecordsInv'
  BY <1>1 DEF EvalInv, RecordsInv, RecordOK, Answers
<1>7. ShapeInv' /\ ArtifactInv'
  BY <1>1 DEF EvalInv, ShapeInv, ArtifactInv
<1>8. QED
  BY <1>4, <1>5, <1>6, <1>7 DEF EvalInv

LEMMA AnswersGrow ==
  ASSUME NEW s \in Seq(Opinion), NEW o \in Opinion, NEW isA
  PROVE  Append([j \in 1 .. Len(s) |-> DecisionOn(s[j], isA)], DecisionOn(o, isA))
           = [j \in 1 .. Len(Append(s, o)) |-> DecisionOn(Append(s, o)[j], isA)]
<1>1. PICK n \in Nat : n = Len(s)
  OBVIOUS
<1>2. Len(Append(s, o)) = n + 1 /\ \A j \in 1 .. n : Append(s, o)[j] = s[j]
  BY <1>1
<1>3. Append(s, o)[n + 1] = o
  BY <1>1
<1>4. PICK f : f = [j \in 1 .. n |-> DecisionOn(s[j], isA)]
  OBVIOUS
<1>5. Append(f, DecisionOn(o, isA))
        = [j \in 1 .. n + 1 |-> IF j <= n THEN f[j] ELSE DecisionOn(o, isA)]
  <2>1. PICK D, v : v = DecisionOn(o, isA) /\ D = {DecisionOn(p, isA) : p \in Opinion}
    OBVIOUS
  <2>2. f \in Seq(D) /\ v \in D /\ Len(f) = n
    <3>1. \A j \in 1 .. n : s[j] \in Opinion
      BY <1>1
    <3>2. \A j \in 1 .. n : f[j] \in D
      BY <3>1, <2>1, <1>4
    <3>3. f \in [1 .. n -> D]
      BY <3>2, <1>4
    <3>4. QED
      BY <3>3, <2>1, <1>4
  <2>3. Append(f, v) = [j \in 1 .. n + 1 |-> IF j <= n THEN f[j] ELSE v]
    <3>1. PICK g \in Seq(D) : g = Append(f, v)
      BY <2>2, AppendProperties
    <3>2. Len(g) = n + 1 /\ g[n + 1] = v /\ \A j \in 1 .. n : g[j] = f[j]
      BY <2>2, <3>1, AppendProperties
    <3>3. g = [j \in 1 .. n + 1 |-> g[j]]
      BY <3>1, <3>2, LenProperties
    <3>4. \A j \in 1 .. n + 1 : g[j] = IF j <= n THEN f[j] ELSE v
      BY <3>2
    <3>5. QED
      BY <3>1, <3>3, <3>4
  <2>4. QED
    BY <2>1, <2>3
<1>6. \A j \in 1 .. n + 1 : (IF j <= n THEN f[j] ELSE DecisionOn(o, isA))
                              = DecisionOn(Append(s, o)[j], isA)
  BY <1>1, <1>2, <1>3, <1>4
<1>7. QED
  BY <1>1, <1>2, <1>4, <1>5, <1>6

LEMMA JudgeKeeps ==
  ASSUME EvalInv, Judge
  PROVE  EvalInv'
<1>1. PICK o \in Opinions :
        /\ decisions' = Append(decisions, DecisionOn(o, optimizedIsA[case]))
        /\ opinions' = [opinions EXCEPT ![case] = Append(@, o)]
  BY DEF Judge
<1>2. /\ pc = "judging" /\ Open(Passed) /\ Len(decisions) < Judges
      /\ UNCHANGED <<suite, optimizedIsA, pc, case, checks, records, result, artifact>>
  BY DEF Judge
<1>3. /\ case \in suite \ DOMAIN records /\ decisions = Answers(case) /\ o \in Opinion
      /\ opinions \in [suite -> Seq(Opinion)]
  BY <1>2, EvaluationAssumption DEF EvalInv, JudgingInv, ShapeInv
<1>4. PICK s \in Seq(Opinion) : s = opinions[case]
  BY <1>3
<1>5. /\ opinions'[case] = Append(s, o) /\ \A c \in suite \ {case} : opinions'[c] = opinions[c]
      /\ opinions' \in [suite -> Seq(Opinion)]
  BY <1>1, <1>3, <1>4
<1>6. decisions' = Answers(case)'
  <2>1. decisions = [j \in 1 .. Len(s) |-> DecisionOn(s[j], optimizedIsA[case])]
    BY <1>3, <1>4 DEF Answers
  <2>2. decisions' = [j \in 1 .. Len(Append(s, o)) |->
                        DecisionOn(Append(s, o)[j], optimizedIsA[case])]
    BY <1>1, <1>3, <2>1, AnswersGrow
  <2>3. QED
    BY <1>2, <1>5, <2>2 DEF Answers, DecisionOn
<1>7. Len(s) < Judges /\ Len(Append(s, o)) = Len(s) + 1 /\ Len(s) \in Nat
  <2>1. Len(decisions) = Len(s)
    BY <1>3, <1>4 DEF Answers
  <2>2. QED
    BY <1>2, <1>3, <1>4, <2>1
<1>8. JudgingInv'
  <2>1. Open(Passed)'
    BY <1>2 DEF Passed, Open, Regressed, BothFailed
  <2>2. Len(opinions[case])' <= IF Open(Passed)' THEN Judges ELSE 0
    BY <1>2, <1>5, <1>7, <2>1, EvaluationAssumption
  <2>3. \A c \in suite' \ DOMAIN records' :
          pc' = "next" \/ (pc' = "judging" /\ c # case') => opinions'[c] = <<>>
    BY <1>2, <1>5 DEF EvalInv, JudgingInv
  <2>4. QED
    BY <1>2, <1>3, <1>6, <2>2, <2>3 DEF JudgingInv
<1>9. RecordsInv'
  <2> SUFFICES ASSUME NEW c \in DOMAIN records PROVE RecordOK(c, records[c])'
    BY <1>2 DEF RecordsInv
  <2>1. c # case /\ c \in suite /\ RecordOK(c, records[c])
    BY <1>3 DEF EvalInv, RecordsInv, ShapeInv
  <2>2. opinions'[c] = opinions[c]
    BY <1>5, <2>1
  <2>3. QED
    BY <1>2, <2>1, <2>2 DEF RecordOK, Answers
<1>10. ShapeInv' /\ ResultInv' /\ ArtifactInv'
  BY <1>2, <1>5 DEF EvalInv, ShapeInv, ResultInv, ArtifactInv
<1>11. QED
  BY <1>8, <1>9, <1>10 DEF EvalInv

LEMMA DecideKeeps ==
  ASSUME EvalInv, Decide
  PROVE  EvalInv'
<1>1. PICK d : d = case
  OBVIOUS
<1>2. PICK r : r = Record(optimizedIsA[d], checks, decisions)
  OBVIOUS
<1>3. /\ pc = "judging" /\ (Open(Passed) => Len(decisions) = Judges) /\ pc' = "next"
      /\ UNCHANGED <<suite, optimizedIsA, result, artifact, opinions>>
      /\ records' = [c \in DOMAIN records \cup {d} |-> IF c = d THEN r ELSE records[c]]
  BY <1>1, <1>2 DEF Decide
<1>4. /\ d \in suite \ DOMAIN records /\ decisions = Answers(d)
      /\ Len(opinions[d]) <= IF Open(Passed) THEN Judges ELSE 0
      /\ opinions[d] \in Seq(Opinion)
  BY <1>1, <1>3 DEF EvalInv, JudgingInv, ShapeInv
<1>5. r.checks = checks /\ r = Record(optimizedIsA[d], r.checks, Answers(d))
  BY <1>2, <1>4 DEF Record
<1>6. Len(opinions[d]) = IF Open(PassedOf(r.checks)) THEN Judges ELSE 0
  <2>1. Len(decisions) = Len(opinions[d]) /\ Len(opinions[d]) \in Nat
    BY <1>4 DEF Answers
  <2>2. PassedOf(r.checks) = Passed
    BY <1>5 DEF PassedOf, Passed
  <2>3. QED
    BY <1>3, <1>4, <2>1, <2>2
<1>7. RecordOK(d, r)
  BY <1>5, <1>6 DEF RecordOK
<1>8. /\ DOMAIN records' = DOMAIN records \cup {d} /\ records'[d] = r
      /\ \A c \in DOMAIN records : records'[c] = records[c]
  BY <1>3, <1>4
<1>9. RecordsInv'
  <2> SUFFICES ASSUME NEW c \in DOMAIN records' PROVE RecordOK(c, records[c])'
    BY DEF RecordsInv
  <2>1. RecordOK(c, records'[c])
    BY <1>7, <1>8 DEF EvalInv, RecordsInv
  <2>2. QED
    BY <1>3, <2>1 DEF RecordOK, Answers
<1>10. JudgingInv'
  BY <1>1, <1>3, <1>8 DEF EvalInv, JudgingInv
<1>11. ResultInv'
  BY <1>3 DEF EvalInv, ResultInv
<1>12. ShapeInv' /\ ArtifactInv'
  BY <1>3, <1>4, <1>8 DEF EvalInv, ShapeInv, ArtifactInv
<1>13. QED
  BY <1>9, <1>10, <1>11, <1>12 DEF EvalInv

\* What the evaluator writes has its parts.
LEMMA EvaluatedIsArtifact ==
  ASSUME NEW S, NEW recs, recs = [c \in S |-> recs[c]], \A c \in S : IsRecord(recs[c])
  PROVE  IsArtifact(Evaluated(recs)) /\ Evaluated(recs).records = recs
<1>1. Evaluated(recs).records = recs /\ DOMAIN recs = S
  BY DEF Evaluated
<1>2. LET a == Evaluated(recs)
      IN a = [records |-> a.records, caseCount |-> a.caseCount, totals |-> a.totals,
              gate |-> a.gate, evidence |-> a.evidence]
  BY DEF Evaluated
<1>3. QED
  BY <1>1, <1>2 DEF IsArtifact

LEMMA RecordIsRecord ==
  ASSUME NEW isA, NEW groups, NEW answers
  PROVE  IsRecord(Record(isA, groups, answers))
<1>1. \A group : HardPassed(group) \in BOOLEAN
  BY DEF HardPassed
<1>2. [side \in Sides |-> HardPassed(groups[side])] \in [Sides -> BOOLEAN]
  BY <1>1
<1>3. QED
  BY <1>2 DEF Record, IsRecord, Open, Regressed, BothFailed, FatalOptimized

LEMMA ConcludeKeeps ==
  ASSUME EvalInv, Conclude
  PROVE  EvalInv'
<1>1. /\ pc = "next" /\ DOMAIN records = suite
      /\ result' = Evaluated(records) /\ artifact' = Evaluated(records) /\ pc' = "written"
      /\ UNCHANGED <<suite, optimizedIsA, case, checks, decisions, records, opinions>>
  BY DEF Conclude
<1>2. \A c \in DOMAIN records : IsRecord(records[c])
  BY RecordIsRecord DEF EvalInv, RecordsInv, RecordOK
<1>3. ArtifactInv'
  BY <1>1, <1>2, EvaluatedIsArtifact DEF ArtifactInv, EvalInv, ShapeInv
<1>4. ResultInv'
  BY <1>1 DEF ResultInv, Evaluated, Totals, Gate, InferEvidence, Count
<1>5. RecordsInv'
  BY <1>1 DEF EvalInv, RecordsInv, RecordOK, Answers
<1>6. ShapeInv' /\ JudgingInv'
  BY <1>1 DEF EvalInv, ShapeInv, JudgingInv
<1>7. QED
  BY <1>3, <1>4, <1>5, <1>6 DEF EvalInv

LEMMA CallRaisesKeeps ==
  ASSUME EvalInv, CallRaises
  PROVE  EvalInv'
<1>1. /\ pc \in {"next", "judging"} /\ pc' = "failed"
      /\ UNCHANGED <<suite, optimizedIsA, case, checks, decisions, records, result,
                     artifact, opinions>>
  BY DEF CallRaises
<1>2. JudgingInv' /\ ResultInv'
  BY <1>1 DEF EvalInv, JudgingInv, ResultInv
<1>3. RecordsInv'
  BY <1>1 DEF EvalInv, RecordsInv, RecordOK, Answers
<1>4. ShapeInv' /\ ArtifactInv'
  BY <1>1 DEF EvalInv, ShapeInv, ArtifactInv
<1>5. QED
  BY <1>2, <1>3, <1>4 DEF EvalInv

\* Another writer states other facts, but still states them.
LEMMA VariantIsRecord ==
  ASSUME NEW r, IsRecord(r), NEW v \in RecordVariants(r)
  PROVE  IsRecord(v)
<1>1. PICK isA, groups, passed, answers, outcome, critical, fatal :
        r = [optimizedIsA |-> isA, checks |-> groups, passed |-> passed,
             decisions |-> answers, outcome |-> outcome,
             critical |-> critical, fatal |-> fatal]
  BY DEF IsRecord
<1>2. passed \in [Sides -> BOOLEAN] /\ critical \in BOOLEAN /\ fatal \in BOOLEAN
  BY <1>1 DEF IsRecord
<1>3. CASE \E o \in Outcomes : v = [r EXCEPT !.outcome = o]
  BY <1>1, <1>2, <1>3 DEF IsRecord
<1>4. CASE v = [r EXCEPT !.critical = ~@] \/ v = [r EXCEPT !.fatal = ~@]
  BY <1>1, <1>2, <1>4 DEF IsRecord
<1>5. CASE v = [r EXCEPT !.optimizedIsA = ~@]
  BY <1>1, <1>2, <1>5 DEF IsRecord
<1>6. CASE \E side \in Sides : v = [r EXCEPT !.passed[side] = ~@]
  <2>1. PICK side \in Sides : v = [r EXCEPT !.passed[side] = ~@]
    BY <1>6
  <2>2. [passed EXCEPT ![side] = ~passed[side]] \in [Sides -> BOOLEAN]
    BY <1>2
  <2>3. v = [r EXCEPT !.passed = [passed EXCEPT ![side] = ~passed[side]]]
    BY <1>1, <2>1
  <2>4. QED
    BY <1>1, <1>2, <2>2, <2>3 DEF IsRecord
<1>7. CASE v = [r EXCEPT !.decisions = IF @ = <<>> THEN @ ELSE Tail(@)]
  BY <1>1, <1>2, <1>7 DEF IsRecord
<1>8. CASE \E side \in Sides, g \in CheckGroups : v = [r EXCEPT !.checks[side] = g]
  BY <1>1, <1>2, <1>8 DEF IsRecord
<1>9. QED
  BY <1>3, <1>4, <1>5, <1>6, <1>7, <1>8 DEF RecordVariants, Sides

LEMMA VariantIsArtifact ==
  ASSUME NEW a, IsArtifact(a), NEW v \in Variants(a)
  PROVE  IsArtifact(v)
<1>1. PICK recs, cases, totals, gate, evidence :
        a = [records |-> recs, caseCount |-> cases, totals |-> totals,
             gate |-> gate, evidence |-> evidence]
  BY DEF IsArtifact
<1>2. recs = [c \in DOMAIN recs |-> recs[c]] /\ \A c \in DOMAIN recs : IsRecord(recs[c])
  BY <1>1 DEF IsArtifact
<1>3. CASE \E c \in DOMAIN recs : \E r \in RecordVariants(recs[c]) :
             v = Evaluated([recs EXCEPT ![c] = r])
  <2>1. PICK c \in DOMAIN recs : \E r \in RecordVariants(recs[c]) :
               v = Evaluated([recs EXCEPT ![c] = r])
    BY <1>3
  <2>2. PICK r \in RecordVariants(recs[c]) : v = Evaluated([recs EXCEPT ![c] = r])
    BY <2>1
  <2>3. IsRecord(r)
    BY <1>2, <2>2, VariantIsRecord
  <2>4. PICK other : other = [recs EXCEPT ![c] = r]
    OBVIOUS
  <2>5. /\ other = [d \in DOMAIN recs |-> other[d]]
        /\ \A d \in DOMAIN recs : other[d] = IF d = c THEN r ELSE recs[d]
    BY <1>2, <2>1, <2>4
  <2>6. \A d \in DOMAIN recs : IsRecord(other[d])
    BY <1>2, <2>3, <2>5
  <2>7. QED
    BY <2>2, <2>4, <2>5, <2>6, EvaluatedIsArtifact
<1>4. CASE v = [a EXCEPT !.gate = ~@] \/ v = [a EXCEPT !.evidence = "E2"]
  <2>1. \E g, e : v = [records |-> recs, caseCount |-> cases, totals |-> totals,
                       gate |-> g, evidence |-> e]
    BY <1>1, <1>4
  <2>2. QED
    BY <1>2, <2>1 DEF IsArtifact
<1>5. CASE v = [a EXCEPT !.totals.losses = 0] \/ v = [a EXCEPT !.totals.hard = 0]
  <2>1. \E t : v = [records |-> recs, caseCount |-> cases, totals |-> t,
                    gate |-> gate, evidence |-> evidence]
    BY <1>1, <1>5
  <2>2. QED
    BY <1>2, <2>1 DEF IsArtifact
<1>6. a.records = recs
  BY <1>1
<1>7. CASE v \in UNION {{Evaluated([a.records EXCEPT ![c] = r]) :
                         r \in RecordVariants(a.records[c])} : c \in DOMAIN a.records}
  <2>1. PICK c \in DOMAIN a.records :
          v \in {Evaluated([a.records EXCEPT ![c] = r]) : r \in RecordVariants(a.records[c])}
    BY <1>7
  <2>2. PICK r \in RecordVariants(a.records[c]) : v = Evaluated([a.records EXCEPT ![c] = r])
    BY <2>1
  <2>3. QED
    BY <1>3, <1>6, <2>1, <2>2
<1>8. CASE v \in {[a EXCEPT !.gate = ~@], [a EXCEPT !.evidence = "E2"],
                 [a EXCEPT !.totals.losses = 0], [a EXCEPT !.totals.hard = 0]}
  BY <1>4, <1>5, <1>8
<1>9. QED
  BY <1>7, <1>8, Zenon DEF Variants

LEMMA RewriteKeeps ==
  ASSUME EvalInv, Rewrite
  PROVE  EvalInv'
<1>1. /\ pc = "written" /\ artifact' \in Variants(artifact) /\ pc' = "rewritten"
      /\ UNCHANGED <<suite, optimizedIsA, case, checks, decisions, records, result, opinions>>
  BY DEF Rewrite
<1>2. IsArtifact(artifact)
  <2>1. \A c \in DOMAIN records : IsRecord(records[c])
    BY RecordIsRecord DEF EvalInv, RecordsInv, RecordOK
  <2>2. artifact = Evaluated(records) /\ records = [c \in DOMAIN records |-> records[c]]
    BY <1>1 DEF EvalInv, ResultInv, ShapeInv
  <2>3. QED
    BY <2>1, <2>2, EvaluatedIsArtifact
<1>3. ArtifactInv'
  BY <1>1, <1>2, VariantIsArtifact DEF ArtifactInv
<1>4. JudgingInv' /\ ResultInv'
  <2>1. JudgingInv'
    BY <1>1 DEF JudgingInv
  <2>2. Evaluated(records)' = Evaluated(records)
    BY <1>1 DEF Evaluated, Totals, Gate, InferEvidence, Count
  <2>3. QED
    BY <1>1, <2>1, <2>2 DEF EvalInv, ResultInv
<1>5. RecordsInv'
  BY <1>1 DEF EvalInv, RecordsInv, RecordOK, Answers
<1>6. ShapeInv'
  BY <1>1 DEF EvalInv, ShapeInv
<1>7. QED
  BY <1>3, <1>4, <1>5, <1>6 DEF EvalInv

\* Whatever the checks, the judges and later writers do, the answers recorded
\* for a case are those of its judges under its labels, its record follows from
\* them, and what was returned is the evaluation of the records.
THEOREM EvalInvariant == Spec => []EvalInv
<1>1. EvalInv /\ [Next]_vars => EvalInv'
  <2> SUFFICES ASSUME EvalInv, [Next]_vars PROVE EvalInv'
    OBVIOUS
  <2>1. CASE \E c \in Cases : Execute(c)
    BY <2>1, ExecuteKeeps
  <2>2. CASE Judge
    BY <2>2, JudgeKeeps
  <2>3. CASE Decide
    BY <2>3, DecideKeeps
  <2>4. CASE CallRaises
    BY <2>4, CallRaisesKeeps
  <2>5. CASE Conclude
    BY <2>5, ConcludeKeeps
  <2>6. CASE Rewrite
    BY <2>6, RewriteKeeps
  <2>7. CASE UNCHANGED vars
    <3>1. UNCHANGED <<suite, optimizedIsA, pc, case, checks, decisions, records, result,
                      artifact, opinions>>
      BY <2>7 DEF vars
    <3>2. JudgingInv'
      <4>1. Passed' = Passed
        BY <3>1 DEF Passed, HardPassed
      <4>2. QED
        BY <3>1, <4>1 DEF EvalInv, JudgingInv, Answers, Open, Regressed, BothFailed
    <3>3. ShapeInv' /\ ResultInv' /\ ArtifactInv'
      BY <3>1 DEF EvalInv, ShapeInv, ResultInv, ArtifactInv
    <3>4. RecordsInv'
      BY <3>1 DEF EvalInv, RecordsInv, RecordOK, Answers
    <3>5. QED
      BY <3>2, <3>3, <3>4 DEF EvalInv
  <2>8. QED
    BY <2>1, <2>2, <2>3, <2>4, <2>5, <2>6, <2>7 DEF Next
<1>2. QED
  BY <1>1, EvalInit, PTL DEF Spec

------------------------------------------------------------------------------
(* What the invariant says of every state.                                 *)

\* The placement is undone: an answer counts for the output the judge meant.
LEMMA PlacementIsUndone ==
  ASSUME NEW o \in Opinion, NEW isA \in BOOLEAN
  PROVE  /\ MapWinner(DecisionOn(o, isA).winner, isA) = "win" <=> o.prefers = "optimized"
         /\ MapWinner(DecisionOn(o, isA).winner, isA) = "loss" <=> o.prefers = "original"
         /\ LabelOf("optimized", isA) \in DecisionOn(o, isA).fatal <=> "optimized" \in o.fatal
<1>1. o.prefers \in {"original", "optimized", "tie"} /\ o.fatal \subseteq {"original", "optimized"}
  BY DEF Opinion, Sides
<1>2. DecisionOn(o, isA).winner = IF o.prefers = "tie" THEN "tie" ELSE LabelOf(o.prefers, isA)
  BY DEF DecisionOn
<1>3. DecisionOn(o, isA).fatal = {LabelOf(side, isA) : side \in o.fatal}
  BY DEF DecisionOn
<1>4. LabelOf("optimized", isA) # LabelOf("original", isA)
  BY DEF LabelOf
<1>5. LabelOf("optimized", isA) \in DecisionOn(o, isA).fatal <=> "optimized" \in o.fatal
  BY <1>1, <1>3, <1>4
<1>6. /\ MapWinner(DecisionOn(o, isA).winner, isA) = "win" <=> o.prefers = "optimized"
      /\ MapWinner(DecisionOn(o, isA).winner, isA) = "loss" <=> o.prefers = "original"
  BY <1>1, <1>2 DEF LabelOf, MapWinner
<1>7. QED
  BY <1>5, <1>6

LEMMA VotesArePreferences ==
  ASSUME ShapeInv, NEW c \in suite
  PROVE  /\ Votes(Answers(c), optimizedIsA[c], "win") = Cardinality(Prefer(c, "optimized"))
         /\ Votes(Answers(c), optimizedIsA[c], "loss") = Cardinality(Prefer(c, "original"))
         /\ FatalOptimized(Answers(c), optimizedIsA[c]) <=> SawFatal(c, "optimized")
         /\ \A side : Cardinality(Prefer(c, side)) \in Nat
<1>1. PICK isA, s : isA = optimizedIsA[c] /\ s = opinions[c]
  OBVIOUS
<1>2. isA \in BOOLEAN /\ s \in Seq(Opinion)
  BY <1>1 DEF ShapeInv
<1>3. /\ Len(s) \in Nat /\ DOMAIN s = 1 .. Len(s)
      /\ \A j \in 1 .. Len(s) : s[j] \in Opinion
  BY <1>2, LenProperties, ElementOfSeq
<1>4. Answers(c) = [j \in 1 .. Len(s) |-> DecisionOn(s[j], isA)]
  BY <1>1 DEF Answers
<1>5. DOMAIN Answers(c) = 1 .. Len(s)
      /\ \A j \in 1 .. Len(s) : Answers(c)[j] = DecisionOn(s[j], isA)
  BY <1>4
<1>6. \A j \in 1 .. Len(s) :
        /\ MapWinner(Answers(c)[j].winner, isA) = "win" <=> s[j].prefers = "optimized"
        /\ MapWinner(Answers(c)[j].winner, isA) = "loss" <=> s[j].prefers = "original"
        /\ LabelOf("optimized", isA) \in Answers(c)[j].fatal <=> "optimized" \in s[j].fatal
  BY <1>2, <1>3, <1>5, PlacementIsUndone
<1>7. {j \in DOMAIN Answers(c) : MapWinner(Answers(c)[j].winner, isA) = "win"}
        = Prefer(c, "optimized")
  BY <1>1, <1>3, <1>5, <1>6 DEF Prefer
<1>8. {j \in DOMAIN Answers(c) : MapWinner(Answers(c)[j].winner, isA) = "loss"}
        = Prefer(c, "original")
  BY <1>1, <1>3, <1>5, <1>6 DEF Prefer
<1>9. FatalOptimized(Answers(c), isA) <=> SawFatal(c, "optimized")
  BY <1>1, <1>3, <1>5, <1>6 DEF FatalOptimized, SawFatal
<1>10. ASSUME NEW side PROVE Cardinality(Prefer(c, side)) \in Nat
  <2>1. Prefer(c, side) \subseteq 1 .. Len(s)
    BY <1>1, <1>3 DEF Prefer
  <2>2. IsFiniteSet(Prefer(c, side))
    <3>1. IsFiniteSet(1 .. Len(s))
      BY <1>3, FS_Interval
    <3>2. QED
      BY <2>1, <3>1, FS_Subset
  <2>3. QED
    BY <2>2, FS_CardinalityType
<1>11. QED
  BY <1>1, <1>7, <1>8, <1>9, <1>10 DEF Votes

\* How the record of a case follows from its checks and its judges.
LEMMA RecordSays ==
  ASSUME NEW isA, NEW groups, NEW answers, NEW r, r = Record(isA, groups, answers)
  PROVE  /\ r.optimizedIsA = isA /\ r.checks = groups /\ r.decisions = answers
         /\ r.passed = PassedOf(groups)
         /\ Regressed(PassedOf(groups)) => r.outcome = "loss"
         /\ BothFailed(PassedOf(groups)) => r.outcome = "tie"
         /\ Open(PassedOf(groups)) => r.outcome = AggregateJudges(answers, isA)
         /\ r.critical = Regressed(PassedOf(groups))
         /\ r.fatal = (Open(PassedOf(groups)) /\ FatalOptimized(answers, isA))
<1>1. r = [optimizedIsA |-> isA, checks |-> groups, passed |-> PassedOf(groups),
           decisions |-> answers,
           outcome |-> IF Regressed(PassedOf(groups)) THEN "loss"
                       ELSE IF BothFailed(PassedOf(groups)) THEN "tie"
                       ELSE AggregateJudges(answers, isA),
           critical |-> Regressed(PassedOf(groups)),
           fatal |-> Open(PassedOf(groups)) /\ FatalOptimized(answers, isA)]
  BY DEF Record, PassedOf
<1>2. ~(Regressed(PassedOf(groups)) /\ BothFailed(PassedOf(groups)))
  BY DEF Regressed, BothFailed
<1>3. Open(PassedOf(groups)) =>
        ~Regressed(PassedOf(groups)) /\ ~BothFailed(PassedOf(groups))
  BY DEF Open
<1>4. QED
  BY <1>1, <1>2, <1>3

LEMMA OptimizedPassed ==
  ASSUME NEW groups
  PROVE  /\ PassedOf(groups)["optimized"] = HardPassed(groups["optimized"])
         /\ HardPassed(groups["optimized"]) \in BOOLEAN
         /\ Open(PassedOf(groups)) <=> HardPassed(groups["optimized"])
         /\ ~Open(PassedOf(groups)) <=>
              Regressed(PassedOf(groups)) \/ BothFailed(PassedOf(groups))
<1>1. \A side \in Sides : PassedOf(groups)[side] = HardPassed(groups[side])
  BY DEF PassedOf
<1>2. \A side \in Sides : HardPassed(groups[side]) \in BOOLEAN
  BY DEF HardPassed
<1>3. PassedOf(groups)["original"] \in BOOLEAN /\ PassedOf(groups)["optimized"] \in BOOLEAN
  BY <1>1, <1>2 DEF Sides
<1>4. QED
  BY <1>1, <1>2, <1>3 DEF Sides, Open, Regressed, BothFailed

\* Who wins a case whose optimized output passed, and who does not.
LEMMA OutcomeFollows ==
  ASSUME EvalInv, NEW c \in DOMAIN records
  PROVE  LET ok == HardPassed(records[c].checks["optimized"])
             wins == Cardinality(Prefer(c, "optimized"))
             losses == Cardinality(Prefer(c, "original"))
             fatal == SawFatal(c, "optimized")
         IN /\ wins \in Nat /\ losses \in Nat
            /\ records[c].passed["optimized"] = ok
            /\ records[c].fatal = (ok /\ fatal)
            /\ records[c].outcome = "win" <=> ok /\ ~fatal /\ wins > losses
            /\ ok => (records[c].outcome = "loss" <=> fatal \/ losses > wins)
<1>1. PICK r, isA, groups : r = records[c] /\ isA = optimizedIsA[c] /\ groups = records[c].checks
  OBVIOUS
<1>2. c \in suite /\ r = Record(isA, groups, Answers(c))
  BY <1>1 DEF EvalInv, ShapeInv, RecordsInv, RecordOK
<1>3. PICK wins, losses, fatal :
        /\ wins = Cardinality(Prefer(c, "optimized"))
        /\ losses = Cardinality(Prefer(c, "original"))
        /\ fatal = SawFatal(c, "optimized")
  OBVIOUS
<1>4. /\ Votes(Answers(c), isA, "win") = wins /\ Votes(Answers(c), isA, "loss") = losses
      /\ FatalOptimized(Answers(c), isA) <=> fatal
      /\ wins \in Nat /\ losses \in Nat /\ fatal \in BOOLEAN
  <2>1. SawFatal(c, "optimized") \in BOOLEAN
    BY DEF SawFatal
  <2>2. QED
    BY <1>1, <1>2, <1>3, <2>1, VotesArePreferences DEF EvalInv
<1>5. AggregateJudges(Answers(c), isA) =
        IF fatal THEN "loss" ELSE IF wins > losses THEN "win"
        ELSE IF losses > wins THEN "loss" ELSE "tie"
  BY <1>4 DEF AggregateJudges
<1>6. /\ r.passed = PassedOf(groups)
      /\ Regressed(PassedOf(groups)) => r.outcome = "loss"
      /\ BothFailed(PassedOf(groups)) => r.outcome = "tie"
      /\ Open(PassedOf(groups)) => r.outcome = AggregateJudges(Answers(c), isA)
      /\ r.fatal = (Open(PassedOf(groups)) /\ FatalOptimized(Answers(c), isA))
  BY <1>2, RecordSays
<1>7. PICK ok \in BOOLEAN : ok = HardPassed(groups["optimized"])
  BY OptimizedPassed
<1>8. /\ PassedOf(groups)["optimized"] = ok /\ (Open(PassedOf(groups)) <=> ok)
      /\ ~ok => Regressed(PassedOf(groups)) \/ BothFailed(PassedOf(groups))
  BY <1>7, OptimizedPassed
<1>9. /\ r.outcome = "win" <=> ok /\ ~fatal /\ wins > losses
      /\ ok => (r.outcome = "loss" <=> fatal \/ losses > wins)
  BY <1>4, <1>5, <1>6, <1>8
<1>10. r.fatal = (ok /\ fatal) /\ r.passed["optimized"] = ok
  BY <1>4, <1>6, <1>8
<1>11. QED
  BY <1>1, <1>3, <1>4, <1>7, <1>9, <1>10

LEMMA RecordIsAccepted ==
  ASSUME EvalInv, NEW c \in DOMAIN records
  PROVE  LET r == records[c]
         IN GroupsMatch(r) /\ LabelsMatchSeed(c, r) /\ RecordIsDerived(c, r)
<1>1. PICK r, isA, groups, answers :
        r = records[c] /\ isA = optimizedIsA[c] /\ groups = records[c].checks
        /\ answers = Answers(c)
  OBVIOUS
<1>2. /\ c \in suite /\ r = Record(isA, groups, answers)
      /\ Len(opinions[c]) = IF Open(PassedOf(groups)) THEN Judges ELSE 0
      /\ opinions[c] \in Seq(Opinion)
  BY <1>1 DEF EvalInv, ShapeInv, RecordsInv, RecordOK
<1>3. PICK passed : passed = PassedOf(groups)
  OBVIOUS
<1>4. /\ r.optimizedIsA = isA /\ r.checks = groups /\ r.decisions = answers /\ r.passed = passed
      /\ Regressed(passed) => r.outcome = "loss"
      /\ BothFailed(passed) => r.outcome = "tie"
      /\ Open(passed) => r.outcome = AggregateJudges(answers, isA)
      /\ r.critical = Regressed(passed)
      /\ r.fatal = (Open(passed) /\ FatalOptimized(answers, isA))
  BY <1>2, <1>3, RecordSays
<1>5. Len(answers) = Len(opinions[c])
  <2>1. PICK n \in Nat : n = Len(opinions[c])
    BY <1>2
  <2>2. answers = [j \in 1 .. n |-> DecisionOn(opinions[c][j], isA)]
    BY <1>1, <2>1 DEF Answers
  <2>3. QED
    BY <2>1, <2>2
<1>6. Open(passed) => Len(answers) >= 2
  BY <1>2, <1>3, <1>5, EvaluationAssumption
<1>7. /\ Open(passed) <=> ~Regressed(passed) /\ ~BothFailed(passed)
      /\ FatalOptimized(answers, isA) \in BOOLEAN
  BY DEF Open, FatalOptimized
<1>8. RecordIsDerived(c, r)
  <2>1. passed = [side \in Sides |-> HardPassed(r.checks[side])]
    BY <1>3, <1>4 DEF PassedOf
  <2>2. /\ Regressed(passed) => r.outcome = "loss" /\ ~r.fatal
        /\ BothFailed(passed) => r.outcome = "tie" /\ ~r.fatal
        /\ Open(passed) => /\ Len(r.decisions) >= 2
                           /\ r.outcome = AggregateJudges(r.decisions, isA)
                           /\ r.fatal = FatalOptimized(r.decisions, isA)
    BY <1>4, <1>6, <1>7
  <2>3. QED
    BY <1>1, <1>4, <2>1, <2>2 DEF RecordIsDerived
<1>9. GroupsMatch(r)
  BY <1>3, <1>4 DEF GroupsMatch, PassedOf
<1>10. QED
  BY <1>1, <1>4, <1>8, <1>9 DEF LabelsMatchSeed

\* Failed checks are counted the same from the claims and from the checks.
LEMMA HardIsFailedChecks ==
  ASSUME NEW recs,
         \A c \in DOMAIN recs :
           recs[c].passed["optimized"] = HardPassed(recs[c].checks["optimized"])
  PROVE  [Totals(recs) EXCEPT !.hard = FailedChecks(recs)] = Totals(recs)
<1>1. {c \in DOMAIN recs : ~recs[c].passed["optimized"]}
        = {c \in DOMAIN recs : ~HardPassed(recs[c].checks["optimized"])}
  OBVIOUS
<1>2. Totals(recs).hard = FailedChecks(recs)
  BY <1>1 DEF Totals, FailedChecks
<1>3. QED
  BY <1>2 DEF Totals

\* A case is won only by what the judges thought of the outputs themselves,
\* wherever the two were placed (evaluate_case, aggregate_judges).
THEOREM WinsArePreferred == Spec => []WinIsPreferred
<1>1. EvalInv => WinIsPreferred
  <2> SUFFICES ASSUME EvalInv PROVE WinIsPreferred
    OBVIOUS
  <2> SUFFICES ASSUME NEW c \in DOMAIN records
               PROVE  LET ahead == Cardinality(Prefer(c, "optimized"))
                                     - Cardinality(Prefer(c, "original"))
                          ok(side) == HardPassed(records[c].checks[side])
                      IN records[c].outcome = "win" <=>
                           ok("optimized") /\ ~SawFatal(c, "optimized") /\ ahead > 0
    BY DEF WinIsPreferred
  <2>1. PICK wins, losses : /\ wins = Cardinality(Prefer(c, "optimized"))
                            /\ losses = Cardinality(Prefer(c, "original"))
    OBVIOUS
  <2>2. /\ wins \in Nat /\ losses \in Nat
        /\ records[c].outcome = "win" <=>
             /\ HardPassed(records[c].checks["optimized"])
             /\ ~SawFatal(c, "optimized") /\ wins > losses
    BY <2>1, OutcomeFollows
  <2>3. wins > losses <=> wins - losses > 0
    BY <2>2
  <2>4. QED
    BY <2>1, <2>2, <2>3
<1>2. QED
  BY <1>1, EvalInvariant, PTL

\* validate_evaluation accepts whatever evaluate_suite returns: the second
\* derivation of the verdict agrees with the first.
THEOREM WrittenPasses == Spec => []WrittenIsAccepted
<1>1. EvalInv => WrittenIsAccepted
  <2> SUFFICES ASSUME EvalInv, result # Null PROVE Accepts(result)
    BY DEF WrittenIsAccepted
  <2>1. result = Evaluated(records)
    BY DEF EvalInv, ResultInv
  <2>2. \A c \in DOMAIN records : /\ GroupsMatch(records[c])
                                  /\ LabelsMatchSeed(c, records[c])
                                  /\ RecordIsDerived(c, records[c])
    BY RecordIsAccepted
  <2>3. \A c \in DOMAIN records :
          records[c].passed["optimized"] = HardPassed(records[c].checks["optimized"])
    BY OutcomeFollows
  <2>4. [Totals(records) EXCEPT !.hard = FailedChecks(records)] = Totals(records)
    BY <2>3, HardIsFailedChecks
  <2>5. /\ result.records = records /\ result.caseCount = Cardinality(DOMAIN records)
        /\ result.totals = Totals(records)
        /\ result.gate = Gate(Cardinality(DOMAIN records), Totals(records))
        /\ result.evidence = InferEvidence(Cardinality(DOMAIN records), result.gate)
    BY <2>1 DEF Evaluated
  <2>6. SumsMatch(result)
    BY <2>4, <2>5 DEF SumsMatch
  <2>7. QED
    BY <2>2, <2>5, <2>6 DEF Accepts
<1>2. QED
  BY <1>1, EvalInvariant, PTL

\* A suite that passes its gate harmed no case: no optimized output failed its
\* checks, no judge saw a fatal flaw in one, and preference won more cases than
\* it lost (Totals and Gate of evaluate_suite).
THEOREM PassedIsHarmless == Spec => []PassedDoesNoHarm
<1>1. EvalInv => PassedDoesNoHarm
  <2> SUFFICES ASSUME EvalInv, result # Null, result.gate PROVE
        LET Leads(c, x, y) == Cardinality(Prefer(c, x)) > Cardinality(Prefer(c, y))
        IN /\ Cardinality(suite) >= MinimumCases
           /\ \A c \in suite : /\ HardPassed(result.records[c].checks["optimized"])
                               /\ ~SawFatal(c, "optimized")
           /\ Cardinality({c \in suite : Leads(c, "optimized", "original")})
                > Cardinality({c \in suite : Leads(c, "original", "optimized")})
    BY DEF PassedDoesNoHarm
  <2>1. DOMAIN records = suite /\ result = Evaluated(records)
    BY DEF EvalInv, ResultInv
  <2>2. PICK totals : totals = Totals(records)
    OBVIOUS
  <2>3. Gate(Cardinality(suite), totals) /\ result.records = records
    BY <2>1, <2>2 DEF Evaluated
  <2>4. /\ Cardinality(suite) >= MinimumCases /\ totals.wins > totals.losses
        /\ totals.fatal = 0 /\ totals.hard = 0
    BY <2>3 DEF Gate
  <2>5. /\ totals.wins = Cardinality({c \in suite : records[c].outcome = "win"})
        /\ totals.losses = Cardinality({c \in suite : records[c].outcome = "loss"})
        /\ totals.fatal = Cardinality({c \in suite : records[c].fatal = TRUE})
        /\ totals.hard = Cardinality({c \in suite : ~records[c].passed["optimized"]})
    BY <2>1, <2>2 DEF Totals, Count
  <2>6. IsFiniteSet(suite)
    BY EvaluationAssumption, FS_Subset DEF EvalInv, ShapeInv
  <2>7. /\ {c \in suite : records[c].fatal = TRUE} = {}
        /\ {c \in suite : ~records[c].passed["optimized"]} = {}
    <3>1. \A S \in SUBSET suite : IsFiniteSet(S) /\ (Cardinality(S) = 0 => S = {})
      BY <2>6, FS_Subset, FS_EmptySet
    <3>2. QED
      BY <2>4, <2>5, <3>1
  <2>8. ASSUME NEW c \in suite
        PROVE  /\ HardPassed(records[c].checks["optimized"]) /\ ~SawFatal(c, "optimized")
               /\ records[c].outcome = "win" <=>
                    Cardinality(Prefer(c, "optimized")) > Cardinality(Prefer(c, "original"))
               /\ records[c].outcome = "loss" <=>
                    Cardinality(Prefer(c, "original")) > Cardinality(Prefer(c, "optimized"))
    <3>1. records[c].passed["optimized"] /\ records[c].fatal # TRUE
      BY <2>7
    <3>2. QED
      BY <2>1, <3>1, OutcomeFollows
  <2>9. /\ {c \in suite : records[c].outcome = "win"}
             = {c \in suite : Cardinality(Prefer(c, "optimized"))
                                > Cardinality(Prefer(c, "original"))}
        /\ {c \in suite : records[c].outcome = "loss"}
             = {c \in suite : Cardinality(Prefer(c, "original"))
                                > Cardinality(Prefer(c, "optimized"))}
    BY <2>8
  <2>10. QED
    BY <2>3, <2>4, <2>5, <2>8, <2>9
<1>2. QED
  BY <1>1, EvalInvariant, PTL

\* A record the validator lets pass is the one the evaluator would have made.
LEMMA DerivedIsRecorded ==
  ASSUME NEW c, NEW r, IsRecord(r), GroupsMatch(r), LabelsMatchSeed(c, r),
         RecordIsDerived(c, r)
  PROVE  r = Record(optimizedIsA[c], r.checks, r.decisions)
<1>1. PICK isA, groups, answers, passed :
        /\ isA = optimizedIsA[c] /\ groups = r.checks /\ answers = r.decisions
        /\ passed = PassedOf(groups)
  OBVIOUS
<1>2. passed = [side \in Sides |-> HardPassed(r.checks[side])]
  BY <1>1 DEF PassedOf
<1>3. r.passed = passed
  <2>1. r.passed \in [Sides -> BOOLEAN] /\ \A side \in Sides : r.passed[side] = passed[side]
    BY <1>2 DEF IsRecord, GroupsMatch
  <2>2. QED
    BY <1>2, <2>1
<1>4. /\ r.critical = Regressed(passed)
      /\ Regressed(passed) => r.outcome = "loss" /\ ~r.fatal
      /\ BothFailed(passed) => r.outcome = "tie" /\ ~r.fatal
      /\ Open(passed) => /\ r.outcome = AggregateJudges(answers, isA)
                         /\ r.fatal = FatalOptimized(answers, isA)
  BY <1>1, <1>2 DEF RecordIsDerived
<1>5. Open(passed) <=> ~Regressed(passed) /\ ~BothFailed(passed)
  BY DEF Open
<1>6. r.outcome = IF Regressed(passed) THEN "loss"
                  ELSE IF BothFailed(passed) THEN "tie"
                  ELSE AggregateJudges(answers, isA)
  BY <1>4, <1>5
<1>7. r.fatal = (Open(passed) /\ FatalOptimized(answers, isA))
  <2>1. r.fatal \in BOOLEAN /\ FatalOptimized(answers, isA) \in BOOLEAN
    BY DEF IsRecord, FatalOptimized
  <2>2. CASE Open(passed)
    BY <1>4, <2>1, <2>2
  <2>3. CASE ~Open(passed)
    BY <1>4, <1>5, <2>1, <2>3
  <2>4. QED
    BY <2>2, <2>3
<1>8. r = [optimizedIsA |-> isA, checks |-> groups, passed |-> passed,
           decisions |-> answers, outcome |-> r.outcome,
           critical |-> r.critical, fatal |-> r.fatal]
  BY <1>1, <1>3 DEF IsRecord, LabelsMatchSeed
<1>9. Record(isA, groups, answers)
        = [optimizedIsA |-> isA, checks |-> groups, passed |-> passed,
           decisions |-> answers, outcome |-> r.outcome,
           critical |-> r.critical, fatal |-> r.fatal]
  BY <1>1, <1>4, <1>6, <1>7 DEF Record, PassedOf
<1>10. QED
  BY <1>1, <1>8, <1>9

\* Whoever wrote evaluation.json: if the validator accepts it, its verdict is
\* the one the evaluator reaches from the checks and answers in it.
THEOREM AcceptedFollows == Spec => []AcceptedIsDerived
<1>1. EvalInv => AcceptedIsDerived
  <2> SUFFICES ASSUME EvalInv, artifact # Null, Accepts(artifact)
               PROVE  artifact = Evaluated([c \in DOMAIN artifact.records |->
                                   Record(optimizedIsA[c], artifact.records[c].checks,
                                          artifact.records[c].decisions)])
    BY DEF AcceptedIsDerived
  <2>1. IsArtifact(artifact)
    BY DEF EvalInv, ArtifactInv
  <2>2. PICK recs : recs = artifact.records
    OBVIOUS
  <2>3. /\ recs = [c \in DOMAIN recs |-> recs[c]]
        /\ \A c \in DOMAIN recs : /\ IsRecord(recs[c]) /\ GroupsMatch(recs[c])
                                  /\ LabelsMatchSeed(c, recs[c]) /\ RecordIsDerived(c, recs[c])
    BY <2>1, <2>2 DEF IsArtifact, Accepts
  <2>4. \A c \in DOMAIN recs :
          recs[c] = Record(optimizedIsA[c], recs[c].checks, recs[c].decisions)
    BY <2>3, DerivedIsRecorded
  <2>5. recs = [c \in DOMAIN recs |->
                  Record(optimizedIsA[c], recs[c].checks, recs[c].decisions)]
    BY <2>3, <2>4
  <2>6. \A c \in DOMAIN recs :
          recs[c].passed["optimized"] = HardPassed(recs[c].checks["optimized"])
    BY <2>3 DEF GroupsMatch, Sides
  <2>7. PICK totals : totals = Totals(recs)
    OBVIOUS
  <2>8. /\ artifact.caseCount = Cardinality(DOMAIN recs) /\ artifact.totals = totals
        /\ artifact.gate = Gate(Cardinality(DOMAIN recs), totals)
        /\ artifact.evidence = InferEvidence(Cardinality(DOMAIN recs), artifact.gate)
    <3>1. [Totals(recs) EXCEPT !.hard = FailedChecks(recs)] = totals
      BY <2>6, <2>7, HardIsFailedChecks
    <3>2. SumsMatch(artifact)
      BY DEF Accepts
    <3>3. QED
      BY <2>2, <3>1, <3>2 DEF SumsMatch
  <2>9. artifact = [records |-> recs, caseCount |-> artifact.caseCount,
                    totals |-> artifact.totals, gate |-> artifact.gate,
                    evidence |-> artifact.evidence]
    BY <2>1, <2>2 DEF IsArtifact
  <2>10. artifact = Evaluated(recs)
    BY <2>7, <2>8, <2>9 DEF Evaluated
  <2>11. QED
    BY <2>2, <2>5, <2>10
<1>2. QED
  BY <1>1, EvalInvariant, PTL
==============================================================================
