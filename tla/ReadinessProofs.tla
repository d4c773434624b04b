---------------------------- MODULE ReadinessProofs ----------------------------
(***************************************************************************)
(* Proofs about replicate reports, human and image reviews and the gate    *)
(* that relies on them, for every set of directories, cases, reviewers and *)
(* images, every threshold and any number of runs, packets and reports.    *)
(***************************************************************************)
EXTENDS Readiness, FiniteSetTheorems, TLAPS

\* What may lie in a directory, besides nothing.
Runs == [id : Ids, definition : Definitions, calls : Nat, seen : Profiles]

(***************************************************************************)
(* A report rests on finitely many runs that share no id and no response,  *)
(* and says of them what is derived from them.                             *)
(***************************************************************************)
ReportOK(report) ==
  /\ report.runs \subseteq Runs /\ IsFiniteSet(report.runs)
  /\ \A r, s \in report.runs : r # s => r.id # s.id /\ r.calls # s.calls
  /\ report = ReplicateReport(report.runs, report.verified)

ReportsInv == /\ run \in [Dirs -> Runs \cup {Null}] /\ executed \in Nat
              /\ \A report \in reports : ReportOK(report)

\* The packets in the hands of people: as packets, with keys, with answers.
Papers ==
  ({packets[r] : r \in Reviewers} \cup {keys[r] : r \in Reviewers}
     \cup {submissions[r].to : r \in {q \in Reviewers : submissions[q] # Null}}) \ {Null}

(***************************************************************************)
(* A packet's number, the digest of a fresh blinding key in the code, names *)
(* it; the outputs it shows are those of the report it was made for.       *)
(***************************************************************************)
PaperOK(p) == /\ p.number \in Nat /\ p.number <= created
              /\ p.sample \subseteq Cases /\ p.probes \subseteq p.sample
              /\ \A domain \in DOMAIN p.source : p.source[domain] \in p.report[2]

PapersInv == /\ created \in Nat
             /\ \A p \in Papers : PaperOK(p)
             /\ \A p, q \in Papers : p.number = q.number => p = q

\* A submission answers every item of its packet as its reviewer thought.
AnswersInv ==
  \A r \in Reviewers : submissions[r] # Null =>
    LET s == submissions[r]
    IN /\ s.to # Null /\ s.view \in View
       /\ s.answers = [item \in Items(s.to) |->
                         Answer(s.view[item[1]], OptimizedLabel(s.to, item))]

HumanReportInv == humanReport # Null => DOMAIN humanReport.artifacts \subseteq Reviewers

HumanShape == DOMAIN packets = Reviewers /\ DOMAIN keys = Reviewers /\ DOMAIN submissions = Reviewers

HumanInv == /\ HumanShape /\ PapersInv /\ AnswersInv /\ HumanReportInv
            /\ VotesAreForWhatWasSeen /\ E4IsDirectPreference

\* The same for the packets of the image review.
VisualPapers ==
  ({visualPackets[r] : r \in Reviewers} \cup {visualKeys[r] : r \in Reviewers}
     \cup {visualSubmissions[r].to : r \in {q \in Reviewers : visualSubmissions[q] # Null}}) \ {Null}

VisualPapersInv == /\ made \in Nat
                   /\ \A p \in VisualPapers : p.number \in Nat /\ p.number <= made
                   /\ \A p, q \in VisualPapers : p.number = q.number => p = q

\* What a reviewer writes for a case, under the labels of a packet.
Mark(packet, opinion, c) ==
  CASE opinion[c] = "tie" -> "tie"
    [] opinion[c] = "optimized" -> LabelOfOptimized(packet, c)
    [] opinion[c] = "baseline" -> IF LabelOfOptimized(packet, c) = "A" THEN "B" ELSE "A"

VisualAnswersInv ==
  \A r \in Reviewers : visualSubmissions[r] # Null =>
    LET s == visualSubmissions[r]
    IN /\ s.to # Null /\ s.opinion \in [ImageCases -> {"optimized", "baseline", "tie"}]
       /\ s.answers = [c \in ImageCases |-> Mark(s.to, s.opinion, c)]

ImageReportInv == imageReport # Null => DOMAIN imageReport.artifacts \subseteq Reviewers

VisualShape == /\ DOMAIN visualPackets = Reviewers /\ DOMAIN visualKeys = Reviewers
               /\ DOMAIN visualSubmissions = Reviewers

ImageInv == VisualShape /\ VisualPapersInv /\ VisualAnswersInv /\ ImageReportInv

ReadyInv == ReportsInv /\ HumanInv /\ ImageInv

------------------------------------------------------------------------------
(* Consensus and counting.                                                 *)

\* An outcome other than a tie is the consensus exactly if it leads alone.
LEMMA ConsensusIsTheLeader ==
  ASSUME NEW counts \in [Outcomes -> Nat], NEW o \in {"win", "loss"}
  PROVE  Consensus(counts) = o <=> \A p \in Outcomes \ {o} : counts[o] > counts[p]
<1> DEFINE leaders == {x \in Outcomes : \A p \in Outcomes : counts[p] <= counts[x]}
<1>1. leaders \subseteq Outcomes /\ IsFiniteSet(leaders) /\ leaders # {}
  <2>1. \E x \in Outcomes : \A p \in Outcomes : counts[p] <= counts[x]
    BY DEF Outcomes
  <2>2. IsFiniteSet(Outcomes)
    <3>1. Outcomes = ({"win"} \cup {"tie"}) \cup {"loss"}
      BY DEF Outcomes
    <3>2. IsFiniteSet({"win"})
      BY FS_Singleton
    <3>3. IsFiniteSet({"win"} \cup {"tie"})
      BY <3>2, FS_AddElement
    <3>4. IsFiniteSet(({"win"} \cup {"tie"}) \cup {"loss"})
      BY <3>3, FS_AddElement
    <3>5. QED
      BY <3>1, <3>4
  <2>3. QED
    BY <2>1, <2>2, FS_Subset
<1>2. Cardinality(leaders) \in Nat /\ Cardinality(leaders) # 0
  BY <1>1, FS_CardinalityType, FS_EmptySet
<1>3. \A x \in leaders : leaders = {x} <=> \A p \in Outcomes \ {x} : counts[x] > counts[p]
  <2> SUFFICES ASSUME NEW x \in leaders
               PROVE  leaders = {x} <=> \A p \in Outcomes \ {x} : counts[x] > counts[p]
    OBVIOUS
  <2>1. ASSUME leaders = {x}, NEW p \in Outcomes \ {x} PROVE counts[x] > counts[p]
    BY <2>1
  <2>2. ASSUME \A p \in Outcomes \ {x} : counts[x] > counts[p] PROVE leaders = {x}
    BY <2>2
  <2>3. QED
    BY <2>1, <2>2
<1>4. CASE Cardinality(leaders) > 1
  <2>1. Consensus(counts) = "tie"
    BY <1>4 DEF Consensus
  <2>2. leaders # {o}
    <3>1. Cardinality({o}) = 1
      BY FS_Singleton
    <3>2. QED
      BY <1>4, <3>1
  <2>3. ~ \A p \in Outcomes \ {o} : counts[o] > counts[p]
    <3>1. SUFFICES ASSUME \A p \in Outcomes \ {o} : counts[o] > counts[p] PROVE o \in leaders
      BY <1>3, <2>2
    <3>2. QED
      BY <3>1 DEF Outcomes
  <2>4. QED
    BY <2>1, <2>3
<1>5. CASE ~ (Cardinality(leaders) > 1)
  <2>1. PICK x : leaders = {x}
    <3>1. Cardinality(leaders) = 1
      BY <1>2, <1>5
    <3>2. QED
      BY <1>1, <3>1, FS_Singleton
  <2>2. Consensus(counts) = x
    <3>1. Consensus(counts) = CHOOSE y \in leaders : TRUE
      BY <1>5 DEF Consensus
    <3>2. QED
      BY <2>1, <3>1
  <2>3. ASSUME \A p \in Outcomes \ {o} : counts[o] > counts[p] PROVE o \in leaders
    BY <2>3 DEF Outcomes
  <2>4. QED
    BY <1>3, <2>1, <2>2, <2>3
<1>6. QED
  BY <1>4, <1>5

\* A value that tells the elements of a finite set apart occurs as often as they.
LEMMA DistinctValues ==
  ASSUME NEW S, IsFiniteSet(S), NEW f, DOMAIN f = S, f = [x \in S |-> f[x]],
         \A x, y \in S : x # y => f[x] # f[y]
  PROVE  Cardinality({f[x] : x \in S}) = Cardinality(S) /\ IsFiniteSet({f[x] : x \in S})
<1> DEFINE T == {f[x] : x \in S}
<1>1. f \in [S -> T]
  OBVIOUS
<1>2. f \in Bijection(S, T)
  <2>1. f \in Injection(S, T)
    BY <1>1 DEF Injection, IsInjective
  <2>2. f \in Surjection(S, T)
    BY <1>1 DEF Surjection
  <2>3. QED
    BY <2>1, <2>2 DEF Bijection
<1>3. ExistsBijection(S, T)
  BY <1>2 DEF ExistsBijection
<1>4. QED
  BY <1>3, FS_Bijection

------------------------------------------------------------------------------
(* Replicate reports.                                                      *)

\* A report that is made of independent directories is well formed.
LEMMA MadeReportOK ==
  ASSUME ReportsInv, NEW S \in SUBSET Dirs, Aggregable(S), NEW verified \in BOOLEAN
  PROVE  ReportOK(ReplicateReport({run[d] : d \in S}, verified))
<1> DEFINE runs == {run[d] : d \in S}
           report == ReplicateReport(runs, verified)
<1>1. report.runs = runs /\ report.verified = verified
  BY DEF ReplicateReport
<1>2. runs \subseteq Runs
  BY DEF ReportsInv, Aggregable
<1>3. IsFiniteSet(runs)
  <2>1. IsFiniteSet(S)
    BY ReplicatesAssumption, FS_Subset
  <2> DEFINE f == [d \in S |-> run[d]]
  <2>2. f \in Surjection(S, runs)
    BY DEF Surjection
  <2>3. QED
    BY <2>1, <2>2, FS_Surjection
<1>4. \A r, s \in runs : r # s => r.id # s.id /\ r.calls # s.calls
  BY DEF Aggregable, Independent
<1>5. QED
  BY <1>1, <1>2, <1>3, <1>4 DEF ReportOK

LEMMA ReplicatesKeepReports ==
  ASSUME ReportsInv, ReplicatesNext
  PROVE  ReportsInv'
<1>1. ASSUME NEW d \in Dirs, NEW id \in Ids, NEW definition \in Definitions, NEW seen \in Profiles,
             Execute(d, id, definition, seen)
      PROVE  ReportsInv'
  <2> DEFINE r == [id |-> id, definition |-> definition, calls |-> executed + 1, seen |-> seen]
  <2>1. r \in Runs
    BY DEF Runs, ReportsInv
  <2>2. run' = [run EXCEPT ![d] = r] /\ reports' = reports /\ executed' = executed + 1
    BY <1>1 DEF Execute
  <2> HIDE DEF r
  <2>3. QED
    BY <2>1, <2>2 DEF ReportsInv
<1>2. ASSUME NEW d \in Dirs, NEW from \in Dirs, NEW id \in Ids, Replay(d, from, id)
      PROVE  ReportsInv'
  <2> DEFINE r == [run[from] EXCEPT !.id = id]
  <2>1. run[from] \in Runs
    BY <1>2 DEF ReportsInv, Replay
  <2>2. r \in Runs
    BY <2>1 DEF Runs
  <2>3. run' = [run EXCEPT ![d] = r] /\ reports' = reports /\ executed' = executed + 1
    BY <1>2 DEF Replay
  <2> HIDE DEF r
  <2>4. QED
    BY <2>2, <2>3 DEF ReportsInv
<1>3. ASSUME NEW S \in SUBSET Dirs, NEW verified \in BOOLEAN, Aggregate(S, verified)
      PROVE  ReportsInv'
  <2>1. ReportOK(ReplicateReport({run[d] : d \in S}, verified))
    BY <1>3, MadeReportOK DEF Aggregate
  <2>2. /\ reports' = reports \cup {ReplicateReport({run[d] : d \in S}, verified)}
        /\ UNCHANGED <<run, executed>>
    BY <1>3 DEF Aggregate
  <2>3. QED
    BY <2>1, <2>2 DEF ReportsInv
<1>4. QED
  BY <1>1, <1>2, <1>3 DEF ReplicatesNext

\* What an E3 report says of its runs.
LEMMA E3IsReleased ==
  ASSUME NEW report, ReportOK(report), report.evidence = "E3"
  PROVE  ReleaseGate(report.runs, Merged(report.runs), report.verified)
BY DEF ReportOK, ReplicateReport

LEMMA ReportIsIndependent ==
  ASSUME NEW report, ReportOK(report), report.evidence = "E3"
  PROVE  /\ Cardinality({r.calls : r \in report.runs}) = Cardinality(report.runs)
         /\ Cardinality({r.id : r \in report.runs}) >= MinimumReplicates
<1>1. PICK runs : runs = report.runs
  OBVIOUS
<1>2. IsFiniteSet(runs) /\ \A r, s \in runs : r # s => r.id # s.id /\ r.calls # s.calls
  BY <1>1 DEF ReportOK
<1>3. Cardinality(runs) >= MinimumReplicates
  BY <1>1, E3IsReleased DEF ReleaseGate
<1>4. Cardinality({r.calls : r \in runs}) = Cardinality(runs)
  <2>1. PICK f : f = [r \in runs |-> r.calls]
    OBVIOUS
  <2>2. Cardinality({f[r] : r \in runs}) = Cardinality(runs)
    BY <1>2, <2>1, DistinctValues
  <2>3. {f[r] : r \in runs} = {r.calls : r \in runs}
    BY <2>1
  <2>4. QED
    BY <2>2, <2>3
<1>5. Cardinality({r.id : r \in runs}) = Cardinality(runs)
  <2>1. PICK f : f = [r \in runs |-> r.id]
    OBVIOUS
  <2>2. Cardinality({f[r] : r \in runs}) = Cardinality(runs)
    BY <1>2, <2>1, DistinctValues
  <2>3. {f[r] : r \in runs} = {r.id : r \in runs}
    BY <2>1
  <2>4. QED
    BY <2>2, <2>3
<1>6. QED
  BY <1>1, <1>3, <1>4, <1>5

LEMMA ReportIsAgreed ==
  ASSUME NEW report, ReportOK(report), report.evidence = "E3"
  PROVE  LET Saw(c, o) == Cardinality({r \in report.runs : r.seen[c].outcome = o})
             Most(c, o) == \A p \in Outcomes \ {o} : Saw(c, o) > Saw(c, p)
         IN /\ \A r \in report.runs, c \in Cases : Harmless(r.seen[c])
            /\ \A domain \in Domains :
                 Cardinality({c \in CasesOf(domain) : Most(c, "win")})
                   > Cardinality({c \in CasesOf(domain) : Most(c, "loss")})
<1> DEFINE runs == report.runs
           merged == Merged(runs)
           Saw(c, o) == Cardinality({r \in runs : r.seen[c].outcome = o})
           Most(c, o) == \A p \in Outcomes \ {o} : Saw(c, o) > Saw(c, p)
<1>1. ReleaseGate(runs, merged, report.verified)
  BY E3IsReleased
<1>2. \A r \in runs, c \in Cases : Harmless(r.seen[c])
  BY <1>1 DEF ReleaseGate, RunGate
<1>3. ASSUME NEW c \in Cases, NEW o \in {"win", "loss"}
      PROVE  merged[c].outcome = o <=> Most(c, o)
  <2> DEFINE counts == OutcomeCounts(runs, c)
  <2>1. \A p \in Outcomes : counts[p] = Saw(c, p) /\ Saw(c, p) \in Nat
    <3> SUFFICES ASSUME NEW p \in Outcomes PROVE counts[p] = Saw(c, p) /\ Saw(c, p) \in Nat
      OBVIOUS
    <3>1. IsFiniteSet({r \in runs : r.seen[c].outcome = p})
      BY FS_Subset DEF ReportOK
    <3>2. QED
      BY <3>1, FS_CardinalityType DEF OutcomeCounts
  <2>2. counts \in [Outcomes -> Nat]
    BY <2>1 DEF OutcomeCounts
  <2>3. merged[c].outcome = Consensus(counts)
    BY DEF Merged
  <2>4. o \in Outcomes
    BY DEF Outcomes
  <2> HIDE DEF counts
  <2>5. merged[c].outcome = o <=> \A p \in Outcomes \ {o} : counts[o] > counts[p]
    BY <2>2, <2>3, ConsensusIsTheLeader
  <2>6. QED
    BY <2>1, <2>4, <2>5
<1> HIDE DEF merged
<1>4. ASSUME NEW domain \in Domains
      PROVE  Cardinality({c \in CasesOf(domain) : Most(c, "win")})
               > Cardinality({c \in CasesOf(domain) : Most(c, "loss")})
  <2>1. Count(merged, CasesOf(domain), "win") > Count(merged, CasesOf(domain), "loss")
    BY <1>1 DEF ReleaseGate, DomainPasses, DomainGate
  <2>2. CasesOf(domain) \subseteq Cases
    BY DEF CasesOf
  <2>3. /\ {c \in CasesOf(domain) : Most(c, "win")}
             = {c \in CasesOf(domain) : merged[c].outcome = "win"}
        /\ {c \in CasesOf(domain) : Most(c, "loss")}
             = {c \in CasesOf(domain) : merged[c].outcome = "loss"}
    BY <1>3, <2>2
  <2>4. QED
    BY <2>1, <2>3 DEF Count
<1>5. QED
  BY <1>2, <1>4

------------------------------------------------------------------------------
(* Packets and answers of the human review.                                *)

\* The papers around stay in order while nothing but a new packet is added.
LEMMA PapersStay ==
  ASSUME PapersInv, Papers' \subseteq Papers, created' = created
  PROVE  PapersInv'
BY DEF PapersInv, PaperOK

LEMMA PaperAdded ==
  ASSUME PapersInv, created' = created + 1,
         NEW p, Papers' \subseteq Papers \cup {p}, p.number = created + 1,
         p.sample \subseteq Cases, p.probes \subseteq p.sample,
         \A domain \in DOMAIN p.source : p.source[domain] \in p.report[2]
  PROVE  PapersInv'
<1>1. \A q \in Papers : q.number \in Nat /\ q.number # p.number /\ q.number <= created + 1
  BY DEF PapersInv, PaperOK
<1>2. \A q \in Papers' : PaperOK(q)'
  BY <1>1 DEF PapersInv, PaperOK
<1>3. QED
  BY <1>1, <1>2 DEF PapersInv

LEMMA CreatePacketKeeps ==
  ASSUME HumanInv, NEW r \in Reviewers, NEW report, NEW S, CreatePacket(r, report, S)
  PROVE  HumanInv'
<1>1. PICK source \in Sources(report), blinding \in Blindings, whole \in BOOLEAN :
        LET packet == [number |-> created + 1, report |-> Digest(report), source |-> source,
                       sample |-> blinding.sample, probes |-> blinding.probes,
                       optimizedIsA |-> blinding.optimizedIsA]
        IN /\ \A c \in blinding.sample : DomainOf[c] \in DOMAIN source
           /\ packets' = [packets EXCEPT ![r] = packet]
           /\ keys' = IF whole THEN [keys EXCEPT ![r] = packet] ELSE keys
  BY DEF CreatePacket
<1>2. PICK p : p = [number |-> created + 1, report |-> Digest(report), source |-> source,
                    sample |-> blinding.sample, probes |-> blinding.probes,
                    optimizedIsA |-> blinding.optimizedIsA]
  OBVIOUS
<1>3. /\ packets' = [packets EXCEPT ![r] = p] /\ (keys' = [keys EXCEPT ![r] = p] \/ keys' = keys)
      /\ UNCHANGED <<submissions, humanReport>> /\ created' = created + 1
  BY <1>1, <1>2 DEF CreatePacket
<1>4. /\ p.number = created + 1 /\ p.sample \subseteq Cases /\ p.probes \subseteq p.sample
  BY <1>2, HumanAssumption DEF Blinding
<1>5. \A domain \in DOMAIN p.source : p.source[domain] \in p.report[2]
  <2>1. \A domain \in DOMAIN source : source[domain] \in report.runs
    BY DEF Sources
  <2>2. p.source = source /\ p.report[2] = report.runs
    BY <1>2 DEF Digest
  <2>3. QED
    BY <2>1, <2>2
<1>6. HumanShape'
  BY <1>3 DEF HumanInv, HumanShape
<1>7. Papers' \subseteq Papers \cup {p}
  BY <1>3 DEF Papers, HumanInv, HumanShape
<1>8. PapersInv'
  BY <1>3, <1>4, <1>5, <1>7, PaperAdded DEF HumanInv
<1>9. AnswersInv' /\ HumanReportInv' /\ VotesAreForWhatWasSeen' /\ E4IsDirectPreference'
  BY <1>3 DEF HumanInv, AnswersInv, HumanReportInv, VotesAreForWhatWasSeen, E4IsDirectPreference, Thought
<1>10. QED
  BY <1>6, <1>8, <1>9 DEF HumanInv

LEMMA SubmitKeeps ==
  ASSUME HumanInv, NEW r \in Reviewers, NEW view \in Views, Submit(r, view)
  PROVE  HumanInv'
<1>1. PICK s : s = [to |-> packets[r], view |-> view,
                    answers |-> [item \in Items(packets[r]) |->
                                   Answer(view[item[1]], OptimizedLabel(packets[r], item))]]
  OBVIOUS
<1>2. /\ submissions' = [submissions EXCEPT ![r] = s] /\ packets[r] # Null
      /\ UNCHANGED <<packets, keys, created, humanReport>>
  BY <1>1 DEF Submit
<1>3. s.to = packets[r] /\ s.view = view /\ view \in View
  BY <1>1, HumanAssumption
<1>4. s.answers = [item \in Items(s.to) |-> Answer(s.view[item[1]], OptimizedLabel(s.to, item))]
  BY <1>1, <1>3
<1>5. HumanShape'
  BY <1>2 DEF HumanInv, HumanShape
<1>6. Papers' \subseteq Papers
  BY <1>2, <1>3 DEF Papers, HumanInv, HumanShape
<1>7. PapersInv'
  BY <1>2, <1>6, PapersStay DEF HumanInv
<1>8. AnswersInv'
  <2> SUFFICES ASSUME NEW q \in Reviewers, submissions'[q] # Null
               PROVE  /\ submissions'[q].to # Null /\ submissions'[q].view \in View
                      /\ submissions'[q].answers =
                           [item \in Items(submissions'[q].to) |->
                              Answer(submissions'[q].view[item[1]],
                                     OptimizedLabel(submissions'[q].to, item))]
    BY DEF AnswersInv, Items, OptimizedLabel, Answer
  <2>1. CASE q = r
    <3>1. submissions'[q] = s
      BY <1>2, <2>1 DEF HumanInv, HumanShape
    <3>2. QED
      BY <1>2, <1>3, <1>4, <3>1
  <2>2. CASE q # r
    BY <1>2, <2>2 DEF HumanInv, HumanShape, AnswersInv
  <2>3. QED
    BY <2>1, <2>2
<1>9. HumanReportInv' /\ VotesAreForWhatWasSeen' /\ E4IsDirectPreference'
  BY <1>2 DEF HumanInv, HumanReportInv, VotesAreForWhatWasSeen, E4IsDirectPreference, Thought
<1>10. QED
  BY <1>5, <1>7, <1>8, <1>9 DEF HumanInv

------------------------------------------------------------------------------
(* Votes of the human review.                                              *)

\* A submission that counts is to the packet and under the key that are there.
LEMMA CountedPaper ==
  ASSUME PapersInv, AnswersInv, NEW r \in Reviewers, NEW report, NEW source,
         Countable(r, report, source)
  PROVE  /\ submissions[r] # Null /\ submissions[r].to = packets[r] /\ keys[r] = packets[r]
         /\ PaperOK(packets[r])
         /\ packets[r].report = Digest(report) /\ packets[r].source = source
<1>1. /\ packets[r] # Null /\ keys[r] # Null /\ submissions[r] # Null
      /\ submissions[r].to.number = packets[r].number /\ keys[r].number = packets[r].number
      /\ packets[r].report = Digest(report) /\ packets[r].source = source
  BY DEF Countable, AnswersThePacket, KeyOfPacket
<1>2. packets[r] \in Papers /\ keys[r] \in Papers
  BY <1>1 DEF Papers
<1>3. submissions[r].to \in Papers
  BY <1>1 DEF Papers, AnswersInv
<1>4. QED
  BY <1>1, <1>2, <1>3 DEF PapersInv

\* What a vote tells of the reviewer's view of the case.
LEMMA VoteIsView ==
  ASSUME PapersInv, AnswersInv, NEW r \in Reviewers, NEW report, NEW source,
         Countable(r, report, source), NEW c \in keys[r].sample
  PROVE  LET view == submissions[r].view[c]
         IN /\ view = "tie" => Vote(r, c) = "tie"
            /\ view = "optimized" => Vote(r, c) = "win"
            /\ view = "original" => Vote(r, c) = "loss"
            /\ view \in {"tie", "optimized", "original", "first"}
            /\ view = "first" => Vote(r, c) # "tie"
<1> DEFINE view == submissions[r].view[c]
           label == OptimizedLabel(keys[r], <<c, "base">>)
           answer == submissions[r].answers[<<c, "base">>]
<1>1. /\ submissions[r] # Null /\ submissions[r].to = keys[r] /\ keys[r].sample \subseteq Cases
  BY CountedPaper DEF PaperOK
<1>2. <<c, "base">> \in Items(keys[r])
  BY DEF Items
<1>3. answer = Answer(view, label)
  <2>1. submissions[r].answers =
          [item \in Items(keys[r]) |->
             Answer(submissions[r].view[item[1]], OptimizedLabel(keys[r], item))]
    BY <1>1 DEF AnswersInv
  <2>2. <<c, "base">>[1] = c
    OBVIOUS
  <2>3. QED
    BY <1>2, <2>1, <2>2
<1>4. view \in {"tie", "optimized", "original", "first"}
  BY <1>1 DEF AnswersInv, View
<1>5. label \in {"A", "B"}
  BY DEF OptimizedLabel
<1>6. Vote(r, c) = IF answer = "tie" THEN "tie" ELSE IF answer = label THEN "win" ELSE "loss"
  BY DEF Vote
<1> HIDE DEF view, label, answer
<1>7. /\ view = "tie" => Vote(r, c) = "tie"
      /\ view = "optimized" => Vote(r, c) = "win"
      /\ view = "original" => Vote(r, c) = "loss"
      /\ view = "first" => Vote(r, c) # "tie"
  BY <1>3, <1>4, <1>5, <1>6 DEF Answer
<1>8. QED
  BY <1>4, <1>7 DEF view

\* Who thought what, among some reviewers.
Holding(R, c, view) == {r \in R : c \in submissions[r].to.sample /\ submissions[r].view[c] = view}

\* An outcome that leads the count led among the reviewers with a view.
LEMMA LeadIsView ==
  ASSUME PapersInv, AnswersInv, NEW R \in SUBSET Reviewers, NEW report, NEW source,
         \A r \in R : Countable(r, report, source),
         NEW c, NEW o \in Outcomes, Leads(R, c, o), NEW p \in Outcomes \ {o}
  PROVE  Cardinality(Holding(R, c, ViewOf(o))) + Cardinality(Holding(R, c, "first"))
           > Cardinality(Holding(R, c, ViewOf(p)))
<1> DEFINE Voting(q) == {r \in R : c \in keys[r].sample /\ Vote(r, c) = q}
<1>1. IsFiniteSet(R)
  BY HumanAssumption, FS_Subset
<1>2. ASSUME NEW T \in SUBSET R PROVE IsFiniteSet(T) /\ Cardinality(T) \in Nat
  BY <1>1, FS_Subset, FS_CardinalityType
<1>3. \A r \in R : submissions[r].to = keys[r]
  BY CountedPaper
<1>4. Holding(R, c, ViewOf(p)) \subseteq Voting(p)
  BY <1>3, VoteIsView DEF Holding, ViewOf, Outcomes
<1>5. Voting(o) \subseteq Holding(R, c, ViewOf(o)) \cup Holding(R, c, "first")
  BY <1>3, VoteIsView DEF Holding, ViewOf, Outcomes
<1>6. Cardinality(Voting(p)) < Cardinality(Voting(o))
  BY DEF Leads, Votes
<1>7. Voting(p) \subseteq R /\ Voting(o) \subseteq R
  OBVIOUS
<1>8. \A view : Holding(R, c, view) \subseteq R
  BY DEF Holding
<1> HIDE DEF Voting
<1>9. Cardinality(Holding(R, c, ViewOf(p))) <= Cardinality(Voting(p))
  BY <1>2, <1>4, <1>7, FS_Subset
<1>10. Cardinality(Voting(o))
         <= Cardinality(Holding(R, c, ViewOf(o)) \cup Holding(R, c, "first"))
  BY <1>2, <1>5, <1>8, FS_Subset, FS_Union
<1>11. Cardinality(Holding(R, c, ViewOf(o)) \cup Holding(R, c, "first"))
         <= Cardinality(Holding(R, c, ViewOf(o))) + Cardinality(Holding(R, c, "first"))
  <2> DEFINE A == Holding(R, c, ViewOf(o))
             B == Holding(R, c, "first")
  <2>1. IsFiniteSet(A) /\ IsFiniteSet(B) /\ A \cap B \subseteq R
    BY <1>2, <1>8
  <2>2. Cardinality(A \cup B) = Cardinality(A) + Cardinality(B) - Cardinality(A \cap B)
    BY <2>1, FS_Union
  <2>3. Cardinality(A) \in Nat /\ Cardinality(B) \in Nat /\ Cardinality(A \cap B) \in Nat
    BY <1>2, <1>8, <2>1
  <2>4. QED
    BY <2>2, <2>3
<1>12. /\ Cardinality(Voting(p)) \in Nat /\ Cardinality(Voting(o)) \in Nat
       /\ \A view : Cardinality(Holding(R, c, view)) \in Nat
       /\ Cardinality(Holding(R, c, ViewOf(o)) \cup Holding(R, c, "first")) \in Nat
  BY <1>2, <1>7, <1>8
<1>13. QED
  BY <1>6, <1>9, <1>10, <1>11, <1>12

LEMMA AggregateHumanKeeps ==
  ASSUME HumanInv, NEW report, NEW S, NEW R \in SUBSET Reviewers, AggregateHuman(report, S, R)
  PROVE  HumanInv'
<1>1. PICK source \in Sources(report), verified \in BOOLEAN, adjudications \in Adjudications(R) :
        /\ \A r \in R : Countable(r, report, source)
        /\ humanReport' = HumanReport(report, source, R, adjudications, verified)
  BY DEF AggregateHuman
<1>2. UNCHANGED <<packets, keys, submissions, created>>
  BY DEF AggregateHuman
<1>3. PICK human : human = HumanReport(report, source, R, adjudications, verified)
  OBVIOUS
<1>4. /\ human.artifacts = [r \in R |-> submissions[r]] /\ human.source = source
      /\ human.adjudicated = DOMAIN adjudications
      /\ human.unresolved = Tied(R) \ DOMAIN adjudications
      /\ human.consensus = HumanConsensus(R, Tied(R), adjudications)
      /\ human.e4 = E4Ready(R, adjudications, verified)
  BY <1>3 DEF HumanReport
<1>5. DOMAIN adjudications \subseteq Tied(R)
  BY DEF Adjudications
<1>6. PapersInv /\ AnswersInv
  BY DEF HumanInv
<1>7. ASSUME NEW c \in DOMAIN human.consensus \ human.adjudicated
      PROVE  LET o == human.consensus[c]
                 n(view) == Cardinality(Thought(human, c, view))
             IN \A p \in Outcomes \ {o} : n(ViewOf(o)) + n("first") > n(ViewOf(p))
  <2>1. c \in Reviewed(R) \ Tied(R)
    BY <1>4 DEF HumanConsensus
  <2>2. \E o \in Outcomes : Leads(R, c, o)
    BY <2>1 DEF Tied
  <2>3. human.consensus[c] = CHOOSE o \in Outcomes : Leads(R, c, o)
    BY <1>4, <2>1 DEF HumanConsensus
  <2>4. PICK o \in Outcomes : human.consensus[c] = o /\ Leads(R, c, o)
    BY <2>2, <2>3
  <2>5. \A view : Thought(human, c, view) = Holding(R, c, view)
    BY <1>4 DEF Thought, Holding
  <2>6. \A p \in Outcomes \ {o} :
          Cardinality(Holding(R, c, ViewOf(o))) + Cardinality(Holding(R, c, "first"))
            > Cardinality(Holding(R, c, ViewOf(p)))
    BY <1>1, <1>6, <2>4, LeadIsView
  <2>7. QED
    BY <2>4, <2>5, <2>6
<1>8. ASSUME human.e4
      PROVE  /\ human.adjudicated = {} /\ human.unresolved = {}
             /\ \A r \in DOMAIN human.artifacts :
                  LET shown == human.artifacts[r]
                  IN /\ shown.to.sample = DOMAIN human.consensus
                     /\ shown.to.source = human.source
                     /\ \A c \in shown.to.probes : shown.view[c] \in {"optimized", "original"}
  <2>1. /\ Tied(R) = {} /\ \A r \in R : keys[r].sample = Reviewed(R)
        /\ \A r \in R : PassedProtocol(r)
    BY <1>4, <1>8 DEF E4Ready
  <2>2. DOMAIN adjudications = {}
    BY <1>5, <2>1
  <2>3. DOMAIN human.consensus = Reviewed(R)
    BY <1>4, <2>1, <2>2 DEF HumanConsensus
  <2>4. ASSUME NEW r \in R, NEW c \in keys[r].probes
        PROVE  submissions[r].view[c] \in {"optimized", "original"}
    <3>1. /\ submissions[r] # Null /\ submissions[r].to = keys[r] /\ PaperOK(keys[r])
      BY <1>1, <1>6, CountedPaper
    <3>2. /\ c \in Cases /\ <<c, "base">> \in Items(keys[r]) /\ <<c, "probe">> \in Items(keys[r])
      BY <3>1 DEF PaperOK, Items
    <3>3. submissions[r].view[c] \in {"tie", "optimized", "original", "first"}
      BY <1>6, <3>1, <3>2 DEF AnswersInv, View
    <3>4. \A item \in Items(keys[r]) : submissions[r].answers[item]
            = Answer(submissions[r].view[item[1]], OptimizedLabel(keys[r], item))
      <4>1. PICK s : s = submissions[r] /\ s.to = keys[r]
        BY <3>1
      <4>2. s.answers = [item \in Items(s.to) |->
                           Answer(s.view[item[1]], OptimizedLabel(s.to, item))]
        BY <1>6, <3>1, <4>1 DEF AnswersInv
      <4>3. QED
        BY <4>1, <4>2
    <3>5. /\ submissions[r].answers[<<c, "base">>]
               = Answer(submissions[r].view[c], OptimizedLabel(keys[r], <<c, "base">>))
          /\ submissions[r].answers[<<c, "probe">>]
               = Answer(submissions[r].view[c], OptimizedLabel(keys[r], <<c, "probe">>))
      BY <3>2, <3>4
    <3>6. {submissions[r].answers[<<c, "base">>], submissions[r].answers[<<c, "probe">>]} = {"A", "B"}
      BY <2>1 DEF PassedProtocol
    <3>7. submissions[r].view[c] # "tie" /\ submissions[r].view[c] # "first"
      BY <3>5, <3>6 DEF Answer
    <3>8. QED
      BY <3>3, <3>7
  <2>5. \A r \in R : submissions[r].to = keys[r] /\ keys[r].source = source
    BY <1>1, <1>6, CountedPaper
  <2>6. QED
    BY <1>4, <2>1, <2>2, <2>3, <2>4, <2>5
<1>9. humanReport' = human
  BY <1>1, <1>3
<1>10. VotesAreForWhatWasSeen'
  BY <1>7, <1>9 DEF VotesAreForWhatWasSeen, Thought
<1>11. E4IsDirectPreference'
  BY <1>8, <1>9 DEF E4IsDirectPreference
<1>12. HumanReportInv'
  BY <1>4, <1>9 DEF HumanReportInv
<1>13. HumanShape' /\ AnswersInv'
  BY <1>2 DEF HumanInv, HumanShape, AnswersInv
<1>14. PapersInv'
  <2>1. Papers' = Papers
    BY <1>2 DEF Papers
  <2>2. QED
    BY <1>2, <1>6, <2>1, PapersStay
<1>15. QED
  BY <1>10, <1>11, <1>12, <1>13, <1>14 DEF HumanInv

------------------------------------------------------------------------------
(* Packets, answers and votes of the image review.                         *)

LEMMA VisualPaperAdded ==
  ASSUME VisualPapersInv, made' = made + 1,
         NEW p, VisualPapers' \subseteq VisualPapers \cup {p}, p.number = made + 1
  PROVE  VisualPapersInv'
<1>1. \A q \in VisualPapers : q.number \in Nat /\ q.number # p.number /\ q.number <= made + 1
  BY DEF VisualPapersInv
<1>2. QED
  BY <1>1 DEF VisualPapersInv

LEMMA CreateVisualPacketKeeps ==
  ASSUME ImageInv, NEW r \in Reviewers, CreateVisualPacket(r)
  PROVE  ImageInv'
<1>1. PICK shownAsA \in Placements, whole \in BOOLEAN :
        LET packet == [number |-> made + 1, images |-> manifest, optimizedIsA |-> shownAsA]
        IN /\ visualPackets' = [visualPackets EXCEPT ![r] = packet]
           /\ visualKeys' = IF whole THEN [visualKeys EXCEPT ![r] = packet] ELSE visualKeys
  BY DEF CreateVisualPacket
<1>2. PICK p : p = [number |-> made + 1, images |-> manifest, optimizedIsA |-> shownAsA]
  OBVIOUS
<1>3. /\ visualPackets' = [visualPackets EXCEPT ![r] = p]
      /\ visualKeys' = [visualKeys EXCEPT ![r] = p] \/ visualKeys' = visualKeys
      /\ UNCHANGED <<visualSubmissions, imageReport>> /\ made' = made + 1 /\ p.number = made + 1
  BY <1>1, <1>2 DEF CreateVisualPacket
<1>4. VisualShape'
  BY <1>3 DEF ImageInv, VisualShape
<1>5. VisualPapers' \subseteq VisualPapers \cup {p}
  BY <1>3 DEF VisualPapers, ImageInv, VisualShape
<1>6. VisualPapersInv'
  BY <1>3, <1>5, VisualPaperAdded DEF ImageInv
<1>7. VisualAnswersInv' /\ ImageReportInv'
  BY <1>3 DEF ImageInv, VisualAnswersInv, ImageReportInv
<1>8. QED
  BY <1>4, <1>6, <1>7 DEF ImageInv

LEMMA LookKeeps ==
  ASSUME ImageInv, NEW r \in Reviewers, NEW opinion \in Opinions, Look(r, opinion)
  PROVE  ImageInv'
<1>1. PICK s : s = [to |-> visualPackets[r], opinion |-> opinion,
                    answers |-> [c \in ImageCases |-> Mark(visualPackets[r], opinion, c)]]
  OBVIOUS
<1>2. /\ visualSubmissions' = [visualSubmissions EXCEPT ![r] = s] /\ visualPackets[r] # Null
      /\ UNCHANGED <<visualPackets, visualKeys, made, imageReport>>
  BY <1>1 DEF Look, Mark
<1>3. /\ s.to = visualPackets[r] /\ s.opinion = opinion
      /\ opinion \in [ImageCases -> {"optimized", "baseline", "tie"}]
  BY <1>1, ImageAssumption
<1>4. s.answers = [c \in ImageCases |-> Mark(s.to, s.opinion, c)]
  BY <1>1, <1>3
<1>5. VisualShape'
  BY <1>2 DEF ImageInv, VisualShape
<1>6. VisualPapers' \subseteq VisualPapers
  BY <1>2, <1>3 DEF VisualPapers, ImageInv, VisualShape
<1>7. VisualPapersInv'
  BY <1>2, <1>6 DEF ImageInv, VisualPapersInv
<1>8. VisualAnswersInv'
  <2> SUFFICES ASSUME NEW q \in Reviewers, visualSubmissions'[q] # Null
               PROVE  LET v == visualSubmissions'[q]
                      IN /\ v.to # Null /\ v.opinion \in [ImageCases -> {"optimized", "baseline", "tie"}]
                         /\ v.answers = [c \in ImageCases |-> Mark(v.to, v.opinion, c)]
    BY DEF VisualAnswersInv
  <2>1. CASE q = r
    <3>1. visualSubmissions'[q] = s
      BY <1>2, <2>1 DEF ImageInv, VisualShape
    <3>2. QED
      BY <1>2, <1>3, <1>4, <3>1
  <2>2. CASE q # r
    BY <1>2, <2>2 DEF ImageInv, VisualShape, VisualAnswersInv
  <2>3. QED
    BY <2>1, <2>2
<1>9. ImageReportInv'
  BY <1>2 DEF ImageInv, ImageReportInv
<1>10. QED
  BY <1>5, <1>7, <1>8, <1>9 DEF ImageInv

LEMMA ImagesKeepImages ==
  ASSUME ImageInv, ImageNext
  PROVE  ImageInv'
<1>1. ASSUME NEW v \in Variants, ReplaceImage(v) PROVE ImageInv'
  BY <1>1 DEF ReplaceImage, ImageInv, VisualShape, VisualPapersInv, VisualPapers, VisualAnswersInv,
              ImageReportInv
<1>2. CASE Register
  BY <1>2 DEF Register, ImageInv, VisualShape, VisualPapersInv, VisualPapers, VisualAnswersInv,
              ImageReportInv
<1>3. ASSUME NEW R \in SUBSET Reviewers, AggregateVisual(R) PROVE ImageInv'
  <2>1. ImageReportInv'
    BY <1>3 DEF AggregateVisual, VisualReport, ImageReportInv
  <2>2. UNCHANGED <<visualPackets, visualKeys, visualSubmissions, made>>
    BY <1>3 DEF AggregateVisual
  <2>3. QED
    BY <2>1, <2>2 DEF ImageInv, VisualShape, VisualPapersInv, VisualPapers, VisualAnswersInv
<1>4. QED
  BY <1>1, <1>2, <1>3, CreateVisualPacketKeeps, LookKeeps DEF ImageNext

\* A submission that counts answers the packet that is there, and its votes are
\* the opinions of its reviewer.
LEMMA CountedOpinion ==
  ASSUME ImageInv, NEW r \in Reviewers, VisualCountable(r)
  PROVE  /\ visualSubmissions[r].to = visualPackets[r] /\ visualPackets[r].images = manifest
         /\ \A c \in ImageCases :
              LET opinion == visualSubmissions[r].opinion[c]
              IN /\ opinion = "optimized" <=> VisualVote(r, c) = "win"
                 /\ opinion = "baseline" <=> VisualVote(r, c) = "loss"
                 /\ opinion = "tie" <=> VisualVote(r, c) = "tie"
<1>1. /\ visualPackets[r] # Null /\ visualKeys[r] = visualPackets[r] /\ visualSubmissions[r] # Null
      /\ visualSubmissions[r].to.number = visualPackets[r].number /\ visualPackets[r].images = manifest
  BY DEF VisualCountable, VisualKeyMatches
<1>2. visualSubmissions[r].to \in VisualPapers /\ visualPackets[r] \in VisualPapers
  BY <1>1 DEF VisualPapers, ImageInv, VisualAnswersInv
<1>3. visualSubmissions[r].to = visualPackets[r]
  BY <1>1, <1>2 DEF ImageInv, VisualPapersInv
<1>4. ASSUME NEW c \in ImageCases
      PROVE  LET opinion == visualSubmissions[r].opinion[c]
             IN /\ opinion = "optimized" <=> VisualVote(r, c) = "win"
                /\ opinion = "baseline" <=> VisualVote(r, c) = "loss"
                /\ opinion = "tie" <=> VisualVote(r, c) = "tie"
  <2>1. PICK s : s = visualSubmissions[r]
    OBVIOUS
  <2>2. /\ s.opinion[c] \in {"optimized", "baseline", "tie"}
        /\ s.answers = [x \in ImageCases |-> Mark(s.to, s.opinion, x)]
    BY <1>1, <2>1 DEF ImageInv, VisualAnswersInv
  <2>3. s.answers[c] = Mark(s.to, s.opinion, c) /\ s.to = visualKeys[r]
    BY <1>1, <1>3, <2>1, <2>2
  <2>4. LabelOfOptimized(visualKeys[r], c) \in {"A", "B"}
    BY DEF LabelOfOptimized
  <2>5. QED
    BY <2>1, <2>2, <2>3, <2>4 DEF VisualVote, Mark
<1>5. QED
  BY <1>1, <1>3, <1>4

------------------------------------------------------------------------------
(* The invariant.                                                          *)

LEMMA ReportsStay ==
  ASSUME ReportsInv, UNCHANGED replicateVars
  PROVE  ReportsInv'
BY DEF ReportsInv, replicateVars

LEMMA HumanStays ==
  ASSUME HumanInv, UNCHANGED humanVars
  PROVE  HumanInv'
BY DEF HumanInv, HumanShape, PapersInv, Papers, PaperOK, AnswersInv, HumanReportInv,
       VotesAreForWhatWasSeen, E4IsDirectPreference, Thought, humanVars

LEMMA ImagesStay ==
  ASSUME ImageInv, UNCHANGED imageVars
  PROVE  ImageInv'
BY DEF ImageInv, VisualShape, VisualPapersInv, VisualPapers, VisualAnswersInv, ImageReportInv,
       imageVars

LEMMA ReadyInit == Init => ReadyInv
<1> SUFFICES ASSUME Init PROVE ReadyInv
  OBVIOUS
<1>1. ReportsInv
  BY DEF Init, ReplicatesInit, ReportsInv
<1>2. Papers = {} /\ HumanShape /\ created = 0 /\ humanReport = Null
  BY DEF Init, HumanInit, Papers, HumanShape
<1>3. \A r \in Reviewers : submissions[r] = Null
  BY DEF Init, HumanInit
<1>4. HumanInv
  BY <1>2, <1>3 DEF HumanInv, PapersInv, AnswersInv, HumanReportInv, VotesAreForWhatWasSeen,
                    E4IsDirectPreference
<1>5. VisualPapers = {} /\ VisualShape /\ made = 0 /\ imageReport = Null
  BY DEF Init, ImageInit, VisualPapers, VisualShape
<1>6. \A r \in Reviewers : visualSubmissions[r] = Null
  BY DEF Init, ImageInit
<1>7. ImageInv
  BY <1>5, <1>6 DEF ImageInv, VisualPapersInv, VisualAnswersInv, ImageReportInv
<1>8. QED
  BY <1>1, <1>4, <1>7 DEF ReadyInv

LEMMA ReadyStep == ReadyInv /\ [Next]_vars => ReadyInv'
<1> SUFFICES ASSUME ReadyInv, [Next]_vars PROVE ReadyInv'
  OBVIOUS
<1>1. ReportsInv /\ HumanInv /\ ImageInv
  BY DEF ReadyInv
<1>2. CASE ReplicatesNext /\ UNCHANGED humanVars /\ UNCHANGED imageVars
  BY <1>1, <1>2, ReplicatesKeepReports, HumanStays, ImagesStay DEF ReadyInv
<1>3. CASE HumanNext /\ UNCHANGED imageVars
  <2>1. UNCHANGED replicateVars
    BY <1>3 DEF HumanNext, CreatePacket, AggregateHuman
  <2>2. HumanInv'
    BY <1>1, <1>3, CreatePacketKeeps, AggregateHumanKeeps DEF HumanNext
  <2>3. QED
    BY <1>1, <1>3, <2>1, <2>2, ReportsStay, ImagesStay DEF ReadyInv
<1>4. CASE ReviewerNext /\ UNCHANGED imageVars
  <2>1. UNCHANGED replicateVars
    BY <1>4 DEF ReviewerNext, Submit
  <2>2. HumanInv'
    BY <1>1, <1>4, SubmitKeeps DEF ReviewerNext
  <2>3. QED
    BY <1>1, <1>4, <2>1, <2>2, ReportsStay, ImagesStay DEF ReadyInv
<1>5. CASE ImageNext /\ UNCHANGED textVars
  <2>1. UNCHANGED replicateVars /\ UNCHANGED humanVars
    BY <1>5 DEF textVars
  <2>2. QED
    BY <1>1, <1>5, <2>1, ReportsStay, HumanStays, ImagesKeepImages DEF ReadyInv
<1>6. CASE UNCHANGED vars
  <2>1. UNCHANGED replicateVars /\ UNCHANGED humanVars /\ UNCHANGED imageVars
    BY <1>6 DEF vars, textVars
  <2>2. QED
    BY <1>1, <2>1, ReportsStay, HumanStays, ImagesStay DEF ReadyInv
<1>7. QED
  BY <1>2, <1>3, <1>4, <1>5, <1>6 DEF Next, TextNext

(***************************************************************************)
(* Every report says of its runs what follows from them, every paper in a  *)
(* reviewer's hands is known by its number and shows the outputs of the    *)
(* report it was made for, and every answer is the view of its reviewer    *)
(* under the labels of that paper, whatever was made anew in between.      *)
(***************************************************************************)
THEOREM ReadyInvariant == Spec => []ReadyInv
<1>1. QED
  BY ReadyInit, ReadyStep, PTL DEF Spec

------------------------------------------------------------------------------
(* What the reports promise.                                               *)

LEMMA IndependentOfInv == ReadyInv => E3IsIndependent
BY ReportIsIndependent DEF ReadyInv, ReportsInv, E3IsIndependent

LEMMA AgreedOfInv == ReadyInv => E3IsAgreed
<1> SUFFICES ASSUME ReadyInv PROVE E3IsAgreed
  OBVIOUS
<1>1. \A report \in reports : ReportOK(report)
  BY DEF ReadyInv, ReportsInv
<1>2. QED
  BY <1>1, ReportIsAgreed DEF E3IsAgreed

LEMMA ChainOfInv == ReadyInv => CompleteIsOneChain
<1> SUFFICES ASSUME ReadyInv, humanReport # Null,
                    NEW benchmark \in reports, NEW planReport \in reports,
                    NEW target \in Definitions, NEW S \in SUBSET Dirs, NEW planS \in SUBSET Dirs,
                    Complete(benchmark, target, S, humanReport, planReport, planS)
             PROVE  LET found == {run[d] : d \in S}
                    IN /\ found = benchmark.runs
                       /\ \A r \in found : r.definition = target
                       /\ \A r \in DOMAIN humanReport.artifacts :
                            LET shown == humanReport.artifacts[r].to
                            IN /\ shown = packets[r]
                               /\ \A domain \in DOMAIN shown.source : shown.source[domain] \in found
  BY DEF CompleteIsOneChain
<1> DEFINE found == {run[d] : d \in S}
<1>1. PapersInv /\ AnswersInv /\ DOMAIN humanReport.artifacts \subseteq Reviewers
  BY DEF ReadyInv, HumanInv, HumanReportInv
<1>2. /\ humanReport.report = Digest(benchmark)
      /\ HumanAuthority(humanReport, planReport, planS)
      /\ \A r \in benchmark.runs : r.definition = target
      /\ E3Authority(benchmark, S)
  BY DEF Complete, HumanReady, BenchmarkReady
<1>3. benchmark.runs = found
  BY <1>2 DEF E3Authority, RebuildsFrom, ReplicateReport
<1>4. Digest(planReport)[2] = found
  BY <1>2, <1>3 DEF HumanAuthority, Digest
<1>5. ASSUME NEW r \in DOMAIN humanReport.artifacts
      PROVE  /\ humanReport.artifacts[r].to = packets[r]
             /\ \A domain \in DOMAIN packets[r].source : packets[r].source[domain] \in found
  <2>1. r \in Reviewers /\ Countable(r, planReport, humanReport.source)
    BY <1>1, <1>2 DEF HumanAuthority
  <2>2. humanReport.artifacts[r] = submissions[r]
    <3>1. PICK R, adjudications :
            /\ R = DOMAIN humanReport.artifacts
            /\ humanReport = HumanReport(planReport, humanReport.source, R, adjudications, TRUE)
      BY <1>2 DEF HumanAuthority
    <3>2. humanReport.artifacts = [q \in R |-> submissions[q]]
      BY <3>1 DEF HumanReport
    <3>3. QED
      BY <3>1, <3>2
  <2>3. /\ submissions[r].to = packets[r] /\ PaperOK(packets[r])
        /\ packets[r].report = Digest(planReport)
    BY <1>1, <2>1, CountedPaper
  <2>4. QED
    BY <1>4, <2>2, <2>3 DEF PaperOK
<1>6. QED
  BY <1>2, <1>3, <1>5

LEMMA VariantsAreTwo == Cardinality(Variants) = 2 * Cardinality(ImageCases) /\ IsFiniteSet(Variants)
<1>1. IsFiniteSet(ImageCases)
  BY ImageAssumption
<1>2. IsFiniteSet({"baseline", "optimized"}) /\ Cardinality({"baseline", "optimized"}) = 2
  <2>1. IsFiniteSet({"optimized"}) /\ Cardinality({"optimized"}) = 1
    BY FS_Singleton
  <2>2. {"baseline", "optimized"} = {"optimized"} \cup {"baseline"} /\ "baseline" \notin {"optimized"}
    OBVIOUS
  <2>3. /\ IsFiniteSet({"optimized"} \cup {"baseline"})
        /\ Cardinality({"optimized"} \cup {"baseline"}) = Cardinality({"optimized"}) + 1
    BY <2>1, <2>2, FS_AddElement
  <2>4. QED
    BY <2>1, <2>2, <2>3
<1>3. /\ IsFiniteSet(ImageCases \X {"baseline", "optimized"})
      /\ Cardinality(ImageCases \X {"baseline", "optimized"}) = Cardinality(ImageCases) * 2
  BY <1>1, <1>2, FS_Product
<1>4. Cardinality(ImageCases) \in Nat
  BY <1>1, FS_CardinalityType
<1>5. QED
  BY <1>3, <1>4 DEF Variants

\* What the image votes decide is what the reviewers thought.
LEMMA VisualLeadIsOpinion ==
  ASSUME ImageInv, NEW R \in SUBSET Reviewers, \A r \in R : VisualCountable(r),
         NEW c \in ImageCases
  PROVE  LET n(o) == Cardinality({r \in R : visualSubmissions[r].opinion[c] = o})
             leads(o) == \A p \in {"optimized", "baseline", "tie"} \ {o} : n(o) > n(p)
         IN /\ leads("optimized") <=> VisualLeads(R, c, "win")
            /\ leads("baseline") <=> VisualLeads(R, c, "loss")
<1> DEFINE n(o) == Cardinality({r \in R : visualSubmissions[r].opinion[c] = o})
<1>1. \A r \in R : LET opinion == visualSubmissions[r].opinion[c]
                   IN /\ opinion = "optimized" <=> VisualVote(r, c) = "win"
                      /\ opinion = "baseline" <=> VisualVote(r, c) = "loss"
                      /\ opinion = "tie" <=> VisualVote(r, c) = "tie"
  BY CountedOpinion
<1>2. /\ n("optimized") = VisualVotes(R, c, "win") /\ n("baseline") = VisualVotes(R, c, "loss")
      /\ n("tie") = VisualVotes(R, c, "tie")
  <2>1. /\ {r \in R : visualSubmissions[r].opinion[c] = "optimized"} = {r \in R : VisualVote(r, c) = "win"}
        /\ {r \in R : visualSubmissions[r].opinion[c] = "baseline"} = {r \in R : VisualVote(r, c) = "loss"}
        /\ {r \in R : visualSubmissions[r].opinion[c] = "tie"} = {r \in R : VisualVote(r, c) = "tie"}
    BY <1>1
  <2>2. QED
    BY <2>1 DEF VisualVotes
<1>3. \A o \in Outcomes : VisualVotes(R, c, o) \in Nat
  <2>1. IsFiniteSet(R)
    BY HumanAssumption, FS_Subset
  <2>2. ASSUME NEW o \in Outcomes PROVE VisualVotes(R, c, o) \in Nat
    <3>1. IsFiniteSet({r \in R : VisualVote(r, c) = o})
      BY <2>1, FS_Subset
    <3>2. QED
      BY <3>1, FS_CardinalityType DEF VisualVotes
  <2>3. QED
    BY <2>2
<1> HIDE DEF n
<1>4. /\ (\A p \in {"optimized", "baseline", "tie"} \ {"optimized"} : n("optimized") > n(p))
           <=> VisualLeads(R, c, "win")
      /\ (\A p \in {"optimized", "baseline", "tie"} \ {"baseline"} : n("baseline") > n(p))
           <=> VisualLeads(R, c, "loss")
  BY <1>2, <1>3 DEF VisualLeads, Outcomes
<1>5. QED
  BY <1>4 DEF n

LEMMA PreferredOfInv == ReadyInv => ImagesWerePreferred
<1> SUFFICES ASSUME ReadyInv, ImageReady
             PROVE  LET shown == imageReport.artifacts
                        people == DOMAIN shown
                        n(c, o) == Cardinality({r \in people : shown[r].opinion[c] = o})
                        leads(o) == {c \in ImageCases :
                                       \A p \in {"optimized", "baseline", "tie"} \ {o} : n(c, o) > n(c, p)}
                    IN /\ Cardinality({assets[v] : v \in Variants}) = 2 * Cardinality(ImageCases)
                       /\ people \subseteq Qualified /\ Cardinality(people) >= MinimumLookers
                       /\ \A r \in people : shown[r].to.images = assets
                       /\ Cardinality(leads("optimized")) > Cardinality(leads("baseline"))
  BY DEF ImagesWerePreferred
<1> DEFINE R == DOMAIN imageReport.artifacts
           n(c, o) == Cardinality({r \in R : imageReport.artifacts[r].opinion[c] = o})
           leads(o) == {c \in ImageCases :
                          \A p \in {"optimized", "baseline", "tie"} \ {o} : n(c, o) > n(c, p)}
           won(o) == {c \in DOMAIN imageReport.consensus : imageReport.consensus[c] = o}
<1>1. ImageInv /\ R \in SUBSET Reviewers
  BY DEF ImageReady, ReadyInv, ImageInv, ImageReportInv
<1>2. /\ Aggregatable(R, TRUE) /\ imageReport = VisualReport(R, TRUE)
      /\ ImageAssetsStand(imageReport) /\ Cardinality(won("win")) > Cardinality(won("loss"))
  BY DEF ImageReady, VisualAuthority
<1>3. /\ manifest = assets /\ \A v, w \in Variants : assets[v] = assets[w] => v = w
      /\ \A r \in R : VisualCountable(r)
  BY <1>2 DEF Aggregatable, ManifestStands, ReceiptsUnique
<1>4. Cardinality({assets[v] : v \in Variants}) = 2 * Cardinality(ImageCases)
  <2>1. PICK f : f = [v \in Variants |-> assets[v]]
    OBVIOUS
  <2>2. DOMAIN f = Variants /\ f = [v \in Variants |-> f[v]]
        /\ \A v, w \in Variants : v # w => f[v] # f[w]
    BY <1>3, <2>1
  <2>3. Cardinality({f[v] : v \in Variants}) = Cardinality(Variants)
    BY <2>2, VariantsAreTwo, DistinctValues
  <2>4. {f[v] : v \in Variants} = {assets[v] : v \in Variants}
    BY <2>1
  <2>5. QED
    BY <2>3, <2>4, VariantsAreTwo
<1>5. R \subseteq Qualified /\ Cardinality(R) >= MinimumLookers
  BY <1>2, <1>3 DEF VisualCountable, ImageAssetsStand
<1>6. \A r \in R : imageReport.artifacts[r] = visualSubmissions[r]
  <2>1. PICK T : T = R /\ imageReport = VisualReport(T, TRUE)
    BY <1>2
  <2>2. imageReport.artifacts = [r \in T |-> visualSubmissions[r]]
    BY <2>1 DEF VisualReport
  <2>3. QED
    BY <2>1, <2>2
<1>7. \A r \in R : imageReport.artifacts[r].to.images = assets
  BY <1>1, <1>3, <1>6, CountedOpinion
<1>8. DOMAIN imageReport.consensus = ImageCases
  BY <1>2 DEF ImageAssetsStand
<1>9. ASSUME NEW c \in ImageCases
      PROVE  /\ VisualLeads(R, c, imageReport.consensus[c]) /\ imageReport.consensus[c] \in Outcomes
             /\ \A o, p \in Outcomes : VisualLeads(R, c, o) /\ VisualLeads(R, c, p) => o = p
  <2>1. PICK T : T = R /\ imageReport = VisualReport(T, TRUE)
    BY <1>2
  <2> DEFINE resolved == {x \in ImageCases : \E o \in Outcomes : VisualLeads(T, x, o)}
  <2>2. imageReport.consensus = [x \in resolved |-> CHOOSE o \in Outcomes : VisualLeads(T, x, o)]
    BY <2>1 DEF VisualReport
  <2>3. c \in resolved
    BY <1>8, <2>2
  <2>4. /\ imageReport.consensus[c] = CHOOSE o \in Outcomes : VisualLeads(T, c, o)
        /\ \E o \in Outcomes : VisualLeads(T, c, o)
    BY <2>2, <2>3
  <2>5. VisualLeads(T, c, imageReport.consensus[c]) /\ imageReport.consensus[c] \in Outcomes
    BY <2>4
  <2>6. \A o \in Outcomes : VisualVotes(R, c, o) \in Nat
    <3>1. IsFiniteSet(R)
      BY <1>1, HumanAssumption, FS_Subset
    <3>2. \A o \in Outcomes : IsFiniteSet({r \in R : VisualVote(r, c) = o})
      BY <3>1, FS_Subset
    <3>3. QED
      BY <3>2, FS_CardinalityType DEF VisualVotes
  <2>7. \A o, p \in Outcomes : VisualLeads(R, c, o) /\ VisualLeads(R, c, p) => o = p
    BY <2>6 DEF VisualLeads
  <2>8. QED
    BY <2>1, <2>5, <2>7
<1>10. ASSUME NEW c \in ImageCases
       PROVE  /\ c \in leads("optimized") <=> c \in won("win")
              /\ c \in leads("baseline") <=> c \in won("loss")
  <2>1. \A o : n(c, o) = Cardinality({r \in R : visualSubmissions[r].opinion[c] = o})
    <3> SUFFICES ASSUME NEW o
                 PROVE  n(c, o) = Cardinality({r \in R : visualSubmissions[r].opinion[c] = o})
      OBVIOUS
    <3>1. {r \in R : imageReport.artifacts[r].opinion[c] = o}
            = {r \in R : visualSubmissions[r].opinion[c] = o}
      BY <1>6
    <3>2. QED
      BY <3>1
  <2>2. LET m(o) == Cardinality({r \in R : visualSubmissions[r].opinion[c] = o})
            first(o) == \A p \in {"optimized", "baseline", "tie"} \ {o} : m(o) > m(p)
        IN /\ c \in leads("optimized") <=> first("optimized")
           /\ c \in leads("baseline") <=> first("baseline")
    BY <2>1
  <2> HIDE DEF leads, n
  <2>3. /\ c \in leads("optimized") <=> VisualLeads(R, c, "win")
        /\ c \in leads("baseline") <=> VisualLeads(R, c, "loss")
    BY <1>1, <1>3, <2>2, VisualLeadIsOpinion
  <2>4. "win" \in Outcomes /\ "loss" \in Outcomes
    BY DEF Outcomes
  <2>5. QED
    BY <1>8, <1>9, <2>3, <2>4
<1>11. leads("optimized") = won("win") /\ leads("baseline") = won("loss")
  BY <1>8, <1>10
<1>12. QED
  BY <1>2, <1>4, <1>5, <1>7, <1>11

\* No response is counted twice by an E3 report.
THEOREM ReplicatesAreIndependent == Spec => []E3IsIndependent
<1>1. QED
  BY ReadyInvariant, IndependentOfInv, PTL

\* No agreement hides harm in an E3 report and no disagreement counts as a win.
THEOREM ReplicatesAgree == Spec => []E3IsAgreed
<1>1. QED
  BY ReadyInvariant, AgreedOfInv, PTL

\* The human report counts views of what was seen, under whichever packets.
THEOREM VotesAreSeen == Spec => []VotesAreForWhatWasSeen
<1>1. ReadyInv => VotesAreForWhatWasSeen
  BY DEF ReadyInv, HumanInv
<1>2. QED
  BY ReadyInvariant, <1>1, PTL

\* E4 rests on direct preference, by reviewers of the same cases and runs.
THEOREM E4IsPreference == Spec => []E4IsDirectPreference
<1>1. ReadyInv => E4IsDirectPreference
  BY DEF ReadyInv, HumanInv
<1>2. QED
  BY ReadyInvariant, <1>1, PTL

\* A complete assessment stands on one chain from the directories to the votes.
THEOREM ReadinessIsOneChain == Spec => []CompleteIsOneChain
<1>1. QED
  BY ReadyInvariant, ChainOfInv, PTL

\* Images that pass are separate generations that qualified people preferred.
THEOREM ImagesArePreferred == Spec => []ImagesWerePreferred
<1>1. QED
  BY ReadyInvariant, PreferredOfInv, PTL
==============================================================================
