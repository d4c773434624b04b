------------------------------ MODULE HumanReview ------------------------------
(***************************************************************************)
(* Blind review by people of the runs behind an E3 report                  *)
(* (human_review.py).  A packet shows a reviewer the two outputs of some   *)
(* cases under labels, some of them twice with the labels reversed; its    *)
(* key tells the labels and stays behind.  Packets, keys and submissions   *)
(* are files that are made one by one, in any order, and read together     *)
(* when the votes are counted, and again when the report is relied upon.   *)
(***************************************************************************)
EXTENDS Replicates

CONSTANTS Reviewers,
          Blindings,         \* samples, probes and labels a packet may have
          Views,             \* what a reviewer may think of the cases
          MinimumReviewers,  \* 3 in the code
          MinimumReviewed,   \* cases (24)
          MinimumProbes,     \* cases shown twice (2)
          MaxPackets         \* bound

\* A view of "first" is no view: such a reviewer takes whatever stands at A.
Blinding == [sample : SUBSET Cases, probes : SUBSET Cases,
             optimizedIsA : [Cases -> BOOLEAN]]
View == [Cases -> {"optimized", "original", "tie", "first"}]

ASSUME HumanAssumption ==
  /\ IsFiniteSet(Reviewers)
  /\ Blindings \subseteq Blinding
  /\ \A b \in Blindings : b.probes \subseteq b.sample /\ Cardinality(b.probes) >= MinimumProbes
  /\ Views \subseteq View
  /\ {MinimumReviewers, MinimumReviewed, MinimumProbes, MaxPackets} \subseteq Nat

VARIABLES packets,      \* the packet file of a reviewer
          keys,         \* the key file, the packet it was made with
          submissions,  \* the reviewer's answers, and what they were to
          created,      \* packets made so far (bounded); names blinding keys
          humanReport   \* the human-review report on disk

humanVars == <<packets, keys, submissions, created, humanReport>>

HumanInit ==
  /\ packets = [r \in Reviewers |-> Null]
  /\ keys = [r \in Reviewers |-> Null]
  /\ submissions = [r \in Reviewers |-> Null]
  /\ created = 0 /\ humanReport = Null

------------------------------------------------------------------------------
(* Packets and answers.                                                    *)

\* What a digest of a report tells apart: the rest of it follows.
Digest(report) == <<report.verified, report.runs>>

\* Evaluations of a report's runs, at most one for each domain.
Sources(report) ==
  UNION {[domains -> report.runs] : domains \in SUBSET Domains \ {{}}}

Items(packet) ==
  {<<c, "base">> : c \in packet.sample} \cup {<<c, "probe">> : c \in packet.probes}

\* A probe shows the case again with the labels reversed.
OptimizedLabel(packet, item) ==
  IF packet.optimizedIsA[item[1]] = (item[2] = "base") THEN "A" ELSE "B"

\* What a reviewer of some view writes down for an item.
Answer(view, label) ==
  CASE view = "tie" -> "tie"
    [] view = "first" -> "A"
    [] view = "optimized" -> label
    [] view = "original" -> IF label = "A" THEN "B" ELSE "A"

\* The packet is written before its key, by two plain writes: whole tells
\* whether the second happened.
CreatePacket(r, report, S) ==
  /\ created < MaxPackets
  /\ E3Authority(report, S)
  /\ created' = created + 1
  /\ \E source \in Sources(report), blinding \in Blindings, whole \in BOOLEAN :
       LET packet == [number |-> created + 1, report |-> Digest(report), source |-> source,
                      sample |-> blinding.sample, probes |-> blinding.probes,
                      optimizedIsA |-> blinding.optimizedIsA]
       IN /\ \A c \in blinding.sample : DomainOf[c] \in DOMAIN source
          /\ packets' = [packets EXCEPT ![r] = packet]
          /\ keys' = IF whole THEN [keys EXCEPT ![r] = packet] ELSE keys
  /\ UNCHANGED <<replicateVars, submissions, humanReport>>

\* The reviewer answers the packet in hand, once.  A packet that is made anew
\* while the reviewer works leaves the same files as one made after the answer.
Submit(r, view) ==
  /\ packets[r] # Null
  /\ submissions[r] # Null => submissions[r].to # packets[r]
  /\ submissions' = [submissions EXCEPT ![r] =
       [to |-> packets[r], view |-> view,
        answers |-> [item \in Items(packets[r]) |->
                       Answer(view[item[1]], OptimizedLabel(packets[r], item))]]]
  /\ UNCHANGED <<replicateVars, packets, keys, created, humanReport>>

------------------------------------------------------------------------------
(* Counting the votes.                                                     *)

\* Slip: answers are taken for the packet of their reviewer and its cases.
AnswersTheCases(r) == submissions[r].to.sample = packets[r].sample
                        /\ submissions[r].to.probes = packets[r].probes

\* A submission covers the items of its packet, which the blinding key names.
AnswersThePacket(r) == submissions[r].to.number = packets[r].number

KeyOfPacket(r) == keys[r].number = packets[r].number

Countable(r, report, source) ==
  /\ packets[r] # Null /\ keys[r] # Null /\ submissions[r] # Null
  /\ AnswersThePacket(r)
  /\ KeyOfPacket(r)
  /\ packets[r].report = Digest(report) /\ packets[r].source = source

Vote(r, c) ==
  LET answer == submissions[r].answers[<<c, "base">>]
  IN IF answer = "tie" THEN "tie"
     ELSE IF answer = OptimizedLabel(keys[r], <<c, "base">>) THEN "win" ELSE "loss"

\* No probe is tied or answered with the same letter again, and both letters
\* occur among the base answers.
PassedProtocol(r) ==
  LET answers == submissions[r].answers
  IN /\ Cardinality(keys[r].probes) >= MinimumProbes
     /\ \A c \in keys[r].probes :
          {answers[<<c, "base">>], answers[<<c, "probe">>]} = {"A", "B"}
     /\ \A label \in {"A", "B"} : \E c \in keys[r].sample : answers[<<c, "base">>] = label

Reviewed(R) == UNION {keys[r].sample : r \in R}

Votes(R, c, o) == Cardinality({r \in R : c \in keys[r].sample /\ Vote(r, c) = o})

Leads(R, c, o) == \A p \in Outcomes \ {o} : Votes(R, c, p) < Votes(R, c, o)

\* Cases on which no outcome leads alone.
Tied(R) == {c \in Reviewed(R) : ~ \E o \in Outcomes : Leads(R, c, o)}

HumanConsensus(R, tied, adjudications) ==
  [c \in (Reviewed(R) \ tied) \cup DOMAIN adjudications |->
     IF c \in tied THEN adjudications[c] ELSE CHOOSE o \in Outcomes : Leads(R, c, o)]

\* Cases that an adjudicator decided do not count.
Improved(R) ==
  Cardinality({c \in Reviewed(R) : Leads(R, c, "win")})
    > Cardinality({c \in Reviewed(R) : Leads(R, c, "loss")})

\* Slip: a case decided by adjudication is as good as a voted one.
E4ReadyByAdjudication(R, adjudications, verified) ==
  /\ Cardinality(R) >= MinimumReviewers
  /\ Cardinality(Reviewed(R)) >= MinimumReviewed
  /\ \A r \in R : keys[r].sample = Reviewed(R)
  /\ Tied(R) \subseteq DOMAIN adjudications
  /\ \A r \in R : PassedProtocol(r)
  /\ R # {} /\ verified
  /\ Improved(R)

E4Ready(R, adjudications, verified) ==
  /\ Cardinality(R) >= MinimumReviewers
  /\ Cardinality(Reviewed(R)) >= MinimumReviewed
  /\ \A r \in R : keys[r].sample = Reviewed(R)
  /\ Tied(R) = {}
  /\ \A r \in R : PassedProtocol(r)
  /\ R # {} /\ verified
  /\ Improved(R)

\* Decisions of an adjudicator for tied cases; any other is an error.
Adjudications(R) == UNION {[cases -> Outcomes] : cases \in SUBSET Tied(R)}

HumanReport(report, source, R, adjudications, verified) ==
  LET tied == Tied(R)
  IN [report |-> Digest(report), source |-> source,
      artifacts |-> [r \in R |-> submissions[r]],
      verified |-> verified /\ R # {},
      adjudicated |-> DOMAIN adjudications,
      unresolved |-> tied \ DOMAIN adjudications,
      consensus |-> HumanConsensus(R, tied, adjudications),
      e4 |-> E4Ready(R, adjudications, verified)]

\* The plan names enough reviewers.  A report is made once (a bound); what it was
\* made from may change later.
AggregateHuman(report, S, R) ==
  /\ humanReport = Null
  /\ Cardinality(R) >= MinimumReviewers
  /\ \E source \in Sources(report), verified \in BOOLEAN :
       /\ \A r \in R : Countable(r, report, source)
       /\ E3Authority(report, S)
       /\ \E adjudications \in Adjudications(R) :
            humanReport' = HumanReport(report, source, R, adjudications, verified)
  /\ UNCHANGED <<replicateVars, packets, keys, submissions, created>>

HumanNext ==
  \E report \in reports, S \in SUBSET Dirs :
    \/ \E r \in Reviewers : CreatePacket(r, report, S)
    \/ \E R \in SUBSET Reviewers : AggregateHuman(report, S, R)

ReviewerNext == \E r \in Reviewers, view \in Views : Submit(r, view)

------------------------------------------------------------------------------
(* Relying on a report.                                                    *)

\* The report is derived again from the files its plan names.
HumanAuthority(human, report, S) ==
  /\ human.report = Digest(report)
  /\ LET R == DOMAIN human.artifacts
     IN /\ \A r \in R : Countable(r, report, human.source)
        /\ \E adjudications \in Adjudications(R) :
             human = HumanReport(report, human.source, R, adjudications, TRUE)
  /\ E3Authority(report, S)

------------------------------------------------------------------------------
(* Properties                                                              *)

Thought(human, c, view) ==
  {r \in DOMAIN human.artifacts : /\ c \in human.artifacts[r].to.sample
                                  /\ human.artifacts[r].view[c] = view}
ViewOf(o) == CASE o = "win" -> "optimized" [] o = "loss" -> "original" [] o = "tie" -> "tie"

\* What a report says people preferred is what they preferred when they looked
\* at those outputs, whichever packets were made anew or left without their key
\* in between: apart from reviewers who had no view, an outcome that leads the
\* count led among the reviewers.
VotesAreForWhatWasSeen ==
  humanReport # Null =>
    \A c \in DOMAIN humanReport.consensus \ humanReport.adjudicated :
      LET o == humanReport.consensus[c]
          n(view) == Cardinality(Thought(humanReport, c, view))
      IN \A p \in Outcomes \ {o} : n(ViewOf(o)) + n("first") > n(ViewOf(p))

\* E4 rests on what people preferred: every reviewer saw every case of the same
\* runs, none of them went by the position where a case was shown twice, and no
\* case was decided by an adjudicator.
E4IsDirectPreference ==
  humanReport # Null /\ humanReport.e4 =>
    /\ humanReport.adjudicated = {} /\ humanReport.unresolved = {}
    /\ \A r \in DOMAIN humanReport.artifacts :
         LET shown == humanReport.artifacts[r]
         IN /\ shown.to.sample = DOMAIN humanReport.consensus
            /\ shown.to.source = humanReport.source
            /\ \A c \in shown.to.probes : shown.view[c] \in {"optimized", "original"}
===============================================================================
