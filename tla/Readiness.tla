------------------------------- MODULE Readiness -------------------------------
(***************************************************************************)
(* The stable-readiness gate (assess_readiness of readiness.py) over the   *)
(* replicate report and the human review, which it follows back to the     *)
(* files they were made from.  A manifest names the artifacts, the target  *)
(* benchmark and the source directories; the human review names the        *)
(* sources of its own in a plan.  What the other requirements ask of other *)
(* artifacts is a choice.                                                  *)
(***************************************************************************)
EXTENDS ImageReview

CONSTANTS ExpertDomains  \* domains the human review must cover (4 in the code)

ASSUME ReadinessAssumption == ExpertDomains \subseteq Domains

textVars == <<replicateVars, humanVars>>
vars == <<textVars, imageVars>>

Init == ReplicatesInit /\ HumanInit /\ ImageInit

TextNext == (ReplicatesNext /\ UNCHANGED humanVars) \/ HumanNext \/ ReviewerNext

\* The images and the benchmark share no file: a behaviour changes the ones or
\* the others (a bound on the interleavings).
Next == \/ ImageInit /\ TextNext /\ UNCHANGED imageVars
        \/ executed = 0 /\ ImageNext /\ UNCHANGED textVars

Spec == Init /\ [][Next]_vars

------------------------------------------------------------------------------
(* The gate reads files and changes none.                                  *)

\* R03 and R04: the report is for the target, has full coverage and passed its
\* gates, and its directories still make it.
BenchmarkReady(benchmark, target, S) ==
  /\ Cardinality(S) >= MinimumReplicates
  /\ \A r \in benchmark.runs : r.definition = target
  /\ E3Authority(benchmark, S)

\* Slip: the review is checked against the report of its own plan only.
HumanReadyByPlan(benchmark, human, planReport, planS) ==
  /\ human.e4
  /\ HumanAuthority(human, planReport, planS)
  /\ ExpertDomains \subseteq DOMAIN human.source

\* R07: the review is of the assessed report, is E4, covers the expert domains,
\* and its plan makes it again.
HumanReady(benchmark, human, planReport, planS) ==
  /\ human.e4
  /\ human.report = Digest(benchmark)
  /\ HumanAuthority(human, planReport, planS)
  /\ ExpertDomains \subseteq DOMAIN human.source

\* R06: the image report passes its gates, its files are unchanged, and its plan
\* makes it again.
ImageReady ==
  /\ imageReport # Null
  /\ imageReport.verified
  /\ LET won(o) == {c \in DOMAIN imageReport.consensus : imageReport.consensus[c] = o}
     IN Cardinality(won("win")) > Cardinality(won("loss"))
  /\ ImageAssetsStand(imageReport)
  /\ VisualAuthority(imageReport)

\* R03, R04 and R07 pass.  The remaining requirements and the artifact checks are
\* taken to hold: an assessment is incomplete whenever one of them does not.
Complete(benchmark, target, S, human, planReport, planS) ==
  /\ HumanReady(benchmark, human, planReport, planS)
  /\ BenchmarkReady(benchmark, target, S)

------------------------------------------------------------------------------
(* Properties                                                              *)

\* A complete assessment stands on one chain: the runs found in the directories
\* are the ones the replicates were counted from, all of the target benchmark,
\* and the outputs that people preferred came from those very runs, although
\* directories, packets and reports may have been made anew at any step.
CompleteIsOneChain ==
  humanReport # Null =>
    \A benchmark, planReport \in reports, target \in Definitions, S, planS \in SUBSET Dirs :
      Complete(benchmark, target, S, humanReport, planReport, planS) =>
        LET found == {run[d] : d \in S}
        IN /\ found = benchmark.runs
           /\ \A r \in found : r.definition = target
           /\ \A r \in DOMAIN humanReport.artifacts :
                LET shown == humanReport.artifacts[r].to
                IN /\ shown = packets[r]
                   /\ \A domain \in DOMAIN shown.source : shown.source[domain] \in found

(***************************************************************************)
(* When R06 passes, the image files are separate generations, they are the *)
(* very images that enough qualified people looked at, and those people    *)
(* preferred the optimized image in more cases than the baseline's,        *)
(* whatever was generated, registered, packed or answered again.           *)
(***************************************************************************)
ImagesWerePreferred ==
  ImageReady =>
    LET shown == imageReport.artifacts
        people == DOMAIN shown
        n(c, o) == Cardinality({r \in people : shown[r].opinion[c] = o})
        leads(o) == {c \in ImageCases :
                       \A p \in {"optimized", "baseline", "tie"} \ {o} : n(c, o) > n(c, p)}
    IN /\ Cardinality({assets[v] : v \in Variants}) = 2 * Cardinality(ImageCases)
       /\ people \subseteq Qualified /\ Cardinality(people) >= MinimumLookers
       /\ \A r \in people : shown[r].to.images = assets
       /\ Cardinality(leads("optimized")) > Cardinality(leads("baseline"))
===============================================================================
