----------------------------- MODULE ImageReview -----------------------------
(***************************************************************************)
(* Blind review of generated images (image_review.py): the image files of  *)
(* a suite are registered by their digests, every reviewer is given a      *)
(* packet with copies of them under labels, and a report is made from the  *)
(* answers and made again when readiness relies on it.  The files can be   *)
(* generated anew, or replaced by one another, at any time.                *)
(*                                                                         *)
(* An image is named by the generation it comes from.                      *)
(***************************************************************************)
EXTENDS HumanReview

CONSTANTS ImageCases,
          Qualified,         \* the reviewers whose profile is valid
          Opinions,          \* what a reviewer may think of the images
          Placements,        \* the cases shown with the optimized image as A
          MinimumImages,     \* 5 in the code
          MinimumLookers,    \* 3
          MaxImageChanges,   \* bounds
          MaxVisualPackets

ASSUME ImageAssumption ==
  /\ IsFiniteSet(ImageCases) /\ Qualified \subseteq Reviewers
  /\ Opinions \subseteq [ImageCases -> {"optimized", "baseline", "tie"}]
  /\ Placements \subseteq SUBSET ImageCases
  /\ {MinimumImages, MinimumLookers, MaxImageChanges, MaxVisualPackets} \subseteq Nat

VARIABLES assets,        \* the image file of each variant of each case
          changes,       \* files replaced so far (bounded)
          manifest,      \* the images registered
          visualPackets, visualKeys, visualSubmissions,
          made,          \* visual packets made so far (bounded); names blinding keys
          imageReport

imageVars == <<assets, changes, manifest, visualPackets, visualKeys, visualSubmissions,
               made, imageReport>>

Variants == ImageCases \X {"baseline", "optimized"}

ImageInit ==
  /\ assets = [v \in Variants |-> <<v, 0>>] /\ changes = 0
  /\ manifest = Null /\ made = 0 /\ imageReport = Null
  /\ visualPackets = [r \in Reviewers |-> Null]
  /\ visualKeys = [r \in Reviewers |-> Null]
  /\ visualSubmissions = [r \in Reviewers |-> Null]

------------------------------------------------------------------------------
\* An image is generated anew over the old one, or another image is put there.
ReplaceImage(v) ==
  /\ changes < MaxImageChanges
  /\ changes' = changes + 1
  /\ \E image \in {<<v, changes + 1>>} \cup {assets[w] : w \in Variants \ {v}} :
       assets' = [assets EXCEPT ![v] = image]
  /\ UNCHANGED <<manifest, visualPackets, visualKeys, visualSubmissions, made, imageReport>>

\* build_generation_manifest, over the manifest there was.
Register == /\ Cardinality(ImageCases) >= MinimumImages
            /\ manifest' = assets
            /\ UNCHANGED <<assets, changes, visualPackets, visualKeys, visualSubmissions,
                           made, imageReport>>

\* validate_generation_manifest: the files are still those registered.
ManifestStands == manifest # Null /\ manifest = assets

(***************************************************************************)
(* create-visual-review-packet: the copies are made under names that       *)
(* depend on a fresh secret and compared with the digests before the       *)
(* packet is written, so a packet on disk has its images beside it.  The   *)
(* key is written last: whole tells whether it was.                        *)
(***************************************************************************)
CreateVisualPacket(r) ==
  /\ ManifestStands /\ made < MaxVisualPackets
  /\ made' = made + 1
  /\ \E shownAsA \in Placements, whole \in BOOLEAN :
       LET packet == [number |-> made + 1, images |-> manifest, optimizedIsA |-> shownAsA]
       IN /\ visualPackets' = [visualPackets EXCEPT ![r] = packet]
          /\ visualKeys' = IF whole THEN [visualKeys EXCEPT ![r] = packet] ELSE visualKeys
  /\ UNCHANGED <<assets, changes, manifest, visualSubmissions, imageReport>>

LabelOfOptimized(packet, c) == IF c \in packet.optimizedIsA THEN "A" ELSE "B"

\* A reviewer looks at the copies and answers the packet, once, for every case.
Look(r, opinion) ==
  /\ visualPackets[r] # Null
  /\ visualSubmissions[r] # Null => visualSubmissions[r].to # visualPackets[r]
  /\ LET label(c) == LabelOfOptimized(visualPackets[r], c)
     IN visualSubmissions' = [visualSubmissions EXCEPT ![r] =
          [to |-> visualPackets[r], opinion |-> opinion,
           answers |-> [c \in ImageCases |->
                          CASE opinion[c] = "tie" -> "tie"
                            [] opinion[c] = "optimized" -> label(c)
                            [] opinion[c] = "baseline" -> IF label(c) = "A" THEN "B" ELSE "A"]]]
  /\ UNCHANGED <<assets, changes, manifest, visualPackets, visualKeys, made, imageReport>>

------------------------------------------------------------------------------
\* Slip: the key is the reviewer's, whichever packet it was made with.
VisualKeyOfReviewer(r) == visualKeys[r].images = visualPackets[r].images

\* validate_visual_review_key: the key makes this packet, labels and all, again.
VisualKeyMatches(r) == visualKeys[r] = visualPackets[r]

VisualCountable(r) ==
  /\ visualPackets[r] # Null /\ visualKeys[r] # Null /\ visualSubmissions[r] # Null
  /\ visualSubmissions[r].to.number = visualPackets[r].number
  /\ r \in Qualified
  /\ VisualKeyMatches(r)
  /\ visualPackets[r].images = manifest

VisualVote(r, c) ==
  LET answer == visualSubmissions[r].answers[c]
  IN IF answer = "tie" THEN "tie"
     ELSE IF answer = LabelOfOptimized(visualKeys[r], c) THEN "win" ELSE "loss"

VisualVotes(R, c, o) == Cardinality({r \in R : VisualVote(r, c) = o})

VisualLeads(R, c, o) ==
  \A p \in Outcomes \ {o} : VisualVotes(R, c, p) < VisualVotes(R, c, o)

\* No generation's receipt is given twice; without a verifier there are none.
ReceiptsUnique(verified) ==
  verified => \A v, w \in Variants : manifest[v] = manifest[w] => v = w

\* aggregate_visual_review
VisualReport(R, verified) ==
  LET resolved == {c \in ImageCases : \E o \in Outcomes : VisualLeads(R, c, o)}
  IN [images |-> manifest, verified |-> verified /\ R # {},
      artifacts |-> [r \in R |-> visualSubmissions[r]],
      consensus |-> [c \in resolved |-> CHOOSE o \in Outcomes : VisualLeads(R, c, o)]]

Aggregatable(R, verified) ==
  ManifestStands /\ ReceiptsUnique(verified) /\ \A r \in R : VisualCountable(r)

AggregateVisual(R) ==
  /\ imageReport = Null     \* a bound
  /\ \E verified \in BOOLEAN :
       Aggregatable(R, verified) /\ imageReport' = VisualReport(R, verified)
  /\ UNCHANGED <<assets, changes, manifest, visualPackets, visualKeys, visualSubmissions, made>>

ImageNext == \/ \E v \in Variants : ReplaceImage(v)
             \/ Register
             \/ \E r \in Reviewers : CreateVisualPacket(r)
             \/ \E r \in Reviewers, opinion \in Opinions : Look(r, opinion)
             \/ \E R \in SUBSET Reviewers : AggregateVisual(R)

\* validate_visual_review_authority: with its verifiers, the plan makes it again.
VisualAuthority(report) ==
  LET R == DOMAIN report.artifacts
  IN Aggregatable(R, TRUE) /\ report = VisualReport(R, TRUE)

\* validate_image_evidence_assets: the images it lists are still the files, and
\* every case was decided by enough reviewers.
ImageAssetsStand(report) ==
  /\ Cardinality(ImageCases) >= MinimumImages
  /\ Cardinality(DOMAIN report.artifacts) >= MinimumLookers
  /\ DOMAIN report.consensus = ImageCases
  /\ report.images = assets
==============================================================================
