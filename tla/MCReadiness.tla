------------------------------ MODULE MCReadiness ------------------------------
(* Two cases of one domain: the cases are won, or one of them is lost or does *)
(* harm.  Reviewers differ in preference and in whether they follow the       *)
(* position.                                                                  *)
EXTENDS Readiness, TLC

CONSTANTS c1, c2, p1, p2

One == [c \in Cases |-> "writing"]
Seen(o, fatal) == [outcome |-> o, critical |-> FALSE, fatal |-> fatal, hard |-> FALSE]
Of(x, y) == [c \in Cases |-> IF c = c1 THEN x ELSE y]
SomeProfiles == {Of(Seen("win", FALSE), Seen("tie", FALSE)),
                 Of(Seen("tie", FALSE), Seen("win", FALSE)),
                 Of(Seen("win", FALSE), Seen("tie", TRUE))}
SomeBlindings == {[sample |-> Cases, probes |-> {c1}, optimizedIsA |-> p] :
                    p \in {[c \in Cases |-> TRUE], [c \in Cases |-> c = c1]}}
SomeViews == {[c \in Cases |-> "optimized"],
              [c \in Cases |-> IF c = c1 THEN "first" ELSE "optimized"],
              [c \in Cases |-> IF c = c1 THEN "optimized" ELSE "original"]}
Think(x, y) == [c \in ImageCases |-> IF c = p1 THEN x ELSE y]
SomeOpinions == {Think("optimized", "tie"), Think("baseline", "tie")}
SomePlacements == {{p1}, {}}
Symmetry == Permutations(Dirs) \cup Permutations(Ids) \cup Permutations(Reviewers)
===============================================================================
