---------------------------- MODULE MCEvaluation ----------------------------
(* An output passes its checks with one advisory check failing, or fails an  *)
(* authoritative one; the judges differ in preference and in the flaws seen. *)
EXTENDS Evaluation

TwoGroups == {{[passed |-> FALSE, authoritative |-> FALSE]},
              {[passed |-> FALSE, authoritative |-> TRUE]}}
FiveOpinions ==
  {[prefers |-> "optimized", fatal |-> {}], [prefers |-> "original", fatal |-> {}],
   [prefers |-> "tie", fatal |-> {}],
   [prefers |-> "optimized", fatal |-> {"optimized"}],
   [prefers |-> "optimized", fatal |-> {"original"}]}
==============================================================================
