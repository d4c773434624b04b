--------------------------- MODULE MCBudgetLedger ---------------------------
(* The ledger with four reservation ids on two axes: the calls axis and     *)
(* one resource axis whose ceiling two of the larger reservations exceed.   *)
EXTENDS BudgetLedger, TLC

MCAxes == {"calls", "money_microunits"}

MCCeilings == [a \in MCAxes |-> 3]

MCAmounts == {m \in [MCAxes -> 0..2] : m["calls"] = 1}

==============================================================================
