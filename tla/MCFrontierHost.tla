--------------------------- MODULE MCFrontierHost ---------------------------
(* Two threads, a schedule of at most three slots in two components.  The    *)
(* ceilings hold every slot on calls and wall clock; the money ceiling holds *)
(* two full reservations, so a later slot is granted or rejected according   *)
(* to what the earlier ones have already settled.                            *)
EXTENDS FrontierHost, TLC

MCAxes == {"calls", "money_microunits", "wall_clock_ms"}

Vector(calls_, money, wall) ==
  [a \in MCAxes |-> CASE a = "calls" -> calls_
                      [] a = "money_microunits" -> money
                      [] a = "wall_clock_ms" -> wall]

MCAmounts == {Vector(1, m, w) : m \in 0..3, w \in 0..3}

MCCeilings == Vector(3, 2, 3)

MCComponentOf == [s \in Ids |-> IF s = 3 THEN "review" ELSE "generation"]

MCComponents == {MCComponentOf[s] : s \in Ids}

MCCapacity == [k \in MCComponents |-> Cardinality({s \in Ids : MCComponentOf[s] = k})]

MCMaximumsOf == [k \in MCComponents |-> Vector(1, 1, 1)]

MCUsages == {Vector(1, 0, 1), Vector(1, 2, 1)}

Symmetry == Permutations(Clients) \cup Permutations(Receipts \ {Null})
==============================================================================
