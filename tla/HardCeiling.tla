----------------------------- MODULE HardCeiling -----------------------------
(***************************************************************************)
(* What a budget ledger promises, without reservations' identities.        *)
(* Resources are first held and later spent.  While the account is open    *)
(* nothing is held that does not fit under the ceilings together with what *)
(* is already spent, and the account closes for good the first time a      *)
(* request does not fit or an attempt costs more than was held for it.     *)
(***************************************************************************)
EXTENDS Integers

CONSTANTS Axes,      \* the resources that are metered
          Ceilings,  \* the hard ceiling of each of them
          Charges    \* the amounts one attempt may hold or cost

VARIABLES spent, held, open

hvars == <<spent, held, open>>

Fits(m) == \A a \in Axes : spent[a] + held[a] + m[a] <= Ceilings[a]

Init == /\ spent = [a \in Axes |-> 0]
        /\ held = [a \in Axes |-> 0]
        /\ open = TRUE

\* Worst-case resources of one attempt are set aside.
Hold(m) == /\ open
           /\ Fits(m)
           /\ held' = [a \in Axes |-> held[a] + m[a]]
           /\ UNCHANGED <<spent, open>>

\* A request that does not fit closes the account.
Refuse(m) == /\ open
             /\ ~Fits(m)
             /\ open' = FALSE
             /\ UNCHANGED <<spent, held>>

\* What was held for an attempt that is not made is given back.
GiveBack(m) == /\ \A a \in Axes : m[a] <= held[a]
               /\ held' = [a \in Axes |-> held[a] - m[a]]
               /\ UNCHANGED <<spent, open>>

\* An attempt for which m was held has cost c.
Spend(m, c) == /\ \A a \in Axes : m[a] <= held[a]
               /\ held' = [a \in Axes |-> held[a] - m[a]]
               /\ spent' = [a \in Axes |-> spent[a] + c[a]]
               /\ open' = (open /\ \A a \in Axes : c[a] <= m[a])

Next == \/ \E m \in Charges : Hold(m) \/ Refuse(m) \/ GiveBack(m)
        \/ \E m, c \in Charges : Spend(m, c)

Spec == Init /\ [][Next]_hvars
==============================================================================
