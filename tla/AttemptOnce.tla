---------------------------- MODULE AttemptOnce ----------------------------
(***************************************************************************)
(* What the execution host promises about the slots of its schedule.  A    *)
(* slot is called at most once; its call is charged at most once, and      *)
(* answered at most once and only after it was charged.  An output is      *)
(* released only if no limit was exceeded.  The schedule is sealed, by a   *)
(* manifest, only with every slot answered within the limits, and then for *)
(* good.                                                                   *)
(***************************************************************************)
EXTENDS Naturals

CONSTANT Slots

VARIABLES called,  \* how often each slot was called
          charge,  \* what its charge came to: "none", "within" or "over" a limit
          answer,  \* what its caller got: "none", "released" or "withheld"
          sealed   \* a manifest was accepted

avars == <<called, charge, answer, sealed>>

Init == /\ called = [s \in Slots |-> 0]
        /\ charge = [s \in Slots |-> "none"]
        /\ answer = [s \in Slots |-> "none"]
        /\ sealed = FALSE

Call(s) == /\ called[s] = 0
           /\ called' = [called EXCEPT ![s] = 1]
           /\ UNCHANGED <<charge, answer, sealed>>

Account(s, c) == /\ called[s] = 1
                 /\ charge[s] = "none"
                 /\ charge' = [charge EXCEPT ![s] = c]
                 /\ UNCHANGED <<called, answer, sealed>>

Answer(s, a) == /\ answer[s] = "none"
                /\ charge[s] # "none"
                /\ a = "released" => charge[s] = "within"
                /\ answer' = [answer EXCEPT ![s] = a]
                /\ UNCHANGED <<called, charge, sealed>>

Seal == /\ \A s \in Slots : charge[s] = "within" /\ answer[s] # "none"
        /\ sealed' = TRUE
        /\ UNCHANGED <<called, charge, answer>>

Next == \/ Seal
        \/ \E s \in Slots : \/ Call(s)
                            \/ \E c \in {"within", "over"} : Account(s, c)
                            \/ \E a \in {"released", "withheld"} : Answer(s, a)

Spec == Init /\ [][Next]_avars
=============================================================================
