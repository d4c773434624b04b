------------------------------ MODULE WriteOnce ------------------------------
(***************************************************************************)
(* What write_authority_artifact promises about one name, as long as no    *)
(* system call fails and nobody else touches the name: it is given bytes   *)
(* at most once, they are never replaced or taken back, and a success is   *)
(* reported for exactly those bytes.                                       *)
(***************************************************************************)
CONSTANTS Contents, Null

VARIABLES value,  \* the bytes behind the name, or Null
          acks,   \* the bytes some call was told are there
          clean   \* no system call failed and nobody else touched the name

Init == value = Null /\ acks = {} /\ clean = TRUE

Publish(c) == /\ clean /\ value = Null
              /\ value' = c
              /\ UNCHANGED <<acks, clean>>

Report(c) == /\ clean /\ value = c
             /\ acks' = acks \cup {c}
             /\ UNCHANGED <<value, clean>>

\* From the first error or interference on, nothing is promised.
Disturbed == ~clean'

Next == Disturbed \/ \E c \in Contents : Publish(c) \/ Report(c)

Spec == Init /\ [][Next]_<<value, acks, clean>>
==============================================================================
