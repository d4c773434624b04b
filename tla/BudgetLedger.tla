---------------------------- MODULE BudgetLedger ----------------------------
(***************************************************************************)
(* BudgetLedger of frontier_budget.py: the ledger that reserves the        *)
(* worst-case resources of a provider attempt before the call and charges  *)
(* every attempt exactly once afterwards.  Every method runs under the     *)
(* ledger's lock, so each of them is one action; a call that only raises   *)
(* ValueError changes nothing and is a stuttering step.                    *)
(*                                                                         *)
(* A reservation's secret token is known only to the caller it was handed  *)
(* to: "holder" stands for that knowledge.                                 *)
(***************************************************************************)
EXTENDS Integers, FiniteSets

CONSTANTS Ids,        \* reservation identifiers callers may use
          Clients,    \* callers
          Axes,       \* BUDGET_AXES
          MaxAmount,  \* MAX_RESOURCE_VALUE
          Ceilings,   \* the frozen ceilings
          Amounts,    \* the maximums and actuals callers pass
          Statuses,   \* TERMINAL_STATUSES
          Receipts    \* receipt digests, and the value that stands for null

\* A validated amount of one attempt: exactly one call on the calls axis.
Charge == {m \in [Axes -> 0..MaxAmount] : m["calls"] = 1}

ASSUME LedgerAssumption ==
  /\ IsFiniteSet(Ids)
  /\ MaxAmount \in Nat
  /\ "calls" \in Axes
  /\ Ceilings \in [Axes -> 0..MaxAmount]
  /\ Ceilings["calls"] > 0
  /\ Amounts \subseteq Charge

VARIABLES consumed,                \* charged so far, per axis
          reservations,            \* active reservations by id
          used_ids,                \* ids that can never be reserved again
          events,                  \* settled attempts by id
          pre_call_cancellations,  \* ids released without a call
          rejections,              \* refused requests by id
          breached

lvars == <<consumed, reservations, used_ids, events,
           pre_call_cancellations, rejections, breached>>

------------------------------------------------------------------------------
Assign(f, k, v) == [i \in DOMAIN f \cup {k} |-> IF i = k THEN v ELSE f[i]]

Without(f, k) == [i \in DOMAIN f \ {k} |-> f[i]]

(***************************************************************************)
(* The sum of a family of amounts, as the number of unit tokens <<id, n>>  *)
(* it stands for.                                                          *)
(***************************************************************************)
Units(f, S) == {u \in S \X (1..MaxAmount) : u[2] <= f[u[1]]}

Total(f, S) == Cardinality(Units(f, S))

Reserved(a) == [id \in DOMAIN reservations |-> reservations[id].reserved[a]]

\* _sum_amounts over the active reservations, on one axis.
Active(a) == Total(Reserved(a), DOMAIN reservations)

ExceededAxes(m) == {a \in Axes : consumed[a] + Active(a) + m[a] > Ceilings[a]}

OverReserved(id, c) == {a \in Axes : c[a] > reservations[id].reserved[a]}

OverCeiling(c) == {a \in Axes : consumed[a] + c[a] > Ceilings[a]}

\* Slip: both kinds of overrun are needed.
BreachedByBoth(id, c) == OverReserved(id, c) # {} /\ OverCeiling(c) # {}

\* Whether settling id with charge c breaches the ledger.
BreachedBy(id, c) == OverReserved(id, c) # {} \/ OverCeiling(c) # {}

ConsumedAfter(id, c) == [a \in Axes |-> consumed[a] + c[a]]

\* Slip: an id may be used again once its first attempt is settled.
AcceptingInactive(id) == id \notin DOMAIN reservations /\ ~breached

\* reserve() gets past its two early errors.
Accepting(id) == id \notin used_ids /\ ~breached

IsHeldBy(id, c) == /\ id \in DOMAIN reservations
                   /\ reservations[id].holder = c

------------------------------------------------------------------------------
LedgerInit ==
  /\ consumed = [a \in Axes |-> 0]
  /\ reservations = [id \in {} |-> 0]
  /\ used_ids = {}
  /\ events = [id \in {} |-> 0]
  /\ pre_call_cancellations = {}
  /\ rejections = [id \in {} |-> 0]
  /\ breached = FALSE

\* reserve() that returns a reservation receipt.
Reserve(c, id, m) ==
  /\ Accepting(id)
  /\ ExceededAxes(m) = {}
  /\ used_ids' = used_ids \cup {id}
  /\ reservations' = Assign(reservations, id, [reserved |-> m, holder |-> c])
  /\ UNCHANGED <<consumed, events, pre_call_cancellations, rejections, breached>>

\* reserve() that raises because the request exceeds a ceiling.
Reject(id, m) ==
  /\ Accepting(id)
  /\ ExceededAxes(m) # {}
  /\ used_ids' = used_ids \cup {id}
  /\ rejections' = Assign(rejections, id, [requested |-> m, exceeded |-> ExceededAxes(m)])
  /\ breached' = TRUE
  /\ UNCHANGED <<consumed, reservations, events, pre_call_cancellations>>

CancelBeforeCall(c, id) ==
  /\ IsHeldBy(id, c)
  /\ reservations' = Without(reservations, id)
  /\ pre_call_cancellations' = pre_call_cancellations \cup {id}
  /\ UNCHANGED <<consumed, used_ids, events, rejections, breached>>

\* settle(): the charge is recorded first, and then may raise.
Settle(c, id, charged, status, receipt) ==
  /\ IsHeldBy(id, c)
  /\ reservations' = Without(reservations, id)
  /\ consumed' = ConsumedAfter(id, charged)
  /\ events' = Assign(events, id,
                 [status |-> status,
                  reserved |-> reservations[id].reserved,
                  charged |-> charged,
                  receipt |-> receipt,
                  over_reserved |-> OverReserved(id, charged),
                  over_ceiling |-> OverCeiling(charged)])
  /\ breached' = (breached \/ BreachedBy(id, charged))
  /\ UNCHANGED <<used_ids, pre_call_cancellations, rejections>>

LedgerNext ==
  \/ \E c \in Clients, id \in Ids, m \in Amounts : Reserve(c, id, m)
  \/ \E id \in Ids, m \in Amounts : Reject(id, m)
  \/ \E c \in Clients, id \in Ids : CancelBeforeCall(c, id)
  \/ \E c \in Clients, id \in Ids, m \in Amounts, s \in Statuses, r \in Receipts :
        Settle(c, id, m, s, r)

LedgerSpec == LedgerInit /\ [][LedgerNext]_lvars

------------------------------------------------------------------------------
Events == [status : Statuses, reserved : Charge, charged : Charge,
           receipt : Receipts, over_reserved : SUBSET Axes, over_ceiling : SUBSET Axes]

\* The ledger's fields keep the shapes its snapshot is built from.
LedgerTypeOK ==
  /\ consumed \in [Axes -> Nat]
  /\ used_ids \subseteq Ids
  /\ reservations \in [DOMAIN reservations -> [reserved : Charge, holder : Clients]]
  /\ events \in [DOMAIN events -> Events]
  /\ rejections \in [DOMAIN rejections -> [requested : Charge, exceeded : SUBSET Axes]]
  /\ breached \in BOOLEAN

(***************************************************************************)
(* As long as the ledger is not breached, what was charged and what is     *)
(* still reserved fit together under every ceiling, whatever the           *)
(* interleaving of reservations, settlements and cancellations.            *)
(***************************************************************************)
CeilingRespected ==
  ~breached => \A a \in Axes : consumed[a] + Active(a) <= Ceilings[a]

\* What an event charged beyond its reservation.
Overage(a) == [id \in DOMAIN events |->
                 IF events[id].charged[a] > events[id].reserved[a]
                   THEN events[id].charged[a] - events[id].reserved[a] ELSE 0]

(***************************************************************************)
(* Even a breached ledger, whose in-flight attempts still settle, never    *)
(* exceeds a ceiling by more than what attempts cost beyond their own      *)
(* reservations: a rejection alone cannot lead to an overrun.              *)
(***************************************************************************)
OverrunBoundedByOverages ==
  \A a \in Axes : consumed[a] + Active(a) <= Ceilings[a] + Total(Overage(a), DOMAIN events)

(***************************************************************************)
(* An id that was ever used ends in exactly one place: active, settled,    *)
(* cancelled before the call, or rejected.  No attempt is charged twice    *)
(* and none is lost.                                                       *)
(***************************************************************************)
OneDispositionPerId ==
  /\ used_ids = DOMAIN reservations \cup DOMAIN events
                  \cup pre_call_cancellations \cup DOMAIN rejections
  /\ DOMAIN reservations \cap DOMAIN events = {}
  /\ (DOMAIN reservations \cup DOMAIN events) \cap pre_call_cancellations = {}
  /\ (DOMAIN reservations \cup DOMAIN events \cup pre_call_cancellations)
        \cap DOMAIN rejections = {}

\* The consumed totals are the sums of the charges of the recorded events.
Charged(a) == [id \in DOMAIN events |-> events[id].charged[a]]

ConsumedIsCharged == \A a \in Axes : consumed[a] = Total(Charged(a), DOMAIN events)

(***************************************************************************)
(* The breach flag and the evidence in the ledger agree: it is set exactly *)
(* when a rejection or an event with an overrun axis is recorded, and the  *)
(* first cause is never an over-ceiling event alone.                       *)
(***************************************************************************)
BreachHasEvidence ==
  breached <=> \/ DOMAIN rejections # {}
               \/ \E id \in DOMAIN events : events[id].over_reserved # {}

\* After a breach nothing new is reserved or rejected, and it is never undone.
BreachIsFinal ==
  [][breached => /\ breached'
                 /\ DOMAIN reservations' \subseteq DOMAIN reservations
                 /\ rejections' = rejections]_lvars

\* The promise the ledger implements, with the identities forgotten.
Ceiling == INSTANCE HardCeiling
             WITH Charges <- Charge,
                  spent <- consumed,
                  held <- [a \in Axes |-> Active(a)],
                  open <- ~breached

\* Every behaviour of the ledger is a behaviour of the abstract account.
ImplementsHardCeiling == Ceiling!Spec
==============================================================================
