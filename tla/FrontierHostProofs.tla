------------------------- MODULE FrontierHostProofs -------------------------
(***************************************************************************)
(* Proofs about the budget ledger and the execution host that it funds.    *)
(* The first part is about the ledger alone, for every set of ids, every   *)
(* ceiling and every amount; the second about the host, for every          *)
(* schedule, every number of threads, every budget and any number of       *)
(* interrupts and snapshots.                                               *)
(***************************************************************************)
EXTENDS FrontierHost, FiniteSetTheorems, TLAPS

(***************************************************************************)
(* The ledger.                                                             *)
(***************************************************************************)

------------------------------------------------------------------------------
(* Sums of amounts.                                                        *)

\* A family over a finite set stands for finitely many units.
LEMMA UnitsFinite ==
  ASSUME NEW S, IsFiniteSet(S), NEW f
  PROVE  /\ IsFiniteSet(Units(f, S))
         /\ Total(f, S) \in Nat
<1>1. IsFiniteSet(1..MaxAmount)
  BY FS_Interval, LedgerAssumption
<1>2. IsFiniteSet(S \X (1..MaxAmount))
  BY <1>1, FS_Product
<1>3. Units(f, S) \in SUBSET (S \X (1..MaxAmount))
  BY DEF Units
<1>4. IsFiniteSet(Units(f, S))
  BY <1>2, <1>3, FS_Subset
<1>5. QED
  BY <1>4, FS_CardinalityType DEF Total

\* A single member contributes its own amount.
LEMMA SingleTotal ==
  ASSUME NEW k, NEW n \in 0..MaxAmount
  PROVE  /\ IsFiniteSet({k} \X (1..n))
         /\ Cardinality({k} \X (1..n)) = n
<1>1. n \in Nat
  BY LedgerAssumption
<1>2. IsFiniteSet(1..n) /\ Cardinality(1..n) = n
  BY <1>1, FS_Interval
<1>3. IsFiniteSet({k}) /\ Cardinality({k}) = 1
  BY FS_Singleton
<1>4. /\ IsFiniteSet({k} \X (1..n))
      /\ Cardinality({k} \X (1..n)) = Cardinality({k}) * Cardinality(1..n)
  BY <1>2, <1>3, FS_Product
<1>5. QED
  BY <1>1, <1>2, <1>3, <1>4

\* Removing a member removes its amount from the sum.
LEMMA TotalSplit ==
  ASSUME NEW S, IsFiniteSet(S), NEW k \in S, NEW f, f[k] \in 0..MaxAmount
  PROVE  Total(f, S) = Total(f, S \ {k}) + f[k]
<1> DEFINE A == Units(f, S \ {k})
           B == {k} \X (1..f[k])
<1>1. IsFiniteSet(S \ {k})
  BY FS_RemoveElement
<1>2. IsFiniteSet(A) /\ Cardinality(A) \in Nat
  BY <1>1, UnitsFinite DEF Total
<1>3. IsFiniteSet(B) /\ Cardinality(B) = f[k]
  BY SingleTotal
<1>4. Units(f, S) = A \cup B
  <2>1. ASSUME NEW u, u \in Units(f, S) PROVE u \in A \cup B
    BY <2>1, LedgerAssumption DEF Units
  <2>2. ASSUME NEW u, u \in A PROVE u \in Units(f, S)
    BY <2>2 DEF Units
  <2>3. ASSUME NEW u, u \in B PROVE u \in Units(f, S)
    BY <2>3, LedgerAssumption DEF Units
  <2>4. QED
    BY <2>1, <2>2, <2>3
<1>5. A \cap B = {}
  BY DEF Units
<1>6. Cardinality(A \cap B) = 0
  BY <1>5, FS_EmptySet
<1>7. Cardinality(A \cup B) = Cardinality(A) + Cardinality(B) - Cardinality(A \cap B)
  BY <1>2, <1>3, FS_Union
<1>8. f[k] \in Nat
  BY LedgerAssumption
<1>9. QED
  BY <1>2, <1>3, <1>4, <1>6, <1>7, <1>8 DEF Total

\* The sum depends on the amounts of the members only.
LEMMA TotalExtensional ==
  ASSUME NEW S, NEW f, NEW g, \A i \in S : f[i] = g[i]
  PROVE  Total(f, S) = Total(g, S)
<1>1. Units(f, S) = Units(g, S)
  BY DEF Units
<1>2. QED
  BY <1>1 DEF Total

\* A new member adds its amount to the sum.
LEMMA TotalAssign ==
  ASSUME NEW S, IsFiniteSet(S), NEW k, k \notin S, NEW f, NEW g,
         g[k] \in 0..MaxAmount, \A i \in S : f[i] = g[i]
  PROVE  Total(g, S \cup {k}) = Total(f, S) + g[k]
<1>1. IsFiniteSet(S \cup {k})
  BY FS_AddElement
<1>2. (S \cup {k}) \ {k} = S
  OBVIOUS
<1>3. Total(g, S \cup {k}) = Total(g, S) + g[k]
  BY <1>1, <1>2, TotalSplit
<1>4. QED
  BY <1>3, TotalExtensional

------------------------------------------------------------------------------
(* The inductive invariant.                                                *)

LedgerInv ==
  /\ LedgerTypeOK
  /\ OneDispositionPerId
  /\ CeilingRespected
  /\ OverrunBoundedByOverages
  /\ ConsumedIsCharged
  /\ BreachHasEvidence

LEMMA FiniteDomains ==
  ASSUME LedgerTypeOK, OneDispositionPerId
  PROVE  /\ IsFiniteSet(DOMAIN reservations)
         /\ IsFiniteSet(DOMAIN events)
<1>1. /\ DOMAIN reservations \in SUBSET Ids
      /\ DOMAIN events \in SUBSET Ids
  BY DEF LedgerTypeOK, OneDispositionPerId
<1>2. QED
  BY <1>1, FS_Subset, LedgerAssumption

LEMMA ActiveNat ==
  ASSUME LedgerTypeOK, OneDispositionPerId, NEW a \in Axes
  PROVE  Active(a) \in Nat
BY FiniteDomains, UnitsFinite DEF Active

\* A reservation adds exactly its amounts to the active totals.
LEMMA AddReservation ==
  ASSUME LedgerTypeOK, OneDispositionPerId,
         NEW c \in Clients, NEW id \in Ids, NEW m \in Charge,
         id \notin DOMAIN reservations,
         reservations' = Assign(reservations, id, [reserved |-> m, holder |-> c]),
         NEW a \in Axes
  PROVE  Active(a)' = Active(a) + m[a]
<1> DEFINE S == DOMAIN reservations
           f == Reserved(a)
           g == Reserved(a)'
<1>1. IsFiniteSet(S)
  BY FiniteDomains
<1>2. DOMAIN reservations' = S \cup {id}
  BY DEF Assign
<1>3. g[id] = m[a]
  BY <1>2 DEF Assign, Reserved
<1>4. m[a] \in 0..MaxAmount
  BY DEF Charge
<1>5. \A i \in S : f[i] = g[i]
  BY <1>2 DEF Assign, Reserved
<1>6. Total(g, S \cup {id}) = Total(f, S) + g[id]
  <2> HIDE DEF S, f, g
  <2> QED
    BY <1>1, <1>3, <1>4, <1>5, TotalAssign DEF S
<1>7. Active(a)' = Total(g, S \cup {id})
  BY <1>2 DEF Active
<1>8. QED
  BY <1>3, <1>6, <1>7 DEF Active

\* Dropping a reservation takes exactly its amounts out of the active totals.
LEMMA DropReservation ==
  ASSUME LedgerTypeOK, OneDispositionPerId,
         NEW id \in DOMAIN reservations,
         reservations' = Without(reservations, id),
         NEW a \in Axes
  PROVE  Active(a) = Active(a)' + reservations[id].reserved[a]
<1> DEFINE S == DOMAIN reservations
           f == Reserved(a)
           g == Reserved(a)'
<1>1. IsFiniteSet(S)
  BY FiniteDomains
<1>2. DOMAIN reservations' = S \ {id}
  BY DEF Without
<1>3. f[id] = reservations[id].reserved[a] /\ f[id] \in 0..MaxAmount
  BY DEF Reserved, LedgerTypeOK, Charge
<1>4. \A i \in S \ {id} : f[i] = g[i]
  BY <1>2 DEF Without, Reserved
<1>5. Total(f, S) = Total(f, S \ {id}) + f[id]
  <2> HIDE DEF f
  <2> QED
    BY <1>1, <1>3, TotalSplit
<1>6. Total(f, S \ {id}) = Total(g, S \ {id})
  <2> HIDE DEF f, g
  <2> QED
    BY <1>4, TotalExtensional
<1>7. Active(a)' = Total(g, S \ {id})
  BY <1>2 DEF Active
<1>8. QED
  BY <1>3, <1>5, <1>6, <1>7 DEF Active

\* A settled attempt adds its charge, and what it cost beyond its reservation.
LEMMA AddEvent ==
  ASSUME LedgerTypeOK, OneDispositionPerId,
         NEW c \in Clients, NEW id \in Ids, NEW m \in Charge,
         NEW s \in Statuses, NEW r \in Receipts,
         Settle(c, id, m, s, r), NEW a \in Axes
  PROVE  /\ Total(Charged(a), DOMAIN events)' = Total(Charged(a), DOMAIN events) + m[a]
         /\ Total(Overage(a), DOMAIN events)'
              = Total(Overage(a), DOMAIN events)
                  + (IF m[a] > reservations[id].reserved[a]
                       THEN m[a] - reservations[id].reserved[a] ELSE 0)
<1> DEFINE S == DOMAIN events
           f == Charged(a)
           g == Charged(a)'
           p == Overage(a)
           q == Overage(a)'
<1>1. IsFiniteSet(S) /\ id \notin S
  BY FiniteDomains DEF Settle, IsHeldBy, OneDispositionPerId
<1>2. DOMAIN events' = S \cup {id}
  BY DEF Settle, Assign
<1>3. /\ events'[id].charged = m
      /\ events'[id].reserved = reservations[id].reserved
      /\ \A i \in S : events'[i] = events[i]
  BY <1>1, <1>2 DEF Settle, Assign
<1>4. /\ m[a] \in 0..MaxAmount
      /\ reservations[id].reserved[a] \in 0..MaxAmount
  BY DEF Charge, LedgerTypeOK, Settle, IsHeldBy
<1>5. /\ g[id] = m[a]
      /\ q[id] = IF m[a] > reservations[id].reserved[a]
                   THEN m[a] - reservations[id].reserved[a] ELSE 0
  BY <1>2, <1>3 DEF Charged, Overage
<1>6. g[id] \in 0..MaxAmount /\ q[id] \in 0..MaxAmount
  BY <1>4, <1>5, LedgerAssumption
<1>7. (\A i \in S : f[i] = g[i]) /\ (\A i \in S : p[i] = q[i])
  BY <1>2, <1>3 DEF Charged, Overage
<1>8. /\ Total(g, S \cup {id}) = Total(f, S) + g[id]
      /\ Total(q, S \cup {id}) = Total(p, S) + q[id]
  <2> HIDE DEF f, g, p, q, S
  <2> QED
    BY <1>1, <1>6, <1>7, TotalAssign
<1>9. /\ Total(Charged(a), DOMAIN events)' = Total(g, S \cup {id})
      /\ Total(Overage(a), DOMAIN events)' = Total(q, S \cup {id})
  BY <1>2
<1>10. QED
  BY <1>5, <1>8, <1>9

------------------------------------------------------------------------------
(* Each operation keeps the invariant.                                     *)

LEMMA OverageNat ==
  ASSUME LedgerTypeOK, OneDispositionPerId, NEW a \in Axes
  PROVE  /\ Total(Overage(a), DOMAIN events) \in Nat
         /\ Total(Charged(a), DOMAIN events) \in Nat
BY FiniteDomains, UnitsFinite

LEMMA ReserveKeepsInv ==
  ASSUME LedgerInv, NEW c \in Clients, NEW id \in Ids, NEW m \in Charge,
         Reserve(c, id, m)
  PROVE  LedgerInv'
<1> USE DEF LedgerInv
<1>1. LedgerTypeOK'
  BY DEF LedgerTypeOK, Reserve, Assign
<1>2. OneDispositionPerId'
  BY DEF OneDispositionPerId, Reserve, Accepting, Assign
<1>3. \A a \in Axes : /\ Active(a) \in Nat
                      /\ m[a] \in Nat /\ Ceilings[a] \in Nat /\ consumed[a] \in Nat
                      /\ Active(a)' = Active(a) + m[a]
                      /\ consumed'[a] + Active(a)' <= Ceilings[a]
  <2> SUFFICES ASSUME NEW a \in Axes
               PROVE  /\ Active(a) \in Nat
                      /\ m[a] \in Nat /\ Ceilings[a] \in Nat /\ consumed[a] \in Nat
                      /\ Active(a)' = Active(a) + m[a]
                      /\ consumed'[a] + Active(a)' <= Ceilings[a]
    OBVIOUS
  <2>1. /\ Active(a) \in Nat
        /\ m[a] \in Nat /\ Ceilings[a] \in Nat /\ consumed[a] \in Nat
    BY ActiveNat, LedgerAssumption DEF Charge, LedgerTypeOK
  <2>2. id \notin DOMAIN reservations
    BY DEF Reserve, Accepting, OneDispositionPerId
  <2>3. Active(a)' = Active(a) + m[a]
    BY <2>2, AddReservation DEF Reserve
  <2>4. ~(consumed[a] + Active(a) + m[a] > Ceilings[a])
    BY DEF Reserve, ExceededAxes
  <2>5. QED
    BY <2>1, <2>3, <2>4 DEF Reserve
<1>4. CeilingRespected'
  BY <1>3 DEF CeilingRespected
<1>5. OverrunBoundedByOverages'
  <2> SUFFICES ASSUME NEW a \in Axes
               PROVE  consumed'[a] + Active(a)' <= Ceilings[a] + Total(Overage(a), DOMAIN events)'
    BY DEF OverrunBoundedByOverages
  <2>1. Total(Overage(a), DOMAIN events)' \in Nat
    BY OverageNat DEF Reserve, Overage
  <2>2. QED
    BY <1>3, <2>1 DEF Reserve
<1>6. ConsumedIsCharged'
  BY DEF ConsumedIsCharged, Charged, Reserve
<1>7. BreachHasEvidence'
  BY DEF BreachHasEvidence, Reserve, Accepting
<1>8. QED
  BY <1>1, <1>2, <1>4, <1>5, <1>6, <1>7

LEMMA RejectKeepsInv ==
  ASSUME LedgerInv, NEW id \in Ids, NEW m \in Charge, Reject(id, m)
  PROVE  LedgerInv'
<1> USE DEF LedgerInv
<1>1. LedgerTypeOK'
  BY DEF LedgerTypeOK, Reject, Assign, ExceededAxes
<1>2. OneDispositionPerId'
  BY DEF OneDispositionPerId, Reject, Accepting, Assign
<1>3. CeilingRespected'
  BY DEF CeilingRespected, Reject
<1>4. OverrunBoundedByOverages'
  BY DEF OverrunBoundedByOverages, Overage, Active, Reserved, Reject
<1>5. ConsumedIsCharged'
  BY DEF ConsumedIsCharged, Charged, Reject
<1>6. BreachHasEvidence'
  BY DEF BreachHasEvidence, Reject, Accepting, Assign
<1>7. QED
  BY <1>1, <1>2, <1>3, <1>4, <1>5, <1>6

\* Dropping a reservation can only lower what counts against a ceiling.
LEMMA CancelKeepsInv ==
  ASSUME LedgerInv, NEW c \in Clients, NEW id \in Ids, CancelBeforeCall(c, id)
  PROVE  LedgerInv'
<1> USE DEF LedgerInv
<1>1. LedgerTypeOK'
  BY DEF LedgerTypeOK, CancelBeforeCall, Without
<1>2. OneDispositionPerId'
  BY DEF OneDispositionPerId, CancelBeforeCall, IsHeldBy, Without
<1>3. \A a \in Axes : /\ Active(a) \in Nat /\ Active(a)' \in Nat
                      /\ Active(a)' <= Active(a)
                      /\ consumed[a] \in Nat /\ Ceilings[a] \in Nat
  <2> SUFFICES ASSUME NEW a \in Axes
               PROVE  /\ Active(a) \in Nat /\ Active(a)' \in Nat
                      /\ Active(a)' <= Active(a)
                      /\ consumed[a] \in Nat /\ Ceilings[a] \in Nat
    OBVIOUS
  <2>1. /\ Active(a) \in Nat /\ consumed[a] \in Nat /\ Ceilings[a] \in Nat
    BY ActiveNat, LedgerAssumption DEF LedgerTypeOK
  <2>2. IsFiniteSet(DOMAIN reservations')
    BY FiniteDomains, FS_RemoveElement DEF CancelBeforeCall, Without
  <2>3. Active(a)' \in Nat
    BY <2>2, UnitsFinite DEF Active
  <2>4. reservations[id].reserved[a] \in Nat
    BY LedgerAssumption DEF CancelBeforeCall, IsHeldBy, LedgerTypeOK, Charge
  <2>5. Active(a) = Active(a)' + reservations[id].reserved[a]
    BY DropReservation DEF CancelBeforeCall, IsHeldBy
  <2>6. QED
    BY <2>1, <2>3, <2>4, <2>5
<1>4. CeilingRespected'
  BY <1>3 DEF CeilingRespected, CancelBeforeCall
<1>5. OverrunBoundedByOverages'
  <2> SUFFICES ASSUME NEW a \in Axes
               PROVE  consumed'[a] + Active(a)' <= Ceilings[a] + Total(Overage(a), DOMAIN events)'
    BY DEF OverrunBoundedByOverages
  <2>1. Total(Overage(a), DOMAIN events)' = Total(Overage(a), DOMAIN events)
    BY DEF CancelBeforeCall, Overage
  <2>2. consumed[a] + Active(a) <= Ceilings[a] + Total(Overage(a), DOMAIN events)
    BY DEF OverrunBoundedByOverages
  <2>3. QED
    BY <1>3, <2>1, <2>2, OverageNat DEF CancelBeforeCall
<1>6. ConsumedIsCharged'
  BY DEF ConsumedIsCharged, Charged, CancelBeforeCall
<1>7. BreachHasEvidence'
  BY DEF BreachHasEvidence, CancelBeforeCall
<1>8. QED
  BY <1>1, <1>2, <1>4, <1>5, <1>6, <1>7

\* How one settlement moves the totals of an axis.
LEMMA SettleTotals ==
  ASSUME LedgerTypeOK, OneDispositionPerId,
         NEW c \in Clients, NEW id \in Ids, NEW m \in Charge,
         NEW s \in Statuses, NEW r \in Receipts,
         Settle(c, id, m, s, r), NEW a \in Axes
  PROVE  /\ consumed[a] \in Nat /\ m[a] \in Nat /\ Ceilings[a] \in Nat
         /\ reservations[id].reserved[a] \in Nat
         /\ Active(a) \in Nat /\ Active(a)' \in Nat
         /\ Active(a) = Active(a)' + reservations[id].reserved[a]
         /\ consumed'[a] = consumed[a] + m[a]
<1>1. consumed[a] \in Nat /\ m[a] \in Nat /\ Ceilings[a] \in Nat
  BY LedgerAssumption DEF LedgerTypeOK, Charge
<1>2. Active(a) \in Nat
  BY ActiveNat
<1>3. IsFiniteSet(DOMAIN reservations')
  BY FiniteDomains, FS_RemoveElement DEF Settle, Without
<1>4. Active(a)' \in Nat
  BY <1>3, UnitsFinite DEF Active
<1>5. reservations[id].reserved[a] \in Nat
  BY LedgerAssumption DEF Settle, IsHeldBy, LedgerTypeOK, Charge
<1>6. Active(a) = Active(a)' + reservations[id].reserved[a]
  BY DropReservation DEF Settle, IsHeldBy
<1>7. QED
  BY <1>1, <1>2, <1>4, <1>5, <1>6 DEF Settle, ConsumedAfter

LEMMA SettleKeepsInv ==
  ASSUME LedgerInv, NEW c \in Clients, NEW id \in Ids, NEW m \in Charge,
         NEW s \in Statuses, NEW r \in Receipts, Settle(c, id, m, s, r)
  PROVE  LedgerInv'
<1> USE DEF LedgerInv
<1>1. LedgerTypeOK'
  <2>1. consumed' \in [Axes -> Nat]
    BY LedgerAssumption DEF LedgerTypeOK, Settle, ConsumedAfter, Charge
  <2>2. reservations' \in [DOMAIN reservations' -> [reserved : Charge, holder : Clients]]
    BY DEF LedgerTypeOK, Settle, Without
  <2>3. [status |-> s, reserved |-> reservations[id].reserved, charged |-> m,
         receipt |-> r, over_reserved |-> OverReserved(id, m),
         over_ceiling |-> OverCeiling(m)] \in Events
    BY DEF LedgerTypeOK, Settle, IsHeldBy, Events, OverReserved, OverCeiling
  <2>4. events' \in [DOMAIN events' -> Events]
    BY <2>3 DEF LedgerTypeOK, Settle, Assign
  <2>5. QED
    BY <2>1, <2>2, <2>4 DEF LedgerTypeOK, Settle
<1>2. OneDispositionPerId'
  BY DEF OneDispositionPerId, Settle, IsHeldBy, Without, Assign
<1>3. CeilingRespected'
  <2> SUFFICES ASSUME ~breached', NEW a \in Axes
               PROVE  consumed'[a] + Active(a)' <= Ceilings[a]
    BY DEF CeilingRespected
  <2>1. ~breached /\ OverReserved(id, m) = {}
    BY DEF Settle, BreachedBy
  <2>2. consumed[a] + Active(a) <= Ceilings[a]
    BY <2>1 DEF CeilingRespected
  <2>3. ~(m[a] > reservations[id].reserved[a])
    BY <2>1 DEF OverReserved
  <2>4. QED
    BY <2>2, <2>3, SettleTotals
<1>4. OverrunBoundedByOverages'
  <2> SUFFICES ASSUME NEW a \in Axes
               PROVE  consumed'[a] + Active(a)' <= Ceilings[a] + Total(Overage(a), DOMAIN events)'
    BY DEF OverrunBoundedByOverages
  <2>1. consumed[a] + Active(a) <= Ceilings[a] + Total(Overage(a), DOMAIN events)
    BY DEF OverrunBoundedByOverages
  <2>2. Total(Overage(a), DOMAIN events)'
          = Total(Overage(a), DOMAIN events)
              + (IF m[a] > reservations[id].reserved[a]
                   THEN m[a] - reservations[id].reserved[a] ELSE 0)
    BY AddEvent
  <2>3. Total(Overage(a), DOMAIN events) \in Nat
    BY OverageNat
  <2>4. QED
    BY <2>1, <2>2, <2>3, SettleTotals
<1>5. ConsumedIsCharged'
  <2> SUFFICES ASSUME NEW a \in Axes
               PROVE  consumed'[a] = Total(Charged(a), DOMAIN events)'
    BY DEF ConsumedIsCharged
  <2>1. Total(Charged(a), DOMAIN events)' = Total(Charged(a), DOMAIN events) + m[a]
    BY AddEvent
  <2>2. QED
    BY <2>1, SettleTotals DEF ConsumedIsCharged
<1>6. BreachHasEvidence'
  <2>1. DOMAIN events' = DOMAIN events \cup {id} /\ id \notin DOMAIN events
    BY DEF Settle, IsHeldBy, Assign, OneDispositionPerId
  <2>2. /\ events'[id].over_reserved = OverReserved(id, m)
        /\ \A i \in DOMAIN events : events'[i] = events[i]
    BY <2>1 DEF Settle, Assign
  <2>3. ~breached /\ OverCeiling(m) # {} => OverReserved(id, m) # {}
    <3> SUFFICES ASSUME ~breached, NEW a \in Axes, consumed[a] + m[a] > Ceilings[a]
                 PROVE  m[a] > reservations[id].reserved[a]
      BY DEF OverCeiling, OverReserved
    <3>1. consumed[a] + Active(a) <= Ceilings[a]
      BY DEF CeilingRespected
    <3>2. QED
      BY <3>1, SettleTotals
  <2>4. QED
    BY <2>1, <2>2, <2>3 DEF BreachHasEvidence, Settle, BreachedBy
<1>7. QED
  BY <1>1, <1>2, <1>3, <1>4, <1>5, <1>6

\* The empty ledger satisfies the invariant.
LEMMA InitInv == LedgerInit => LedgerInv
<1> SUFFICES ASSUME LedgerInit PROVE LedgerInv
  OBVIOUS
<1>1. DOMAIN reservations = {} /\ DOMAIN events = {} /\ DOMAIN rejections = {}
  BY DEF LedgerInit
<1>2. \A f : Total(f, {}) = 0
  BY FS_EmptySet DEF Total, Units
<1>3. \A a \in Axes : consumed[a] = 0 /\ Ceilings[a] \in Nat
  BY LedgerAssumption DEF LedgerInit
<1>4. LedgerTypeOK
  BY <1>1 DEF LedgerTypeOK, LedgerInit
<1>5. OneDispositionPerId
  BY <1>1 DEF OneDispositionPerId, LedgerInit
<1>6. CeilingRespected /\ OverrunBoundedByOverages /\ ConsumedIsCharged
  BY <1>1, <1>2, <1>3 DEF CeilingRespected, OverrunBoundedByOverages, ConsumedIsCharged, Active
<1>7. BreachHasEvidence
  BY <1>1 DEF BreachHasEvidence, LedgerInit
<1>8. QED
  BY <1>4, <1>5, <1>6, <1>7 DEF LedgerInv

LEMMA NextKeepsInv == LedgerInv /\ [LedgerNext]_lvars => LedgerInv'
<1> SUFFICES ASSUME LedgerInv, [LedgerNext]_lvars PROVE LedgerInv'
  OBVIOUS
<1>0. Amounts \subseteq Charge
  BY LedgerAssumption
<1>1. ASSUME NEW c \in Clients, NEW id \in Ids, NEW m \in Amounts, Reserve(c, id, m)
      PROVE  LedgerInv'
  BY <1>0, <1>1, ReserveKeepsInv
<1>2. ASSUME NEW id \in Ids, NEW m \in Amounts, Reject(id, m)
      PROVE  LedgerInv'
  BY <1>0, <1>2, RejectKeepsInv
<1>3. ASSUME NEW c \in Clients, NEW id \in Ids, CancelBeforeCall(c, id)
      PROVE  LedgerInv'
  BY <1>3, CancelKeepsInv
<1>4. ASSUME NEW c \in Clients, NEW id \in Ids, NEW m \in Amounts,
             NEW s \in Statuses, NEW r \in Receipts, Settle(c, id, m, s, r)
      PROVE  LedgerInv'
  BY <1>0, <1>4, SettleKeepsInv
<1>5. CASE UNCHANGED lvars
  BY <1>5 DEF lvars, LedgerInv, LedgerTypeOK, OneDispositionPerId, CeilingRespected,
              OverrunBoundedByOverages, ConsumedIsCharged, BreachHasEvidence,
              Active, Reserved, Overage, Charged
<1>6. QED
  BY <1>1, <1>2, <1>3, <1>4, <1>5 DEF LedgerNext

\* The conjuncts of the invariant hold in every state of the ledger.
THEOREM LedgerInvariant == LedgerSpec => []LedgerInv
<1>1. QED
  BY InitInv, NextKeepsInv, PTL DEF LedgerSpec

\* The ledger's state keeps its shape.
THEOREM LedgerTypeCorrect == LedgerSpec => []LedgerTypeOK
<1>1. LedgerInv => LedgerTypeOK
  BY DEF LedgerInv
<1>2. QED
  BY <1>1, LedgerInvariant, PTL

\* An unbreached ledger is under every hard ceiling, in-flight attempts included.
THEOREM CeilingIsHard == LedgerSpec => []CeilingRespected
<1>1. LedgerInv => CeilingRespected
  BY DEF LedgerInv
<1>2. QED
  BY <1>1, LedgerInvariant, PTL

\* What exceeds a ceiling is at most what attempts cost beyond their reservations.
THEOREM OverrunIsBounded == LedgerSpec => []OverrunBoundedByOverages
<1>1. LedgerInv => OverrunBoundedByOverages
  BY DEF LedgerInv
<1>2. QED
  BY <1>1, LedgerInvariant, PTL

\* Every used id has one disposition, and the totals add up to the recorded charges.
THEOREM EveryAttemptAccountedOnce ==
  LedgerSpec => []OneDispositionPerId /\ []ConsumedIsCharged
<1>1. LedgerInv => OneDispositionPerId /\ ConsumedIsCharged
  BY DEF LedgerInv
<1>2. QED
  BY <1>1, LedgerInvariant, PTL

\* The breach flag is set exactly when the ledger holds evidence of its cause.
THEOREM BreachIsEvidenced == LedgerSpec => []BreachHasEvidence
<1>1. LedgerInv => BreachHasEvidence
  BY DEF LedgerInv
<1>2. QED
  BY <1>1, LedgerInvariant, PTL

------------------------------------------------------------------------------
\* A breach is never undone, and nothing is reserved after it.
THEOREM BreachStopsTheLedger == LedgerSpec => BreachIsFinal
<1>1. [LedgerNext]_lvars
        => [breached => /\ breached'
                        /\ DOMAIN reservations' \subseteq DOMAIN reservations
                        /\ rejections' = rejections]_lvars
  BY DEF LedgerNext, Reserve, Accepting, Reject, CancelBeforeCall, Settle, Without, lvars
<1>2. QED
  BY <1>1, PTL DEF LedgerSpec, BreachIsFinal

------------------------------------------------------------------------------
(* The ledger implements the abstract account.                             *)

LEMMA ReserveHolds ==
  ASSUME LedgerInv, NEW c \in Clients, NEW id \in Ids, NEW m \in Charge, Reserve(c, id, m)
  PROVE  Ceiling!Hold(m)
<1>1. \A a \in Axes : Active(a)' = Active(a) + m[a]
  BY AddReservation DEF LedgerInv, Reserve, Accepting, OneDispositionPerId
<1>2. \A a \in Axes : consumed[a] + Active(a) + m[a] <= Ceilings[a]
  <2> SUFFICES ASSUME NEW a \in Axes
               PROVE  consumed[a] + Active(a) + m[a] <= Ceilings[a]
    OBVIOUS
  <2>1. consumed[a] \in Nat /\ Active(a) \in Nat /\ m[a] \in Nat /\ Ceilings[a] \in Nat
    BY ActiveNat, LedgerAssumption DEF LedgerInv, LedgerTypeOK, Charge
  <2>2. QED
    BY <2>1 DEF Reserve, ExceededAxes
<1>3. QED
  BY <1>1, <1>2 DEF Ceiling!Hold, Ceiling!Fits, Reserve, Accepting

LEMMA RejectRefuses ==
  ASSUME LedgerInv, NEW id \in Ids, NEW m \in Charge, Reject(id, m)
  PROVE  Ceiling!Refuse(m)
<1>1. ~Ceiling!Fits(m)
  <2>1. PICK a \in Axes : consumed[a] + Active(a) + m[a] > Ceilings[a]
    BY DEF Reject, ExceededAxes
  <2>2. consumed[a] \in Nat /\ Active(a) \in Nat /\ m[a] \in Nat /\ Ceilings[a] \in Nat
    BY ActiveNat, LedgerAssumption DEF LedgerInv, LedgerTypeOK, Charge
  <2>3. ~(consumed[a] + Active(a) + m[a] <= Ceilings[a])
    BY <2>1, <2>2
  <2>4. QED
    BY <2>3 DEF Ceiling!Fits
<1>2. \A a \in Axes : Active(a)' = Active(a)
  BY DEF Active, Reserved, Reject
<1>3. QED
  BY <1>1, <1>2 DEF Ceiling!Refuse, Reject, Accepting

LEMMA CancelGivesBack ==
  ASSUME LedgerInv, NEW c \in Clients, NEW id \in Ids, CancelBeforeCall(c, id)
  PROVE  \E m \in Charge : Ceiling!GiveBack(m)
<1> DEFINE m == reservations[id].reserved
<1>1. m \in Charge
  BY DEF CancelBeforeCall, IsHeldBy, LedgerInv, LedgerTypeOK
<1>2. \A a \in Axes : m[a] <= Active(a) /\ Active(a)' = Active(a) - m[a]
  <2> SUFFICES ASSUME NEW a \in Axes
               PROVE  m[a] <= Active(a) /\ Active(a)' = Active(a) - m[a]
    OBVIOUS
  <2>1. IsFiniteSet(DOMAIN reservations')
    BY FiniteDomains, FS_RemoveElement DEF LedgerInv, CancelBeforeCall, Without
  <2>2. Active(a)' \in Nat
    BY <2>1, UnitsFinite DEF Active
  <2>3. Active(a) = Active(a)' + m[a]
    BY DropReservation DEF LedgerInv, CancelBeforeCall, IsHeldBy
  <2>4. m[a] \in Nat
    BY <1>1, LedgerAssumption DEF Charge
  <2>5. QED
    BY <2>2, <2>3, <2>4
<1>3. Ceiling!GiveBack(m)
  BY <1>2 DEF Ceiling!GiveBack, CancelBeforeCall
<1>4. QED
  BY <1>1, <1>3

LEMMA SettleSpends ==
  ASSUME LedgerInv, NEW c \in Clients, NEW id \in Ids, NEW k \in Charge,
         NEW s \in Statuses, NEW r \in Receipts, Settle(c, id, k, s, r)
  PROVE  \E m \in Charge : Ceiling!Spend(m, k)
<1> DEFINE m == reservations[id].reserved
<1>1. m \in Charge
  BY DEF Settle, IsHeldBy, LedgerInv, LedgerTypeOK
<1>2. \A a \in Axes : /\ m[a] <= Active(a) /\ Active(a)' = Active(a) - m[a]
                      /\ consumed[a] \in Nat /\ k[a] \in Nat /\ Ceilings[a] \in Nat
                      /\ m[a] \in Nat /\ Active(a) \in Nat
  BY SettleTotals DEF LedgerInv
<1>3. ~breached' <=> ~breached /\ \A a \in Axes : k[a] <= m[a]
  <2>1. ASSUME ~breached, NEW a \in Axes, consumed[a] + k[a] > Ceilings[a]
        PROVE  k[a] > m[a]
    <3>1. consumed[a] + Active(a) <= Ceilings[a]
      BY <2>1 DEF LedgerInv, CeilingRespected
    <3>2. QED
      BY <1>2, <2>1, <3>1
  <2>2. ~breached => (OverCeiling(k) # {} => OverReserved(id, k) # {})
    BY <2>1 DEF OverCeiling, OverReserved
  <2>3. OverReserved(id, k) = {} <=> \A a \in Axes : k[a] <= m[a]
    BY <1>2 DEF OverReserved
  <2>4. QED
    BY <2>2, <2>3 DEF Settle, BreachedBy
<1>4. Ceiling!Spend(m, k)
  BY <1>2, <1>3 DEF Ceiling!Spend, Settle, ConsumedAfter
<1>5. QED
  BY <1>1, <1>4

\* Every behaviour of the ledger is one of the abstract account.
THEOREM LedgerImplementsHardCeiling == LedgerSpec => ImplementsHardCeiling
<1>1. LedgerInit => Ceiling!Init
  <2>1. \A f : Total(f, {}) = 0
    BY FS_EmptySet DEF Total, Units
  <2>2. LedgerInit => \A a \in Axes : Active(a) = 0
    BY <2>1 DEF LedgerInit, Active
  <2>3. QED
    BY <2>2 DEF LedgerInit, Ceiling!Init
<1>2. LedgerInv /\ [LedgerNext]_lvars => [Ceiling!Next]_(Ceiling!hvars)
  <2> SUFFICES ASSUME LedgerInv, [LedgerNext]_lvars
               PROVE  [Ceiling!Next]_(Ceiling!hvars)
    OBVIOUS
  <2>0. Amounts \subseteq Charge
    BY LedgerAssumption
  <2>1. ASSUME NEW c \in Clients, NEW id \in Ids, NEW m \in Amounts, Reserve(c, id, m)
        PROVE  Ceiling!Next
    BY <2>0, <2>1, ReserveHolds DEF Ceiling!Next
  <2>2. ASSUME NEW id \in Ids, NEW m \in Amounts, Reject(id, m)
        PROVE  Ceiling!Next
    BY <2>0, <2>2, RejectRefuses DEF Ceiling!Next
  <2>3. ASSUME NEW c \in Clients, NEW id \in Ids, CancelBeforeCall(c, id)
        PROVE  Ceiling!Next
    BY <2>3, CancelGivesBack DEF Ceiling!Next
  <2>4. ASSUME NEW c \in Clients, NEW id \in Ids, NEW m \in Amounts,
               NEW s \in Statuses, NEW r \in Receipts, Settle(c, id, m, s, r)
        PROVE  Ceiling!Next
    BY <2>0, <2>4, SettleSpends DEF Ceiling!Next
  <2>5. CASE UNCHANGED lvars
    BY <2>5 DEF lvars, Ceiling!hvars, Active, Reserved
  <2>6. QED
    BY <2>1, <2>2, <2>3, <2>4, <2>5 DEF LedgerNext
<1>3. QED
  BY <1>1, <1>2, LedgerInvariant, PTL DEF LedgerSpec, ImplementsHardCeiling, Ceiling!Spec

------------------------------------------------------------------------------
(***************************************************************************)
(* The host.                                                               *)
(***************************************************************************)

\* The threads past their claim, and what they own.
Owning(t) == pc[t] \notin {"idle", "admitted"}

Ownership ==
  /\ \A t \in Clients : Owning(t) => slot[t] \in used_slots
  /\ \A t, u \in Clients : t # u /\ Owning(t) /\ Owning(u) => slot[t] # slot[u]

\* Places, slots and their owners agree.
PlacesInv == HostTypeOK /\ PlacesAreSlots /\ Ownership

------------------------------------------------------------------------------
(* Facts about the locals of an attempt.                                   *)

LEMMA ComponentsAreRange == \A s \in Ids : ComponentOf[s] \in Components
  BY DEF Components

\* What is reserved for an attempt, and what it is charged without a receipt,
\* are amounts of one attempt.
LEMMA MaximumsAreCharges ==
  ASSUME HostTypeOK, NEW t \in Clients, slot[t] \in Ids
  PROVE  /\ Maximums(t) \in Charge
         /\ \A ms \in Elapsed : Conservative(t, ms) \in Charge
<1>1. Maximums(t) \in Charge
  BY ComponentsAreRange, HostAssumption DEF Maximums
<1>2. ASSUME NEW ms \in Elapsed
      PROVE  Conservative(t, ms) \in Charge
  <2>1. ms \in 0..MaxAmount /\ "wall_clock_ms" \in Axes /\ "wall_clock_ms" # "calls"
    BY HostAssumption
  <2> DEFINE mx == Maximums(t)
             wall == IF ms > mx["wall_clock_ms"] THEN ms ELSE mx["wall_clock_ms"]
  <2>2. mx \in [Axes -> 0..MaxAmount] /\ mx["calls"] = 1
    BY <1>1 DEF Charge
  <2>3. wall \in 0..MaxAmount
    BY <2>1, <2>2
  <2>4. [mx EXCEPT !["wall_clock_ms"] = wall] \in [Axes -> 0..MaxAmount]
    BY <2>2, <2>3
  <2>5. [mx EXCEPT !["wall_clock_ms"] = wall]["calls"] = 1
    BY <2>1, <2>2 DEF Charge
  <2>6. QED
    BY <2>4, <2>5 DEF Conservative, Charge
<1>3. QED
  BY <1>1, <1>2

\* However a call ends, the thread's locals are well formed.
LEMMA OutcomesWellFormed ==
  ASSUME HostTypeOK, NEW t \in Clients, slot[t] \in Ids
  PROVE  /\ \A st \in {"success", "refusal"}, u \in Usages, r \in Receipts :
              [status |-> st, charged |-> u, receipt |-> r,
               failure |-> IF st = "success" THEN Null ELSE st] \in Outcomes
         /\ \A u \in Usages, r \in Receipts :
              [status |-> "cancelled_after_call", charged |-> u, receipt |-> r,
               failure |-> "host_interrupted"] \in Outcomes
         /\ \A st \in Statuses, ms \in Elapsed, f \in Failures :
              [status |-> st, charged |-> Conservative(t, ms), receipt |-> Null,
               failure |-> f] \in Outcomes
         /\ \A st \in DOMAIN Raised : Raised[st] \in Failures
<1>1. /\ {"success", "refusal", "cancelled_after_call"} \subseteq Statuses
      /\ Usages \subseteq Charge /\ Null \in Receipts
  BY HostAssumption
<1>2. \A ms \in Elapsed : Conservative(t, ms) \in Charge
  BY MaximumsAreCharges
<1>3. QED
  BY <1>1, <1>2 DEF Outcomes, Failures, Raised

------------------------------------------------------------------------------
(* The steps that take and give back a place.                              *)

LEMMA ClaimKeepsPlaces ==
  ASSUME PlacesInv, NEW t \in Clients, ClaimSlot(t)
  PROVE  PlacesInv'
<1> USE DEF PlacesInv
<1>1. slot[t] \in Ids /\ slot[t] \notin used_slots /\ ComponentOf[slot[t]] \in Components
  BY ComponentsAreRange DEF HostTypeOK, ClaimSlot, Claimable
<1>2. Ownership'
  BY <1>1 DEF Ownership, Owning, HostTypeOK, ClaimSlot, Goto
<1>3. PlacesAreSlots'
  <2> SUFFICES ASSUME NEW k \in Components
               PROVE  allocated'[k] = Cardinality({s \in used_slots' : ComponentOf[s] = k})
    BY DEF PlacesAreSlots
  <2> DEFINE Old == {s \in used_slots : ComponentOf[s] = k}
  <2>1. IsFiniteSet(Old)
    BY FS_Subset, LedgerAssumption DEF HostTypeOK
  <2>2. allocated[k] = Cardinality(Old) /\ allocated[k] \in Nat
    BY DEF PlacesAreSlots, HostTypeOK
  <2>3. CASE ComponentOf[slot[t]] = k
    <3>1. {s \in used_slots' : ComponentOf[s] = k} = Old \cup {slot[t]}
      BY <2>3 DEF ClaimSlot
    <3>2. allocated'[k] = allocated[k] + 1
      BY <2>3 DEF ClaimSlot, HostTypeOK
    <3>3. Cardinality(Old \cup {slot[t]}) = Cardinality(Old) + 1
      BY <1>1, <2>1, FS_AddElement
    <3>4. QED
      BY <3>1, <3>2, <3>3, <2>2
  <2>4. CASE ComponentOf[slot[t]] # k
    <3>1. {s \in used_slots' : ComponentOf[s] = k} = Old
      BY <2>4 DEF ClaimSlot
    <3>2. allocated'[k] = allocated[k]
      BY <2>4 DEF ClaimSlot, HostTypeOK
    <3>3. QED
      BY <3>1, <3>2, <2>2
  <2>5. QED
    BY <2>3, <2>4
<1>4. HostTypeOK'
  BY <1>1 DEF HostTypeOK, ClaimSlot, Goto, Locations
<1>5. QED
  BY <1>2, <1>3, <1>4

LEMMA ReleaseKeepsPlaces ==
  ASSUME PlacesInv, NEW t \in Clients, ReleaseSlot(t)
  PROVE  PlacesInv'
<1> USE DEF PlacesInv
<1>1. slot[t] \in Ids /\ slot[t] \in used_slots /\ ComponentOf[slot[t]] \in Components
  BY ComponentsAreRange DEF HostTypeOK, Ownership, Owning, ReleaseSlot
<1>2. Ownership'
  BY <1>1 DEF Ownership, Owning, HostTypeOK, ReleaseSlot, Leave
<1>3. \A k \in Components : /\ allocated'[k] \in Nat
                           /\ allocated'[k] = Cardinality({s \in used_slots' : ComponentOf[s] = k})
  <2> SUFFICES ASSUME NEW k \in Components
               PROVE  /\ allocated'[k] \in Nat
                      /\ allocated'[k] = Cardinality({s \in used_slots' : ComponentOf[s] = k})
    OBVIOUS
  <2> DEFINE Old == {s \in used_slots : ComponentOf[s] = k}
             New == {s \in used_slots' : ComponentOf[s] = k}
  <2>1. IsFiniteSet(Old) /\ IsFiniteSet(New)
    BY FS_Subset, LedgerAssumption DEF HostTypeOK, ReleaseSlot
  <2>2. allocated[k] = Cardinality(Old) /\ allocated[k] \in Nat
    BY DEF PlacesAreSlots, HostTypeOK
  <2>3. Cardinality(New) \in Nat
    BY <2>1, FS_CardinalityType
  <2>4. CASE ComponentOf[slot[t]] = k
    <3>1. New = Old \ {slot[t]} /\ slot[t] \in Old
      BY <1>1, <2>4 DEF ReleaseSlot
    <3>2. allocated'[k] = allocated[k] - 1
      BY <2>4 DEF ReleaseSlot, HostTypeOK
    <3>3. Cardinality(New) = Cardinality(Old) - 1
      BY <3>1, <2>1, FS_RemoveElement
    <3>4. QED
      BY <3>2, <3>3, <2>2, <2>3
  <2>5. CASE ComponentOf[slot[t]] # k
    <3>1. New = Old
      BY <2>5 DEF ReleaseSlot
    <3>2. allocated'[k] = allocated[k]
      BY <2>5 DEF ReleaseSlot, HostTypeOK
    <3>3. QED
      BY <3>1, <3>2, <2>2
  <2>6. QED
    BY <2>4, <2>5
<1>4. HostTypeOK'
  <2>1. allocated' \in [Components -> Nat]
    BY <1>3 DEF ReleaseSlot, HostTypeOK
  <2>2. QED
    BY <2>1 DEF HostTypeOK, ReleaseSlot, Leave, Locations
<1>5. QED
  BY <1>2, <1>3, <1>4 DEF PlacesAreSlots

------------------------------------------------------------------------------
(* The other steps leave the places alone: it is enough that each keeps    *)
(* the types and gives no slot to a thread that did not own it.            *)

LEMMA QuietKeepsPlaces ==
  ASSUME PlacesInv, HostTypeOK', UNCHANGED <<used_slots, allocated>>,
         \A t \in Clients : Owning(t)' => Owning(t) /\ slot'[t] = slot[t]
  PROVE  PlacesInv'
<1>1. Ownership'
  BY DEF PlacesInv, Ownership
<1>2. PlacesAreSlots'
  BY DEF PlacesInv, PlacesAreSlots
<1>3. QED
  BY <1>1, <1>2 DEF PlacesInv

\* The steps around the ledger's calls.
LEMMA ReservingKeepsPlaces ==
  ASSUME PlacesInv, NEW t \in Clients,
         \/ ReserveBudget(t) \/ ReserveFails(t) \/ ReserveInterrupted(t)
         \/ Dispatch(t)
  PROVE  PlacesInv'
<1>1. HostTypeOK'
  BY DEF PlacesInv, HostTypeOK, ReserveBudget, ReserveFails, ReserveInterrupted,
         Dispatch, Goto, Locations
<1>2. UNCHANGED <<used_slots, allocated>>
  BY DEF ReserveBudget, ReserveFails, ReserveInterrupted, Dispatch
<1>3. \A u \in Clients : Owning(u)' => Owning(u) /\ slot'[u] = slot[u]
  BY DEF PlacesInv, HostTypeOK, Owning, ReserveBudget, ReserveFails,
         ReserveInterrupted, Dispatch, Goto
<1>4. QED
  BY <1>1, <1>2, <1>3, QuietKeepsPlaces

\* The ends of a call: what they have in common is CallOver.
LEMMA CallOverKeepsPlaces ==
  ASSUME PlacesInv, NEW t \in Clients, pc[t] = "calling",
         NEW o \in Outcomes, CallOver(t, o), receipts' \subseteq Receipts \ {Null}
  PROVE  PlacesInv'
<1>1. HostTypeOK'
  <2>1. /\ pc' = [pc EXCEPT ![t] = "settling"]
        /\ outcome' = [outcome EXCEPT ![t] = o]
        /\ UNCHANGED <<slot, used_slots, allocated, reports>>
    BY DEF CallOver, Goto
  <2>2. \A u \in Clients : pc'[u] \in {"settling", "recording"} => outcome'[u] \in Outcomes
    BY <2>1 DEF PlacesInv, HostTypeOK
  <2>3. QED
    BY <2>1, <2>2 DEF PlacesInv, HostTypeOK, Locations
<1>2. \A u \in Clients : Owning(u)' => Owning(u) /\ slot'[u] = slot[u]
  BY DEF PlacesInv, HostTypeOK, Owning, CallOver, Goto
<1>3. QED
  BY <1>1, <1>2, QuietKeepsPlaces DEF CallOver

LEMMA CallReturnsKeepsPlaces ==
  ASSUME PlacesInv, NEW t \in Clients, CallReturns(t)
  PROVE  PlacesInv'
<1>1. /\ HostTypeOK /\ slot[t] \in Ids /\ pc[t] = "calling"
      /\ receipts \subseteq Receipts \ {Null}
  BY DEF PlacesInv, HostTypeOK, CallReturns, CallAttested, CallReplayed,
         CallUnverified, CallRaises
<1>2. {"success", "refusal"} \subseteq Statuses
  BY HostAssumption
<1>3. {"receipt_reused", "receipt_unverified"} \subseteq Failures
  BY DEF Failures
<1>4. \E o \in Outcomes : CallOver(t, o) /\ receipts' \subseteq Receipts \ {Null}
  <2>1. ASSUME NEW st \in {"success", "refusal"}, NEW u \in Usages,
               NEW r \in Receipts \ {Null}, CallAttested(t, st, u, r)
        PROVE  \E o \in Outcomes : CallOver(t, o) /\ receipts' \subseteq Receipts \ {Null}
    BY <1>1, <2>1, OutcomesWellFormed DEF CallAttested
  <2>2. ASSUME NEW st \in {"success", "refusal"}, NEW ms \in Elapsed,
               NEW r \in Receipts \ {Null}, CallReplayed(t, st, ms, r)
        PROVE  \E o \in Outcomes : CallOver(t, o) /\ receipts' \subseteq Receipts \ {Null}
    BY <1>1, <1>2, <1>3, <2>2, OutcomesWellFormed DEF CallReplayed
  <2>3. ASSUME NEW st \in {"success", "refusal"}, NEW ms \in Elapsed,
               CallUnverified(t, st, ms)
        PROVE  \E o \in Outcomes : CallOver(t, o) /\ receipts' \subseteq Receipts \ {Null}
    BY <1>1, <1>2, <1>3, <2>3, OutcomesWellFormed DEF CallUnverified
  <2>4. ASSUME NEW st \in Statuses \cap DOMAIN Raised, NEW ms \in Elapsed,
               CallRaises(t, st, ms)
        PROVE  \E o \in Outcomes : CallOver(t, o) /\ receipts' \subseteq Receipts \ {Null}
    BY <1>1, <2>4, OutcomesWellFormed DEF CallRaises
  <2>5. QED
    BY <2>1, <2>2, <2>3, <2>4 DEF CallReturns
<1>5. QED
  BY <1>1, <1>4, CallOverKeepsPlaces

LEMMA InterruptKeepsPlaces ==
  ASSUME PlacesInv, NEW t \in Clients, Interrupt(t)
  PROVE  PlacesInv'
<1>1. ASSUME NEW ms \in Elapsed, CallInterrupted(t, ms)
      PROVE  PlacesInv'
  <2>1. /\ HostTypeOK /\ slot[t] \in Ids /\ pc[t] = "calling"
        /\ "cancelled_after_call" \in Statuses /\ "host_interrupted" \in Failures
    BY <1>1, HostAssumption DEF PlacesInv, HostTypeOK, CallInterrupted, Failures
  <2>2. receipts' \subseteq Receipts \ {Null}
    BY <1>1 DEF PlacesInv, HostTypeOK, CallInterrupted
  <2>3. QED
    BY <1>1, <2>1, <2>2, OutcomesWellFormed, CallOverKeepsPlaces DEF CallInterrupted
<1>2. ASSUME NEW u \in Usages, NEW r \in Receipts \ {Null}, AttestedInterrupted(t, u, r)
      PROVE  PlacesInv'
  <2>1. HostTypeOK /\ slot[t] \in Ids /\ pc[t] = "calling"
    BY <1>2 DEF PlacesInv, HostTypeOK, AttestedInterrupted
  <2>2. receipts' \subseteq Receipts \ {Null}
    BY <1>2 DEF PlacesInv, HostTypeOK, AttestedInterrupted
  <2>3. QED
    BY <1>2, <2>1, <2>2, OutcomesWellFormed, CallOverKeepsPlaces DEF AttestedInterrupted
<1>3. CASE Unwind(t)
  <2>1. HostTypeOK'
    BY <1>3 DEF PlacesInv, HostTypeOK, Unwind, Leave, Locations
  <2>2. \A u \in Clients : Owning(u)' => Owning(u) /\ slot'[u] = slot[u]
    BY <1>3 DEF PlacesInv, HostTypeOK, Owning, Unwind, Leave
  <2>3. QED
    BY <1>3, <2>1, <2>2, QuietKeepsPlaces DEF Unwind
<1>4. QED
  BY <1>1, <1>2, <1>3, ReservingKeepsPlaces DEF Interrupt

\* Admission, refusal, settlement and the report.
LEMMA EndsKeepPlaces ==
  ASSUME PlacesInv, NEW t \in Clients,
         \/ \E s \in Ids : Admit(t, s)
         \/ RefuseSlot(t) \/ SettleAttempt(t) \/ Record(t)
  PROVE  PlacesInv'
<1>1. CASE \E s \in Ids : Admit(t, s)
  <2>1. HostTypeOK'
    BY <1>1 DEF PlacesInv, HostTypeOK, Admit, Goto, Locations
  <2>2. \A u \in Clients : Owning(u)' => Owning(u) /\ slot'[u] = slot[u]
    BY <1>1 DEF PlacesInv, HostTypeOK, Owning, Admit, Goto
  <2>3. QED
    BY <1>1, <2>1, <2>2, QuietKeepsPlaces DEF Admit
<1>2. CASE RefuseSlot(t)
  <2>1. HostTypeOK'
    BY <1>2 DEF PlacesInv, HostTypeOK, RefuseSlot, Leave, Locations
  <2>2. \A u \in Clients : Owning(u)' => Owning(u) /\ slot'[u] = slot[u]
    BY <1>2 DEF PlacesInv, HostTypeOK, Owning, RefuseSlot, Leave
  <2>3. QED
    BY <1>2, <2>1, <2>2, QuietKeepsPlaces DEF RefuseSlot
<1>3. CASE SettleAttempt(t)
  <2>1. [outcome[t] EXCEPT !.failure = VerdictOf(t)] \in Outcomes
    BY <1>3 DEF PlacesInv, HostTypeOK, SettleAttempt, VerdictOf, Outcomes, Failures
  <2>2. outcome' = [outcome EXCEPT ![t] = [outcome[t] EXCEPT !.failure = VerdictOf(t)]]
    BY <1>3 DEF SettleAttempt
  <2>3. HostTypeOK'
    BY <1>3, <2>1, <2>2 DEF PlacesInv, HostTypeOK, SettleAttempt, Goto, Locations
  <2>4. \A u \in Clients : Owning(u)' => Owning(u) /\ slot'[u] = slot[u]
    BY <1>3 DEF PlacesInv, HostTypeOK, Owning, SettleAttempt, Goto
  <2>5. QED
    BY <1>3, <2>3, <2>4, QuietKeepsPlaces DEF SettleAttempt
<1>4. CASE Record(t)
  <2>1. HostTypeOK'
    BY <1>4 DEF PlacesInv, HostTypeOK, Record, Leave, Locations, Assign
  <2>2. \A u \in Clients : Owning(u)' => Owning(u) /\ slot'[u] = slot[u]
    BY <1>4 DEF PlacesInv, HostTypeOK, Owning, Record, Leave
  <2>3. QED
    BY <1>4, <2>1, <2>2, QuietKeepsPlaces DEF Record
<1>5. QED
  BY <1>1, <1>2, <1>3, <1>4

LEMMA NextKeepsPlaces ==
  ASSUME PlacesInv, [Next]_vars
  PROVE  PlacesInv'
<1>1. ASSUME NEW t \in Clients, Step(t)
      PROVE  PlacesInv'
  BY <1>1, ClaimKeepsPlaces, ReleaseKeepsPlaces, ReservingKeepsPlaces,
     CallReturnsKeepsPlaces, EndsKeepPlaces DEF Step
<1>2. CASE SnapshotReports \/ SnapshotLedger \/ Expire \/ UNCHANGED vars
  BY <1>2 DEF SnapshotReports, SnapshotLedger, Expire, vars, hostvars,
              PlacesInv, HostTypeOK, PlacesAreSlots, Ownership, Owning
<1>3. QED
  BY <1>1, <1>2, InterruptKeepsPlaces, EndsKeepPlaces DEF Next

LEMMA InitPlaces == HostInit => PlacesInv
<1> SUFFICES ASSUME HostInit PROVE PlacesInv
  OBVIOUS
<1>1. HostTypeOK
  BY DEF HostInit, HostTypeOK, Locations
<1>2. PlacesAreSlots
  <2>1. \A k \in Components : {s \in used_slots : ComponentOf[s] = k} = {}
    BY DEF HostInit
  <2>2. QED
    BY <2>1, FS_EmptySet DEF HostInit, PlacesAreSlots
<1>3. Ownership
  BY DEF HostInit, Ownership, Owning
<1>4. QED
  BY <1>1, <1>2, <1>3 DEF PlacesInv

\* The host's types, places and ownership of slots hold in every behaviour.
THEOREM PlacesInvariant == Spec => []PlacesInv
<1>1. QED
  BY InitPlaces, NextKeepsPlaces, PTL DEF Spec

\* The host's state keeps its shape.
THEOREM HostTypeCorrect == Spec => []HostTypeOK
<1>1. PlacesInv => HostTypeOK
  BY DEF PlacesInv
<1>2. QED
  BY <1>1, PlacesInvariant, PTL

\* The places taken in a component are its consumed slots.
THEOREM NoPlaceLeaks == Spec => []PlacesAreSlots
<1>1. PlacesInv => PlacesAreSlots
  BY DEF PlacesInv
<1>2. QED
  BY <1>1, PlacesInvariant, PTL

------------------------------------------------------------------------------
(* The host uses its ledger only through the ledger's own operations.      *)

LEMMA StepsUseLedger ==
  ASSUME PlacesInv, [Next]_vars
  PROVE  [LedgerNext]_lvars
<1>1. ASSUME NEW t \in Clients, slot[t] \in Ids,
             \/ Reserve(t, slot[t], Maximums(t)) \/ Reject(slot[t], Maximums(t))
      PROVE  LedgerNext
  <2>1. Maximums(t) \in Amounts
    BY <1>1, MaximumsAreCharges, HostAssumption DEF PlacesInv
  <2>2. QED
    BY <1>1, <2>1 DEF LedgerNext
<1>2. ASSUME NEW t \in Clients, Step(t) \/ Interrupt(t)
      PROVE  LedgerNext \/ UNCHANGED lvars
  <2>1. CASE ReserveBudget(t) \/ ReserveFails(t) \/ ReserveInterrupted(t)
    <3>1. slot[t] \in Ids
      BY <2>1 DEF PlacesInv, HostTypeOK, ReserveBudget, ReserveFails, ReserveInterrupted
    <3>2. QED
      BY <1>1, <2>1, <3>1 DEF ReserveBudget, ReserveFails, ReserveInterrupted
  <2>2. CASE SettleAttempt(t)
    <3>1. slot[t] \in Ids /\ outcome[t] \in Outcomes
      BY <2>2 DEF PlacesInv, HostTypeOK, SettleAttempt
    <3>2. /\ outcome[t].charged \in Amounts
          /\ outcome[t].status \in Statuses /\ outcome[t].receipt \in Receipts
      BY <3>1, HostAssumption DEF Outcomes
    <3>3. QED
      BY <2>2, <3>1, <3>2 DEF SettleAttempt, LedgerNext
  <2>3. CASE CallReturns(t)
    BY <2>3 DEF CallReturns, CallAttested, CallReplayed, CallUnverified, CallRaises,
                CallOver
  <2>4. CASE \/ \E ms \in Elapsed : CallInterrupted(t, ms)
             \/ \E u \in Usages, r \in Receipts \ {Null} : AttestedInterrupted(t, u, r)
             \/ Unwind(t)
    BY <2>4 DEF CallInterrupted, AttestedInterrupted, CallOver, Unwind
  <2>5. CASE ClaimSlot(t) \/ RefuseSlot(t) \/ ReleaseSlot(t) \/ Dispatch(t) \/ Record(t)
    BY <2>5 DEF ClaimSlot, RefuseSlot, ReleaseSlot, Dispatch, Record
  <2>6. QED
    BY <1>2, <2>1, <2>2, <2>3, <2>4, <2>5 DEF Step, Interrupt
<1>3. CASE \/ \E t \in Clients, s \in Ids : Admit(t, s)
           \/ SnapshotReports \/ SnapshotLedger \/ Expire \/ UNCHANGED vars
  BY <1>3 DEF Admit, SnapshotReports, SnapshotLedger, Expire, vars
<1>4. QED
  BY <1>2, <1>3 DEF Next

\* Every behaviour of the host is, on the ledger's variables, one of the ledger:
\* whatever is proved of the ledger holds of it.
THEOREM HostIsLedgerUser == Spec => HostUsesLedger
<1>1. HostInit => LedgerInit
  BY DEF HostInit
<1>2. QED
  BY <1>1, StepsUseLedger, PlacesInvariant, PTL DEF Spec, HostUsesLedger, LedgerSpec

\* So the threads of a host never reserve beyond a ceiling.
THEOREM HostRespectsCeilings == Spec => []CeilingRespected
<1>1. QED
  BY HostIsLedgerUser, CeilingIsHard, PTL DEF HostUsesLedger

------------------------------------------------------------------------------
(* Calls are funded.                                                       *)

\* A reserved attempt has its reservation and was not called before.
FundedInv ==
  /\ calls \in [Ids -> 0..1]
  /\ \A s \in Ids : calls[s] = 1 => s \in DOMAIN reservations \cup DOMAIN events
  /\ \A t \in Clients :
       pc[t] \in {"reserved", "calling", "settling"} => slot[t] \in DOMAIN reservations
  /\ \A t \in Clients : pc[t] = "reserved" => calls[slot[t]] = 0

\* A step that leaves the ledger and the calls alone, and brings no thread
\* nearer to its call.
LEMMA QuietKeepsFunded ==
  ASSUME FundedInv, UNCHANGED <<lvars, calls>>,
         \A t \in Clients :
           /\ pc'[t] \in {"reserved", "calling", "settling"} =>
                pc[t] \in {"reserved", "calling", "settling"} /\ slot'[t] = slot[t]
           /\ pc'[t] = "reserved" => pc[t] = "reserved"
  PROVE  FundedInv'
  BY DEF FundedInv, lvars

LEMMA ReserveKeepsFunded ==
  ASSUME PlacesInv, FundedInv, LedgerInv, NEW t \in Clients,
         ReserveBudget(t) \/ ReserveFails(t) \/ ReserveInterrupted(t)
  PROVE  FundedInv'
<1>0. pc[t] = "claimed" /\ slot[t] \in Ids /\ UNCHANGED <<slot, calls>>
  BY DEF PlacesInv, HostTypeOK, ReserveBudget, ReserveFails, ReserveInterrupted
<1>1. CASE Reserve(t, slot[t], Maximums(t))
  <2>1. slot[t] \notin DOMAIN reservations \cup DOMAIN events
    BY <1>1 DEF LedgerInv, OneDispositionPerId, Reserve, Accepting
  <2>2. calls[slot[t]] = 0
    BY <1>0, <2>1 DEF FundedInv
  <2>3. /\ DOMAIN reservations' = DOMAIN reservations \cup {slot[t]}
        /\ events' = events
    BY <1>1 DEF Reserve, Assign
  <2>4. \A u \in Clients : u # t => pc'[u] = pc[u]
    BY DEF PlacesInv, HostTypeOK, ReserveBudget, ReserveFails, ReserveInterrupted, Goto
  <2>5. QED
    BY <1>0, <2>2, <2>3, <2>4 DEF FundedInv
<1>2. CASE Reject(slot[t], Maximums(t)) \/ UNCHANGED lvars
  <2>1. reservations' = reservations /\ events' = events
    BY <1>2 DEF Reject, lvars
  <2>2. \A u \in Clients : u # t => pc'[u] = pc[u]
    BY DEF PlacesInv, HostTypeOK, ReserveBudget, ReserveFails, ReserveInterrupted, Goto
  <2>3. CASE pc'[t] = "releasing"
    BY <1>0, <2>1, <2>2, <2>3 DEF FundedInv
  <2>4. CASE pc'[t] # "releasing"
    <3>1. Reserve(t, slot[t], Maximums(t))
      BY <2>4 DEF PlacesInv, HostTypeOK, ReserveBudget, ReserveFails,
                  ReserveInterrupted, Goto
    <3>2. QED
      BY <1>1, <3>1
  <2>5. QED
    BY <2>3, <2>4
<1>3. QED
  BY <1>1, <1>2 DEF ReserveBudget, ReserveFails, ReserveInterrupted

LEMMA DispatchKeepsFunded ==
  ASSUME PlacesInv, FundedInv, NEW t \in Clients, Dispatch(t)
  PROVE  FundedInv'
<1>1. /\ pc[t] = "reserved" /\ slot[t] \in Ids /\ slot[t] \in DOMAIN reservations
      /\ calls[slot[t]] = 0
  BY DEF PlacesInv, HostTypeOK, FundedInv, Dispatch
<1>2. calls' = [calls EXCEPT ![slot[t]] = 1]
  BY <1>1 DEF Dispatch, FundedInv
<1>3. \A u \in Clients : u # t /\ pc[u] = "reserved" => slot[u] # slot[t]
  BY <1>1 DEF PlacesInv, Ownership, Owning
<1>4. /\ pc' = [pc EXCEPT ![t] = "calling"]
      /\ UNCHANGED <<slot, reservations, events>>
  BY DEF Dispatch, Goto, lvars
<1>5. pc \in [Clients -> Locations] /\ slot \in [Clients -> Ids \cup {Null}]
  BY DEF PlacesInv, HostTypeOK
<1>6. \A u \in Clients : pc[u] = "reserved" => slot[u] \in Ids
  BY DEF PlacesInv, HostTypeOK
<1>7. QED
  BY <1>1, <1>2, <1>3, <1>4, <1>5, <1>6 DEF FundedInv

LEMMA SettleKeepsFunded ==
  ASSUME PlacesInv, FundedInv, NEW t \in Clients, SettleAttempt(t)
  PROVE  FundedInv'
<1>1. /\ DOMAIN reservations' = DOMAIN reservations \ {slot[t]}
      /\ DOMAIN events' = DOMAIN events \cup {slot[t]}
      /\ UNCHANGED <<calls, slot>>
  BY DEF SettleAttempt, Settle, Without, Assign
<1>2. pc[t] = "settling" /\ pc'[t] = "recording" /\ \A u \in Clients : u # t => pc'[u] = pc[u]
  BY DEF PlacesInv, HostTypeOK, SettleAttempt, Goto
<1>3. \A u \in Clients : u # t /\ pc[u] \in {"reserved", "calling", "settling"}
                         => slot[u] # slot[t]
  BY <1>2 DEF PlacesInv, Ownership, Owning
<1>4. QED
  BY <1>1, <1>2, <1>3 DEF FundedInv

LEMMA NextKeepsFunded ==
  ASSUME PlacesInv, FundedInv, LedgerInv, [Next]_vars
  PROVE  FundedInv'
<1> USE DEF HostTypeOK
<1>1. ASSUME NEW t \in Clients,
             ClaimSlot(t) \/ RefuseSlot(t) \/ ReleaseSlot(t) \/ Record(t) \/ Unwind(t)
      PROVE  FundedInv'
  BY <1>1, QuietKeepsFunded DEF PlacesInv, ClaimSlot, RefuseSlot, ReleaseSlot, Record,
                                Unwind, Goto, Leave
<1>2. ASSUME NEW t \in Clients, NEW o, pc[t] = "calling", CallOver(t, o)
      PROVE  FundedInv'
  BY <1>2, QuietKeepsFunded DEF PlacesInv, CallOver, Goto
<1>3. ASSUME NEW t \in Clients, CallReturns(t)
      PROVE  FundedInv'
  BY <1>2, <1>3 DEF CallReturns, CallAttested, CallReplayed, CallUnverified, CallRaises
<1>4. ASSUME NEW t \in Clients, NEW ms \in Elapsed, CallInterrupted(t, ms)
      PROVE  FundedInv'
  BY <1>2, <1>4 DEF CallInterrupted
<1>5. ASSUME NEW t \in Clients, NEW u \in Usages, NEW r \in Receipts \ {Null},
             AttestedInterrupted(t, u, r)
      PROVE  FundedInv'
  BY <1>2, <1>5 DEF AttestedInterrupted
<1>6. ASSUME NEW t \in Clients, NEW s \in Ids, Admit(t, s)
      PROVE  FundedInv'
  BY <1>6, QuietKeepsFunded DEF PlacesInv, Admit, Goto
<1>7. CASE SnapshotReports \/ SnapshotLedger \/ Expire \/ UNCHANGED vars
  BY <1>7, QuietKeepsFunded DEF SnapshotReports, SnapshotLedger, Expire, vars, hostvars
<1>8. ASSUME NEW t \in Clients, Step(t)
      PROVE  FundedInv'
  BY <1>1, <1>3, <1>8, ReserveKeepsFunded, DispatchKeepsFunded, SettleKeepsFunded DEF Step
<1>9. ASSUME NEW t \in Clients, Interrupt(t)
      PROVE  FundedInv'
  BY <1>1, <1>4, <1>5, <1>9, ReserveKeepsFunded DEF Interrupt
<1>10. QED
  BY <1>6, <1>7, <1>8, <1>9 DEF Next

\* No slot is called twice, and none without a reservation in the ledger.
THEOREM CallsAreFunded == Spec => []OneFundedCallPerSlot
<1>1. HostInit => FundedInv
  BY DEF HostInit, FundedInv
<1>2. Spec => []LedgerInv
  BY HostIsLedgerUser, LedgerInvariant, PTL DEF HostUsesLedger
<1>3. Spec => []FundedInv
  BY <1>1, <1>2, PlacesInvariant, NextKeepsFunded, PTL DEF Spec
<1>4. FundedInv => OneFundedCallPerSlot
  BY DEF FundedInv, OneFundedCallPerSlot
<1>5. QED
  BY <1>3, <1>4, PTL

------------------------------------------------------------------------------
(* Reports, their events and their receipts.                               *)

\* What an attempt without a failure code has to show.
Earned(o) == o.failure = Null => o.status = "success" /\ o.receipt # Null

\* A report is the account of the event of its slot.
Accounts(report, s) ==
  /\ report.status = events[s].status /\ report.usage = events[s].charged
  /\ report.receipt = events[s].receipt
  /\ report.usable <=> report.failure = Null
  /\ Earned(report)
  /\ report.failure = Null => events[s].over_reserved = {} /\ events[s].over_ceiling = {}

(***************************************************************************)
(* A settled slot was called, is never given back, and leaves no overrun   *)
(* unflagged; a thread that still works on a slot has not settled it.      *)
(***************************************************************************)
SettledInv ==
  /\ \A s \in DOMAIN events :
       /\ s \in used_slots /\ calls[s] = 1
       /\ events[s].over_reserved # {} \/ events[s].over_ceiling # {} => breached
  /\ \A t \in Clients : Owning(t) /\ pc[t] # "recording" => slot[t] \notin DOMAIN events
  /\ \A t \in Clients : pc[t] \in {"calling", "settling", "recording"} => calls[slot[t]] = 1

\* Reports account for their events, and what is on its way to be one does too.
ReportedInv ==
  /\ \A s \in DOMAIN reports : s \in DOMAIN events /\ Accounts(reports[s], s)
  /\ \A t \in Clients : pc[t] = "settling" => Earned(outcome[t])
  /\ \A t \in Clients : pc[t] = "recording" =>
       /\ slot[t] \in DOMAIN events /\ slot[t] \notin DOMAIN reports
       /\ Accounts(Report(outcome[t]), slot[t])

Carrying(t) == pc[t] \in {"settling", "recording"}

\* A receipt is noted as seen before it is used, and one attempt uses it.
ReceiptsInv ==
  /\ \A s \in DOMAIN reports : reports[s].receipt \in receipts \cup {Null}
  /\ \A t \in Clients : Carrying(t) => outcome[t].receipt \in receipts \cup {Null}
  /\ \A s, r \in DOMAIN reports :
       s # r /\ reports[s].receipt # Null => reports[r].receipt # reports[s].receipt
  /\ \A t, u \in Clients :
       t # u /\ Carrying(t) /\ Carrying(u) /\ outcome[t].receipt # Null =>
         outcome[u].receipt # outcome[t].receipt
  /\ \A t \in Clients, s \in DOMAIN reports :
       Carrying(t) /\ outcome[t].receipt # Null => reports[s].receipt # outcome[t].receipt

\* No report is added while the host's lock is held for a snapshot, and an accepted
\* manifest leaves no slot to claim.
ManifestInv ==
  /\ snap # Null => snap = reports
  /\ manifest.accepted => AcceptedManifestIsExact /\ Ids \subseteq used_slots

\* The slots whose call is neither under way nor settled and reported.
Lost == {s \in Ids : /\ calls[s] = 1
                     /\ ~ \E t \in Clients : /\ slot[t] = s
                                             /\ pc[t] \in {"calling", "settling", "recording"}
                     /\ s \notin DOMAIN events \cap DOMAIN reports}

LostInv == interrupts \in Nat /\ Cardinality(Lost) <= interrupts

HostInv == /\ PlacesInv /\ FundedInv /\ LedgerInv
           /\ SettledInv /\ ReportedInv /\ ReceiptsInv /\ ManifestInv /\ LostInv
------------------------------------------------------------------------------
(* Steps before a call and after an attempt was given up.                  *)

\* A step of t leaves the other threads, and what a snapshot took, alone.
Alone(t) ==
  /\ \A u \in Clients \ {t} : pc'[u] = pc[u] /\ slot'[u] = slot[u] /\ outcome'[u] = outcome[u]
  /\ UNCHANGED <<snap, manifest>>

Early(t) ==
  \/ \E s \in Ids : Admit(t, s)
  \/ ClaimSlot(t) \/ RefuseSlot(t) \/ ReserveBudget(t) \/ ReserveFails(t)
  \/ ReserveInterrupted(t) \/ ReleaseSlot(t) \/ Unwind(t)

Underway == {"calling", "settling", "recording"}

\* They record nothing, and take no slot that is settled.
LEMMA EarlyEffects ==
  ASSUME HostInv, NEW t \in Clients, Early(t)
  PROVE  /\ Alone(t) /\ UNCHANGED <<events, calls, reports, receipts>>
         /\ breached => breached'
         /\ pc'[t] \notin Underway
         /\ Owning(t)' => slot'[t] \notin DOMAIN events
         /\ DOMAIN events \subseteq used_slots'
<1> USE DEF HostInv, PlacesInv, HostTypeOK, Underway, Alone, Owning
<1>0. /\ DOMAIN events \subseteq used_slots
      /\ Owning(t) /\ pc[t] # "recording" => slot[t] \notin DOMAIN events
  BY DEF SettledInv
<1>1. CASE \E s \in Ids : Admit(t, s)
  BY <1>0, <1>1 DEF Admit, Goto, lvars
<1>2. CASE ClaimSlot(t)
  BY <1>0, <1>2 DEF ClaimSlot, Claimable, Goto, lvars
<1>3. CASE RefuseSlot(t)
  BY <1>0, <1>3 DEF RefuseSlot, Leave, lvars
<1>4. CASE ReserveBudget(t)
  BY <1>0, <1>4 DEF ReserveBudget, Reserve, Goto
<1>5. CASE ReserveFails(t)
  BY <1>0, <1>5 DEF ReserveFails, Reject, Goto, lvars
<1>6. CASE ReserveInterrupted(t)
  BY <1>0, <1>6 DEF ReserveInterrupted, Reserve, Goto, lvars
<1>7. CASE ReleaseSlot(t)
  BY <1>0, <1>7 DEF ReleaseSlot, Leave, lvars
<1>8. CASE Unwind(t)
  BY <1>0, <1>8 DEF Unwind, Leave, lvars
<1>9. QED
  BY <1>1, <1>2, <1>3, <1>4, <1>5, <1>6, <1>7, <1>8 DEF Early

LEMMA EarlyKeepsRecords ==
  ASSUME HostInv, NEW t \in Clients, Early(t)
  PROVE  SettledInv' /\ ReportedInv' /\ ReceiptsInv'
<1>1. /\ \A u \in Clients \ {t} : pc'[u] = pc[u] /\ slot'[u] = slot[u] /\ outcome'[u] = outcome[u]
      /\ UNCHANGED <<events, calls, reports, receipts>> /\ (breached => breached')
      /\ pc'[t] \notin Underway
      /\ Owning(t)' => slot'[t] \notin DOMAIN events
      /\ DOMAIN events \subseteq used_slots'
  BY EarlyEffects DEF Alone
<1>2. SettledInv /\ ReportedInv /\ ReceiptsInv
  BY DEF HostInv
<1>3. SettledInv'
  BY <1>1, <1>2 DEF SettledInv, Owning, Underway
<1>4. ReportedInv'
  BY <1>1, <1>2 DEF ReportedInv, Accounts, Earned, Report, Underway
<1>5. ReceiptsInv'
  BY <1>1, <1>2 DEF ReceiptsInv, Carrying, Underway
<1>6. QED
  BY <1>3, <1>4, <1>5

\* An accepted manifest stands while threads only come and go.
LEMMA ManifestStands ==
  ASSUME HostInv, NEW t \in Clients, Alone(t), snap # Null => reports' = reports,
         \/ pc[t] \notin {"idle", "admitted"}
         \/ /\ pc'[t] \in {"idle", "admitted"}
            /\ UNCHANGED <<reports, calls, consumed, used_slots>>
  PROVE  ManifestInv'
<1>1. ManifestInv
  BY DEF HostInv
<1>2. UNCHANGED <<snap, manifest>> /\ \A u \in Clients \ {t} : pc'[u] = pc[u]
  BY DEF Alone
<1>3. snap' # Null => snap' = reports'
  BY <1>1, <1>2 DEF ManifestInv
<1>4. ASSUME manifest'.accepted
      PROVE  AcceptedManifestIsExact' /\ Ids \subseteq used_slots'
  <2>1. AcceptedManifestIsExact /\ Ids \subseteq used_slots /\ manifest.accepted
    BY <1>1, <1>2, <1>4 DEF ManifestInv
  <2>2. \A u \in Clients : pc[u] \in {"idle", "admitted"}
    BY <2>1 DEF AcceptedManifestIsExact
  <2>3. UNCHANGED <<reports, calls, consumed, used_slots>> /\ pc'[t] \in {"idle", "admitted"}
    BY <2>2
  <2>4. QED
    BY <1>2, <2>1, <2>2, <2>3 DEF AcceptedManifestIsExact
<1>5. QED
  BY <1>3, <1>4 DEF ManifestInv

LEMMA EarlyKeepsManifest ==
  ASSUME HostInv, NEW t \in Clients, Early(t)
  PROVE  ManifestInv'
<1>1. Alone(t) /\ UNCHANGED reports
  BY EarlyEffects
<1>2. CASE pc[t] \notin {"idle", "admitted"}
  BY <1>1, <1>2, ManifestStands
<1>3. CASE \E s \in Ids : Admit(t, s)
  BY <1>1, <1>3, ManifestStands DEF Admit, Goto, lvars, HostInv, PlacesInv, HostTypeOK
<1>4. CASE RefuseSlot(t)
  BY <1>1, <1>4, ManifestStands DEF RefuseSlot, Leave, lvars, HostInv, PlacesInv, HostTypeOK
<1>5. CASE ClaimSlot(t)
  <2>1. slot[t] \in Ids \ used_slots /\ ~ Ids \subseteq used_slots
    BY <1>5 DEF ClaimSlot, Claimable, HostInv, PlacesInv, HostTypeOK
  <2>2. ~manifest.accepted /\ manifest' = manifest /\ snap' = snap
    BY <1>1, <2>1 DEF HostInv, ManifestInv, Alone
  <2>3. QED
    BY <1>1, <2>2 DEF HostInv, ManifestInv
<1>6. QED
  BY <1>2, <1>3, <1>4, <1>5 DEF Early, ReserveBudget, ReserveFails, ReserveInterrupted,
                                 ReleaseSlot, Unwind

\* No call is lost by a step that leaves no call behind.
LEMMA NoneLost ==
  ASSUME LostInv, interrupts' \in Nat, interrupts' >= interrupts, Lost' \subseteq Lost
  PROVE  LostInv'
<1>1. IsFiniteSet(Lost)
  BY LedgerAssumption, FS_Subset DEF Lost
<1>2. Cardinality(Lost) \in Nat /\ Cardinality(Lost') <= Cardinality(Lost) /\ Cardinality(Lost') \in Nat
  BY <1>1, FS_Subset, FS_CardinalityType
<1>3. QED
  BY <1>2 DEF LostInv

LEMMA AtMostOneMore ==
  ASSUME NEW S, IsFiniteSet(S), NEW x
  PROVE  IsFiniteSet(S \cup {x}) /\ Cardinality(S \cup {x}) <= Cardinality(S) + 1
<1>1. Cardinality(S) \in Nat
  BY FS_CardinalityType
<1>2. /\ IsFiniteSet(S \cup {x})
      /\ Cardinality(S \cup {x}) = IF x \in S THEN Cardinality(S) ELSE Cardinality(S) + 1
  BY FS_AddElement
<1>3. QED
  BY <1>1, <1>2

\* An interrupt leaves at most the call of its thread behind.
LEMMA OneLost ==
  ASSUME LostInv, interrupts' = interrupts + 1, NEW s, Lost' \subseteq Lost \cup {s}
  PROVE  LostInv'
<1>1. PICK before, after : before = Lost /\ after = Lost'
  OBVIOUS
<1>2. IsFiniteSet(before) /\ after \subseteq before \cup {s}
  BY <1>1, LedgerAssumption, FS_Subset DEF Lost
<1>3. Cardinality(before) \in Nat
  BY <1>2, FS_CardinalityType
<1>4. IsFiniteSet(before \cup {s}) /\ Cardinality(before \cup {s}) <= Cardinality(before) + 1
  BY <1>2, AtMostOneMore
<1>5. /\ Cardinality(before \cup {s}) \in Nat /\ Cardinality(after) \in Nat
      /\ Cardinality(after) <= Cardinality(before \cup {s})
  BY <1>2, <1>4, FS_Subset, FS_CardinalityType
<1>6. QED
  BY <1>1, <1>3, <1>4, <1>5 DEF LostInv

LEMMA EarlyKeepsLost ==
  ASSUME HostInv, NEW t \in Clients, Early(t)
  PROVE  LostInv'
<1>1. /\ \A u \in Clients \ {t} : pc'[u] = pc[u] /\ slot'[u] = slot[u]
      /\ UNCHANGED <<events, calls, reports>>
  BY EarlyEffects DEF Alone
<1>2. LostInv
  BY DEF HostInv
<1>3. CASE Unwind(t)
  <2>1. Lost' \subseteq Lost \cup {slot[t]}
    BY <1>1 DEF Lost
  <2>2. QED
    BY <1>2, <1>3, <2>1, OneLost DEF Unwind
<1>4. CASE ~Unwind(t)
  <2>1. pc[t] \notin Underway
    BY <1>4 DEF Early, Admit, ClaimSlot, RefuseSlot, ReserveBudget, ReserveFails,
                ReserveInterrupted, ReleaseSlot, Underway
  <2>2. Lost' \subseteq Lost
    BY <1>1, <2>1 DEF Lost, Underway
  <2>3. interrupts' = interrupts \/ interrupts' = interrupts + 1
    BY <1>4 DEF Early, Admit, ClaimSlot, RefuseSlot, ReserveBudget, ReserveFails,
                ReserveInterrupted, ReleaseSlot
  <2>4. QED
    BY <1>2, <2>2, <2>3, NoneLost DEF LostInv
<1>5. QED
  BY <1>3, <1>4

------------------------------------------------------------------------------
(* The call and its end.                                                   *)

LEMMA DispatchKeepsRecords ==
  ASSUME HostInv, NEW t \in Clients, Dispatch(t)
  PROVE  SettledInv' /\ ReportedInv' /\ ReceiptsInv' /\ ManifestInv' /\ LostInv'
<1> USE DEF Underway
<1>1. /\ pc[t] = "reserved" /\ slot[t] \in Ids /\ calls[slot[t]] = 0 /\ calls \in [Ids -> 0..1]
      /\ pc \in [Clients -> Locations]
  BY DEF HostInv, PlacesInv, HostTypeOK, FundedInv, Dispatch
<1>2. /\ pc' = [pc EXCEPT ![t] = "calling"] /\ calls' = [calls EXCEPT ![slot[t]] = 1]
      /\ UNCHANGED <<lvars, slot, outcome, used_slots, receipts, reports, interrupts, snap, manifest>>
  BY <1>1 DEF Dispatch, Goto
<1>3. UNCHANGED <<events, breached>>
  BY <1>2 DEF lvars
<1>4. /\ \A u \in Clients : pc[u] \in Underway => slot[u] \in Ids /\ calls[slot[u]] = 1
      /\ \A s \in DOMAIN events : s \in Ids /\ calls[s] = 1
  BY DEF HostInv, PlacesInv, HostTypeOK, SettledInv
<1>5. SettledInv'
  BY <1>1, <1>2, <1>3, <1>4 DEF HostInv, SettledInv, Owning
<1>6. ReportedInv' /\ ReceiptsInv'
  BY <1>1, <1>2, <1>3 DEF HostInv, ReportedInv, Accounts, Earned, Report, ReceiptsInv, Carrying
<1>7. ManifestInv'
  BY <1>1, <1>2, ManifestStands DEF Alone
<1>8. Lost' \subseteq Lost
  BY <1>1, <1>2, <1>3 DEF Lost
<1>9. LostInv'
  BY <1>2, <1>8, NoneLost DEF HostInv, LostInv
<1>10. QED
  BY <1>5, <1>6, <1>7, <1>9

\* A call is over with a receipt that no other attempt carries, or with none.
LEMMA CallOverKeepsRecords ==
  ASSUME HostInv, NEW t \in Clients, NEW o \in Outcomes, pc[t] = "calling", CallOver(t, o),
         Earned(o), interrupts' = interrupts \/ interrupts' = interrupts + 1,
         receipts \subseteq receipts',
         o.receipt # Null => o.receipt \in receipts' \ receipts
  PROVE  SettledInv' /\ ReportedInv' /\ ReceiptsInv' /\ ManifestInv' /\ LostInv'
<1>1. slot[t] \in Ids /\ pc \in [Clients -> Locations] /\ outcome \in [Clients -> Outcomes \cup {Null}]
  BY DEF HostInv, PlacesInv, HostTypeOK
<1>2. /\ pc' = [pc EXCEPT ![t] = "settling"] /\ outcome' = [outcome EXCEPT ![t] = o]
      /\ UNCHANGED <<lvars, slot, used_slots, calls, reports, snap, manifest>>
  BY DEF CallOver, Goto
<1>3. UNCHANGED <<events, breached>>
  BY <1>2 DEF lvars
<1>4. SettledInv'
  BY <1>1, <1>2, <1>3 DEF HostInv, SettledInv, Owning
<1>5. ReportedInv'
  BY <1>1, <1>2, <1>3 DEF HostInv, ReportedInv, Accounts, Earned, Report
<1>6. ReceiptsInv'
  <2>1. ReceiptsInv
    BY DEF HostInv
  <2>2. \A u \in Clients \ {t} : outcome'[u] = outcome[u] /\ pc'[u] = pc[u]
    BY <1>1, <1>2
  <2>3. outcome'[t] = o /\ o.receipt \in receipts' \cup {Null}
    BY <1>1, <1>2
  <2>4. \A s \in DOMAIN reports : reports[s].receipt \in receipts \cup {Null}
    BY <2>1 DEF ReceiptsInv
  <2>5. \A u \in Clients \ {t} : Carrying(u)' => Carrying(u) /\ outcome[u].receipt \in receipts \cup {Null}
    BY <2>1, <2>2 DEF ReceiptsInv, Carrying
  <2>6. reports' = reports
    BY <1>2
  <2>7. \A s \in DOMAIN reports' : reports'[s].receipt \in receipts' \cup {Null}
    BY <2>4, <2>6
  <2>8. \A u \in Clients : Carrying(u)' => outcome'[u].receipt \in receipts' \cup {Null}
    BY <2>2, <2>3, <2>5
  <2>9. \A u, v \in Clients :
          u # v /\ Carrying(u)' /\ Carrying(v)' /\ outcome'[u].receipt # Null =>
            outcome'[v].receipt # outcome'[u].receipt
    BY <2>1, <2>2, <2>3, <2>5 DEF ReceiptsInv
  <2>10. \A u \in Clients, s \in DOMAIN reports' :
           Carrying(u)' /\ outcome'[u].receipt # Null => reports'[s].receipt # outcome'[u].receipt
    BY <2>1, <2>2, <2>3, <2>4, <2>5, <2>6 DEF ReceiptsInv
  <2>11. QED
    BY <2>1, <2>6, <2>7, <2>8, <2>9, <2>10 DEF ReceiptsInv
<1>7. ManifestInv'
  BY <1>1, <1>2, ManifestStands DEF Alone
<1>8. Lost' \subseteq Lost
  BY <1>1, <1>2, <1>3 DEF Lost
<1>9. LostInv'
  BY <1>8, NoneLost DEF HostInv, LostInv
<1>10. QED
  BY <1>4, <1>5, <1>6, <1>7, <1>9

LEMMA CallEndsKeepRecords ==
  ASSUME HostInv, NEW t \in Clients,
         \/ CallReturns(t)
         \/ \E ms \in Elapsed : CallInterrupted(t, ms)
         \/ \E u \in Usages, r \in Receipts \ {Null} : AttestedInterrupted(t, u, r)
  PROVE  SettledInv' /\ ReportedInv' /\ ReceiptsInv' /\ ManifestInv' /\ LostInv'
<1>1. /\ HostTypeOK /\ slot[t] \in Ids /\ pc[t] = "calling"
      /\ receipts \subseteq Receipts \ {Null}
  BY DEF HostInv, PlacesInv, HostTypeOK, CallReturns, CallAttested, CallReplayed,
         CallUnverified, CallRaises, CallInterrupted, AttestedInterrupted
<1>2. {"success", "refusal", "cancelled_after_call"} \subseteq Statuses /\ Null \notin Failures
  BY HostAssumption
<1>3. {"receipt_reused", "receipt_unverified", "host_interrupted", "refusal"} \subseteq Failures
  BY DEF Failures
<1>4. interrupts \in Nat
  BY DEF HostInv, LostInv
<1> DEFINE Ended == \E o \in Outcomes :
        /\ CallOver(t, o) /\ Earned(o)
        /\ interrupts' = interrupts \/ interrupts' = interrupts + 1
        /\ receipts \subseteq receipts'
        /\ o.receipt # Null => o.receipt \in receipts' \ receipts
<1>5. Ended
  <2>1. ASSUME NEW st \in {"success", "refusal"}, NEW u \in Usages,
               NEW r \in Receipts \ {Null}, CallAttested(t, st, u, r)
        PROVE  Ended
    BY <1>1, <1>2, <1>3, <2>1, OutcomesWellFormed DEF CallAttested, Earned
  <2>2. ASSUME NEW st \in {"success", "refusal"}, NEW ms \in Elapsed,
               NEW r \in Receipts \ {Null}, CallReplayed(t, st, ms, r)
        PROVE  Ended
    BY <1>1, <1>2, <1>3, <2>2, OutcomesWellFormed DEF CallReplayed, Earned
  <2>3. ASSUME NEW st \in {"success", "refusal"}, NEW ms \in Elapsed,
               CallUnverified(t, st, ms)
        PROVE  Ended
    BY <1>1, <1>2, <1>3, <2>3, OutcomesWellFormed DEF CallUnverified, Earned
  <2>4. ASSUME NEW st \in Statuses \cap DOMAIN Raised, NEW ms \in Elapsed,
               CallRaises(t, st, ms)
        PROVE  Ended
    BY <1>1, <1>2, <2>4, OutcomesWellFormed DEF CallRaises, Earned
  <2>5. ASSUME NEW ms \in Elapsed, CallInterrupted(t, ms)
        PROVE  Ended
    BY <1>1, <1>2, <1>3, <2>5, OutcomesWellFormed DEF CallInterrupted, Earned
  <2>6. ASSUME NEW u \in Usages, NEW r \in Receipts \ {Null}, AttestedInterrupted(t, u, r)
        PROVE  Ended
    BY <1>1, <1>2, <1>3, <2>6, OutcomesWellFormed DEF AttestedInterrupted, Earned
  <2>7. QED
    BY <2>1, <2>2, <2>3, <2>4, <2>5, <2>6 DEF CallReturns
<1>6. QED
  BY <1>1, <1>5, CallOverKeepsRecords

------------------------------------------------------------------------------
(* Settlement, the report and the snapshot.                                *)

LEMMA SettleKeepsRecords ==
  ASSUME HostInv, NEW t \in Clients, SettleAttempt(t)
  PROVE  SettledInv' /\ ReportedInv' /\ ReceiptsInv' /\ ManifestInv' /\ LostInv'
<1>1. PICK s, o : s = slot[t] /\ o = outcome[t]
  OBVIOUS
<1>2. /\ pc[t] = "settling" /\ s \in Ids /\ o \in Outcomes
      /\ pc \in [Clients -> Locations] /\ outcome \in [Clients -> Outcomes \cup {Null}]
      /\ s \in used_slots /\ calls[s] = 1 /\ s \notin DOMAIN events /\ Earned(o)
  BY <1>1 DEF SettleAttempt, HostInv, PlacesInv, HostTypeOK, Ownership, Owning, SettledInv, ReportedInv
<1>3. \A u \in Clients \ {t} : Owning(u) => slot[u] # s
  BY <1>1, <1>2 DEF HostInv, PlacesInv, Ownership, Owning
<1>4. /\ UNCHANGED <<slot, used_slots, calls, reports, receipts, interrupts, snap, manifest>>
      /\ pc' = [pc EXCEPT ![t] = "recording"]
      /\ outcome' = [outcome EXCEPT ![t].failure = VerdictOf(t)]
  BY DEF SettleAttempt, Goto
<1>5. PICK v : v = VerdictOf(t)
  OBVIOUS
<1>6. PICK o2 : o2 = [o EXCEPT !.failure = v]
  OBVIOUS
<1>7. outcome'[t] = o2 /\ \A u \in Clients \ {t} : outcome'[u] = outcome[u] /\ pc'[u] = pc[u]
  BY <1>1, <1>2, <1>4, <1>5, <1>6
<1>8. PICK e : /\ e.status = o.status /\ e.charged = o.charged /\ e.receipt = o.receipt
               /\ e.over_reserved = OverReserved(s, o.charged)
               /\ e.over_ceiling = OverCeiling(o.charged)
               /\ events' = Assign(events, s, e)
  BY <1>1 DEF SettleAttempt, Settle
<1>9. breached' = (breached \/ BreachedBy(s, o.charged))
  BY <1>1 DEF SettleAttempt, Settle
<1>10. /\ DOMAIN events' = DOMAIN events \cup {s} /\ events'[s] = e
       /\ \A r \in DOMAIN events : events'[r] = events[r]
  BY <1>2, <1>8 DEF Assign
<1>11. /\ o2.status = o.status /\ o2.charged = o.charged /\ o2.receipt = o.receipt /\ o2.failure = v
       /\ Earned(o2)
       /\ v = Null => e.over_reserved = {} /\ e.over_ceiling = {}
  <2>1. v = IF BreachedBy(s, o.charged) THEN "budget_breach" ELSE o.failure
    BY <1>1, <1>5 DEF VerdictOf
  <2>2. "budget_breach" # Null
    BY HostAssumption DEF Failures
  <2>3. o2.status = o.status /\ o2.charged = o.charged /\ o2.receipt = o.receipt /\ o2.failure = v
    BY <1>2, <1>6 DEF Outcomes
  <2>4. v = Null => o.failure = Null /\ ~BreachedBy(s, o.charged)
    BY <2>1, <2>2
  <2>5. QED
    BY <1>2, <1>8, <2>3, <2>4 DEF Earned, BreachedBy
<1>12. SettledInv'
  <2>1. \A r \in DOMAIN events' :
          /\ r \in used_slots' /\ calls'[r] = 1
          /\ events'[r].over_reserved # {} \/ events'[r].over_ceiling # {} => breached'
    BY <1>2, <1>4, <1>8, <1>9, <1>10 DEF HostInv, SettledInv, BreachedBy
  <2>2. \A u \in Clients : Owning(u)' /\ pc'[u] # "recording" => slot'[u] \notin DOMAIN events'
    BY <1>2, <1>3, <1>4, <1>7, <1>10 DEF HostInv, SettledInv, Owning
  <2>3. \A u \in Clients : pc'[u] \in {"calling", "settling", "recording"} => calls'[slot'[u]] = 1
    BY <1>1, <1>2, <1>4, <1>7 DEF HostInv, SettledInv
  <2>4. QED
    BY <2>1, <2>2, <2>3 DEF SettledInv
<1>13. ReportedInv'
  <2>1. ReportedInv
    BY DEF HostInv
  <2>2. \A r \in DOMAIN reports' : r \in DOMAIN events' /\ Accounts(reports[r], r)'
    BY <1>4, <1>10, <2>1 DEF ReportedInv, Accounts, Earned
  <2>3. \A u \in Clients : pc'[u] = "settling" => Earned(outcome[u])'
    BY <1>2, <1>4, <1>7, <2>1 DEF ReportedInv, Earned
  <2>4. ASSUME NEW u \in Clients, pc'[u] = "recording"
        PROVE  /\ slot'[u] \in DOMAIN events' /\ slot'[u] \notin DOMAIN reports'
               /\ Accounts(Report(outcome[u]), slot[u])'
    <3>1. CASE u = t
      <4>1. s \notin DOMAIN reports
        BY <1>2, <2>1 DEF ReportedInv
      <4>2. PICK report : report = Report(o2)
        OBVIOUS
      <4>3. /\ report.status = o2.status /\ report.usage = o2.charged /\ report.receipt = o2.receipt
            /\ report.failure = o2.failure
            /\ report.usable = (o2.failure = Null /\ o2.status = "success")
        BY <4>2 DEF Report
      <4>4. Earned(report)
        BY <1>11, <4>3 DEF Earned
      <4>5. /\ report.status = e.status /\ report.usage = e.charged /\ report.receipt = e.receipt
            /\ report.usable <=> report.failure = Null
            /\ report.failure = Null => e.over_reserved = {} /\ e.over_ceiling = {}
        BY <1>8, <1>11, <4>3 DEF Earned
      <4>6. Report(outcome[u])' = report /\ slot'[u] = s
        BY <1>1, <1>4, <1>7, <3>1, <4>2 DEF Report
      <4>7. Accounts(Report(outcome[u]), slot[u])'
        BY <1>10, <4>4, <4>5, <4>6 DEF Accounts, Earned
      <4>8. QED
        BY <1>4, <1>10, <4>1, <4>6, <4>7
    <3>2. CASE u # t
      BY <1>3, <1>4, <1>7, <1>10, <2>1, <2>4, <3>2 DEF ReportedInv, Accounts, Earned, Report
    <3>3. QED
      BY <3>1, <3>2
  <2>5. QED
    BY <2>2, <2>3, <2>4 DEF ReportedInv
<1>14. ReceiptsInv'
  <2>1. /\ \A u \in Clients : outcome'[u].receipt = outcome[u].receipt
        /\ \A u \in Clients : Carrying(u)' <=> Carrying(u)
    BY <1>1, <1>2, <1>4, <1>7, <1>11 DEF Carrying
  <2>2. QED
    BY <1>4, <2>1 DEF HostInv, ReceiptsInv
<1>15. ManifestInv'
  BY <1>2, <1>4, <1>7, ManifestStands DEF Alone
<1>16. Lost' \subseteq Lost
  BY <1>2, <1>4, <1>10 DEF Lost
<1>17. LostInv'
  BY <1>4, <1>16, NoneLost DEF HostInv, LostInv
<1>18. QED
  BY <1>12, <1>13, <1>14, <1>15, <1>17

LEMMA RecordKeepsRecords ==
  ASSUME HostInv, NEW t \in Clients, Record(t)
  PROVE  SettledInv' /\ ReportedInv' /\ ReceiptsInv' /\ ManifestInv' /\ LostInv'
<1>1. PICK s, o : s = slot[t] /\ o = outcome[t]
  OBVIOUS
<1>2. PICK report : report = Report(o)
  OBVIOUS
<1>3. /\ pc[t] = "recording" /\ snap = Null /\ s \in Ids
      /\ pc \in [Clients -> Locations] /\ slot \in [Clients -> Ids \cup {Null}]
      /\ outcome \in [Clients -> Outcomes \cup {Null}]
  BY <1>1 DEF Record, HostUnlocked, HostInv, PlacesInv, HostTypeOK
<1>4. \A u \in Clients \ {t} : Owning(u) => slot[u] # s
  BY <1>1, <1>3 DEF HostInv, PlacesInv, Ownership, Owning
<1>5. /\ UNCHANGED <<used_slots, calls, receipts, interrupts, snap, manifest, events, breached>>
      /\ reports' = Assign(reports, s, report)
      /\ pc'[t] = "idle"
      /\ \A u \in Clients \ {t} : pc'[u] = pc[u] /\ slot'[u] = slot[u] /\ outcome'[u] = outcome[u]
  BY <1>1, <1>2, <1>3 DEF Record, Leave, lvars
<1>6. /\ DOMAIN reports' = DOMAIN reports \cup {s} /\ reports'[s] = report
      /\ \A r \in DOMAIN reports \ {s} : reports'[r] = reports[r]
  BY <1>5 DEF Assign
<1>7. /\ s \in DOMAIN events /\ s \notin DOMAIN reports /\ Accounts(report, s)
      /\ report.receipt = o.receipt
  BY <1>1, <1>2, <1>3 DEF HostInv, ReportedInv, Report
<1>8. SettledInv'
  BY <1>5 DEF HostInv, SettledInv, Owning
<1>9. ReportedInv'
  <2>1. ReportedInv
    BY DEF HostInv
  <2>2. ASSUME NEW r \in DOMAIN reports'
        PROVE  r \in DOMAIN events' /\ Accounts(reports[r], r)'
    <3>1. CASE r = s
      BY <1>5, <1>6, <1>7, <3>1 DEF Accounts, Earned
    <3>2. CASE r # s
      BY <1>5, <1>6, <2>1, <3>2 DEF ReportedInv, Accounts, Earned
    <3>3. QED
      BY <3>1, <3>2
  <2>3. \A u \in Clients : pc'[u] = "settling" => Earned(outcome[u])'
    BY <1>5, <2>1 DEF ReportedInv, Earned
  <2>4. ASSUME NEW u \in Clients, pc'[u] = "recording"
        PROVE  /\ slot'[u] \in DOMAIN events' /\ slot'[u] \notin DOMAIN reports'
               /\ Accounts(Report(outcome[u]), slot[u])'
    <3>1. u # t /\ slot[u] # s /\ pc[u] = "recording"
      BY <1>4, <1>5, <2>4 DEF Owning
    <3>2. QED
      BY <1>5, <1>6, <2>1, <3>1 DEF ReportedInv, Accounts, Earned, Report
  <2>5. QED
    BY <2>2, <2>3, <2>4 DEF ReportedInv
<1>10. ReceiptsInv'
  <2>1. ReceiptsInv /\ Carrying(t)
    BY <1>3 DEF HostInv, Carrying
  <2>2. \A u \in Clients : Carrying(u)' => u # t /\ Carrying(u) /\ outcome'[u] = outcome[u]
    BY <1>5 DEF Carrying
  <2>3. ASSUME NEW r \in DOMAIN reports'
        PROVE  \/ r = s /\ reports'[r].receipt = outcome[t].receipt
               \/ r # s /\ r \in DOMAIN reports /\ reports'[r] = reports[r]
    <3>1. CASE r = s
      <4>1. reports'[r] = report
        BY <1>6, <3>1
      <4>2. QED
        BY <1>1, <1>7, <3>1, <4>1
    <3>2. CASE r # s
      BY <1>6, <3>2
    <3>3. QED
      BY <3>1, <3>2
  <2>4. \A r \in DOMAIN reports' : reports'[r].receipt \in receipts' \cup {Null}
    BY <1>5, <2>1, <2>3 DEF ReceiptsInv
  <2>5. \A u \in Clients : Carrying(u)' => outcome'[u].receipt \in receipts' \cup {Null}
    BY <1>5, <2>1, <2>2 DEF ReceiptsInv
  <2>6. \A r, q \in DOMAIN reports' :
          q # r /\ reports'[q].receipt # Null => reports'[r].receipt # reports'[q].receipt
    BY <2>1, <2>3 DEF ReceiptsInv
  <2>7. \A u, v \in Clients :
          u # v /\ Carrying(u)' /\ Carrying(v)' /\ outcome'[u].receipt # Null =>
            outcome'[v].receipt # outcome'[u].receipt
    BY <2>1, <2>2 DEF ReceiptsInv
  <2>8. \A u \in Clients, r \in DOMAIN reports' :
          Carrying(u)' /\ outcome'[u].receipt # Null => reports'[r].receipt # outcome'[u].receipt
    BY <2>1, <2>2, <2>3 DEF ReceiptsInv
  <2>9. QED
    BY <2>4, <2>5, <2>6, <2>7, <2>8 DEF ReceiptsInv
<1>11. ManifestInv'
  BY <1>3, <1>5, ManifestStands DEF Alone
<1>12. Lost' \subseteq Lost
  BY <1>1, <1>3, <1>5, <1>6, <1>7 DEF Lost
<1>13. LostInv'
  BY <1>5, <1>12, NoneLost DEF HostInv, LostInv
<1>14. QED
  BY <1>8, <1>9, <1>10, <1>11, <1>13

\* The snapshot's halves, and the end of the evidence window.
LEMMA SnapshotKeepsRecords ==
  ASSUME HostInv, SnapshotReports \/ Expire \/ UNCHANGED vars
  PROVE  SettledInv' /\ ReportedInv' /\ ReceiptsInv' /\ ManifestInv' /\ LostInv'
<1>1. /\ UNCHANGED <<pc, slot, outcome, used_slots, calls, reports, receipts, interrupts, manifest>>
      /\ UNCHANGED <<events, breached, consumed>>
      /\ snap' = snap \/ snap' = reports
  BY DEF SnapshotReports, Expire, vars, hostvars, lvars
<1>2. SettledInv' /\ ReportedInv' /\ ReceiptsInv'
  BY <1>1 DEF HostInv, SettledInv, ReportedInv, ReceiptsInv, Owning, Accounts, Earned, Report, Carrying
<1>3. ManifestInv'
  BY <1>1 DEF HostInv, ManifestInv, AcceptedManifestIsExact
<1>4. LostInv'
  BY <1>1 DEF HostInv, LostInv, Lost
<1>5. QED
  BY <1>2, <1>3, <1>4

\* Reports that cover the schedule leave nothing under way.
LEMMA CoveredIsOver ==
  ASSUME HostInv, DOMAIN reports = Ids
  PROVE  /\ DOMAIN events = Ids /\ Ids \subseteq used_slots /\ \A s \in Ids : calls[s] = 1
         /\ \A t \in Clients : pc[t] \in {"idle", "admitted"}
<1>1. Ids \subseteq DOMAIN events /\ DOMAIN events \subseteq used_slots /\ used_slots \subseteq Ids
  BY DEF HostInv, ReportedInv, SettledInv, PlacesInv, HostTypeOK
<1>2. \A t \in Clients : ~Owning(t)
  BY <1>1 DEF HostInv, ReportedInv, SettledInv, PlacesInv, HostTypeOK, Owning
<1>3. QED
  BY <1>1, <1>2 DEF HostInv, SettledInv, Owning

LEMMA LedgerSnapshotKeepsRecords ==
  ASSUME HostInv, SnapshotLedger
  PROVE  SettledInv' /\ ReportedInv' /\ ReceiptsInv' /\ ManifestInv' /\ LostInv'
<1>1. /\ UNCHANGED <<pc, slot, outcome, used_slots, calls, reports, receipts, interrupts>>
      /\ UNCHANGED <<events, breached, consumed>> /\ snap' = Null
      /\ manifest' = IF ManifestComplete(snap) THEN [accepted |-> TRUE, reports |-> snap]
                     ELSE [manifest EXCEPT !.accepted = FALSE]
  BY DEF SnapshotLedger, lvars
<1>2. SettledInv' /\ ReportedInv' /\ ReceiptsInv'
  BY <1>1 DEF HostInv, SettledInv, ReportedInv, ReceiptsInv, Owning, Accounts, Earned, Report, Carrying
<1>3. ManifestInv'
  <2>1. snap = reports
    BY DEF HostInv, ManifestInv, SnapshotLedger, HostUnlocked
  <2>2. CASE ManifestComplete(snap)
    <3>1. DOMAIN reports = Ids /\ \A a \in Axes : consumed[a] <= Ceilings[a]
      BY <2>1, <2>2 DEF ManifestComplete, TerminalLedger
    <3>2. manifest'.accepted = TRUE /\ manifest'.reports = reports
      BY <1>1, <2>1, <2>2
    <3>3. QED
      BY <1>1, <3>1, <3>2, CoveredIsOver DEF ManifestInv, AcceptedManifestIsExact
  <2>3. CASE ~ManifestComplete(snap)
    <3>1. manifest'.accepted = FALSE
      BY <1>1, <2>3
    <3>2. QED
      BY <1>1, <3>1 DEF ManifestInv
  <2>4. QED
    BY <2>2, <2>3
<1>4. LostInv'
  BY <1>1 DEF HostInv, LostInv, Lost
<1>5. QED
  BY <1>2, <1>3, <1>4

LEMMA HostInvInit == HostInit => HostInv
<1> SUFFICES ASSUME HostInit PROVE HostInv
  OBVIOUS
<1>1. /\ DOMAIN events = {} /\ DOMAIN reports = {} /\ \A t \in Clients : pc[t] = "idle"
      /\ snap = Null /\ manifest.accepted = FALSE /\ interrupts = 0 /\ \A s \in Ids : calls[s] = 0
  BY DEF HostInit, LedgerInit
<1>2. PlacesInv /\ FundedInv /\ LedgerInv
  BY InitPlaces, InitInv DEF HostInit, FundedInv
<1>3. SettledInv /\ ReportedInv /\ ReceiptsInv /\ ManifestInv
  BY <1>1 DEF SettledInv, ReportedInv, ReceiptsInv, ManifestInv, Owning, Carrying
<1>4. Lost = {}
  BY <1>1 DEF Lost
<1>5. LostInv
  BY <1>1, <1>4, FS_EmptySet DEF LostInv
<1>6. QED
  BY <1>2, <1>3, <1>5 DEF HostInv

LEMMA HostInvStep == HostInv /\ [Next]_vars => HostInv'
<1> SUFFICES ASSUME HostInv, [Next]_vars PROVE HostInv'
  OBVIOUS
<1>1. PlacesInv' /\ FundedInv' /\ LedgerInv'
  BY NextKeepsPlaces, NextKeepsFunded, StepsUseLedger, NextKeepsInv DEF HostInv
<1>2. ASSUME NEW t \in Clients, Early(t)
      PROVE  SettledInv' /\ ReportedInv' /\ ReceiptsInv' /\ ManifestInv' /\ LostInv'
  BY <1>2, EarlyKeepsRecords, EarlyKeepsManifest, EarlyKeepsLost
<1>3. SettledInv' /\ ReportedInv' /\ ReceiptsInv' /\ ManifestInv' /\ LostInv'
  <2>1. ASSUME NEW t \in Clients, Step(t)
        PROVE  SettledInv' /\ ReportedInv' /\ ReceiptsInv' /\ ManifestInv' /\ LostInv'
    BY <1>2, <2>1, DispatchKeepsRecords, CallEndsKeepRecords, SettleKeepsRecords,
       RecordKeepsRecords DEF Step, Early
  <2>2. ASSUME NEW t \in Clients, Interrupt(t)
        PROVE  SettledInv' /\ ReportedInv' /\ ReceiptsInv' /\ ManifestInv' /\ LostInv'
    BY <1>2, <2>2, CallEndsKeepRecords DEF Interrupt, Early
  <2>3. ASSUME NEW t \in Clients, NEW s \in Ids, Admit(t, s)
        PROVE  SettledInv' /\ ReportedInv' /\ ReceiptsInv' /\ ManifestInv' /\ LostInv'
    BY <1>2, <2>3 DEF Early
  <2>4. QED
    BY <2>1, <2>2, <2>3, SnapshotKeepsRecords, LedgerSnapshotKeepsRecords DEF Next
<1>4. QED
  BY <1>1, <1>3 DEF HostInv

(***************************************************************************)
(* Reports account for events, receipts are carried once, and what is lost *)
(* was interrupted, in every behaviour of the host.                        *)
(***************************************************************************)
THEOREM HostInvariant == Spec => []HostInv
<1>1. QED
  BY HostInvInit, HostInvStep, PTL DEF Spec

\* A released output is from a successful attempt inside its reservation, on a
\* receipt no other report carries.
THEOREM ReleasesAreAttested == Spec => []UsableIsAttested
<1>1. HostInv => UsableIsAttested
  BY DEF HostInv, ReportedInv, ReceiptsInv, Accounts, Earned, UsableIsAttested
<1>2. QED
  BY <1>1, HostInvariant, PTL

\* An accepted manifest is the whole truth about the host, and stays it.
THEOREM ManifestsAreExact == Spec => []AcceptedManifestIsExact
<1>1. HostInv => AcceptedManifestIsExact
  BY DEF HostInv, ManifestInv, AcceptedManifestIsExact
<1>2. QED
  BY <1>1, HostInvariant, PTL

LEMMA CompleteOfInv == HostInv => CompleteSnapshotIsAccepted
<1> SUFFICES ASSUME HostInv, snap # Null, DOMAIN snap = Ids, ~breached
             PROVE  ManifestComplete(snap)
  BY DEF CompleteSnapshotIsAccepted
<1>1. snap = reports /\ DOMAIN reports = Ids
  BY DEF HostInv, ManifestInv
<1>2. DOMAIN events = Ids
  BY <1>1, CoveredIsOver
<1>3. LedgerInv
  BY DEF HostInv
<1>4. /\ DOMAIN reservations = {} /\ pre_call_cancellations = {} /\ DOMAIN rejections = {}
  BY <1>2, <1>3 DEF LedgerInv, OneDispositionPerId, LedgerTypeOK
<1>5. \A s \in Ids : /\ Accounts(reports[s], s)
                     /\ events[s].over_reserved = {} /\ events[s].over_ceiling = {}
  BY <1>1, <1>2 DEF HostInv, ReportedInv, SettledInv
<1>6. \A s \in Ids : EventMatches(s, reports[s]) /\ ValidReport(reports[s])
  BY <1>5 DEF Accounts, Earned, EventMatches, ValidReport
<1>7. ASSUME NEW a \in Axes
      PROVE  consumed[a] = Total(Usage(reports, a), DOMAIN reports) /\ consumed[a] <= Ceilings[a]
  <2>1. Usage(reports, a) = Charged(a)
    BY <1>1, <1>2, <1>5 DEF Usage, Charged, Accounts
  <2>2. consumed[a] = Total(Charged(a), DOMAIN events)
    BY <1>3 DEF LedgerInv, ConsumedIsCharged
  <2>3. consumed[a] + Active(a) <= Ceilings[a] /\ consumed[a] \in Nat
    BY <1>3 DEF LedgerInv, CeilingRespected, LedgerTypeOK
  <2>4. Active(a) \in Nat
    BY <1>3, ActiveNat DEF LedgerInv
  <2>5. Ceilings[a] \in Nat
    BY LedgerAssumption
  <2>6. QED
    BY <1>1, <1>2, <2>1, <2>2, <2>3, <2>4, <2>5
<1>8. TerminalLedger(reports)
  BY <1>1, <1>2, <1>4, <1>6, <1>7 DEF TerminalLedger
<1>9. QED
  BY <1>1, <1>6, <1>8 DEF ManifestComplete

\* Whenever the schedule is reported and the budget held, the manifest is accepted.
THEOREM CompleteIsAccepted == Spec => []CompleteSnapshotIsAccepted
<1>1. QED
  BY CompleteOfInv, HostInvariant, PTL

\* Each interrupt leaves at most one call without its settlement and report.
THEOREM InterruptsBoundLosses == Spec => []OnlyInterruptsLoseCalls
<1>1. HostInv => OnlyInterruptsLoseCalls
  BY DEF HostInv, LostInv, Lost, OnlyInterruptsLoseCalls
<1>2. QED
  BY <1>1, HostInvariant, PTL

------------------------------------------------------------------------------
(* The host keeps what AttemptOnce promises.                               *)

\* A schedule is sealed with every slot answered within the limits.
SealedInv ==
  /\ manifest.accepted \in BOOLEAN
  /\ manifest.accepted => \A s \in Ids : Charges[s] = "within" /\ Answers[s] # "none"

Unseen == UNCHANGED <<calls, events, reports, manifest>>

\* The steps that AttemptOnce sees.
LEMMA SeenSteps ==
  ASSUME HostInv, [Next]_vars
  PROVE  \/ Unseen \/ SnapshotLedger
         \/ \E t \in Clients : Dispatch(t) \/ SettleAttempt(t) \/ Record(t)
<1>1. ASSUME NEW t \in Clients, Early(t) PROVE Unseen
  BY <1>1, EarlyEffects DEF Unseen, Alone
<1>2. ASSUME NEW t \in Clients, NEW o, CallOver(t, o) PROVE Unseen
  BY <1>2 DEF CallOver, lvars, Unseen
<1>3. ASSUME NEW t \in Clients, CallReturns(t) PROVE Unseen
  BY <1>2, <1>3 DEF CallReturns, CallAttested, CallReplayed, CallUnverified, CallRaises
<1>4. ASSUME NEW t \in Clients, Interrupt(t) PROVE Unseen
  BY <1>1, <1>2, <1>4 DEF Interrupt, Early, CallInterrupted, AttestedInterrupted
<1>5. CASE SnapshotReports \/ Expire \/ UNCHANGED vars
  BY <1>5 DEF SnapshotReports, Expire, vars, hostvars, lvars, Unseen
<1>6. ASSUME NEW t \in Clients, Step(t)
      PROVE  Unseen \/ Dispatch(t) \/ SettleAttempt(t) \/ Record(t)
  BY <1>1, <1>3, <1>6 DEF Step, Early
<1>7. ASSUME NEW t \in Clients, NEW s \in Ids, Admit(t, s) PROVE Unseen
  BY <1>1, <1>7 DEF Early
<1>8. QED
  BY <1>4, <1>5, <1>6, <1>7 DEF Next

LEMMA DispatchIsCall ==
  ASSUME HostInv, NEW t \in Clients, Dispatch(t)
  PROVE  \E s \in Ids : Attempts!Call(s)
<1>1. slot[t] \in Ids /\ calls[slot[t]] = 0
  BY DEF HostInv, PlacesInv, HostTypeOK, FundedInv, Dispatch
<1>2. /\ calls' = [calls EXCEPT ![slot[t]] = 1]
      /\ UNCHANGED <<events, reports, manifest>>
  BY <1>1 DEF Dispatch, lvars
<1>3. Charges' = Charges /\ Answers' = Answers
  BY <1>2 DEF Charges, Answers
<1>4. Attempts!Call(slot[t])
  BY <1>1, <1>2, <1>3 DEF Attempts!Call
<1>5. QED
  BY <1>1, <1>4

LEMMA SettleIsAccount ==
  ASSUME HostInv, NEW t \in Clients, SettleAttempt(t)
  PROVE  \E s \in Ids, c \in {"within", "over"} : Attempts!Account(s, c)
<1>1. PICK s : s = slot[t]
  OBVIOUS
<1>2. s \in Ids /\ calls[s] = 1 /\ s \notin DOMAIN events
  BY <1>1 DEF HostInv, PlacesInv, HostTypeOK, SettledInv, Owning, SettleAttempt
<1>3. UNCHANGED <<calls, reports, manifest>>
  BY DEF SettleAttempt
<1>4. PICK e : events' = Assign(events, s, e)
  BY <1>1 DEF SettleAttempt, Settle
<1>5. /\ DOMAIN events' = DOMAIN events \cup {s}
      /\ \A r \in DOMAIN events : events'[r] = events[r]
  BY <1>2, <1>4 DEF Assign
<1>6. \A r \in Ids \ {s} : Charges'[r] = Charges[r]
  BY <1>5 DEF Charges
<1>7. PICK c : c = Charges'[s]
  OBVIOUS
<1>8. Charges[s] = "none" /\ c \in {"within", "over"}
  BY <1>2, <1>5, <1>7 DEF Charges
<1>9. Charges = [r \in Ids |-> Charges[r]] /\ Charges' = [r \in Ids |-> Charges'[r]]
  BY DEF Charges
<1>10. Charges' = [Charges EXCEPT ![s] = c]
  BY <1>6, <1>7, <1>9
<1>11. Answers' = Answers
  BY <1>3 DEF Answers
<1>12. Attempts!Account(s, c)
  BY <1>2, <1>3, <1>8, <1>10, <1>11 DEF Attempts!Account
<1>13. QED
  BY <1>2, <1>8, <1>12

LEMMA RecordIsAnswer ==
  ASSUME HostInv, NEW t \in Clients, Record(t)
  PROVE  \E s \in Ids, a \in {"released", "withheld"} : Attempts!Answer(s, a)
<1>1. PICK s, report : s = slot[t] /\ report = Report(outcome[t])
  OBVIOUS
<1>2. /\ s \in Ids /\ s \in DOMAIN events /\ s \notin DOMAIN reports /\ Accounts(report, s)
  BY <1>1 DEF HostInv, PlacesInv, HostTypeOK, ReportedInv, Record
<1>3. UNCHANGED <<calls, events, manifest>> /\ reports' = Assign(reports, s, report)
  BY <1>1 DEF Record, lvars
<1>4. /\ DOMAIN reports' = DOMAIN reports \cup {s} /\ reports'[s] = report
      /\ \A r \in DOMAIN reports \ {s} : reports'[r] = reports[r]
  BY <1>3 DEF Assign
<1>5. \A r \in Ids \ {s} : Answers'[r] = Answers[r]
  BY <1>4 DEF Answers
<1>6. PICK a : a = Answers'[s]
  OBVIOUS
<1>7. Answers[s] = "none" /\ a = IF report.usable THEN "released" ELSE "withheld"
  BY <1>2, <1>4, <1>6 DEF Answers
<1>8. Charges[s] # "none" /\ (report.usable => Charges[s] = "within")
  BY <1>2 DEF Charges, Accounts
<1>9. a \in {"released", "withheld"} /\ (a = "released" => Charges[s] = "within")
  BY <1>7, <1>8
<1>10. Answers = [r \in Ids |-> Answers[r]] /\ Answers' = [r \in Ids |-> Answers'[r]]
  BY DEF Answers
<1>11. Answers' = [Answers EXCEPT ![s] = a]
  BY <1>5, <1>6, <1>10
<1>12. Charges' = Charges
  BY <1>3 DEF Charges
<1>13. Attempts!Answer(s, a)
  BY <1>3, <1>7, <1>8, <1>9, <1>11, <1>12 DEF Attempts!Answer
<1>14. QED
  BY <1>2, <1>9, <1>13

\* A sealed schedule leaves nothing that could have breached the ledger.
LEMMA SealedIsSound ==
  ASSUME HostInv, SealedInv, manifest.accepted
  PROVE  ~breached /\ DOMAIN reports = Ids
<1>1. \A s \in Ids : /\ s \in DOMAIN events /\ s \in DOMAIN reports
                     /\ events[s].over_reserved = {} /\ events[s].over_ceiling = {}
  BY DEF SealedInv, Charges, Answers
<1>2. DOMAIN reports = Ids
  BY <1>1 DEF HostInv, PlacesInv, HostTypeOK
<1>3. LedgerInv
  BY DEF HostInv
<1>4. DOMAIN rejections = {}
  BY <1>1, <1>3 DEF LedgerInv, OneDispositionPerId, LedgerTypeOK
<1>5. DOMAIN events \subseteq Ids
  BY DEF HostInv, SettledInv, PlacesInv, HostTypeOK
<1>6. ~breached
  BY <1>1, <1>3, <1>4, <1>5 DEF LedgerInv, BreachHasEvidence
<1>7. QED
  BY <1>2, <1>6

LEMMA SnapshotIsSeal ==
  ASSUME HostInv, SealedInv, SnapshotLedger
  PROVE  Attempts!Seal \/ UNCHANGED Attempts!avars
<1>1. /\ UNCHANGED <<calls, events, reports>>
      /\ manifest' = IF ManifestComplete(snap) THEN [accepted |-> TRUE, reports |-> snap]
                     ELSE [manifest EXCEPT !.accepted = FALSE]
  BY DEF SnapshotLedger, lvars
<1>2. snap # Null /\ snap = reports
  BY DEF HostInv, ManifestInv, SnapshotLedger, HostUnlocked
<1>3. Charges' = Charges /\ Answers' = Answers
  BY <1>1 DEF Charges, Answers
<1>4. CASE ManifestComplete(snap)
  <2>1. \A s \in Ids : s \in DOMAIN reports /\ s \in DOMAIN events /\ EventMatches(s, reports[s])
    BY <1>2, <1>4 DEF ManifestComplete, TerminalLedger
  <2>2. \A s \in Ids : Charges[s] = "within" /\ Answers[s] # "none"
    BY <2>1 DEF Charges, Answers, EventMatches
  <2>3. manifest'.accepted = TRUE
    BY <1>1, <1>4
  <2>4. QED
    BY <1>1, <1>3, <2>2, <2>3 DEF Attempts!Seal
<1>5. CASE ~ManifestComplete(snap)
  <2>1. ~manifest.accepted
    BY <1>2, <1>5, SealedIsSound, CompleteOfInv DEF CompleteSnapshotIsAccepted
  <2>2. manifest'.accepted = FALSE
    BY <1>1, <1>5
  <2>3. manifest'.accepted = manifest.accepted
    BY <2>1, <2>2 DEF SealedInv
  <2>4. QED
    BY <1>1, <1>3, <2>3 DEF Attempts!avars
<1>6. QED
  BY <1>4, <1>5

\* What AttemptOnce's steps keep sealed.
LEMMA SealedStays ==
  ASSUME SealedInv, Attempts!Next \/ UNCHANGED Attempts!avars
  PROVE  SealedInv'
<1>1. CASE Attempts!Seal
  BY <1>1 DEF Attempts!Seal, SealedInv
<1>2. CASE UNCHANGED <<manifest.accepted, Charges, Answers>>
  BY <1>2 DEF SealedInv
<1>3. ASSUME NEW s \in Ids, NEW c \in {"within", "over"}, Attempts!Account(s, c)
      PROVE  SealedInv'
  <2>1. Charges[s] = "none" /\ ~manifest.accepted /\ manifest'.accepted = manifest.accepted
    BY <1>3 DEF Attempts!Account, SealedInv
  <2>2. QED
    BY <2>1 DEF SealedInv
<1>4. ASSUME NEW s \in Ids, NEW a \in {"released", "withheld"}, Attempts!Answer(s, a)
      PROVE  SealedInv'
  <2>1. Answers[s] = "none" /\ ~manifest.accepted /\ manifest'.accepted = manifest.accepted
    BY <1>4 DEF Attempts!Answer, SealedInv
  <2>2. QED
    BY <2>1 DEF SealedInv
<1>5. ASSUME NEW s \in Ids, Attempts!Call(s) PROVE SealedInv'
  BY <1>2, <1>5 DEF Attempts!Call
<1>6. QED
  BY <1>1, <1>2, <1>3, <1>4, <1>5 DEF Attempts!Next, Attempts!avars

LEMMA StepIsAttempt ==
  ASSUME HostInv, SealedInv, [Next]_vars
  PROVE  Attempts!Next \/ UNCHANGED Attempts!avars
<1>1. CASE Unseen
  BY <1>1 DEF Unseen, Attempts!avars, Charges, Answers
<1>2. CASE SnapshotLedger
  BY <1>2, SnapshotIsSeal DEF Attempts!Next
<1>3. ASSUME NEW t \in Clients, Dispatch(t) PROVE Attempts!Next
  BY <1>3, DispatchIsCall DEF Attempts!Next
<1>4. ASSUME NEW t \in Clients, SettleAttempt(t) PROVE Attempts!Next
  BY <1>4, SettleIsAccount DEF Attempts!Next
<1>5. ASSUME NEW t \in Clients, Record(t) PROVE Attempts!Next
  BY <1>5, RecordIsAnswer DEF Attempts!Next
<1>6. QED
  BY <1>1, <1>2, <1>3, <1>4, <1>5, SeenSteps

(***************************************************************************)
(* The host implements AttemptOnce: with any number of threads and         *)
(* interrupts each slot is called, charged and answered at most once and   *)
(* in this order, no output beyond a limit is released, and a manifest     *)
(* that was accepted is accepted by every later snapshot.                  *)
(***************************************************************************)
THEOREM HostImplementsAttemptOnce == Spec => ImplementsAttemptOnce
<1>1. HostInit => Attempts!Init /\ SealedInv
  <2> SUFFICES ASSUME HostInit PROVE Attempts!Init /\ SealedInv
    OBVIOUS
  <2>1. DOMAIN events = {} /\ DOMAIN reports = {} /\ manifest.accepted = FALSE
    BY DEF HostInit, LedgerInit
  <2>2. Charges = [s \in Ids |-> "none"] /\ Answers = [s \in Ids |-> "none"]
    BY <2>1 DEF Charges, Answers
  <2>3. calls = [s \in Ids |-> 0]
    BY DEF HostInit
  <2>4. QED
    BY <2>1, <2>2, <2>3 DEF Attempts!Init, SealedInv
<1>2. HostInv /\ SealedInv /\ [Next]_vars => SealedInv' /\ [Attempts!Next]_(Attempts!avars)
  BY StepIsAttempt, SealedStays
<1>3. QED
  BY <1>1, <1>2, HostInvariant, PTL DEF Spec, ImplementsAttemptOnce, Attempts!Spec
==============================================================================
