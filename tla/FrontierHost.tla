---------------------------- MODULE FrontierHost ----------------------------
(***************************************************************************)
(* FrontierExecutionHost of frontier_host.py: threads execute the slots of *)
(* a frozen schedule against a provider, through the budget ledger the     *)
(* host owns (BudgetLedger).  A slot's id is its reservation id: Ids are   *)
(* the frozen slots, Clients the threads that call execute_attempt.        *)
(*                                                                         *)
(* execute_attempt is not atomic.  It is split where another thread can be *)
(* seen: at each acquisition of the host's or the ledger's lock and around *)
(* the provider call.  An interrupt (KeyboardInterrupt, SystemExit) may    *)
(* arrive between any two steps; Python delivers it at a bytecode boundary.*)
(***************************************************************************)
EXTENDS BudgetLedger

CONSTANTS ComponentOf,    \* the component of each frozen slot
          Capacity,       \* component_capacities: units * attempts_per_unit
          MaximumsOf,     \* _component_maximums of each component
          Usages,         \* usage a provider may report, with the observed wall clock
          Elapsed,        \* wall-clock milliseconds the host may observe for a call
          Null,           \* Python's None, here: no verified receipt
          MaxInterrupts,  \* bound on interrupts in a behaviour
          MaxSnapshots    \* bound on snapshots taken in a behaviour

Components == {ComponentOf[s] : s \in Ids}

Failures == {"invalid_provider_result", "provider_timeout", "provider_exception",
             "host_interrupted", "receipt_unverified", "receipt_reused",
             "budget_breach", "refusal"}

\* provider_status and failure_code of a call that raised instead of returning.
Raised == [malformed |-> "invalid_provider_result",
           timeout |-> "provider_timeout",
           failure |-> "provider_exception"]

ASSUME HostAssumption ==
  /\ Capacity = [k \in Components |-> Cardinality({s \in Ids : ComponentOf[s] = k})]
  /\ MaximumsOf \in [Components -> Charge]
  /\ "wall_clock_ms" \in Axes \ {"calls"}
  /\ Usages \subseteq Charge
  /\ Elapsed \subseteq 0..MaxAmount
  /\ Amounts = Charge
  /\ Null \in Receipts /\ Null \notin Failures
  /\ {"success", "refusal", "cancelled_after_call"} \subseteq Statuses
  /\ MaxInterrupts \in Nat /\ MaxSnapshots \in Nat

VARIABLES pc,          \* where each thread is in execute_attempt
          slot,        \* the attempt_id it executes
          outcome,     \* its locals between the call and the report
          used_slots,  \* _used_slots
          allocated,   \* _allocated, per component
          receipts,    \* _receipts: receipt digests seen so far
          reports,     \* _reports, by slot
          expired,     \* the campaign's evidence window has closed
          calls,       \* provider calls dispatched per slot (history)
          interrupts,  \* interrupts delivered so far
          snap,        \* reports copied by the snapshot being taken, or Null
          snapshots,   \* snapshots taken so far
          manifest     \* what the last build_frontier_execution_manifest gave

hostvars == <<pc, slot, outcome, used_slots, allocated, receipts, reports,
              expired, calls, interrupts, snap, snapshots, manifest>>

vars == <<lvars, hostvars>>

Locations == {"idle", "admitted", "claimed", "releasing", "reserved",
              "calling", "settling", "recording"}

\* The locals of one attempt once its provider call is over.
Outcomes == [status : Statuses, charged : Charge, receipt : Receipts,
             failure : Failures \cup {Null}]

\* Slip: the failure code follows the provider's status alone.
ReportByStatus(o) == [status |-> o.status, usage |-> o.charged, receipt |-> o.receipt,
                      usable |-> o.failure = Null /\ o.status = "success",
                      failure |-> IF o.status = "success" THEN Null ELSE o.failure]

\* The fields of a report the manifest is checked against.
Report(o) == [status |-> o.status, usage |-> o.charged, receipt |-> o.receipt,
              usable |-> o.failure = Null /\ o.status = "success",
              failure |-> o.failure]

\* The host's lock is held across both halves of a snapshot.
HostUnlocked == snap = Null

Maximums(t) == MaximumsOf[ComponentOf[slot[t]]]

Goto(t, l) == pc' = [pc EXCEPT ![t] = l]

\* execute_attempt returns or raises: the thread's locals are gone.
Leave(t) == /\ pc' = [pc EXCEPT ![t] = "idle"]
            /\ slot' = [slot EXCEPT ![t] = Null]
            /\ outcome' = [outcome EXCEPT ![t] = Null]

------------------------------------------------------------------------------
HostInit ==
  /\ LedgerInit
  /\ pc = [t \in Clients |-> "idle"]
  /\ slot = [t \in Clients |-> Null]
  /\ outcome = [t \in Clients |-> Null]
  /\ used_slots = {}
  /\ allocated = [k \in Components |-> 0]
  /\ receipts = {}
  /\ reports = [s \in {} |-> 0]
  /\ expired = FALSE
  /\ calls = [s \in Ids |-> 0]
  /\ interrupts = 0
  /\ snap = Null
  /\ snapshots = 0
  /\ manifest = [accepted |-> FALSE, reports |-> reports]

\* execute_attempt up to the claim: the window is open and the caller's
\* metadata and text are those of the frozen slot.
Admit(t, s) ==
  /\ pc[t] = "idle"
  /\ ~expired
  /\ Goto(t, "admitted")
  /\ slot' = [slot EXCEPT ![t] = s]
  /\ UNCHANGED <<lvars, outcome, used_slots, allocated, receipts, reports,
                 expired, calls, interrupts, snap, snapshots, manifest>>

Claimable(s) == /\ s \notin used_slots
                /\ allocated[ComponentOf[s]] < Capacity[ComponentOf[s]]

ClaimSlot(t) ==
  /\ pc[t] = "admitted"
  /\ HostUnlocked
  /\ Claimable(slot[t])
  /\ used_slots' = used_slots \cup {slot[t]}
  /\ allocated' = [allocated EXCEPT ![ComponentOf[slot[t]]] = @ + 1]
  /\ Goto(t, "claimed")
  /\ UNCHANGED <<lvars, slot, outcome, receipts, reports, expired, calls,
                 interrupts, snap, snapshots, manifest>>

RefuseSlot(t) ==
  /\ pc[t] = "admitted"
  /\ HostUnlocked
  /\ ~Claimable(slot[t])
  /\ Leave(t)
  /\ UNCHANGED <<lvars, used_slots, allocated, receipts, reports,
                 expired, calls, interrupts, snap, snapshots, manifest>>

ReserveBudget(t) ==
  /\ pc[t] = "claimed"
  /\ Reserve(t, slot[t], Maximums(t))
  /\ Goto(t, "reserved")
  /\ UNCHANGED <<slot, outcome, used_slots, allocated, receipts, reports, expired,
                 calls, interrupts, snap, snapshots, manifest>>

\* Slip: the attempt goes on without a reservation.
ReserveFailsOpen(t) ==
  /\ pc[t] = "claimed"
  /\ \/ Reject(slot[t], Maximums(t))
     \/ ~Accepting(slot[t]) /\ UNCHANGED lvars
  /\ Goto(t, "reserved")
  /\ UNCHANGED <<slot, outcome, used_slots, allocated, receipts, reports, expired,
                 calls, interrupts, snap, snapshots, manifest>>

\* The ledger refuses, either on record (a ceiling) or with no trace.
ReserveFails(t) ==
  /\ pc[t] = "claimed"
  /\ \/ Reject(slot[t], Maximums(t))
     \/ ~Accepting(slot[t]) /\ UNCHANGED lvars
  /\ Goto(t, "releasing")
  /\ UNCHANGED <<slot, outcome, used_slots, allocated, receipts, reports, expired,
                 calls, interrupts, snap, snapshots, manifest>>

\* An interrupt inside the try block around reserve(), before the ledger's
\* lock is taken or after it is given back: the slot is released.
ReserveInterrupted(t) ==
  /\ pc[t] = "claimed"
  /\ interrupts < MaxInterrupts
  /\ interrupts' = interrupts + 1
  /\ UNCHANGED lvars \/ Reserve(t, slot[t], Maximums(t))
  /\ Goto(t, "releasing")
  /\ UNCHANGED <<slot, outcome, used_slots, allocated, receipts, reports, expired,
                 calls, snap, snapshots, manifest>>

\* Slip: the slot is given back, its place in the component is not.
ReleaseKeepsPlace(t) ==
  /\ pc[t] = "releasing"
  /\ HostUnlocked
  /\ used_slots' = used_slots \ {slot[t]}
  /\ Leave(t)
  /\ UNCHANGED <<lvars, allocated, receipts, reports, expired, calls,
                 interrupts, snap, snapshots, manifest>>

ReleaseSlot(t) ==
  /\ pc[t] = "releasing"
  /\ HostUnlocked
  /\ used_slots' = used_slots \ {slot[t]}
  /\ allocated' = [allocated EXCEPT ![ComponentOf[slot[t]]] = @ - 1]
  /\ Leave(t)
  /\ UNCHANGED <<lvars, receipts, reports, expired, calls,
                 interrupts, snap, snapshots, manifest>>

\* The request is built and handed to the provider.
Dispatch(t) ==
  /\ pc[t] = "reserved"
  /\ calls' = [calls EXCEPT ![slot[t]] = @ + 1]
  /\ Goto(t, "calling")
  /\ UNCHANGED <<lvars, slot, outcome, used_slots, allocated, receipts, reports,
                 expired, interrupts, snap, snapshots, manifest>>

------------------------------------------------------------------------------
(* The end of a provider call.                                             *)

\* Without a receipt of its own an attempt is charged its full reservation,
\* and at least the wall clock the host observed.
Conservative(t, ms) ==
  [Maximums(t) EXCEPT !["wall_clock_ms"] = IF ms > @ THEN ms ELSE @]

CallOver(t, o) ==
  /\ outcome' = [outcome EXCEPT ![t] = o]
  /\ Goto(t, "settling")
  /\ UNCHANGED <<lvars, slot, used_slots, allocated, reports, expired, calls,
                 snap, snapshots, manifest>>

\* A well-formed result whose receipt verifies and is seen for the first time.
CallAttested(t, st, u, r) ==
  /\ pc[t] = "calling"
  /\ HostUnlocked
  /\ r \notin receipts
  /\ receipts' = receipts \cup {r}
  /\ CallOver(t, [status |-> st, charged |-> u, receipt |-> r,
                  failure |-> IF st = "success" THEN Null ELSE st])
  /\ UNCHANGED interrupts

\* A well-formed result whose receipt another attempt already used.
CallReplayed(t, st, ms, r) ==
  /\ pc[t] = "calling"
  /\ HostUnlocked
  /\ r \in receipts
  /\ CallOver(t, [status |-> st, charged |-> Conservative(t, ms), receipt |-> Null,
                  failure |-> "receipt_reused"])
  /\ UNCHANGED <<receipts, interrupts>>

\* A well-formed result whose receipt does not verify.
CallUnverified(t, st, ms) ==
  /\ pc[t] = "calling"
  /\ CallOver(t, [status |-> st, charged |-> Conservative(t, ms), receipt |-> Null,
                  failure |-> "receipt_unverified"])
  /\ UNCHANGED <<receipts, interrupts>>

\* The call or the checks of its result raise an Exception.
CallRaises(t, st, ms) ==
  /\ pc[t] = "calling"
  /\ CallOver(t, [status |-> st, charged |-> Conservative(t, ms), receipt |-> Null,
                  failure |-> Raised[st]])
  /\ UNCHANGED <<receipts, interrupts>>

\* An interrupt inside the try block around the call: with no receipt in hand,
\* though the host may already have noted its digest as seen ...
CallInterrupted(t, ms) ==
  /\ pc[t] = "calling"
  /\ interrupts < MaxInterrupts
  /\ interrupts' = interrupts + 1
  /\ \/ UNCHANGED receipts
     \/ /\ HostUnlocked
        /\ \E r \in Receipts \ {Null} : receipts' = receipts \cup {r}
  /\ CallOver(t, [status |-> "cancelled_after_call", charged |-> Conservative(t, ms),
                  receipt |-> Null, failure |-> "host_interrupted"])

\* ... or once the receipt was accepted.
AttestedInterrupted(t, u, r) ==
  /\ pc[t] = "calling"
  /\ HostUnlocked
  /\ r \notin receipts
  /\ interrupts < MaxInterrupts
  /\ interrupts' = interrupts + 1
  /\ receipts' = receipts \cup {r}
  /\ CallOver(t, [status |-> "cancelled_after_call", charged |-> u, receipt |-> r,
                  failure |-> "host_interrupted"])

CallReturns(t) ==
  \/ \E st \in {"success", "refusal"}, u \in Usages, r \in Receipts \ {Null} :
       CallAttested(t, st, u, r)
  \/ \E st \in {"success", "refusal"}, ms \in Elapsed, r \in Receipts \ {Null} :
       CallReplayed(t, st, ms, r)
  \/ \E st \in {"success", "refusal"}, ms \in Elapsed : CallUnverified(t, st, ms)
  \/ \E st \in Statuses \cap DOMAIN Raised, ms \in Elapsed : CallRaises(t, st, ms)

------------------------------------------------------------------------------
\* Slip: an attempt that breaches the budget keeps its own verdict.
VerdictKept(t) == outcome[t].failure

\* Slip: only an attempt that exceeds its own reservation is held to account.
VerdictOnOwn(t) == IF OverReserved(slot[t], outcome[t].charged) # {} THEN "budget_breach"
                   ELSE outcome[t].failure

\* The failure code after settling: a raised BudgetExceededError overrides it.
VerdictOf(t) == IF BreachedBy(slot[t], outcome[t].charged) THEN "budget_breach"
                ELSE outcome[t].failure

\* Slip: the error that settle() raises is not caught.
SettleRaises(t) ==
  /\ pc[t] = "settling"
  /\ Settle(t, slot[t], outcome[t].charged, outcome[t].status, outcome[t].receipt)
  /\ IF VerdictOf(t) = "budget_breach" THEN Leave(t)
       ELSE Goto(t, "recording") /\ UNCHANGED <<slot, outcome>>
  /\ UNCHANGED <<used_slots, allocated, receipts, reports, expired, calls,
                 interrupts, snap, snapshots, manifest>>

SettleAttempt(t) ==
  /\ pc[t] = "settling"
  /\ Settle(t, slot[t], outcome[t].charged, outcome[t].status, outcome[t].receipt)
  /\ outcome' = [outcome EXCEPT ![t].failure = VerdictOf(t)]
  /\ Goto(t, "recording")
  /\ UNCHANGED <<slot, used_slots, allocated, receipts, reports, expired, calls,
                 interrupts, snap, snapshots, manifest>>

\* _record, and the return (or re-raise) to the caller.
Record(t) ==
  /\ pc[t] = "recording"
  /\ HostUnlocked
  /\ reports' = Assign(reports, slot[t], Report(outcome[t]))
  /\ Leave(t)
  /\ UNCHANGED <<lvars, used_slots, allocated, receipts, expired, calls,
                 interrupts, snap, snapshots, manifest>>

\* An interrupt outside the try block unwinds execute_attempt where it is.
Unwind(t) ==
  /\ pc[t] \in {"claimed", "releasing", "reserved", "settling", "recording"}
  /\ interrupts < MaxInterrupts
  /\ interrupts' = interrupts + 1
  /\ Leave(t)
  /\ UNCHANGED <<lvars, used_slots, allocated, receipts, reports, expired,
                 calls, snap, snapshots, manifest>>

Expire == /\ ~expired
          /\ expired' = TRUE
          /\ UNCHANGED <<lvars, pc, slot, outcome, used_slots, allocated, receipts,
                         reports, calls, interrupts, snap, snapshots, manifest>>

------------------------------------------------------------------------------
(* snapshot() copies the reports and then the ledger, all under the host's *)
(* lock; the ledger has its own lock and may move in between.              *)

SnapshotReports ==
  /\ HostUnlocked
  /\ snapshots < MaxSnapshots
  /\ snapshots' = snapshots + 1
  /\ snap' = reports
  /\ UNCHANGED <<lvars, pc, slot, outcome, used_slots, allocated, receipts,
                 reports, expired, calls, interrupts, manifest>>

\* One event of the ledger is the accounting of one report, with no overrun.
EventMatches(s, report) ==
  /\ events[s].status = report.status
  /\ events[s].charged = report.usage
  /\ events[s].receipt = report.receipt
  /\ events[s].over_reserved = {}
  /\ events[s].over_ceiling = {}

Usage(rs, a) == [s \in DOMAIN rs |-> rs[s].usage[a]]

\* _validate_terminal_budget_ledger against the reports rs.
TerminalLedger(rs) ==
  /\ DOMAIN reservations = {}
  /\ pre_call_cancellations = {}
  /\ DOMAIN rejections = {}
  /\ ~breached
  /\ DOMAIN events = DOMAIN rs
  /\ \A s \in DOMAIN rs : EventMatches(s, rs[s])
  /\ \A a \in Axes : /\ consumed[a] = Total(Usage(rs, a), DOMAIN rs)
                    /\ consumed[a] <= Ceilings[a]

\* validate_frontier_attempt_report
ValidReport(report) ==
  IF report.usable
    THEN report.status = "success" /\ report.failure = Null /\ report.receipt # Null
    ELSE report.failure # Null

\* Slip: reports are validated, their coverage of the schedule is not.
UncoveredManifest(rs) == TerminalLedger(rs) /\ \A s \in DOMAIN rs : ValidReport(rs[s])

\* validate_frontier_execution_manifest: one report per frozen slot.
ManifestComplete(rs) ==
  /\ DOMAIN rs = Ids
  /\ \A s \in DOMAIN rs : ValidReport(rs[s])
  /\ TerminalLedger(rs)

\* The ledger's half of the snapshot, and the manifest built from both.
SnapshotLedger ==
  /\ ~HostUnlocked
  /\ snap' = Null
  /\ manifest' = IF ManifestComplete(snap) THEN [accepted |-> TRUE, reports |-> snap]
                 ELSE [manifest EXCEPT !.accepted = FALSE]
  /\ UNCHANGED <<lvars, pc, slot, outcome, used_slots, allocated, receipts,
                 reports, expired, calls, interrupts, snapshots>>

\* One step of the code of execute_attempt after it was admitted.
Step(t) == \/ ClaimSlot(t) \/ RefuseSlot(t)
           \/ ReserveBudget(t) \/ ReserveFails(t) \/ ReleaseSlot(t)
           \/ Dispatch(t) \/ CallReturns(t) \/ SettleAttempt(t) \/ Record(t)

Interrupt(t) == \/ ReserveInterrupted(t) \/ Unwind(t)
                \/ \E ms \in Elapsed : CallInterrupted(t, ms)
                \/ \E u \in Usages, r \in Receipts \ {Null} : AttestedInterrupted(t, u, r)

Next == \/ \E t \in Clients : Step(t) \/ Interrupt(t)
        \/ \E t \in Clients, s \in Ids : Admit(t, s)
        \/ SnapshotReports \/ SnapshotLedger
        \/ Expire

Spec == HostInit /\ [][Next]_vars

------------------------------------------------------------------------------
\* The host's own state keeps its shape.
HostTypeOK ==
  /\ pc \in [Clients -> Locations]
  /\ slot \in [Clients -> Ids \cup {Null}]
  /\ outcome \in [Clients -> Outcomes \cup {Null}]
  /\ \A t \in Clients : pc[t] # "idle" => slot[t] \in Ids
  /\ \A t \in Clients : pc[t] \in {"settling", "recording"} => outcome[t] \in Outcomes
  /\ used_slots \subseteq Ids
  /\ allocated \in [Components -> Nat]
  /\ receipts \subseteq Receipts \ {Null}
  /\ DOMAIN reports \subseteq Ids

(***************************************************************************)
(* However threads race for a slot, fail to reserve it, release it and try *)
(* again, the provider is called at most once for it, and only while its   *)
(* reservation is, or after it was, in the ledger.                         *)
(***************************************************************************)
OneFundedCallPerSlot ==
  \A s \in Ids : /\ calls[s] <= 1
                 /\ calls[s] = 1 => s \in DOMAIN reservations \cup DOMAIN events

(***************************************************************************)
(* The places allocated in a component are its consumed slots: no release  *)
(* or failed claim leaks or duplicates one, so the capacity check never    *)
(* refuses a slot that is free.                                            *)
(***************************************************************************)
PlacesAreSlots ==
  \A k \in Components :
     allocated[k] = Cardinality({s \in used_slots : ComponentOf[s] = k})

(***************************************************************************)
(* An output is released only for a successful attempt inside its budget,  *)
(* on a receipt no other report carries.                                   *)
(***************************************************************************)
UsableIsAttested ==
  \A s \in DOMAIN reports :
     /\ reports[s].usable => /\ reports[s].status = "success"
                             /\ reports[s].receipt # Null
                             /\ events[s].over_reserved = {}
     /\ \A r \in DOMAIN reports \ {s} :
           reports[s].receipt # Null => reports[r].receipt # reports[s].receipt

(***************************************************************************)
(* An accepted manifest is the whole truth, now and later: every slot was  *)
(* called once, nothing is in flight, the reports in it are the reports of *)
(* the host, and the budget held.                                          *)
(***************************************************************************)
AcceptedManifestIsExact ==
  manifest.accepted =>
     /\ manifest.reports = reports
     /\ \A s \in Ids : calls[s] = 1
     /\ \A t \in Clients : pc[t] \in {"idle", "admitted"}
     /\ \A a \in Axes : consumed[a] <= Ceilings[a]

(***************************************************************************)
(* The converse: once every slot is reported and the budget held, the      *)
(* manifest is accepted at whatever moment between its two halves the      *)
(* snapshot reads the ledger.                                              *)
(***************************************************************************)
CompleteSnapshotIsAccepted ==
  (snap # Null /\ DOMAIN snap = Ids /\ ~breached) => ManifestComplete(snap)

(***************************************************************************)
(* Every provider call is settled and reported, or some thread is on its   *)
(* way to do so; each interrupt can make at most one call an exception.    *)
(***************************************************************************)
OnlyInterruptsLoseCalls ==
  LET Underway(s) == \E t \in Clients : /\ slot[t] = s
                                        /\ pc[t] \in {"calling", "settling", "recording"}
  IN Cardinality({s \in Ids : /\ calls[s] = 1 /\ ~Underway(s)
                              /\ s \notin DOMAIN events \cap DOMAIN reports}) <= interrupts

\* Steps of the host are steps of the ledger, so what the ledger promises its
\* callers it promises the host's threads.
HostUsesLedger == LedgerSpec

\* What the charge of a slot came to, and what its caller got.
Charges == [s \in Ids |-> IF s \notin DOMAIN events THEN "none"
                          ELSE IF events[s].over_reserved = {} /\ events[s].over_ceiling = {}
                                 THEN "within" ELSE "over"]

Answers == [s \in Ids |-> IF s \notin DOMAIN reports THEN "none"
                          ELSE IF reports[s].usable THEN "released" ELSE "withheld"]

Attempts == INSTANCE AttemptOnce WITH Slots <- Ids, called <- calls, charge <- Charges,
                                      answer <- Answers, sealed <- manifest.accepted

(***************************************************************************)
(* Whatever the threads do at once and wherever they are interrupted, each *)
(* slot is called, charged and answered at most once and in this order, an *)
(* output whose charge exceeds a limit, its own or the campaign's, is      *)
(* withheld, and a manifest that was accepted is accepted for good.        *)
(***************************************************************************)
ImplementsAttemptOnce == Attempts!Spec
==============================================================================
