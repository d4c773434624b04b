--------------------------- MODULE CampaignProofs ---------------------------
(***************************************************************************)
(* Proofs about Campaign, for every set of systems and bundles, whatever   *)
(* the bundles say, and every bound on time, preflights, hosts and         *)
(* irregularities.  The first part follows preflights, calls, manifests    *)
(* and reports; the second what the status of a replayed report rests on,  *)
(* and why three replays are one reproduction.                             *)
(***************************************************************************)
EXTENDS Campaign, FiniteSetTheorems, TLAPS

(***************************************************************************)
(* Preflights.  A report that passed is about a valid bundle, made before  *)
(* it was asked, and no later step takes a report back.                    *)
(***************************************************************************)
PreflightReport == [passed : BOOLEAN, campaign : Bundles, timestamp : Times, expires : Nat,
                    receipts : SUBSET Seq(Roles \cup {NoReceipt})]

WellFounded(p) ==
  /\ p.expires = Contents[p.campaign].expires
  /\ p.passed => /\ ValidBundle(Contents[p.campaign])
                 /\ Contents[p.campaign].created <= p.timestamp
                 /\ IsFiniteSet(p.receipts)

\* What a preflight that is running has read, at each place.
Reading(b) == run = [at |-> "files", bundle |-> b]
Timing(b) == run = [at |-> "clock", bundle |-> b] /\ ValidBundle(Contents[b])
Asking(b, t) == /\ run = [at |-> "authorities", bundle |-> b, timestamp |-> t]
                /\ ValidBundle(Contents[b]) /\ Contents[b].created <= t

RunInv == run = Idle \/ \E b \in Bundles : Reading(b) \/ Timing(b) \/ \E t \in Times : Asking(b, t)

PreflightInv ==
  /\ now \in Times /\ plan \in Bundles
  /\ issued \in Seq(PreflightReport) /\ \A p \in DOMAIN issued : WellFounded(issued[p])
  /\ RunInv

(***************************************************************************)
(* Hosts.  The money of a host that has not breached is what its attempts  *)
(* may cost, and what is left of its worst case pays for the rest.         *)
(***************************************************************************)
HostState == [campaign : Bundles, preflight : Nat, authority : Seq(Principals \cup {"authorizer"}),
              budget : Bundles, done : Nat, spent : Nat,
              entered : BOOLEAN, breached : BOOLEAN, refused : BOOLEAN]

Admitted(h) == /\ h.preflight \in DOMAIN issued
               /\ LET p == issued[h.preflight]
                  IN /\ p.passed /\ Cardinality(p.receipts) = 4
                     /\ p.campaign = h.campaign /\ p.timestamp <= now
                     /\ h.authority \notin p.receipts

Funded(s, h) ==
  LET b == Contents[h.budget]
  IN /\ ~h.breached => h.spent <= h.done * b.price[s] /\ h.spent <= b.ceiling[s]
     /\ h.entered => /\ ~h.breached /\ h.done < Attempts(h.budget, s)
                     /\ h.spent + b.price[s] <= b.ceiling[s]
     /\ h.budget = h.campaign => ~h.refused

\* The attempt n of system s was called under preflight p and budget b.
Called(s, p, b, n) ==
  \E c \in calls : c.system = s /\ c.preflight = p /\ c.budget = b /\ c.number = n

AllCalled(s, h) ==
  \A n \in Nat : (n < h.done \/ (h.entered /\ n = h.done)) => Called(s, h.preflight, h.budget, n)

HostsInv ==
  /\ hosts \in [Systems -> HostState \cup {NoHost}]
  /\ \A s \in Systems : hosts[s] # NoHost =>
       Admitted(hosts[s]) /\ Funded(s, hosts[s]) /\ AllCalled(s, hosts[s])

(* Calls: each was admitted by a host, for an attempt of its budget.       *)
CallOK(c) ==
  /\ c.preflight \in DOMAIN issued
  /\ LET p == issued[c.preflight]
     IN /\ p.passed /\ Cardinality(p.receipts) = 4 /\ c.authority \notin p.receipts
        /\ p.timestamp <= c.admitted /\ c.admitted < p.expires
  /\ c.system \in Systems /\ c.budget \in Bundles
  /\ c.number \in Nat /\ c.number < Attempts(c.budget, c.system)

CallsInv == \A c \in calls : CallOK(c)

(* Manifests: each is of a host that made every attempt of its budget.     *)
ManifestOK(m) ==
  /\ m.preflight \in DOMAIN issued /\ issued[m.preflight].campaign = m.campaign
  /\ m.spent <= m.ceiling
  /\ \E b \in Bundles :
       /\ <<m.attempts, m.price, m.ceiling>> = Funds(b, m.system)
       /\ \A n \in Nat : n < m.attempts => Called(m.system, m.preflight, b, n)

ManifestsInv == \A m \in manifests : ManifestOK(m)

(* Replays: what passed for top tier was one campaign, and still is.       *)
TopTier(k) == replays[k].passed /\ replays[k].report.status = "top_tier_scoped"

ReplaysInv ==
  /\ frozen # NoPlan => /\ frozen.preflight \in DOMAIN issued
                        /\ \A s \in Systems : frozen.executions[s] \in manifests
  /\ replaying # Idle => frozen # NoPlan /\ replaying.place \in Places
  /\ replays = [k \in Places |-> replays[k]]
  /\ \A k \in Places : /\ replays[k].passed => frozen # NoPlan
                       /\ TopTier(k) => OneCampaign(frozen, replays[k].report)

CampaignInv == PreflightInv /\ HostsInv /\ CallsInv /\ ManifestsInv /\ ReplaysInv

------------------------------------------------------------------------------
(* Facts the steps rest on.                                                *)

\* A report that is issued keeps its place and what it says.
LEMMA IssuedGrows ==
  ASSUME PreflightInv, NEW report \in PreflightReport, Issue(report), WellFounded(report)
  PROVE  /\ DOMAIN issued \subseteq DOMAIN issued'
         /\ \A p \in DOMAIN issued : issued'[p] = issued[p]
         /\ issued' \in Seq(PreflightReport) /\ run' = Idle
         /\ \A p \in DOMAIN issued' : WellFounded(issued'[p])
<1>1. issued \in Seq(PreflightReport) /\ issued' = Append(issued, report) /\ run' = Idle
  BY DEF PreflightInv, Issue
<1>2. /\ DOMAIN issued = 1..Len(issued) /\ DOMAIN issued' = 1..(Len(issued) + 1)
      /\ Len(issued) \in Nat /\ issued' \in Seq(PreflightReport)
      /\ \A p \in 1..Len(issued) : issued'[p] = issued[p]
      /\ issued'[Len(issued) + 1] = report
  BY <1>1
<1>3. \A p \in DOMAIN issued' : WellFounded(issued'[p])
  <2> SUFFICES ASSUME NEW p \in DOMAIN issued' PROVE WellFounded(issued'[p])
    OBVIOUS
  <2>1. CASE p \in DOMAIN issued
    BY <1>2, <2>1 DEF PreflightInv
  <2>2. CASE p = Len(issued) + 1
    BY <1>2, <2>2
  <2>3. QED
    BY <1>2, <2>1, <2>2
<1>4. QED
  BY <1>1, <1>2, <1>3

\* Times are numbers, and so are the timestamps of reports.
LEMMA ReportTimes ==
  ASSUME PreflightInv
  PROVE  /\ now \in Nat
         /\ \A p \in DOMAIN issued : issued[p] \in PreflightReport /\ issued[p].timestamp \in Nat
<1>1. Times \subseteq Nat
  BY ContractsAssumption DEF Times
<1>2. \A p \in DOMAIN issued : issued[p] \in PreflightReport
  BY DEF PreflightInv
<1>3. QED
  BY <1>1, <1>2 DEF PreflightInv, PreflightReport

\* What the later stages know of reports holds as long as reports only come.
LEMMA ReportsStay ==
  ASSUME PreflightInv, HostsInv, CallsInv, ManifestsInv,
         now' \in Nat, now <= now', UNCHANGED <<hosts, calls, manifests>>,
         DOMAIN issued \subseteq DOMAIN issued', \A p \in DOMAIN issued : issued'[p] = issued[p]
  PROVE  HostsInv' /\ CallsInv' /\ ManifestsInv'
<1>2. ASSUME NEW s \in Systems, hosts[s] # NoHost
      PROVE (Admitted(hosts[s]) /\ Funded(s, hosts[s]) /\ AllCalled(s, hosts[s]))'
  <2>1. Admitted(hosts[s])
    BY <1>2 DEF HostsInv
  <2>2. (Funded(s, hosts[s]) /\ AllCalled(s, hosts[s]))'
    BY <1>2 DEF HostsInv, Funded, AllCalled, Called
  <2>3. issued[hosts[s].preflight].timestamp <= now'
    BY <2>1, ReportTimes DEF Admitted
  <2>4. QED
    BY <2>1, <2>2, <2>3 DEF Admitted
<1>3. HostsInv'
  BY <1>2 DEF HostsInv
<1>4. CallsInv'
  BY DEF CallsInv, CallOK
<1>5. ManifestsInv'
  BY DEF ManifestsInv, ManifestOK, Called
<1>6. QED
  BY <1>3, <1>4, <1>5

\* What was replayed stays what it was, too.
LEMMA ReplaysStay ==
  ASSUME ReplaysInv, manifests \subseteq manifests', UNCHANGED yvars,
         DOMAIN issued \subseteq DOMAIN issued', \A p \in DOMAIN issued : issued'[p] = issued[p]
  PROVE  ReplaysInv'
<1>1. UNCHANGED <<frozen, replaying, replays>>
  BY DEF yvars
<1>2. ASSUME NEW k \in Places, TopTier(k) PROVE OneCampaign(frozen, replays[k].report)'
  <2>1. frozen # NoPlan /\ OneCampaign(frozen, replays[k].report)
    BY <1>2 DEF ReplaysInv, TopTier
  <2>2. issued'[frozen.preflight] = issued[frozen.preflight]
    BY <2>1 DEF ReplaysInv
  <2>3. QED
    BY <1>1, <2>1, <2>2 DEF OneCampaign, ValidReport, ExecutionBundle
<1>3. QED
  BY <1>1, <1>2 DEF ReplaysInv, TopTier, Idle

\* A step of the preflight or the clock, which leaves the later stages alone.
LEMMA EarlyStep ==
  ASSUME CampaignInv, PreflightInv', now <= now', UNCHANGED <<hosts, calls, manifests, yvars>>,
         DOMAIN issued \subseteq DOMAIN issued', \A p \in DOMAIN issued : issued'[p] = issued[p]
  PROVE  CampaignInv'
<1>1. now' \in Nat
  BY ContractsAssumption DEF PreflightInv, Times
<1>2. HostsInv' /\ CallsInv' /\ ManifestsInv'
  BY <1>1, ReportsStay DEF CampaignInv
<1>3. ReplaysInv'
  BY ReplaysStay DEF CampaignInv
<1>4. QED
  BY <1>2, <1>3 DEF CampaignInv
------------------------------------------------------------------------------
(* The steps of a preflight.                                               *)

LEMMA FailedIsReport ==
  ASSUME NEW b \in Bundles
  PROVE  Failed(b) \in PreflightReport /\ WellFounded(Failed(b))
  BY ContractsAssumption DEF Failed, PreflightReport, WellFounded, Times

LEMMA PassedIsReport ==
  ASSUME NEW b \in Bundles, NEW t \in Times, NEW answer \in [Roles -> Roles \cup {NoReceipt}],
         ValidBundle(Contents[b]), Contents[b].created <= t
  PROVE  Passed(b, t, answer) \in PreflightReport /\ WellFounded(Passed(b, t, answer))
<1>1. Principals \cup Resources = Roles /\ {"human_gold", "host_capability", "storage"} \subseteq Roles
  BY DEF Roles, Resources
<1>2. Embedded(answer) = {<<answer["clock"]>>, <<answer["owner"]>>, <<answer["dataset_custodian"]>>}
                         \cup {Capability(answer)}
  BY DEF Embedded, Principals
<1>3. Embedded(answer) \in SUBSET Seq(Roles \cup {NoReceipt})
  BY <1>1, <1>2 DEF Principals, Capability
<1>4. IsFiniteSet({}) /\ \A S, x : IsFiniteSet(S) => IsFiniteSet(S \cup {x})
  BY FS_EmptySet, FS_AddElement
<1>5. IsFiniteSet(((({} \cup {<<answer["clock"]>>}) \cup {<<answer["owner"]>>})
                   \cup {<<answer["dataset_custodian"]>>}) \cup {Capability(answer)})
  BY <1>4, Zenon
<1>6. IsFiniteSet(Embedded(answer))
  <2>1. Embedded(answer) = ((({} \cup {<<answer["clock"]>>}) \cup {<<answer["owner"]>>})
                            \cup {<<answer["dataset_custodian"]>>}) \cup {Capability(answer)}
    BY <1>2
  <2>2. QED
    BY <1>5, <2>1
<1>7. QED
  BY <1>3, <1>6, ContractsAssumption DEF Passed, PreflightReport, WellFounded

\* A report that is issued, when nothing else moves but the bound's counters.
LEMMA IssueInv ==
  ASSUME CampaignInv, NEW report \in PreflightReport, WellFounded(report), Issue(report),
         UNCHANGED <<now, disk, evars, yvars>>
  PROVE  CampaignInv'
<1>1. PreflightInv /\ UNCHANGED <<now, plan, hosts, calls, manifests, yvars>>
  BY DEF CampaignInv, disk, evars
<1>2. PreflightInv'
  BY <1>1, IssuedGrows DEF PreflightInv, RunInv
<1>3. now <= now'
  BY <1>1, ReportTimes
<1>4. QED
  BY <1>1, <1>2, <1>3, IssuedGrows, EarlyStep

\* A preflight that goes on, when nothing else moves but the bound's counters.
LEMMA ProceedInv ==
  ASSUME CampaignInv, RunInv', issued' = issued, UNCHANGED <<now, disk, evars, yvars>>
  PROVE  CampaignInv'
<1>1. PreflightInv /\ UNCHANGED <<now, plan, hosts, calls, manifests, yvars>>
  BY DEF CampaignInv, disk, evars
<1>2. PreflightInv'
  BY <1>1 DEF PreflightInv
<1>3. now <= now'
  BY <1>1, ReportTimes
<1>4. QED
  BY <1>1, <1>2, <1>3, EarlyStep

LEMMA LoadPlanInv ==
  ASSUME CampaignInv, LoadPlan, UNCHANGED <<evars, yvars>>
  PROVE  CampaignInv'
<1>1. plan \in Bundles /\ UNCHANGED <<now, disk>>
  BY DEF CampaignInv, PreflightInv, LoadPlan, cvars
<1>2. CASE Issue(Failed(plan))
  BY <1>1, <1>2, FailedIsReport, IssueInv
<1>3. CASE run' = [at |-> "files", bundle |-> plan] /\ issued' = issued
  <2>1. RunInv'
    BY <1>1, <1>3 DEF RunInv, Reading
  <2>2. QED
    BY <1>1, <1>3, <2>1, ProceedInv
<1>4. QED
  BY <1>2, <1>3 DEF LoadPlan

LEMMA LoadFilesInv ==
  ASSUME CampaignInv, LoadFiles, UNCHANGED <<evars, yvars>>
  PROVE  CampaignInv'
<1>1. UNCHANGED <<now, disk>> /\ RunInv /\ run.at = "files"
  BY DEF CampaignInv, PreflightInv, LoadFiles, cvars
<1>2. PICK b \in Bundles : Reading(b)
  BY <1>1 DEF RunInv, Reading, Timing, Asking, Idle
<1>3. CASE Issue(Failed(run.bundle))
  BY <1>1, <1>2, <1>3, FailedIsReport, IssueInv DEF Reading
<1>4. CASE ValidBundle(Contents[b]) /\ run' = [at |-> "clock", bundle |-> run.bundle] /\ issued' = issued
  <2>1. RunInv'
    BY <1>2, <1>4 DEF RunInv, Reading, Timing
  <2>2. QED
    BY <1>1, <1>4, <2>1, ProceedInv
<1>5. QED
  BY <1>2, <1>3, <1>4 DEF LoadFiles, Reading

LEMMA AskClockInv ==
  ASSUME CampaignInv, AskClock, UNCHANGED <<evars, yvars>>
  PROVE  CampaignInv'
<1>1. UNCHANGED <<now, disk>> /\ RunInv /\ now \in Times /\ run.at = "clock"
  BY DEF CampaignInv, PreflightInv, AskClock
<1>2. PICK b \in Bundles : Timing(b)
  BY <1>1 DEF RunInv, Reading, Timing, Asking, Idle
<1>3. CASE Issue(Failed(run.bundle))
  BY <1>1, <1>2, <1>3, FailedIsReport, IssueInv DEF Timing
<1>4. CASE /\ Contents[b].created <= now
           /\ run' = [at |-> "authorities", bundle |-> run.bundle, timestamp |-> now]
           /\ issued' = issued
  <2>1. RunInv'
    BY <1>1, <1>2, <1>4 DEF RunInv, Timing, Asking
  <2>2. QED
    BY <1>1, <1>4, <2>1, ProceedInv
<1>5. QED
  BY <1>2, <1>3, <1>4 DEF AskClock, Timing

LEMMA AskAuthoritiesInv ==
  ASSUME CampaignInv, AskAuthorities, UNCHANGED <<evars, yvars>>
  PROVE  CampaignInv'
<1>1. UNCHANGED <<now, disk>> /\ RunInv /\ run.at = "authorities"
  BY DEF CampaignInv, PreflightInv, AskAuthorities
<1>2. PICK b \in Bundles, t \in Times : Asking(b, t)
  BY <1>1 DEF RunInv, Reading, Timing, Asking, Idle
<1>3. PICK answer \in Answers : \/ Issue(Passed(b, t, answer))
                               \/ Issue(Failed(b))
  BY <1>2 DEF AskAuthorities, Asking
<1>4. answer \in [Roles -> Roles \cup {NoReceipt}]
  <2>1. OwnReceipts \in [Roles -> Roles \cup {NoReceipt}]
    BY DEF OwnReceipts
  <2>2. PICK q \in Roles, a \in Roles \cup {NoReceipt} : answer = [OwnReceipts EXCEPT ![q] = a]
    BY DEF Answers
  <2>3. QED
    BY <2>1, <2>2
<1>5. CASE Issue(Failed(b))
  BY <1>1, <1>5, FailedIsReport, IssueInv
<1>6. CASE Issue(Passed(b, t, answer))
  BY <1>1, <1>2, <1>4, <1>6, PassedIsReport, IssueInv DEF Asking
<1>7. QED
  BY <1>3, <1>5, <1>6

\* The clock and the disk.
LEMMA EnvironmentInv ==
  ASSUME CampaignInv, Environment
  PROVE  CampaignInv'
<1>1. UNCHANGED <<issued, run, hosts, calls, manifests, yvars>>
  BY DEF Environment, pvars, evars
<1>2. PreflightInv /\ plan \in Bundles /\ now \in Times /\ now \in Nat
  BY ReportTimes DEF CampaignInv, PreflightInv
<1>3. now' \in Times /\ now <= now' /\ plan' \in Bundles
  <2>1. CASE EditPlan \/ EditFiles
    <3>1. now' = now /\ plan' \in Bundles
      BY <1>2, <2>1 DEF EditPlan, EditFiles
    <3>2. QED
      BY <1>2, <3>1
  <2>2. CASE Tick
    BY <1>2, <2>2, ContractsAssumption DEF Tick, Times, disk
  <2>3. QED
    BY <2>1, <2>2 DEF Environment
<1>4. PreflightInv'
  BY <1>1, <1>2, <1>3 DEF PreflightInv, RunInv, Reading, Timing, Asking, Idle
<1>5. QED
  BY <1>1, <1>2, <1>3, <1>4, EarlyStep

------------------------------------------------------------------------------
(* The steps of a host.  First the arithmetic of money.                    *)

\* As long as an attempt is left, its price is.
LEMMA RoomForOneMore ==
  ASSUME NEW d \in Nat, NEW n \in Nat, NEW price \in Nat, d < n
  PROVE  d * price + price <= n * price /\ (d + 1) * price = d * price + price
<1>1. (d + 1) * price = d * price + price
  OBVIOUS
<1>2. (d + 1) * price <= n * price
  <2> DEFINE k == n - (d + 1)
  <2>1. k \in Nat /\ n = (d + 1) + k
    OBVIOUS
  <2>2. n * price = (d + 1) * price + k * price
    BY <2>1
  <2>3. k * price \in Nat /\ (d + 1) * price \in Nat
    BY <2>1
  <2>4. QED
    BY <2>2, <2>3
<1>3. QED
  BY <1>1, <1>2

\* What budgets grant are numbers.
LEMMA MoneyIsNat ==
  ASSUME NEW b \in Bundles, NEW s \in Systems
  PROVE  Contents[b].price[s] \in Nat /\ Contents[b].ceiling[s] \in Nat /\ Attempts(b, s) \in Nat
  BY ContractsAssumption DEF Attempts

\* A step in which the host of one system changes, and calls may be made.
LEMMA HostStep ==
  ASSUME CampaignInv, NEW s \in Systems, NEW h \in HostState,
         hosts' = [hosts EXCEPT ![s] = h], calls \subseteq calls',
         UNCHANGED <<now, disk, pvars, manifests, yvars>>,
         Admitted(h), Funded(s, h), AllCalled(s, h)', CallsInv'
  PROVE  CampaignInv'
<1>1. UNCHANGED <<now, plan, issued, run, manifests, yvars>>
  BY DEF disk, pvars
<1>2. PreflightInv'
  BY <1>1 DEF CampaignInv, PreflightInv, RunInv, Reading, Timing, Asking, Idle
<1>3. hosts \in [Systems -> HostState \cup {NoHost}]
  BY DEF CampaignInv, HostsInv
<1>4. ASSUME NEW t \in Systems, hosts'[t] # NoHost
      PROVE (Admitted(hosts[t]) /\ Funded(t, hosts[t]) /\ AllCalled(t, hosts[t]))'
  <2>1. CASE t = s
    <3>1. hosts'[t] = h
      BY <1>3, <2>1
    <3>2. Admitted(h)' /\ Funded(s, h)'
      BY <1>1 DEF Admitted, Funded
    <3>3. QED
      BY <2>1, <3>1, <3>2 DEF Admitted, Funded, AllCalled, Called
  <2>2. CASE t # s
    <3>1. hosts'[t] = hosts[t]
      BY <1>3, <2>2
    <3>2. Admitted(hosts[t]) /\ Funded(t, hosts[t]) /\ AllCalled(t, hosts[t])
      BY <1>4, <3>1 DEF CampaignInv, HostsInv
    <3>3. AllCalled(t, hosts[t])'
      BY <3>1, <3>2 DEF AllCalled, Called
    <3>4. QED
      BY <1>1, <3>1, <3>2, <3>3 DEF Admitted, Funded
  <2>3. QED
    BY <2>1, <2>2
<1>5. HostsInv'
  BY <1>3, <1>4 DEF HostsInv
<1>6. ManifestsInv'
  BY <1>1 DEF CampaignInv, ManifestsInv, ManifestOK, Called
<1>7. ReplaysInv'
  BY <1>1, ReplaysStay DEF CampaignInv
<1>8. QED
  BY <1>2, <1>5, <1>6, <1>7 DEF CampaignInv

LEMMA ConstructHostInv ==
  ASSUME CampaignInv, NEW s \in Systems, ConstructHost(s), UNCHANGED <<rvars, yvars>>
  PROVE  CampaignInv'
<1>1. PICK p \in DOMAIN issued, campaign, budget \in Bundles,
           receipt \in {<<r>> : r \in Principals \cup {"authorizer"}} :
        /\ Admits(issued[p], campaign) /\ receipt \notin issued[p].receipts
        /\ hosts' = [hosts EXCEPT ![s] = [campaign |-> campaign, preflight |-> p,
                                          authority |-> receipt, budget |-> budget,
                                          done |-> 0, spent |-> 0, entered |-> FALSE,
                                          breached |-> FALSE, refused |-> FALSE]]
  BY DEF ConstructHost
<1> DEFINE h == [campaign |-> campaign, preflight |-> p, authority |-> receipt, budget |-> budget,
                 done |-> 0, spent |-> 0, entered |-> FALSE, breached |-> FALSE, refused |-> FALSE]
<1>2. UNCHANGED <<now, disk, pvars, calls, manifests, yvars>>
  BY DEF ConstructHost
<1>3. h \in HostState
  <2>1. p \in Nat
    BY DEF CampaignInv, PreflightInv
  <2>2. receipt \in Seq(Principals \cup {"authorizer"})
    <3>1. PICK r \in Principals \cup {"authorizer"} : receipt = <<r>>
      OBVIOUS
    <3>2. QED
      BY <3>1
  <2>3. QED
    BY <2>1, <2>2 DEF HostState
<1>4. Admitted(h)
  BY <1>1 DEF Admitted, Admits, ValidReport
<1>5. Funded(s, h)
  BY MoneyIsNat DEF Funded
<1>6. AllCalled(s, h)'
  BY DEF AllCalled
<1>7. CallsInv'
  BY <1>2 DEF CampaignInv, CallsInv, CallOK, pvars
<1> HIDE DEF h
<1>8. hosts' = [hosts EXCEPT ![s] = h] /\ calls \subseteq calls'
  BY <1>1, <1>2 DEF h
<1>9. QED
  BY <1>2, <1>3, <1>4, <1>5, <1>6, <1>7, <1>8, HostStep

\* A valid bundle pays for every attempt it plans.
LEMMA CampaignAffords ==
  ASSUME NEW b \in Bundles, NEW s \in Systems, ValidBundle(Contents[b])
  PROVE  Attempts(b, s) * Contents[b].price[s] <= Contents[b].ceiling[s]
<1>1. Contents[b].worst[s] = WorstCase(Contents[b], s) /\ Contents[b].worst[s] <= Contents[b].ceiling[s]
  BY DEF ValidBundle, BudgetsFair
<1>2. QED
  BY <1>1 DEF WorstCase, Attempts

LEMMA EnterAttemptInv ==
  ASSUME CampaignInv, NEW s \in Systems, EnterAttempt(s), UNCHANGED <<rvars, yvars>>
  PROVE  CampaignInv'
<1> SUFFICES ASSUME NEW h, h = hosts[s], NEW t, t = now
             PROVE  CampaignInv'
  OBVIOUS
<1> DEFINE c == [system |-> s, preflight |-> h.preflight, number |-> h.done,
                 authority |-> h.authority, budget |-> h.budget, admitted |-> t]
<1>1. /\ h # NoHost /\ h \in HostState /\ ~h.entered /\ ~h.breached
      /\ Admitted(h) /\ Funded(s, h) /\ AllCalled(s, h)
  BY DEF CampaignInv, HostsInv, EnterAttempt
<1>2. h.done < Attempts(h.budget, s) /\ now < issued[h.preflight].expires
  BY DEF EnterAttempt
<1>3. /\ h.budget \in Bundles /\ h.campaign \in Bundles /\ h.done \in Nat /\ h.spent \in Nat
      /\ Contents[h.budget].price[s] \in Nat /\ Contents[h.budget].ceiling[s] \in Nat
      /\ Attempts(h.budget, s) \in Nat
  BY <1>1, MoneyIsNat DEF HostState
<1>4. UNCHANGED <<now, disk, pvars, manifests, yvars>>
  BY DEF EnterAttempt, cvars
<1>5. UNCHANGED issued
  BY <1>4 DEF pvars
<1>6. CASE h.spent + Contents[h.budget].price[s] <= Contents[h.budget].ceiling[s]
  <2> DEFINE g == [h EXCEPT !.entered = TRUE]
  <2>1. hosts' = [hosts EXCEPT ![s] = g] /\ calls' = calls \cup {c}
    BY <1>6 DEF EnterAttempt
  <2>2. g \in HostState /\ Admitted(g)
    BY <1>1 DEF HostState, Admitted
  <2>3. Funded(s, g)
    BY <1>1, <1>2, <1>6 DEF Funded, HostState
  <2>4. CallOK(c)
    BY <1>1, <1>2, <1>3 DEF Admitted, CallOK
  <2>5. CallsInv'
    BY <1>5, <2>1, <2>4 DEF CampaignInv, CallsInv, CallOK
  <2>6. AllCalled(s, g)'
    <3>1. g.done = h.done /\ g.preflight = h.preflight /\ g.budget = h.budget
      BY <1>1 DEF HostState
    <3>2. Called(s, h.preflight, h.budget, h.done)'
      <4>1. /\ c \in calls' /\ c.system = s /\ c.preflight = h.preflight
            /\ c.budget = h.budget /\ c.number = h.done
        BY <2>1
      <4> HIDE DEF c
      <4>2. QED
        BY <4>1 DEF Called
    <3>3. \A n \in Nat : n < h.done => Called(s, h.preflight, h.budget, n)'
      BY <1>1, <2>1 DEF AllCalled, Called
    <3>4. ASSUME NEW n \in Nat, n < g.done \/ n = g.done
          PROVE  Called(s, g.preflight, g.budget, n)'
      BY <3>1, <3>2, <3>3, <3>4
    <3>5. QED
      BY <3>4 DEF AllCalled
  <2> HIDE DEF g, c
  <2>7. QED
    BY <1>4, <2>1, <2>2, <2>3, <2>5, <2>6, HostStep
<1>7. CASE h.spent + Contents[h.budget].price[s] > Contents[h.budget].ceiling[s]
  <2> DEFINE g == [h EXCEPT !.refused = TRUE, !.breached = TRUE]
  <2>1. hosts' = [hosts EXCEPT ![s] = g] /\ calls' = calls
    <3>1. ~(h.spent + Contents[h.budget].price[s] <= Contents[h.budget].ceiling[s])
      BY <1>3, <1>7
    <3>2. QED
      BY <3>1 DEF EnterAttempt
  <2>2. /\ g \in HostState /\ Admitted(g) /\ g.done = h.done /\ g.preflight = h.preflight
        /\ g.budget = h.budget /\ g.campaign = h.campaign /\ ~g.entered /\ g.breached
    BY <1>1 DEF HostState, Admitted
  \* The campaign's own budget would have paid for this attempt.
  <2>3. h.budget # h.campaign
    <3> SUFFICES ASSUME h.budget = h.campaign PROVE FALSE
      OBVIOUS
    <3>1. ValidBundle(Contents[h.budget])
      BY <1>1 DEF Admitted, CampaignInv, PreflightInv, WellFounded
    <3> DEFINE n == Attempts(h.budget, s)
               price == Contents[h.budget].price[s]
               ceiling == Contents[h.budget].ceiling[s]
    <3>2. n * price <= ceiling
      BY <3>1, <1>3, CampaignAffords
    <3>3. h.spent <= h.done * price
      BY <1>1 DEF Funded
    <3>4. n \in Nat /\ price \in Nat /\ ceiling \in Nat /\ h.done \in Nat /\ h.spent \in Nat
          /\ h.done < n /\ h.spent + price > ceiling
      BY <1>2, <1>3, <1>7
    <3> HIDE DEF n, price, ceiling
    <3>5. h.done * price + price <= n * price
      BY <3>4, RoomForOneMore
    <3>6. h.done * price \in Nat /\ n * price \in Nat
      BY <3>4
    <3>7. QED
      BY <3>2, <3>3, <3>4, <3>5, <3>6
  <2>4. Funded(s, g)
    BY <2>2, <2>3 DEF Funded
  <2>5. CallsInv'
    BY <1>5, <2>1 DEF CampaignInv, CallsInv, CallOK
  <2>6. AllCalled(s, g)'
    <3>1. ASSUME NEW n \in Nat, n < g.done PROVE Called(s, g.preflight, g.budget, n)'
      BY <1>1, <2>1, <2>2, <3>1 DEF AllCalled, Called
    <3>2. QED
      BY <2>2, <3>1 DEF AllCalled
  <2> HIDE DEF g
  <2>7. QED
    BY <1>4, <2>1, <2>2, <2>4, <2>5, <2>6, HostStep
<1>8. QED
  BY <1>3, <1>6, <1>7

LEMMA SettleAttemptInv ==
  ASSUME CampaignInv, NEW s \in Systems, SettleAttempt(s), UNCHANGED <<rvars, yvars>>
  PROVE  CampaignInv'
<1> SUFFICES ASSUME NEW h, h = hosts[s] PROVE CampaignInv'
  OBVIOUS
<1>1. /\ h # NoHost /\ h \in HostState /\ h.entered
      /\ Admitted(h) /\ Funded(s, h) /\ AllCalled(s, h)
  BY DEF CampaignInv, HostsInv, SettleAttempt
<1> DEFINE price == Contents[h.budget].price[s]
           ceiling == Contents[h.budget].ceiling[s]
<1>2. price \in Nat /\ ceiling \in Nat /\ h.done \in Nat /\ h.spent \in Nat
  BY <1>1, MoneyIsNat DEF HostState
<1>3. PICK charge \in 0..(price + 1) :
        hosts' = [hosts EXCEPT ![s].entered = FALSE, ![s].done = h.done + 1,
                               ![s].spent = h.spent + charge, ![s].breached = charge > price]
  BY DEF SettleAttempt
<1>4. UNCHANGED <<now, disk, pvars, calls, manifests, yvars>>
  BY DEF SettleAttempt
<1> DEFINE over == charge > price
           g == [h EXCEPT !.entered = FALSE, !.done = h.done + 1,
                          !.spent = h.spent + charge, !.breached = over]
<1>5. hosts' = [hosts EXCEPT ![s] = g] /\ calls \subseteq calls' /\ over \in BOOLEAN
  <2>1. over \in BOOLEAN
    OBVIOUS
  <2>2. calls \subseteq calls'
    BY <1>4
  <2>3. QED
    BY <1>3, <2>1, <2>2, Zenon
<1>6. /\ g \in HostState /\ Admitted(g) /\ g.preflight = h.preflight /\ g.budget = h.budget
      /\ g.campaign = h.campaign /\ g.refused = h.refused /\ ~g.entered
      /\ g.done = h.done + 1 /\ g.spent = h.spent + charge /\ g.breached = over
  <2>1. h.done + 1 \in Nat /\ h.spent + charge \in Nat
    BY <1>2
  <2> HIDE DEF over
  <2>2. QED
    BY <1>1, <1>5, <2>1 DEF HostState, Admitted
<1>7. Funded(s, g)
  <2>1. /\ h.spent <= h.done * price /\ h.spent + price <= ceiling
        /\ h.budget = h.campaign => ~h.refused
    BY <1>1 DEF Funded
  <2>2. charge <= price => g.spent <= g.done * price /\ g.spent <= ceiling
    <3> HIDE DEF price, ceiling, g
    <3>1. h.done * price \in Nat /\ (h.done + 1) * price = h.done * price + price
      BY <1>2
    <3>2. QED
      BY <1>2, <1>6, <2>1, <3>1
  <2>3. ~g.breached => charge <= price
    <3>1. ~over => charge <= price
      BY <1>2
    <3> HIDE DEF over, g
    <3>2. QED
      BY <1>6, <3>1
  <2>4. QED
    BY <1>6, <2>1, <2>2, <2>3 DEF Funded
<1>8. CallsInv'
  BY <1>4 DEF CampaignInv, CallsInv, CallOK, pvars
<1>9. AllCalled(s, g)'
  <2>1. ASSUME NEW n \in Nat, n < g.done PROVE Called(s, g.preflight, g.budget, n)'
    <3>1. n < h.done \/ n = h.done
      BY <1>2, <1>6, <2>1
    <3>2. QED
      BY <1>1, <1>4, <1>6, <3>1 DEF AllCalled, Called
  <2>2. QED
    BY <1>6, <2>1 DEF AllCalled
<1> HIDE DEF g
<1>10. QED
  BY <1>4, <1>5, <1>6, <1>7, <1>8, <1>9, HostStep

LEMMA TakeManifestInv ==
  ASSUME CampaignInv, NEW s \in Systems, TakeManifest(s), UNCHANGED <<rvars, yvars>>
  PROVE  CampaignInv'
<1> SUFFICES ASSUME NEW h, h = hosts[s] PROVE CampaignInv'
  OBVIOUS
<1>1. /\ h # NoHost /\ h \in HostState /\ ~h.breached /\ h.done = Attempts(h.budget, s)
      /\ Admitted(h) /\ Funded(s, h) /\ AllCalled(s, h)
  BY DEF CampaignInv, HostsInv, TakeManifest
<1> DEFINE m == [system |-> s, campaign |-> h.campaign, preflight |-> h.preflight,
                 attempts |-> h.done, price |-> Contents[h.budget].price[s],
                 ceiling |-> Contents[h.budget].ceiling[s], spent |-> h.spent]
<1>2. manifests' = manifests \cup {m} /\ UNCHANGED <<cvars, pvars, hosts, built, calls>>
  BY DEF TakeManifest
<1>3. UNCHANGED <<now, plan, run, issued, hosts, calls, yvars>>
  BY <1>2 DEF cvars, disk, pvars
<1>4. ManifestOK(m)
  <2>1. h.budget \in Bundles /\ h.done \in Nat
    BY <1>1 DEF HostState
  <2>2. m.preflight \in DOMAIN issued /\ issued[m.preflight].campaign = m.campaign
    BY <1>1 DEF Admitted
  <2>3. m.spent <= m.ceiling
    BY <1>1 DEF Funded
  <2>4. <<m.attempts, m.price, m.ceiling>> = Funds(h.budget, m.system)
    BY <1>1 DEF Funds
  <2>5. \A n \in Nat : n < m.attempts => Called(m.system, m.preflight, h.budget, n)
    BY <1>1 DEF AllCalled
  <2> HIDE DEF m
  <2>6. QED
    BY <2>1, <2>2, <2>3, <2>4, <2>5 DEF ManifestOK
<1> HIDE DEF m
<1>5. ManifestsInv'
  BY <1>2, <1>3, <1>4 DEF CampaignInv, ManifestsInv, ManifestOK, Called
<1>6. PreflightInv' /\ CallsInv'
  BY <1>3 DEF CampaignInv, PreflightInv, RunInv, Reading, Timing, Asking, Idle, CallsInv, CallOK
<1>7. HostsInv'
  BY <1>3 DEF CampaignInv, HostsInv, Admitted, Funded, AllCalled, Called
<1>8. ReplaysInv'
  BY <1>2, <1>3, ReplaysStay DEF CampaignInv
<1>9. QED
  BY <1>5, <1>6, <1>7, <1>8 DEF CampaignInv

------------------------------------------------------------------------------
(* Reports, claims and replays.                                            *)

\* A step after the execution.
LEMMA LaterStep ==
  ASSUME CampaignInv, UNCHANGED <<now, disk, pvars, evars>>, ReplaysInv'
  PROVE  CampaignInv'
<1>1. UNCHANGED <<now, plan, run, issued, hosts, calls, manifests>>
  BY DEF disk, pvars, evars
<1>2. PreflightInv' /\ CallsInv'
  BY <1>1 DEF CampaignInv, PreflightInv, RunInv, Reading, Timing, Asking, Idle, CallsInv, CallOK
<1>3. HostsInv' /\ ManifestsInv'
  BY <1>1 DEF CampaignInv, HostsInv, Admitted, Funded, AllCalled, Called, ManifestsInv, ManifestOK
<1>4. QED
  BY <1>2, <1>3 DEF CampaignInv

LEMMA ReportingStepInv ==
  ASSUME CampaignInv, AuthorityChanges \/ Reports \/ WriteInventory, UNCHANGED yvars
  PROVE  CampaignInv'
<1>1. UNCHANGED <<now, disk, pvars, evars>>
  BY DEF AuthorityChanges, Reports, BuildReport, WriteInventory
<1>2. ReplaysInv'
  BY <1>1, ReplaysStay DEF CampaignInv, pvars, evars
<1>3. QED
  BY <1>1, <1>2, LaterStep

LEMMA FreezePlanInv ==
  ASSUME CampaignInv, FreezePlan
  PROVE  CampaignInv'
<1>1. UNCHANGED <<now, disk, pvars, evars, replaying, replays>> /\ frozen = NoPlan
  BY DEF FreezePlan
<1>2. UNCHANGED <<issued, manifests>>
  BY <1>1 DEF pvars, evars
<1>3. frozen'.preflight \in DOMAIN issued /\ \A s \in Systems : frozen'.executions[s] \in manifests
  BY DEF FreezePlan
<1>4. replaying = Idle /\ \A k \in Places : ~replays[k].passed
  BY <1>1 DEF CampaignInv, ReplaysInv
<1>5. ReplaysInv'
  BY <1>1, <1>2, <1>3, <1>4 DEF CampaignInv, ReplaysInv, TopTier, Idle
<1>6. QED
  BY <1>1, <1>5, LaterStep

LEMMA ReplayReportInv ==
  ASSUME CampaignInv, NEW k \in Places, NEW asOf \in Times, ReplayReport(k, asOf)
  PROVE  CampaignInv'
<1>1. UNCHANGED <<now, disk, pvars, evars, frozen>> /\ frozen # NoPlan
  BY DEF ReplayReport, cvars
<1>2. UNCHANGED <<issued, manifests>>
  BY <1>1 DEF pvars, evars
<1>3. \/ replaying'.place = k /\ replays' = replays
      \/ replaying' = Idle /\ replays' = [replays EXCEPT ![k] = NoReplay]
  BY DEF ReplayReport
<1>4. ASSUME NEW j \in Places
      PROVE  TopTier(j)' => OneCampaign(frozen, replays[j].report)'
  <2>1. TopTier(j)' => replays'[j] = replays[j] /\ TopTier(j)
    BY <1>3 DEF CampaignInv, ReplaysInv, TopTier, NoReplay
  <2>2. QED
    BY <1>1, <1>2, <2>1 DEF CampaignInv, ReplaysInv, OneCampaign, ValidReport, ExecutionBundle
<1>5. replays' = [j \in Places |-> replays'[j]]
  BY <1>3 DEF CampaignInv, ReplaysInv
<1>6. replaying' # Idle => replaying'.place \in Places
  BY <1>3
<1>7. ReplaysInv'
  BY <1>1, <1>2, <1>4, <1>5, <1>6 DEF CampaignInv, ReplaysInv, Idle
<1>8. QED
  BY <1>1, <1>7, LaterStep

LEMMA ReplayEvidenceInv ==
  ASSUME CampaignInv, ReplayEvidence
  PROVE  CampaignInv'
<1> SUFFICES ASSUME NEW k, k = replaying.place, NEW by, by = frozen.group[k],
                    NEW r, r = replaying.report, NEW asOf, asOf = replaying.asOf
             PROVE  CampaignInv'
  OBVIOUS
<1>1. UNCHANGED <<now, disk, pvars, evars, frozen>> /\ replaying # Idle /\ replaying' = Idle
  BY DEF ReplayEvidence
<1>2. UNCHANGED <<issued, manifests>> /\ frozen # NoPlan /\ k \in Places
  BY <1>1 DEF pvars, evars, CampaignInv, ReplaysInv
<1>3. PICK receipt : replays' = [replays EXCEPT ![k] =
        IF TopTierStands(frozen, r) /\ receipt # NoReceipt
          THEN [passed |-> TRUE, by |-> by, receipt |-> receipt, asOf |-> asOf, report |-> r]
          ELSE NoReplay]
  BY DEF ReplayEvidence
<1>4. replays = [j \in Places |-> replays[j]]
  BY DEF CampaignInv, ReplaysInv
<1>5. ASSUME NEW j \in Places, TopTier(j)'
      PROVE  OneCampaign(frozen, replays[j].report)'
  <2>1. CASE j = k
    <3>1. TopTierStands(frozen, r) /\ replays'[j].report = r /\ r.status = "top_tier_scoped"
      BY <1>3, <1>4, <1>5, <2>1 DEF TopTier, NoReplay
    <3>2. OneCampaign(frozen, r)
      BY <3>1 DEF TopTierStands
    <3>3. QED
      BY <1>1, <1>2, <3>1, <3>2 DEF OneCampaign, ValidReport, ExecutionBundle
  <2>2. CASE j # k
    <3>1. replays'[j] = replays[j]
      BY <1>3, <1>4, <2>2
    <3>2. OneCampaign(frozen, replays[j].report)
      BY <1>5, <3>1 DEF CampaignInv, ReplaysInv, TopTier
    <3>3. QED
      BY <1>1, <1>2, <3>1, <3>2 DEF OneCampaign, ValidReport, ExecutionBundle
  <2>3. QED
    BY <2>1, <2>2
<1>6. replays' = [j \in Places |-> replays'[j]]
  BY <1>3, <1>4
<1>7. ReplaysInv'
  BY <1>1, <1>2, <1>5, <1>6 DEF CampaignInv, ReplaysInv, Idle
<1>8. QED
  BY <1>1, <1>7, LaterStep

LEMMA BuildReproductionInv ==
  ASSUME CampaignInv, BuildReproduction
  PROVE  CampaignInv'
<1>1. UNCHANGED <<now, disk, pvars, evars, frozen, replaying, replays>>
  BY DEF BuildReproduction, cvars
<1>2. UNCHANGED <<issued, manifests>>
  BY <1>1 DEF pvars, evars
<1>3. ReplaysInv'
  BY <1>1, <1>2 DEF CampaignInv, ReplaysInv, TopTier, OneCampaign, ValidReport, ExecutionBundle, Idle
<1>4. QED
  BY <1>1, <1>3, LaterStep

------------------------------------------------------------------------------
(* The invariant of the campaign.                                          *)

LEMMA InitInv == ASSUME Init PROVE CampaignInv
<1>1. PreflightInv
  BY ContractsAssumption
  DEF Init, ContractsInit, PreflightInit, PreflightInv, RunInv, Idle, Times
<1>2. HostsInv /\ CallsInv /\ ManifestsInv
  BY DEF Init, ExecutionInit, HostsInv, CallsInv, ManifestsInv
<1>3. ReplaysInv
  BY DEF Init, ReplayInit, ReplaysInv, TopTier, NoReplay
<1>4. QED
  BY <1>1, <1>2, <1>3 DEF CampaignInv

LEMMA NextInv == ASSUME CampaignInv, [Next]_vars PROVE CampaignInv'
<1>1. CASE Environment
  BY <1>1, EnvironmentInv
<1>2. CASE PreflightNext /\ UNCHANGED <<evars, rvars, yvars>>
  BY <1>2, LoadPlanInv, LoadFilesInv, AskClockInv, AskAuthoritiesInv DEF PreflightNext
<1>3. CASE ExecutionNext /\ UNCHANGED <<rvars, yvars>>
  BY <1>3, ConstructHostInv, EnterAttemptInv, SettleAttemptInv, TakeManifestInv DEF ExecutionNext
<1>4. CASE (AuthorityChanges \/ Reports \/ WriteInventory) /\ UNCHANGED yvars
  BY <1>4, ReportingStepInv
<1>5. CASE ReplayNext
  BY <1>5, FreezePlanInv, ReplayReportInv, ReplayEvidenceInv, BuildReproductionInv DEF ReplayNext
<1>6. CASE UNCHANGED vars
  <2>1. UNCHANGED <<now, disk, pvars, evars, yvars>>
    BY <1>6 DEF vars, cvars
  <2>2. ReplaysInv'
    BY <2>1, ReplaysStay DEF CampaignInv, pvars, evars
  <2>3. QED
    BY <2>1, <2>2, LaterStep
<1>7. QED
  BY <1>1, <1>2, <1>3, <1>4, <1>5, <1>6 DEF Next

\* Every step of a campaign preserves what each of its stages knows of the ones
\* before it, whatever is edited, withdrawn or handed over in between.
THEOREM CampaignInvariant == Spec => []CampaignInv
<1>1. Init => CampaignInv
  BY InitInv
<1>2. CampaignInv /\ [Next]_vars => CampaignInv'
  BY NextInv
<1>3. QED
  BY <1>1, <1>2, PTL DEF Spec

\* A provider is called only under a fair campaign (CallsFollowPreflight), for
\* every bundle on disk, order of steps and number of preflights and hosts.
THEOREM CallsFollowPreflightHolds == Spec => []CallsFollowPreflight
<1>1. CampaignInv => CallsFollowPreflight
  <2> SUFFICES ASSUME CampaignInv, NEW c \in calls, NEW p, p = issued[c.preflight]
               PROVE /\ p.passed
                     /\ Contents[p.campaign].created <= p.timestamp
                     /\ p.timestamp <= c.admitted /\ c.admitted < Contents[p.campaign].expires
                     /\ Cardinality(p.receipts \cup {c.authority}) = 5
                     /\ \A j \in Contents[p.campaign].judges, s \in Systems :
                          Contents[p.campaign].maker[j] # Contents[p.campaign].maker[s]
    BY DEF CallsFollowPreflight
  <2>1. CallOK(c) /\ c.preflight \in DOMAIN issued
    BY DEF CampaignInv, CallsInv, CallOK
  <2>2. /\ p.passed /\ Cardinality(p.receipts) = 4 /\ c.authority \notin p.receipts
        /\ p.timestamp <= c.admitted /\ c.admitted < p.expires
    BY <2>1 DEF CallOK
  <2>3. WellFounded(p)
    BY <2>1 DEF CampaignInv, PreflightInv
  <2>4. Cardinality(p.receipts \cup {c.authority}) = 5
    <3>1. IsFiniteSet(p.receipts)
      BY <2>2, <2>3 DEF WellFounded
    <3>2. Cardinality(p.receipts \cup {c.authority}) = Cardinality(p.receipts) + 1
      BY <2>2, <3>1, FS_AddElement
    <3>3. QED
      BY <2>2, <3>2
  <2>5. \A j \in Contents[p.campaign].judges, s \in Systems :
          Contents[p.campaign].maker[j] # Contents[p.campaign].maker[s]
    BY <2>2, <2>3 DEF WellFounded, ValidBundle, JudgesIndependent
  <2>6. QED
    BY <2>2, <2>3, <2>4, <2>5 DEF WellFounded
<1>2. QED
  BY <1>1, CampaignInvariant, PTL

\* A host that runs under the campaign's own ceilings is never refused by its
\* ledger (AffordedToTheEnd), whatever prices, retries and ceilings are frozen.
THEOREM AffordedToTheEndHolds == Spec => []AffordedToTheEnd
<1>1. CampaignInv => AffordedToTheEnd
  BY DEF CampaignInv, HostsInv, Funded, AffordedToTheEnd
<1>2. QED
  BY <1>1, CampaignInvariant, PTL

\* A top-tier report that was replayed is one campaign (ReplayedIsOneCampaign):
\* the manifests replayed with it account for every call under its plan.
THEOREM ReplayedIsOneCampaignHolds == Spec => []ReplayedIsOneCampaign
<1>1. CampaignInv => ReplayedIsOneCampaign
  <2> SUFFICES ASSUME CampaignInv, NEW k \in Places, TopTier(k), NEW r, r = replays[k].report
               PROVE LET b == Contents[r.campaign]
                         underPlan(c) == /\ c.preflight = r.preflight
                                         /\ Funds(c.budget, c.system) = Funds(r.campaign, c.system)
                         made(s) == {c.number : c \in {c \in calls : c.system = s /\ underPlan(c)}}
                     IN /\ issued[r.preflight].campaign = r.campaign
                        /\ \A s \in Systems :
                             /\ frozen.executions[s].preflight = r.preflight
                             /\ made(s) = 0..(b.units[s] * b.retries[s] - 1)
                             /\ frozen.executions[s].spent <= b.ceiling[s]
    BY DEF ReplayedIsOneCampaign, TopTier
  <2> DEFINE underPlan(c) == /\ c.preflight = r.preflight
                             /\ Funds(c.budget, c.system) = Funds(r.campaign, c.system)
             made(s) == {c.number : c \in {c \in calls : c.system = s /\ underPlan(c)}}
             m(s) == frozen.executions[s]
  <2>1. OneCampaign(frozen, r) /\ frozen # NoPlan
    BY DEF CampaignInv, ReplaysInv, TopTier
  <2>2. \A s \in Systems : /\ m(s).system = s /\ m(s).campaign = r.campaign
                           /\ m(s).preflight = r.preflight
                           /\ <<m(s).attempts, m(s).price, m(s).ceiling>> = Funds(r.campaign, s)
                           /\ ManifestOK(m(s))
    <3>1. \A s \in Systems : m(s) \in manifests /\ ManifestOK(m(s))
      BY <2>1 DEF CampaignInv, ReplaysInv, ManifestsInv
    <3>2. \A s \in Systems : /\ m(s).system = s /\ m(s).campaign = r.campaign
                             /\ m(s).preflight = r.preflight
      BY <2>1 DEF OneCampaign, ExecutionBundle
    <3>3. ASSUME NEW s \in Systems
          PROVE  <<m(s).attempts, m(s).price, m(s).ceiling>> = Funds(r.campaign, s)
      <4>1. /\ m(s).attempts = Attempts(r.campaign, s) /\ m(s).price = Contents[r.campaign].price[s]
            /\ m(s).ceiling = Contents[r.campaign].ceiling[s]
        BY <2>1 DEF OneCampaign, ExecutionBundle
      <4>2. QED
        BY <4>1 DEF Funds
    <3>4. QED
      BY <3>1, <3>2, <3>3
  <2>3. issued[r.preflight].campaign = r.campaign
    <3>1. PICK s \in Systems : TRUE
      BY ContractsAssumption
    <3>2. QED
      BY <2>2, <3>1 DEF ManifestOK
  <2>4. ASSUME NEW s \in Systems
        PROVE  made(s) = {n \in Nat : n < Attempts(r.campaign, s)}
    <3>1. ASSUME NEW c \in calls, c.system = s, underPlan(c)
          PROVE  c.number \in Nat /\ c.number < Attempts(r.campaign, s)
      BY <3>1 DEF CampaignInv, CallsInv, CallOK, Funds
    <3>2. ASSUME NEW n \in Nat, n < Attempts(r.campaign, s)
          PROVE  n \in made(s)
      <4>1. PICK b \in Bundles : /\ Funds(r.campaign, s) = Funds(b, s)
                                 /\ \A i \in Nat : i < m(s).attempts => Called(s, r.preflight, b, i)
        BY <2>2 DEF ManifestOK
      <4>2. m(s).attempts = Attempts(r.campaign, s)
        BY <2>2 DEF Funds
      <4>3. Called(s, r.preflight, b, n)
        BY <3>2, <4>1, <4>2
      <4>4. QED
        BY <4>1, <4>3 DEF Called
    <3>3. QED
      BY <3>1, <3>2
  <2>5. ASSUME NEW s \in Systems
        PROVE  /\ {n \in Nat : n < Attempts(r.campaign, s)} = 0..(Attempts(r.campaign, s) - 1)
               /\ m(s).spent <= Contents[r.campaign].ceiling[s]
    <3>1. Attempts(r.campaign, s) \in Nat
      BY <2>2, MoneyIsNat DEF ManifestOK, Funds
    <3>2. QED
      BY <2>2, <3>1 DEF ManifestOK, Funds
  <2>6. QED
    BY <2>2, <2>3, <2>4, <2>5 DEF Attempts
<1>2. QED
  BY <1>1, CampaignInvariant, PTL

------------------------------------------------------------------------------
(***************************************************************************)
(* Reports, the claims made from them and their replays.                   *)
(***************************************************************************)

\* What every item of a top-tier report shows on its own, and all together.
ItemsEarned(r) ==
  /\ \A i \in Items : /\ r.items[i].outcome = "passed" /\ r.items[i].by # NoAuthority
                      /\ i \in Comparisons => r.items[i].lower > Margin
  /\ \A i, j \in Items : r.items[i].receipt = r.items[j].receipt => i = j
  /\ RolesIndependent(r.items)

\* What the evidence under it shows, which no later step can take back.
EvidenceEarned(r) ==
  \A i \in Items : /\ r.items[i].failedCases = 0 /\ r.items[i].evidence = r.campaign
                   /\ r.asOf <= r.items[i].dated /\ r.items[i].dated < r.expires
                   /\ r.items[i].semantic \notin ReportAuthorities(r)

\* The claims of the inventory, as they were validated for r at the time asOf.
ClaimsHold(r, asOf) ==
  /\ r.asOf <= asOf /\ asOf < r.expires
  /\ \A c \in inventory.claims : /\ c.status = r.status
                                 /\ asOf < c.expires /\ c.expires <= r.expires
                                 /\ \A q \in c.metrics : q = Metric(r, q.source)

IsTopTier(r) == r.status = "top_tier_scoped"

\* A report that was rebuilt as it was frozen, with the claims made from it.
Rebuilt(r, asOf) == /\ frozen # NoPlan /\ r = frozen.report /\ ClaimsHold(r, asOf)
                    /\ IsTopTier(r) => ItemsEarned(r)

\* A replay that passed.
Certified(rep) == /\ Rebuilt(rep.report, rep.asOf)
                  /\ IsTopTier(rep.report) => EvidenceEarned(rep.report)

ReplayingInv ==
  /\ frozen # NoPlan => inventory # NoInventory
  /\ replaying # Idle => Rebuilt(replaying.report, replaying.asOf) /\ replaying.place \in Places

ReplayedInv ==
  /\ replays = [k \in Places |-> replays[k]]
  /\ \A k \in Places : replays[k].passed => Certified(replays[k])

ReproducedInv ==
  reproduction # <<>> =>
    /\ \A k \in Places : Certified(reproduction[k])
    /\ \A f \in {"operator", "machine", "authority"} : \A j, k \in Places :
         reproduction[j].by[f] = reproduction[k].by[f] => j = k
    /\ \A k \in Places : /\ reproduction[k].report = reproduction[1].report
                         /\ reproduction[k].asOf = reproduction[1].asOf

ReplayInv == ReplayingInv /\ ReplayedInv /\ ReproducedInv

------------------------------------------------------------------------------
(* Facts about reports.                                                    *)

\* Only items that all passed, with authorities that are confirmed and have one
\* role each, make a report top tier.
LEMMA TopTierItems ==
  ASSUME NEW r, ValidInput(r), r.status = StatusOf(r.items), IsTopTier(r)
  PROVE  ItemsEarned(r)
<1>1. /\ {i \in Items : r.items[i].outcome = "not_evaluable"} = {}
      /\ {i \in Items : r.items[i].outcome = "failed"} = {}
      /\ Confirmed(r.items) /\ RolesIndependent(r.items)
  BY DEF StatusOf, IsTopTier
<1>2. \A i \in Items : r.items[i].outcome = "passed"
  BY <1>1 DEF ValidInput, ValidItem, Outcomes
<1>3. \A i \in Items : /\ r.items[i].by # NoAuthority
                       /\ i \in Comparisons => r.items[i].lower > Margin
  BY <1>2 DEF ValidInput, ValidItem
<1>4. \A i, j \in Items : r.items[i].receipt = r.items[j].receipt => i = j
  BY <1>1, <1>3 DEF Confirmed, Populated
<1>5. QED
  BY <1>1, <1>2, <1>3, <1>4 DEF ItemsEarned

------------------------------------------------------------------------------
(* The steps.                                                              *)

\* Before a plan is frozen nothing was replayed; after, the claims stay.
LEMMA ClaimsStay ==
  ASSUME ReplayInv, UNCHANGED yvars, inventory # NoInventory => UNCHANGED inventory
  PROVE  ReplayInv'
<1>1. UNCHANGED <<frozen, replaying, replays, reproduction>>
  BY DEF yvars
<1>2. CASE frozen = NoPlan
  <2>1. \A k \in Places : ~replays[k].passed
    BY <1>2 DEF ReplayInv, ReplayedInv, Certified, Rebuilt
  <2>2. replaying = Idle /\ reproduction = <<>>
    BY <1>2 DEF ReplayInv, ReplayingInv, ReproducedInv, Certified, Rebuilt, Places
  <2>3. QED
    BY <1>1, <1>2, <2>1, <2>2 DEF ReplayInv, ReplayingInv, ReplayedInv, ReproducedInv, Idle
<1>3. CASE frozen # NoPlan
  <2>1. UNCHANGED inventory
    BY <1>3 DEF ReplayInv, ReplayingInv
  <2>2. QED
    BY <1>1, <2>1 DEF ReplayInv, ReplayingInv, ReplayedInv, ReproducedInv, Certified, Rebuilt,
                      ClaimsHold, NoInventory, Idle
<1>4. QED
  BY <1>2, <1>3

LEMMA FreezePlanReplays ==
  ASSUME ReplayInv, FreezePlan
  PROVE  ReplayInv'
<1>1. /\ frozen = NoPlan /\ inventory # NoInventory
      /\ UNCHANGED <<inventory, replaying, replays, reproduction>>
  BY DEF FreezePlan, rvars
<1>2. \A k \in Places : ~replays[k].passed
  BY <1>1 DEF ReplayInv, ReplayedInv, Certified, Rebuilt
<1>3. replaying = Idle /\ reproduction = <<>>
  BY <1>1 DEF ReplayInv, ReplayingInv, ReproducedInv, Certified, Rebuilt, Places
<1>4. QED
  BY <1>1, <1>2, <1>3 DEF ReplayInv, ReplayingInv, ReplayedInv, ReproducedInv, Idle, NoInventory

LEMMA ReplayReportReplays ==
  ASSUME ReplayInv, NEW k \in Places, NEW asOf \in Times, ReplayReport(k, asOf)
  PROVE  ReplayInv'
<1>1. /\ frozen # NoPlan
      /\ UNCHANGED <<frozen, inventory, reproduction>>
  BY DEF ReplayReport, rvars
<1> DEFINE r == frozen.report
           accepts == /\ ValidInput(r) /\ Built(r) = r
                      /\ ValidInventory(inventory, r, asOf)
<1>2. \/ /\ accepts
         /\ replaying' = [at |-> "evidence", place |-> k, asOf |-> asOf, report |-> r]
         /\ replays' = replays
      \/ replaying' = Idle /\ replays' = [replays EXCEPT ![k] = NoReplay]
  BY DEF ReplayReport
<1>3. accepts => Rebuilt(r, asOf)
  <2> SUFFICES ASSUME accepts PROVE Rebuilt(r, asOf)
    OBVIOUS
  <2>1. r.status = StatusOf(r.items)
    BY DEF Built
  <2>2. IsTopTier(r) => ItemsEarned(r)
    BY <2>1, TopTierItems
  <2>3. ClaimsHold(r, asOf)
    BY DEF ValidInventory, ValidClaim, ScopeWithin, MetricsMirror, ClaimsHold
  <2>4. QED
    BY <1>1, <2>2, <2>3 DEF Rebuilt
<1>4. \A rep : Certified(rep) => Certified(rep)'
  BY <1>1 DEF Certified, Rebuilt, ClaimsHold
<1>5. ReplayingInv'
  <2>1. CASE accepts /\ replaying' = [at |-> "evidence", place |-> k, asOf |-> asOf, report |-> r]
    <3>1. Rebuilt(r, asOf)'
      BY <1>1, <1>3, <2>1 DEF Rebuilt, ClaimsHold
    <3>2. QED
      BY <1>1, <2>1, <3>1 DEF ReplayInv, ReplayingInv, NoInventory
  <2>2. CASE replaying' = Idle
    BY <1>1, <2>2 DEF ReplayInv, ReplayingInv, Idle, NoInventory
  <2>3. QED
    BY <1>2, <2>1, <2>2
<1>6. ReplayedInv'
  BY <1>2, <1>4 DEF ReplayInv, ReplayedInv, NoReplay
<1>7. ReproducedInv'
  BY <1>1, <1>4 DEF ReplayInv, ReproducedInv
<1>8. QED
  BY <1>5, <1>6, <1>7 DEF ReplayInv

LEMMA ReplayEvidenceReplays ==
  ASSUME ReplayInv, ReplayEvidence
  PROVE  ReplayInv'
<1> SUFFICES ASSUME NEW k, k = replaying.place, NEW by, by = frozen.group[k],
                    NEW r, r = replaying.report, NEW asOf, asOf = replaying.asOf
             PROVE  ReplayInv'
  OBVIOUS
<1>1. /\ replaying # Idle /\ replaying' = Idle
      /\ UNCHANGED <<frozen, inventory, reproduction>>
  BY DEF ReplayEvidence, rvars
<1>2. Rebuilt(r, asOf) /\ k \in Places
  BY <1>1 DEF ReplayInv, ReplayingInv
<1>3. PICK receipt : replays' = [replays EXCEPT ![k] =
        IF TopTierStands(frozen, r) /\ receipt # NoReceipt
          THEN [passed |-> TRUE, by |-> by, receipt |-> receipt, asOf |-> asOf, report |-> r]
          ELSE NoReplay]
  BY DEF ReplayEvidence
<1>4. \A rep : Certified(rep) => Certified(rep)'
  BY <1>1 DEF Certified, Rebuilt, ClaimsHold
<1>5. ASSUME NEW j \in Places, replays'[j].passed PROVE Certified(replays[j])'
  <2>1. CASE j = k
    <3>1. TopTierStands(frozen, r) /\ replays'[j].report = r /\ replays'[j].asOf = asOf
      BY <1>3, <1>5, <2>1 DEF ReplayInv, ReplayedInv, NoReplay
    <3>2. IsTopTier(r) => EvidenceEarned(r)
      BY <3>1 DEF TopTierStands, IsTopTier, EvidenceStands, EvidenceFormed, EvidenceEarned
    <3>3. Rebuilt(r, asOf)'
      BY <1>1, <1>2 DEF Rebuilt, ClaimsHold
    <3>4. QED
      BY <3>1, <3>2, <3>3 DEF Certified
  <2>2. CASE j # k
    <3>1. replays'[j] = replays[j]
      BY <1>3, <2>2 DEF ReplayInv, ReplayedInv
    <3>2. QED
      BY <1>4, <1>5, <3>1 DEF ReplayInv, ReplayedInv
  <2>3. QED
    BY <2>1, <2>2
<1>6. replays' = [j \in Places |-> replays'[j]]
  BY <1>3 DEF ReplayInv, ReplayedInv
<1>7. QED
  BY <1>1, <1>4, <1>5, <1>6 DEF ReplayInv, ReplayingInv, ReplayedInv, ReproducedInv, Idle, NoInventory

LEMMA BuildReproductionReplays ==
  ASSUME ReplayInv, BuildReproduction
  PROVE  ReplayInv'
<1>1. UNCHANGED <<frozen, inventory, replaying, replays>>
  BY DEF BuildReproduction, rvars
<1>2. PICK order \in [Places -> Places] :
        IsReproduction([k \in Places |-> replays[order[k]]])
        /\ reproduction' = [k \in Places |-> replays[order[k]]]
  BY DEF BuildReproduction
<1> DEFINE rs == [k \in Places |-> replays[order[k]]]
<1>3. /\ \A k \in Places : rs[k].passed /\ rs[k] = replays[order[k]]
      /\ \A f \in {"operator", "machine", "authority"} : \A j, k \in Places :
           rs[j].by[f] = rs[k].by[f] => j = k
      /\ \A k \in Places : rs[k].report = rs[1].report /\ rs[k].asOf = rs[1].asOf
  BY <1>2 DEF IsReproduction, ValidReplay, Distinct
<1>4. \A k \in Places : Certified(rs[k])
  <2> SUFFICES ASSUME NEW k \in Places PROVE Certified(rs[k])
    OBVIOUS
  <2>1. order[k] \in Places /\ rs[k] = replays[order[k]] /\ replays[order[k]].passed
    BY <1>3
  <2>2. Certified(replays[order[k]])
    BY <2>1 DEF ReplayInv, ReplayedInv
  <2> HIDE DEF rs
  <2>3. QED
    BY <2>1, <2>2
<1>5. \A rep : Certified(rep) => Certified(rep)'
  BY <1>1 DEF Certified, Rebuilt, ClaimsHold
<1>6. ReproducedInv'
  <2> SUFFICES ASSUME NEW rr, rr = rs PROVE ReproducedInv'
    OBVIOUS
  <2>1. reproduction' = rr
    BY <1>2
  <2> HIDE DEF rs
  <2>2. QED
    BY <1>3, <1>4, <1>5, <2>1 DEF ReproducedInv
<1>7. QED
  BY <1>1, <1>6 DEF ReplayInv, ReplayingInv, ReplayedInv, Certified, Rebuilt, ClaimsHold, Idle, NoInventory

LEMMA NextReplays == ASSUME ReplayInv, [Next]_vars PROVE ReplayInv'
<1>1. CASE ReplayNext
  BY <1>1, FreezePlanReplays, ReplayReportReplays, ReplayEvidenceReplays, BuildReproductionReplays
  DEF ReplayNext
<1>2. CASE UNCHANGED yvars /\ (inventory # NoInventory => UNCHANGED inventory)
  BY <1>2, ClaimsStay
<1>3. CASE Environment \/ UNCHANGED vars
  BY <1>2, <1>3 DEF Environment, rvars, vars
<1>4. CASE PreflightNext /\ UNCHANGED <<evars, rvars, yvars>>
  BY <1>2, <1>4 DEF rvars
<1>5. CASE ExecutionNext /\ UNCHANGED <<rvars, yvars>>
  BY <1>2, <1>5 DEF rvars
<1>6. CASE (AuthorityChanges \/ Reports \/ WriteInventory) /\ UNCHANGED yvars
  <2>1. inventory # NoInventory => UNCHANGED inventory
    BY <1>6 DEF AuthorityChanges, Reports, BuildReport, WriteInventory
  <2>2. QED
    BY <1>2, <1>6, <2>1
<1>7. QED
  BY <1>1, <1>3, <1>4, <1>5, <1>6 DEF Next

\* What was replayed rests on what was checked when it was, and stays so.
THEOREM ReplayInvariant == Spec => []ReplayInv
<1>1. Init => ReplayInv
  BY DEF Init, ReportingInit, ReplayInit, ReplayInv, ReplayingInv, ReplayedInv, ReproducedInv, NoReplay
<1>2. ReplayInv /\ [Next]_vars => ReplayInv'
  BY NextReplays
<1>3. QED
  BY <1>1, <1>2, PTL DEF Spec

------------------------------------------------------------------------------
(* What the invariant says of the properties.                              *)

\* A set that is indexed without repetition is as large as its index.
LEMMA OneToOne ==
  ASSUME NEW S, IsFiniteSet(S), NEW T, NEW f \in [S -> T],
         \A t \in T : \E i \in S : f[i] = t,
         \A i, j \in S : f[i] = f[j] => i = j
  PROVE  Cardinality(T) = Cardinality(S)
<1>1. f \in Surjection(S, T) /\ f \in Injection(S, T)
  BY DEF Surjection, Injection, IsInjective
<1>2. QED
  BY <1>1, FS_Surjection

LEMMA ItemsFinite == IsFiniteSet(Items)
  BY ReportingAssumption, FS_Union DEF Items

LEMMA PlacesAreThree == IsFiniteSet(Places) /\ Cardinality(Places) = 3
<1>1. IsFiniteSet({1}) /\ Cardinality({1}) = 1
  BY FS_Singleton
<1>2. IsFiniteSet({1} \cup {2}) /\ Cardinality({1} \cup {2}) = 2
  BY <1>1, FS_AddElement
<1>3. IsFiniteSet(({1} \cup {2}) \cup {3}) /\ Cardinality(({1} \cup {2}) \cup {3}) = 3
  BY <1>2, FS_AddElement
<1>4. Places = ({1} \cup {2}) \cup {3}
  BY DEF Places
<1>5. QED
  BY <1>3, <1>4

\* A replay passes for a top-tier report only if every item of evidence speaks
\* for it (TopTierIsEarned), whatever gates, comparisons and authorities there are.
THEOREM TopTierIsEarnedHolds == Spec => []TopTierIsEarned
<1>1. ReplayInv => TopTierIsEarned
  <2> SUFFICES ASSUME ReplayInv, NEW k \in Places, NEW r, r = replays[k].report,
                      replays[k].passed, IsTopTier(r)
               PROVE /\ \A i \in Items :
                          /\ r.items[i].outcome = "passed" /\ r.items[i].failedCases = 0
                          /\ i \in Comparisons => r.items[i].lower > Margin
                          /\ r.items[i].evidence = r.campaign
                          /\ \A j \in Items : r.items[i].semantic # r.items[j].by
                          /\ r.asOf <= r.items[i].dated /\ r.items[i].dated < r.expires
                     /\ Cardinality({r.items[i].receipt : i \in Items}) = Cardinality(Items)
                     /\ \A a \in Authorities :
                          Cardinality({RoleOf[i] : i \in {i \in Items : r.items[i].by = a}}) <= 1
    BY DEF TopTierIsEarned, IsTopTier
  <2>1. ItemsEarned(r) /\ EvidenceEarned(r)
    BY DEF ReplayInv, ReplayedInv, Certified, Rebuilt
  <2>2. ASSUME NEW i \in Items, NEW j \in Items PROVE r.items[i].semantic # r.items[j].by
    <3>1. r.items[j].by \in ReportAuthorities(r)
      BY <2>1 DEF ItemsEarned, ReportAuthorities
    <3>2. QED
      BY <2>1, <3>1 DEF EvidenceEarned
  <2>3. Cardinality({r.items[i].receipt : i \in Items}) = Cardinality(Items)
    <3> DEFINE f == [i \in Items |-> r.items[i].receipt]
    <3>1. \A i, j \in Items : f[i] = f[j] => i = j
      BY <2>1 DEF ItemsEarned
    <3>2. f \in [Items -> {r.items[i].receipt : i \in Items}]
      OBVIOUS
    <3>3. \A t \in {r.items[i].receipt : i \in Items} : \E i \in Items : f[i] = t
      OBVIOUS
    <3> HIDE DEF f
    <3>4. QED
      BY <3>1, <3>2, <3>3, ItemsFinite, OneToOne
  <2>4. ASSUME NEW a \in Authorities
        PROVE  Cardinality({RoleOf[i] : i \in {i \in Items : r.items[i].by = a}}) <= 1
    <3> DEFINE roles == {RoleOf[i] : i \in {i \in Items : r.items[i].by = a}}
    <3>1. ASSUME NEW i \in Items, r.items[i].by = a PROVE roles = {RoleOf[i]}
      BY <2>1, <3>1 DEF ItemsEarned, RolesIndependent, Populated
    <3>2. roles = {} \/ \E x : roles = {x}
      BY <3>1
    <3> HIDE DEF roles
    <3>3. CASE roles = {}
      <4>1. Cardinality({}) = 0
        BY FS_EmptySet
      <4>2. Cardinality(roles) = 0
        BY <3>3, <4>1
      <4>3. QED
        BY <4>2 DEF roles
    <3>4. CASE \E x : roles = {x}
      <4>1. PICK x : roles = {x}
        BY <3>4
      <4>2. Cardinality({x}) = 1
        BY FS_Singleton
      <4>3. Cardinality(roles) = 1
        BY <4>1, <4>2
      <4>4. QED
        BY <4>3 DEF roles
    <3>5. QED
      BY <3>2, <3>3, <3>4
  <2>5. QED
    BY <2>1, <2>2, <2>3, <2>4 DEF ItemsEarned, EvidenceEarned
<1>2. QED
  BY <1>1, ReplayInvariant, PTL

\* Three replays are one reproduction by three parties (ThreeIndependentReplays),
\* however often they were repeated and whatever the claims say.
THEOREM ThreeIndependentReplaysHolds == Spec => []ThreeIndependentReplays
<1>1. ReplayInv => ThreeIndependentReplays
  <2> SUFFICES ASSUME ReplayInv, reproduction # <<>>,
                      NEW r, r = reproduction[1].report, NEW asOf, asOf = reproduction[1].asOf
               PROVE /\ \A f \in {"operator", "machine", "authority"} :
                          Cardinality({reproduction[k].by[f] : k \in Places}) = 3
                     /\ \A k \in Places : reproduction[k].report = r /\ reproduction[k].asOf = asOf
                     /\ r.asOf <= asOf /\ asOf < r.expires
                     /\ \A c \in inventory.claims :
                          /\ c.status = r.status /\ asOf < c.expires /\ c.expires <= r.expires
                          /\ c.status = "top_tier_scoped" =>
                               \A q \in c.metrics : q.source \in Comparisons => q.lower > Margin
    BY DEF ThreeIndependentReplays
  <2>1. Rebuilt(r, asOf) /\ 1 \in Places
    BY DEF ReplayInv, ReproducedInv, Certified, Places
  <2>2. ASSUME NEW f \in {"operator", "machine", "authority"}
        PROVE  Cardinality({reproduction[k].by[f] : k \in Places}) = 3
    <3> DEFINE g == [k \in Places |-> reproduction[k].by[f]]
    <3>1. \A j, k \in Places : g[j] = g[k] => j = k
      BY DEF ReplayInv, ReproducedInv
    <3>2. g \in [Places -> {reproduction[k].by[f] : k \in Places}]
      OBVIOUS
    <3>3. \A t \in {reproduction[k].by[f] : k \in Places} : \E k \in Places : g[k] = t
      OBVIOUS
    <3> HIDE DEF g
    <3>4. QED
      BY <3>1, <3>2, <3>3, PlacesAreThree, OneToOne
  <2>3. ASSUME NEW c \in inventory.claims, IsTopTier(c), NEW q \in c.metrics, q.source \in Comparisons
        PROVE  q.lower > Margin
    <3>1. IsTopTier(r) /\ q = Metric(r, q.source)
      BY <2>1, <2>3 DEF Rebuilt, ClaimsHold, IsTopTier
    <3>2. r.items[q.source].lower > Margin
      BY <2>1, <2>3, <3>1 DEF Rebuilt, ItemsEarned, Items
    <3>3. q.lower = r.items[q.source].lower
      BY <3>1 DEF Metric
    <3>4. QED
      BY <3>2, <3>3
  <2>4. QED
    BY <2>1, <2>2, <2>3 DEF ReplayInv, ReproducedInv, Rebuilt, ClaimsHold, IsTopTier
<1>2. QED
  BY <1>1, ReplayInvariant, PTL
==============================================================================
