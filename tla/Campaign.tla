------------------------------ MODULE Campaign ------------------------------
(***************************************************************************)
(* A frontier campaign from end to end: contracts are frozen, a preflight  *)
(* is passed, a host per system executes the plan, a report is built and   *)
(* claims made, three operators replay it.  Plan and files may be edited,  *)
(* authorities withdrawn and time pass between any two steps, and every    *)
(* stage may be handed what another revision of the campaign produced.     *)
(***************************************************************************)
EXTENDS Replay

vars == <<cvars, pvars, evars, rvars, yvars>>

Init == ContractsInit /\ PreflightInit /\ ExecutionInit /\ ReportingInit /\ ReplayInit

Environment == /\ EditPlan \/ EditFiles \/ (reports = {} /\ Tick)
               /\ UNCHANGED <<pvars, evars, rvars, yvars>>

\* A report is written once every system has a manifest and nothing runs.
Reports == /\ reports = {}
           /\ run = Idle /\ \A s \in Systems : hosts[s] # NoHost /\ ~hosts[s].entered
           /\ {m.system : m \in manifests} = Systems
           /\ \E b \in Bundles, p \in DOMAIN issued : BuildReport(b, p)

\* What is preflighted or executed after the report is of no use to it: the
\* clock, the preflights and the hosts stop there.
Next == \/ Environment
        \/ reports = {} /\ PreflightNext /\ UNCHANGED <<evars, rvars, yvars>>
        \/ reports = {} /\ ExecutionNext /\ UNCHANGED <<rvars, yvars>>
        \/ (AuthorityChanges \/ Reports \/ WriteInventory) /\ UNCHANGED yvars
        \/ ReplayNext

Spec == Init /\ [][Next]_vars

------------------------------------------------------------------------------
(***************************************************************************)
(* A provider is called only under a fair campaign: its preflight passed   *)
(* with five receipts that count once, at a time inside the evidence       *)
(* window, and before the call was admitted, which is inside it too (the   *)
(* call itself may leave later).  No judge is made by who made a system it *)
(* judges, whichever revision lay on disk when the host was constructed.   *)
(***************************************************************************)
CallsFollowPreflight ==
  \A c \in calls : LET p == issued[c.preflight]
                       b == Contents[p.campaign]
                   IN
    /\ p.passed
    /\ b.created <= p.timestamp /\ p.timestamp <= c.admitted /\ c.admitted < b.expires
    /\ Cardinality(p.receipts \cup {c.authority}) = 5
    /\ \A j \in b.judges, s \in Systems : b.maker[j] # b.maker[s]

(***************************************************************************)
(* A campaign that was frozen with enough budget has enough: the ledger of *)
(* a host that runs under the campaign's own ceilings never refuses an     *)
(* attempt, however the attempts before it were charged.                   *)
(***************************************************************************)
AffordedToTheEnd ==
  \A s \in Systems :
     (hosts[s] # NoHost /\ hosts[s].budget = hosts[s].campaign) => ~hosts[s].refused

\* What a budget grants a system: attempts, the most one costs, the ceiling.
Funds(b, s) == <<Attempts(b, s), Contents[b].price[s], Contents[b].ceiling[s]>>

(***************************************************************************)
(* What an operator replayed as top tier is one campaign: its calls were   *)
(* all made, every planned one and no other, under one preflight of that   *)
(* very campaign, with the budget frozen in it and within that budget.     *)
(***************************************************************************)
ReplayedIsOneCampaign ==
  \A k \in Places :
    (replays[k].passed /\ replays[k].report.status = "top_tier_scoped") =>
      LET r == replays[k].report
          b == Contents[r.campaign]
          underPlan(c) == /\ c.preflight = r.preflight
                          /\ Funds(c.budget, c.system) = Funds(r.campaign, c.system)
          made(s) == {c.number : c \in {c \in calls : c.system = s /\ underPlan(c)}}
      IN /\ issued[r.preflight].campaign = r.campaign
         /\ \A s \in Systems :
              /\ frozen.executions[s].preflight = r.preflight
              /\ made(s) = 0..(b.units[s] * b.retries[s] - 1)
              /\ frozen.executions[s].spent <= b.ceiling[s]

(***************************************************************************)
(* A replay passes for a top-tier report only if every item of evidence    *)
(* speaks for it: passed, clear of the margin, of this campaign, attested  *)
(* once, by authorities none of which holds two roles, and explained by    *)
(* somebody who attests nothing.                                           *)
(***************************************************************************)
TopTierIsEarned ==
  \A k \in Places :
    (replays[k].passed /\ replays[k].report.status = "top_tier_scoped") =>
      LET r == replays[k].report
          by(i) == r.items[i].by
      IN /\ \A i \in Items :
              /\ r.items[i].outcome = "passed" /\ r.items[i].failedCases = 0
              /\ i \in Comparisons => r.items[i].lower > Margin
              /\ r.items[i].evidence = r.campaign
              /\ \A j \in Items : r.items[i].semantic # by(j)
              /\ r.asOf <= r.items[i].dated /\ r.items[i].dated < r.expires
         /\ Cardinality({r.items[i].receipt : i \in Items}) = Cardinality(Items)
         /\ \A a \in Authorities : Cardinality({RoleOf[i] : i \in {i \in Items : by(i) = a}}) <= 1

(***************************************************************************)
(* A reproduction set is three replays of one report, by three people on   *)
(* three machines, attested by three authorities, for claims validated at  *)
(* one time inside the report's window; every claim says what the report   *)
(* says, expires no later, and claims top tier on no number that only      *)
(* touches the margin.  Replays may be repeated, in any order, at other    *)
(* times, while authorities come and go.                                   *)
(***************************************************************************)
ThreeIndependentReplays ==
  reproduction # <<>> =>
    LET r == reproduction[1].report
        asOf == reproduction[1].asOf
        parts(f) == {reproduction[k].by[f] : k \in Places}
    IN /\ \A f \in {"operator", "machine", "authority"} : Cardinality(parts(f)) = 3
       /\ \A k \in Places : reproduction[k].report = r /\ reproduction[k].asOf = asOf
       /\ r.asOf <= asOf /\ asOf < r.expires
       /\ \A c \in inventory.claims :
            /\ c.status = r.status /\ asOf < c.expires /\ c.expires <= r.expires
            /\ c.status = "top_tier_scoped" =>
                 \A q \in c.metrics : q.source \in Comparisons => q.lower > Margin
==============================================================================
