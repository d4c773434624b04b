----------------------------- MODULE Execution -----------------------------
(***************************************************************************)
(* The execution of a campaign: a host per system is constructed from a    *)
(* preflight report (FrontierExecutionHost.__init__), makes the planned    *)
(* attempts, and its manifest enters the execution bundle                  *)
(* (build_frontier_execution_bundle).  What happens inside a host, between *)
(* its threads and its ledger, is FrontierHost's subject: here a host has  *)
(* one thread, and its ledger one axis.                                    *)
(***************************************************************************)
EXTENDS Preflight

CONSTANTS NoHost,     \* no host was constructed for the system yet
          MaxHosts    \* bound on hosts constructed

VARIABLES hosts,      \* the host each system runs on
          built,      \* hosts constructed so far
          calls,      \* the provider calls ever made (history)
          manifests   \* the execution manifests taken

evars == <<hosts, built, calls, manifests>>

ExecutionInit == /\ hosts = [s \in Systems |-> NoHost]
                 /\ built = 0 /\ calls = {} /\ manifests = {}

\* The attempts of the exact component call matrix.
Attempts(b, s) == Contents[b].units[s] * Contents[b].retries[s]

\* Slip: the window is compared, the verdict is not.
AdmitsUnpassed(p, campaign) == /\ p.campaign = campaign
                               /\ p.timestamp <= now /\ now < p.expires

\* The report is a passed one of this campaign and its evidence window is open.
Admits(p, campaign) == /\ p.passed /\ ValidReport(p)
                       /\ p.campaign = campaign
                       /\ p.timestamp <= now /\ now < p.expires

(***************************************************************************)
(* __init__.  The campaign digest, the ceilings and the components are     *)
(* arguments: the caller may have read the last two from another revision. *)
(* The authorizer's receipt over them is none that the report embeds.      *)
(***************************************************************************)
ConstructHost(s) ==
  /\ built < MaxHosts
  /\ \E p \in DOMAIN issued, campaign, budget \in Bundles,
        receipt \in {<<r>> : r \in Principals \cup {"authorizer"}} :
       /\ Admits(issued[p], campaign)
       /\ receipt \notin issued[p].receipts
       /\ Regular(budget = campaign)
       /\ hosts' = [hosts EXCEPT ![s] = [campaign |-> campaign, preflight |-> p,
                                         authority |-> receipt, budget |-> budget,
                                         done |-> 0, spent |-> 0, entered |-> FALSE,
                                         breached |-> FALSE, refused |-> FALSE]]
  /\ built' = built + 1
  /\ UNCHANGED <<now, disk, pvars, calls, manifests>>

\* execute_attempt up to the reservation: the expiry is compared here and the
\* ledger refuses what would pass the ceiling.
EnterAttempt(s) ==
  LET h == hosts[s]
      b == Contents[h.budget]
  IN
  /\ h # NoHost /\ ~h.entered
  /\ h.done < Attempts(h.budget, s)
  /\ now < issued[h.preflight].expires
  /\ ~h.breached
  /\ IF h.spent + b.price[s] <= b.ceiling[s]
       THEN /\ hosts' = [hosts EXCEPT ![s].entered = TRUE]
            /\ calls' = calls \cup {[system |-> s, preflight |-> h.preflight, number |-> h.done,
                                     authority |-> h.authority, budget |-> h.budget,
                                     admitted |-> now]}
       ELSE /\ hosts' = [hosts EXCEPT ![s].refused = TRUE, ![s].breached = TRUE]
            /\ calls' = calls
  /\ UNCHANGED <<cvars, pvars, built, manifests>>

\* The call returns, however late, and is settled: one that cost more than its
\* reservation breaches the ledger.
SettleAttempt(s) ==
  LET h == hosts[s] IN
  /\ h # NoHost /\ h.entered
  /\ \E charge \in 0..(Contents[h.budget].price[s] + 1) :
       /\ Regular(charge = Contents[h.budget].price[s])
       /\ hosts' = [hosts EXCEPT ![s].entered = FALSE, ![s].done = h.done + 1,
                                 ![s].spent = h.spent + charge,
                                 ![s].breached = charge > Contents[h.budget].price[s]]
  /\ UNCHANGED <<now, disk, pvars, built, calls, manifests>>

\* build_frontier_execution_manifest accepts a host whose every slot is reported
\* and whose budget held.
TakeManifest(s) ==
  LET h == hosts[s] IN
  /\ h # NoHost /\ ~h.entered /\ ~h.breached
  /\ h.done = Attempts(h.budget, s)
  /\ manifests' = manifests \cup {[system |-> s, campaign |-> h.campaign, preflight |-> h.preflight,
                                   attempts |-> h.done, price |-> Contents[h.budget].price[s],
                                   ceiling |-> Contents[h.budget].ceiling[s], spent |-> h.spent]}
  /\ UNCHANGED <<cvars, pvars, hosts, built, calls>>

\* validate_frontier_execution_bundle: a manifest of every system, under the
\* budget the campaign froze for it.
ExecutionBundle(ms, b) ==
  \A s \in Systems : /\ ms[s].system = s
                     /\ ms[s].campaign = b
                     /\ ms[s].attempts = Attempts(b, s)
                     /\ ms[s].price = Contents[b].price[s]
                     /\ ms[s].ceiling = Contents[b].ceiling[s]

ExecutionNext == \E s \in Systems : ConstructHost(s) \/ EnterAttempt(s)
                                    \/ SettleAttempt(s) \/ TakeManifest(s)
==============================================================================
