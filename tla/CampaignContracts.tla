------------------------- MODULE CampaignContracts -------------------------
(***************************************************************************)
(* The frozen bundle of a campaign (frontier_contracts.py): the plan with  *)
(* the policy and commitment it names, the files it refers to by digest,   *)
(* and what validate_frontier_campaign_bundle asks of them together.       *)
(*                                                                         *)
(* A bundle is named by its digest and stands for what Contents gives it.  *)
(* The plan on disk and the files it refers to can be edited at any time,  *)
(* and time passes.                                                        *)
(***************************************************************************)
EXTENDS Integers, FiniteSets

CONSTANTS Systems,      \* the systems a campaign compares
          Bundles,      \* the bundles that are ever written
          Contents,     \* what each of them says
          MaxTime,      \* bound on the clock
          MaxFaults     \* bound on the irregularities of a behaviour

ASSUME ContractsAssumption ==
  /\ Systems # {} /\ MaxTime \in Nat
  /\ \A b \in Bundles :
       /\ {Contents[b].created, Contents[b].expires} \subseteq Nat
       /\ \A s \in Systems : {Contents[b].units[s], Contents[b].retries[s], Contents[b].price[s],
                             Contents[b].ceiling[s]} \subseteq Nat

Times == 0..MaxTime

VARIABLES now,      \* the trusted clock
          plan,     \* the bundle written at the plan's path
          files,    \* the files the bundle refers to: the bundle they are those of
          faults    \* irregularities so far

disk == <<plan, files>>
cvars == <<now, disk, faults>>

\* A step in which all goes as the campaign's people intend, or else one more
\* irregularity: an edit, an authority that strays, an input of another revision.
Regular(ok) == /\ faults' = IF ok THEN faults ELSE faults + 1
               /\ faults' <= MaxFaults

------------------------------------------------------------------------------
(* What the contents c of each document must be on its own.  Ids are       *)
(* unique by the shape of the data: a part of a document is a function.    *)

\* validate_frontier_campaign_plan, part by part.
LifecycleFormed(c) == c.created < c.expires /\ c.owner # c.custodian

JudgesFormed(c) == Cardinality(c.judges) >= 2

\* Every component of a budget makes some attempt.
BudgetsFormed(c) == \A s \in Systems : c.units[s] >= 1 /\ c.retries[s] >= 1

CasesFormed(c) == DOMAIN c.route # {} /\ c.capable # {}

\* Three experts, and somebody else to settle what they disagree on.
ExpertsFormed(c) == /\ Cardinality(c.experts) >= 3 /\ c.seniors # {}
                    /\ c.experts \cap c.seniors = {}

PlanFormed(c) == /\ LifecycleFormed(c) /\ JudgesFormed(c) /\ BudgetsFormed(c)
                 /\ CasesFormed(c) /\ ExpertsFormed(c)

\* validate_frontier_release_policy: what is measured can be told from noise.
PolicyFormed(c) == /\ c.minJudges >= 2
                   /\ 2 <= c.ordinary /\ 3 <= c.forCritical /\ c.ordinary <= c.forCritical
                   /\ 1 <= c.detectable /\ c.detectable <= c.meaningful

\* validate_frontier_source_commitment
CommitmentFormed(c) == /\ c.critical # {} /\ c.critical \subseteq c.cases
                       /\ 1 <= c.calibration /\ c.calibration <= Cardinality(c.cases)
                       /\ c.perturbed # {}
                       /\ \A q \in c.perturbed : q[1] # q[2] /\ {q[1], q[2]} \subseteq c.cases

\* Slip: the retries of a unit are not counted.
UnitsOnlyWorstCase(c, s) == c.units[s] * c.price[s]

\* _computed_budget_worst_case: every attempt of every unit at its maximum.
WorstCase(c, s) == c.units[s] * c.retries[s] * c.price[s]

(* What they must be together: validate_frontier_campaign_bundle.          *)

\* One candidate, the strong baselines of the policy in its track, nobody both.
SystemsFair(c) == /\ Cardinality(c.candidates) = 1
                  /\ c.candidates \cap c.strong = {}
                  /\ c.strong = c.required
                  /\ \A s \in c.strong, t \in c.candidates : c.track[s] = c.track[t]

\* One hard ceiling for every system, and a declared worst case within it, of
\* components that pay for every judge.
BudgetsFair(c) ==
  \A s \in Systems : /\ \A t \in Systems : c.ceiling[s] = c.ceiling[t]
                     /\ c.ceiling[s] >= 1
                     /\ c.worst[s] = WorstCase(c, s)
                     /\ c.worst[s] <= c.ceiling[s]
                     /\ c.judged[s] = c.judges

\* Judges share no family or provider with each other or with what they judge.
JudgesIndependent(c) ==
  /\ Cardinality(c.judges) >= c.minJudges
  /\ \A j \in c.judges : c.maker[j] \notin {c.maker[s] : s \in Systems}
  /\ \A j, k \in c.judges : c.maker[j] = c.maker[k] => j = k

\* Every committed case has a route, every routed authority a host capability,
\* and no other authority has one.
RoutesCapable(c) == /\ DOMAIN c.route = c.cases
                    /\ {c.route[k] : k \in c.cases} = c.capable

\* Experts and their receipt authority are independent of the principals, and
\* the policy calibrates on no fewer cases than were committed for it.
HumanGoldIndependent(c) ==
  /\ Cardinality(c.experts) >= c.forCritical
  /\ {c.owner, c.custodian} \cap (c.experts \cup c.seniors) = {}
  /\ c.gold \notin c.attestors
  /\ c.calibration <= c.calibrated /\ c.calibrated <= Cardinality(c.cases)

ValidBundle(c) ==
  /\ PlanFormed(c) /\ PolicyFormed(c) /\ CommitmentFormed(c)
  /\ SystemsFair(c) /\ BudgetsFair(c) /\ JudgesIndependent(c)
  /\ RoutesCapable(c) /\ HumanGoldIndependent(c)
  /\ c.need <= c.room

\* load_frontier_campaign_bundle checks each file against the plan's digest.
FilesMatch(b) == files = b

------------------------------------------------------------------------------
ContractsInit == /\ now = 0
                 /\ plan \in Bundles
                 /\ files = plan
                 /\ faults = 0

Tick == /\ now < MaxTime
        /\ now' = now + 1
        /\ UNCHANGED <<disk, faults>>

\* Somebody writes another revision of the plan, or of the files.
EditPlan == /\ \E b \in Bundles \ {plan} : plan' = b
            /\ Regular(FALSE)
            /\ UNCHANGED <<now, files>>

EditFiles == /\ \E b \in Bundles \ {files} : files' = b
             /\ Regular(FALSE)
             /\ UNCHANGED <<now, plan>>
==============================================================================
