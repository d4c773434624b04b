----------------------------- MODULE MCCampaign -----------------------------
EXTENDS Campaign

\* A campaign of two systems, the first attempted twice.
MCFrozen == [created |-> 0, expires |-> 2, owner |-> "owner", custodian |-> "custodian",
             candidates |-> {"cand"}, strong |-> {"base"}, required |-> {"base"},
             units |-> [cand |-> 1, base |-> 1], retries |-> [cand |-> 2, base |-> 1],
             price |-> [cand |-> 1, base |-> 1], worst |-> [cand |-> 2, base |-> 1],
             ceiling |-> [cand |-> 2, base |-> 2],
             judges |-> {"j1", "j2"}, minJudges |-> 2,
             maker |-> [cand |-> "m1", base |-> "m1", j1 |-> "m2", j2 |-> "m3"],
             track |-> [cand |-> "text", base |-> "text"],
             judged |-> [cand |-> {"j1", "j2"}, base |-> {"j1", "j2"}],
             attestors |-> {"a_owner", "a_custodian", "a_judge"}, gold |-> "a_gold",
             experts |-> {"e1", "e2", "e3"}, seniors |-> {"s1"}, ordinary |-> 2, forCritical |-> 3,
             cases |-> {"k1", "k2"}, critical |-> {"k1"}, perturbed |-> {<<"k1", "k2">>},
             calibration |-> 1, calibrated |-> 1, meaningful |-> 1, detectable |-> 1,
             route |-> [k1 |-> "host", k2 |-> "host"], capable |-> {"host"},
             need |-> 1, room |-> 1]

\* A later revision that is as good, with a smaller ceiling for fewer retries.
MCRevised == [MCFrozen EXCEPT !.retries["cand"] = 1, !.worst["cand"] = 1,
                              !.ceiling = [cand |-> 1, base |-> 1]]

\* A revision whose retries do not fit, and one judged by a system's maker.
MCSkimpy == [MCFrozen EXCEPT !.worst["cand"] = 1, !.ceiling = [cand |-> 1, base |-> 1]]
MCPartial == [MCFrozen EXCEPT !.maker["j1"] = "m1"]

MCContents == [frozen |-> MCFrozen, revised |-> MCRevised, skimpy |-> MCSkimpy,
               partial |-> MCPartial]

MCRoleOf == [readiness |-> "readiness", quality |-> "quality_statistics",
             identity |-> "quality_statistics", expert |-> "quality_statistics"]
MCAttesting == [readiness |-> "a1", quality |-> "a2", identity |-> "a2", expert |-> "a2"]
MCWindows == {[asOf |-> 0, generated |-> 1, expires |-> 2, domains |-> {"tasks"}]}

Operator(o, m, a) == [operator |-> o, machine |-> m, authority |-> a]
MCGroups == {<<Operator("o1", "m1", "t1"), Operator("o2", "m2", "t2"), Operator("o3", "m3", "t3")>>,
             <<Operator("o1", "m1", "t1"), Operator("o2", "m1", "t2"), Operator("o3", "m3", "t3")>>}
==============================================================================
