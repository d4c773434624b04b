------------------------------ MODULE JobTable ------------------------------
(***************************************************************************)
(* What the job service promises its clients about each idempotency key.   *)
(* A key is given to one request for good.  While one service runs at a    *)
(* time its job goes from queued to running to an end, back to queued only *)
(* at a restart, and ends once; success is shown when the artifact is      *)
(* there.  When services overlap only the order of statuses is lost.       *)
(***************************************************************************)
CONSTANTS Keys, Requests, Null

VARIABLES job,       \* request and status of a key, or Null
          stored,    \* the request whose artifact a key has, or Null
          answered,  \* <<key, request>> a client was told is accepted
          alone      \* no two services have run at the same time

jvars == <<job, stored, answered, alone>>

Init == /\ job = [k \in Keys |-> Null] /\ stored = [k \in Keys |-> Null]
        /\ answered = {} /\ alone = TRUE

Known(k) == job[k] # Null
Is(k, statuses) == Known(k) /\ job[k].status \in statuses

Becomes(k, status) == /\ job' = [job EXCEPT ![k].status = status]
                      /\ UNCHANGED <<stored, answered>>

Ask(k, q) == /\ ~Known(k)
             /\ job' = [job EXCEPT ![k] = [request |-> q, status |-> "queued"]]
             /\ UNCHANGED <<stored, answered>>

Answer(k) == /\ Known(k)
             /\ answered' = answered \cup {<<k, job[k].request>>}
             /\ UNCHANGED <<job, stored>>

Begin(k) == Is(k, {"queued"}) /\ Becomes(k, "running")

Store(k) == /\ Is(k, {"running"})
            /\ stored' = [stored EXCEPT ![k] = job[k].request]
            /\ UNCHANGED <<job, answered>>

Succeed(k) == Is(k, {"running"}) /\ stored[k] = job[k].request /\ Becomes(k, "succeeded")

Fail(k) == Is(k, {"queued", "running"}) /\ Becomes(k, "failed")

\* A restart puts the jobs that were running back.
PutBack == /\ job' = [k \in Keys |-> IF Is(k, {"running"}) THEN [job[k] EXCEPT !.status = "queued"]
                                     ELSE job[k]]
           /\ UNCHANGED <<stored, answered>>

Orderly == /\ alone /\ alone'
           /\ \/ PutBack
              \/ \E k \in Keys : \/ Answer(k) \/ Begin(k) \/ Store(k) \/ Succeed(k) \/ Fail(k)
                                 \/ \E q \in Requests : Ask(k, q)

\* What holds of every step once services have overlapped: nothing accepted or
\* stored is lost or changed, and no success is shown without its artifact.
Overlapping ==
  /\ ~alone'
  /\ \A k \in Keys : /\ Known(k) => Known(k)' /\ job'[k].request = job[k].request
                     /\ stored[k] # Null => stored'[k] = stored[k]
                     /\ Is(k, {"succeeded"})' => stored'[k] = job'[k].request
  /\ answered \subseteq answered'
  /\ \A a \in answered' \ answered : Known(a[1])' /\ job'[a[1]].request = a[2]

Next == Orderly \/ Overlapping

Spec == Init /\ [][Next]_jvars
=============================================================================
