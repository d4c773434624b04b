----------------------------- MODULE JobService -----------------------------
(***************************************************************************)
(* OptimizationService, JobStore and ArtifactStore of service.py: jobs are *)
(* rows of a SQLite table, handed to one worker thread per service         *)
(* instance through an in-memory queue.  The table and the artifact files  *)
(* survive a restart; the queue, the worker and requests being served do   *)
(* not.  Each store call is one transaction and so one action.             *)
(*                                                                         *)
(* A job is identified by its idempotency key: the column is UNIQUE and    *)
(* every submission carries one.                                           *)
(***************************************************************************)
EXTENDS Integers, Sequences, FiniteSets

CONSTANTS Keys,       \* idempotency keys
          Requests,   \* normalized requests
          Instances,  \* service instances over the same store
          Null,
          MaxDowns,   \* bound on crashes and stops
          MaxFaults   \* bound on store, file and model errors

Terminal == {"succeeded", "failed"}
Statuses == {"queued", "running"} \cup Terminal
Rows == [request : Requests, status : Statuses,
         artifact : BOOLEAN, error : {"none", "recovered", "failure"}]

\* The queue item stop() uses to wake the worker.
Sentinel == "stop"

ASSUME ServiceAssumption ==
  /\ IsFiniteSet(Keys) /\ Sentinel \notin Keys
  /\ Null \notin Requests /\ Null \notin Rows
  /\ Null \notin [request : Requests, status : Statuses]
  /\ MaxDowns \in Nat /\ MaxFaults \in Nat

VARIABLES row,         \* the jobs table
          created,     \* its keys in order of created_at
          file,        \* artifact files: the request the artifact was built from
          inst,        \* life of an instance
          stopping,    \* _stopping
          queue,       \* _queue
          pending,     \* <<instance, key>>: row committed, not yet enqueued
          pc, cur,     \* the worker of each instance, and its job
          acks,        \* <<key, request>> answered 202 (history)
          dropped,     \* rows whose submission failed before it was enqueued (history)
          overlapped,  \* an instance was started while another lived (history)
          downs, faults

table == <<row, created, file>>
worker == <<pc, cur>>
history == <<acks, dropped, overlapped>>
vars == <<table, inst, stopping, queue, pending, worker, history, downs, faults>>

InTable(k) == row[k] # Null
Status(k) == IF InTable(k) THEN row[k].status ELSE "absent"
WithStatus(st) == {k \in Keys : Status(k) = st}
Alive(i) == inst[i] = "up" /\ pc[i] \notin {"exited", "dead"}

Init ==
  /\ row = [k \in Keys |-> Null]
  /\ created = <<>>
  /\ file = [k \in Keys |-> Null]
  /\ inst = [i \in Instances |-> "down"]
  /\ stopping = [i \in Instances |-> FALSE]
  /\ queue = [i \in Instances |-> <<>>]
  /\ pending = {}
  /\ pc = [i \in Instances |-> "exited"]
  /\ cur = [i \in Instances |-> Null]
  /\ acks = {}
  /\ dropped = {} /\ overlapped = FALSE
  /\ downs = 0 /\ faults = 0

------------------------------------------------------------------------------
(* The constructor, and the end of a process.                              *)

\* Slip: a restart leaves running jobs as they are.
RecoverableQueued == WithStatus("queued")

\* The rows recover_interrupted() updates.
Recoverable == WithStatus("running")

Recover(i) ==
  /\ inst[i] = "down"
  /\ row' = [k \in Keys |->
               IF k \in Recoverable
                 THEN [row[k] EXCEPT !.status = "queued", !.error = "recovered"]
                 ELSE row[k]]
  /\ inst' = [inst EXCEPT ![i] = "starting"]
  /\ overlapped' = (overlapped \/ \E j \in Instances : inst[j] # "down")
  /\ UNCHANGED <<created, file, stopping, queue, pending, worker, acks,
                 dropped, downs, faults>>

\* The queued jobs, the oldest first (one sequence).
queued_job_ids ==
  LET queued == WithStatus("queued")
      Before(k, l) == \E a, b \in DOMAIN created : a < b /\ created[a] = k /\ created[b] = l
  IN {s \in [1..Cardinality(queued) -> queued] : \A m, n \in DOMAIN s : m < n => Before(s[m], s[n])}

\* The queued jobs are read in creation order, enqueued, and the worker starts.
StartWorker(i) ==
  /\ inst[i] = "starting"
  /\ \E s \in queued_job_ids : queue' = [queue EXCEPT ![i] = s]
  /\ inst' = [inst EXCEPT ![i] = "up"]
  /\ pc' = [pc EXCEPT ![i] = "get"]
  /\ dropped' = {}
  /\ UNCHANGED <<table, stopping, pending, cur, acks, overlapped, downs, faults>>

\* What dies with a process.
Vanish(i) ==
  /\ inst' = [inst EXCEPT ![i] = "down"]
  /\ stopping' = [stopping EXCEPT ![i] = FALSE]
  /\ queue' = [queue EXCEPT ![i] = <<>>]
  /\ pending' = {p \in pending : p[1] # i}
  /\ pc' = [pc EXCEPT ![i] = "exited"]
  /\ cur' = [cur EXCEPT ![i] = Null]
  /\ UNCHANGED <<table, history, faults>>

\* The process is killed, or leaves after stop() gave up waiting.
Crash(i) ==
  /\ inst[i] # "down"
  /\ downs < MaxDowns
  /\ downs' = downs + 1
  /\ Vanish(i)

\* A process whose worker has ended is replaced (its health is "degraded").
Retire(i) ==
  /\ inst[i] = "up"
  /\ ~Alive(i)
  /\ Vanish(i)
  /\ UNCHANGED downs

\* stop(): the worker leaves at its next look at the flag or at the sentinel.
Stop(i) ==
  /\ inst[i] = "up"
  /\ ~stopping[i]
  /\ downs < MaxDowns
  /\ downs' = downs + 1
  /\ stopping' = [stopping EXCEPT ![i] = TRUE]
  /\ queue' = [queue EXCEPT ![i] = Append(@, Sentinel)]
  /\ UNCHANGED <<table, inst, pending, worker, history, faults>>

------------------------------------------------------------------------------
(* Submissions, served by the threads of an instance.                      *)

\* create_or_get finds the key with the same request; with another one it
\* raises IdempotencyConflict and nothing changes.
Replayable(k, q) == InTable(k) /\ row[k].request = q

Create(i, k, q) ==
  /\ inst[i] = "up"
  /\ ~InTable(k)
  /\ row' = [row EXCEPT ![k] = [request |-> q, status |-> "queued",
                                artifact |-> FALSE, error |-> "none"]]
  /\ created' = Append(created, k)
  /\ pending' = pending \cup {<<i, k>>}
  /\ UNCHANGED <<file, inst, stopping, queue, worker, history, downs, faults>>

Replay(i, k, q) ==
  /\ inst[i] = "up"
  /\ Replayable(k, q)
  /\ acks' = acks \cup {<<k, q>>}
  /\ UNCHANGED <<table, inst, stopping, queue, pending, worker, dropped, overlapped,
                 downs, faults>>

\* The row is committed, reading it back fails: the caller gets an error and
\* nothing enqueues the job before a restart.
SubmitFails(i, k) ==
  /\ <<i, k>> \in pending
  /\ faults < MaxFaults
  /\ faults' = faults + 1
  /\ pending' = pending \ {<<i, k>>}
  /\ dropped' = dropped \cup {k}
  /\ UNCHANGED <<table, inst, stopping, queue, worker, acks, overlapped, downs>>

\* The new job is enqueued and the caller answered.
Enqueue(i, k) ==
  /\ <<i, k>> \in pending
  /\ queue' = [queue EXCEPT ![i] = Append(@, k)]
  /\ acks' = acks \cup {<<k, row[k].request>>}
  /\ pending' = pending \ {<<i, k>>}
  /\ UNCHANGED <<table, inst, stopping, worker, dropped, overlapped,
                 downs, faults>>

------------------------------------------------------------------------------
(* The worker loop.                                                        *)

At(i, l) == inst[i] = "up" /\ pc[i] = l

\* The worker goes on to location l with the job it has.
Go(i, l) == /\ pc' = [pc EXCEPT ![i] = l]
            /\ UNCHANGED cur

\* The end of an iteration, and the test of the stop flag that follows it.
Again(i) == /\ pc' = [pc EXCEPT ![i] = IF stopping[i] THEN "exited" ELSE "get"]
            /\ cur' = [cur EXCEPT ![i] = Null]

Get(i) ==
  /\ At(i, "get")
  /\ queue[i] # <<>>
  /\ queue' = [queue EXCEPT ![i] = Tail(@)]
  /\ IF Head(queue[i]) = Sentinel
       THEN Go(i, "exited")
       ELSE /\ pc' = [pc EXCEPT ![i] = "claimed"]
            /\ cur' = [cur EXCEPT ![i] = Head(queue[i])]
  /\ UNCHANGED <<table, inst, stopping, pending, history, downs, faults>>

Runnable(k) == Status(k) = "queued"

\* Slip: the status is looked at and the row not claimed.
MarkRunningUnclaimed(i) ==
  /\ At(i, "claimed")
  /\ Runnable(cur[i])
  /\ Go(i, "optimizing")
  /\ UNCHANGED <<table, inst, stopping, queue, pending, history, downs, faults>>

\* mark_running wins the row ...
MarkRunning(i) ==
  /\ At(i, "claimed")
  /\ Runnable(cur[i])
  /\ row' = [row EXCEPT ![cur[i]].status = "running", ![cur[i]].error = "none"]
  /\ Go(i, "optimizing")
  /\ UNCHANGED <<created, file, inst, stopping, queue, pending, acks,
                 dropped, overlapped, downs, faults>>

\* ... or finds it taken and goes on to the next item.
SkipJob(i) ==
  /\ At(i, "claimed")
  /\ ~Runnable(cur[i])
  /\ Again(i)
  /\ UNCHANGED <<table, inst, stopping, queue, pending, history, downs, faults>>

Optimize(i) ==
  /\ At(i, "optimizing")
  /\ Go(i, "writing")
  /\ UNCHANGED <<table, inst, stopping, queue, pending, history, downs, faults>>

\* Slip: the row is marked before the artifact is on disk.
WriteArtifactLater(i) ==
  /\ At(i, "writing")
  /\ Go(i, "finishing")
  /\ UNCHANGED <<table, inst, stopping, queue, pending, history, downs, faults>>

\* The artifact file is replaced atomically, under a name made from the job id.
WriteArtifact(i) ==
  /\ At(i, "writing")
  /\ file' = [file EXCEPT ![cur[i]] = row[cur[i]].request]
  /\ Go(i, "finishing")
  /\ UNCHANGED <<row, created, inst, stopping, queue, pending, history, downs, faults>>

MarkSucceeded(i) ==
  /\ At(i, "finishing")
  /\ row' = [row EXCEPT ![cur[i]].status = "succeeded", ![cur[i]].artifact = TRUE,
                        ![cur[i]].error = "none"]
  /\ Again(i)
  /\ UNCHANGED <<created, file, inst, stopping, queue, pending, history, downs, faults>>

\* Any exception of the iteration ends in the handler that calls mark_failed.
Fault(i) ==
  /\ inst[i] = "up"
  /\ pc[i] \in {"claimed", "optimizing", "writing", "finishing"}
  /\ faults < MaxFaults
  /\ faults' = faults + 1
  /\ Go(i, "failing")
  /\ UNCHANGED <<table, inst, stopping, queue, pending, history, downs>>

MarkFailed(i) ==
  /\ At(i, "failing")
  /\ row' = [row EXCEPT ![cur[i]].status = "failed", ![cur[i]].error = "failure"]
  /\ Again(i)
  /\ UNCHANGED <<created, file, inst, stopping, queue, pending, history, downs, faults>>

\* What failed fails again in mark_failed: the worker thread dies with the job
\* unmarked.
WorkerDies(i) ==
  /\ At(i, "failing")
  /\ pc' = [pc EXCEPT ![i] = "dead"]
  /\ cur' = [cur EXCEPT ![i] = Null]
  /\ UNCHANGED <<table, inst, stopping, queue, pending, history, downs, faults>>

Work(i) == \/ Get(i) \/ MarkRunning(i) \/ SkipJob(i) \/ Optimize(i)
           \/ WriteArtifact(i) \/ MarkSucceeded(i) \/ MarkFailed(i)

Next == \E i \in Instances :
          \/ Recover(i) \/ StartWorker(i) \/ Crash(i) \/ Retire(i) \/ Stop(i)
          \/ \E k \in Keys, q \in Requests : Create(i, k, q) \/ Replay(i, k, q)
          \/ \E k \in Keys : Enqueue(i, k) \/ SubmitFails(i, k)
          \/ Work(i) \/ Fault(i) \/ WorkerDies(i)

Spec == Init /\ [][Next]_vars

\* An operator starts the service when it is down.
Restart(i) == (\A j \in Instances : inst[j] = "down") /\ Recover(i)

\* The operator also replaces an instance whose worker has ended.  Nothing makes
\* him start a second one beside the first.
Operate(i) == Restart(i) \/ StartWorker(i) \/ Retire(i)

\* Worker and request threads are scheduled, and the operator does his work.
Fairness == \A i \in Instances : /\ WF_vars(Work(i))
                                 /\ WF_vars(\E k \in Keys : Enqueue(i, k))
                                 /\ WF_vars(Operate(i))

FairSpec == Spec /\ Fairness

------------------------------------------------------------------------------
(***************************************************************************)
(* Whatever crashes and retries happen, a submission that was answered is  *)
(* in the table, with the request it was answered for: no restart loses a  *)
(* job, and no key ever stands for two requests.                           *)
(***************************************************************************)
AcknowledgedIsStored ==
  \A a \in acks : InTable(a[1]) /\ row[a[1]].request = a[2]

(***************************************************************************)
(* A job is shown as succeeded only when the artifact of its own request   *)
(* is on disk, even if the process dies between the write and the update.  *)
(***************************************************************************)
SucceededHasItsArtifact ==
  \A k \in WithStatus("succeeded") :
     row[k].artifact /\ file[k] = row[k].request /\ row[k].error = "none"

\* With one instance at a time, a succeeded or failed job stays as it is: no
\* restart, late worker or late failure re-opens it or changes its result.
TerminalIsFinal ==
  [][~overlapped' => \A k \in Keys : Status(k) \in Terminal => row'[k] = row[k]]_vars

(***************************************************************************)
(* "persistent, restart-safe": through any number of restarts, and while   *)
(* one instance runs at a time, there is always a later moment at which    *)
(* every job of the table has ended; as rows are never deleted, each job   *)
(* ends.  A job whose submission ended in an error waits for the next      *)
(* restart, also when the client retries with its key.                     *)
(***************************************************************************)
EveryJobEnds ==
  []<>(overlapped \/ \A k \in Keys : InTable(k) => Status(k) \in Terminal \/ k \in dropped)

\* Of a row and of the table, what was asked and the status clients are shown.
Shown(r) == IF r = Null THEN Null ELSE [request |-> r.request, status |-> r.status]
View == [k \in Keys |-> Shown(row[k])]

Jobs == INSTANCE JobTable WITH job <- View, stored <- file, answered <- acks, alone <- ~overlapped

(***************************************************************************)
(* The service keeps what JobTable promises: one request per key, statuses *)
(* in order and one end while services do not overlap, and, however they   *)
(* overlap, nothing accepted lost and no success without its artifact.     *)
(***************************************************************************)
ImplementsJobTable == Jobs!Spec
==============================================================================
