-------------------------- MODULE JobServiceProofs --------------------------
(***************************************************************************)
(* Proofs about JobService, for every finite set of keys, every set of     *)
(* requests and instances, and every bound on crashes and faults.          *)
(***************************************************************************)
EXTENDS JobService, FiniteSetTheorems, TLAPS

Places == {"exited", "dead", "get", "claimed", "optimizing", "writing", "finishing", "failing"}

\* Where the worker has a job.
Busy(i) == pc[i] \in {"claimed", "optimizing", "writing", "finishing", "failing"}

ServiceTypeOK ==
  /\ row \in [Keys -> Rows \cup {Null}]
  /\ created \in Seq(Keys)
  /\ file \in [Keys -> Requests \cup {Null}]
  /\ inst \in [Instances -> {"down", "starting", "up"}]
  /\ stopping \in [Instances -> BOOLEAN]
  /\ queue \in [Instances -> Seq(Keys \cup {Sentinel})]
  /\ pending \in SUBSET (Instances \X Keys)
  /\ pc \in [Instances -> Places]
  /\ cur \in [Instances -> Keys \cup {Null}]
  /\ acks \in SUBSET (Keys \X Requests)

(***************************************************************************)
(* Every key that is anywhere is in the table, once; a process that is not *)
(* up has nothing; and a worker that is about to report success has the    *)
(* artifact of its job on disk.                                            *)
(***************************************************************************)
CreatedInv == /\ \A n \in DOMAIN created : InTable(created[n])
              /\ \A m, n \in DOMAIN created : created[m] = created[n] => m = n

HeldInv ==
  /\ \A i \in Instances : \A n \in DOMAIN queue[i] :
       queue[i][n] # Sentinel => InTable(queue[i][n])
  /\ \A i \in Instances, k \in Keys : <<i, k>> \in pending => InTable(k)
  /\ \A i \in Instances : Busy(i) => cur[i] \in Keys /\ InTable(cur[i])

DownInv ==
  \A i \in Instances : inst[i] # "up" => /\ pc[i] = "exited" /\ queue[i] = <<>>
                                         /\ \A k \in Keys : <<i, k>> \notin pending

WrittenInv ==
  \A i \in Instances : pc[i] = "finishing" => file[cur[i]] = row[cur[i]].request

StoredInv == CreatedInv /\ HeldInv /\ DownInv /\ WrittenInv

(***************************************************************************)
(* While instances do not overlap, a job that has not ended is in one      *)
(* place: a submission, the queue or the hands of the worker.              *)
(***************************************************************************)
AloneInv == \A i, j \in Instances : inst[i] # "down" /\ inst[j] # "down" => i = j

QueuedInv ==
  \A i \in Instances : \A n \in DOMAIN queue[i] : queue[i][n] # Sentinel =>
     /\ Status(queue[i][n]) = "queued"
     /\ \A m \in DOMAIN queue[i] : queue[i][m] = queue[i][n] => m = n
     /\ <<i, queue[i][n]>> \notin pending
     /\ Busy(i) => cur[i] # queue[i][n]

PendingInv ==
  \A i \in Instances, k \in Keys : <<i, k>> \in pending =>
     Status(k) = "queued" /\ (Busy(i) => cur[i] # k)

HandInv ==
  \A i \in Instances :
    /\ pc[i] = "claimed" => Status(cur[i]) = "queued"
    /\ pc[i] \in {"optimizing", "writing", "finishing"} => Status(cur[i]) = "running"
    /\ pc[i] = "failing" => Status(cur[i]) \in {"queued", "running"}

OwnerInv == ~overlapped => AloneInv /\ QueuedInv /\ PendingInv /\ HandInv

StoreInv == ServiceTypeOK /\ StoredInv /\ AcknowledgedIsStored /\ SucceededHasItsArtifact
JobInv == StoreInv /\ OwnerInv

------------------------------------------------------------------------------
(* Facts the steps rest on.                                                *)

\* An update of a job that is in the table keeps what was asked of it.
LEMMA RowMarked ==
  ASSUME ServiceTypeOK, NEW k \in Keys, InTable(k),
         NEW r \in Rows, r.request = row[k].request, row' = [row EXCEPT ![k] = r]
  PROVE  /\ row' \in [Keys -> Rows \cup {Null}] /\ row'[k] = r /\ Status(k)' = r.status
         /\ \A j \in Keys : /\ InTable(j)' <=> InTable(j)
                            /\ row'[j].request = row[j].request
                            /\ j # k => row'[j] = row[j] /\ Status(j)' = Status(j)
<1>1. row' \in [Keys -> Rows \cup {Null}] /\ row'[k] = r /\ r # Null
  BY ServiceAssumption DEF ServiceTypeOK
<1>2. \A j \in Keys : j # k => row'[j] = row[j]
  BY DEF ServiceTypeOK
<1>3. QED
  BY <1>1, <1>2 DEF InTable, Status

\* A job that is in the table stays in it, with its request.
TableKeeps == \A k \in Keys : /\ InTable(k) => InTable(k)'
                              /\ InTable(k) => row'[k].request = row[k].request

\* So whatever holds a key holds one of the table, if it held it before.
LEMMA HeldStays ==
  ASSUME ServiceTypeOK, HeldInv, TableKeeps, UNCHANGED <<queue, pending>>,
         \A i \in Instances : Busy(i)' => Busy(i) /\ cur'[i] = cur[i]
  PROVE  HeldInv'
<1>1. ASSUME NEW i \in Instances, NEW n \in DOMAIN queue[i], queue[i][n] # Sentinel
      PROVE  InTable(queue[i][n])'
  BY <1>1 DEF ServiceTypeOK, HeldInv, TableKeeps
<1>2. ASSUME NEW i \in Instances, NEW k \in Keys, <<i, k>> \in pending PROVE InTable(k)'
  BY <1>2 DEF HeldInv, TableKeeps
<1>3. ASSUME NEW i \in Instances, Busy(i)' PROVE cur'[i] \in Keys /\ InTable(cur[i])'
  BY <1>3 DEF HeldInv, TableKeeps
<1>4. QED
  BY <1>1, <1>2, <1>3 DEF HeldInv

LEMMA CreatedStays ==
  ASSUME ServiceTypeOK, CreatedInv, TableKeeps, UNCHANGED created
  PROVE  CreatedInv'
<1>1. \A n \in DOMAIN created : created[n] \in Keys
  BY DEF ServiceTypeOK
<1>2. QED
  BY <1>1 DEF CreatedInv, TableKeeps

LEMMA AcksStay ==
  ASSUME ServiceTypeOK, AcknowledgedIsStored, TableKeeps, acks' = acks
  PROVE  AcknowledgedIsStored'
<1> SUFFICES ASSUME NEW a \in acks PROVE InTable(a[1])' /\ row'[a[1]].request = a[2]
  BY DEF AcknowledgedIsStored
<1>1. a[1] \in Keys
  BY DEF ServiceTypeOK
<1>2. QED
  BY <1>1 DEF AcknowledgedIsStored, TableKeeps

\* While instances do not overlap, only one of them has anything.
LEMMA OneHasAll ==
  ASSUME StoreInv, AloneInv, NEW i \in Instances, inst[i] # "down"
  PROVE  \A j \in Instances : j # i => /\ ~Busy(j) /\ DOMAIN queue[j] = {}
                                       /\ \A k \in Keys : <<j, k>> \notin pending
<1> SUFFICES ASSUME NEW j \in Instances, j # i
             PROVE  ~Busy(j) /\ DOMAIN queue[j] = {} /\ \A k \in Keys : <<j, k>> \notin pending
  OBVIOUS
<1>1. inst[j] = "down"
  BY DEF AloneInv
<1>2. QED
  BY <1>1 DEF StoreInv, StoredInv, DownInv, Busy

------------------------------------------------------------------------------
(* The steps that mark the job in a worker's hands.                        *)

LEMMA MarkKeeps ==
  ASSUME JobInv, NEW i \in Instances, NEW k \in Keys, k = cur[i], Busy(i), inst[i] = "up",
         NEW r \in Rows, r.request = row[k].request, row' = [row EXCEPT ![k] = r],
         r.status = "succeeded" => r.artifact /\ file[k] = r.request /\ r.error = "none",
         NEW l \in Places, pc' = [pc EXCEPT ![i] = l],
         \/ l \in {"exited", "get"} /\ cur' = [cur EXCEPT ![i] = Null]
         \/ l = "optimizing" /\ cur' = cur /\ r.status = "running",
         UNCHANGED <<created, file, inst, stopping, queue, pending, acks, overlapped>>
  PROVE  JobInv'
<1> USE DEF JobInv, StoreInv, StoredInv
<1>1. InTable(k)
  BY DEF HeldInv
<1>2. /\ row' \in [Keys -> Rows \cup {Null}] /\ row'[k] = r /\ Status(k)' = r.status
      /\ \A j \in Keys : /\ InTable(j)' <=> InTable(j)
                         /\ row'[j].request = row[j].request
                         /\ j # k => row'[j] = row[j] /\ Status(j)' = Status(j)
  BY <1>1, RowMarked
<1>3. TableKeeps
  BY <1>2 DEF TableKeeps
<1>4. ServiceTypeOK'
  BY <1>2 DEF ServiceTypeOK
<1>5. \A j \in Instances : Busy(j)' => Busy(j) /\ cur'[j] = cur[j]
  BY DEF ServiceTypeOK, Busy
<1>6. CreatedInv' /\ HeldInv' /\ AcknowledgedIsStored'
  BY <1>3, <1>5, CreatedStays, HeldStays, AcksStay
<1>7. DownInv'
  BY DEF DownInv, ServiceTypeOK
<1>8. WrittenInv'
  BY <1>2, <1>5 DEF WrittenInv, HeldInv, ServiceTypeOK, Busy
<1>9. SucceededHasItsArtifact'
  BY <1>2 DEF SucceededHasItsArtifact, WithStatus
<1>10. OwnerInv'
  <2> SUFFICES ASSUME ~overlapped
               PROVE  AloneInv' /\ QueuedInv' /\ PendingInv' /\ HandInv'
    BY DEF OwnerInv
  <2>1. AloneInv /\ QueuedInv /\ PendingInv /\ HandInv
    BY DEF OwnerInv
  <2>2. \A j \in Instances : j # i => /\ ~Busy(j) /\ DOMAIN queue[j] = {}
                                      /\ \A x \in Keys : <<j, x>> \notin pending
    BY <2>1, OneHasAll
  <2>3. AloneInv'
    BY <2>1 DEF AloneInv
  <2>4. QueuedInv'
    <3> SUFFICES ASSUME NEW n \in DOMAIN queue[i], queue[i][n] # Sentinel
                 PROVE  /\ Status(queue[i][n])' = "queued"
                        /\ \A m \in DOMAIN queue[i] : queue[i][m] = queue[i][n] => m = n
                        /\ <<i, queue[i][n]>> \notin pending
                        /\ Busy(i)' => cur'[i] # queue[i][n]
      BY <2>2 DEF QueuedInv
    <3>1. queue[i][n] \in Keys
      <4>1. queue[i] \in Seq(Keys \cup {Sentinel})
        BY DEF ServiceTypeOK
      <4>2. QED
        BY <4>1
    <3>2. queue[i][n] # k
      BY <2>1 DEF QueuedInv
    <3>3. QED
      BY <1>2, <1>5, <2>1, <3>1, <3>2 DEF QueuedInv
  <2>5. PendingInv'
    <3> SUFFICES ASSUME NEW x \in Keys, <<i, x>> \in pending
                 PROVE  Status(x)' = "queued" /\ (Busy(i)' => cur'[i] # x)
      BY <2>2 DEF PendingInv
    <3>1. x # k
      BY <2>1 DEF PendingInv
    <3>2. QED
      BY <1>2, <1>5, <2>1, <3>1 DEF PendingInv
  <2>6. HandInv'
    BY <1>2, <2>2 DEF HandInv, Busy, ServiceTypeOK
  <2>7. QED
    BY <2>3, <2>4, <2>5, <2>6
<1>11. QED
  BY <1>4, <1>6, <1>7, <1>8, <1>9, <1>10

LEMMA MarkRunningKeeps ==
  ASSUME JobInv, NEW i \in Instances, MarkRunning(i)
  PROVE  JobInv'
<1> SUFFICES ASSUME NEW k, k = cur[i] PROVE JobInv'
  OBVIOUS
<1> DEFINE r == [row[k] EXCEPT !.status = "running", !.error = "none"]
<1>1. k \in Keys /\ Busy(i) /\ InTable(k) /\ inst[i] = "up"
  BY DEF MarkRunning, At, Busy, JobInv, StoreInv, StoredInv, HeldInv
<1>2. row[k] \in Rows
  BY <1>1 DEF JobInv, StoreInv, ServiceTypeOK, InTable
<1>3. r \in Rows /\ r.request = row[k].request /\ r.status = "running"
  BY <1>2 DEF Rows, Statuses
<1>4. /\ row' = [row EXCEPT ![k] = r] /\ cur' = cur /\ pc' = [pc EXCEPT ![i] = "optimizing"]
      /\ UNCHANGED <<created, file, inst, stopping, queue, pending, acks, overlapped>>
  BY DEF MarkRunning, Go, history
<1>5. "optimizing" \in Places
  BY DEF Places
<1> HIDE DEF r
<1>6. QED
  BY <1>1, <1>3, <1>4, <1>5, MarkKeeps

LEMMA MarkSucceededKeeps ==
  ASSUME JobInv, NEW i \in Instances, MarkSucceeded(i)
  PROVE  JobInv'
<1> SUFFICES ASSUME NEW k, k = cur[i] PROVE JobInv'
  OBVIOUS
<1> DEFINE r == [row[k] EXCEPT !.status = "succeeded", !.artifact = TRUE, !.error = "none"]
<1>1. k \in Keys /\ Busy(i) /\ InTable(k) /\ inst[i] = "up"
  BY DEF MarkSucceeded, At, Busy, JobInv, StoreInv, StoredInv, HeldInv
<1>2. row[k] \in Rows /\ file[k] = row[k].request
  BY <1>1 DEF JobInv, StoreInv, StoredInv, ServiceTypeOK, WrittenInv, InTable, MarkSucceeded, At
<1>3. r \in Rows /\ r.request = row[k].request /\ r.artifact /\ r.error = "none"
  BY <1>2 DEF Rows, Statuses, Terminal
<1>4. /\ row' = [row EXCEPT ![k] = r] /\ cur' = [cur EXCEPT ![i] = Null]
      /\ UNCHANGED <<created, file, inst, stopping, queue, pending, acks, overlapped>>
  BY DEF MarkSucceeded, Again, history
<1>5. PICK l \in {"exited", "get"} : pc' = [pc EXCEPT ![i] = l]
  BY DEF MarkSucceeded, Again
<1> HIDE DEF r
<1>6. QED
  BY <1>1, <1>2, <1>3, <1>4, <1>5, MarkKeeps DEF Places

LEMMA MarkFailedKeeps ==
  ASSUME JobInv, NEW i \in Instances, MarkFailed(i)
  PROVE  JobInv'
<1> SUFFICES ASSUME NEW k, k = cur[i] PROVE JobInv'
  OBVIOUS
<1> DEFINE r == [row[k] EXCEPT !.status = "failed", !.error = "failure"]
<1>1. k \in Keys /\ Busy(i) /\ InTable(k) /\ inst[i] = "up"
  BY DEF MarkFailed, At, Busy, JobInv, StoreInv, StoredInv, HeldInv
<1>2. row[k] \in Rows
  BY <1>1 DEF JobInv, StoreInv, ServiceTypeOK, InTable
<1>3. r \in Rows /\ r.request = row[k].request /\ r.status = "failed"
  BY <1>2 DEF Rows, Statuses, Terminal
<1>4. /\ row' = [row EXCEPT ![k] = r] /\ cur' = [cur EXCEPT ![i] = Null]
      /\ UNCHANGED <<created, file, inst, stopping, queue, pending, acks, overlapped>>
  BY DEF MarkFailed, Again, history
<1>5. PICK l \in {"exited", "get"} : pc' = [pc EXCEPT ![i] = l]
  BY DEF MarkFailed, Again
<1> HIDE DEF r
<1>6. QED
  BY <1>1, <1>3, <1>4, <1>5, MarkKeeps DEF Places

------------------------------------------------------------------------------
(* The other steps of a worker.                                            *)

\* The worker goes on with its job, or lets it go.
LEMMA GoOnKeeps ==
  ASSUME JobInv, NEW i \in Instances, inst[i] = "up", NEW l \in Places,
         pc' = [pc EXCEPT ![i] = l],
         \/ l \in {"exited", "get", "dead"} /\ cur' = [cur EXCEPT ![i] = Null]
         \/ l = "failing" /\ cur' = cur /\ Busy(i)
         \/ l = "writing" /\ cur' = cur /\ pc[i] = "optimizing",
         UNCHANGED <<table, inst, stopping, queue, pending, acks, overlapped>>
  PROVE  JobInv'
<1> USE DEF JobInv, StoreInv, StoredInv, table
<1>1. ServiceTypeOK'
  BY DEF ServiceTypeOK
<1>2. \A j \in Instances : Busy(j)' => Busy(j) /\ cur'[j] = cur[j]
  BY DEF Busy, ServiceTypeOK
<1>3. \A k \in Keys : (InTable(k)' <=> InTable(k)) /\ Status(k)' = Status(k)
  BY DEF InTable, Status
<1>4. CreatedInv' /\ HeldInv' /\ AcknowledgedIsStored'
  BY <1>2, <1>3, CreatedStays, HeldStays, AcksStay DEF TableKeeps
<1>5. DownInv' /\ WrittenInv'
  BY DEF DownInv, WrittenInv, ServiceTypeOK
<1>6. SucceededHasItsArtifact'
  BY <1>3 DEF SucceededHasItsArtifact, WithStatus
<1>7. OwnerInv'
  <2> SUFFICES ASSUME ~overlapped
               PROVE  AloneInv' /\ QueuedInv' /\ PendingInv' /\ HandInv'
    BY DEF OwnerInv
  <2>1. AloneInv' /\ PendingInv'
    BY <1>2, <1>3 DEF OwnerInv, AloneInv, PendingInv
  <2>2. QueuedInv'
    BY <1>2 DEF OwnerInv, QueuedInv, Status, InTable
  <2>3. HandInv'
    BY DEF OwnerInv, HandInv, Status, InTable, Busy, ServiceTypeOK
  <2>4. QED
    BY <2>1, <2>2, <2>3
<1>8. QED
  BY <1>1, <1>4, <1>5, <1>6, <1>7

LEMMA WorkerKeeps ==
  ASSUME JobInv, NEW i \in Instances, SkipJob(i) \/ Optimize(i) \/ Fault(i) \/ WorkerDies(i)
  PROVE  JobInv'
<1>1. inst[i] = "up" /\ UNCHANGED <<table, inst, stopping, queue, pending, acks, overlapped>>
  BY DEF SkipJob, Optimize, Fault, WorkerDies, At, history
<1>2. CASE SkipJob(i)
  <2>1. cur' = [cur EXCEPT ![i] = Null] /\ \E l \in {"exited", "get"} : pc' = [pc EXCEPT ![i] = l]
    BY <1>2 DEF SkipJob, Again
  <2>2. QED
    BY <1>1, <2>1, GoOnKeeps DEF Places
<1>3. CASE Optimize(i)
  BY <1>1, <1>3, GoOnKeeps DEF Optimize, At, Go, Places
<1>4. CASE Fault(i)
  BY <1>1, <1>4, GoOnKeeps DEF Fault, Go, Places, Busy
<1>5. CASE WorkerDies(i)
  BY <1>1, <1>5, GoOnKeeps DEF WorkerDies, Places
<1>6. QED
  BY <1>2, <1>3, <1>4, <1>5

LEMMA WriteArtifactKeeps ==
  ASSUME JobInv, NEW i \in Instances, WriteArtifact(i)
  PROVE  JobInv'
<1> USE DEF JobInv, StoreInv, StoredInv
<1> SUFFICES ASSUME NEW k, k = cur[i] PROVE JobInv'
  OBVIOUS
<1>1. /\ pc[i] = "writing" /\ pc' = [pc EXCEPT ![i] = "finishing"] /\ cur' = cur
      /\ file' = [file EXCEPT ![k] = row[k].request]
      /\ UNCHANGED <<row, created, inst, stopping, queue, pending, acks, overlapped>>
  BY DEF WriteArtifact, At, Go, history
<1>2. k \in Keys /\ InTable(k) /\ inst[i] = "up"
  BY <1>1 DEF HeldInv, Busy, WriteArtifact, At
<1>3. row[k] \in Rows /\ row[k].request \in Requests
  BY <1>2 DEF ServiceTypeOK, InTable, Rows
<1>4. ServiceTypeOK'
  BY <1>1, <1>2, <1>3 DEF ServiceTypeOK, Places
<1>5. \A j \in Instances : Busy(j)' => Busy(j) /\ cur'[j] = cur[j]
  BY <1>1 DEF Busy, ServiceTypeOK
<1>6. \A j \in Keys : (InTable(j)' <=> InTable(j)) /\ Status(j)' = Status(j)
  BY <1>1 DEF InTable, Status
<1>7. CreatedInv' /\ HeldInv' /\ AcknowledgedIsStored'
  BY <1>1, <1>5, <1>6, CreatedStays, HeldStays, AcksStay DEF TableKeeps
<1>8. DownInv'
  BY <1>1, <1>2 DEF DownInv, ServiceTypeOK
\* The file of a job is only ever written with the request of its row.
<1>9. \A j \in Keys : file'[j] = file[j] \/ file'[j] = row[j].request
  BY <1>1, <1>2 DEF ServiceTypeOK
<1>10. WrittenInv'
  <2> SUFFICES ASSUME NEW j \in Instances, pc'[j] = "finishing"
               PROVE  file'[cur[j]] = row[cur[j]].request
    BY <1>1 DEF WrittenInv
  <2>1. CASE j = i
    BY <1>1, <1>2, <2>1 DEF ServiceTypeOK
  <2>2. CASE j # i
    <3>1. pc[j] = "finishing" /\ cur[j] \in Keys
      BY <1>1, <2>2 DEF ServiceTypeOK, HeldInv, Busy
    <3>2. QED
      BY <1>9, <3>1 DEF WrittenInv
  <2>3. QED
    BY <2>1, <2>2
<1>11. SucceededHasItsArtifact'
  BY <1>1, <1>6, <1>9 DEF SucceededHasItsArtifact, WithStatus
<1>12. OwnerInv'
  <2> SUFFICES ASSUME ~overlapped
               PROVE  AloneInv' /\ QueuedInv' /\ PendingInv' /\ HandInv'
    BY <1>1 DEF OwnerInv
  <2>1. AloneInv' /\ PendingInv'
    BY <1>1, <1>5, <1>6 DEF OwnerInv, AloneInv, PendingInv
  <2>2. QueuedInv'
    BY <1>1, <1>5 DEF OwnerInv, QueuedInv, Status, InTable
  <2>3. HandInv'
    BY <1>1 DEF OwnerInv, HandInv, Status, InTable, ServiceTypeOK
  <2>4. QED
    BY <2>1, <2>2, <2>3
<1>13. QED
  BY <1>4, <1>7, <1>8, <1>10, <1>11, <1>12

\* The rest of a queue is what it was, one place further on.
LEMMA TailItems ==
  ASSUME NEW S, NEW s \in Seq(S), s # <<>>
  PROVE  /\ Head(s) \in S /\ Head(s) = s[1] /\ 1 \in DOMAIN s /\ Tail(s) \in Seq(S)
         /\ \A n \in DOMAIN Tail(s) : n \in Nat /\ n + 1 \in DOMAIN s /\ Tail(s)[n] = s[n + 1] /\ n + 1 # 1
  OBVIOUS

LEMMA GetKeeps ==
  ASSUME JobInv, NEW i \in Instances, Get(i)
  PROVE  JobInv'
<1> USE DEF JobInv, StoreInv, StoredInv
<1> SUFFICES ASSUME NEW q, q = queue[i] PROVE JobInv'
  OBVIOUS
<1>1. /\ inst[i] = "up" /\ pc[i] = "get" /\ q # <<>>
      /\ queue' = [queue EXCEPT ![i] = Tail(q)]
      /\ UNCHANGED <<row, created, file, inst, stopping, pending, acks, overlapped>>
      /\ \/ Head(q) = Sentinel /\ pc' = [pc EXCEPT ![i] = "exited"] /\ cur' = cur
         \/ /\ Head(q) # Sentinel /\ pc' = [pc EXCEPT ![i] = "claimed"]
            /\ cur' = [cur EXCEPT ![i] = Head(q)]
  BY DEF Get, At, Go, table, history
<1>2. q \in Seq(Keys \cup {Sentinel})
  BY DEF ServiceTypeOK
<1>3. /\ Head(q) \in Keys \cup {Sentinel} /\ Head(q) = q[1] /\ 1 \in DOMAIN q
      /\ Tail(q) \in Seq(Keys \cup {Sentinel})
      /\ \A n \in DOMAIN Tail(q) : n \in Nat /\ n + 1 \in DOMAIN q /\ Tail(q)[n] = q[n + 1] /\ n + 1 # 1
  BY <1>1, <1>2, TailItems
<1>4. /\ queue'[i] = Tail(q)
      /\ \A j \in Instances : j # i => queue'[j] = queue[j] /\ pc'[j] = pc[j] /\ cur'[j] = cur[j]
  BY <1>1 DEF ServiceTypeOK
<1>5. \A k \in Keys : (InTable(k)' <=> InTable(k)) /\ Status(k)' = Status(k)
  BY <1>1 DEF InTable, Status
<1>6. ServiceTypeOK'
  <2>1. queue' \in [Instances -> Seq(Keys \cup {Sentinel})]
    BY <1>1, <1>3 DEF ServiceTypeOK
  <2>2. pc' \in [Instances -> Places]
    BY <1>1 DEF ServiceTypeOK, Places
  <2>3. cur' \in [Instances -> Keys \cup {Null}]
    BY <1>1, <1>3 DEF ServiceTypeOK
  <2>4. QED
    BY <1>1, <2>1, <2>2, <2>3 DEF ServiceTypeOK
<1>7. CreatedInv' /\ AcknowledgedIsStored'
  BY <1>1, <1>5, CreatedStays, AcksStay DEF TableKeeps
<1>8. HeldInv'
  <2>1. ASSUME NEW j \in Instances, NEW n \in DOMAIN queue'[j], queue'[j][n] # Sentinel
        PROVE  InTable(queue[j][n])'
    <3>1. \E m \in DOMAIN queue[j] : queue'[j][n] = queue[j][m]
      <4>1. CASE j = i
        <5>1. queue'[j] = Tail(q) /\ queue[j] = q
          BY <1>4, <4>1
        <5>2. QED
          BY <1>3, <5>1
      <4>2. CASE j # i
        BY <1>4, <4>2
      <4>3. QED
        BY <4>1, <4>2
    <3>2. QED
      BY <1>1, <2>1, <3>1 DEF HeldInv, InTable
  <2>2. ASSUME NEW j \in Instances, NEW k \in Keys, <<j, k>> \in pending PROVE InTable(k)'
    BY <1>5, <2>2 DEF HeldInv
  <2>3. ASSUME NEW j \in Instances, Busy(j)' PROVE cur'[j] \in Keys /\ InTable(cur[j])'
    <3>1. CASE j = i
      <4>1. Head(q) # Sentinel /\ cur'[i] = Head(q)
        BY <1>1, <2>3, <3>1 DEF Busy, ServiceTypeOK
      <4>2. Head(q) \in Keys /\ InTable(Head(q))
        BY <1>3, <4>1 DEF HeldInv
      <4>3. QED
        BY <1>5, <3>1, <4>1, <4>2
    <3>2. CASE j # i
      BY <1>4, <1>5, <2>3, <3>2 DEF HeldInv, Busy
    <3>3. QED
      BY <3>1, <3>2
  <2>4. QED
    BY <1>1, <2>1, <2>2, <2>3 DEF HeldInv
<1>9. DownInv' /\ WrittenInv'
  <2>1. ASSUME NEW j \in Instances, inst'[j] # "up"
        PROVE  pc'[j] = "exited" /\ queue'[j] = <<>> /\ \A k \in Keys : <<j, k>> \notin pending'
    BY <1>1, <1>4, <2>1 DEF DownInv
  <2>2. ASSUME NEW j \in Instances, pc'[j] = "finishing" PROVE file'[cur'[j]] = row'[cur'[j]].request
    <3>1. j # i
      BY <1>1, <2>2 DEF ServiceTypeOK
    <3>2. QED
      BY <1>1, <1>4, <2>2, <3>1 DEF WrittenInv
  <2>3. QED
    BY <2>1, <2>2 DEF DownInv, WrittenInv
<1>10. SucceededHasItsArtifact'
  BY <1>1, <1>5 DEF SucceededHasItsArtifact, WithStatus
<1>11. OwnerInv'
  <2> SUFFICES ASSUME ~overlapped
               PROVE  AloneInv' /\ QueuedInv' /\ PendingInv' /\ HandInv'
    BY <1>1 DEF OwnerInv
  <2>1. AloneInv /\ QueuedInv /\ PendingInv /\ HandInv
    BY DEF OwnerInv
  <2>2. AloneInv'
    BY <1>1, <2>1 DEF AloneInv
  <2>3. Busy(i)' => /\ Head(q) # Sentinel /\ cur'[i] = q[1] /\ pc'[i] = "claimed"
                    /\ Status(q[1]) = "queued" /\ <<i, q[1]>> \notin pending
                    /\ \A m \in DOMAIN q : q[m] = q[1] => m = 1
    BY <1>1, <1>3, <2>1 DEF QueuedInv, Busy, ServiceTypeOK
  <2>4. \A j \in Instances : j # i => (Busy(j)' <=> Busy(j))
    BY <1>4 DEF Busy
  <2>5. QueuedInv'
    <3> SUFFICES ASSUME NEW j \in Instances, NEW n \in DOMAIN queue'[j], queue'[j][n] # Sentinel
                 PROVE  /\ Status(queue[j][n])' = "queued"
                        /\ \A m \in DOMAIN queue'[j] : queue'[j][m] = queue'[j][n] => m = n
                        /\ <<j, queue'[j][n]>> \notin pending'
                        /\ Busy(j)' => cur'[j] # queue'[j][n]
      BY DEF QueuedInv
    <3> pending' = pending /\ row' = row
      BY <1>1
    <3>1. CASE j = i
      <4>1. /\ n + 1 \in DOMAIN q /\ queue'[j][n] = q[n + 1] /\ n + 1 # 1 /\ n \in Nat
            /\ \A m \in DOMAIN queue'[j] : m \in Nat /\ m + 1 \in DOMAIN q /\ queue'[j][m] = q[m + 1]
        <5>1. queue'[j] = Tail(q)
          BY <1>4, <3>1
        <5>2. QED
          BY <1>3, <5>1
      <4>2. /\ Status(q[n + 1]) = "queued" /\ <<i, q[n + 1]>> \notin pending
            /\ \A m \in DOMAIN q : q[m] = q[n + 1] => m = n + 1
        BY <2>1, <4>1 DEF QueuedInv
      <4>3. Status(queue[j][n])' = "queued"
        BY <1>1, <4>1, <4>2 DEF Status, InTable
      <4>4. Busy(j)' => cur'[j] # queue'[j][n]
        BY <1>3, <2>3, <3>1, <4>1, <4>2
      <4>5. \A m \in DOMAIN queue'[j] : queue'[j][m] = queue'[j][n] => m = n
        BY <4>1, <4>2
      <4>6. <<j, queue'[j][n]>> \notin pending'
        <5>1. queue'[j][n] = q[n + 1] /\ <<i, q[n + 1]>> \notin pending
          BY <4>1, <4>2
        <5>2. QED
          BY <3>1, <5>1
      <4>7. QED
        BY <4>3, <4>4, <4>5, <4>6
    <3>2. CASE j # i
      <4>1. queue'[j] = queue[j] /\ cur'[j] = cur[j] /\ (Busy(j)' <=> Busy(j))
        BY <1>4, <2>4, <3>2
      <4>2. Status(queue[j][n])' = Status(queue[j][n])
        <5>1. row' = row /\ queue'[j][n] = queue[j][n]
          BY <1>1, <4>1
        <5>2. QED
          BY <5>1 DEF Status, InTable
      <4>3. n \in DOMAIN queue[j] /\ queue[j][n] # Sentinel
        BY <4>1
      <4>4. /\ Status(queue[j][n]) = "queued"
            /\ \A m \in DOMAIN queue[j] : queue[j][m] = queue[j][n] => m = n
            /\ <<j, queue[j][n]>> \notin pending
            /\ Busy(j) => cur[j] # queue[j][n]
        BY <2>1, <4>3 DEF QueuedInv
      <4>5. QED
        BY <4>1, <4>2, <4>4
    <3>3. QED
      BY <3>1, <3>2
  <2>6. PendingInv'
    BY <1>1, <1>4, <1>5, <2>1, <2>3, <2>4 DEF PendingInv
  <2>7. HandInv'
    <3> SUFFICES ASSUME NEW j \in Instances
                 PROVE /\ pc'[j] = "claimed" => Status(cur[j])' = "queued"
                       /\ pc'[j] \in {"optimizing", "writing", "finishing"} => Status(cur[j])' = "running"
                       /\ pc'[j] = "failing" => Status(cur[j])' \in {"queued", "running"}
      BY DEF HandInv
    <3>1. CASE j = i
      BY <1>1, <2>3, <3>1 DEF Busy, Status, InTable, ServiceTypeOK
    <3>2. CASE j # i
      BY <1>1, <1>4, <2>1, <3>2 DEF HandInv, Status, InTable
    <3>3. QED
      BY <3>1, <3>2
  <2>8. QED
    BY <2>2, <2>5, <2>6, <2>7
<1>12. QED
  BY <1>6, <1>7, <1>8, <1>9, <1>10, <1>11

------------------------------------------------------------------------------
(* Submissions.                                                            *)

LEMMA ReplayKeeps ==
  ASSUME JobInv, NEW i \in Instances, NEW k \in Keys, NEW q \in Requests, Replay(i, k, q)
  PROVE  JobInv'
<1> USE DEF JobInv, StoreInv, StoredInv
<1>1. /\ acks' = acks \cup {<<k, q>>} /\ InTable(k) /\ row[k].request = q
      /\ UNCHANGED <<row, created, file, inst, stopping, queue, pending, pc, cur, overlapped>>
  BY DEF Replay, Replayable, table, worker
<1>2. ServiceTypeOK'
  BY <1>1 DEF ServiceTypeOK
<1>3. AcknowledgedIsStored'
  <2> SUFFICES ASSUME NEW a \in acks' PROVE InTable(a[1]) /\ row[a[1]].request = a[2]
    BY <1>1 DEF AcknowledgedIsStored, InTable
  <2>1. a \in acks \/ a = <<k, q>>
    BY <1>1
  <2>2. QED
    BY <1>1, <2>1 DEF AcknowledgedIsStored
<1>4. (CreatedInv /\ HeldInv /\ DownInv /\ WrittenInv /\ SucceededHasItsArtifact)'
  BY <1>1 DEF CreatedInv, HeldInv, DownInv, WrittenInv, SucceededHasItsArtifact,
              InTable, Status, WithStatus, Busy
<1>5. OwnerInv'
  BY <1>1 DEF OwnerInv, AloneInv, QueuedInv, PendingInv, HandInv, InTable, Status, Busy
<1>6. QED
  BY <1>2, <1>3, <1>4, <1>5

LEMMA CreateKeeps ==
  ASSUME JobInv, NEW i \in Instances, NEW k \in Keys, NEW q \in Requests, Create(i, k, q)
  PROVE  JobInv'
<1> USE DEF JobInv, StoreInv, StoredInv
<1> DEFINE r == [request |-> q, status |-> "queued", artifact |-> FALSE, error |-> "none"]
<1>1. /\ inst[i] = "up" /\ ~InTable(k) /\ row' = [row EXCEPT ![k] = r]
      /\ created' = Append(created, k) /\ pending' = pending \cup {<<i, k>>}
      /\ UNCHANGED <<file, inst, stopping, queue, pc, cur, acks, overlapped>>
  BY DEF Create, worker, history
<1>2. r \in Rows /\ r.status = "queued"
  BY DEF Rows, Statuses, Terminal
<1> HIDE DEF r
<1>3. /\ row' \in [Keys -> Rows \cup {Null}] /\ row'[k] = r /\ InTable(k)' /\ Status(k)' = "queued"
      /\ \A j \in Keys : j # k => row'[j] = row[j] /\ (InTable(j)' <=> InTable(j)) /\ Status(j)' = Status(j)
  BY <1>1, <1>2, ServiceAssumption DEF ServiceTypeOK, InTable, Status
<1>4. TableKeeps
  BY <1>1, <1>3 DEF TableKeeps, InTable
<1>5. ServiceTypeOK'
  BY <1>1, <1>3 DEF ServiceTypeOK
<1>6. AcknowledgedIsStored'
  BY <1>1, <1>4, AcksStay
<1>7. CreatedInv'
  <2>1. /\ created \in Seq(Keys) /\ \A n \in DOMAIN created : created[n] \in Keys /\ created[n] # k
    BY <1>1 DEF ServiceTypeOK, CreatedInv
  <2>2. \A n \in DOMAIN created' : \/ n \in DOMAIN created /\ created'[n] = created[n]
                                   \/ n = Len(created) + 1 /\ created'[n] = k
    BY <1>1, <2>1
  <2>3. \A n \in DOMAIN created' : InTable(created[n])'
    BY <1>3, <1>4, <2>1, <2>2 DEF CreatedInv, TableKeeps
  <2>4. QED
    BY <2>1, <2>2, <2>3 DEF CreatedInv
<1>8. \A j \in Instances : \A n \in DOMAIN queue[j] :
        queue[j][n] # Sentinel => queue[j][n] \in Keys /\ InTable(queue[j][n]) /\ queue[j][n] # k
  <2> SUFFICES ASSUME NEW j \in Instances, NEW n \in DOMAIN queue[j], queue[j][n] # Sentinel
               PROVE  queue[j][n] \in Keys /\ InTable(queue[j][n]) /\ queue[j][n] # k
    OBVIOUS
  <2>1. queue[j] \in Seq(Keys \cup {Sentinel})
    BY DEF ServiceTypeOK
  <2>2. QED
    BY <1>1, <2>1 DEF HeldInv
<1>9. HeldInv'
  <2>1. ASSUME NEW j \in Instances, NEW n \in DOMAIN queue'[j], queue'[j][n] # Sentinel
        PROVE  InTable(queue[j][n])'
    BY <1>1, <1>4, <1>8, <2>1 DEF TableKeeps
  <2>2. ASSUME NEW j \in Instances, NEW x \in Keys, <<j, x>> \in pending' PROVE InTable(x)'
    BY <1>1, <1>3, <1>4, <2>2 DEF HeldInv, TableKeeps
  <2>3. ASSUME NEW j \in Instances, Busy(j)' PROVE cur'[j] \in Keys /\ InTable(cur[j])'
    BY <1>1, <1>4, <2>3 DEF HeldInv, TableKeeps, Busy
  <2>4. QED
    BY <2>1, <2>2, <2>3 DEF HeldInv
<1>10. DownInv'
  BY <1>1 DEF DownInv
<1>11. WrittenInv'
  BY <1>1, <1>4 DEF WrittenInv, HeldInv, Busy, TableKeeps
<1>12. SucceededHasItsArtifact'
  BY <1>1, <1>3 DEF SucceededHasItsArtifact, WithStatus
<1>13. OwnerInv'
  <2> SUFFICES ASSUME ~overlapped
               PROVE  AloneInv' /\ QueuedInv' /\ PendingInv' /\ HandInv'
    BY <1>1 DEF OwnerInv
  <2>1. AloneInv /\ QueuedInv /\ PendingInv /\ HandInv
    BY DEF OwnerInv
  <2>2. AloneInv'
    BY <1>1, <2>1 DEF AloneInv
  <2>3. \A j \in Instances : Busy(j) => cur[j] \in Keys /\ cur[j] # k
    BY <1>1 DEF HeldInv
  <2>4. QueuedInv'
    <3> SUFFICES ASSUME NEW j \in Instances, NEW n \in DOMAIN queue[j], queue[j][n] # Sentinel
                 PROVE  /\ Status(queue[j][n])' = "queued"
                        /\ \A m \in DOMAIN queue[j] : queue[j][m] = queue[j][n] => m = n
                        /\ <<j, queue[j][n]>> \notin pending'
                        /\ Busy(j) => cur[j] # queue[j][n]
      BY <1>1 DEF QueuedInv, Busy
    <3>1. Status(queue[j][n])' = "queued"
      <4> SUFFICES ASSUME NEW x, x = queue[j][n] PROVE Status(x)' = "queued"
        BY <1>1
      <4>1. x \in Keys /\ x # k /\ Status(x) = "queued"
        BY <1>8, <2>1 DEF QueuedInv
      <4>2. QED
        BY <1>3, <4>1
    <3>2. QED
      BY <1>1, <1>8, <2>1, <3>1 DEF QueuedInv
  <2>5. PendingInv'
    <3> SUFFICES ASSUME NEW j \in Instances, NEW x \in Keys, <<j, x>> \in pending'
                 PROVE  Status(x)' = "queued" /\ (Busy(j) => cur[j] # x)
      BY <1>1 DEF PendingInv, Busy
    <3>1. CASE x = k
      BY <1>3, <2>3, <3>1
    <3>2. CASE x # k
      BY <1>1, <1>3, <2>1, <3>2 DEF PendingInv
    <3>3. QED
      BY <3>1, <3>2
  <2>6. \A j \in Instances : Busy(j) => Status(cur[j])' = Status(cur[j])
    BY <1>1, <1>3, <2>3
  <2>7. HandInv'
    BY <1>1, <2>1, <2>6 DEF HandInv, Busy
  <2>8. QED
    BY <2>2, <2>4, <2>5, <2>7
<1>14. QED
  BY <1>5, <1>6, <1>7, <1>9, <1>10, <1>11, <1>12, <1>13

LEMMA SubmitFailsKeeps ==
  ASSUME JobInv, NEW i \in Instances, NEW k \in Keys, SubmitFails(i, k)
  PROVE  JobInv'
<1> USE DEF JobInv, StoreInv, StoredInv
<1>1. /\ pending' \subseteq pending
      /\ UNCHANGED <<row, created, file, inst, stopping, queue, pc, cur, acks, overlapped>>
  BY DEF SubmitFails, table, worker
<1>2. ServiceTypeOK'
  BY <1>1 DEF ServiceTypeOK
<1>3. (CreatedInv /\ HeldInv /\ DownInv /\ WrittenInv)'
  BY <1>1 DEF CreatedInv, HeldInv, DownInv, WrittenInv, InTable, Busy
<1>4. (AcknowledgedIsStored /\ SucceededHasItsArtifact)'
  BY <1>1 DEF AcknowledgedIsStored, SucceededHasItsArtifact, InTable, Status, WithStatus
<1>5. OwnerInv'
  BY <1>1 DEF OwnerInv, AloneInv, QueuedInv, PendingInv, HandInv, InTable, Status, Busy
<1>6. QED
  BY <1>2, <1>3, <1>4, <1>5

\* What a longer queue holds.
LEMMA AppendItems ==
  ASSUME NEW S, NEW s \in Seq(S), NEW x \in S
  PROVE  /\ Append(s, x) \in Seq(S)
         /\ \A n \in DOMAIN Append(s, x) : \/ n \in DOMAIN s /\ Append(s, x)[n] = s[n]
                                           \/ n = Len(s) + 1 /\ Append(s, x)[n] = x
         /\ \A n \in DOMAIN s : n # Len(s) + 1
  OBVIOUS

\* A queue grows by the sentinel, or by a job that leaves the submissions.
LEMMA AppendKeeps ==
  ASSUME JobInv, NEW i \in Instances, inst[i] = "up",
         NEW x, queue' = [queue EXCEPT ![i] = Append(@, x)],
         \/ x = Sentinel /\ pending' = pending
         \/ x \in Keys /\ <<i, x>> \in pending /\ pending' = pending \ {<<i, x>>},
         stopping' \in [Instances -> BOOLEAN],
         acks' \in SUBSET (Keys \X Requests), AcknowledgedIsStored',
         UNCHANGED <<row, created, file, inst, pc, cur, overlapped>>
  PROVE  JobInv'
<1> USE DEF JobInv, StoreInv, StoredInv
<1> SUFFICES ASSUME NEW q, q = queue[i] PROVE JobInv'
  OBVIOUS
<1>1. /\ q \in Seq(Keys \cup {Sentinel}) /\ x \in Keys \cup {Sentinel}
      /\ queue'[i] = Append(q, x) /\ \A j \in Instances : j # i => queue'[j] = queue[j]
  BY DEF ServiceTypeOK
<1>2. /\ Append(q, x) \in Seq(Keys \cup {Sentinel})
      /\ \A n \in DOMAIN Append(q, x) : \/ n \in DOMAIN q /\ Append(q, x)[n] = q[n]
                                        \/ n = Len(q) + 1 /\ Append(q, x)[n] = x
      /\ \A n \in DOMAIN q : n # Len(q) + 1
  BY <1>1, AppendItems
<1>3. ServiceTypeOK'
  BY <1>1, <1>2 DEF ServiceTypeOK
<1>4. pending' \subseteq pending
  OBVIOUS
\* What is in a queue was there before, or is x.
<1>5. \A j \in Instances : \A n \in DOMAIN queue'[j] :
        \/ n \in DOMAIN queue[j] /\ queue'[j][n] = queue[j][n]
        \/ j = i /\ n = Len(q) + 1 /\ queue'[j][n] = x
  <2> SUFFICES ASSUME NEW j \in Instances, NEW n \in DOMAIN queue'[j]
               PROVE  \/ n \in DOMAIN queue[j] /\ queue'[j][n] = queue[j][n]
                      \/ j = i /\ n = Len(q) + 1 /\ queue'[j][n] = x
    OBVIOUS
  <2>1. CASE j = i
    <3>1. queue'[j] = Append(q, x) /\ queue[j] = q
      BY <1>1, <2>1
    <3>2. QED
      BY <1>2, <2>1, <3>1
  <2>2. CASE j # i
    BY <1>1, <2>2
  <2>3. QED
    BY <2>1, <2>2
<1>6. CreatedInv' /\ WrittenInv' /\ SucceededHasItsArtifact'
  BY DEF CreatedInv, WrittenInv, SucceededHasItsArtifact, WithStatus, Status, InTable
<1>7. HeldInv'
  <2>1. ASSUME NEW j \in Instances, NEW n \in DOMAIN queue'[j], queue'[j][n] # Sentinel
        PROVE  InTable(queue[j][n])'
    <3>1. \E y : y = queue'[j][n] /\ InTable(y)
      BY <1>5, <2>1 DEF HeldInv
    <3>2. QED
      BY <3>1 DEF InTable
  <2>2. QED
    BY <1>4, <2>1 DEF HeldInv, InTable, Busy
<1>8. DownInv'
  BY <1>1, <1>4 DEF DownInv
<1>9. OwnerInv'
  <2> SUFFICES ASSUME ~overlapped
               PROVE  AloneInv' /\ QueuedInv' /\ PendingInv' /\ HandInv'
    BY DEF OwnerInv
  <2>1. AloneInv /\ QueuedInv /\ PendingInv /\ HandInv
    BY DEF OwnerInv
  <2>2. AloneInv' /\ HandInv'
    BY <2>1 DEF AloneInv, HandInv, Status, InTable
  <2>3. PendingInv'
    BY <1>4, <2>1 DEF PendingInv, Status, InTable, Busy
  <2>4. x # Sentinel => /\ Status(x) = "queued" /\ (Busy(i) => cur[i] # x)
                        /\ <<i, x>> \notin pending' /\ \A n \in DOMAIN q : q[n] # x
    BY <2>1 DEF PendingInv, QueuedInv
  <2>5. QueuedInv'
    <3> SUFFICES ASSUME NEW j \in Instances, NEW n \in DOMAIN queue'[j], queue'[j][n] # Sentinel
                 PROVE  /\ Status(queue[j][n])' = "queued"
                        /\ \A m \in DOMAIN queue'[j] : queue'[j][m] = queue'[j][n] => m = n
                        /\ <<j, queue'[j][n]>> \notin pending'
                        /\ Busy(j) => cur[j] # queue'[j][n]
      BY DEF QueuedInv, Busy
    <3>1. CASE n \in DOMAIN queue[j] /\ queue'[j][n] = queue[j][n]
      <4>1. /\ Status(queue[j][n]) = "queued" /\ <<j, queue[j][n]>> \notin pending
            /\ \A m \in DOMAIN queue[j] : queue[j][m] = queue[j][n] => m = n
            /\ Busy(j) => cur[j] # queue[j][n]
        BY <2>1, <3>1 DEF QueuedInv
      <4>2. Status(queue[j][n])' = "queued"
        BY <3>1, <4>1 DEF Status, InTable
      <4>3. ASSUME NEW m \in DOMAIN queue'[j], queue'[j][m] = queue'[j][n] PROVE m = n
        BY <1>5, <2>4, <3>1, <4>1, <4>3
      <4>4. QED
        BY <1>4, <3>1, <4>1, <4>2, <4>3
    <3>2. CASE j = i /\ n = Len(q) + 1 /\ queue'[j][n] = x
      <4>1. Status(queue[j][n])' = "queued"
        BY <2>4, <3>2 DEF Status, InTable
      <4>2. ASSUME NEW m \in DOMAIN queue'[j], queue'[j][m] = queue'[j][n] PROVE m = n
        BY <1>5, <2>4, <3>2, <4>2
      <4>3. QED
        BY <2>4, <3>2, <4>1, <4>2
    <3>3. QED
      BY <1>5, <3>1, <3>2
  <2>6. QED
    BY <2>2, <2>3, <2>5
<1>10. QED
  BY <1>3, <1>6, <1>7, <1>8, <1>9

LEMMA EnqueueKeeps ==
  ASSUME JobInv, NEW i \in Instances, NEW k \in Keys, Enqueue(i, k)
  PROVE  JobInv'
<1> USE DEF JobInv, StoreInv, StoredInv
<1>1. /\ <<i, k>> \in pending /\ queue' = [queue EXCEPT ![i] = Append(@, k)]
      /\ acks' = acks \cup {<<k, row[k].request>>} /\ pending' = pending \ {<<i, k>>}
      /\ UNCHANGED <<row, created, file, inst, stopping, pc, cur, overlapped>>
  BY DEF Enqueue, table, worker
<1>2. inst[i] = "up" /\ InTable(k)
  BY <1>1 DEF DownInv, HeldInv
<1>3. row[k].request \in Requests
  <2>1. row[k] \in Rows
    BY <1>2 DEF ServiceTypeOK, InTable
  <2>2. QED
    BY <2>1 DEF Rows
<1>4. acks' \in SUBSET (Keys \X Requests) /\ stopping' \in [Instances -> BOOLEAN]
  BY <1>1, <1>3 DEF ServiceTypeOK
<1>5. AcknowledgedIsStored'
  <2> SUFFICES ASSUME NEW a \in acks' PROVE InTable(a[1]) /\ row[a[1]].request = a[2]
    BY <1>1 DEF AcknowledgedIsStored, InTable
  <2>1. a \in acks \/ a = <<k, row[k].request>>
    BY <1>1
  <2>2. QED
    BY <1>2, <2>1 DEF AcknowledgedIsStored
<1>6. QED
  BY <1>1, <1>2, <1>4, <1>5, AppendKeeps

LEMMA StopKeeps ==
  ASSUME JobInv, NEW i \in Instances, Stop(i)
  PROVE  JobInv'
<1>1. /\ inst[i] = "up" /\ queue' = [queue EXCEPT ![i] = Append(@, Sentinel)]
      /\ stopping' = [stopping EXCEPT ![i] = TRUE]
      /\ UNCHANGED <<row, created, file, inst, pending, pc, cur, acks, overlapped>>
  BY DEF Stop, table, worker, history
<1>2. AcknowledgedIsStored' /\ acks' \in SUBSET (Keys \X Requests)
  BY <1>1 DEF JobInv, StoreInv, ServiceTypeOK, AcknowledgedIsStored, InTable
<1>3. stopping' \in [Instances -> BOOLEAN]
  BY <1>1 DEF JobInv, StoreInv, ServiceTypeOK
<1>4. QED
  BY <1>1, <1>2, <1>3, AppendKeeps

------------------------------------------------------------------------------
(* The life of a process.                                                  *)

LEMMA VanishKeeps ==
  ASSUME JobInv, NEW i \in Instances, Vanish(i)
  PROVE  JobInv'
<1> USE DEF JobInv, StoreInv, StoredInv
<1>1. /\ inst'[i] = "down" /\ queue'[i] = <<>> /\ pc'[i] = "exited" /\ ~Busy(i)'
      /\ \A k \in Keys : <<i, k>> \notin pending'
      /\ \A j \in Instances : j # i =>
           /\ inst'[j] = inst[j] /\ queue'[j] = queue[j] /\ pc'[j] = pc[j] /\ cur'[j] = cur[j]
           /\ (Busy(j)' <=> Busy(j))
           /\ \A k \in Keys : <<j, k>> \in pending' <=> <<j, k>> \in pending
      /\ UNCHANGED <<row, created, file, acks, overlapped>>
  BY DEF Vanish, ServiceTypeOK, Busy, table, history
<1>2. ServiceTypeOK'
  <2>1. pending' \in SUBSET (Instances \X Keys) /\ queue' \in [Instances -> Seq(Keys \cup {Sentinel})]
    BY DEF ServiceTypeOK, Vanish
  <2>2. QED
    BY <1>1, <2>1 DEF ServiceTypeOK, Vanish, Places
<1>3. (CreatedInv /\ AcknowledgedIsStored /\ SucceededHasItsArtifact)'
  BY <1>1 DEF CreatedInv, AcknowledgedIsStored, SucceededHasItsArtifact, WithStatus, Status, InTable
<1>4. HeldInv'
  <2>1. ASSUME NEW j \in Instances, NEW n \in DOMAIN queue'[j], queue'[j][n] # Sentinel
        PROVE  InTable(queue[j][n])'
    <3>1. j # i
      BY <1>1, <2>1
    <3>2. InTable(queue[j][n]) /\ queue'[j] = queue[j]
      BY <1>1, <2>1, <3>1 DEF HeldInv
    <3>3. QED
      BY <1>1, <3>2 DEF InTable
  <2>2. QED
    BY <1>1, <2>1 DEF HeldInv, InTable
<1>5. DownInv' /\ WrittenInv'
  BY <1>1 DEF DownInv, WrittenInv
<1>6. OwnerInv'
  <2> SUFFICES ASSUME ~overlapped
               PROVE  AloneInv' /\ QueuedInv' /\ PendingInv' /\ HandInv'
    BY <1>1 DEF OwnerInv
  <2>1. AloneInv /\ QueuedInv /\ PendingInv /\ HandInv
    BY DEF OwnerInv
  <2>2. AloneInv' /\ PendingInv'
    BY <1>1, <2>1 DEF AloneInv, PendingInv, Status, InTable
  <2>3. HandInv'
    BY <1>1, <2>1 DEF HandInv, Status, InTable
  <2>4. QueuedInv'
    <3> SUFFICES ASSUME NEW j \in Instances, NEW n \in DOMAIN queue'[j], queue'[j][n] # Sentinel
                 PROVE  /\ Status(queue[j][n])' = "queued"
                        /\ \A m \in DOMAIN queue'[j] : queue'[j][m] = queue'[j][n] => m = n
                        /\ <<j, queue'[j][n]>> \notin pending'
                        /\ Busy(j)' => cur'[j] # queue'[j][n]
      BY DEF QueuedInv
    <3>1. j # i
      BY <1>1
    <3>2. queue'[j] = queue[j] /\ row' = row
      BY <1>1, <3>1
    <3>3. Status(queue[j][n])' = "queued"
      BY <2>1, <3>2 DEF QueuedInv, Status, InTable
    <3>4. /\ \A m \in DOMAIN queue[j] : queue[j][m] = queue[j][n] => m = n
          /\ <<j, queue[j][n]>> \notin pending
          /\ Busy(j) => cur[j] # queue[j][n]
      BY <2>1, <3>2 DEF QueuedInv
    <3>5. pending' \subseteq pending
      BY DEF Vanish
    <3>6. QED
      BY <1>1, <3>1, <3>2, <3>3, <3>4, <3>5
  <2>5. QED
    BY <2>2, <2>3, <2>4
<1>7. QED
  BY <1>2, <1>3, <1>4, <1>5, <1>6

\* The jobs the constructor enqueues are queued, and each of them comes once.
LEMMA QueuedJobs ==
  ASSUME ServiceTypeOK, CreatedInv, NEW s \in queued_job_ids
  PROVE  /\ s \in Seq(Keys) /\ \A n \in DOMAIN s : Status(s[n]) = "queued"
         /\ \A m, n \in DOMAIN s : s[m] = s[n] => m = n
<1> DEFINE queued == WithStatus("queued")
           Before(k, l) == \E a, b \in DOMAIN created : a < b /\ created[a] = k /\ created[b] = l
<1>1. /\ s \in [1..Cardinality(queued) -> queued]
      /\ \A m, n \in DOMAIN s : m < n => Before(s[m], s[n])
  BY DEF queued_job_ids
<1>2. queued \subseteq Keys /\ \A k \in queued : Status(k) = "queued"
  BY DEF WithStatus
<1>3. Cardinality(queued) \in Nat
  BY <1>2, ServiceAssumption, FS_Subset, FS_CardinalityType
<1> HIDE DEF queued
<1>4. s \in Seq(Keys)
  <2>1. s \in [1..Cardinality(queued) -> Keys]
    BY <1>1, <1>2
  <2>2. QED
    BY <1>3, <2>1
<1>5. ASSUME NEW m \in DOMAIN s, NEW n \in DOMAIN s, m < n PROVE s[m] # s[n]
  <2>1. PICK a, b \in DOMAIN created : a < b /\ created[a] = s[m] /\ created[b] = s[n]
    BY <1>1, <1>5
  <2>2. a \in Int /\ b \in Int
    BY DEF ServiceTypeOK
  <2>3. QED
    BY <2>1, <2>2 DEF CreatedInv
<1>6. \A n \in DOMAIN s : n \in Int
  BY <1>1, <1>3
<1>7. QED
  BY <1>1, <1>2, <1>4, <1>5, <1>6

LEMMA StartWorkerKeeps ==
  ASSUME JobInv, NEW i \in Instances, StartWorker(i)
  PROVE  JobInv'
<1> USE DEF JobInv, StoreInv, StoredInv
<1>1. PICK s \in queued_job_ids : queue' = [queue EXCEPT ![i] = s]
  BY DEF StartWorker
<1>2. /\ s \in Seq(Keys) /\ \A n \in DOMAIN s : Status(s[n]) = "queued"
      /\ \A m, n \in DOMAIN s : s[m] = s[n] => m = n
  BY QueuedJobs
<1>3. /\ inst[i] = "starting" /\ inst' = [inst EXCEPT ![i] = "up"] /\ pc' = [pc EXCEPT ![i] = "get"]
      /\ UNCHANGED <<row, created, file, stopping, pending, cur, acks, overlapped>>
  BY DEF StartWorker, table
<1>4. /\ queue'[i] = s /\ pc'[i] = "get" /\ ~Busy(i)' /\ inst'[i] = "up"
      /\ \A k \in Keys : <<i, k>> \notin pending
      /\ \A j \in Instances : j # i =>
           /\ inst'[j] = inst[j] /\ queue'[j] = queue[j] /\ pc'[j] = pc[j] /\ (Busy(j)' <=> Busy(j))
  BY <1>1, <1>3 DEF ServiceTypeOK, Busy, DownInv
<1>5. ServiceTypeOK'
  <2>1. s \in Seq(Keys \cup {Sentinel})
    BY <1>2
  <2>2. QED
    BY <1>1, <1>3, <2>1 DEF ServiceTypeOK, Places
<1>6. (CreatedInv /\ AcknowledgedIsStored /\ SucceededHasItsArtifact)'
  BY <1>3 DEF CreatedInv, AcknowledgedIsStored, SucceededHasItsArtifact, WithStatus, Status, InTable
<1>7. DOMAIN s = 1..Len(s) /\ \A n \in DOMAIN s : s[n] \in Keys /\ s[n] # Sentinel /\ InTable(s[n])
  BY <1>2, ServiceAssumption DEF Status
<1>8. HeldInv'
  <2>1. ASSUME NEW j \in Instances, NEW n \in DOMAIN queue'[j], queue'[j][n] # Sentinel
        PROVE  InTable(queue[j][n])'
    <3>1. CASE j = i
      BY <1>3, <1>4, <1>7, <3>1 DEF InTable
    <3>2. CASE j # i
      <4>1. InTable(queue[j][n]) /\ queue'[j] = queue[j]
        BY <1>4, <2>1, <3>2 DEF HeldInv
      <4>2. QED
        BY <1>3, <4>1 DEF InTable
    <3>3. QED
      BY <3>1, <3>2
  <2>2. QED
    BY <1>3, <1>4, <2>1 DEF HeldInv, InTable
<1>9. DownInv' /\ WrittenInv'
  BY <1>3, <1>4 DEF DownInv, WrittenInv
<1>10. OwnerInv'
  <2> SUFFICES ASSUME ~overlapped
               PROVE  AloneInv' /\ QueuedInv' /\ PendingInv' /\ HandInv'
    BY <1>3 DEF OwnerInv
  <2>1. AloneInv /\ QueuedInv /\ PendingInv /\ HandInv
    BY DEF OwnerInv
  <2>2. AloneInv' /\ PendingInv'
    BY <1>3, <1>4, <2>1 DEF AloneInv, PendingInv, Status, InTable
  <2>3. HandInv'
    BY <1>3, <1>4, <2>1 DEF HandInv, Status, InTable
  <2>4. QueuedInv'
    <3> SUFFICES ASSUME NEW j \in Instances, NEW n \in DOMAIN queue'[j], queue'[j][n] # Sentinel
                 PROVE  /\ Status(queue[j][n])' = "queued"
                        /\ \A m \in DOMAIN queue'[j] : queue'[j][m] = queue'[j][n] => m = n
                        /\ <<j, queue'[j][n]>> \notin pending
                        /\ Busy(j)' => cur'[j] # queue'[j][n]
      BY <1>3 DEF QueuedInv
    <3>1. CASE j = i
      <4>1. Status(queue[j][n])' = "queued"
        BY <1>2, <1>3, <1>4, <3>1 DEF Status, InTable
      <4>2. QED
        BY <1>2, <1>4, <1>7, <3>1, <4>1
    <3>2. CASE j # i
      <4>1. queue'[j] = queue[j] /\ row' = row
        BY <1>3, <1>4, <3>2
      <4>2. Status(queue[j][n])' = "queued"
        BY <2>1, <4>1 DEF QueuedInv, Status, InTable
      <4>3. /\ \A m \in DOMAIN queue[j] : queue[j][m] = queue[j][n] => m = n
            /\ <<j, queue[j][n]>> \notin pending
            /\ Busy(j) => cur[j] # queue[j][n]
        BY <2>1, <4>1 DEF QueuedInv
      <4>4. QED
        BY <1>3, <1>4, <3>2, <4>1, <4>2, <4>3
    <3>3. QED
      BY <3>1, <3>2
  <2>5. QED
    BY <2>2, <2>3, <2>4
<1>11. QED
  BY <1>5, <1>6, <1>8, <1>9, <1>10

LEMMA RecoverKeeps ==
  ASSUME JobInv, NEW i \in Instances, Recover(i)
  PROVE  JobInv'
<1> USE DEF JobInv, StoreInv, StoredInv
<1>1. /\ inst[i] = "down" /\ inst' = [inst EXCEPT ![i] = "starting"]
      /\ overlapped' = (overlapped \/ \E j \in Instances : inst[j] # "down")
      /\ UNCHANGED <<created, file, stopping, queue, pending, pc, cur, acks>>
  BY DEF Recover, worker
<1>2. \A k \in Keys : \/ row'[k] = row[k]
                      \/ /\ row[k] \in Rows /\ row[k].status = "running"
                         /\ row'[k] = [row[k] EXCEPT !.status = "queued", !.error = "recovered"]
  BY DEF Recover, Recoverable, WithStatus, Status, InTable, ServiceTypeOK
<1>3. \A r \in Rows : LET n == [r EXCEPT !.status = "queued", !.error = "recovered"]
                      IN  n \in Rows /\ n.request = r.request /\ n.status = "queued"
  BY DEF Rows, Statuses, Terminal
\* What the update leaves of a row.
<1>4. \A k \in Keys : \/ row'[k] = row[k]
                      \/ /\ row[k] \in Rows /\ row'[k] \in Rows
                         /\ row'[k].request = row[k].request /\ row'[k].status = "queued"
  <2> SUFFICES ASSUME NEW k \in Keys, row[k] \in Rows,
                      row'[k] = [row[k] EXCEPT !.status = "queued", !.error = "recovered"]
               PROVE  /\ row'[k] \in Rows /\ row'[k].request = row[k].request
                      /\ row'[k].status = "queued"
    BY <1>2
  <2>1. QED
    BY <1>3
<1>5. \A k \in Keys : InTable(k)' <=> InTable(k)
  BY <1>4, ServiceAssumption DEF InTable
<1>6. TableKeeps
  BY <1>4, <1>5 DEF TableKeeps
<1>7. ServiceTypeOK'
  <2>1. row' \in [Keys -> Rows \cup {Null}]
    <3>1. row' = [k \in Keys |-> row'[k]]
      BY DEF Recover
    <3>2. \A k \in Keys : row'[k] \in Rows \cup {Null}
      BY <1>4 DEF ServiceTypeOK
    <3>3. QED
      BY <3>1, <3>2
  <2>2. QED
    BY <1>1, <2>1 DEF ServiceTypeOK
<1>8. \A j \in Instances : Busy(j)' => Busy(j) /\ cur'[j] = cur[j]
  BY <1>1 DEF Busy
<1>9. CreatedInv' /\ HeldInv' /\ AcknowledgedIsStored'
  BY <1>1, <1>6, <1>8, CreatedStays, HeldStays, AcksStay
<1>10. DownInv'
  BY <1>1 DEF DownInv, ServiceTypeOK
<1>11. WrittenInv'
  BY <1>1, <1>6 DEF WrittenInv, HeldInv, Busy, TableKeeps
<1>12. SucceededHasItsArtifact'
  <2>1. \A k \in Keys : Status(k)' = "succeeded" => row'[k] = row[k] /\ Status(k) = "succeeded"
    BY <1>4, <1>5 DEF Status, InTable
  <2>2. QED
    BY <1>1, <2>1 DEF SucceededHasItsArtifact, WithStatus
\* A process that starts alone finds nothing but the table.
<1>13. OwnerInv'
  <2> SUFFICES ASSUME \A j \in Instances : inst[j] = "down"
               PROVE  AloneInv' /\ QueuedInv' /\ PendingInv' /\ HandInv'
    BY <1>1 DEF OwnerInv
  <2>1. \A j \in Instances : /\ pc'[j] = "exited" /\ queue'[j] = <<>>
                             /\ \A k \in Keys : <<j, k>> \notin pending'
    BY <1>1 DEF DownInv
  <2>2. AloneInv'
    BY <1>1 DEF AloneInv, ServiceTypeOK
  <2>3. QED
    BY <2>1, <2>2 DEF QueuedInv, PendingInv, HandInv
<1>14. QED
  BY <1>7, <1>9, <1>10, <1>11, <1>12, <1>13

------------------------------------------------------------------------------

LEMMA InitHolds == Init => JobInv
<1> SUFFICES ASSUME Init PROVE JobInv
  OBVIOUS
<1> USE DEF Init
<1>1. ServiceTypeOK
  BY DEF ServiceTypeOK, Places
<1>2. \A k \in Keys : ~InTable(k) /\ Status(k) = "absent"
  BY DEF InTable, Status
<1>3. CreatedInv /\ HeldInv /\ DownInv /\ WrittenInv
  BY DEF CreatedInv, HeldInv, DownInv, WrittenInv, Busy
<1>4. AcknowledgedIsStored /\ SucceededHasItsArtifact
  BY <1>2 DEF AcknowledgedIsStored, SucceededHasItsArtifact, WithStatus
<1>5. OwnerInv
  BY DEF OwnerInv, AloneInv, QueuedInv, PendingInv, HandInv
<1>6. QED
  BY <1>1, <1>3, <1>4, <1>5 DEF JobInv, StoreInv, StoredInv

LEMMA StutterKeeps ==
  ASSUME JobInv, UNCHANGED vars
  PROVE  JobInv'
<1>1. UNCHANGED <<row, created, file, inst, stopping, queue, pending, pc, cur, acks, overlapped>>
  BY DEF vars, table, worker, history
<1>2. StoreInv'
  BY <1>1 DEF JobInv, StoreInv, ServiceTypeOK, StoredInv, CreatedInv, HeldInv, DownInv, WrittenInv,
              AcknowledgedIsStored, SucceededHasItsArtifact, WithStatus, Status, InTable, Busy
<1>3. OwnerInv'
  BY <1>1 DEF JobInv, OwnerInv, AloneInv, QueuedInv, PendingInv, HandInv, Status, InTable, Busy
<1>4. QED
  BY <1>2, <1>3 DEF JobInv

LEMMA NextKeeps ==
  ASSUME JobInv, Next
  PROVE  JobInv'
<1> PICK i \in Instances :
      \/ Recover(i) \/ StartWorker(i) \/ Crash(i) \/ Retire(i) \/ Stop(i)
      \/ \E k \in Keys, q \in Requests : Create(i, k, q) \/ Replay(i, k, q)
      \/ \E k \in Keys : Enqueue(i, k) \/ SubmitFails(i, k)
      \/ Work(i) \/ Fault(i) \/ WorkerDies(i)
  BY DEF Next
<1>1. CASE Recover(i) \/ StartWorker(i) \/ Stop(i)
  BY <1>1, RecoverKeeps, StartWorkerKeeps, StopKeeps
<1>2. CASE Crash(i) \/ Retire(i)
  BY <1>2, VanishKeeps DEF Crash, Retire
<1>3. CASE \E k \in Keys, q \in Requests : Create(i, k, q) \/ Replay(i, k, q)
  BY <1>3, CreateKeeps, ReplayKeeps
<1>4. CASE \E k \in Keys : Enqueue(i, k) \/ SubmitFails(i, k)
  BY <1>4, EnqueueKeeps, SubmitFailsKeeps
<1>5. CASE Work(i)
  BY <1>5, GetKeeps, MarkRunningKeeps, WorkerKeeps, WriteArtifactKeeps, MarkSucceededKeeps,
     MarkFailedKeeps DEF Work
<1>6. CASE Fault(i) \/ WorkerDies(i)
  BY <1>6, WorkerKeeps
<1>7. QED
  BY <1>1, <1>2, <1>3, <1>4, <1>5, <1>6

(***************************************************************************)
(* The inductive invariant of the service holds whatever crashes, faults   *)
(* and overlapping instances there are.                                    *)
(***************************************************************************)
THEOREM JobInvariant == Spec => []JobInv
<1>1. JobInv /\ [Next]_vars => JobInv'
  BY NextKeeps, StutterKeeps
<1>2. QED
  BY InitHolds, <1>1, PTL DEF Spec

(***************************************************************************)
(* A submission that was answered is in the table with its request, for    *)
(* every number of keys, instances, crashes and faults.                    *)
(***************************************************************************)
THEOREM AcknowledgedIsStoredHolds == Spec => []AcknowledgedIsStored
<1>1. JobInv => AcknowledgedIsStored
  BY DEF JobInv, StoreInv
<1>2. QED
  BY JobInvariant, <1>1, PTL

(***************************************************************************)
(* A job that is shown as succeeded has the artifact of its own request on *)
(* disk, also when instances overlap.                                      *)
(***************************************************************************)
THEOREM SucceededHasItsArtifactHolds == Spec => []SucceededHasItsArtifact
<1>1. JobInv => SucceededHasItsArtifact
  BY DEF JobInv, StoreInv
<1>2. QED
  BY JobInvariant, <1>1, PTL

\* Only a job that is not terminal is ever marked.
LEMMA TerminalStays ==
  ASSUME JobInv, [Next]_vars, ~overlapped, NEW k \in Keys, Status(k) \in Terminal
  PROVE  row'[k] = row[k]
<1>1. HandInv /\ ServiceTypeOK /\ HeldInv /\ InTable(k)
  BY DEF JobInv, StoreInv, StoredInv, OwnerInv, Status, Terminal
<1>2. \A i \in Instances : Busy(i) => cur[i] # k
  BY <1>1 DEF HandInv, Busy, Terminal
<1>3. CASE row' = row
  BY <1>3
<1>4. ASSUME NEW i \in Instances, MarkRunning(i) \/ MarkSucceeded(i) \/ MarkFailed(i)
      PROVE  row'[k] = row[k]
  BY <1>1, <1>2, <1>4 DEF MarkRunning, MarkSucceeded, MarkFailed, At, Busy, ServiceTypeOK
<1>5. ASSUME NEW i \in Instances, Recover(i) PROVE row'[k] = row[k]
  BY <1>5 DEF Recover, Recoverable, WithStatus, Terminal
<1>6. ASSUME NEW i \in Instances, NEW x \in Keys, NEW q \in Requests, Create(i, x, q)
      PROVE  row'[k] = row[k]
  BY <1>1, <1>6 DEF Create, ServiceTypeOK
<1>7. QED
  BY <1>3, <1>4, <1>5, <1>6
     DEF Next, vars, table, Work, StartWorker, Crash, Retire, Vanish, Stop, Replay, Enqueue, SubmitFails,
         Get, SkipJob, Optimize, WriteArtifact, Fault, WorkerDies

\* Once instances have overlapped the history says so for good.
LEMMA OverlapStays ==
  ASSUME [Next]_vars, ~overlapped'
  PROVE  ~overlapped
<1>1. CASE UNCHANGED vars
  BY <1>1 DEF vars, history
<1>2. ASSUME NEW i \in Instances, Recover(i) \/ StartWorker(i) \/ Crash(i) \/ Retire(i) \/ Stop(i)
      PROVE  ~overlapped
  BY <1>2 DEF history, Recover, StartWorker, Crash, Retire, Vanish, Stop
<1>3. ASSUME NEW i \in Instances, NEW x \in Keys,
             \/ \E q \in Requests : Create(i, x, q) \/ Replay(i, x, q)
             \/ Enqueue(i, x) \/ SubmitFails(i, x)
      PROVE  ~overlapped
  BY <1>3 DEF Create, Replay, Enqueue, SubmitFails, history
<1>4. ASSUME NEW i \in Instances, Work(i)
      PROVE  ~overlapped
  BY <1>4 DEF history, Work, Get, MarkRunning, SkipJob, Optimize, WriteArtifact, MarkSucceeded, MarkFailed
<1>5. ASSUME NEW i \in Instances, Fault(i) \/ WorkerDies(i)
      PROVE  ~overlapped
  BY <1>5 DEF history, Fault, WorkerDies
<1>6. QED
  BY <1>1, <1>2, <1>3, <1>4, <1>5 DEF Next

(***************************************************************************)
(* While instances do not overlap no restart, late worker or late failure  *)
(* re-opens a finished job: whatever a worker holds is not finished.       *)
(***************************************************************************)
THEOREM TerminalIsFinalHolds == Spec => TerminalIsFinal
<1>1. JobInv /\ [Next]_vars =>
        [~overlapped' => \A k \in Keys : Status(k) \in Terminal => row'[k] = row[k]]_vars
  <2> SUFFICES ASSUME JobInv, [Next]_vars, ~overlapped', NEW k \in Keys, Status(k) \in Terminal
               PROVE  row'[k] = row[k]
    OBVIOUS
  <2>1. ~overlapped
    BY OverlapStays
  <2>2. QED
    BY <2>1, TerminalStays
<1>2. QED
  BY JobInvariant, <1>1, PTL DEF Spec, TerminalIsFinal

------------------------------------------------------------------------------
(* The service keeps what JobTable promises.                               *)

\* An artifact file belongs to a job of the table and holds its request.
FilesInv == \A k \in Keys : file[k] # Null => InTable(k) /\ file[k] = row[k].request

\* The steps that touch what a client can see.
Marks(i) == MarkRunning(i) \/ MarkSucceeded(i) \/ MarkFailed(i)
Answers(i) == \E k \in Keys : Enqueue(i, k) \/ \E q \in Requests : Replay(i, k, q)
Quiet == UNCHANGED <<row, file, acks>>

LEMMA StepKinds ==
  ASSUME [Next]_vars
  PROVE  \/ Quiet
         \/ \E i \in Instances : \/ Recover(i) \/ Marks(i) \/ WriteArtifact(i) \/ Answers(i)
                                 \/ \E k \in Keys, q \in Requests : Create(i, k, q)
<1>1. CASE UNCHANGED vars
  BY <1>1 DEF vars, table, history, Quiet
<1>2. ASSUME NEW i \in Instances, StartWorker(i) \/ Crash(i) \/ Retire(i) \/ Stop(i)
      PROVE  Quiet
  BY <1>2 DEF Quiet, StartWorker, Crash, Retire, Vanish, Stop, table, history
<1>3. ASSUME NEW i \in Instances, NEW k \in Keys, SubmitFails(i, k) PROVE Quiet
  BY <1>3 DEF Quiet, SubmitFails, table
<1>4. ASSUME NEW i \in Instances, Get(i) \/ SkipJob(i) \/ Optimize(i) \/ Fault(i) \/ WorkerDies(i)
      PROVE  Quiet
  BY <1>4 DEF Quiet, Get, SkipJob, Optimize, Fault, WorkerDies, table, history
<1>5. QED
  BY <1>1, <1>2, <1>3, <1>4 DEF Next, Work, Marks, Answers

\* What is marked, and from which status while services do not overlap.
LEMMA MarkIs ==
  ASSUME JobInv, NEW i \in Instances, Marks(i)
  PROVE  \E k \in Keys, r \in Rows :
           /\ InTable(k) /\ r.request = row[k].request
           /\ row' = [row EXCEPT ![k] = r] /\ UNCHANGED <<file, acks>>
           /\ \/ r.status = "running" /\ Status(k) = "queued"
              \/ /\ r.status = "succeeded" /\ file[k] = row[k].request
                 /\ ~overlapped => Status(k) = "running"
              \/ r.status = "failed" /\ (~overlapped => Status(k) \in {"queued", "running"})
<1> SUFFICES ASSUME NEW k, k = cur[i]
             PROVE  \E r \in Rows :
                      /\ k \in Keys /\ InTable(k) /\ r.request = row[k].request
                      /\ row' = [row EXCEPT ![k] = r] /\ UNCHANGED <<file, acks>>
                      /\ \/ r.status = "running" /\ Status(k) = "queued"
                         \/ /\ r.status = "succeeded" /\ file[k] = row[k].request
                            /\ ~overlapped => Status(k) = "running"
                         \/ r.status = "failed" /\ (~overlapped => Status(k) \in {"queued", "running"})
  OBVIOUS
<1>1. Busy(i)
  BY DEF Marks, MarkRunning, MarkSucceeded, MarkFailed, At, Busy
<1>2. k \in Keys /\ InTable(k)
  BY <1>1 DEF JobInv, StoreInv, StoredInv, HeldInv
<1>3. row[k] \in Rows
  BY <1>2 DEF JobInv, StoreInv, ServiceTypeOK, InTable
<1>4. UNCHANGED <<file, acks>>
  BY DEF Marks, MarkRunning, MarkSucceeded, MarkFailed, history
<1>5. CASE MarkRunning(i)
  <2> DEFINE r == [row[k] EXCEPT !.status = "running", !.error = "none"]
  <2>1. row' = [row EXCEPT ![k] = r] /\ Status(k) = "queued"
    BY <1>5 DEF MarkRunning, Runnable
  <2>2. r \in Rows /\ r.request = row[k].request /\ r.status = "running"
    BY <1>3 DEF Rows, Statuses
  <2> HIDE DEF r
  <2>3. QED
    BY <1>2, <1>4, <2>1, <2>2
<1>6. CASE MarkSucceeded(i)
  <2> DEFINE r == [row[k] EXCEPT !.status = "succeeded", !.artifact = TRUE, !.error = "none"]
  <2>1. row' = [row EXCEPT ![k] = r] /\ pc[i] = "finishing"
    BY <1>6 DEF MarkSucceeded, At
  <2>2. r \in Rows /\ r.request = row[k].request /\ r.status = "succeeded"
    BY <1>3 DEF Rows, Statuses, Terminal
  <2>3. file[k] = row[k].request
    BY <2>1 DEF JobInv, StoreInv, StoredInv, WrittenInv
  <2>4. ~overlapped => Status(k) = "running"
    BY <2>1 DEF JobInv, OwnerInv, HandInv
  <2> HIDE DEF r
  <2>5. QED
    BY <1>2, <1>4, <2>1, <2>2, <2>3, <2>4
<1>7. CASE MarkFailed(i)
  <2> DEFINE r == [row[k] EXCEPT !.status = "failed", !.error = "failure"]
  <2>1. row' = [row EXCEPT ![k] = r] /\ pc[i] = "failing"
    BY <1>7 DEF MarkFailed, At
  <2>2. r \in Rows /\ r.request = row[k].request /\ r.status = "failed"
    BY <1>3 DEF Rows, Statuses, Terminal
  <2>3. ~overlapped => Status(k) \in {"queued", "running"}
    BY <2>1 DEF JobInv, OwnerInv, HandInv
  <2> HIDE DEF r
  <2>4. QED
    BY <1>2, <1>4, <2>1, <2>2, <2>3
<1>8. QED
  BY <1>5, <1>6, <1>7 DEF Marks

\* What a start leaves of a row.
LEMMA RecoverIs ==
  ASSUME ServiceTypeOK, NEW i \in Instances, Recover(i), NEW k \in Keys
  PROVE  IF Status(k) = "running"
           THEN /\ InTable(k) /\ row[k] \in Rows /\ row'[k] \in Rows
                /\ row'[k].request = row[k].request /\ row'[k].status = "queued"
           ELSE row'[k] = row[k]
<1>1. CASE Status(k) = "running"
  <2>1. InTable(k) /\ row[k] \in Rows
    BY <1>1 DEF Status, InTable, ServiceTypeOK
  <2>2. row'[k] = [row[k] EXCEPT !.status = "queued", !.error = "recovered"]
    BY <1>1 DEF Recover, Recoverable, WithStatus
  <2>3. [row[k] EXCEPT !.status = "queued", !.error = "recovered"] \in Rows
    BY <2>1 DEF Rows, Statuses
  <2>4. row'[k].request = row[k].request /\ row'[k].status = "queued"
    BY <2>1, <2>2 DEF Rows
  <2>5. QED
    BY <1>1, <2>1, <2>2, <2>3, <2>4
<1>2. CASE Status(k) # "running"
  <2>1. row'[k] = row[k]
    BY <1>2 DEF Recover, Recoverable, WithStatus
  <2>2. QED
    BY <1>2, <2>1
<1>3. QED
  BY <1>1, <1>2

\* What a submission adds, and what an answer and an artifact are.
LEMMA AnswerIs ==
  ASSUME JobInv, NEW i \in Instances, Answers(i)
  PROVE  /\ UNCHANGED <<row, file>>
         /\ \E k \in Keys : InTable(k) /\ acks' = acks \cup {<<k, row[k].request>>}
<1>1. ASSUME NEW k \in Keys, Enqueue(i, k)
      PROVE  /\ UNCHANGED <<row, file>> /\ InTable(k)
             /\ acks' = acks \cup {<<k, row[k].request>>}
  BY <1>1 DEF Enqueue, table, JobInv, StoreInv, StoredInv, HeldInv
<1>2. ASSUME NEW k \in Keys, NEW q \in Requests, Replay(i, k, q)
      PROVE  /\ UNCHANGED <<row, file>> /\ InTable(k)
             /\ acks' = acks \cup {<<k, row[k].request>>}
  BY <1>2 DEF Replay, Replayable, table
<1>3. QED
  BY <1>1, <1>2 DEF Answers

LEMMA ArtifactIs ==
  ASSUME JobInv, NEW i \in Instances, WriteArtifact(i)
  PROVE  /\ UNCHANGED <<row, acks>>
         /\ \E k \in Keys : /\ InTable(k) /\ file' = [file EXCEPT ![k] = row[k].request]
                            /\ ~overlapped => Status(k) = "running"
<1>1. pc[i] = "writing" /\ Busy(i) /\ UNCHANGED <<row, acks>>
  BY DEF WriteArtifact, At, Busy, history
<1>2. cur[i] \in Keys /\ InTable(cur[i])
  BY <1>1 DEF JobInv, StoreInv, StoredInv, HeldInv
<1>3. ~overlapped => Status(cur[i]) = "running"
  BY <1>1 DEF JobInv, OwnerInv, HandInv
<1>4. file' = [file EXCEPT ![cur[i]] = row[cur[i]].request]
  BY DEF WriteArtifact
<1>5. QED
  BY <1>1, <1>2, <1>3, <1>4

LEMMA CreateIs ==
  ASSUME NEW i \in Instances, NEW k \in Keys, NEW q \in Requests, Create(i, k, q)
  PROVE  /\ ~InTable(k) /\ UNCHANGED <<file, acks>>
         /\ \E r \in Rows : r.request = q /\ r.status = "queued" /\ row' = [row EXCEPT ![k] = r]
<1> DEFINE r == [request |-> q, status |-> "queued", artifact |-> FALSE, error |-> "none"]
<1>1. r \in Rows /\ r.request = q /\ r.status = "queued"
  BY DEF Rows, Statuses
<1>2. ~InTable(k) /\ UNCHANGED <<file, acks>> /\ row' = [row EXCEPT ![k] = r]
  BY DEF Create, history
<1> HIDE DEF r
<1>3. QED
  BY <1>1, <1>2

\* However services overlap, a step keeps the table, the files and the answers.
StepKeeps == /\ TableKeeps /\ acks \subseteq acks'
             /\ \A k \in Keys : file'[k] = file[k] \/ (InTable(k) /\ file'[k] = row[k].request)

LEMMA EveryStepKeeps ==
  ASSUME JobInv, [Next]_vars
  PROVE  StepKeeps
<1>1. ServiceTypeOK
  BY DEF JobInv, StoreInv
<1>2. CASE Quiet
  BY <1>2 DEF Quiet, StepKeeps, TableKeeps, InTable
<1>3. ASSUME NEW i \in Instances, Recover(i) PROVE StepKeeps
  <2>1. UNCHANGED <<file, acks>>
    BY <1>3 DEF Recover
  <2>2. TableKeeps
    <3> SUFFICES ASSUME NEW k \in Keys, InTable(k)
                 PROVE  InTable(k)' /\ row'[k].request = row[k].request
      BY DEF TableKeeps
    <3>1. row'[k] = row[k] \/ (row'[k] \in Rows /\ row'[k].request = row[k].request)
      BY <1>1, <1>3, RecoverIs
    <3>2. QED
      BY <3>1, ServiceAssumption DEF InTable
  <2>3. QED
    BY <2>1, <2>2 DEF StepKeeps
<1>4. ASSUME NEW i \in Instances, Marks(i) PROVE StepKeeps
  <2>1. PICK k \in Keys, r \in Rows : /\ InTable(k) /\ r.request = row[k].request
                                      /\ row' = [row EXCEPT ![k] = r] /\ UNCHANGED <<file, acks>>
    BY <1>4, MarkIs
  <2>2. \A j \in Keys : (InTable(j)' <=> InTable(j)) /\ row'[j].request = row[j].request
    BY <1>1, <2>1, RowMarked
  <2>3. QED
    BY <2>1, <2>2 DEF StepKeeps, TableKeeps
<1>5. ASSUME NEW i \in Instances, WriteArtifact(i) PROVE StepKeeps
  <2>1. PICK k \in Keys : InTable(k) /\ file' = [file EXCEPT ![k] = row[k].request]
    BY <1>5, ArtifactIs
  <2>2. UNCHANGED <<row, acks>>
    BY <1>5, ArtifactIs
  <2>3. \A j \in Keys : file'[j] = file[j] \/ (InTable(j) /\ file'[j] = row[j].request)
    BY <1>1, <2>1 DEF ServiceTypeOK
  <2>4. TableKeeps
    BY <2>2 DEF TableKeeps, InTable
  <2>5. QED
    BY <2>2, <2>3, <2>4 DEF StepKeeps
<1>6. ASSUME NEW i \in Instances, Answers(i) PROVE StepKeeps
  <2>1. UNCHANGED <<row, file>> /\ acks \subseteq acks'
    BY <1>6, AnswerIs
  <2>2. QED
    BY <2>1 DEF StepKeeps, TableKeeps, InTable
<1>7. ASSUME NEW i \in Instances, NEW k \in Keys, NEW q \in Requests, Create(i, k, q)
      PROVE  StepKeeps
  <2>1. ~InTable(k) /\ UNCHANGED <<file, acks>>
    BY <1>7, CreateIs
  <2>2. PICK r \in Rows : row' = [row EXCEPT ![k] = r]
    BY <1>7, CreateIs
  <2>3. \A j \in Keys : j # k => row'[j] = row[j]
    BY <1>1, <2>2 DEF ServiceTypeOK
  <2>4. TableKeeps
    BY <2>1, <2>3 DEF TableKeeps, InTable
  <2>5. QED
    BY <2>1, <2>4 DEF StepKeeps
<1>8. QED
  BY <1>2, <1>3, <1>4, <1>5, <1>6, <1>7, StepKinds

LEMMA FilesKeep ==
  ASSUME FilesInv, StepKeeps
  PROVE  FilesInv'
<1> SUFFICES ASSUME NEW k \in Keys, file'[k] # Null
             PROVE  InTable(k)' /\ file'[k] = row'[k].request
  BY DEF FilesInv
<1>1. InTable(k) /\ file'[k] = row[k].request
  BY DEF FilesInv, StepKeeps
<1>2. QED
  BY <1>1 DEF StepKeeps, TableKeeps

------------------------------------------------------------------------------
(* The steps as JobTable sees them.                                        *)

\* What a row shows, and what its mark changes of it.
LEMMA ShownIs ==
  ASSUME NEW r \in Rows
  PROVE  /\ Shown(r) # Null /\ Shown(r).request = r.request /\ Shown(r).status = r.status
         /\ \A s \in Rows : s.request = r.request => Shown(s) = [Shown(r) EXCEPT !.status = s.status]
<1>1. r # Null /\ r.request \in Requests /\ r.status \in Statuses
  BY ServiceAssumption DEF Rows
<1>2. Shown(r) = [request |-> r.request, status |-> r.status]
  BY <1>1 DEF Shown
<1>3. Shown(r) # Null
  <2>1. [request |-> r.request, status |-> r.status] \in [request : Requests, status : Statuses]
    BY <1>1
  <2>2. QED
    BY <1>2, <2>1, ServiceAssumption
<1>4. ASSUME NEW s \in Rows, s.request = r.request
      PROVE  Shown(s) = [Shown(r) EXCEPT !.status = s.status]
  <2>1. Shown(s) = [request |-> s.request, status |-> s.status]
    BY ServiceAssumption DEF Shown
  <2>2. QED
    BY <1>2, <1>4, <2>1
<1>5. QED
  BY <1>2, <1>3, <1>4

\* The view of a table.
LEMMA ViewIs ==
  ASSUME NEW t \in [Keys -> Rows \cup {Null}], NEW k \in Keys
  PROVE  /\ Shown(t[k]) # Null <=> t[k] # Null
         /\ t[k] # Null => Shown(t[k]).request = t[k].request /\ Shown(t[k]).status = t[k].status
<1>1. CASE t[k] = Null
  BY <1>1 DEF Shown
<1>2. CASE t[k] \in Rows
  BY <1>2, ShownIs, ServiceAssumption
<1>3. QED
  BY <1>1, <1>2

LEMMA JobIs ==
  ASSUME ServiceTypeOK, NEW k \in Keys
  PROVE  /\ Jobs!Known(k) <=> InTable(k)
         /\ InTable(k) => View[k].request = row[k].request /\ View[k].status = Status(k)
         /\ \A S : "absent" \notin S => (Jobs!Is(k, S) <=> Status(k) \in S)
<1>1. View[k] = Shown(row[k])
  BY DEF View
<1>2. /\ View[k] # Null <=> InTable(k)
      /\ InTable(k) => View[k].request = row[k].request /\ View[k].status = row[k].status
  BY <1>1, ViewIs DEF ServiceTypeOK, InTable
<1>3. Jobs!Known(k) <=> InTable(k)
  BY <1>2 DEF Jobs!Known
<1>4. \A S : "absent" \notin S => (Jobs!Is(k, S) <=> Status(k) \in S)
  BY <1>2, <1>3 DEF Jobs!Is, Status
<1>5. QED
  BY <1>2, <1>3, <1>4 DEF Status

LEMMA JobIsThen ==
  ASSUME ServiceTypeOK', NEW k \in Keys
  PROVE  /\ Jobs!Known(k)' <=> InTable(k)'
         /\ InTable(k)' => View'[k].request = row'[k].request /\ View'[k].status = Status(k)'
         /\ \A S : "absent" \notin S => (Jobs!Is(k, S)' <=> Status(k)' \in S)
<1>1. View'[k] = Shown(row'[k])
  BY DEF View, Shown
<1>2. /\ View'[k] # Null <=> InTable(k)'
      /\ InTable(k)' => View'[k].request = row'[k].request /\ View'[k].status = row'[k].status
  BY <1>1, ViewIs DEF ServiceTypeOK, InTable
<1>3. Jobs!Known(k)' <=> InTable(k)'
  BY <1>2 DEF Jobs!Known
<1>4. \A S : "absent" \notin S => (Jobs!Is(k, S)' <=> Status(k)' \in S)
  BY <1>2, <1>3 DEF Jobs!Is, Status
<1>5. QED
  BY <1>2, <1>3, <1>4 DEF Status

\* Once services have overlapped, what every step keeps is what is promised.
LEMMA OverlappingStep ==
  ASSUME JobInv, JobInv', FilesInv, StepKeeps, overlapped'
  PROVE  Jobs!Overlapping
<1> USE DEF JobInv, StoreInv
<1>1. ASSUME NEW k \in Keys, Jobs!Known(k)
      PROVE  Jobs!Known(k)' /\ View'[k].request = View[k].request
  <2>1. InTable(k) /\ View[k].request = row[k].request
    BY <1>1, JobIs
  <2>2. InTable(k)' /\ row'[k].request = row[k].request
    BY <2>1 DEF StepKeeps, TableKeeps
  <2>3. QED
    BY <2>1, <2>2, JobIsThen
<1>2. ASSUME NEW k \in Keys, file[k] # Null PROVE file'[k] = file[k]
  BY <1>2 DEF FilesInv, StepKeeps
<1>3. ASSUME NEW k \in Keys, Jobs!Is(k, {"succeeded"})' PROVE file'[k] = View'[k].request
  <2>1. Status(k)' = "succeeded"
    BY <1>3, JobIsThen
  <2>2. InTable(k)' /\ file'[k] = row'[k].request
    BY <2>1 DEF SucceededHasItsArtifact, WithStatus, Status
  <2>3. QED
    BY <2>2, JobIsThen
<1>4. ASSUME NEW a \in acks' PROVE Jobs!Known(a[1])' /\ View'[a[1]].request = a[2]
  <2>1. a[1] \in Keys
    BY DEF ServiceTypeOK
  <2>2. InTable(a[1])' /\ row'[a[1]].request = a[2]
    BY DEF AcknowledgedIsStored
  <2>3. QED
    BY <2>1, <2>2, JobIsThen
<1>5. acks \subseteq acks'
  BY DEF StepKeeps
<1>6. QED
  BY <1>1, <1>2, <1>3, <1>4, <1>5 DEF Jobs!Overlapping

\* A mark is a change of one status.
LEMMA MarkBecomes ==
  ASSUME ServiceTypeOK, NEW k \in Keys, InTable(k), NEW r \in Rows, r.request = row[k].request,
         row' = [row EXCEPT ![k] = r], UNCHANGED <<file, acks>>
  PROVE  Jobs!Becomes(k, r.status)
<1>1. /\ row' \in [Keys -> Rows \cup {Null}] /\ row'[k] = r
      /\ \A j \in Keys : j # k => row'[j] = row[j]
  BY RowMarked
<1>2. row[k] \in Rows
  BY DEF ServiceTypeOK, InTable
<1>3. Shown(r) = [Shown(row[k]) EXCEPT !.status = r.status]
  BY <1>2, ShownIs
<1>4. \A j \in Keys : View[j] = Shown(row[j]) /\ View'[j] = Shown(row'[j])
  BY DEF View, Shown
<1>5. View = [j \in Keys |-> View[j]] /\ View' = [j \in Keys |-> View'[j]]
  BY DEF View
<1>6. \A j \in Keys : View'[j] = [View EXCEPT ![k].status = r.status][j]
  BY <1>1, <1>3, <1>4, <1>5
<1>7. View' = [View EXCEPT ![k].status = r.status]
  BY <1>5, <1>6
<1>8. QED
  BY <1>7 DEF Jobs!Becomes

LEMMA MarkStep ==
  ASSUME JobInv, ~overlapped, NEW i \in Instances, Marks(i)
  PROVE  \E k \in Keys : Jobs!Begin(k) \/ Jobs!Succeed(k) \/ Jobs!Fail(k)
<1>1. ServiceTypeOK
  BY DEF JobInv, StoreInv
<1>2. PICK k \in Keys, r \in Rows :
        /\ InTable(k) /\ r.request = row[k].request
        /\ row' = [row EXCEPT ![k] = r] /\ UNCHANGED <<file, acks>>
        /\ \/ r.status = "running" /\ Status(k) = "queued"
           \/ r.status = "succeeded" /\ file[k] = row[k].request /\ Status(k) = "running"
           \/ r.status = "failed" /\ Status(k) \in {"queued", "running"}
  BY MarkIs
<1>3. Jobs!Becomes(k, r.status)
  BY <1>1, <1>2, MarkBecomes
<1>4. /\ View[k].request = row[k].request
      /\ \A S : "absent" \notin S => (Jobs!Is(k, S) <=> Status(k) \in S)
  BY <1>1, <1>2, JobIs
<1>5. CASE r.status = "running" /\ Status(k) = "queued"
  <2>1. Jobs!Is(k, {"queued"})
    BY <1>4, <1>5
  <2>2. QED
    BY <1>3, <1>5, <2>1 DEF Jobs!Begin
<1>6. CASE r.status = "succeeded" /\ file[k] = row[k].request /\ Status(k) = "running"
  <2>1. Jobs!Is(k, {"running"})
    BY <1>4, <1>6
  <2>2. QED
    BY <1>3, <1>4, <1>6, <2>1 DEF Jobs!Succeed
<1>7. CASE r.status = "failed" /\ Status(k) \in {"queued", "running"}
  <2>1. Jobs!Is(k, {"queued", "running"})
    BY <1>4, <1>7
  <2>2. QED
    BY <1>3, <1>7, <2>1 DEF Jobs!Fail
<1>8. QED
  BY <1>2, <1>5, <1>6, <1>7

LEMMA RecoverStep ==
  ASSUME ServiceTypeOK, NEW i \in Instances, Recover(i)
  PROVE  Jobs!PutBack
<1>1. UNCHANGED <<file, acks>>
  BY DEF Recover
<1>2. ASSUME NEW k \in Keys
      PROVE  View'[k] = IF Jobs!Is(k, {"running"}) THEN [View[k] EXCEPT !.status = "queued"]
                                                   ELSE View[k]
  <2>1. View[k] = Shown(row[k]) /\ View'[k] = Shown(row'[k])
    BY DEF View, Shown
  <2>2. Jobs!Is(k, {"running"}) <=> Status(k) = "running"
    BY JobIs
  <2>3. CASE Status(k) = "running"
    <3>1. /\ row[k] \in Rows /\ row'[k] \in Rows
          /\ row'[k].request = row[k].request /\ row'[k].status = "queued"
      BY <2>3, RecoverIs
    <3>2. Shown(row'[k]) = [Shown(row[k]) EXCEPT !.status = "queued"]
      BY <3>1, ShownIs
    <3>3. QED
      BY <2>1, <2>2, <2>3, <3>2
  <2>4. CASE Status(k) # "running"
    <3>1. row'[k] = row[k]
      BY <2>4, RecoverIs
    <3>2. QED
      BY <2>1, <2>2, <2>4, <3>1
  <2>5. QED
    BY <2>3, <2>4
<1>3. View' = [k \in Keys |-> View'[k]]
  BY DEF View
<1>4. View' = [k \in Keys |-> IF Jobs!Is(k, {"running"}) THEN [View[k] EXCEPT !.status = "queued"]
                              ELSE View[k]]
  BY <1>2, <1>3
<1>5. QED
  BY <1>1, <1>4 DEF Jobs!PutBack

LEMMA AnswerStep ==
  ASSUME JobInv, NEW i \in Instances, Answers(i)
  PROVE  \E k \in Keys : Jobs!Answer(k)
<1>1. ServiceTypeOK
  BY DEF JobInv, StoreInv
<1>2. PICK k \in Keys : InTable(k) /\ acks' = acks \cup {<<k, row[k].request>>}
  BY AnswerIs
<1>3. UNCHANGED <<row, file>>
  BY AnswerIs
<1>4. Jobs!Known(k) /\ View[k].request = row[k].request
  BY <1>1, <1>2, JobIs
<1>5. View' = View
  BY <1>3 DEF View, Shown
<1>6. QED
  BY <1>2, <1>3, <1>4, <1>5 DEF Jobs!Answer

LEMMA ArtifactStep ==
  ASSUME JobInv, ~overlapped, NEW i \in Instances, WriteArtifact(i)
  PROVE  \E k \in Keys : Jobs!Store(k)
<1>1. ServiceTypeOK
  BY DEF JobInv, StoreInv
<1>2. PICK k \in Keys : /\ InTable(k) /\ file' = [file EXCEPT ![k] = row[k].request]
                        /\ Status(k) = "running"
  BY ArtifactIs
<1>3. UNCHANGED <<row, acks>>
  BY ArtifactIs
<1>4. Jobs!Is(k, {"running"}) /\ View[k].request = row[k].request
  BY <1>1, <1>2, JobIs
<1>5. View' = View
  BY <1>3 DEF View, Shown
<1>6. QED
  BY <1>2, <1>3, <1>4, <1>5 DEF Jobs!Store

LEMMA CreateStep ==
  ASSUME ServiceTypeOK, NEW i \in Instances, NEW k \in Keys, NEW q \in Requests, Create(i, k, q)
  PROVE  Jobs!Ask(k, q)
<1>1. ~InTable(k) /\ UNCHANGED <<file, acks>>
  BY CreateIs
<1>2. PICK r \in Rows : r.request = q /\ r.status = "queued" /\ row' = [row EXCEPT ![k] = r]
  BY CreateIs
<1>3. ~Jobs!Known(k)
  BY <1>1, JobIs
<1>4. row'[k] = r /\ \A j \in Keys : j # k => row'[j] = row[j]
  BY <1>2 DEF ServiceTypeOK
<1>5. \A j \in Keys : View[j] = Shown(row[j]) /\ View'[j] = Shown(row'[j])
  BY DEF View, Shown
<1>6. Shown(r) = [request |-> q, status |-> "queued"]
  BY <1>2, ServiceAssumption DEF Shown
<1>7. View = [j \in Keys |-> View[j]] /\ View' = [j \in Keys |-> View'[j]]
  BY DEF View
<1>8. View' = [View EXCEPT ![k] = [request |-> q, status |-> "queued"]]
  BY <1>4, <1>5, <1>6, <1>7
<1>9. QED
  BY <1>1, <1>3, <1>8 DEF Jobs!Ask

LEMMA OrderlyStep ==
  ASSUME JobInv, [Next]_vars, ~overlapped'
  PROVE  Jobs!Orderly \/ UNCHANGED Jobs!jvars
<1>1. ~overlapped /\ ServiceTypeOK
  BY OverlapStays DEF JobInv, StoreInv
<1>2. CASE Quiet
  <2>1. View' = View
    BY <1>2 DEF Quiet, View, Shown
  <2>2. (~overlapped)' = ~overlapped
    BY <1>1
  <2>3. QED
    BY <1>2, <2>1, <2>2 DEF Quiet, Jobs!jvars
<1>3. ASSUME NEW i \in Instances, Recover(i) PROVE Jobs!Orderly
  BY <1>1, <1>3, RecoverStep DEF Jobs!Orderly
<1>4. ASSUME NEW i \in Instances, Marks(i) PROVE Jobs!Orderly
  BY <1>1, <1>4, MarkStep DEF Jobs!Orderly
<1>5. ASSUME NEW i \in Instances, WriteArtifact(i) PROVE Jobs!Orderly
  BY <1>1, <1>5, ArtifactStep DEF Jobs!Orderly
<1>6. ASSUME NEW i \in Instances, Answers(i) PROVE Jobs!Orderly
  BY <1>1, <1>6, AnswerStep DEF Jobs!Orderly
<1>7. ASSUME NEW i \in Instances, NEW k \in Keys, NEW q \in Requests, Create(i, k, q)
      PROVE  Jobs!Orderly
  BY <1>1, <1>7, CreateStep DEF Jobs!Orderly
<1>8. QED
  BY <1>2, <1>3, <1>4, <1>5, <1>6, <1>7, StepKinds

(***************************************************************************)
(* The service implements the abstract job table: every step of it is a    *)
(* step of JobTable or a stutter, for every number of instances and with   *)
(* every crash, also when instances overlap.                               *)
(***************************************************************************)
THEOREM ServiceImplementsJobTable == Spec => ImplementsJobTable
<1>1. Init => Jobs!Init /\ FilesInv
  <2> SUFFICES ASSUME Init PROVE Jobs!Init /\ FilesInv
    OBVIOUS
  <2>1. View = [k \in Keys |-> Null]
    BY DEF Init, View, Shown
  <2>2. QED
    BY <2>1 DEF Init, Jobs!Init, FilesInv
<1>2. JobInv /\ JobInv' /\ FilesInv /\ [Next]_vars => FilesInv' /\ [Jobs!Next]_(Jobs!jvars)
  <2> SUFFICES ASSUME JobInv, JobInv', FilesInv, [Next]_vars
               PROVE  FilesInv' /\ [Jobs!Next]_(Jobs!jvars)
    OBVIOUS
  <2>1. StepKeeps
    BY EveryStepKeeps
  <2>2. FilesInv'
    BY <2>1, FilesKeep
  <2>3. CASE overlapped'
    BY <2>1, <2>2, <2>3, OverlappingStep DEF Jobs!Next
  <2>4. CASE ~overlapped'
    BY <2>2, <2>4, OrderlyStep DEF Jobs!Next
  <2>5. QED
    BY <2>3, <2>4
<1>3. QED
  BY <1>1, <1>2, JobInvariant, PTL DEF Spec, ImplementsJobTable, Jobs!Spec
==============================================================================
