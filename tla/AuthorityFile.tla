---------------------------- MODULE AuthorityFile ----------------------------
(***************************************************************************)
(* write_authority_artifact of frontier_io.py: processes publish canonical *)
(* bytes under one name of a directory without ever overwriting it.  The   *)
(* bytes are staged in a temporary file, the temporary inode is linked to  *)
(* the name, and the result is checked again; a failed check takes back    *)
(* the link, and only the link, the call itself made.                      *)
(*                                                                         *)
(* Inodes are numbers the file system uses again once nothing names them.  *)
(* Each system call that others can see is an action.                      *)
(***************************************************************************)
EXTENDS Integers, FiniteSets

CONSTANTS Writers,    \* processes that call write_authority_artifact
          Contents,   \* canonical bytes
          Inodes,     \* inode numbers of the file system
          Null,
          External,   \* the maker of files that are not staged by a writer
          MaxFaults,  \* bound on operating system errors
          MaxCrashes, \* bound on processes killed inside a call
          MaxSwaps    \* bound on changes of the name by others

Partial == "partial"   \* a staged file that is not completely written

ASSUME FileAssumption ==
  /\ Null \notin Contents \cup Inodes \cup Writers
  /\ Partial \notin Contents /\ Partial # Null
  /\ External \notin Writers
  /\ MaxFaults \in Nat /\ MaxCrashes \in Nat /\ MaxSwaps \in Nat

VARIABLES content,    \* bytes of an inode, Null when it is free
          maker,      \* who made the inode (history)
          target,     \* the inode the name stands for, or Null
          temp,       \* the inode of a writer's temporary name, or Null
          leftovers,  \* inodes of temporary names nobody will remove
          pc, data,   \* where a writer is, and the bytes it publishes
          identity,   \* temp_identity
          created,    \* the local of that name
          acks,       \* bytes reported as published (history)
          rollbacks,  \* <<writer, maker>> of each link taken back (history)
          faults, crashes, swaps

disk == <<content, maker, target, leftovers>>
local == <<pc, data, identity, created>>
history == <<acks, rollbacks>>
bounds == <<faults, crashes, swaps>>
vars == <<disk, temp, local, history, bounds>>

Free(i) == content[i] = Null
Goto(w, l) == pc' = [pc EXCEPT ![w] = l]

\* The bytes of the name as a reader finds them; Null when it is gone.
Visible == IF target = Null THEN Null ELSE content[target]

Init ==
  /\ content = [i \in Inodes |-> Null]
  /\ maker = [i \in Inodes |-> Null]
  /\ target = Null /\ leftovers = {}
  /\ temp = [w \in Writers |-> Null]
  /\ pc = [w \in Writers |-> "idle"]
  /\ data = [w \in Writers |-> Null]
  /\ identity = [w \in Writers |-> Null]
  /\ created = [w \in Writers |-> FALSE]
  /\ acks = {} /\ rollbacks = {}
  /\ faults = 0 /\ crashes = 0 /\ swaps = 0

\* The names of the directory become these; inodes without a name are freed.
Relink(newtarget, newtemp, newleftovers) ==
  LET named == {newtarget} \cup {newtemp[w] : w \in Writers} \cup newleftovers
  IN /\ target' = newtarget
     /\ temp' = newtemp
     /\ leftovers' = newleftovers
     /\ content' = [i \in Inodes |-> IF i \in named THEN content[i] ELSE Null]
     /\ maker' = [i \in Inodes |-> IF i \in named THEN maker[i] ELSE Null]

Fault == faults < MaxFaults /\ faults' = faults + 1
NoFault == UNCHANGED faults

------------------------------------------------------------------------------
\* A call begins: the existing name decides between comparing and staging.
Look(w, c) ==
  /\ pc[w] = "idle"
  /\ data' = [data EXCEPT ![w] = c]
  /\ Goto(w, IF target # Null THEN "comparing" ELSE "staging")
  /\ UNCHANGED <<disk, temp, identity, created, history, bounds>>

\* The call returns: the caller is told the bytes are there, or gets an error.
Succeed(w) ==
  /\ acks' = acks \cup {data[w]}
  /\ UNCHANGED rollbacks

Leave(w) ==
  /\ Goto(w, "idle")
  /\ data' = [data EXCEPT ![w] = Null]
  /\ identity' = [identity EXCEPT ![w] = Null]
  /\ created' = [created EXCEPT ![w] = FALSE]

\* Slip: an existing file is taken for the same artifact.
MatchesAnything(w) == Visible # Null

\* _existing_matches
Matches(w) == Visible = data[w]

\* The existing file is read: the same bytes, a conflict, gone, or an error.
Compare(w) ==
  /\ pc[w] = "comparing"
  /\ \/ Matches(w) /\ NoFault /\ Succeed(w)
     \/ ~Matches(w) /\ NoFault /\ UNCHANGED history
     \/ Fault /\ UNCHANGED history
  /\ Leave(w)
  /\ UNCHANGED <<disk, temp, crashes, swaps>>

\* mkstemp: a new name, and an inode number that nothing uses.
OpenTemp(w, i) ==
  /\ pc[w] = "staging"
  /\ Free(i)
  /\ content' = [content EXCEPT ![i] = Partial]
  /\ maker' = [maker EXCEPT ![i] = w]
  /\ temp' = [temp EXCEPT ![w] = i]
  /\ identity' = [identity EXCEPT ![w] = i]
  /\ Goto(w, "filling")
  /\ UNCHANGED <<target, leftovers, data, created, history, bounds>>

\* The bytes are written and fsynced.
FillTemp(w) ==
  /\ pc[w] = "filling"
  /\ content' = [content EXCEPT ![identity[w]] = data[w]]
  /\ Goto(w, "publishing")
  /\ UNCHANGED <<maker, target, leftovers, temp, data, identity, created, history, bounds>>

\* An error while staging, or in the checks before the link.
StageFails(w) ==
  /\ pc[w] \in {"staging", "filling", "publishing"}
  /\ Fault
  /\ IF temp[w] = Null
       THEN Leave(w)
       ELSE Goto(w, "cleaning") /\ UNCHANGED <<data, identity, created>>
  /\ UNCHANGED <<disk, temp, history, crashes, swaps>>

\* Slip: the staged name is moved to the target instead of linked.
LinkMoving(w) ==
  /\ pc[w] = "publishing"
  /\ target = Null
  /\ Relink(temp[w], [temp EXCEPT ![w] = Null], leftovers)
  /\ created' = [created EXCEPT ![w] = TRUE]
  /\ Goto(w, "checking")
  /\ UNCHANGED <<data, identity, history, bounds>>

\* os.link, which fails when the name exists.
Link(w) ==
  /\ pc[w] = "publishing"
  /\ IF target = Null
       THEN /\ target' = temp[w]
            /\ created' = [created EXCEPT ![w] = TRUE]
            /\ Goto(w, "checking")
       ELSE /\ Goto(w, "losing")
            /\ UNCHANGED <<target, created>>
  /\ UNCHANGED <<content, maker, leftovers, temp, data, identity, history, bounds>>

\* Another writer's file is there: its bytes are compared, and the temporary
\* file goes in either case.
LoseRace(w) ==
  /\ pc[w] = "losing"
  /\ \/ /\ Matches(w) /\ NoFault
        /\ Relink(target, [temp EXCEPT ![w] = Null], leftovers)
        /\ Goto(w, "revalidating")
        /\ UNCHANGED <<data, identity, created>>
     \/ /\ \/ ~Matches(w) /\ NoFault
           \/ Fault
        /\ Goto(w, "cleaning")
        /\ UNCHANGED <<disk, temp, data, identity, created>>
  /\ UNCHANGED <<history, crashes, swaps>>

\* The name must stand for the staged inode, in the same parent directory.
CheckPublished(w) ==
  /\ pc[w] = "checking"
  /\ \/ target = identity[w] /\ NoFault /\ Goto(w, "revalidating")
     \/ target # identity[w] /\ NoFault /\ Goto(w, "withdrawing")
     \/ Fault /\ Goto(w, "withdrawing")
  /\ UNCHANGED <<disk, temp, data, identity, created, history, crashes, swaps>>

\* Containment and bytes are checked again, and the call has its result.
Revalidate(w) ==
  /\ pc[w] = "revalidating"
  /\ \/ /\ Matches(w) /\ NoFault
        /\ Succeed(w)
        /\ Goto(w, "cleaning")
     \/ /\ \/ ~Matches(w) /\ NoFault
           \/ Fault
        /\ Goto(w, IF created[w] THEN "withdrawing" ELSE "cleaning")
        /\ UNCHANGED history
  /\ UNCHANGED <<disk, temp, data, identity, created, crashes, swaps>>

\* _safe_unlink_owned: the name still stands for the staged inode number.
OwnsTarget(w) == target = identity[w]

\* _rollback_owned_publication; the unlink itself may fail silently.
Withdraw(w) ==
  /\ pc[w] = "withdrawing"
  /\ \/ /\ OwnsTarget(w) /\ NoFault
        /\ rollbacks' = rollbacks \cup {<<w, maker[target]>>}
        /\ Relink(Null, temp, leftovers)
     \/ /\ \/ ~OwnsTarget(w) /\ NoFault
           \/ Fault
        /\ UNCHANGED <<disk, temp, rollbacks>>
  /\ Goto(w, "cleaning")
  /\ UNCHANGED <<data, identity, created, acks, crashes, swaps>>

\* The temporary name goes and the call ends; a failing unlink is ignored.
Clean(w) ==
  /\ pc[w] = "cleaning"
  /\ \/ /\ NoFault
        /\ Relink(target, [temp EXCEPT ![w] = Null], leftovers)
     \/ /\ temp[w] # Null /\ Fault
        /\ Relink(target, [temp EXCEPT ![w] = Null], leftovers \cup {temp[w]})
  /\ Leave(w)
  /\ UNCHANGED <<history, crashes, swaps>>

------------------------------------------------------------------------------
\* A process is killed: its temporary name stays behind.
Crash(w) ==
  /\ pc[w] # "idle"
  /\ crashes < MaxCrashes
  /\ crashes' = crashes + 1
  /\ Relink(target, [temp EXCEPT ![w] = Null],
            IF temp[w] = Null THEN leftovers ELSE leftovers \cup {temp[w]})
  /\ Leave(w)
  /\ UNCHANGED <<history, faults, swaps>>

\* Somebody else removes the name ...
Remove ==
  /\ swaps < MaxSwaps
  /\ target # Null
  /\ swaps' = swaps + 1
  /\ Relink(Null, temp, leftovers)
  /\ UNCHANGED <<local, history, faults, crashes>>

\* ... or gives it to a file of his own.
Plant(c, i) ==
  /\ swaps < MaxSwaps
  /\ target = Null
  /\ Free(i)
  /\ swaps' = swaps + 1
  /\ target' = i
  /\ content' = [content EXCEPT ![i] = c]
  /\ maker' = [maker EXCEPT ![i] = External]
  /\ UNCHANGED <<leftovers, temp, local, history, faults, crashes>>

Call(w) == \/ \E i \in Inodes : OpenTemp(w, i)
           \/ Compare(w) \/ FillTemp(w) \/ StageFails(w) \/ Link(w) \/ LoseRace(w)
           \/ CheckPublished(w) \/ Revalidate(w) \/ Withdraw(w) \/ Clean(w)

Next == \/ \E w \in Writers, c \in Contents : Look(w, c)
        \/ \E w \in Writers : Call(w) \/ Crash(w)
        \/ Remove
        \/ \E c \in Contents, i \in Inodes : Plant(c, i)

Spec == Init /\ [][Next]_vars

------------------------------------------------------------------------------
\* The name never shows a file that is not completely written.
PublishedIsWhole == Visible # Partial

(***************************************************************************)
(* A call takes back only a link to the file it staged itself, even when   *)
(* somebody replaces the name and the file system re-uses inode numbers.   *)
(***************************************************************************)
WithdrawsOnlyItsOwn == \A r \in rollbacks : r[1] = r[2]

(***************************************************************************)
(* A temporary name is left behind only by a crash or a failed unlink: a   *)
(* call that ended normally or with an error has cleaned up.               *)
(***************************************************************************)
NothingLeftBehind ==
  /\ \A w \in Writers : pc[w] = "idle" => temp[w] = Null
  /\ Cardinality(leftovers) <= crashes + faults

Undisturbed == faults = 0 /\ swaps = 0

\* Until something fails the name is a write-once register, through any crashes.
Register == INSTANCE WriteOnce WITH value <- Visible, clean <- Undisturbed

ImplementsWriteOnce == Register!Spec

\* "write-once semantics": bytes reported as published stay published.
SuccessIsDurable == \A c \in acks : Visible = c
==============================================================================
