------------------------- MODULE AuthorityFileProofs -------------------------
(***************************************************************************)
(* Proofs about AuthorityFile, for every number of writers, contents and   *)
(* inodes and every bound on errors, crashes and outside changes.          *)
(***************************************************************************)
EXTENDS AuthorityFile, FiniteSetTheorems, TLAPS

Locations == {"idle", "comparing", "staging", "filling", "publishing", "checking",
              "losing", "revalidating", "withdrawing", "cleaning"}

FileTypeOK ==
  /\ content \in [Inodes -> Contents \cup {Partial, Null}]
  /\ maker \in [Inodes -> Writers \cup {External, Null}]
  /\ target \in Inodes \cup {Null}
  /\ leftovers \subseteq Inodes /\ IsFiniteSet(leftovers)
  /\ temp \in [Writers -> Inodes \cup {Null}]
  /\ pc \in [Writers -> Locations]
  /\ data \in [Writers -> Contents \cup {Null}]
  /\ identity \in [Writers -> Inodes \cup {Null}]
  /\ created \in [Writers -> BOOLEAN]
  /\ faults \in Nat /\ crashes \in Nat /\ swaps \in Nat

\* The published inode is whole, and a temporary name stands for a file its
\* writer made; so no two writers share one.
NamesInv ==
  /\ target # Null => content[target] \in Contents
  /\ \A w \in Writers : temp[w] # Null => content[temp[w]] # Null /\ maker[temp[w]] = w

\* What a writer knows of its own temporary name at each place of the call.
Holding(w) == temp[w] # Null /\ temp[w] = identity[w]

CallInv(w) ==
  /\ pc[w] # "idle" => data[w] \in Contents
  /\ pc[w] \in {"idle", "comparing", "staging"} => temp[w] = Null
  /\ pc[w] \in {"filling", "publishing", "checking", "withdrawing"} => Holding(w)
  /\ pc[w] = "revalidating" /\ created[w] => Holding(w)
  /\ pc[w] \in {"filling", "publishing"} => temp[w] # target
  /\ pc[w] = "publishing" => content[temp[w]] = data[w]
  /\ created[w] => pc[w] \in {"checking", "revalidating", "withdrawing", "cleaning"}

\* While nothing disturbs a call, what it linked or compared stays there.
StaysInv(w) ==
  Undisturbed => /\ pc[w] = "checking" => target = identity[w]
                 /\ pc[w] \in {"checking", "revalidating"} => Visible = data[w]
                 /\ pc[w] # "withdrawing"

LeftoversInv == Cardinality(leftovers) <= crashes + faults

FileInv == /\ FileTypeOK /\ NamesInv
           /\ \A w \in Writers : CallInv(w) /\ StaysInv(w)
           /\ LeftoversInv /\ WithdrawsOnlyItsOwn
------------------------------------------------------------------------------
\* The empty directory satisfies the invariant.
LEMMA InitInv == Init => FileInv
<1> SUFFICES ASSUME Init PROVE FileInv
  OBVIOUS
<1> USE FileAssumption DEF Init
<1>1. FileTypeOK /\ LeftoversInv
  BY FS_EmptySet DEF FileTypeOK, Locations, LeftoversInv
<1>2. NamesInv /\ WithdrawsOnlyItsOwn
  BY DEF NamesInv, WithdrawsOnlyItsOwn
<1>3. \A w \in Writers : CallInv(w) /\ StaysInv(w)
  BY DEF CallInv, StaysInv
<1>4. QED
  BY <1>1, <1>2, <1>3 DEF FileInv

\* A name that is kept keeps its bytes and its maker, and types are kept.
LEMMA RelinkKeeps ==
  ASSUME FileTypeOK, NEW t \in Inodes \cup {Null}, NEW ts \in [Writers -> Inodes \cup {Null}],
         NEW ls \in SUBSET Inodes, Relink(t, ts, ls)
  PROVE  /\ target' = t /\ temp' = ts /\ leftovers' = ls
         /\ content' \in [Inodes -> Contents \cup {Partial, Null}]
         /\ maker' \in [Inodes -> Writers \cup {External, Null}]
         /\ t # Null => content'[t] = content[t] /\ maker'[t] = maker[t]
         /\ \A w \in Writers : ts[w] # Null => /\ content'[ts[w]] = content[ts[w]]
                                             /\ maker'[ts[w]] = maker[ts[w]]
  BY FileAssumption DEF FileTypeOK, Relink

\* So when names only go, those that are left are as good as before.
LEMMA RelinkNames ==
  ASSUME FileTypeOK, NamesInv,
         NEW t \in {target, Null}, NEW ts \in [Writers -> Inodes \cup {Null}],
         \A w \in Writers : ts[w] \in {temp[w], Null},
         NEW ls \in SUBSET Inodes, Relink(t, ts, ls)
  PROVE  /\ target' = t /\ temp' = ts /\ leftovers' = ls
         /\ content' \in [Inodes -> Contents \cup {Partial, Null}]
         /\ maker' \in [Inodes -> Writers \cup {External, Null}]
         /\ t = target => Visible' = Visible
         /\ \A w \in Writers : ts[w] # Null => content'[ts[w]] = content[ts[w]]
         /\ NamesInv'
<1>1. t \in Inodes \cup {Null}
  BY DEF FileTypeOK
<1>2. QED
  BY <1>1, RelinkKeeps DEF NamesInv, Visible

\* Left-behind names can be counted.
LEMMA LeftoversCount == ASSUME FileTypeOK PROVE Cardinality(leftovers) \in Nat
  BY FS_CardinalityType DEF FileTypeOK

\* Adding a member adds at most one to a cardinality.
LEMMA OneMore == ASSUME NEW S, NEW x, IsFiniteSet(S)
                 PROVE  /\ IsFiniteSet(S \cup {x})
                        /\ Cardinality(S) \in Nat /\ Cardinality(S \cup {x}) \in Nat
                        /\ Cardinality(S \cup {x}) <= Cardinality(S) + 1
<1>1. /\ IsFiniteSet(S \cup {x})
      /\ Cardinality(S \cup {x}) = IF x \in S THEN Cardinality(S) ELSE Cardinality(S) + 1
  BY FS_AddElement
<1>2. Cardinality(S) \in Nat
  BY FS_CardinalityType
<1>3. QED
  BY <1>1, <1>2

\* The calls that only read, or write their own file, one after the other.
LEMMA LookInv == ASSUME FileInv, NEW w \in Writers, NEW c \in Contents, Look(w, c)
                 PROVE  FileInv'
<1> USE DEF FileInv
<1>1. FileTypeOK'
  BY DEF FileTypeOK, Locations, Look, Goto, disk, history, bounds
<1>2. NamesInv' /\ LeftoversInv' /\ WithdrawsOnlyItsOwn'
  BY DEF NamesInv, LeftoversInv, WithdrawsOnlyItsOwn, Look, disk, history, bounds
<1>3. ASSUME NEW v \in Writers PROVE CallInv(v)' /\ StaysInv(v)'
  BY DEF FileTypeOK, CallInv, StaysInv, Holding, Undisturbed, Visible, Look, Goto, disk, history, bounds
<1>4. QED
  BY <1>1, <1>2, <1>3

\* A comparison changes nothing on disk.
LEMMA CompareInv == ASSUME FileInv, NEW w \in Writers, Compare(w) PROVE FileInv'
<1> USE DEF FileInv
<1>1. FileTypeOK'
  BY FileAssumption DEF FileTypeOK, Locations, Compare, Leave, Goto, Fault, NoFault, disk
<1>2. NamesInv' /\ LeftoversInv' /\ WithdrawsOnlyItsOwn'
  BY LeftoversCount DEF NamesInv, LeftoversInv, WithdrawsOnlyItsOwn, Compare, Fault, NoFault, Succeed, FileTypeOK, disk, history
<1>3. ASSUME NEW v \in Writers PROVE CallInv(v)' /\ StaysInv(v)'
  BY DEF FileTypeOK, CallInv, StaysInv, Holding, Undisturbed, Visible, Compare, Leave, Goto, Fault, NoFault, disk
<1>4. QED
  BY <1>1, <1>2, <1>3

\* A new temporary name takes an inode that nothing else stands for.
LEMMA OpenTempInv ==
  ASSUME FileInv, NEW w \in Writers, NEW i \in Inodes, OpenTemp(w, i) PROVE FileInv'
<1> USE DEF FileInv
<1>1. FileTypeOK'
  BY DEF FileTypeOK, Locations, OpenTemp, Goto, history, bounds
<1>2. NamesInv' /\ LeftoversInv' /\ WithdrawsOnlyItsOwn'
  BY FileAssumption DEF NamesInv, LeftoversInv, WithdrawsOnlyItsOwn, OpenTemp, Free, FileTypeOK, history, bounds
<1>3. ASSUME NEW v \in Writers PROVE CallInv(v)' /\ StaysInv(v)'
  BY FileAssumption DEF FileTypeOK, NamesInv, CallInv, StaysInv, Holding, Undisturbed, Visible, OpenTemp, Free, Goto, history, bounds
<1>4. QED
  BY <1>1, <1>2, <1>3

\* Staged bytes go to an inode that is not the published one.
LEMMA FillTempInv == ASSUME FileInv, NEW w \in Writers, FillTemp(w) PROVE FileInv'
<1> USE DEF FileInv
<1>1. identity[w] \in Inodes /\ temp[w] = identity[w] /\ identity[w] # target /\ data[w] \in Contents
  BY DEF FileTypeOK, CallInv, Holding, FillTemp
<1>2. FileTypeOK'
  BY <1>1 DEF FileTypeOK, Locations, FillTemp, Goto, history, bounds
<1>3. NamesInv' /\ LeftoversInv' /\ WithdrawsOnlyItsOwn'
  BY <1>1, FileAssumption DEF NamesInv, LeftoversInv, WithdrawsOnlyItsOwn, FillTemp, FileTypeOK, history, bounds
<1>4. ASSUME NEW v \in Writers PROVE CallInv(v)' /\ StaysInv(v)'
  BY <1>1, FileAssumption DEF FileTypeOK, NamesInv, CallInv, StaysInv, Holding, Undisturbed, Visible, FillTemp, Goto, history, bounds
<1>5. QED
  BY <1>2, <1>3, <1>4

\* A failed stage keeps its temporary name until the cleanup.
LEMMA StageFailsInv == ASSUME FileInv, NEW w \in Writers, StageFails(w) PROVE FileInv'
<1> USE DEF FileInv
<1>1. FileTypeOK'
  <2> UNCHANGED <<disk, temp, crashes, swaps>> /\ faults' \in Nat
    BY DEF StageFails, Fault, FileTypeOK
  <2>1. CASE temp[w] = Null
    <3>1. /\ pc' = [pc EXCEPT ![w] = "idle"] /\ data' = [data EXCEPT ![w] = Null]
          /\ identity' = [identity EXCEPT ![w] = Null] /\ created' = [created EXCEPT ![w] = FALSE]
      BY <2>1 DEF StageFails, Leave, Goto
    <3>2. pc' \in [Writers -> Locations]
      BY <3>1 DEF FileTypeOK, Locations
    <3>3. /\ data' \in [Writers -> Contents \cup {Null}]
          /\ identity' \in [Writers -> Inodes \cup {Null}] /\ created' \in [Writers -> BOOLEAN]
      BY <3>1 DEF FileTypeOK
    <3>4. QED
      BY <3>2, <3>3 DEF FileTypeOK, disk
  <2>2. CASE temp[w] # Null
    BY <2>2 DEF FileTypeOK, Locations, StageFails, Goto, disk
  <2>3. QED
    BY <2>1, <2>2
<1>2. NamesInv' /\ LeftoversInv' /\ WithdrawsOnlyItsOwn'
  BY LeftoversCount DEF NamesInv, LeftoversInv, WithdrawsOnlyItsOwn, StageFails, Fault, FileTypeOK, disk, history
<1>3. ASSUME NEW v \in Writers PROVE CallInv(v)' /\ StaysInv(v)'
  BY DEF FileTypeOK, CallInv, StaysInv, Holding, Undisturbed, Visible, StageFails, Leave, Goto, Fault, disk, history
<1>4. QED
  BY <1>1, <1>2, <1>3

\* What is linked is complete and the writer's own.
LEMMA LinkInv == ASSUME FileInv, NEW w \in Writers, Link(w) PROVE FileInv'
<1> USE DEF FileInv
<1>1. temp[w] \in Inodes /\ temp[w] = identity[w] /\ content[temp[w]] = data[w] /\ data[w] \in Contents
  BY DEF FileTypeOK, CallInv, Holding, Link
<1>2. FileTypeOK'
  BY <1>1 DEF FileTypeOK, Locations, Link, Goto, history, bounds
<1>3. NamesInv' /\ LeftoversInv' /\ WithdrawsOnlyItsOwn'
  BY <1>1 DEF NamesInv, LeftoversInv, WithdrawsOnlyItsOwn, Link, history, bounds
<1>4. ASSUME NEW v \in Writers PROVE CallInv(v)' /\ StaysInv(v)'
  BY <1>1, FileAssumption DEF FileTypeOK, NamesInv, CallInv, StaysInv, Holding, Undisturbed, Visible, Link, Goto, history, bounds
<1>5. QED
  BY <1>2, <1>3, <1>4
\* The calls that remove names, one after the other.
LEMMA LoseRaceInv == ASSUME FileInv, NEW w \in Writers, LoseRace(w) PROVE FileInv'
<1> USE DEF FileInv
<1>0. pc[w] = "losing"
  BY DEF LoseRace
<1>1. CASE /\ Matches(w) /\ NoFault /\ Goto(w, "revalidating")
           /\ Relink(target, [temp EXCEPT ![w] = Null], leftovers)
           /\ UNCHANGED <<data, identity, created, history, crashes, swaps>>
  <2> DEFINE ts == [temp EXCEPT ![w] = Null]
  <2>1. /\ ts \in [Writers -> Inodes \cup {Null}]
        /\ \A v \in Writers : ts[v] \in {temp[v], Null} /\ (v # w => ts[v] = temp[v])
        /\ ts[w] = Null
    BY DEF FileTypeOK
  <2>2. leftovers \in SUBSET Inodes /\ Relink(target, ts, leftovers)
    BY <1>1 DEF FileTypeOK
  <2> HIDE DEF ts
  <2>3. /\ target' = target /\ temp' = ts /\ leftovers' = leftovers
        /\ content' \in [Inodes -> Contents \cup {Partial, Null}]
        /\ maker' \in [Inodes -> Writers \cup {External, Null}]
        /\ Visible' = Visible
        /\ \A v \in Writers : ts[v] # Null => content'[ts[v]] = content[ts[v]]
        /\ NamesInv'
    BY <2>1, <2>2, RelinkNames
  <2>4. FileTypeOK' /\ LeftoversInv' /\ WithdrawsOnlyItsOwn'
    BY <1>1, <2>1, <2>3 DEF FileTypeOK, Locations, LeftoversInv, WithdrawsOnlyItsOwn, Goto, NoFault, history
  <2>5. ASSUME NEW v \in Writers PROVE CallInv(v)' /\ StaysInv(v)'
    BY <1>0, <1>1, <2>1, <2>3 DEF FileTypeOK, CallInv, StaysInv, Holding, Undisturbed, Matches, Goto, NoFault, history
  <2>6. QED
    BY <2>3, <2>4, <2>5
<1>2. CASE /\ Goto(w, "cleaning") /\ (NoFault \/ Fault)
           /\ UNCHANGED <<disk, temp, data, identity, created, history, crashes, swaps>>
  <2>1. FileTypeOK'
    BY <1>2 DEF FileTypeOK, Locations, Goto, Fault, NoFault, disk
  <2>2. NamesInv' /\ LeftoversInv' /\ WithdrawsOnlyItsOwn'
    BY <1>2, LeftoversCount DEF FileTypeOK, NamesInv, LeftoversInv, WithdrawsOnlyItsOwn, Fault, NoFault, disk, history
  <2>3. ASSUME NEW v \in Writers PROVE CallInv(v)' /\ StaysInv(v)'
    BY <1>0, <1>2 DEF FileTypeOK, CallInv, StaysInv, Holding, Undisturbed, Visible, Goto, Fault, NoFault, disk
  <2>4. QED
    BY <2>1, <2>2, <2>3
<1>3. QED
  BY <1>1, <1>2 DEF LoseRace

\* A published name fails its check only after a disturbance.
LEMMA CheckPublishedInv == ASSUME FileInv, NEW w \in Writers, CheckPublished(w) PROVE FileInv'
<1> USE DEF FileInv
<1>1. FileTypeOK'
  BY DEF FileTypeOK, Locations, CheckPublished, Goto, Fault, NoFault, disk
<1>2. NamesInv' /\ LeftoversInv' /\ WithdrawsOnlyItsOwn'
  BY LeftoversCount DEF FileTypeOK, NamesInv, LeftoversInv, WithdrawsOnlyItsOwn, CheckPublished,
                        Fault, NoFault, disk, history
<1>3. ASSUME NEW v \in Writers PROVE CallInv(v)' /\ StaysInv(v)'
  BY DEF FileTypeOK, CallInv, StaysInv, Holding, Undisturbed, Visible, CheckPublished, Goto, Fault, NoFault, disk
<1>4. QED
  BY <1>1, <1>2, <1>3

\* The second look at the bytes can send a creator to its rollback.
LEMMA RevalidateInv == ASSUME FileInv, NEW w \in Writers, Revalidate(w) PROVE FileInv'
<1> USE DEF FileInv
<1>1. FileTypeOK'
  BY DEF FileTypeOK, Locations, Revalidate, Goto, Fault, NoFault, disk
<1>2. NamesInv' /\ LeftoversInv' /\ WithdrawsOnlyItsOwn'
  BY LeftoversCount DEF FileTypeOK, NamesInv, LeftoversInv, WithdrawsOnlyItsOwn, Revalidate, Succeed,
                        Fault, NoFault, disk, history
<1>3. ASSUME NEW v \in Writers PROVE CallInv(v)' /\ StaysInv(v)'
  BY DEF FileTypeOK, CallInv, StaysInv, Holding, Undisturbed, Visible, Matches, Revalidate, Goto, Fault, NoFault, disk
<1>4. QED
  BY <1>1, <1>2, <1>3

\* The link that is taken back is to the writer's own file: its temporary name
\* keeps the inode in use.
LEMMA WithdrawInv == ASSUME FileInv, NEW w \in Writers, Withdraw(w) PROVE FileInv'
<1> USE DEF FileInv
<1>1. ~Undisturbed /\ Holding(w) /\ pc[w] = "withdrawing"
  BY DEF StaysInv, CallInv, Withdraw
<1>2. CASE /\ OwnsTarget(w) /\ NoFault
           /\ rollbacks' = rollbacks \cup {<<w, maker[target]>>}
           /\ Relink(Null, temp, leftovers)
           /\ Goto(w, "cleaning")
           /\ UNCHANGED <<data, identity, created, acks, crashes, swaps>>
  <2>1. maker[target] = w
    BY <1>1, <1>2 DEF OwnsTarget, Holding, NamesInv
  <2>2. /\ temp \in [Writers -> Inodes \cup {Null}] /\ leftovers \in SUBSET Inodes
        /\ \A v \in Writers : temp[v] \in {temp[v], Null}
    BY DEF FileTypeOK
  <2>3. /\ target' = Null /\ temp' = temp /\ leftovers' = leftovers
        /\ content' \in [Inodes -> Contents \cup {Partial, Null}]
        /\ maker' \in [Inodes -> Writers \cup {External, Null}]
        /\ \A v \in Writers : temp[v] # Null => content'[temp[v]] = content[temp[v]]
        /\ NamesInv'
    BY <1>2, <2>2, RelinkNames
  <2>4. FileTypeOK' /\ LeftoversInv' /\ WithdrawsOnlyItsOwn'
    BY <1>2, <2>1, <2>3 DEF FileTypeOK, Locations, LeftoversInv, WithdrawsOnlyItsOwn, Goto, NoFault
  <2>5. ASSUME NEW v \in Writers PROVE CallInv(v)' /\ StaysInv(v)'
    BY <1>1, <1>2, <2>3, FileAssumption DEF FileTypeOK, CallInv, StaysInv, Holding, Undisturbed, Goto, NoFault
  <2>6. QED
    BY <2>3, <2>4, <2>5
<1>3. CASE /\ Goto(w, "cleaning") /\ (NoFault \/ Fault)
           /\ UNCHANGED <<disk, temp, data, identity, created, history, crashes, swaps>>
  <2>1. FileTypeOK'
    BY <1>3 DEF FileTypeOK, Locations, Goto, Fault, NoFault, disk
  <2>2. NamesInv' /\ LeftoversInv' /\ WithdrawsOnlyItsOwn'
    BY <1>3, LeftoversCount DEF FileTypeOK, NamesInv, LeftoversInv, WithdrawsOnlyItsOwn, Fault, NoFault, disk, history
  <2>3. ASSUME NEW v \in Writers PROVE CallInv(v)' /\ StaysInv(v)'
    BY <1>1, <1>3 DEF FileTypeOK, CallInv, StaysInv, Holding, Undisturbed, Visible, Goto, Fault, NoFault, disk
  <2>4. QED
    BY <2>1, <2>2, <2>3
<1>4. QED
  BY <1>2, <1>3 DEF Withdraw, history

\* The temporary name goes, unless its unlink fails and it is left behind.
LEMMA CleanInv == ASSUME FileInv, NEW w \in Writers, Clean(w) PROVE FileInv'
<1> USE DEF FileInv
<1> DEFINE ts == [temp EXCEPT ![w] = Null]
<1>1. /\ ts \in [Writers -> Inodes \cup {Null}]
      /\ \A v \in Writers : ts[v] \in {temp[v], Null} /\ (v # w => ts[v] = temp[v])
      /\ ts[w] = Null
  BY DEF FileTypeOK
<1>2. PICK ls \in SUBSET Inodes :
        /\ Relink(target, ts, ls) /\ IsFiniteSet(ls)
        /\ Cardinality(ls) <= crashes' + faults'
        /\ faults' \in Nat /\ faults' >= faults
  <2>1. CASE NoFault /\ Relink(target, ts, leftovers)
    BY <2>1 DEF FileTypeOK, LeftoversInv, NoFault, Clean
  <2>2. CASE temp[w] # Null /\ Fault /\ Relink(target, ts, leftovers \cup {temp[w]})
    <3>1. /\ IsFiniteSet(leftovers \cup {temp[w]})
          /\ Cardinality(leftovers \cup {temp[w]}) <= Cardinality(leftovers) + 1
      BY OneMore DEF FileTypeOK
    <3>2. leftovers \cup {temp[w]} \in SUBSET Inodes
      BY <2>2 DEF FileTypeOK
    <3>3. Cardinality(leftovers \cup {temp[w]}) \in Nat
      BY <3>1, FS_CardinalityType
    <3>4. QED
      BY <2>2, <3>1, <3>2, <3>3, LeftoversCount DEF FileTypeOK, LeftoversInv, Fault, Clean
  <2>3. QED
    BY <2>1, <2>2 DEF Clean
<1>3. pc' = [pc EXCEPT ![w] = "idle"] /\ UNCHANGED <<history, crashes, swaps>>
  BY DEF Clean, Leave, Goto
<1>4. /\ data' = [data EXCEPT ![w] = Null]
      /\ identity' = [identity EXCEPT ![w] = Null]
      /\ created' = [created EXCEPT ![w] = FALSE]
  BY DEF Clean, Leave
<1> HIDE DEF ts
<1>5. /\ target' = target /\ temp' = ts /\ leftovers' = ls
      /\ content' \in [Inodes -> Contents \cup {Partial, Null}]
      /\ maker' \in [Inodes -> Writers \cup {External, Null}]
      /\ Visible' = Visible
      /\ \A v \in Writers : ts[v] # Null => content'[ts[v]] = content[ts[v]]
      /\ NamesInv'
  BY <1>1, <1>2, RelinkNames
<1>6. FileTypeOK' /\ LeftoversInv' /\ WithdrawsOnlyItsOwn'
  BY <1>1, <1>2, <1>3, <1>4, <1>5 DEF FileTypeOK, Locations, LeftoversInv, WithdrawsOnlyItsOwn, history
<1>7. Undisturbed' => Undisturbed
  BY <1>2, <1>3 DEF Undisturbed, FileTypeOK
<1>8. ASSUME NEW v \in Writers PROVE CallInv(v)' /\ StaysInv(v)'
  BY <1>1, <1>3, <1>4, <1>5, <1>7 DEF FileTypeOK, CallInv, StaysInv, Holding
<1>9. QED
  BY <1>5, <1>6, <1>8

\* A crash leaves at most one name behind.
LEMMA CrashInv == ASSUME FileInv, NEW w \in Writers, Crash(w) PROVE FileInv'
<1> USE DEF FileInv
<1> DEFINE ts == [temp EXCEPT ![w] = Null]
           ls == IF temp[w] = Null THEN leftovers ELSE leftovers \cup {temp[w]}
<1>1. /\ ts \in [Writers -> Inodes \cup {Null}]
      /\ \A v \in Writers : ts[v] \in {temp[v], Null} /\ (v # w => ts[v] = temp[v])
      /\ ts[w] = Null
  BY DEF FileTypeOK
<1>2. ls \in SUBSET Inodes /\ IsFiniteSet(ls) /\ Cardinality(ls) <= Cardinality(leftovers) + 1
  <2>1. CASE temp[w] = Null
    BY <2>1, LeftoversCount DEF FileTypeOK
  <2>2. CASE temp[w] # Null
    <3>1. ls = leftovers \cup {temp[w]} /\ temp[w] \in Inodes
      BY <2>2 DEF FileTypeOK
    <3>2. QED
      BY <3>1, OneMore DEF FileTypeOK
  <2>3. QED
    BY <2>1, <2>2
<1>3. Cardinality(ls) \in Nat
  BY <1>2, FS_CardinalityType
<1>4. /\ Relink(target, ts, ls) /\ crashes' = crashes + 1
      /\ pc' = [pc EXCEPT ![w] = "idle"]
      /\ data' = [data EXCEPT ![w] = Null]
      /\ identity' = [identity EXCEPT ![w] = Null]
      /\ created' = [created EXCEPT ![w] = FALSE]
      /\ UNCHANGED <<history, faults, swaps>>
  BY DEF Crash, Leave, Goto
<1> HIDE DEF ts, ls
<1>5. /\ target' = target /\ temp' = ts /\ leftovers' = ls
      /\ content' \in [Inodes -> Contents \cup {Partial, Null}]
      /\ maker' \in [Inodes -> Writers \cup {External, Null}]
      /\ Visible' = Visible
      /\ \A v \in Writers : ts[v] # Null => content'[ts[v]] = content[ts[v]]
      /\ NamesInv'
  BY <1>1, <1>2, <1>4, RelinkNames
<1>6. FileTypeOK' /\ LeftoversInv' /\ WithdrawsOnlyItsOwn'
  BY <1>1, <1>2, <1>3, <1>4, <1>5, LeftoversCount
     DEF FileTypeOK, Locations, LeftoversInv, WithdrawsOnlyItsOwn, history
<1>7. ASSUME NEW v \in Writers PROVE CallInv(v)' /\ StaysInv(v)'
  BY <1>1, <1>4, <1>5 DEF FileTypeOK, CallInv, StaysInv, Holding, Undisturbed
<1>8. QED
  BY <1>5, <1>6, <1>7

\* Somebody else's removal is counted as a disturbance.
LEMMA RemoveInv == ASSUME FileInv, Remove PROVE FileInv'
<1> USE DEF FileInv
<1>1. /\ temp \in [Writers -> Inodes \cup {Null}] /\ leftovers \in SUBSET Inodes
      /\ \A v \in Writers : temp[v] \in {temp[v], Null}
  BY DEF FileTypeOK
<1>2. /\ target' = Null /\ temp' = temp /\ leftovers' = leftovers
      /\ content' \in [Inodes -> Contents \cup {Partial, Null}]
      /\ maker' \in [Inodes -> Writers \cup {External, Null}]
      /\ \A v \in Writers : temp[v] # Null => content'[temp[v]] = content[temp[v]]
      /\ NamesInv'
  BY <1>1, RelinkNames DEF Remove
<1>3. FileTypeOK' /\ LeftoversInv' /\ WithdrawsOnlyItsOwn'
  BY <1>2 DEF Remove, FileTypeOK, LeftoversInv, WithdrawsOnlyItsOwn, local, history
<1>4. ASSUME NEW v \in Writers PROVE CallInv(v)' /\ StaysInv(v)'
  BY <1>2, FileAssumption DEF Remove, FileTypeOK, CallInv, StaysInv, Holding, Undisturbed, local
<1>5. QED
  BY <1>2, <1>3, <1>4

\* A foreign file takes a free inode, so it is nobody's temporary file.
LEMMA PlantInv ==
  ASSUME FileInv, NEW c \in Contents, NEW i \in Inodes, Plant(c, i) PROVE FileInv'
<1> USE DEF FileInv
<1>1. FileTypeOK' /\ LeftoversInv' /\ WithdrawsOnlyItsOwn'
  BY DEF Plant, FileTypeOK, LeftoversInv, WithdrawsOnlyItsOwn, local, history
<1>2. NamesInv'
  BY FileAssumption DEF Plant, Free, FileTypeOK, NamesInv, local
<1>3. ASSUME NEW v \in Writers PROVE CallInv(v)' /\ StaysInv(v)'
  BY FileAssumption DEF Plant, Free, FileTypeOK, NamesInv, CallInv, StaysInv, Holding, Undisturbed, local
<1>4. QED
  BY <1>1, <1>2, <1>3

\* Stuttering preserves the invariant.
LEMMA StutterInv == ASSUME FileInv, UNCHANGED vars PROVE FileInv'
  BY DEF FileInv, FileTypeOK, NamesInv, CallInv, StaysInv, Holding, LeftoversInv, WithdrawsOnlyItsOwn,
         Undisturbed, Visible, vars, disk, local, history, bounds

------------------------------------------------------------------------------
\* Every step preserves the invariant.
LEMMA NextInv == FileInv /\ [Next]_vars => FileInv'
<1> SUFFICES ASSUME FileInv, [Next]_vars PROVE FileInv'
  OBVIOUS
<1>1. CASE \E w \in Writers, c \in Contents : Look(w, c)
  BY <1>1, LookInv
<1>2. ASSUME NEW w \in Writers, Call(w) PROVE FileInv'
  BY <1>2, CompareInv, OpenTempInv, FillTempInv, StageFailsInv, LinkInv, LoseRaceInv, CheckPublishedInv,
     RevalidateInv, WithdrawInv, CleanInv DEF Call
<1>3. CASE \E w \in Writers : Crash(w)
  BY <1>3, CrashInv
<1>4. CASE Remove
  BY <1>4, RemoveInv
<1>5. CASE \E c \in Contents, i \in Inodes : Plant(c, i)
  BY <1>5, PlantInv
<1>6. CASE UNCHANGED vars
  BY <1>6, StutterInv
<1>7. QED
  BY <1>1, <1>2, <1>3, <1>4, <1>5, <1>6 DEF Next

(***************************************************************************)
(* FileInv is inductive: names, locals and the published inode agree at    *)
(* every step of every writer, through errors, crashes and outside changes.*)
(***************************************************************************)
THEOREM FileInvariant == Spec => []FileInv
<1>1. Init => FileInv
  BY InitInv
<1>2. FileInv /\ [Next]_vars => FileInv'
  BY NextInv
<1>3. QED
  BY <1>1, <1>2, PTL DEF Spec

\* No reader of the name ever finds a file that is not completely written.
THEOREM NameIsWhole == Spec => []PublishedIsWhole
<1>1. FileInv => PublishedIsWhole
  BY FileAssumption DEF FileInv, NamesInv, PublishedIsWhole, Visible
<1>2. QED
  BY <1>1, FileInvariant, PTL

\* A rollback removes only a link to the file the same call staged: the call's
\* temporary name keeps the inode number from being used again.
THEOREM OnlyOwnLinksWithdrawn == Spec => []WithdrawsOnlyItsOwn
<1>1. FileInv => WithdrawsOnlyItsOwn
  BY DEF FileInv
<1>2. QED
  BY <1>1, FileInvariant, PTL

\* A call that has ended has no temporary name, and the names left behind are
\* no more than the crashes and the failed unlinks.
THEOREM CallsLeaveNothing == Spec => []NothingLeftBehind
<1>1. FileInv => NothingLeftBehind
  BY DEF FileInv, CallInv, LeftoversInv, NothingLeftBehind
<1>2. QED
  BY <1>1, FileInvariant, PTL
------------------------------------------------------------------------------
\* The register's variables, where the refinement maps them.
LEMMA RegisterInit == Init => Register!Init
  BY DEF Init, Register!Init, Visible, Undisturbed

\* What a reader of the name and the callers see does not change.
Unseen == UNCHANGED <<Visible, acks, Undisturbed>>

\* A writer that reports success has found its bytes under the name.
LEMMA SuccessIsReport ==
  ASSUME FileInv, NEW w \in Writers, pc[w] # "idle", Matches(w), Succeed(w),
         UNCHANGED <<content, target, faults, swaps>>, Undisturbed
  PROVE  Register!Next
<1>1. data[w] \in Contents
  BY DEF FileInv, CallInv
<1>2. Register!Report(data[w])
  BY DEF Register!Report, Matches, Succeed, Visible, Undisturbed
<1>3. QED
  BY <1>1, <1>2 DEF Register!Next

\* Names go, but not the one readers look at.
LEMMA RelinkUnseen ==
  ASSUME FileInv, NEW ts \in [Writers -> Inodes \cup {Null}], NEW ls \in SUBSET Inodes,
         Relink(target, ts, ls), UNCHANGED <<acks, faults, swaps>>
  PROVE  Unseen
<1>1. target \in Inodes \cup {Null} /\ FileTypeOK
  BY DEF FileInv, FileTypeOK
<1>2. Visible' = Visible
  BY <1>1, RelinkKeeps DEF Visible
<1>3. QED
  BY <1>2 DEF Unseen, Undisturbed

\* While no call fails and nobody interferes, a call's step publishes its bytes,
\* reports the bytes that are there, or changes nothing others see.
LEMMA CallIsRegister ==
  ASSUME FileInv, NEW w \in Writers, Call(w), Undisturbed, Undisturbed'
  PROVE  Register!Next \/ Unseen
<1> faults = 0 /\ swaps = 0 /\ faults' = 0 /\ ~Fault
  BY DEF Undisturbed, Fault
<1>1. CASE Compare(w)
  BY <1>1, SuccessIsReport DEF Compare, NoFault, Unseen, Visible, Undisturbed, disk, history
<1>2. ASSUME NEW i \in Inodes, OpenTemp(w, i) PROVE Unseen
  <2>1. target # Null => target # i /\ target \in Inodes
    BY <1>2, FileAssumption DEF FileInv, FileTypeOK, NamesInv, OpenTemp, Free
  <2>2. QED
    BY <1>2, <2>1 DEF FileInv, FileTypeOK, OpenTemp, Unseen, Visible, Undisturbed, history, bounds
<1>3. CASE FillTemp(w)
  <2>1. target # identity[w]
    BY <1>3 DEF FileInv, CallInv, Holding, FillTemp
  <2>2. QED
    BY <1>3, <2>1 DEF FileInv, FileTypeOK, FillTemp, Unseen, Visible, Undisturbed, history, bounds
<1>4. CASE Link(w)
  <2>1. temp[w] # Null /\ content[temp[w]] = data[w] /\ data[w] \in Contents
    BY <1>4 DEF FileInv, CallInv, Holding, Link
  <2>2. CASE target = Null
    <3>1. Register!Publish(data[w])
      BY <1>4, <2>1, <2>2 DEF Link, Register!Publish, Visible, Undisturbed, history, bounds
    <3>2. QED
      BY <2>1, <3>1 DEF Register!Next
  <2>3. CASE target # Null
    BY <1>4, <2>3 DEF Link, Unseen, Visible, Undisturbed, history, bounds
  <2>4. QED
    BY <2>2, <2>3
<1>5. CASE LoseRace(w)
  <2>1. CASE Relink(target, [temp EXCEPT ![w] = Null], leftovers) /\ NoFault
    <3>1. [temp EXCEPT ![w] = Null] \in [Writers -> Inodes \cup {Null}] /\ leftovers \in SUBSET Inodes
      BY DEF FileInv, FileTypeOK
    <3>2. UNCHANGED <<acks, faults, swaps>>
      BY <1>5, <2>1 DEF LoseRace, NoFault, history
    <3>3. QED
      BY <2>1, <3>1, <3>2, RelinkUnseen
  <2>2. CASE UNCHANGED disk
    BY <1>5, <2>2 DEF LoseRace, NoFault, Unseen, Visible, Undisturbed, disk, history
  <2>3. QED
    BY <1>5, <2>1, <2>2 DEF LoseRace
<1>6. CASE CheckPublished(w)
  BY <1>6 DEF CheckPublished, NoFault, Unseen, Visible, Undisturbed, disk, history
<1>7. CASE Revalidate(w)
  BY <1>7, SuccessIsReport DEF Revalidate, NoFault, Unseen, Visible, Undisturbed, disk, history
<1>8. CASE Withdraw(w)
  BY <1>8 DEF FileInv, StaysInv, Withdraw
<1>9. CASE Clean(w)
  <2>1. [temp EXCEPT ![w] = Null] \in [Writers -> Inodes \cup {Null}] /\ leftovers \in SUBSET Inodes
    BY DEF FileInv, FileTypeOK
  <2>2. Relink(target, [temp EXCEPT ![w] = Null], leftovers) /\ UNCHANGED <<acks, faults, swaps>>
    BY <1>9 DEF Clean, NoFault, history
  <2>3. QED
    BY <2>1, <2>2, RelinkUnseen
<1>10. CASE StageFails(w)
  BY <1>10 DEF StageFails
<1>11. QED
  BY <1>1, <1>2, <1>3, <1>4, <1>5, <1>6, <1>7, <1>8, <1>9, <1>10 DEF Call

\* Errors and outside changes are counted and never uncounted.
LEMMA DisturbanceStays == ASSUME FileTypeOK, [Next]_vars PROVE Undisturbed' => Undisturbed
<1> USE DEF FileTypeOK, Undisturbed
<1>1. ASSUME NEW w \in Writers, Call(w) PROVE faults' \in {faults, faults + 1} /\ swaps' = swaps
  BY <1>1 DEF Call, OpenTemp, Compare, FillTemp, StageFails, Link, LoseRace, CheckPublished, Revalidate,
              Withdraw, Clean, Fault, NoFault, bounds
<1>2. ASSUME NEW w \in Writers, Crash(w) \/ \E c \in Contents : Look(w, c) PROVE UNCHANGED <<faults, swaps>>
  BY <1>2 DEF Crash, Look, bounds
<1>3. ASSUME Remove \/ \E c \in Contents, i \in Inodes : Plant(c, i) PROVE swaps' = swaps + 1
  BY <1>3 DEF Remove, Plant
<1>4. CASE UNCHANGED vars
  BY <1>4 DEF vars, bounds
<1>5. QED
  BY <1>1, <1>2, <1>3, <1>4 DEF Next

LEMMA StepIsRegister ==
  ASSUME FileInv, [Next]_vars
  PROVE  Register!Next \/ UNCHANGED <<Visible, acks, Undisturbed>>
<1>1. CASE ~Undisturbed'
  BY <1>1 DEF Register!Next, Register!Disturbed, Undisturbed
<1>2. CASE Undisturbed'
  <2>1. FileTypeOK /\ Undisturbed
    BY <1>2, DisturbanceStays DEF FileInv
  <2>2. CASE \E w \in Writers, c \in Contents : Look(w, c)
    BY <2>2 DEF Look, Visible, Undisturbed, disk, history, bounds
  <2>3. ASSUME NEW w \in Writers, Call(w) PROVE Register!Next \/ Unseen
    BY <1>2, <2>1, <2>3, CallIsRegister
  <2>4. ASSUME NEW w \in Writers, Crash(w) PROVE Unseen
    <3> DEFINE ls == IF temp[w] = Null THEN leftovers ELSE leftovers \cup {temp[w]}
    <3>1. [temp EXCEPT ![w] = Null] \in [Writers -> Inodes \cup {Null}] /\ ls \in SUBSET Inodes
      BY <2>1 DEF FileTypeOK
    <3>2. Relink(target, [temp EXCEPT ![w] = Null], ls) /\ UNCHANGED <<acks, faults, swaps>>
      BY <2>4 DEF Crash, history
    <3> HIDE DEF ls
    <3>3. QED
      BY <3>1, <3>2, RelinkUnseen
  <2>5. CASE Remove \/ \E c \in Contents, i \in Inodes : Plant(c, i)
    BY <1>2, <2>1, <2>5 DEF Remove, Plant, Undisturbed
  <2>6. CASE UNCHANGED vars
    BY <2>6 DEF vars, disk, history, bounds, Visible, Undisturbed
  <2>7. QED
    BY <2>2, <2>3, <2>4, <2>5, <2>6 DEF Next, Unseen
<1>3. QED
  BY <1>1, <1>2

(***************************************************************************)
(* "Atomically create a canonical artifact with write-once semantics":     *)
(* until a system call fails or somebody else touches the name, any number *)
(* of writers, killed at any point, use it as a write-once register.       *)
(***************************************************************************)
THEOREM FileImplementsWriteOnce == Spec => ImplementsWriteOnce
<1>1. Init => Register!Init
  BY RegisterInit
<1>2. FileInv /\ [Next]_vars => [Register!Next]_<<Visible, acks, Undisturbed>>
  BY StepIsRegister
<1>3. QED
  BY <1>1, <1>2, FileInvariant, PTL DEF Spec, ImplementsWriteOnce, Register!Spec
==============================================================================
