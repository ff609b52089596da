------------------------- MODULE JobThreadsProofs -------------------------
(***************************************************************************)
(* Proofs about JobThreads, for any finite set of job threads, any finite  *)
(* directory in any order, any size of the stream's buffer and every limit *)
(* max_backups.                                                            *)
(***************************************************************************)
EXTENDS JobThreads, FiniteSetTheorems, TLAPS

-----------------------------------------------------------------------------
(* The directory.                                                          *)

\* The number of entries is a natural number.
LEMMA EntriesNat == Entries \in Nat
<1> QED BY JobThreadsAssumption, FS_CardinalityType DEF Entries

\* Later entries are in the same block or in a later one.
LEMMA BlocksInOrder ==
  ASSUME NEW i \in Nat, NEW j \in Nat, 1 <= i, i <= j
  PROVE  Block(i) \in Nat /\ Block(j) \in Nat /\ Block(i) <= Block(j)
<1> QED BY JobThreadsAssumption DEF Block

\* The start: nothing has been read.
LEMMA InitDispatch == Init => DispatchInv
<1> SUFFICES ASSUME Init PROVE DispatchInv
  OBVIOUS
<1> USE EntriesNat, JobThreadsAssumption DEF Init, Holding, Running
<1>1. TypeOK
  <2>1. cut \in SUBSET (1 .. Entries) /\ ran \in SUBSET JobFiles /\ pos \in 0 .. Entries
    OBVIOUS
  <2>2. /\ entry \in [Jobs -> 0 .. Entries]
        /\ path \in [Jobs -> Files \cup {NoFile}]
        /\ started \in [Files -> Nat]
        /\ file_backups \in [Jobs -> 0 .. MaxBackups]
        /\ bck_name \in [Jobs -> Files \cup {NoFile}]
    OBVIOUS
  <2>3. /\ active_backups \in 0 .. max_backups /\ interrupted \in 0 .. MaxSignals
        /\ running \in Nat /\ zombies \in Nat /\ leaked \in BOOLEAN
    <3>1. /\ active_backups = 0 /\ interrupted = 0 /\ running = 0 /\ zombies = 0
          /\ leaked = FALSE
      OBVIOUS
    <3>2. max_backups \in Nat /\ MaxSignals \in Nat
      OBVIOUS
    <3> HIDE DEF Init
    <3>3. active_backups \in 0 .. max_backups /\ interrupted \in 0 .. MaxSignals
      BY <3>1, <3>2
    <3> QED BY <3>1, <3>3
  <2>4. /\ dir \in [1 .. Entries -> Files]
        /\ pc \in [Jobs -> {"lock", "readdir", "done"} \cup Holding]
        /\ directory_mutex \in Jobs \cup {NoThread}
        /\ n_current_backups_lock \in Jobs \cup {NoThread}
    OBVIOUS
  <2> HIDE DEF Init, Holding, Running
  <2> QED BY <2>1, <2>2, <2>3, <2>4 DEF TypeOK
<1>2. LocksExclusive /\ EachJobOnce /\ EntryOfItsOwn /\ BackupsLeft /\ CutAfterRefill
  BY DEF LocksExclusive, EachJobOnce, EntryOfItsOwn, BackupsLeft, CutAfterRefill
<1> QED BY <1>1, <1>2 DEF DispatchInv

\* What t's pointer may refer to is an entry.
LEMMA NamedEntry ==
  ASSUME DispatchInv, NEW t \in Jobs, pc[t] = "name"
  PROVE  /\ Named(t) \subseteq 1 .. Entries
         /\ \A i \in Named(t) \ 1 .. pos : Block(i) > 0
<1>1. entry[t] \in 1 .. Entries /\ entry[t] \in 1 .. pos /\ pos \in Nat
  BY EntriesNat DEF DispatchInv, TypeOK, EntryOfItsOwn, Holding, Running
<1>2. ASSUME NEW i \in Named(t) \ 1 .. pos PROVE Block(i) > 0
  <2>1. i \in Loaded(pos) /\ entry[t] \notin Loaded(pos)
    BY <1>1, <1>2 DEF Named
  <2>2. Block(i) = Block(pos) /\ Block(entry[t]) # Block(pos)
    BY <1>1, <2>1 DEF Loaded
  <2>3. Block(entry[t]) \in Nat /\ Block(pos) \in Nat /\ Block(entry[t]) <= Block(pos)
    BY <1>1, BlocksInOrder
  <2> QED BY <2>2, <2>3
<1> QED BY <1>1, <1>2 DEF Named, Loaded

\* Every step of every thread preserves the dispatch invariant.
LEMMA NextDispatch == DispatchInv /\ [Next]_vars => DispatchInv'
<1> SUFFICES ASSUME DispatchInv, [Next]_vars PROVE DispatchInv'
  OBVIOUS
<1> USE EntriesNat, JobThreadsAssumption
    DEF DispatchInv, TypeOK, Goto, Holding, Running, dirVars, gateVars, children
<1>1. ASSUME NEW t \in Jobs, Lock(t) PROVE DispatchInv'
  <2> USE DEF Lock
  <2>1. TypeOK'
    BY <1>1 DEF EntryOfItsOwn
  <2>2. LocksExclusive'
    BY <1>1 DEF LocksExclusive
  <2>3. EachJobOnce' /\ CutAfterRefill'
    BY <1>1 DEF EachJobOnce, CutAfterRefill, Block
  <2>4. EntryOfItsOwn'
    BY <1>1 DEF EntryOfItsOwn
  <2>5. BackupsLeft'
    BY <1>1 DEF BackupsLeft
  <2> QED BY <2>1, <2>2, <2>3, <2>4, <2>5
<1>2. ASSUME NEW t \in Jobs, LockBackups(t) PROVE DispatchInv'
  <2> USE DEF LockBackups
  <2>1. TypeOK'
    BY <1>2 DEF EntryOfItsOwn
  <2>2. LocksExclusive'
    BY <1>2 DEF LocksExclusive
  <2>3. EachJobOnce' /\ CutAfterRefill'
    BY <1>2 DEF EachJobOnce, CutAfterRefill, Block
  <2>4. EntryOfItsOwn'
    BY <1>2 DEF EntryOfItsOwn
  <2>5. BackupsLeft'
    BY <1>2 DEF BackupsLeft
  <2> QED BY <2>1, <2>2, <2>3, <2>4, <2>5
<1>3. ASSUME NEW t \in Jobs, Take(t) PROVE DispatchInv'
  <2> USE DEF Take, TakeEntry
  <2>1. TypeOK'
    BY <1>3 DEF EntryOfItsOwn
  <2>2. LocksExclusive'
    BY <1>3 DEF LocksExclusive
  <2>3. EachJobOnce' /\ CutAfterRefill'
    <3>1. /\ pos + 1 \in 1 .. Entries /\ pos' = pos + 1 /\ dir' = dir /\ cut' = cut
          /\ dir[pos + 1] \in JobFiles
          /\ started' = [started EXCEPT ![dir[pos + 1]] = @ + 1]
      BY <1>3 DEF IsJob
    <3>2. ~ \E i \in 1 .. pos : dir[i] = dir[pos + 1]
      BY <3>1 DEF EntryOfItsOwn
    <3>3. started[dir[pos + 1]] = 0
      BY <3>1, <3>2 DEF EachJobOnce
    <3>4. \A i : Block(i)' = Block(i)
      BY DEF Block
    <3>5. \A f \in Files : started'[f] # 0 =>
            started'[f] = 1 /\ f \in JobFiles /\ \E i \in 1 .. pos' : dir[i] = f
      <4> TAKE f \in Files
      <4>1. CASE f = dir[pos + 1]
        BY <3>1, <3>3, <4>1
      <4>2. CASE f # dir[pos + 1]
        BY <3>1, <4>2 DEF EachJobOnce
      <4> QED BY <4>1, <4>2
    <3>6. \A i \in 1 .. pos' : dir[i] \in JobFiles /\ started'[dir[i]] = 0 =>
            i \in cut /\ Block(i) > 0
      <4> TAKE i \in 1 .. pos'
      <4>1. CASE i = pos + 1
        BY <3>1, <3>3, <4>1
      <4>2. CASE i \in 1 .. pos
        <5>1. dir[i] # dir[pos + 1] /\ dir[i] \in Files
          BY <3>1, <3>2, <4>2
        <5>2. started'[dir[i]] = started[dir[i]]
          BY <3>1, <5>1
        <5> QED BY <4>2, <5>2 DEF EachJobOnce
      <4> QED BY <3>1, <4>1, <4>2
    <3> QED BY <3>1, <3>4, <3>5, <3>6 DEF EachJobOnce, CutAfterRefill
  <2>4. EntryOfItsOwn'
    <3>1. started[dir[pos + 1]] = 0
      <4>1. ~ \E i \in 1 .. pos : dir[i] = dir[pos + 1]
        BY <1>3 DEF EntryOfItsOwn
      <4>2. dir[pos + 1] \in Files
        BY <1>3
      <4> QED BY <4>1, <4>2 DEF EachJobOnce
    <3> QED BY <1>3, <3>1 DEF EntryOfItsOwn, IsJob
  <2>5. BackupsLeft'
    BY <1>3 DEF BackupsLeft
  <2> QED BY <2>1, <2>2, <2>3, <2>4, <2>5
<1>4. ASSUME NEW t \in Jobs, Skip(t) PROVE DispatchInv'
  <2> USE DEF Skip, IsJob
  <2>1. TypeOK'
    BY <1>4 DEF EntryOfItsOwn
  <2>2. LocksExclusive'
    BY <1>4 DEF LocksExclusive
  <2>3. EachJobOnce' /\ CutAfterRefill'
    <3>1. /\ pos' = pos + 1 /\ UNCHANGED <<dir, started, cut>>
          /\ dir[pos + 1] \in JobFiles => pos + 1 \in cut
      BY <1>4
    <3>2. \A i : Block(i)' = Block(i)
      BY DEF Block
    <3>3. \A i \in 1 .. pos' : dir[i] \in JobFiles /\ started[dir[i]] = 0 =>
            i \in cut /\ Block(i) > 0
      <4> TAKE i \in 1 .. pos'
      <4>1. i = pos + 1 \/ i \in 1 .. pos
        BY <3>1
      <4> QED BY <3>1, <4>1 DEF EachJobOnce, CutAfterRefill
    <3> QED BY <3>1, <3>2, <3>3 DEF EachJobOnce, CutAfterRefill
  <2>4. EntryOfItsOwn'
    BY <1>4 DEF EntryOfItsOwn
  <2>5. BackupsLeft'
    BY <1>4 DEF BackupsLeft
  <2> QED BY <2>1, <2>2, <2>3, <2>4, <2>5
<1>5. ASSUME NEW t \in Jobs, Leave(t) PROVE DispatchInv'
  <2> USE DEF Leave
  <2>1. TypeOK'
    BY <1>5 DEF EntryOfItsOwn
  <2>2. LocksExclusive'
    BY <1>5 DEF LocksExclusive
  <2>3. EachJobOnce' /\ CutAfterRefill'
    BY <1>5 DEF EachJobOnce, CutAfterRefill, Block
  <2>4. EntryOfItsOwn'
    BY <1>5 DEF EntryOfItsOwn
  <2>5. BackupsLeft'
    BY <1>5 DEF BackupsLeft
  <2> QED BY <2>1, <2>2, <2>3, <2>4, <2>5
<1>6. ASSUME NEW t \in Jobs, Open(t) PROVE DispatchInv'
  <2> USE DEF Open
  <2>1. TypeOK'
    BY <1>6 DEF EntryOfItsOwn
  <2>2. LocksExclusive'
    BY <1>6 DEF LocksExclusive
  <2>3. EachJobOnce' /\ CutAfterRefill'
    BY <1>6 DEF EachJobOnce, CutAfterRefill, Block
  <2>4. EntryOfItsOwn'
    BY <1>6 DEF EntryOfItsOwn
  <2>5. BackupsLeft'
    BY <1>6 DEF BackupsLeft
  <2> QED BY <2>1, <2>2, <2>3, <2>4, <2>5
<1>7. ASSUME NEW t \in Jobs, OpenFails(t) PROVE DispatchInv'
  <2> USE DEF OpenFails
  <2>1. TypeOK'
    BY <1>7 DEF EntryOfItsOwn
  <2>2. LocksExclusive'
    BY <1>7 DEF LocksExclusive
  <2>3. EachJobOnce' /\ CutAfterRefill'
    BY <1>7 DEF EachJobOnce, CutAfterRefill, Block
  <2>4. EntryOfItsOwn'
    BY <1>7 DEF EntryOfItsOwn
  <2>5. BackupsLeft'
    BY <1>7 DEF BackupsLeft
  <2> QED BY <2>1, <2>2, <2>3, <2>4, <2>5
<1>8. ASSUME NEW t \in Jobs, Finish(t) PROVE DispatchInv'
  <2> USE DEF Finish
  <2>1. TypeOK'
    BY <1>8 DEF EntryOfItsOwn
  <2>2. LocksExclusive'
    BY <1>8 DEF LocksExclusive
  <2>3. EachJobOnce' /\ CutAfterRefill'
    BY <1>8 DEF EachJobOnce, CutAfterRefill, Block
  <2>4. EntryOfItsOwn'
    BY <1>8 DEF EntryOfItsOwn
  <2>5. BackupsLeft'
    BY <1>8 DEF BackupsLeft
  <2> QED BY <2>1, <2>2, <2>3, <2>4, <2>5
<1>9. ASSUME NEW t \in Jobs, Command(t) PROVE DispatchInv'
  <2> USE DEF Command
  <2>1. TypeOK'
    BY <1>9 DEF EntryOfItsOwn
  <2>2. LocksExclusive'
    BY <1>9 DEF LocksExclusive
  <2>3. EachJobOnce' /\ CutAfterRefill'
    BY <1>9 DEF EachJobOnce, CutAfterRefill, Block
  <2>4. EntryOfItsOwn'
    BY <1>9 DEF EntryOfItsOwn
  <2>5. BackupsLeft'
    BY <1>9 DEF BackupsLeft
  <2> QED BY <2>1, <2>2, <2>3, <2>4, <2>5
<1>10. ASSUME NEW t \in Jobs, Count(t) PROVE DispatchInv'
  <2> USE DEF Count
  <2>1. TypeOK'
    BY <1>10 DEF EntryOfItsOwn
  <2>2. LocksExclusive'
    BY <1>10 DEF LocksExclusive
  <2>3. EachJobOnce' /\ CutAfterRefill'
    BY <1>10 DEF EachJobOnce, CutAfterRefill, Block
  <2>4. EntryOfItsOwn'
    BY <1>10 DEF EntryOfItsOwn
  <2>5. BackupsLeft'
    BY <1>10 DEF BackupsLeft
  <2> QED BY <2>1, <2>2, <2>3, <2>4, <2>5
<1>11. ASSUME NEW t \in Jobs, WaitChild(t) PROVE DispatchInv'
  <2> USE DEF WaitChild, WaitAny
  <2>1. TypeOK'
    BY <1>11 DEF EntryOfItsOwn
  <2>2. LocksExclusive'
    BY <1>11 DEF LocksExclusive
  <2>3. EachJobOnce' /\ CutAfterRefill'
    BY <1>11 DEF EachJobOnce, CutAfterRefill, Block
  <2>4. EntryOfItsOwn'
    BY <1>11 DEF EntryOfItsOwn
  <2>5. BackupsLeft'
    BY <1>11 DEF BackupsLeft
  <2> QED BY <2>1, <2>2, <2>3, <2>4, <2>5
<1>12. ASSUME NEW t \in Jobs, WaitInterrupted(t) PROVE DispatchInv'
  <2> USE DEF WaitInterrupted
  <2>1. TypeOK'
    BY <1>12 DEF EntryOfItsOwn
  <2>2. LocksExclusive'
    BY <1>12 DEF LocksExclusive
  <2>3. EachJobOnce' /\ CutAfterRefill'
    BY <1>12 DEF EachJobOnce, CutAfterRefill, Block
  <2>4. EntryOfItsOwn'
    BY <1>12 DEF EntryOfItsOwn
  <2>5. BackupsLeft'
    BY <1>12 DEF BackupsLeft
  <2> QED BY <2>1, <2>2, <2>3, <2>4, <2>5
<1>13. ASSUME NEW t \in Jobs, Name(t) PROVE DispatchInv'
  <2> USE DEF Name
  <2>1. TypeOK'
    <3>1. bck_name' \in [Jobs -> Files \cup {NoFile}] /\ cut' \in SUBSET (1 .. Entries)
      BY <1>13, NamedEntry
    <3>2. file_backups' \in [Jobs -> 0 .. MaxBackups]
      BY <1>13 DEF BackupsLeft
    <3> QED BY <1>13, <3>1, <3>2
  <2>2. LocksExclusive'
    BY <1>13 DEF LocksExclusive
  <2>3. EachJobOnce' /\ CutAfterRefill'
    <3>1. /\ cut \subseteq cut' /\ \A i \in cut' \ cut : Block(i) > 0
          /\ UNCHANGED <<dir, pos, started>>
      BY <1>13, NamedEntry
    <3>2. \A i : Block(i)' = Block(i)
      BY DEF Block
    <3> QED BY <3>1, <3>2 DEF EachJobOnce, CutAfterRefill
  <2>4. EntryOfItsOwn'
    BY <1>13 DEF EntryOfItsOwn
  <2>5. BackupsLeft'
    BY <1>13 DEF BackupsLeft
  <2> QED BY <2>1, <2>2, <2>3, <2>4, <2>5
<1>14. ASSUME NEW t \in Jobs, Fork(t) PROVE DispatchInv'
  <2> USE DEF Fork
  <2>1. TypeOK'
    BY <1>14 DEF EntryOfItsOwn
  <2>2. LocksExclusive'
    BY <1>14 DEF LocksExclusive
  <2>3. EachJobOnce' /\ CutAfterRefill'
    BY <1>14 DEF EachJobOnce, CutAfterRefill, Block
  <2>4. EntryOfItsOwn'
    BY <1>14 DEF EntryOfItsOwn
  <2>5. BackupsLeft'
    BY <1>14 DEF BackupsLeft
  <2> QED BY <2>1, <2>2, <2>3, <2>4, <2>5
<1>15. CASE ChildExits \/ Leak \/ Release \/ UNCHANGED vars
  <2> USE DEF ChildExits, Leak, Release, vars
  <2>1. TypeOK'
    <3>1. CASE ChildExits
      BY <3>1
    <3>2. CASE Leak \/ Release
      BY <3>2
    <3>3. CASE UNCHANGED vars
      BY <3>3
    <3> QED BY <1>15, <3>1, <3>2, <3>3
  <2>2. LocksExclusive' /\ BackupsLeft'
    BY <1>15 DEF LocksExclusive, BackupsLeft
  <2>3. EachJobOnce' /\ CutAfterRefill'
    BY <1>15 DEF EachJobOnce, CutAfterRefill, Block
  <2>4. EntryOfItsOwn'
    BY <1>15 DEF EntryOfItsOwn
  <2> QED BY <2>1, <2>2, <2>3, <2>4
<1> QED BY <1>1, <1>2, <1>3, <1>4, <1>5, <1>6, <1>7, <1>8,
           <1>9, <1>10, <1>11, <1>12, <1>13, <1>14, <1>15
        DEF Next, Step, Terminated

\* The invariant holds in every reachable state.
THEOREM DispatchInvariant == Spec => []DispatchInv
<1> QED BY InitDispatch, NextDispatch, PTL DEF Spec

\* The variables keep their types; active_backups never exceeds max_backups.
THEOREM TypeCorrect == Spec => []TypeOK
<1>1. DispatchInv => TypeOK
  BY DEF DispatchInv
<1> QED BY <1>1, DispatchInvariant, PTL

\* Whatever the interleaving, the order of the directory and the opens that
\* fail, no job file is taken twice, and one that readdir has passed was taken,
\* unless a backup cut its name off after a refill of the buffer.  A directory
\* of at most BlockSize entries therefore has every job taken.
THEOREM JobsTakenOnce == Spec => []EachJobOnce
<1>1. DispatchInv => EachJobOnce
  BY DEF DispatchInv
<1> QED BY <1>1, DispatchInvariant, PTL

\* Two threads never hold the same job file: no .out file has two writers.
THEOREM NoSharedOutput == Spec => []OwnFile
<1>1. DispatchInv => OwnFile
  BY DEF DispatchInv, EntryOfItsOwn, OwnFile, TypeOK
<1> QED BY <1>1, DispatchInvariant, PTL

-----------------------------------------------------------------------------
(* BACKUP.                                                                 *)

\* The threads about to fork are a finite set of job threads; one that is not
\* among them leaves room for itself.
LEMMA ForkingSize ==
  /\ IsFiniteSet(Forking)
  /\ Cardinality(Forking) \in Nat
  /\ Cardinality(Jobs) \in Nat
  /\ \A t \in Jobs \ Forking : Cardinality(Forking) + 1 <= Cardinality(Jobs)
<1>1. IsFiniteSet(Forking) /\ Forking \subseteq Jobs
  BY JobThreadsAssumption, FS_Subset DEF Forking
<1>2. ASSUME NEW t \in Jobs \ Forking
      PROVE  Cardinality(Forking) + 1 <= Cardinality(Jobs)
  <2>1. Cardinality(Forking \cup {t}) = Cardinality(Forking) + 1
    BY <1>1, FS_AddElement
  <2>2. Forking \cup {t} \subseteq Jobs
    BY <1>1
  <2> QED BY <2>1, <2>2, JobThreadsAssumption, FS_Subset
<1> QED BY <1>1, <1>2, JobThreadsAssumption, FS_CardinalityType

\* A thread that passes the gate joins the threads about to fork.
LEMMA JoinForking ==
  ASSUME TypeOK, NEW t \in Jobs, Goto(t, "gate", "name")
  PROVE  /\ t \notin Forking
         /\ Cardinality(Forking') = Cardinality(Forking) + 1
<1>1. t \notin Forking /\ Forking' = Forking \cup {t}
  BY DEF TypeOK, Goto, Forking
<1> QED BY <1>1, ForkingSize, FS_AddElement

\* A thread that has forked leaves them.
LEMMA LeaveForking ==
  ASSUME TypeOK, NEW t \in Jobs, Goto(t, "fork", "run")
  PROVE  Cardinality(Forking') = Cardinality(Forking) - 1
<1>1. t \in Forking /\ Forking' = Forking \ {t}
  BY DEF TypeOK, Goto, Forking
<1> QED BY <1>1, ForkingSize, FS_RemoveElement

\* The other steps of a thread leave the counted set alone.
LEMMA SameForking ==
  ASSUME TypeOK, NEW t \in Jobs,
         \/ Lock(t) \/ LockBackups(t) \/ Take(t) \/ Skip(t) \/ Leave(t)
         \/ Open(t) \/ OpenFails(t) \/ Finish(t) \/ Command(t) \/ Name(t)
  PROVE  Forking' = Forking /\ UNCHANGED <<active_backups, running, zombies, interrupted>>
<1> QED BY DEF TypeOK, Lock, LockBackups, Take, TakeEntry, Skip, Leave, Open, OpenFails,
               Finish, Command, Name, Goto, Forking, gateVars, children

\* The start: nobody has forked.
LEMMA InitBackups == Init => BackupsInv
<1> SUFFICES ASSUME Init PROVE BackupsInv
  OBVIOUS
<1>1. Forking = {}
  BY DEF Init, Forking
<1>2. Cardinality(Forking) = 0
  BY <1>1, FS_EmptySet
<1>3. ChildrenBounded /\ Counted
  BY <1>2, JobThreadsAssumption DEF Init, ChildrenBounded, Counted
<1> QED BY <1>3, InitDispatch DEF BackupsInv

\* Every step preserves the bound on the children and what the counter counts.
LEMMA NextBackups == BackupsInv /\ [Next]_vars => BackupsInv'
<1> SUFFICES ASSUME BackupsInv, [Next]_vars PROVE ChildrenBounded' /\ Counted'
  BY NextDispatch DEF BackupsInv
<1> USE JobThreadsAssumption, ForkingSize DEF BackupsInv, DispatchInv, gateVars, children
<1>0. /\ TypeOK /\ active_backups \in Nat
      /\ running \in Nat /\ zombies \in Nat /\ interrupted \in Nat
  BY DEF TypeOK
<1>1. ASSUME NEW t \in Jobs,
             \/ Lock(t) \/ LockBackups(t) \/ Take(t) \/ Skip(t) \/ Leave(t)
             \/ Open(t) \/ OpenFails(t) \/ Finish(t) \/ Command(t) \/ Name(t)
      PROVE ChildrenBounded' /\ Counted'
  BY <1>1, SameForking DEF ChildrenBounded, Counted
<1>2. ASSUME NEW t \in Jobs, Count(t) PROVE ChildrenBounded' /\ Counted'
  <2>1. Cardinality(Forking') = Cardinality(Forking) + 1
    BY <1>2, JoinForking DEF Count
  <2> QED BY <1>0, <1>2, <2>1 DEF Count, Counted, ChildrenBounded
<1>3. ASSUME NEW t \in Jobs, WaitChild(t) PROVE ChildrenBounded' /\ Counted'
  <2>1. /\ t \notin Forking
        /\ Cardinality(Forking') = Cardinality(Forking) + 1
    BY <1>3, JoinForking DEF WaitChild
  <2>2. Counted'
    BY <1>0, <1>3 DEF WaitChild, Counted
  <2>3. CASE zombies > 0 /\ zombies' = zombies - 1
    BY <1>0, <1>3, <2>1, <2>2, <2>3 DEF WaitChild, WaitAny, ChildrenBounded
  <2>4. CASE running + zombies = 0 /\ UNCHANGED zombies
    <3>1. Cardinality(Forking) + 1 <= Cardinality(Jobs)
      BY <2>1
    <3>2. running' + zombies' = 0
      BY <1>3, <2>4 DEF WaitChild, WaitAny
    <3>3. running' + zombies' + Cardinality(Forking') <= Cardinality(Jobs)
      BY <2>1, <3>1, <3>2
    <3>4. interrupted' = interrupted /\ Cardinality(Jobs)' = Cardinality(Jobs)
      BY <1>3 DEF WaitChild, WaitAny
    <3>5. Cardinality(Jobs) <= Cardinality(Jobs) + interrupted
      BY <1>0
    <3>6. running' + zombies' + Cardinality(Forking') <= Cardinality(Jobs) + interrupted
      BY <1>0, <2>1, <3>2, <3>3, <3>5
    <3> QED BY <2>2, <3>4, <3>6 DEF ChildrenBounded
  <2> QED BY <1>3, <2>3, <2>4 DEF WaitChild, WaitAny
<1>4. ASSUME NEW t \in Jobs, Fork(t) PROVE ChildrenBounded' /\ Counted'
  <2>1. Cardinality(Forking') = Cardinality(Forking) - 1
    BY <1>4, LeaveForking DEF Fork
  <2>2. running' \in {running, running + 1} /\ zombies' = zombies
    BY <1>4 DEF Fork
  <2>3. active_backups' = active_backups /\ interrupted' = interrupted
    BY <1>4 DEF Fork
  <2>4. running' + zombies' + Cardinality(Forking')
          <= running + zombies + Cardinality(Forking)
    BY <1>0, <2>1, <2>2
  <2>5. running' + zombies' + Cardinality(Forking') \in Int
    BY <1>0, <2>1, <2>2
  <2>6. ChildrenBounded'
    BY <1>0, <2>3, <2>4, <2>5 DEF ChildrenBounded
  <2>7. Counted'
    BY <1>0, <2>3, <2>4, <2>5 DEF Counted
  <2> QED BY <2>6, <2>7
<1>5. CASE ChildExits \/ Leak \/ Release
  <2>1. Forking' = Forking
    BY <1>5 DEF ChildExits, Leak, Release, Forking
  <2>2. running' + zombies' = running + zombies
    BY <1>0, <1>5 DEF ChildExits, Leak, Release
  <2> QED BY <1>5, <2>1, <2>2 DEF ChildExits, Leak, Release, ChildrenBounded, Counted
<1>6. CASE UNCHANGED vars
  <2>1. Forking' = Forking
    BY <1>6 DEF vars, Forking
  <2> QED BY <1>6, <2>1 DEF vars, ChildrenBounded, Counted
<1>7. ASSUME NEW t \in Jobs, WaitInterrupted(t) PROVE ChildrenBounded' /\ Counted'
  <2>1. Cardinality(Forking') = Cardinality(Forking) + 1
    BY <1>7, JoinForking DEF WaitInterrupted
  <2>2. /\ interrupted' = interrupted + 1 /\ running' = running /\ zombies' = zombies
        /\ active_backups' = active_backups /\ active_backups >= max_backups
    BY <1>7 DEF WaitInterrupted
  <2> QED BY <1>0, <2>1, <2>2 DEF Counted, ChildrenBounded
<1> QED BY <1>1, <1>2, <1>3, <1>4, <1>5, <1>6, <1>7 DEF Next, Step, Terminated

\* The children of all jobs together, whatever forks fail, are at most
\* max_backups or at most the job threads, but for the waits that signals ended.
THEOREM BackupsBounded == Spec => []ChildrenBounded
<1>1. BackupsInv => ChildrenBounded
  BY DEF BackupsInv
<1> QED BY <1>1, InitBackups, NextBackups, PTL DEF Spec

-----------------------------------------------------------------------------
(* No job file is forgotten.                                               *)

\* readdir returns every file: the directory has as many entries as files.
LEMMA DirectoryComplete ==
  ASSUME TypeOK, EntryOfItsOwn
  PROVE  \A f \in Files : \E i \in 1 .. Entries : dir[i] = f
<1>1. IsFiniteSet(1 .. Entries) /\ Cardinality(1 .. Entries) = Cardinality(Files)
  BY EntriesNat, FS_Interval DEF Entries
<1>2. dir \in Injection(1 .. Entries, Files)
  BY DEF TypeOK, EntryOfItsOwn, Injection, IsInjective
<1>3. dir \in Surjection(1 .. Entries, Files)
  BY <1>1, <1>2, JobThreadsAssumption, FS_Injection
<1> QED BY <1>3 DEF Surjection

AccountInv == DispatchInv /\ Accounted

\* The start: nothing was taken and nobody has ended.
LEMMA InitAccounted == Init => Accounted
<1> QED BY EntriesNat, JobThreadsAssumption
        DEF Init, Accounted, RanWereRead, HeldNotRun, EndedAtFile, EntriesApart,
            EachWithThread, TakenAndNotRun, HasFile, Holding, Running

\* Every step keeps the account of the files taken and not run.
LEMMA NextAccounted == AccountInv /\ [Next]_vars => Accounted'
<1> SUFFICES ASSUME AccountInv, [Next]_vars PROVE Accounted'
  OBVIOUS
<1> USE EntriesNat, JobThreadsAssumption
    DEF AccountInv, DispatchInv, Accounted, TypeOK, Goto, Holding, Running, dirVars,
        gateVars, children
<1>1. ASSUME NEW t \in Jobs, Lock(t) \/ LockBackups(t) PROVE Accounted'
  <2> USE <1>1 DEF Lock, LockBackups
  <2>1. RanWereRead'
    BY DEF RanWereRead, EntryOfItsOwn
  <2>2. HeldNotRun'
    BY DEF HeldNotRun, RanWereRead, EntryOfItsOwn
  <2>3. pos' < Entries' => pos < Entries
    OBVIOUS
  <2>4. ASSUME pos < Entries, pos' < Entries PROVE EndedAtFile'
    BY <2>4 DEF EndedAtFile, TakenAndNotRun, HeldNotRun, EntryOfItsOwn
  <2>5. ASSUME pos < Entries, pos' < Entries PROVE EntriesApart'
    BY <2>5 DEF EntriesApart, HasFile, EndedAtFile, EntryOfItsOwn
  <2>6. ASSUME pos < Entries, pos' < Entries PROVE EachWithThread'
    BY <2>6 DEF EachWithThread, TakenAndNotRun, HasFile
  <2> QED BY <2>1, <2>2, <2>3, <2>4, <2>5, <2>6 DEF Entries
<1>2. ASSUME NEW t \in Jobs, Take(t) PROVE Accounted'
  <2> USE <1>2 DEF Take, TakeEntry
  <2>1. RanWereRead'
    BY DEF RanWereRead, EntryOfItsOwn
  <2>2. HeldNotRun'
    BY DEF HeldNotRun, RanWereRead, EntryOfItsOwn
  <2>3. pos' < Entries' => pos < Entries
    OBVIOUS
  <2>4. ASSUME pos < Entries, pos' < Entries PROVE EndedAtFile'
    BY <2>4 DEF EndedAtFile, TakenAndNotRun, HeldNotRun, EntryOfItsOwn
  <2>5. ASSUME pos < Entries, pos' < Entries PROVE EntriesApart'
    BY <2>5 DEF EntriesApart, HasFile, EndedAtFile, EntryOfItsOwn
  <2>6. ASSUME pos < Entries, pos' < Entries PROVE EachWithThread'
    BY <2>6 DEF EachWithThread, TakenAndNotRun, HasFile
  <2> QED BY <2>1, <2>2, <2>3, <2>4, <2>5, <2>6 DEF Entries
<1>3. ASSUME NEW t \in Jobs, Skip(t) PROVE Accounted'
  <2> USE <1>3 DEF Skip
  <2>1. RanWereRead'
    BY DEF RanWereRead, EntryOfItsOwn
  <2>2. HeldNotRun'
    BY DEF HeldNotRun, RanWereRead, EntryOfItsOwn
  <2>3. pos' < Entries' => pos < Entries
    OBVIOUS
  <2>4. ASSUME pos < Entries, pos' < Entries PROVE EndedAtFile'
    BY <2>4 DEF EndedAtFile, TakenAndNotRun, HeldNotRun, EntryOfItsOwn
  <2>5. ASSUME pos < Entries, pos' < Entries PROVE EntriesApart'
    BY <2>5 DEF EntriesApart, HasFile, EndedAtFile, EntryOfItsOwn
  <2>6. ASSUME pos < Entries, pos' < Entries PROVE EachWithThread'
    BY <2>6 DEF EachWithThread, TakenAndNotRun, HasFile
  <2> QED BY <2>1, <2>2, <2>3, <2>4, <2>5, <2>6 DEF Entries
<1>4. ASSUME NEW t \in Jobs, Leave(t) PROVE Accounted'
  BY <1>4 DEF Leave, RanWereRead, HeldNotRun, Entries
<1>5. ASSUME NEW t \in Jobs, OpenFails(t) PROVE Accounted'
  <2> USE <1>5 DEF OpenFails
  <2>1. RanWereRead'
    BY DEF RanWereRead, EntryOfItsOwn
  <2>2. HeldNotRun'
    BY DEF HeldNotRun, RanWereRead, EntryOfItsOwn
  <2>3. pos' < Entries' => pos < Entries
    OBVIOUS
  <2>4. ASSUME pos < Entries, pos' < Entries PROVE EndedAtFile'
    BY <2>4 DEF EndedAtFile, TakenAndNotRun, HeldNotRun, EntryOfItsOwn
  <2>5. ASSUME pos < Entries, pos' < Entries PROVE EntriesApart'
    BY <2>5 DEF EntriesApart, HasFile, EndedAtFile, EntryOfItsOwn
  <2>6. ASSUME pos < Entries, pos' < Entries PROVE EachWithThread'
    BY <2>6 DEF EachWithThread, TakenAndNotRun, HasFile
  <2> QED BY <2>1, <2>2, <2>3, <2>4, <2>5, <2>6 DEF Entries
<1>6. ASSUME NEW t \in Jobs, Finish(t) PROVE Accounted'
  <2> USE <1>6 DEF Finish
  <2>1. RanWereRead'
    <3>1. entry[t] \in 1 .. pos /\ path[t] = dir[entry[t]]
      BY DEF EntryOfItsOwn
    <3> QED BY <3>1 DEF RanWereRead
  <2>2. HeldNotRun'
    BY DEF HeldNotRun, RanWereRead, EntryOfItsOwn
  <2>3. pos' < Entries' => pos < Entries
    OBVIOUS
  <2>4. ASSUME pos < Entries, pos' < Entries PROVE EndedAtFile'
    BY <2>4 DEF EndedAtFile, TakenAndNotRun, EntriesApart, HasFile, EntryOfItsOwn
  <2>5. ASSUME pos < Entries, pos' < Entries PROVE EntriesApart'
    BY <2>5 DEF EntriesApart, HasFile, EndedAtFile, EntryOfItsOwn
  <2>6. ASSUME pos < Entries, pos' < Entries PROVE EachWithThread'
    BY <2>6 DEF EachWithThread, TakenAndNotRun, HasFile
  <2> QED BY <2>1, <2>2, <2>3, <2>4, <2>5, <2>6 DEF Entries
<1>7. ASSUME NEW t \in Jobs,
             \/ Open(t) \/ Command(t) \/ Count(t) \/ WaitChild(t) \/ WaitInterrupted(t)
             \/ Name(t) \/ Fork(t)
      PROVE  Accounted'
  <2>1. /\ pc[t] \in Holding /\ \E to \in Running : pc' = [pc EXCEPT ![t] = to]
        /\ UNCHANGED <<dir, pos, entry, path, started, ran>>
    BY <1>7 DEF Open, Command, Count, WaitChild, WaitInterrupted, Name, Fork
  <2>2. /\ \A u \in Jobs : pc'[u] \in Holding <=> pc[u] \in Holding
        /\ \A u \in Jobs : pc'[u] = "done" <=> pc[u] = "done"
    BY <2>1
  <2>3. RanWereRead' /\ HeldNotRun'
    BY <2>1, <2>2 DEF RanWereRead, HeldNotRun
  <2>4. ASSUME pos < Entries PROVE EndedAtFile' /\ EntriesApart' /\ EachWithThread'
    BY <2>1, <2>2, <2>4 DEF EndedAtFile, EntriesApart, EachWithThread, TakenAndNotRun, HasFile
  <2> QED BY <2>1, <2>3, <2>4 DEF Entries
<1>8. CASE ChildExits \/ Leak \/ Release \/ UNCHANGED vars
  <2> USE <1>8 DEF ChildExits, Leak, Release, vars
  <2>1. RanWereRead'
    BY DEF RanWereRead, EntryOfItsOwn
  <2>2. HeldNotRun'
    BY DEF HeldNotRun, RanWereRead, EntryOfItsOwn
  <2>3. pos' < Entries' => pos < Entries
    OBVIOUS
  <2>4. ASSUME pos < Entries, pos' < Entries PROVE EndedAtFile'
    BY <2>4 DEF EndedAtFile, TakenAndNotRun, HeldNotRun, EntryOfItsOwn
  <2>5. ASSUME pos < Entries, pos' < Entries PROVE EntriesApart'
    BY <2>5 DEF EntriesApart, HasFile, EndedAtFile, EntryOfItsOwn
  <2>6. ASSUME pos < Entries, pos' < Entries PROVE EachWithThread'
    BY <2>6 DEF EachWithThread, TakenAndNotRun, HasFile
  <2> QED BY <2>1, <2>2, <2>3, <2>4, <2>5, <2>6 DEF Entries
<1> QED BY <1>1, <1>2, <1>3, <1>4, <1>5, <1>6, <1>7, <1>8 DEF Next, Step, Terminated

\* When all threads have ended before the end of the directory, each did so at a
\* file of its own, and these are the files taken and not run.
LEMMA EndedAtFiles ==
  ASSUME AccountInv, pos < Entries, \A t \in Jobs : pc[t] = "done"
  PROVE  Cardinality(TakenAndNotRun) = Cardinality(Jobs)
<1> DEFINE at == [t \in Jobs |-> path[t]]
<1> USE EntriesNat DEF AccountInv, DispatchInv
<1>1. ASSUME NEW t \in Jobs PROVE at[t] \in TakenAndNotRun
  BY DEF Accounted, EndedAtFile
<1>2. ASSUME NEW t \in Jobs, NEW u \in Jobs, t # u PROVE at[t] # at[u]
  <2>1. entry[t] # entry[u] /\ entry[t] \in 1 .. pos /\ entry[u] \in 1 .. pos
        /\ path[t] = dir[entry[t]] /\ path[u] = dir[entry[u]]
    BY <1>2 DEF Accounted, EndedAtFile, EntriesApart, HasFile
  <2> QED BY <2>1 DEF EntryOfItsOwn, TypeOK
<1>3. \A f \in TakenAndNotRun : \E t \in Jobs : at[t] = f
  BY DEF Accounted, EachWithThread
<1>4. ExistsBijection(Jobs, TakenAndNotRun)
  <2>1. at \in Bijection(Jobs, TakenAndNotRun)
    BY <1>1, <1>2, <1>3 DEF Bijection, Injection, IsInjective, Surjection
  <2> QED BY <2>1 DEF ExistsBijection
<1> QED BY <1>4, JobThreadsAssumption, FS_Bijection

\* When the job threads have ended every job file has been taken, unless its
\* name was cut off in the buffer or every thread ended at a file that it could
\* not open.
THEOREM NoJobLeftBehind == Spec => []NoJobForgotten
<1>1. AccountInv => NoJobForgotten
  <2> SUFFICES ASSUME AccountInv, \A t \in Jobs : pc[t] = "done",
                      Cardinality(TakenAndNotRun) # Cardinality(Jobs)
               PROVE  \A f \in JobFiles : started[f] = 1 \/ \E i \in cut : dir[i] = f
    BY DEF NoJobForgotten
  <2>1. pos = Entries
    BY EndedAtFiles, EntriesNat DEF AccountInv, DispatchInv, TypeOK
  <2>2. ASSUME NEW f \in JobFiles PROVE started[f] = 1 \/ \E i \in cut : dir[i] = f
    <3>1. f \in Files /\ started[f] \in Nat
      BY JobThreadsAssumption DEF AccountInv, DispatchInv, TypeOK
    <3>2. PICK i \in 1 .. pos : dir[i] = f
      BY <2>1, <3>1, DirectoryComplete DEF AccountInv, DispatchInv
    <3>3. started[f] <= 1
      BY <3>1, <3>2 DEF AccountInv, DispatchInv, EachJobOnce
    <3>4. started[f] = 0 => i \in cut
      BY <3>2 DEF AccountInv, DispatchInv, EachJobOnce
    <3> QED BY <3>1, <3>2, <3>3, <3>4
  <2> QED BY <2>2
<1>2. AccountInv /\ [Next]_vars => AccountInv'
  BY NextDispatch, NextAccounted DEF AccountInv
<1>3. Init => AccountInv
  BY InitDispatch, InitAccounted DEF AccountInv
<1> QED BY <1>1, <1>2, <1>3, PTL DEF Spec

-----------------------------------------------------------------------------
(* The name of a backup.                                                   *)

\* A thread's last backup is named after its own file, or readdir has gone on to
\* another block of the directory since the thread took its file.
LEMMA NextNamed ==
  DispatchInv /\ DispatchInv' /\ BackupNamedUnlessRefilled /\ [Next]_vars
    => BackupNamedUnlessRefilled'
<1> SUFFICES ASSUME DispatchInv, DispatchInv', BackupNamedUnlessRefilled, [Next]_vars
             PROVE  BackupNamedUnlessRefilled'
  OBVIOUS
<1> USE EntriesNat, JobThreadsAssumption DEF DispatchInv
<1>1. \A t \in Jobs : pc[t] \in Running =>
        /\ entry[t] \in 1 .. pos /\ path[t] = dir[entry[t]] /\ pos \in Nat
        /\ Block(entry[t]) \in Nat /\ Block(pos) \in Nat /\ Block(entry[t]) <= Block(pos)
  BY BlocksInOrder DEF EntryOfItsOwn, TypeOK, Holding
<1>2. ASSUME NEW t \in Jobs, Take(t) \/ Skip(t) PROVE BackupNamedUnlessRefilled'
  <2>1. /\ pos \in Nat /\ pos' = pos + 1 /\ bck_name' = bck_name
        /\ \A u \in Jobs : pc'[u] \in Running =>
              pc[u] \in Running /\ path'[u] = path[u] /\ entry'[u] = entry[u]
    <3>1. CASE Take(t)
      BY <3>1 DEF Take, TakeEntry, Goto, Running, TypeOK
    <3>2. CASE Skip(t)
      BY <3>2 DEF Skip, TypeOK
    <3> QED BY <1>2, <3>1, <3>2
  <2>2. ASSUME NEW u \in Jobs, pc[u] \in Running PROVE Block(pos) <= Block(pos + 1)
                                                    /\ Block(pos + 1) \in Nat
    <3>1. pos >= 1
      BY <1>1, <2>1, <2>2
    <3> QED BY <2>1, <3>1, BlocksInOrder
  <2>3. \A i : Block(i)' = Block(i)
    BY DEF Block
  <2> QED BY <1>1, <2>1, <2>2, <2>3 DEF BackupNamedUnlessRefilled
<1>3. ASSUME NEW t \in Jobs, Open(t) PROVE BackupNamedUnlessRefilled'
  <2>1. /\ bck_name' = [bck_name EXCEPT ![t] = NoFile]
        /\ pc' = [pc EXCEPT ![t] = "run"] /\ UNCHANGED <<pos, path, entry>>
    BY <1>3 DEF Open, Goto, dirVars
  <2> QED BY <2>1 DEF BackupNamedUnlessRefilled, Block, TypeOK, Running
<1>4. ASSUME NEW t \in Jobs, Name(t) PROVE BackupNamedUnlessRefilled'
  <2>1. /\ pc[t] = "name" /\ pc' = [pc EXCEPT ![t] = "fork"]
        /\ UNCHANGED <<pos, path, entry>>
        /\ \E i \in Named(t) : bck_name' = [bck_name EXCEPT ![t] = dir[i]]
    BY <1>4 DEF Name, Goto
  <2>2. pc[t] \in Running /\ \A u \in Jobs : pc'[u] \in Running => pc[u] \in Running
    BY <2>1 DEF Running, TypeOK
  <2>3. \A i \in Named(t) : dir[i] = path[t] \/ Block(pos) > Block(entry[t])
    <3>1. entry[t] \in 1 .. Entries
      BY <1>1, <2>2 DEF TypeOK
    <3>2. entry[t] \notin Loaded(pos) => Block(entry[t]) # Block(pos)
      BY <1>1, <2>2, <3>1 DEF Loaded
    <3> QED BY <1>1, <2>2, <3>2 DEF Named
  <2>4. \A i : Block(i)' = Block(i)
    BY DEF Block
  <2>5. bck_name \in [Jobs -> Files \cup {NoFile}]
    BY DEF TypeOK
  <2> QED BY <2>1, <2>2, <2>3, <2>4, <2>5 DEF BackupNamedUnlessRefilled
<1>5. ASSUME NEW t \in Jobs,
             \/ Lock(t) \/ LockBackups(t) \/ Leave(t) \/ OpenFails(t) \/ Finish(t)
             \/ Command(t) \/ Count(t) \/ WaitChild(t) \/ WaitInterrupted(t) \/ Fork(t)
      PROVE  BackupNamedUnlessRefilled'
  <2>1. /\ UNCHANGED <<pos, path, entry, bck_name>>
        /\ \A u \in Jobs : pc'[u] \in Running => pc[u] \in Running
    BY <1>5 DEF Lock, LockBackups, Leave, OpenFails, Finish, Command, Count, WaitChild,
                WaitInterrupted, Fork, Goto, dirVars, Running, TypeOK
  <2> QED BY <2>1 DEF BackupNamedUnlessRefilled, Block
<1>6. CASE ChildExits \/ Leak \/ Release \/ UNCHANGED vars
  BY <1>6 DEF ChildExits, Leak, Release, vars, dirVars, BackupNamedUnlessRefilled, Block
<1> QED BY <1>2, <1>3, <1>4, <1>5, <1>6 DEF Next, Step, Terminated

\* A backup is named after the job file that asked for it, for as long as readdir
\* has not filled the stream's buffer again, for every size of that buffer.
THEOREM BackupsNamedByJob == Spec => []BackupNamedUnlessRefilled
<1>1. Init => BackupNamedUnlessRefilled
  BY DEF Init, BackupNamedUnlessRefilled, Running
<1> QED BY <1>1, DispatchInvariant, NextNamed, PTL DEF Spec
=============================================================================
