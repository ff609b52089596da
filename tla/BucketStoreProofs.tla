------------------------- MODULE BucketStoreProofs -------------------------
(***************************************************************************)
(* Proofs about BucketStore, for any set of threads, any commands, any     *)
(* number of buckets and every hash function.                              *)
(***************************************************************************)
EXTENDS BucketStore, FiniteSetTheorems, SequenceTheorems, WellFoundedInduction, TLAPS

\* The start: no lock is held.
LEMMA InitLocks == Init => LockInv
<1> SUFFICES ASSUME Init PROVE LockInv
  OBVIOUS
<1> USE BucketAssumption, TrackerAssumption DEF Init
<1>1. LockTypes
  BY DEF LockTypes
<1>2. \A t \in Jobs : Held(t) = {}
  BY DEF Held
<1>3. HeldInMode /\ BatchLocked
  BY <1>2 DEF HeldInMode, BatchLocked
<1> QED BY <1>1, <1>3 DEF LockInv

\* A step that leaves the locks and the command alone, and that goes to the
\* batch neither without its locks nor from outside, keeps the invariant.
LEMMA KeepsLocks ==
  ASSUME LockInv, NEW t \in Jobs, UNCHANGED <<wr, rd>>,
         NEW label \in {"idle", "body", "unlock", "gate", "wait", "dec", "fork", "inc"},
         NEW c \in Commands \cup {NoCommand},
         pc' = [pc EXCEPT ![t] = label],
         cmd' = [cmd EXCEPT ![t] = c],
         label = "body" => pc[t] = "body" /\ c = cmd[t],
         label \notin {"body", "unlock"} => Held(t) = {}
  PROVE  LockInv'
<1> USE DEF LockInv, LockTypes
<1>1. LockTypes'
  OBVIOUS
<1>2. \A u \in Jobs : Held(u)' = Held(u)
  BY DEF Held
<1>3. HeldInMode'
  BY <1>2 DEF HeldInMode, Writes
<1>4. BatchLocked'
  BY DEF BatchLocked, Writes
<1> QED BY <1>1, <1>3, <1>4

\* Every step preserves the invariant.
LEMMA NextLocks == LockInv /\ [Next]_vars => LockInv'
<1> SUFFICES ASSUME LockInv, [Next]_vars PROVE LockInv'
  OBVIOUS
<1> USE DEF LockInv
<1>1. ASSUME NEW t \in Jobs, NEW c \in Commands, Command(t, c) PROVE LockInv'
  <2>1. /\ pc[t] = "idle" /\ pc' = [pc EXCEPT ![t] = "lock"]
        /\ cmd' = [cmd EXCEPT ![t] = c] /\ wr' = wr /\ rd' = rd
    BY <1>1 DEF Command, Goto, lockVars
  <2>2. LockTypes'
    BY <2>1 DEF LockTypes
  <2>3. \A u \in Jobs : Held(u)' = Held(u)
    BY <2>1 DEF Held
  <2>4. Held(t) = {}
    BY <2>1 DEF HeldInMode
  <2>5. HeldInMode'
    BY <2>1, <2>3, <2>4 DEF HeldInMode, Writes, LockTypes
  <2>6. BatchLocked'
    BY <2>1 DEF BatchLocked, Writes, LockTypes
  <2> QED BY <2>2, <2>5, <2>6
<1>2. ASSUME NEW t \in Jobs, NEW b \in Buckets, Lock(t, b) PROVE LockInv'
  <2>1. /\ pc[t] = "lock" /\ cmd' = cmd
        /\ wr[b] = NoThread
        /\ \/ /\ Writes(t) /\ rd[b] = {}
              /\ wr' = [wr EXCEPT ![b] = t] /\ rd' = rd
           \/ /\ ~Writes(t)
              /\ rd' = [rd EXCEPT ![b] = @ \cup {t}] /\ wr' = wr
        /\ \/ /\ boolean_locks(cmd[t]) = Held(t) \cup {b}
              /\ pc' = [pc EXCEPT ![t] = "body"]
           \/ pc' = pc
    BY <1>2 DEF Lock, Goto, batchVars
  <2>2. LockTypes'
    BY <2>1 DEF LockTypes
  <2>3. \A u \in Jobs : u # t => Held(u)' = Held(u)
    BY <2>1, BucketAssumption, TrackerAssumption DEF Held, LockTypes
  <2>4. Held(t)' = Held(t) \cup {b}
    BY <2>1, BucketAssumption, TrackerAssumption DEF Held, LockTypes
  <2>5. \A u \in Jobs : u # t => \A x \in Held(u) : x # b \/ u \in rd[b]
    BY <2>1, BucketAssumption, TrackerAssumption DEF Held
  <2>6. \A u \in Jobs : Writes(u)' = Writes(u)
    BY <2>1 DEF Writes
  <2>7. HeldInMode'
    <3>1. ASSUME NEW u \in Jobs, u # t, pc[u] \in {"lock", "body"}, NEW x \in Held(u)
          PROVE  IF Writes(u) THEN wr'[x] = u ELSE u \in rd'[x]
      <4>1. x \in Buckets /\ IF Writes(u) THEN wr[x] = u ELSE u \in rd[x]
        BY <3>1 DEF HeldInMode, Held
      <4>2. Writes(u) => x # b
        BY <4>1, <2>1, BucketAssumption, TrackerAssumption
      <4> QED BY <4>1, <4>2, <2>1 DEF LockTypes
    <3>2. ASSUME NEW x \in Held(t)
          PROVE  IF Writes(t) THEN wr'[x] = t ELSE t \in rd'[x]
      <4>1. x \in Buckets /\ IF Writes(t) THEN wr[x] = t ELSE t \in rd[x]
        BY <3>2, <2>1 DEF HeldInMode, Held
      <4> QED BY <4>1, <2>1 DEF LockTypes
    <3>3. IF Writes(t) THEN wr'[b] = t ELSE t \in rd'[b]
      BY <2>1 DEF LockTypes
    <3>4. pc'[t] \in {"lock", "body"} /\ \A u \in Jobs : u # t => pc'[u] = pc[u]
      BY <2>1 DEF LockTypes
    <3>5. pc'[t] = "body" => Held(t)' = boolean_locks(cmd'[t])
      BY <2>1, <2>4
    <3>6. \A u \in Jobs : pc'[u] \in {"lock", "body"} =>
            \A x \in Held(u)' : IF Writes(u)' THEN wr'[x] = u ELSE u \in rd'[x]
      BY <3>1, <3>2, <3>3, <3>4, <2>3, <2>4, <2>6
    <3>7. \A u \in Jobs : /\ pc'[u] = "body" => Held(u)' = boolean_locks(cmd'[u])
                          /\ pc'[u] \notin {"lock", "body", "unlock"} => Held(u)' = {}
      BY <3>4, <3>5, <2>1, <2>3 DEF HeldInMode
    <3> QED BY <3>6, <3>7 DEF HeldInMode
  <2>8. \A x \in Buckets : wr'[x] # NoThread => rd'[x] = {}
    BY <2>1 DEF BatchLocked, LockTypes
  <2>9. BatchLocked'
    BY <2>7, <2>8, <2>2 DEF BatchLocked, HeldInMode
  <2> QED BY <2>2, <2>7, <2>9
<1>3. ASSUME NEW t \in Jobs, Unlock(t) PROVE LockInv'
  <2> DEFINE b == Min(Held(t))
  <2>1. /\ pc[t] = "unlock"
        /\ wr' = [wr EXCEPT ![b] = IF @ = t THEN NoThread ELSE @]
        /\ rd' = [rd EXCEPT ![b] = @ \ {t}]
        /\ \/ /\ Held(t) = {b}
              /\ pc' = [pc EXCEPT ![t] = "idle"]
              /\ cmd' = [cmd EXCEPT ![t] = NoCommand]
           \/ pc' = pc /\ cmd' = cmd
    BY <1>3 DEF Unlock, Goto
  <2> HIDE DEF b
  <2>2. LockTypes'
    BY <2>1 DEF LockTypes
  <2>3. \A u \in Jobs, x \in Buckets :
          u # t => (wr'[x] = u <=> wr[x] = u) /\ (u \in rd'[x] <=> u \in rd[x])
    BY <2>1, BucketAssumption, TrackerAssumption DEF LockTypes
  <2>4. \A u \in Jobs : u # t => Held(u)' = Held(u)
    BY <2>3 DEF Held
  <2>5. pc'[t] = "idle" => Held(t)' = {}
    <3>1. \A x \in Buckets : x # b /\ Held(t) = {b} => wr[x] # t /\ t \notin rd[x]
      BY DEF Held
    <3> QED BY <3>1, <2>1, BucketAssumption, TrackerAssumption DEF Held, LockTypes
  <2>6. HeldInMode'
    <3>1. ASSUME NEW u \in Jobs, u # t, pc[u] \in {"lock", "body"}, NEW x \in Held(u)
          PROVE  IF Writes(u) THEN wr'[x] = u ELSE u \in rd'[x]
      BY <3>1, <2>3 DEF HeldInMode, Held
    <3>2. pc'[t] \in {"idle", "unlock"}
      BY <2>1 DEF LockTypes
    <3>3. \A u \in Jobs : u # t => pc'[u] = pc[u] /\ cmd'[u] = cmd[u]
      BY <2>1 DEF LockTypes
    <3> QED BY <3>1, <3>2, <3>3, <2>4, <2>5 DEF HeldInMode, Writes
  <2>7. \A x \in Buckets : wr'[x] # NoThread => rd'[x] = {}
    BY <2>1 DEF BatchLocked, LockTypes
  <2>8. BatchLocked'
    BY <2>6, <2>7 DEF BatchLocked, HeldInMode
  <2> QED BY <2>2, <2>6, <2>8
<1>4. ASSUME UNCHANGED <<wr, rd, pc, cmd>> PROVE LockInv'
  BY <1>4 DEF LockTypes, HeldInMode, BatchLocked, Held, Writes
<1>5. ASSUME NEW t \in Jobs, Step(t), ~Unlock(t) PROVE LockInv'
  <2>1. CASE WritePair(t) \/ ReadPair(t) \/ DeletePair(t) \/ ShowBucket(t)
    BY <2>1, KeepsLocks
    DEF WritePair, ReadPair, DeletePair, ShowBucket, InBatch, lockVars, LockTypes
  <2>2. CASE BatchDone(t)
    BY <2>2, KeepsLocks DEF BatchDone, Goto, lockVars, batchVars, LockTypes
  <2>3. CASE Wait(t)
    <3>1. /\ pc[t] = "wait" /\ pc' = [pc EXCEPT ![t] = "dec"]
          /\ cmd' = cmd /\ UNCHANGED <<wr, rd>>
      BY <2>3 DEF Wait, Goto, lockVars, batchVars
    <3> QED BY <3>1, KeepsLocks DEF LockTypes, HeldInMode
  <2>4. CASE Track(t)
    <3>1. pc[t] = "fork" /\ pc' = pc /\ cmd' = cmd /\ UNCHANGED <<wr, rd>>
      BY <2>4 DEF Track, lockVars, batchVars
    <3> QED BY <3>1, <1>4
  <2>5. CASE Fork(t) \/ NotAJob(t) \/ DecStore(t) \/ IncLoad(t) \/ IncStore(t)
    <3>1. /\ pc[t] \in {"fork", "dec", "inc"}
          /\ \/ pc' = pc
             \/ pc' = [pc EXCEPT ![t] = "inc"]
             \/ pc' = [pc EXCEPT ![t] = "fork"]
             \/ pc' = [pc EXCEPT ![t] = "idle"]
          /\ cmd' = cmd \/ cmd' = [cmd EXCEPT ![t] = NoCommand]
          /\ UNCHANGED <<wr, rd>>
      BY <2>5 DEF Fork, NotAJob, DecStore, IncLoad, IncStore, Goto, lockVars, batchVars
    <3> QED BY <3>1, KeepsLocks DEF LockTypes, HeldInMode
  <2> QED BY <1>5, <2>1, <2>2, <2>3, <2>4, <2>5 DEF Step
<1>6. ASSUME NEW t \in Jobs, Gate(t) \/ DecLoad(t) \/ Backup(t) PROVE LockInv'
  <2>1. /\ pc[t] \in {"gate", "dec", "idle"}
        /\ \/ pc' = pc
           \/ pc' = [pc EXCEPT ![t] = "wait"]
           \/ pc' = [pc EXCEPT ![t] = "fork"]
           \/ pc' = [pc EXCEPT ![t] = "gate"]
        /\ cmd' = cmd \/ \E c \in Commands : cmd' = [cmd EXCEPT ![t] = c]
        /\ UNCHANGED <<wr, rd>>
    BY <1>6 DEF Gate, DecLoad, Backup, Goto, lockVars, batchVars
  <2> QED BY <2>1, KeepsLocks DEF LockTypes, HeldInMode
<1>7. ASSUME NEW i \in 1 .. MaxBackups, ChildPrints(i) PROVE LockInv'
  BY <1>4, <1>7 DEF ChildPrints, Ends, lockVars, batchVars
<1>8. ASSUME NEW t \in Jobs, gen_path(t) \/ \E f \in JobFiles : NextFile(t, f)
      PROVE  LockInv'
  BY <1>4, <1>8 DEF NextFile, gen_path, lockVars, batchVars
<1>9. CASE UNCHANGED vars
  BY <1>4, <1>9 DEF vars, lockVars, batchVars
<1> QED BY <1>1, <1>2, <1>3, <1>5, <1>6, <1>7, <1>8, <1>9 DEF Next, Acquire

\* LockInv is an invariant.
THEOREM LocksInvariant == Spec => []LockInv
<1> QED BY InitLocks, NextLocks, PTL DEF Spec

\* A thread works on a batch only with the locks of all its buckets, for writing
\* if it writes (lock_keys and its callers).
THEOREM LocksCoverBatch == Spec => []BatchLocked
<1>1. LockInv => BatchLocked
  BY DEF LockInv
<1> QED BY <1>1, LocksInvariant, PTL

-----------------------------------------------------------------------------
(* The order of a batch: compare_keys orders different keys, so qsort has   *)
(* one result; of equal keys the earlier one comes first.                   *)

\* The elements up to the i-th in order, itself included; Place counts them.
UpTo(s, i) == {j \in DOMAIN s : compare_keys(s[j], s[i]) \/ (s[j] = s[i] /\ j <= i)}

\* Of two elements one comes before the other.
LEMMA OnePrecedes ==
  ASSUME NEW s \in Seq(Keys), NEW i \in DOMAIN s, NEW j \in DOMAIN s, i # j
  PROVE  i \in UpTo(s, j) <=> j \notin UpTo(s, i)
<1>1. i \in Int /\ j \in Int /\ s[i] \in Keys /\ s[j] \in Keys
  BY LenProperties, ElementOfSeq
<1>2. rank[s[i]] \in Int /\ rank[s[j]] \in Int /\ (rank[s[i]] = rank[s[j]] => s[i] = s[j])
  BY <1>1, BucketAssumption
<1>3. i \in UpTo(s, j) <=> rank[s[i]] < rank[s[j]] \/ (s[i] = s[j] /\ i <= j)
  BY DEF UpTo, compare_keys
<1>4. j \in UpTo(s, i) <=> rank[s[j]] < rank[s[i]] \/ (s[i] = s[j] /\ j <= i)
  BY DEF UpTo, compare_keys
<1> QED BY <1>1, <1>2, <1>3, <1>4

\* What comes before an element comes before those behind it.
LEMMA PrecedesAll ==
  ASSUME NEW s \in Seq(Keys), NEW i \in DOMAIN s, NEW j \in DOMAIN s, i \in UpTo(s, j)
  PROVE  UpTo(s, i) \subseteq UpTo(s, j)
<1> SUFFICES ASSUME NEW n \in DOMAIN s, n \in UpTo(s, i) PROVE n \in UpTo(s, j)
  BY DEF UpTo
<1>1. /\ n \in Int /\ i \in Int /\ j \in Int
      /\ s[n] \in Keys /\ s[i] \in Keys /\ s[j] \in Keys
  BY LenProperties, ElementOfSeq
<1>2. rank[s[n]] \in Int /\ rank[s[i]] \in Int /\ rank[s[j]] \in Int
  BY <1>1, BucketAssumption
<1>3. i \in UpTo(s, j) <=> rank[s[i]] < rank[s[j]] \/ (s[i] = s[j] /\ i <= j)
  BY DEF UpTo, compare_keys
<1>4. n \in UpTo(s, i) <=> rank[s[n]] < rank[s[i]] \/ (s[n] = s[i] /\ n <= i)
  BY DEF UpTo, compare_keys
<1>5. n \in UpTo(s, j) <=> rank[s[n]] < rank[s[j]] \/ (s[n] = s[j] /\ n <= j)
  BY DEF UpTo, compare_keys
<1> QED BY <1>1, <1>2, <1>3, <1>4, <1>5

\* Place is the number of elements up to one.
LEMMA PlaceCounts ==
  ASSUME NEW s \in Seq(Keys), NEW i \in DOMAIN s
  PROVE  /\ IsFiniteSet(UpTo(s, i)) /\ Place(s, i) = Cardinality(UpTo(s, i))
         /\ Place(s, i) \in 1 .. Len(s)
<1>1. DOMAIN s = 1 .. Len(s) /\ Len(s) \in Nat
  BY LenProperties
<1>2. IsFiniteSet(1 .. Len(s)) /\ Cardinality(1 .. Len(s)) = Len(s)
  <2>1. 1 \in Int /\ Len(s) \in Int /\ (1 > Len(s) => Len(s) = 0) /\ Len(s) - 1 + 1 = Len(s)
    BY <1>1
  <2> QED BY <2>1, FS_Interval
<1>3. UpTo(s, i) \in SUBSET (1 .. Len(s))
  BY <1>1 DEF UpTo
<1>4. IsFiniteSet(UpTo(s, i)) /\ Cardinality(UpTo(s, i)) <= Len(s)
  BY <1>2, <1>3, FS_Subset
<1>5. i \in UpTo(s, i)
  BY <1>1 DEF UpTo
<1>6. Cardinality(UpTo(s, i)) \in Nat /\ Cardinality(UpTo(s, i)) # 0
  BY <1>4, <1>5, FS_CardinalityType, FS_EmptySet
<1> QED BY <1>1, <1>4, <1>6 DEF Place, UpTo

\* What comes before something else has a smaller place.
LEMMA PlaceOrders ==
  ASSUME NEW s \in Seq(Keys), NEW i \in DOMAIN s, NEW j \in DOMAIN s, i # j, i \in UpTo(s, j)
  PROVE  Place(s, i) < Place(s, j)
<1>1. UpTo(s, i) \in SUBSET UpTo(s, j)
  BY PrecedesAll
<1>2. j \notin UpTo(s, i) /\ j \in UpTo(s, j)
  BY OnePrecedes, LenProperties DEF UpTo
<1>3. Cardinality(UpTo(s, i)) <= Cardinality(UpTo(s, j))
  BY <1>1, PlaceCounts, FS_Subset
<1>4. Cardinality(UpTo(s, i)) # Cardinality(UpTo(s, j))
  BY <1>1, <1>2, PlaceCounts, FS_Subset
<1> QED BY <1>3, <1>4, PlaceCounts

\* qsort permutes the keys: every place is taken by one of them.
LEMMA PlacesTaken ==
  ASSUME NEW s \in Seq(Keys), NEW n \in 1 .. Len(s)
  PROVE  \E i \in 1 .. Len(s) : Place(s, i) = n
<1> DEFINE D == 1 .. Len(s)
           p == [i \in D |-> Place(s, i)]
<1>1. DOMAIN s = D /\ Len(s) \in Nat /\ IsFiniteSet(D)
  BY LenProperties, FS_Interval
<1>2. p \in [D -> D]
  BY <1>1, PlaceCounts
<1>3. \A i, j \in D : p[i] = p[j] => i = j
  <2>1. ASSUME NEW i \in D, NEW j \in D, i # j PROVE Place(s, i) # Place(s, j)
    <3>1. i \in UpTo(s, j) \/ j \in UpTo(s, i)
      BY <1>1, <2>1, OnePrecedes
    <3>2. Place(s, i) < Place(s, j) \/ Place(s, j) < Place(s, i)
      BY <1>1, <2>1, <3>1, PlaceOrders
    <3> QED BY <1>1, <3>2, PlaceCounts
  <2> QED BY <2>1
<1> HIDE DEF p
<1>4. p \in Injection(D, D)
  BY <1>2, <1>3 DEF Injection, IsInjective
<1>5. p \in Surjection(D, D)
  BY <1>1, <1>4, FS_Injection
<1>6. \E i \in D : p[i] = n
  BY <1>5 DEF Surjection
<1> QED BY <1>6 DEF p

\* Sorted is a sequence of the same keys, in the order of compare_keys.
LEMMA SortedKeys ==
  ASSUME NEW s \in Seq(Keys)
  PROVE  /\ Sorted(s) \in Seq(Keys) /\ Len(Sorted(s)) = Len(s)
         /\ \A n \in 1 .. Len(s) : \E i \in 1 .. Len(s) : Place(s, i) = n /\ Sorted(s)[n] = s[i]
         /\ \A i \in 1 .. Len(s) : Sorted(s)[Place(s, i)] = s[i]
         /\ \A m, n \in 1 .. Len(s) : m < n => ~compare_keys(Sorted(s)[n], Sorted(s)[m])
<1> DEFINE at(n) == CHOOSE i \in DOMAIN s : Place(s, i) = n
<1>1. DOMAIN s = 1 .. Len(s) /\ Len(s) \in Nat /\ \A i \in 1 .. Len(s) : s[i] \in Keys
  BY LenProperties, ElementOfSeq
<1>2. \A n \in 1 .. Len(s) : at(n) \in 1 .. Len(s) /\ Place(s, at(n)) = n
  BY <1>1, PlacesTaken
<1>3. Sorted(s) = [n \in 1 .. Len(s) |-> s[at(n)]]
  BY <1>1 DEF Sorted
<1> HIDE DEF at
<1>4. \A n \in 1 .. Len(s) : Sorted(s)[n] = s[at(n)] /\ s[at(n)] \in Keys
  BY <1>1, <1>2, <1>3
<1>5. Sorted(s) \in [1 .. Len(s) -> Keys]
  BY <1>3, <1>4
<1>6. Sorted(s) \in Seq(Keys) /\ Len(Sorted(s)) = Len(s)
  <2>1. Sorted(s) \in Seq(Keys)
    BY <1>1, <1>5, SeqDef
  <2> QED BY <1>1, <1>5, <2>1, LenProperties
<1>7. ASSUME NEW i \in 1 .. Len(s), NEW j \in 1 .. Len(s), Place(s, i) < Place(s, j)
      PROVE  ~compare_keys(s[j], s[i])
  <2>1. Place(s, i) \in Int /\ Place(s, j) \in Int
    BY <1>1, PlaceCounts
  <2>2. j # i /\ j \notin UpTo(s, i)
    BY <1>1, <1>7, <2>1, PlaceOrders
  <2> QED BY <1>1, <2>2 DEF UpTo
<1>8. \A m, n \in 1 .. Len(s) : m < n => ~compare_keys(Sorted(s)[n], Sorted(s)[m])
  BY <1>2, <1>4, <1>7
<1>9. ASSUME NEW i \in 1 .. Len(s) PROVE Sorted(s)[Place(s, i)] = s[i]
  <2>1. Place(s, i) \in 1 .. Len(s)
    BY <1>1, PlaceCounts
  <2>2. at(Place(s, i)) \in 1 .. Len(s) /\ Place(s, at(Place(s, i))) = Place(s, i)
    BY <1>2, <2>1
  <2>3. at(Place(s, i)) = i
    <3> SUFFICES ASSUME NEW j \in 1 .. Len(s), Place(s, j) = Place(s, i), j # i PROVE FALSE
      BY <2>2
    <3>1. i \in UpTo(s, j) \/ j \in UpTo(s, i)
      BY <1>1, OnePrecedes
    <3>2. Place(s, i) < Place(s, j) \/ Place(s, j) < Place(s, i)
      BY <1>1, <3>1, PlaceOrders
    <3> QED BY <2>1, <3>2
  <2> QED BY <1>4, <2>1, <2>3
<1> QED BY <1>2, <1>4, <1>6, <1>8, <1>9

\* What lock_keys and the kvs_ functions get: a batch of the same command whose
\* keys are in buckets that boolean_locks marks.
LEMMA QsortedParts ==
  ASSUME NEW c \in Commands
  PROVE  /\ c \in Batches /\ qsorted(c) \in Batches /\ qsorted(c).cmd = c.cmd
         /\ c.cmd = "WRITE" =>
              /\ qsorted(c).args \in Seq(Keys \X Values)
              /\ \A i \in 1 .. Len(qsorted(c).args) :
                   hash[qsorted(c).args[i][1]] \in boolean_locks(c)
         /\ c.cmd \in {"READ", "DELETE"} =>
              /\ qsorted(c).args \in Seq(Keys)
              /\ \A i \in 1 .. Len(qsorted(c).args) :
                   hash[qsorted(c).args[i]] \in boolean_locks(c)
         /\ c.cmd = "SHOW" => qsorted(c).args = <<>>
         /\ boolean_locks(c) \subseteq Buckets \/ c.cmd = "BACKUP"
<1>1. c \in Batches
  BY CommandsAssumption
<1>2. CASE c.cmd = "WRITE"
  <2> DEFINE a == c.args
             names == [i \in DOMAIN a |-> a[i][1]]
             sorted == Sorted(names)
             pairs == [i \in DOMAIN a |-> <<sorted[i], a[i][2]>>]
  <2>1. c = [cmd |-> "WRITE", args |-> a] /\ a \in Seq(Keys \X Values) /\ a # <<>>
    BY <1>1, <1>2 DEF Batches
  <2>2. DOMAIN a = 1 .. Len(a) /\ Len(a) \in Nat /\ Len(a) # 0
    BY <2>1, LenProperties, EmptySeq
  <2>3. \A i \in 1 .. Len(a) : a[i] \in Keys \X Values
    BY <2>1, ElementOfSeq
  <2> HIDE DEF a
  <2>4. names \in [1 .. Len(a) -> Keys]
    BY <2>2, <2>3
  <2>5. names \in Seq(Keys) /\ Len(names) = Len(a)
    <3>1. names \in Seq(Keys)
      BY <2>2, <2>4, SeqDef
    <3> QED BY <2>2, <2>4, <3>1, LenProperties
  <2>6. \A j \in 1 .. Len(a) : hash[names[j]] \in boolean_locks(c)
    BY <1>2, <2>2 DEF boolean_locks, a
  <2> HIDE DEF names
  <2>7. /\ \A i \in 1 .. Len(a) : sorted[i] \in Keys
        /\ \A i \in 1 .. Len(a) : \E j \in 1 .. Len(a) : sorted[i] = names[j]
    <3>1. /\ sorted \in Seq(Keys) /\ Len(sorted) = Len(a)
          /\ \A i \in 1 .. Len(a) : \E j \in 1 .. Len(a) : sorted[i] = names[j]
      BY <2>5, SortedKeys
    <3> QED BY <3>1, ElementOfSeq
  <2> HIDE DEF sorted
  <2>8. pairs \in [1 .. Len(a) -> Keys \X Values] /\ \A i \in 1 .. Len(a) : pairs[i][1] = sorted[i]
    BY <2>2, <2>3, <2>7
  <2>9. pairs \in Seq(Keys \X Values) /\ Len(pairs) = Len(a)
    <3>1. pairs \in Seq(Keys \X Values)
      BY <2>2, <2>8, SeqDef
    <3> QED BY <2>2, <2>8, <3>1, LenProperties
  <2>10. qsorted(c) = [cmd |-> "WRITE", args |-> pairs]
    BY <1>2, <2>1 DEF qsorted, a, names, sorted
  <2>11. boolean_locks(c) \subseteq Buckets
    <3>1. \A i \in 1 .. Len(a) : hash[a[i][1]] \in Buckets
      BY <2>3, BucketAssumption
    <3> QED BY <1>2, <2>2, <3>1 DEF boolean_locks, a
  <2> HIDE DEF pairs
  <2>12. pairs # <<>>
    BY <2>2, <2>9, EmptySeq
  <2>13. \A i \in 1 .. Len(pairs) : hash[pairs[i][1]] \in boolean_locks(c)
    BY <2>6, <2>7, <2>8, <2>9
  <2> QED BY <1>1, <1>2, <2>9, <2>10, <2>11, <2>12, <2>13 DEF Batches
<1>3. CASE c.cmd \in {"READ", "DELETE"}
  <2> DEFINE a == c.args
             sorted == Sorted(a)
  <2>1. c = [cmd |-> c.cmd, args |-> a] /\ a \in Seq(Keys) /\ a # <<>>
    BY <1>1, <1>3 DEF Batches
  <2>2. DOMAIN a = 1 .. Len(a) /\ Len(a) \in Nat /\ Len(a) # 0
    BY <2>1, LenProperties, EmptySeq
  <2> HIDE DEF a
  <2>3. sorted \in Seq(Keys) /\ Len(sorted) = Len(a)
        /\ \A i \in 1 .. Len(a) : \E j \in 1 .. Len(a) : sorted[i] = a[j]
    BY <2>1, SortedKeys
  <2>4. \A j \in 1 .. Len(a) : hash[a[j]] \in boolean_locks(c)
    BY <1>3, <2>2 DEF boolean_locks, a
  <2> HIDE DEF sorted
  <2>5. qsorted(c) = [cmd |-> c.cmd, args |-> sorted]
    BY <1>3, <2>1 DEF qsorted, a, sorted
  <2>6. boolean_locks(c) \subseteq Buckets
    <3>1. \A i \in 1 .. Len(a) : hash[a[i]] \in Buckets
      BY <2>1, BucketAssumption, ElementOfSeq
    <3> QED BY <1>3, <2>2, <3>1 DEF boolean_locks, a
  <2>7. sorted # <<>>
    BY <2>2, <2>3, EmptySeq
  <2>8. \A i \in 1 .. Len(sorted) : hash[sorted[i]] \in boolean_locks(c)
    BY <2>3, <2>4
  <2> QED BY <1>1, <1>3, <2>3, <2>5, <2>6, <2>7, <2>8 DEF Batches
<1>4. CASE c.cmd \in {"SHOW", "BACKUP"}
  <2>1. c = [cmd |-> c.cmd, args |-> <<>>]
    BY <1>1, <1>4 DEF Batches
  <2>2. Sorted(<<>>) \in Seq(Keys) /\ Len(Sorted(<<>>)) = 0
    BY SortedKeys, EmptySeq
  <2>3. Sorted(<<>>) = <<>>
    BY <2>2, EmptySeq
  <2>4. qsorted(c) = c
    BY <1>4, <2>1, <2>3 DEF qsorted
  <2>5. c.cmd = "SHOW" => boolean_locks(c) \subseteq Buckets
    BY DEF boolean_locks
  <2> QED BY <1>1, <1>4, <2>1, <2>4, <2>5
<1> QED BY <1>1, <1>2, <1>3, <1>4 DEF Batches

-----------------------------------------------------------------------------
(* The batch of a thread.                                                  *)

\* The elements that a command goes over; how many thread t has taken, and
\* the i-th of them.
Whole(c)    == IF c.cmd = "SHOW" THEN [i \in 1 .. TABLE_SIZE |-> <<i - 1>>] ELSE qsorted(c).args
Done(t)     == Len(Whole(cmd[t])) - Len(rest[t])
Taken(t, i) == Whole(cmd[t])[i]

Elements == (Keys \X Values) \cup Keys \cup {<<b>> : b \in Buckets}

\* A thread has a command until its batch is done; what is left is the end of
\* the batch, and all of it before it has its locks.
AtWork(t) ==
  pc[t] \in {"lock", "body"} =>
    /\ cmd[t] \in Commands /\ cmd[t].cmd # "BACKUP"
    /\ Done(t) \in 0 .. Len(Whole(cmd[t]))
    /\ \A i \in 1 .. Len(rest[t]) : rest[t][i] = Taken(t, Done(t) + i)
    /\ pc[t] = "lock" => Done(t) = 0 /\ output[t] = {}

\* The table differs from what commands have left only in the buckets of a
\* writer that is in its batch.
Untouched ==
  \A k \in Keys : contents[k] # committed[k] =>
    \E t \in Jobs : pc[t] = "body" /\ wr[hash[k]] = t

BatchInv == BatchTypes /\ (\A t \in Jobs : AtWork(t)) /\ Untouched

\* The elements of a command are in buckets that it locks.
LEMMA WholeParts ==
  ASSUME NEW c \in Commands, c.cmd # "BACKUP"
  PROVE  /\ c.cmd \in {"WRITE", "READ", "DELETE", "SHOW"}
         /\ Whole(c) \in Seq(Elements) /\ Len(Whole(c)) \in Nat
         /\ c.cmd = "WRITE" => \A i \in 1 .. Len(Whole(c)) :
              Whole(c)[i] \in Keys \X Values /\ hash[Whole(c)[i][1]] \in boolean_locks(c)
         /\ c.cmd \in {"READ", "DELETE"} => \A i \in 1 .. Len(Whole(c)) :
              Whole(c)[i] \in Keys /\ hash[Whole(c)[i]] \in boolean_locks(c)
         /\ c.cmd = "SHOW" =>
              /\ Len(Whole(c)) = TABLE_SIZE /\ boolean_locks(c) = Buckets
              /\ \A i \in 1 .. Len(Whole(c)) : Whole(c)[i] = <<i - 1>>
         /\ c.cmd # "SHOW" => Whole(c) = qsorted(c).args
<1>1. c.cmd \in {"WRITE", "READ", "DELETE", "SHOW"}
  BY QsortedParts DEF Batches
<1>2. CASE c.cmd = "WRITE"
  <2>1. Whole(c) = qsorted(c).args /\ Whole(c) \in Seq(Keys \X Values)
    BY <1>2, QsortedParts DEF Whole
  <2>2. Whole(c) \in Seq(Elements)
    BY <2>1, SeqMonotonic DEF Elements
  <2> QED BY <1>2, <2>1, <2>2, QsortedParts, LenProperties, ElementOfSeq
<1>3. CASE c.cmd \in {"READ", "DELETE"}
  <2>1. Whole(c) = qsorted(c).args /\ Whole(c) \in Seq(Keys)
    BY <1>3, QsortedParts DEF Whole
  <2>2. Whole(c) \in Seq(Elements)
    BY <2>1, SeqMonotonic DEF Elements
  <2> QED BY <1>3, <2>1, <2>2, QsortedParts, LenProperties, ElementOfSeq
<1>4. CASE c.cmd = "SHOW"
  <2>1. Whole(c) = [i \in 1 .. TABLE_SIZE |-> <<i - 1>>] /\ TABLE_SIZE \in Nat
    BY <1>4, BucketAssumption DEF Whole
  <2>2. \A i \in 1 .. TABLE_SIZE : <<i - 1>> \in Elements
    BY <2>1 DEF Elements, Buckets
  <2>3. Whole(c) \in [1 .. TABLE_SIZE -> Elements]
    BY <2>1, <2>2
  <2>4. Whole(c) \in Seq(Elements)
    BY <2>1, <2>3, SeqDef
  <2>5. Len(Whole(c)) = TABLE_SIZE
    BY <2>1, <2>3, <2>4, LenProperties
  <2>6. boolean_locks(c) = Buckets
    BY <1>4 DEF boolean_locks
  <2> QED BY <1>4, <2>1, <2>4, <2>5, <2>6
<1> QED BY <1>1, <1>2, <1>3, <1>4

\* t takes the next element of its batch.
LEMMA TakesNext ==
  ASSUME BatchTypes, NEW t \in Jobs, AtWork(t), pc[t] = "body", rest[t] # <<>>,
         rest'[t] = Tail(rest[t]), cmd'[t] = cmd[t], pc'[t] = pc[t]
  PROVE  /\ AtWork(t)' /\ Done(t) \in Nat /\ Done(t)' = Done(t) + 1
         /\ Done(t) + 1 \in 1 .. Len(Whole(cmd[t]))
         /\ Head(rest[t]) = Taken(t, Done(t) + 1)
         /\ \A i : Taken(t, i)' = Taken(t, i)
<1> DEFINE n == Len(Whole(cmd[t]))
           r == rest[t]
<1>1. n \in Nat
  BY WholeParts DEF AtWork
<1>2. r \in Seq(Elements)
  BY DEF BatchTypes, Elements
<1>3. /\ Len(r) \in Nat /\ Len(r) # 0 /\ Len(Tail(r)) = Len(r) - 1 /\ Head(r) = r[1]
      /\ \A i \in 1 .. Len(r) - 1 : Tail(r)[i] = r[i + 1]
  BY <1>2, HeadTailProperties, EmptySeq
<1>4. /\ n - Len(r) \in 0 .. n
      /\ \A i \in 1 .. Len(r) : r[i] = Whole(cmd[t])[n - Len(r) + i]
  BY DEF AtWork, Done, Taken
<1>5. Done(t) = n - Len(r) /\ Done(t)' = n - (Len(r) - 1)
  BY <1>3 DEF Done
<1>6. \A i : Taken(t, i)' = Taken(t, i)
  BY DEF Taken
<1> HIDE DEF n, r
<1>7. Done(t) \in Nat /\ Done(t)' = Done(t) + 1 /\ Done(t) + 1 \in 1 .. n /\ Done(t)' \in 0 .. n
  BY <1>1, <1>3, <1>4, <1>5
<1>8. Head(r) = Taken(t, Done(t) + 1)
  BY <1>1, <1>3, <1>4, <1>5 DEF Taken
<1>9. ASSUME NEW i \in 1 .. Len(r) - 1 PROVE Tail(r)[i] = Taken(t, Done(t)' + i)
  <2>1. i + 1 \in 1 .. Len(r) /\ n - Len(r) + (i + 1) = Done(t)' + i
    BY <1>1, <1>3, <1>5
  <2>2. r[i + 1] = Whole(cmd[t])[n - Len(r) + (i + 1)]
    BY <1>4, <2>1
  <2> QED BY <1>3, <2>1, <2>2 DEF Taken
<1>10. AtWork(t)'
  BY <1>3, <1>6, <1>7, <1>9 DEF AtWork, r, n
<1> QED BY <1>6, <1>7, <1>8, <1>10 DEF n, r

\* The next element of a batch; its bucket is locked.
LEMMA NextElement ==
  ASSUME LockInv, BatchTypes, NEW t \in Jobs, AtWork(t), pc[t] = "body", rest[t] # <<>>
  PROVE  /\ cmd[t].cmd = "WRITE" =>
              /\ Head(rest[t]) \in Keys \X Values
              /\ hash[Head(rest[t])[1]] \in boolean_locks(cmd[t])
              /\ wr[hash[Head(rest[t])[1]]] = t
         /\ cmd[t].cmd \in {"READ", "DELETE"} =>
              /\ Head(rest[t]) \in Keys
              /\ hash[Head(rest[t])] \in boolean_locks(cmd[t])
              /\ cmd[t].cmd = "DELETE" => wr[hash[Head(rest[t])]] = t
         /\ cmd[t].cmd = "SHOW" => Head(rest[t])[1] \in Buckets
         /\ Head(rest[t]) \in Elements /\ Tail(rest[t]) \in Seq(Elements)
<1> DEFINE r == rest[t]
           n == Len(Whole(cmd[t]))
<1>1. cmd[t] \in Commands /\ cmd[t].cmd # "BACKUP" /\ n \in Nat
  BY WholeParts DEF AtWork
<1>2. r \in Seq(Elements) /\ r # <<>>
  BY DEF BatchTypes, Elements
<1>3. /\ Len(r) \in Nat /\ Len(r) # 0 /\ Head(r) = r[1] /\ Len(Tail(r)) = Len(r) - 1
      /\ Head(r) \in Elements /\ Tail(r) \in Seq(Elements)
  BY <1>2, HeadTailProperties, EmptySeq
<1>4. n - Len(r) \in 0 .. n /\ r[1] = Whole(cmd[t])[n - Len(r) + 1]
  <2>1. 1 \in 1 .. Len(r)
    BY <1>3
  <2> QED BY <2>1 DEF AtWork, Done, Taken
<1>5. n - Len(r) + 1 \in 1 .. n
  BY <1>1, <1>3, <1>4
<1>6. PICK m \in 1 .. n : r[1] = Whole(cmd[t])[m]
  BY <1>4, <1>5
<1> HIDE DEF r, n
<1>7. \A b \in boolean_locks(cmd[t]) : b \in Buckets /\ (Writes(t) => wr[b] = t)
  <2>1. boolean_locks(cmd[t]) \subseteq Buckets
    BY <1>1, QsortedParts
  <2> QED BY <2>1 DEF LockInv, BatchLocked
<1>8. CASE cmd[t].cmd = "WRITE"
  <2>1. r[1] \in Keys \X Values /\ hash[r[1][1]] \in boolean_locks(cmd[t])
    BY <1>1, <1>6, <1>8, WholeParts DEF n
  <2> QED BY <1>3, <1>7, <1>8, <2>1 DEF r, Writes
<1>9. CASE cmd[t].cmd \in {"READ", "DELETE"}
  <2>1. r[1] \in Keys /\ hash[r[1]] \in boolean_locks(cmd[t])
    BY <1>1, <1>6, <1>9, WholeParts DEF n
  <2> QED BY <1>3, <1>7, <1>9, <2>1 DEF r, Writes
<1>10. CASE cmd[t].cmd = "SHOW"
  <2>1. n = TABLE_SIZE /\ r[1] = <<m - 1>>
    BY <1>1, <1>6, <1>10, WholeParts DEF n
  <2>2. r[1][1] \in Buckets
    BY <2>1, BucketAssumption DEF Buckets
  <2> QED BY <1>3, <1>10, <2>2 DEF r
<1> QED BY <1>1, <1>8, <1>9, <1>10, WholeParts

\* A thread that does not move keeps its place in the batch.
LEMMA WorkKept ==
  ASSUME NEW x \in Jobs, AtWork(x),
         pc'[x] = pc[x], cmd'[x] = cmd[x], rest'[x] = rest[x], output'[x] = output[x]
  PROVE  AtWork(x)'
<1>1. Done(x)' = Done(x) /\ \A i : Taken(x, i)' = Taken(x, i)
  BY DEF Done, Taken
<1> QED BY <1>1 DEF AtWork

\* A step outside the batches that leaves the table alone keeps the invariant.
LEMMA BatchesKept ==
  ASSUME LockInv, BatchInv, NEW t \in Jobs,
         UNCHANGED <<contents, committed, rest, output>>,
         pc[t] # "body", pc'[t] \notin {"lock", "body"},
         \A x \in Jobs \ {t} : pc'[x] = pc[x] /\ cmd'[x] = cmd[x],
         \A x \in Jobs \ {t}, b \in Buckets : wr[b] = x => wr'[b] = x
  PROVE  BatchInv'
<1>1. BatchTypes'
  BY DEF BatchInv, BatchTypes
<1>2. \A x \in Jobs : AtWork(x)'
  <2>1. AtWork(t)'
    BY DEF AtWork
  <2> QED BY <2>1, WorkKept DEF BatchInv
<1>3. Untouched'
  <2> SUFFICES ASSUME NEW k \in Keys, contents'[k] # committed'[k]
               PROVE  \E x \in Jobs : pc'[x] = "body" /\ wr'[hash[k]] = x
    BY DEF Untouched
  <2>1. PICK x \in Jobs : pc[x] = "body" /\ wr[hash[k]] = x
    BY DEF BatchInv, Untouched
  <2>2. x # t /\ hash[k] \in Buckets
    BY <2>1, BucketAssumption
  <2> QED BY <2>1, <2>2
<1> QED BY <1>1, <1>2, <1>3 DEF BatchInv

\* A batch takes its next element: the rest is its tail, and what changes in
\* the table is in a bucket that the thread has locked for writing.
LEMMA ElementKeepsBatches ==
  ASSUME LockInv, BatchInv, NEW t \in Jobs, pc[t] = "body", rest[t] # <<>>,
         rest' = [rest EXCEPT ![t] = Tail(rest[t])],
         UNCHANGED <<wr, rd, pc, cmd, committed>>,
         BatchTypes',
         \A x \in Jobs \ {t} : output'[x] = output[x],
         \A k \in Keys : contents'[k] # contents[k] => wr[hash[k]] = t
  PROVE  BatchInv'
<1>1. rest'[t] = Tail(rest[t]) /\ \A x \in Jobs \ {t} : rest'[x] = rest[x]
  BY DEF BatchInv, BatchTypes
<1>2. AtWork(t)'
  BY <1>1, TakesNext DEF BatchInv
<1>3. \A x \in Jobs \ {t} : AtWork(x)'
  BY <1>1, WorkKept DEF BatchInv
<1>4. Untouched'
  BY DEF BatchInv, Untouched
<1> QED BY <1>2, <1>3, <1>4 DEF BatchInv

\* Every step preserves the invariant.
LEMMA NextBatches == LockInv /\ BatchInv /\ [Next]_vars => BatchInv'
<1> SUFFICES ASSUME LockInv, BatchInv, [Next]_vars PROVE BatchInv'
  OBVIOUS
<1>1. ASSUME NEW t \in Jobs, NEW c \in Commands, Command(t, c) PROVE BatchInv'
  <2>1. /\ pc[t] = "idle" /\ pc' = [pc EXCEPT ![t] = "lock"] /\ cmd' = [cmd EXCEPT ![t] = c]
        /\ rest' = [rest EXCEPT ![t] = Whole(c)] /\ output' = [output EXCEPT ![t] = {}]
        /\ c.cmd # "BACKUP" /\ UNCHANGED <<contents, committed, wr, rd>>
    BY <1>1 DEF Command, Goto, tableVars, lockVars, Whole
  <2>2. Whole(c) \in Seq(Elements) /\ Len(Whole(c)) \in Nat
    BY <2>1, WholeParts
  <2>3. BatchTypes'
    BY <2>1, <2>2 DEF BatchInv, BatchTypes, Elements
  <2>4. pc'[t] = "lock" /\ cmd'[t] = c /\ rest'[t] = Whole(c) /\ output'[t] = {}
    BY <2>1 DEF BatchInv, BatchTypes, LockInv, LockTypes
  <2>5. AtWork(t)'
    <3>1. Done(t)' = 0 /\ \A i : Taken(t, i)' = Whole(c)[i]
      BY <2>2, <2>4 DEF Done, Taken
    <3>2. \A i \in 1 .. Len(Whole(c)) : 0 + i = i
      BY <2>2
    <3> QED BY <2>1, <2>2, <2>4, <3>1, <3>2 DEF AtWork
  <2>6. \A x \in Jobs \ {t} : AtWork(x)'
    BY <2>1, WorkKept DEF BatchInv, BatchTypes, LockInv, LockTypes
  <2>7. Untouched'
    BY <2>1 DEF BatchInv, Untouched, LockInv, LockTypes
  <2> QED BY <2>3, <2>5, <2>6, <2>7 DEF BatchInv
<1>2. ASSUME NEW t \in Jobs, WritePair(t) PROVE BatchInv'
  <2>1. /\ pc[t] = "body" /\ rest[t] # <<>> /\ rest' = [rest EXCEPT ![t] = Tail(rest[t])]
        /\ cmd[t].cmd = "WRITE"
        /\ contents' = [contents EXCEPT ![Head(rest[t])[1]] = Head(rest[t])[2]]
        /\ UNCHANGED <<wr, rd, pc, cmd, committed, output>>
    BY <1>2 DEF WritePair, InBatch, NextOfBatch, write_pair, lockVars
  <2>2. /\ Head(rest[t]) \in Keys \X Values /\ wr[hash[Head(rest[t])[1]]] = t
        /\ Tail(rest[t]) \in Seq(Elements)
    BY <2>1, NextElement DEF BatchInv
  <2>3. BatchTypes'
    BY <2>1, <2>2 DEF BatchInv, BatchTypes, Elements
  <2>4. \A k \in Keys : contents'[k] # contents[k] => wr[hash[k]] = t
    BY <2>1, <2>2 DEF BatchInv, BatchTypes
  <2> QED BY <2>1, <2>3, <2>4, ElementKeepsBatches
<1>3. ASSUME NEW t \in Jobs, DeletePair(t) PROVE BatchInv'
  <2>1. /\ pc[t] = "body" /\ rest[t] # <<>> /\ rest' = [rest EXCEPT ![t] = Tail(rest[t])]
        /\ cmd[t].cmd = "DELETE"
        /\ contents' = [contents EXCEPT ![Head(rest[t])] = Missing]
        /\ output' = [output EXCEPT ![t] = IF contents[Head(rest[t])] = Missing
             THEN output[t] \cup {<<Head(rest[t]), Missing>>} ELSE output[t]]
        /\ UNCHANGED <<wr, rd, pc, cmd, committed>>
    BY <1>3 DEF DeletePair, InBatch, NextOfBatch, delete_pair, read_pair, lockVars
  <2>2. /\ Head(rest[t]) \in Keys /\ wr[hash[Head(rest[t])]] = t
        /\ Tail(rest[t]) \in Seq(Elements)
    BY <2>1, NextElement DEF BatchInv
  <2>3. BatchTypes'
    BY <2>1, <2>2 DEF BatchInv, BatchTypes, Elements
  <2>4. \A k \in Keys : contents'[k] # contents[k] => wr[hash[k]] = t
    BY <2>1, <2>2 DEF BatchInv, BatchTypes
  <2>5. \A x \in Jobs \ {t} : output'[x] = output[x]
    BY <2>1 DEF BatchInv, BatchTypes
  <2> QED BY <2>1, <2>3, <2>4, <2>5, ElementKeepsBatches
<1>4. ASSUME NEW t \in Jobs, ReadPair(t) \/ ShowBucket(t) PROVE BatchInv'
  <2> DEFINE found == IF cmd[t].cmd = "READ" THEN {<<Head(rest[t]), contents[Head(rest[t])]>>}
                      ELSE {<<k, contents[k]>> : k \in
                              {x \in Keys : hash[x] = Head(rest[t])[1] /\ contents[x] # Missing}}
  <2>1. /\ pc[t] = "body" /\ rest[t] # <<>> /\ rest' = [rest EXCEPT ![t] = Tail(rest[t])]
        /\ cmd[t].cmd \in {"READ", "SHOW"}
        /\ output' = [output EXCEPT ![t] = output[t] \cup found]
        /\ UNCHANGED <<wr, rd, pc, cmd, committed, contents>>
    BY <1>4 DEF ReadPair, ShowBucket, InBatch, NextOfBatch, read_pair, lockVars, tableVars
  <2>2. /\ cmd[t].cmd = "READ" => Head(rest[t]) \in Keys
        /\ Tail(rest[t]) \in Seq(Elements)
    BY <2>1, NextElement DEF BatchInv
  <2>3. found \subseteq Keys \X (Values \cup {Missing})
    BY <2>1, <2>2 DEF BatchInv, BatchTypes
  <2> HIDE DEF found
  <2>4. BatchTypes'
    BY <2>1, <2>2, <2>3 DEF BatchInv, BatchTypes, Elements
  <2>5. \A x \in Jobs \ {t} : output'[x] = output[x]
    BY <2>1 DEF BatchInv, BatchTypes
  <2> QED BY <2>1, <2>4, <2>5, ElementKeepsBatches
<1>5. ASSUME NEW t \in Jobs, BatchDone(t) PROVE BatchInv'
  <2>1. /\ pc[t] = "body" /\ pc' = [pc EXCEPT ![t] = "unlock"]
        /\ committed' = [k \in Keys |-> IF wr[hash[k]] = t THEN contents[k] ELSE committed[k]]
        /\ UNCHANGED <<contents, wr, rd, cmd, rest, output>>
    BY <1>5 DEF BatchDone, Goto, lockVars, batchVars
  <2>2. BatchTypes'
    BY <2>1 DEF BatchInv, BatchTypes
  <2>3. \A x \in Jobs : AtWork(x)'
    <3>1. pc'[t] = "unlock" /\ \A x \in Jobs \ {t} : pc'[x] = pc[x]
      BY <2>1 DEF LockInv, LockTypes
    <3>2. AtWork(t)'
      BY <3>1 DEF AtWork
    <3> QED BY <2>1, <3>1, <3>2, WorkKept DEF BatchInv
  <2>4. Untouched'
    <3> SUFFICES ASSUME NEW k \in Keys, contents'[k] # committed'[k]
                 PROVE  \E x \in Jobs : pc'[x] = "body" /\ wr'[hash[k]] = x
      BY DEF Untouched
    <3>1. wr[hash[k]] # t /\ contents[k] # committed[k]
      BY <2>1
    <3>2. PICK x \in Jobs : pc[x] = "body" /\ wr[hash[k]] = x
      BY <3>1 DEF BatchInv, Untouched
    <3> QED BY <2>1, <3>1, <3>2 DEF LockInv, LockTypes
  <2> QED BY <2>2, <2>3, <2>4 DEF BatchInv
<1>6. ASSUME NEW t \in Jobs, NEW b \in Buckets, Lock(t, b) PROVE BatchInv'
  <2>1. /\ pc[t] = "lock" /\ wr[b] = NoThread
        /\ pc' = [pc EXCEPT ![t] = "body"] \/ pc' = pc
        /\ wr' = [wr EXCEPT ![b] = t] \/ wr' = wr
        /\ UNCHANGED <<contents, committed, cmd, rest, output>>
    BY <1>6 DEF Lock, Goto, tableVars, batchVars
  <2>2. BatchTypes'
    BY <2>1 DEF BatchInv, BatchTypes
  <2>3. /\ pc'[t] \in {"lock", "body"}
        /\ \A x \in Jobs \ {t} : pc'[x] = pc[x]
    BY <2>1 DEF LockInv, LockTypes
  <2>4. AtWork(t)'
    <3>1. AtWork(t)
      BY DEF BatchInv
    <3>2. Done(t)' = Done(t) /\ \A i : Taken(t, i)' = Taken(t, i)
      BY <2>1 DEF Done, Taken
    <3> QED BY <2>1, <3>1, <3>2 DEF AtWork
  <2>5. \A x \in Jobs : AtWork(x)'
    BY <2>1, <2>3, <2>4, WorkKept DEF BatchInv
  <2>6. Untouched'
    <3> SUFFICES ASSUME NEW k \in Keys, contents'[k] # committed'[k]
                 PROVE  \E x \in Jobs : pc'[x] = "body" /\ wr'[hash[k]] = x
      BY DEF Untouched
    <3>1. PICK x \in Jobs : pc[x] = "body" /\ wr[hash[k]] = x
      BY <2>1 DEF BatchInv, Untouched
    <3>2. x # t /\ x # NoThread /\ hash[k] \in Buckets
      BY <2>1, <3>1, BucketAssumption, TrackerAssumption
    <3> QED BY <2>1, <2>3, <3>1, <3>2 DEF LockInv, LockTypes
  <2> QED BY <2>2, <2>5, <2>6 DEF BatchInv
<1>7. ASSUME NEW t \in Jobs, Unlock(t) PROVE BatchInv'
  <2> DEFINE b == Min(Held(t))
  <2>1. /\ pc[t] = "unlock" /\ UNCHANGED <<contents, committed, rest, output>>
        /\ wr' = [wr EXCEPT ![b] = IF @ = t THEN NoThread ELSE @]
        /\ \/ pc' = pc /\ cmd' = cmd
           \/ pc' = [pc EXCEPT ![t] = "idle"] /\ cmd' = [cmd EXCEPT ![t] = NoCommand]
    BY <1>7 DEF Unlock, Goto, tableVars
  <2> HIDE DEF b
  <2>2. /\ pc'[t] \in {"idle", "unlock"}
        /\ \A x \in Jobs \ {t} : pc'[x] = pc[x] /\ cmd'[x] = cmd[x]
    BY <2>1 DEF LockInv, LockTypes
  <2>3. \A x \in Jobs \ {t}, y \in Buckets : wr[y] = x => wr'[y] = x
    BY <2>1 DEF LockInv, LockTypes
  <2> QED BY <2>1, <2>2, <2>3, BatchesKept
<1>8. ASSUME NEW t \in Jobs,
             \/ Wait(t) \/ DecStore(t) \/ NotAJob(t) \/ Track(t) \/ Fork(t) \/ IncLoad(t) \/ IncStore(t)
             \/ Gate(t) \/ DecLoad(t) \/ Backup(t)
      PROVE  BatchInv'
  <2>1. /\ pc[t] \in {"idle", "gate", "wait", "dec", "fork", "inc"}
        /\ UNCHANGED <<contents, committed, rest, output, wr>>
        /\ pc' = pc \/ \E label \in {"idle", "gate", "wait", "dec", "fork", "inc"} :
                         pc' = [pc EXCEPT ![t] = label]
        /\ cmd' = cmd \/ \E c : cmd' = [cmd EXCEPT ![t] = c]
    BY <1>8 DEF Wait, DecStore, NotAJob, Track, Fork, IncLoad, IncStore, Gate, DecLoad, Backup, Goto,
       tableVars, lockVars, batchVars
  <2>2. pc'[t] \in {"idle", "gate", "wait", "dec", "fork", "inc"}
    BY <2>1 DEF LockInv, LockTypes
  <2>3. \A x \in Jobs \ {t} : pc'[x] = pc[x] /\ cmd'[x] = cmd[x]
    BY <2>1 DEF LockInv, LockTypes
  <2> QED BY <2>1, <2>2, <2>3, BatchesKept
<1>9. ASSUME UNCHANGED <<contents, committed, rest, output, wr, pc, cmd>> PROVE BatchInv'
  <2>1. \A x \in Jobs : AtWork(x)'
    BY <1>9, WorkKept DEF BatchInv
  <2> QED BY <1>9, <2>1 DEF BatchInv, BatchTypes, Untouched
<1>10. ASSUME NEW i \in 1 .. MaxBackups, ChildPrints(i) PROVE BatchInv'
  BY <1>9, <1>10 DEF ChildPrints, Ends, lockVars, batchVars, tableVars
<1>11. ASSUME NEW t \in Jobs, gen_path(t) \/ \E f \in JobFiles : NextFile(t, f)
      PROVE  BatchInv'
  BY <1>9, <1>11 DEF NextFile, gen_path, lockVars, batchVars, tableVars
<1>12. CASE UNCHANGED vars
  BY <1>9, <1>12 DEF vars, lockVars, batchVars, tableVars
<1> QED BY <1>1, <1>2, <1>3, <1>4, <1>5, <1>6, <1>7, <1>8, <1>10, <1>11, <1>12
        DEF Next, Step, Acquire

\* The start.
LEMMA InitBatches == Init => BatchInv
<1> SUFFICES ASSUME Init PROVE BatchInv
  OBVIOUS
<1>1. <<>> \in Seq(Elements)
  BY EmptySeq
<1>2. BatchTypes
  BY <1>1 DEF Init, BatchTypes, Elements
<1>3. (\A t \in Jobs : AtWork(t)) /\ Untouched
  BY DEF Init, AtWork, Untouched
<1> QED BY <1>2, <1>3 DEF BatchInv

\* Each thread goes through its batch in order, and the table is as commands
\* left it outside the buckets that a writer has locked.
THEOREM BatchInvariant == Spec => [](LockInv /\ BatchInv)
<1>1. Init => LockInv /\ BatchInv
  BY InitLocks, InitBatches
<1>2. LockInv /\ BatchInv /\ [Next]_vars => LockInv' /\ BatchInv'
  BY NextLocks, NextBatches
<1> QED BY <1>1, <1>2, PTL DEF Spec

-----------------------------------------------------------------------------
(* Locks are taken in ascending order.                                     *)

\* Min is the least element of a set of numbers.
LEMMA MinOfNumbers ==
  ASSUME NEW T, T \subseteq Nat, T # {}
  PROVE  Min(T) \in T /\ \A y \in T : Min(T) <= y
<1>1. \E x \in T : \A y \in T : ~ (<<y, x>> \in OpToRel(<, Nat))
  BY NatLessThanWellFounded, WFMin
<1>2. PICK x \in T : \A y \in T : ~ (<<y, x>> \in OpToRel(<, Nat))
  BY <1>1
<1>3. ASSUME NEW y \in T PROVE x <= y
  <2>1. <<y, x>> \in Nat \X Nat /\ ~ (<<y, x>> \in OpToRel(<, Nat))
    BY <1>2
  <2>2. ~ (y < x)
    BY <2>1 DEF OpToRel
  <2> QED BY <2>2
<1> QED BY <1>3 DEF Min

\* What a thread in lock_keys lacks, and the least of it.
Lacks(t) == boolean_locks(cmd[t]) \ Held(t)
NextLock(t) == Min(Lacks(t))

\* It has locks below those that it lacks only.
LocksInOrder == \A t \in Jobs : pc[t] = "lock" => \A b \in Held(t), c \in Lacks(t) : b < c

\* The locks that a thread lacks are numbers, the least of them the next one.
LEMMA NextOfLocks ==
  ASSUME BatchInv, NEW t \in Jobs, pc[t] = "lock", NEW b, LockNext(t, b)
  PROVE  /\ Lacks(t) \subseteq Nat /\ b \in Lacks(t) /\ b \in Nat
         /\ \A c \in Lacks(t) : b <= c
<1>1. cmd[t] \in Commands /\ cmd[t].cmd # "BACKUP"
  BY DEF BatchInv, AtWork
<1>2. Lacks(t) \subseteq Buckets
  BY <1>1, QsortedParts DEF Lacks
<1>3. Lacks(t) \subseteq Nat
  BY <1>2, BucketAssumption DEF Buckets
<1>4. Lacks(t) # {} /\ b = Min(Lacks(t))
  BY DEF LockNext, Lacks
<1> QED BY <1>3, <1>4, MinOfNumbers

\* A step that leaves the locks alone, and after which nobody is new in
\* lock_keys, keeps the order.
LEMMA KeepsOrder ==
  ASSUME LocksInOrder, UNCHANGED <<wr, rd>>,
         \A u \in Jobs : pc'[u] = "lock" => pc[u] = "lock" /\ cmd'[u] = cmd[u]
  PROVE  LocksInOrder'
<1>1. \A u \in Jobs : Held(u)' = Held(u)
  BY DEF Held
<1> QED BY <1>1 DEF LocksInOrder, Lacks

LEMMA NextOrder ==
  ASSUME LockInv, BatchInv, LocksInOrder, [Next]_vars
  PROVE  LocksInOrder'
<1> USE DEF LockInv, LockTypes
<1>1. ASSUME NEW t \in Jobs, NEW c \in Commands, Command(t, c) PROVE LocksInOrder'
  <2>1. /\ pc[t] = "idle" /\ pc' = [pc EXCEPT ![t] = "lock"]
        /\ cmd' = [cmd EXCEPT ![t] = c] /\ UNCHANGED <<wr, rd>>
    BY <1>1 DEF Command, Goto, lockVars
  <2>2. Held(t) = {} /\ \A u \in Jobs : Held(u)' = Held(u)
    BY <2>1 DEF HeldInMode, Held
  <2> QED BY <2>1, <2>2 DEF LocksInOrder, Lacks
<1>2. ASSUME NEW t \in Jobs, NEW b \in Buckets, Lock(t, b) PROVE LocksInOrder'
  <2>1. /\ pc[t] = "lock" /\ LockNext(t, b) /\ cmd' = cmd
        /\ wr[b] = NoThread
        /\ wr' \in {wr, [wr EXCEPT ![b] = t]}
        /\ rd' \in {rd, [rd EXCEPT ![b] = @ \cup {t}]}
        /\ pc' \in {pc, [pc EXCEPT ![t] = "body"]}
    BY <1>2 DEF Lock, Goto, batchVars
  <2>2. \A u \in Jobs : u # t => Held(u)' = Held(u)
    BY <2>1, BucketAssumption, TrackerAssumption DEF Held
  <2>3. Held(t) \subseteq Held(t)' /\ Held(t)' \subseteq Held(t) \cup {b}
    BY <2>1, BucketAssumption, TrackerAssumption DEF Held
  <2>4. b \in Held(t)'
    BY <1>2 DEF Lock, Held
  <2>5. /\ b \in Nat /\ Lacks(t) \subseteq Nat /\ \A c \in Lacks(t) : b <= c
        /\ \A x \in Held(t), c \in Lacks(t) : x < c
    BY <2>1, NextOfLocks DEF LocksInOrder
  <2>6. Lacks(t)' \subseteq Lacks(t) \ {b}
    BY <2>1, <2>3, <2>4 DEF Lacks
  <2>7. \A x \in Held(t)', c \in Lacks(t)' : x < c
    BY <2>3, <2>5, <2>6
  <2>8. ASSUME NEW u \in Jobs, pc'[u] = "lock", u # t, NEW x \in Held(u)', NEW c \in Lacks(u)'
        PROVE  x < c
    BY <2>1, <2>2, <2>8 DEF LocksInOrder, Lacks
  <2> QED BY <2>7, <2>8 DEF LocksInOrder
<1>3. ASSUME NEW t \in Jobs, Unlock(t) PROVE LocksInOrder'
  <2> DEFINE b == Min(Held(t))
  <2>1. /\ pc[t] = "unlock"
        /\ wr' = [wr EXCEPT ![b] = IF @ = t THEN NoThread ELSE @]
        /\ rd' = [rd EXCEPT ![b] = @ \ {t}]
        /\ \/ /\ pc' = [pc EXCEPT ![t] = "idle"]
              /\ cmd' = [cmd EXCEPT ![t] = NoCommand]
           \/ pc' = pc /\ cmd' = cmd
    BY <1>3 DEF Unlock, Goto
  <2> HIDE DEF b
  <2>2. \A u \in Jobs : u # t => Held(u)' = Held(u)
    BY <2>1, BucketAssumption, TrackerAssumption DEF Held
  <2>3. \A u \in Jobs : pc'[u] = "lock" => u # t /\ pc[u] = "lock" /\ cmd'[u] = cmd[u]
    BY <2>1
  <2> QED BY <2>2, <2>3 DEF LocksInOrder, Lacks
<1>4. ASSUME NEW t \in Jobs, Step(t), ~Unlock(t) PROVE LocksInOrder'
  <2>1. /\ UNCHANGED <<wr, rd>>
        /\ \/ pc' = pc /\ cmd' = cmd
           \/ pc' = [pc EXCEPT ![t] = "unlock"] /\ cmd' = cmd
           \/ \E l \in {"dec", "fork", "inc"} : pc' = [pc EXCEPT ![t] = l] /\ cmd' = cmd
           \/ pc' = [pc EXCEPT ![t] = "idle"] /\ cmd' = [cmd EXCEPT ![t] = NoCommand]
    BY <1>4 DEF Step, WritePair, ReadPair, DeletePair, ShowBucket, BatchDone, Wait, DecStore, NotAJob, Track,
                Fork, IncLoad, IncStore, InBatch, Goto, lockVars, batchVars
  <2>2. \A u \in Jobs : pc'[u] = "lock" => pc[u] = "lock" /\ cmd'[u] = cmd[u]
    BY <2>1
  <2> QED BY <2>1, <2>2, KeepsOrder
<1>5. ASSUME NEW t \in Jobs, Gate(t) \/ DecLoad(t) \/ Backup(t) PROVE LocksInOrder'
  <2>1. /\ UNCHANGED <<wr, rd>>
        /\ \/ pc' = pc /\ cmd' = cmd
           \/ pc' = [pc EXCEPT ![t] = "wait"] /\ cmd' = cmd
           \/ pc' = [pc EXCEPT ![t] = "fork"] /\ cmd' = cmd
           \/ pc' = [pc EXCEPT ![t] = "gate"] /\ \E c \in Commands : cmd' = [cmd EXCEPT ![t] = c]
    BY <1>5 DEF Gate, DecLoad, Backup, Goto, lockVars, batchVars
  <2>2. \A u \in Jobs : pc'[u] = "lock" => pc[u] = "lock" /\ cmd'[u] = cmd[u]
    BY <2>1
  <2> QED BY <2>1, <2>2, KeepsOrder
<1>6. ASSUME UNCHANGED <<wr, rd, pc, cmd>> PROVE LocksInOrder'
  BY <1>6, KeepsOrder
<1>7. ASSUME NEW i \in 1 .. MaxBackups, ChildPrints(i) PROVE LocksInOrder'
  BY <1>6, <1>7 DEF ChildPrints, Ends, lockVars, batchVars
<1>8. ASSUME NEW t \in Jobs, gen_path(t) \/ \E f \in JobFiles : NextFile(t, f)
      PROVE  LocksInOrder'
  BY <1>6, <1>8 DEF NextFile, gen_path, lockVars, batchVars
<1>9. CASE UNCHANGED vars
  BY <1>6, <1>9 DEF vars, lockVars, batchVars
<1> QED BY <1>1, <1>2, <1>3, <1>4, <1>5, <1>7, <1>8, <1>9 DEF Next, Acquire

\* In that order: of the threads that wait, one whose next lock is greatest
\* waits for nobody, as who has this lock would have a greater next one.
LEMMA OrderedWaits ==
  ASSUME BatchInv, LocksInOrder
  PROVE  NoCircularWait
<1> SUFFICES ASSUME NEW W \in SUBSET Jobs, W # {}, \A t \in W : \E u \in W : WaitsFor(t, u)
             PROVE  FALSE
  BY DEF NoCircularWait
<1>1. \A t \in W : pc[t] = "lock" /\ LockNext(t, NextLock(t)) /\ NextLock(t) \in Buckets
  BY DEF WaitsFor, LockNext, NextLock, Lacks
<1>2. \A t \in W : NextLock(t) \in Lacks(t)
  BY <1>1, NextOfLocks
<1>3. TABLE_SIZE \in Nat /\ \A t \in W : NextLock(t) \in 0 .. TABLE_SIZE - 1
  BY <1>1, BucketAssumption DEF Buckets
<1> DEFINE T == {TABLE_SIZE - NextLock(t) : t \in W}
<1>4. T \subseteq Nat /\ T # {}
  BY <1>3
<1>5. Min(T) \in T /\ \A y \in T : Min(T) <= y
  BY <1>4, MinOfNumbers
<1>6. PICK t \in W : Min(T) = TABLE_SIZE - NextLock(t)
  BY <1>5
<1>7. PICK u \in W : WaitsFor(t, u)
  OBVIOUS
<1>8. NextLock(t) \in Held(u)
  BY <1>7 DEF WaitsFor, LockNext, NextLock, Lacks, Held
<1>9. NextLock(t) < NextLock(u)
  BY <1>1, <1>2, <1>8 DEF LocksInOrder
<1>10. TABLE_SIZE - NextLock(t) <= TABLE_SIZE - NextLock(u)
  BY <1>5, <1>6
<1> QED BY <1>3, <1>9, <1>10

\* The bucket locks cannot stop the threads: no circle of threads waits for
\* itself in lock_keys, as boolean_locks is gone through in ascending order.
THEOREM LocksNeverCircular == Spec => []NoCircularWait
<1>1. Init => LocksInOrder
  BY DEF Init, LocksInOrder
<1>2. LockInv /\ BatchInv /\ LocksInOrder /\ [Next]_vars => LocksInOrder'
  BY NextOrder
<1>3. LockInv /\ BatchInv /\ LocksInOrder => NoCircularWait
  BY OrderedWaits
<1> QED BY <1>1, <1>2, <1>3, BatchInvariant, PTL DEF Spec

-----------------------------------------------------------------------------
(* Backups.                                                                *)

\* Threads whose backup has a slot with a count or no slot, that are about to
\* fork, and that have forked and not counted their child yet.
Numbered == {t \in Jobs : where[t] \in {"grow", "store", "fetch", "done"}}
Forking  == {t \in Jobs : pc[t] = "fork"}
Counting == {t \in Jobs : pc[t] = "inc"}

\* A thread is in backup_tracker's code exactly while it prepares its fork; it
\* the owner of the mutex is about to decrement; and who has
\* read the counter is about to write it.
AtBackup ==
  \A t \in Jobs :
    /\ where[t] = "out" <=> pc[t] # "fork"
    /\ mutex = t => pc[t] = "dec"
    /\ loaded[t] # NoThread => pc[t] = "inc" \/ mutex = t

\* What the counter may be, whatever updates are lost: it counts no child that was
\* not forked, nor one that is still to be counted.
Within(n) == n \in Int /\ n <= Len(children) - Cardinality(Counting)

CounterInv ==
  /\ Len(children) + Cardinality(BackingUp) <= MaxBackups
  /\ Within(simultaneous_backups)
  /\ \A t \in Jobs : /\ pc[t] = "inc" /\ loaded[t] # NoThread => Within(loaded[t])
                     /\ mutex = t => Within(loaded[t])

\* No count is above the number of backups that have got one.
GivenInv ==
  /\ \A i \in Slots : backup_tracker[i].backup_count <= Len(children) + Cardinality(Numbered)
  /\ \A t \in Jobs : backup_count[t] <= Len(children) + Cardinality(Numbered)

\* A child that inherits no lock of a writer has a whole table, and a child that
\* has ended inherited none or had no number.
ChildrenWhole ==
  \A i \in 1 .. Len(children) :
    /\ children[i].blocked = {} => children[i].whole
    /\ children[i].st # "running" => children[i].blocked = {} \/ children[i].number = -1

BackupInv == BackupTypes /\ AtBackup /\ CounterInv /\ GivenInv /\ ChildrenWhole

\* The sets are finite, so that their sizes are numbers; each includes the next.
LEMMA Sizes ==
  ASSUME AtBackup
  PROVE  /\ \A S \in SUBSET Jobs : IsFiniteSet(S) /\ Cardinality(S) \in Nat
         /\ Numbered \subseteq Forking /\ Forking \subseteq BackingUp
         /\ Cardinality(Numbered) <= Cardinality(Forking)
         /\ Cardinality(Forking) <= Cardinality(BackingUp)
<1>1. IsFiniteSet(Jobs)
  BY BucketAssumption
<1>2. \A S \in SUBSET Jobs : IsFiniteSet(S) /\ Cardinality(S) \in Nat
  BY <1>1, FS_Subset, FS_CardinalityType
<1>3. Numbered \in SUBSET Forking /\ Forking \in SUBSET BackingUp
  BY DEF AtBackup, Numbered, Forking, BackingUp
<1>4. BackingUp \in SUBSET Jobs /\ Forking \in SUBSET Jobs
  BY DEF BackingUp, Forking
<1> QED BY <1>2, <1>3, <1>4, FS_Subset

\* A thread joins or leaves a set.
LEMMA Joins ==
  ASSUME NEW S \in SUBSET Jobs, NEW t \in Jobs
  PROVE  /\ t \notin S => Cardinality(S \cup {t}) = Cardinality(S) + 1
         /\ t \in S => Cardinality(S \ {t}) = Cardinality(S) - 1
         /\ Cardinality(S) \in Nat
<1>1. IsFiniteSet(S)
  BY BucketAssumption, FS_Subset
<1> QED BY <1>1, FS_AddElement, FS_RemoveElement, FS_CardinalityType

\* A child goes on: only its state changes.
LEMMA ChildMoves ==
  ASSUME children \in Seq(Child), NEW i \in DOMAIN children, NEW st \in {"zombie", "reaped"},
         children' = [children EXCEPT ![i].st = st]
  PROVE  /\ children' \in Seq(Child) /\ Len(children') = Len(children)
         /\ children'[i].st = st
         /\ \A j \in 1 .. Len(children) :
              /\ children'[j].blocked = children[j].blocked
              /\ children'[j].file = children[j].file
              /\ children'[j].number = children[j].number
              /\ children'[j].whole = children[j].whole
              /\ j # i => children'[j].st = children[j].st
<1>1. i \in 1 .. Len(children) /\ Len(children) \in Nat /\ DOMAIN children = 1 .. Len(children)
  BY LenProperties
<1> DEFINE c == [children[i] EXCEPT !.st = st]
<1>2. children[i] \in Child
  BY <1>1, ElementOfSeq
<1>3. /\ c \in Child /\ c.st = st /\ c.blocked = children[i].blocked /\ c.file = children[i].file
      /\ c.number = children[i].number /\ c.whole = children[i].whole
  BY <1>2 DEF Child
<1> HIDE DEF c
<1>4. children' = [children EXCEPT ![i] = c]
  BY DEF c
<1>5. /\ children' \in Seq(Child) /\ Len(children') = Len(children)
      /\ \A j \in 1 .. Len(children) : children'[j] = IF j = i THEN c ELSE children[j]
  BY <1>1, <1>3, <1>4, ExceptSeq
<1> QED BY <1>1, <1>3, <1>5

\* A new child.
LEMMA ChildStarts ==
  ASSUME children \in Seq(Child), NEW c \in Child, children' = Append(children, c)
  PROVE  /\ children' \in Seq(Child) /\ Len(children) \in Nat /\ Len(children') = Len(children) + 1
         /\ children'[Len(children) + 1] = c
         /\ \A j \in 1 .. Len(children) : children'[j] = children[j]
<1> QED BY AppendProperties, LenProperties

\* The loop over the slots finds the first one with the name.
LEMMA FirstSlot ==
  ASSUME NEW f, \E i \in Slots : backup_tracker[i].job_file_name = f
  PROVE  Slot(f) \in Slots /\ backup_tracker[Slot(f)].job_file_name = f
<1> DEFINE T == {i \in Slots : backup_tracker[i].job_file_name = f}
<1>1. T \subseteq Nat /\ T # {}
  BY TrackerAssumption DEF Slots
<1>2. PICK i \in T : \A j \in T : ~(<<j, i>> \in OpToRel(<, Nat))
  BY <1>1, NatLessThanWellFounded, WFMin
<1>3. \A j \in T : ~(j < i)
  BY <1>1, <1>2 DEF OpToRel
<1>4. \A j \in 0 .. i - 1 : backup_tracker[j].job_file_name # f
  BY <1>3, TrackerAssumption DEF Slots
<1> QED BY <1>4 DEF Slot

\* The statements of get_backup_count keep the types and the bound of counts.
LEMMA TrackKeeps ==
  ASSUME BackupTypes, AtBackup, GivenInv, NEW t \in Jobs,
         get_backup_count(t, d_name[t]), children' = children
  PROVE  TrackerTypes' /\ GivenInv' /\ where[t] # "out"
         /\ where'[t] # "out" /\ \A x \in Jobs \ {t} : where'[x] = where[x]
<1> DEFINE f == d_name[t]
           n == Len(children) + Cardinality(Numbered)
<1>1. /\ TrackerTypes /\ f \in JobFiles \cup {NoFile} /\ Len(children) \in Nat /\ Cardinality(Numbered) \in Nat /\ n \in Nat
      /\ Numbered \in SUBSET Jobs
  BY Sizes, LenProperties DEF BackupTypes, Numbered
<1>2. /\ \A i \in Slots : backup_tracker[i].backup_count \in Nat /\ backup_tracker[i].backup_count <= n
      /\ \A x \in Jobs : backup_count[x] <= n
  BY <1>1 DEF TrackerTypes, GivenInv
<1>3. ASSUME NEW w \in {"name", "count", "grow", "store", "fetch", "done"},
             where' = [where EXCEPT ![t] = w], where[t] # "out"
      PROVE  /\ where' \in [Jobs -> {"out", "search", "name", "count", "grow", "store", "fetch", "done"}]
             /\ where[t] # "out" /\ where'[t] # "out" /\ \A x \in Jobs \ {t} : where'[x] = where[x]
             /\ w \in {"name", "count"} => Numbered' = Numbered \ {t}
             /\ w \notin {"name", "count"} => Numbered' = Numbered \cup {t}
  BY <1>1, <1>3 DEF TrackerTypes, Numbered
<1>4. ASSUME where[t] = "search" \/ where[t] = "name" \/ where[t] = "count"
      PROVE  /\ Numbered \ {t} = Numbered
             /\ Cardinality(Numbered \cup {t}) = Cardinality(Numbered) + 1
  <2>1. t \notin Numbered
    BY <1>4 DEF Numbered
  <2> QED BY <1>1, <2>1, Joins
<1>5. ASSUME where[t] = "grow" \/ where[t] = "store" \/ where[t] = "fetch"
      PROVE  Numbered \cup {t} = Numbered /\ n >= 1
  <2>1. t \in Numbered
    BY <1>5 DEF Numbered
  <2>2. Cardinality(Numbered \ {t}) = Cardinality(Numbered) - 1
        /\ Cardinality(Numbered \ {t}) \in Nat
    BY <1>1, <2>1, Joins
  <2> QED BY <1>1, <2>1, <2>2
<1>6. CASE Search(t, f) /\ UNCHANGED <<backup_tracker_size, size_read>>
  <2>1. where[t] = "search"
    BY <1>6 DEF Search, At
  <2>2. CASE \E i \in Slots : backup_tracker[i].job_file_name = f
    <3>1. /\ where' = [where EXCEPT ![t] = "done"]
          /\ backup_tracker' = [backup_tracker EXCEPT ![Slot(f)].backup_count = @ + 1]
          /\ backup_count' = [backup_count EXCEPT ![t] = backup_tracker[Slot(f)].backup_count + 1]
          /\ raced' = raced
      BY <1>6, <2>2 DEF Search, At, Return
    <3>2. Slot(f) \in Slots
      BY <2>2, FirstSlot
    <3>3. Cardinality(Numbered') = Cardinality(Numbered) + 1
      BY <1>3, <1>4, <2>1, <3>1
    <3>4. TrackerTypes'
      <4> DEFINE Entry == [job_file_name: JobFiles \cup {NoFile}, backup_count: Nat]
                 e == [backup_tracker[Slot(f)] EXCEPT !.backup_count = @ + 1]
      <4>1. backup_tracker' \in [Slots -> Entry]
        <5>1. backup_tracker \in [Slots -> Entry] /\ backup_tracker[Slot(f)] \in Entry
          BY <1>1, <3>2 DEF TrackerTypes
        <5>2. e \in Entry
          BY <5>1
        <5>3. backup_tracker' = [backup_tracker EXCEPT ![Slot(f)] = e]
          BY <3>1
        <5> HIDE DEF e, Entry
        <5> QED BY <5>1, <5>2, <5>3
      <4> QED BY <1>1, <1>2, <1>3, <1>6, <2>1, <3>1, <3>2, <4>1 DEF TrackerTypes
    <3>5. Len(children') + Cardinality(Numbered)' = n + 1
      BY <1>1, <3>3
    <3> HIDE DEF n
    <3>6. \A i \in Slots : backup_tracker'[i].backup_count <= n + 1
      BY <1>1, <1>2, <3>1, <3>2 DEF TrackerTypes
    <3>7. \A x \in Jobs : backup_count'[x] <= n + 1
      <4>1. \A x \in Jobs : backup_count[x] \in Int
        BY <1>1 DEF TrackerTypes
      <4> QED BY <1>1, <1>2, <3>1, <3>2, <4>1 DEF TrackerTypes
    <3>8. GivenInv'
      BY <3>5, <3>6, <3>7 DEF GivenInv
    <3> QED BY <1>3, <2>1, <3>1, <3>4, <3>8
  <2>3. CASE /\ \A i \in Slots : backup_tracker[i].job_file_name # f
             /\ backup_tracker_size < MAX_JOB_FILES
    <3>1. /\ where' = [where EXCEPT ![t] = "name"] /\ raced' \in BOOLEAN
          /\ UNCHANGED <<backup_tracker, backup_count>>
      BY <1>6, <2>3 DEF Search, At
    <3>2. TrackerTypes'
      BY <1>1, <1>3, <1>6, <2>1, <3>1 DEF TrackerTypes
    <3>3. Numbered' = Numbered
      BY <1>3, <1>4, <2>1, <3>1
    <3>4. GivenInv'
      BY <3>1, <3>3 DEF GivenInv
    <3> QED BY <1>3, <2>1, <3>1, <3>2, <3>4
  <2>4. CASE /\ \A i \in Slots : backup_tracker[i].job_file_name # f
             /\ ~(backup_tracker_size < MAX_JOB_FILES)
    <3>1. /\ where' = [where EXCEPT ![t] = "done"]
          /\ backup_count' = [backup_count EXCEPT ![t] = -1]
          /\ UNCHANGED <<backup_tracker, raced>>
      BY <1>6, <2>4 DEF Search, At, Return
    <3>2. TrackerTypes'
      BY <1>1, <1>3, <1>6, <2>1, <3>1 DEF TrackerTypes
    <3>3. Len(children') + Cardinality(Numbered)' = n + 1
      <4>1. Cardinality(Numbered)' = Cardinality(Numbered) + 1
        BY <1>3, <1>4, <2>1, <3>1
      <4> QED BY <1>1, <4>1
    <3> HIDE DEF n
    <3>4. \A x \in Jobs : backup_count'[x] <= n + 1
      <4>1. \A x \in Jobs : backup_count[x] \in Int
        BY <1>1 DEF TrackerTypes
      <4> QED BY <1>1, <1>2, <3>1, <4>1 DEF TrackerTypes
    <3>5. \A i \in Slots : backup_tracker'[i].backup_count <= n + 1
      BY <1>1, <1>2, <3>1
    <3>6. GivenInv'
      BY <3>3, <3>4, <3>5 DEF GivenInv
    <3> QED BY <1>3, <2>1, <3>1, <3>2, <3>6
  <2> QED BY <2>2, <2>3, <2>4
<1>7. CASE Name(t, f) /\ UNCHANGED <<backup_tracker_size, size_read>>
  <2>1. /\ where[t] = "name" /\ where' = [where EXCEPT ![t] = "count"]
        /\ backup_tracker' = [i \in Slots |->
             IF i = backup_tracker_size THEN [backup_tracker[i] EXCEPT !.job_file_name = f]
                                        ELSE backup_tracker[i]]
        /\ UNCHANGED <<raced, backup_count>>
    BY <1>7 DEF Name, At
  <2>2. TrackerTypes'
    <3>1. backup_tracker' \in [Slots -> [job_file_name: JobFiles \cup {NoFile}, backup_count: Nat]]
      BY <1>1, <2>1 DEF TrackerTypes
    <3> QED BY <1>1, <1>3, <1>7, <2>1, <3>1 DEF TrackerTypes
  <2>3. Numbered' = Numbered
    BY <1>3, <1>4, <2>1
  <2>4. \A i \in Slots : backup_tracker'[i].backup_count = backup_tracker[i].backup_count
    BY <1>1, <2>1 DEF TrackerTypes
  <2>5. GivenInv'
    BY <2>1, <2>3, <2>4 DEF GivenInv
  <2> QED BY <1>3, <2>1, <2>2, <2>5
<1>8. CASE CountOne(t) /\ UNCHANGED <<backup_tracker_size, size_read>>
  <2>1. /\ where[t] = "count" /\ where' = [where EXCEPT ![t] = "grow"]
        /\ backup_tracker' = [i \in Slots |->
             IF i = backup_tracker_size THEN [backup_tracker[i] EXCEPT !.backup_count = 1]
                                        ELSE backup_tracker[i]]
        /\ UNCHANGED <<raced, backup_count>>
    BY <1>8 DEF CountOne, At
  <2>2. TrackerTypes'
    <3>1. backup_tracker' \in [Slots -> [job_file_name: JobFiles \cup {NoFile}, backup_count: Nat]]
      BY <1>1, <2>1 DEF TrackerTypes
    <3> QED BY <1>1, <1>3, <1>8, <2>1, <3>1 DEF TrackerTypes
  <2>3. Len(children') + Cardinality(Numbered)' = n + 1
    <3>1. Cardinality(Numbered)' = Cardinality(Numbered) + 1
      BY <1>3, <1>4, <2>1
    <3> QED BY <1>1, <3>1
  <2> HIDE DEF n
  <2>4. \A i \in Slots : backup_tracker'[i].backup_count <= n + 1
    BY <1>1, <1>2, <2>1 DEF TrackerTypes
  <2>5. \A x \in Jobs : backup_count'[x] <= n + 1
    <3>1. \A x \in Jobs : backup_count[x] \in Int
      BY <1>1 DEF TrackerTypes
    <3> QED BY <1>1, <1>2, <2>1, <3>1
  <2>6. GivenInv'
    BY <2>3, <2>4, <2>5 DEF GivenInv
  <2> QED BY <1>3, <2>1, <2>2, <2>6
<1>9. CASE GrowLoad(t)
  <2>1. /\ where[t] = "grow" /\ where' = [where EXCEPT ![t] = "store"]
        /\ size_read' = [size_read EXCEPT ![t] = backup_tracker_size]
        /\ UNCHANGED <<backup_tracker, backup_tracker_size, backup_count, raced>>
    BY <1>9 DEF GrowLoad, At
  <2>2. TrackerTypes'
    BY <1>1, <1>3, <2>1 DEF TrackerTypes
  <2>3. Numbered' = Numbered
    BY <1>3, <1>5, <2>1
  <2>4. GivenInv'
    BY <2>1, <2>3 DEF GivenInv
  <2> QED BY <1>3, <2>1, <2>2, <2>4
<1>10. CASE GrowStore(t)
  <2>1. /\ where[t] = "store" /\ where' = [where EXCEPT ![t] = "fetch"]
        /\ backup_tracker_size' = size_read[t] + 1
        /\ size_read' = [size_read EXCEPT ![t] = 0]
        /\ UNCHANGED <<backup_tracker, backup_count, raced>>
    BY <1>10 DEF GrowStore, At
  <2>2. TrackerTypes'
    BY <1>1, <1>3, <2>1 DEF TrackerTypes
  <2>3. Numbered' = Numbered
    BY <1>3, <1>5, <2>1
  <2>4. GivenInv'
    BY <2>1, <2>3 DEF GivenInv
  <2> QED BY <1>3, <2>1, <2>2, <2>4
<1>11. CASE Fetch(t) /\ UNCHANGED <<backup_tracker_size, size_read>>
  <2>1. /\ where[t] = "fetch" /\ where' = [where EXCEPT ![t] = "done"]
        /\ UNCHANGED <<backup_tracker, raced>>
    BY <1>11 DEF Fetch, At
  <2>2. PICK c \in Nat : c <= n /\ backup_count' = [backup_count EXCEPT ![t] = c]
    <3>1. CASE backup_tracker_size - 1 \in Slots
      <4>1. backup_count' = [backup_count EXCEPT ![t] = backup_tracker[backup_tracker_size - 1].backup_count]
        BY <1>11, <3>1 DEF Fetch, Return
      <4> QED BY <1>2, <3>1, <4>1
    <3>2. CASE backup_tracker_size - 1 \notin Slots
      <4>1. PICK c \in {0, 1} : backup_count' = [backup_count EXCEPT ![t] = c]
        BY <1>11, <3>2 DEF Fetch, Return
      <4>2. c \in Nat /\ c <= n
        BY <1>1, <1>5, <2>1
      <4> QED BY <4>1, <4>2
    <3> QED BY <3>1, <3>2
  <2>3. TrackerTypes'
    BY <1>1, <1>3, <1>11, <2>1, <2>2 DEF TrackerTypes
  <2>4. Len(children') + Cardinality(Numbered)' = n
    BY <1>3, <1>5, <2>1
  <2> HIDE DEF n
  <2>5. \A x \in Jobs : backup_count'[x] <= n
    BY <1>1, <1>2, <2>2 DEF TrackerTypes
  <2>6. GivenInv'
    BY <1>2, <2>1, <2>4, <2>5 DEF GivenInv
  <2> QED BY <1>3, <2>1, <2>3, <2>6
<1> QED BY <1>6, <1>7, <1>8, <1>9, <1>10, <1>11 DEF get_backup_count

\* A thread that executes another command or goes to another file leaves the
\* backups alone.
LEMMA AsideKeeps ==
  ASSUME LockInv, BackupInv, NEW t \in Jobs, UNCHANGED backupVars,
         NEW label \in {"idle", "lock", "body", "unlock"},
         pc[t] \in {"idle", "lock", "body", "unlock"}, pc' = [pc EXCEPT ![t] = label],
         dir' \subseteq JobFiles, buffer' \subseteq dir', refilled' \in BOOLEAN,
         {d_name', file'} \subseteq [Jobs -> JobFiles \cup {NoFile}]
  PROVE  BackupInv'
<1>1. UNCHANGED <<simultaneous_backups, mutex, loaded, children, backup_tracker,
                  backup_tracker_size, where, size_read, backup_count, raced>>
  BY DEF backupVars, gateVars, trackerVars
<1>2. pc'[t] = label /\ \A x \in Jobs \ {t} : pc'[x] = pc[x]
  BY DEF LockInv, LockTypes
<1>3. /\ BackingUp' = BackingUp /\ Forking' = Forking /\ Counting' = Counting
      /\ Numbered' = Numbered
  BY <1>1, <1>2 DEF BackingUp, Forking, Counting, Numbered
<1>4. BackupTypes'
  BY <1>1 DEF BackupInv, BackupTypes, TrackerTypes
<1>5. AtBackup'
  BY <1>1, <1>2 DEF BackupInv, AtBackup
<1>6. CounterInv'
  BY <1>1, <1>2, <1>3 DEF BackupInv, CounterInv, Within
<1>7. GivenInv' /\ ChildrenWhole'
  BY <1>1, <1>3 DEF BackupInv, GivenInv, ChildrenWhole
<1> QED BY <1>4, <1>5, <1>6, <1>7 DEF BackupInv

\* A backup begins.
LEMMA BackupKeeps ==
  ASSUME LockInv, BackupInv, NEW t \in Jobs, Backup(t)
  PROVE  BackupInv'
<1>1. /\ pc[t] = "idle" /\ file[t] # NoFile /\ pc' = [pc EXCEPT ![t] = "gate"]
      /\ Len(children) + Cardinality(BackingUp) < MaxBackups
      /\ UNCHANGED <<dir, buffer, d_name, file, refilled, simultaneous_backups, mutex, loaded, children, backup_tracker,
                     backup_tracker_size, where, size_read, backup_count, raced>>
  BY DEF Backup, Goto, fileVars, backupVars, gateVars, trackerVars
<1>2. pc'[t] = "gate" /\ \A x \in Jobs \ {t} : pc'[x] = pc[x]
  BY <1>1 DEF LockInv, LockTypes
<1>3. /\ BackingUp' = BackingUp \cup {t} /\ Forking' = Forking /\ Counting' = Counting
      /\ Numbered' = Numbered
  BY <1>1, <1>2 DEF BackingUp, Forking, Counting, Numbered
<1>4. BackupTypes'
  BY <1>1 DEF BackupInv, BackupTypes, TrackerTypes
<1>5. AtBackup'
  BY <1>1, <1>2 DEF BackupInv, AtBackup, BackupTypes
<1>6. Len(children') + Cardinality(BackingUp)' <= MaxBackups
  <2>1. t \notin BackingUp /\ BackingUp \in SUBSET Jobs
    BY <1>1 DEF BackingUp
  <2>2. Cardinality(BackingUp)' = Cardinality(BackingUp) + 1 /\ Cardinality(BackingUp) \in Nat
    BY <1>3, <2>1, Joins
  <2>3. Len(children) \in Nat /\ MaxBackups \in Nat
    BY LenProperties, BucketAssumption DEF BackupInv, BackupTypes
  <2> QED BY <1>1, <2>2, <2>3
<1>7. CounterInv'
  BY <1>1, <1>2, <1>3, <1>6 DEF BackupInv, CounterInv, Within
<1>8. GivenInv' /\ ChildrenWhole'
  BY <1>1, <1>3 DEF BackupInv, GivenInv, ChildrenWhole
<1> QED BY <1>4, <1>5, <1>7, <1>8 DEF BackupInv

\* The numbers that the bounds are made of.
LEMMA Amounts ==
  ASSUME BackupInv
  PROVE  /\ Len(children) \in Nat /\ MaxBackups \in Nat
         /\ Cardinality(BackingUp) \in Nat /\ Cardinality(Forking) \in Nat
         /\ Cardinality(Counting) \in Nat /\ Cardinality(Numbered) \in Nat
         /\ Cardinality(Numbered) <= Cardinality(Forking)
         /\ Cardinality(Forking) <= Cardinality(BackingUp)
         /\ Len(children) + Cardinality(BackingUp) <= MaxBackups
         /\ BackingUp \in SUBSET Jobs /\ Forking \in SUBSET Jobs
         /\ Counting \in SUBSET Jobs /\ Numbered \in SUBSET Jobs
<1>1. Len(children) \in Nat /\ MaxBackups \in Nat
  BY LenProperties, BucketAssumption DEF BackupInv, BackupTypes
<1>2. /\ BackingUp \in SUBSET Jobs /\ Forking \in SUBSET Jobs
      /\ Counting \in SUBSET Jobs /\ Numbered \in SUBSET Jobs
  BY DEF BackingUp, Forking, Counting, Numbered
<1> QED BY <1>1, <1>2, Sizes DEF BackupInv, CounterInv

\* A thread that is to fork, after the gate: the counter may be one less.
LEMMA ReadyToFork ==
  ASSUME LockInv, BackupInv, NEW t \in Jobs, pc[t] \in {"gate", "dec"},
         pc' = [pc EXCEPT ![t] = "fork"], Enter(t),
         UNCHANGED <<dir, buffer, d_name, file, refilled, children>>,
         mutex' \in Jobs \cup {NoThread}, loaded' \in [Jobs -> Int \cup {NoThread}],
         \/ simultaneous_backups' = simultaneous_backups
         \/ Within(loaded[t]) /\ simultaneous_backups' = loaded[t] - 1,
         mutex' # t, loaded'[t] = NoThread,
         \A x \in Jobs \ {t} : loaded'[x] = loaded[x] /\ (mutex' = x <=> mutex = x)
  PROVE  BackupInv'
<1>1. /\ where[t] = "out" /\ where' = [where EXCEPT ![t] = "search"]
      /\ UNCHANGED <<backup_tracker, backup_tracker_size, size_read, backup_count, raced>>
  BY DEF Enter, At
<1>2. pc'[t] = "fork" /\ \A x \in Jobs \ {t} : pc'[x] = pc[x]
  BY DEF LockInv, LockTypes
<1>3. where'[t] = "search" /\ \A x \in Jobs \ {t} : where'[x] = where[x]
  BY <1>1 DEF BackupInv, BackupTypes, TrackerTypes
<1>4. /\ BackingUp' = BackingUp \cup {t} /\ t \in BackingUp
      /\ Forking' = Forking \cup {t} /\ t \notin Forking
      /\ Counting' = Counting /\ Numbered' = Numbered
  <2>1. BackingUp' = BackingUp \cup {t} /\ t \in BackingUp
    BY <1>2 DEF BackingUp
  <2>2. Forking' = Forking \cup {t} /\ t \notin Forking
    BY <1>2 DEF Forking
  <2>3. Counting' = Counting
    BY <1>2 DEF Counting
  <2>4. Numbered' = Numbered
    BY <1>1, <1>3 DEF Numbered
  <2> QED BY <2>1, <2>2, <2>3, <2>4
<1>5. AtBackup'
  <2>1. ASSUME NEW x \in Jobs
        PROVE  /\ where'[x] = "out" <=> pc'[x] # "fork"
               /\ mutex' = x => pc'[x] = "dec"
               /\ loaded'[x] # NoThread => pc'[x] = "inc" \/ mutex' = x
    BY <1>2, <1>3 DEF BackupInv, AtBackup
  <2> QED BY <2>1 DEF AtBackup
<1>6. BackingUp' = BackingUp /\ Cardinality(Forking)' = Cardinality(Forking) + 1
  BY <1>4, Amounts, Joins
<1>7. \A v : Within(v) => Within(v)'
  <2> SUFFICES ASSUME NEW v, Within(v) PROVE Within(v)'
    OBVIOUS
  <2> QED BY <1>4, <1>6, Amounts DEF Within
<1>8. Within(simultaneous_backups)'
  <2>1. CASE simultaneous_backups' = simultaneous_backups
    BY <1>7, <2>1 DEF BackupInv, CounterInv, Within
  <2>2. CASE Within(loaded[t]) /\ simultaneous_backups' = loaded[t] - 1
    <3> DEFINE v == loaded[t]
    <3>1. /\ v \in Int /\ v <= Len(children) - Cardinality(Counting)
          /\ simultaneous_backups' = v - 1
      BY <2>2 DEF Within
    <3> HIDE DEF v
    <3>2. Len(children') = Len(children) /\ Cardinality(Counting)' = Cardinality(Counting)
      BY <1>4
    <3> QED BY <3>1, <3>2, Amounts DEF Within
  <2> QED BY <2>1, <2>2
<1>9. CounterInv'
  <2>1. Len(children') + Cardinality(BackingUp)' <= MaxBackups
    BY <1>6 DEF BackupInv, CounterInv
  <2>2. ASSUME NEW x \in Jobs
        PROVE  /\ pc'[x] = "inc" /\ loaded'[x] # NoThread => Within(loaded[x])'
               /\ mutex' = x => Within(loaded[x])'
    <3>1. x = t => pc'[x] # "inc" /\ mutex' # x
      BY <1>2
    <3>2. x # t => loaded'[x] = loaded[x] /\ pc'[x] = pc[x]
      BY <1>2
    <3>3. /\ pc[x] = "inc" /\ loaded[x] # NoThread => Within(loaded[x])
          /\ mutex = x => Within(loaded[x])
      BY DEF BackupInv, CounterInv
    <3>4. x # t /\ Within(loaded[x]) => Within(loaded[x])'
      BY <1>7, <3>2 DEF Within
    <3> QED BY <3>1, <3>2, <3>3, <3>4
  <2> QED BY <1>8, <2>1, <2>2 DEF CounterInv
<1>10. BackupTypes'
  <2>1. TrackerTypes'
    BY <1>1 DEF BackupInv, BackupTypes, TrackerTypes
  <2>2. simultaneous_backups' \in Int
    BY <1>8 DEF Within
  <2> QED BY <2>1, <2>2 DEF BackupInv, BackupTypes
<1>11. GivenInv' /\ ChildrenWhole'
  BY <1>1, <1>4 DEF BackupInv, GivenInv, ChildrenWhole
<1> QED BY <1>5, <1>9, <1>10, <1>11 DEF BackupInv

\* A child that may end does so, or is waited for: what is said of the children
\* stays true.
LEMMA ChildrenGoOn ==
  ASSUME BackupInv, NEW i \in DOMAIN children, NEW st \in {"zombie", "reaped"},
         children' = [children EXCEPT ![i].st = st],
         \/ children[i].st # "running" \/ children[i].blocked = {} \/ children[i].number = -1
  PROVE  /\ children' \in Seq(Child) /\ Len(children') = Len(children) /\ ChildrenWhole'
<1>1. /\ children' \in Seq(Child) /\ Len(children') = Len(children)
      /\ \A j \in 1 .. Len(children) :
           /\ children'[j].blocked = children[j].blocked
           /\ children'[j].number = children[j].number
           /\ children'[j].whole = children[j].whole
           /\ j # i => children'[j].st = children[j].st
  BY ChildMoves DEF BackupInv, BackupTypes
<1>2. i \in 1 .. Len(children)
  BY LenProperties DEF BackupInv, BackupTypes
<1> QED BY <1>1, <1>2 DEF BackupInv, ChildrenWhole

\* A step that leaves the counter and the tracker alone, and that moves no
\* thread to or from its fork.
LEMMA CalmKeeps ==
  ASSUME LockInv, BackupInv, NEW t, UNCHANGED trackerVars,
         UNCHANGED <<dir, buffer, d_name, file, refilled, simultaneous_backups>>,
         \/ pc' = pc
         \/ pc[t] = "gate" /\ pc' = [pc EXCEPT ![t] = "wait"]
         \/ pc[t] = "wait" /\ pc' = [pc EXCEPT ![t] = "dec"],
         children' \in Seq(Child), Len(children') = Len(children), ChildrenWhole',
         mutex' \in Jobs \cup {NoThread},
         \/ loaded' = loaded
         \/ /\ pc' = pc /\ (pc[t] = "inc" \/ mutex' = t)
            /\ loaded' = [loaded EXCEPT ![t] = simultaneous_backups],
         \A x \in Jobs : mutex = x => mutex' = x,
         \A x \in Jobs : mutex' = x =>
           mutex = x \/ (x = t /\ pc' = pc /\ pc[t] = "dec" /\ loaded'[t] = simultaneous_backups)
  PROVE  BackupInv'
<1>1. UNCHANGED <<backup_tracker, backup_tracker_size, where, size_read, backup_count, raced>>
  BY DEF trackerVars
<1>2. /\ \A x \in Jobs : /\ pc'[x] = "fork" <=> pc[x] = "fork"
                         /\ pc'[x] = "inc" <=> pc[x] = "inc"
                         /\ pc'[x] = "idle" <=> pc[x] = "idle"
                         /\ pc'[x] \in {"gate", "wait", "dec", "fork"} <=> pc[x] \in {"gate", "wait", "dec", "fork"}
                         /\ pc[x] = "dec" => pc'[x] = "dec"
  BY DEF LockInv, LockTypes
<1>3. /\ BackingUp' = BackingUp /\ Forking' = Forking /\ Counting' = Counting
      /\ Numbered' = Numbered
  BY <1>1, <1>2 DEF BackingUp, Forking, Counting, Numbered
<1>4. AtBackup'
  <2>1. ASSUME NEW x \in Jobs
        PROVE  loaded'[x] # NoThread => pc'[x] = "inc" \/ mutex' = x
    <3>1. x # t => loaded'[x] = loaded[x]
      BY DEF BackupInv, BackupTypes
    <3> QED BY <1>2, <3>1 DEF BackupInv, AtBackup
  <2> QED BY <1>1, <1>2, <2>1 DEF BackupInv, AtBackup
<1>5. \A v : Within(v) => Within(v)'
  BY <1>3 DEF Within
<1>6. CounterInv'
  <2>1. Within(simultaneous_backups)'
    BY <1>5 DEF BackupInv, CounterInv, Within
  <2>2. ASSUME NEW x \in Jobs
        PROVE  /\ pc'[x] = "inc" /\ loaded'[x] # NoThread => Within(loaded[x])'
               /\ mutex' = x => Within(loaded[x])'
    <3>1. /\ pc[x] = "inc" /\ loaded[x] # NoThread => Within(loaded[x])
          /\ mutex = x => Within(loaded[x])
      BY DEF BackupInv, CounterInv
    <3>2. loaded'[x] = loaded[x] \/ loaded'[x] = simultaneous_backups
      BY DEF BackupInv, BackupTypes
    <3>3. Within(simultaneous_backups) => (loaded'[x] = simultaneous_backups => Within(loaded[x])')
      BY <1>5 DEF Within
    <3>4. Within(loaded[x]) /\ loaded'[x] = loaded[x] => Within(loaded[x])'
      BY <1>5 DEF Within
    <3> QED BY <1>2, <3>1, <3>2, <3>3, <3>4 DEF BackupInv, CounterInv
  <2> QED BY <1>3, <2>1, <2>2 DEF BackupInv, CounterInv
<1>7. BackupTypes'
  <2>1. TrackerTypes'
    BY <1>1 DEF BackupInv, BackupTypes, TrackerTypes
  <2> QED BY <2>1 DEF BackupInv, BackupTypes
<1>8. GivenInv'
  BY <1>1, <1>3 DEF BackupInv, GivenInv
<1> QED BY <1>4, <1>6, <1>7, <1>8 DEF BackupInv

\* The counter goes up by one without the mutex.
LEMMA IncKeeps ==
  ASSUME LockInv, BackupInv, NEW t \in Jobs, IncStore(t)
  PROVE  BackupInv'
<1>1. /\ pc[t] = "inc" /\ loaded[t] # NoThread /\ simultaneous_backups' = loaded[t] + 1
      /\ loaded' = [loaded EXCEPT ![t] = NoThread] /\ pc' = [pc EXCEPT ![t] = "idle"]
      /\ UNCHANGED <<dir, buffer, d_name, file, refilled, mutex, children, backup_tracker, backup_tracker_size, where,
                     size_read, backup_count, raced>>
  BY DEF IncStore, Goto, fileVars, trackerVars
<1>2. /\ pc'[t] = "idle" /\ loaded'[t] = NoThread
      /\ \A x \in Jobs \ {t} : pc'[x] = pc[x] /\ loaded'[x] = loaded[x]
  BY <1>1 DEF LockInv, LockTypes, BackupInv, BackupTypes
<1>3. /\ BackingUp' = BackingUp /\ Forking' = Forking /\ Numbered' = Numbered
      /\ Counting' = Counting \ {t} /\ t \in Counting
  BY <1>1, <1>2 DEF BackingUp, Forking, Counting, Numbered
<1>4. Cardinality(Counting)' = Cardinality(Counting) - 1 /\ Cardinality(Counting)' \in Nat
  <2>1. Cardinality(Counting \ {t}) = Cardinality(Counting) - 1
    BY <1>3, Amounts, Joins
  <2>2. Counting \ {t} \in SUBSET Jobs
    BY DEF Counting
  <2>3. Cardinality(Counting \ {t}) \in Nat
    BY <2>2, Joins
  <2> QED BY <1>3, <2>1, <2>3
<1>5. AtBackup'
  BY <1>1, <1>2 DEF BackupInv, AtBackup
<1>6. \A v : Within(v) => Within(v)'
  <2> SUFFICES ASSUME NEW v, Within(v) PROVE Within(v)'
    OBVIOUS
  <2> QED BY <1>1, <1>3, <1>4, Amounts DEF Within
<1>7. Within(simultaneous_backups)'
  <2> DEFINE v == loaded[t]
  <2>1. /\ v \in Int /\ v <= Len(children) - Cardinality(Counting)
        /\ simultaneous_backups' = v + 1
    BY <1>1 DEF BackupInv, CounterInv, Within
  <2> HIDE DEF v
  <2> QED BY <1>1, <1>3, <1>4, <2>1, Amounts DEF Within
<1>8. CounterInv'
  <2>1. ASSUME NEW x \in Jobs
        PROVE  /\ pc'[x] = "inc" /\ loaded'[x] # NoThread => Within(loaded[x])'
               /\ mutex' = x => Within(loaded[x])'
    <3>1. x = t => pc'[x] # "inc" /\ mutex' # x
      BY <1>1, <1>2 DEF BackupInv, AtBackup
    <3>2. x # t => loaded'[x] = loaded[x] /\ pc'[x] = pc[x]
      BY <1>2
    <3>3. /\ pc[x] = "inc" /\ loaded[x] # NoThread => Within(loaded[x])
          /\ mutex = x => Within(loaded[x])
      BY DEF BackupInv, CounterInv
    <3>4. x # t /\ Within(loaded[x]) => Within(loaded[x])'
      BY <1>6, <3>2 DEF Within
    <3> QED BY <1>1, <3>1, <3>2, <3>3, <3>4
  <2> QED BY <1>1, <1>3, <1>7, <2>1 DEF BackupInv, CounterInv
<1>9. BackupTypes'
  <2>1. TrackerTypes'
    BY <1>1 DEF BackupInv, BackupTypes, TrackerTypes
  <2>2. simultaneous_backups' \in Int
    BY <1>7 DEF Within
  <2> QED BY <1>1, <2>1, <2>2 DEF BackupInv, BackupTypes
<1>10. GivenInv' /\ ChildrenWhole'
  BY <1>1, <1>3 DEF BackupInv, GivenInv, ChildrenWhole
<1> QED BY <1>5, <1>8, <1>9, <1>10 DEF BackupInv

\* fork: if no writer holds a lock, the child's copy of the table is whole.
LEMMA ForkKeeps ==
  ASSUME LockInv, BatchInv, BackupInv, NEW t \in Jobs, Fork(t)
  PROVE  BackupInv'
<1> DEFINE c == [st |-> "running", blocked |-> {b \in Buckets : wr[b] # NoThread},
                 file |-> d_name[t], number |-> backup_count[t], whole |-> contents = committed]
<1>1. /\ pc[t] = "fork" /\ pc' = [pc EXCEPT ![t] = "inc"]
      /\ where[t] = "done" /\ where' = [where EXCEPT ![t] = "out"]
      /\ backup_count' = [backup_count EXCEPT ![t] = 0]
      /\ children' = Append(children, c)
      /\ UNCHANGED <<dir, buffer, d_name, file, refilled, simultaneous_backups, mutex, loaded, backup_tracker,
                     backup_tracker_size, size_read, raced>>
  BY DEF Fork, Goto, Leave, At, Return, fileVars
<1>2. /\ pc'[t] = "inc" /\ where'[t] = "out"
      /\ \A x \in Jobs \ {t} : pc'[x] = pc[x] /\ where'[x] = where[x]
  BY <1>1 DEF LockInv, LockTypes, BackupInv, BackupTypes, TrackerTypes
<1>3. /\ BackingUp' = BackingUp \ {t} /\ t \in BackingUp
      /\ Forking' = Forking \ {t} /\ t \in Forking
      /\ Counting' = Counting \cup {t} /\ t \notin Counting
      /\ Numbered' = Numbered \ {t} /\ t \in Numbered
  <2>1. BackingUp' = BackingUp \ {t} /\ t \in BackingUp
    BY <1>1, <1>2 DEF BackingUp
  <2>2. Forking' = Forking \ {t} /\ t \in Forking
    BY <1>1, <1>2 DEF Forking
  <2>3. Counting' = Counting \cup {t} /\ t \notin Counting
    BY <1>1, <1>2 DEF Counting
  <2>4. Numbered' = Numbered \ {t} /\ t \in Numbered
    BY <1>1, <1>2 DEF Numbered
  <2> QED BY <2>1, <2>2, <2>3, <2>4
<1>4. c \in Child
  <2>1. d_name[t] \in JobFiles \cup {NoFile}
    BY DEF BackupInv, BackupTypes
  <2>2. backup_count[t] \in Nat \cup {-1} /\ backup_count[t] <= Len(children) + Cardinality(Numbered)
    BY DEF BackupInv, BackupTypes, TrackerTypes, GivenInv
  <2>3. backup_count[t] \in -1 .. MaxBackups
    BY <2>2, Amounts
  <2>4. {b \in Buckets : wr[b] # NoThread} \in SUBSET Buckets
    OBVIOUS
  <2> QED BY <2>1, <2>3, <2>4 DEF Child
<1>5. c.blocked = {} => c.whole
  <2> SUFFICES ASSUME {b \in Buckets : wr[b] # NoThread} = {} PROVE contents = committed
    OBVIOUS
  <2>1. \A k \in Keys : wr[hash[k]] \notin Jobs
    BY BucketAssumption, TrackerAssumption
  <2>2. \A k \in Keys : contents[k] = committed[k]
    BY <2>1 DEF BatchInv, Untouched
  <2> QED BY <2>2 DEF BatchInv, BatchTypes
<1>6. c.st = "running"
  OBVIOUS
<1> HIDE DEF c
<1>7. /\ children' \in Seq(Child) /\ Len(children') = Len(children) + 1
      /\ children'[Len(children) + 1] = c
      /\ \A j \in 1 .. Len(children) : children'[j] = children[j]
  BY <1>1, <1>4, ChildStarts DEF BackupInv, BackupTypes
<1>8. /\ Cardinality(BackingUp)' = Cardinality(BackingUp) - 1
      /\ Cardinality(Forking)' = Cardinality(Forking) - 1
      /\ Cardinality(Counting)' = Cardinality(Counting) + 1
      /\ Cardinality(Numbered)' = Cardinality(Numbered) - 1
  BY <1>3, Amounts, Joins
<1>9. AtBackup'
  BY <1>1, <1>2 DEF BackupInv, AtBackup
<1>10. \A v : Within(v) => Within(v)'
  <2> SUFFICES ASSUME NEW v, Within(v) PROVE Within(v)'
    OBVIOUS
  <2> QED BY <1>7, <1>8, Amounts DEF Within
<1>11. CounterInv'
  <2>1. Within(simultaneous_backups)'
    BY <1>1, <1>10 DEF BackupInv, CounterInv, Within
  <2>2. ASSUME NEW x \in Jobs
        PROVE  /\ pc'[x] = "inc" /\ loaded'[x] # NoThread => Within(loaded[x])'
               /\ mutex' = x => Within(loaded[x])'
    <3>1. /\ pc[x] = "inc" /\ loaded[x] # NoThread => Within(loaded[x])
          /\ mutex = x => Within(loaded[x])
      BY DEF BackupInv, CounterInv
    <3>2. x = t => loaded'[x] = NoThread /\ mutex' # x
      BY <1>1 DEF BackupInv, AtBackup
    <3>3. x # t => pc'[x] = pc[x]
      BY <1>2
    <3>4. Within(loaded[x]) => Within(loaded[x])'
      BY <1>1, <1>10 DEF Within
    <3> QED BY <1>1, <3>1, <3>2, <3>3, <3>4
  <2>3. Len(children') + Cardinality(BackingUp)' <= MaxBackups
    BY <1>7, <1>8, Amounts
  <2> QED BY <2>1, <2>2, <2>3 DEF CounterInv
<1>12. BackupTypes'
  <2>1. TrackerTypes'
    <3>1. backup_count' \in [Jobs -> Nat \cup {-1}]
      BY <1>1 DEF BackupInv, BackupTypes, TrackerTypes
    <3>2. where' \in [Jobs -> {"out", "search", "name", "count", "grow", "store", "fetch", "done"}]
      BY <1>1 DEF BackupInv, BackupTypes, TrackerTypes
    <3> QED BY <1>1, <3>1, <3>2 DEF BackupInv, BackupTypes, TrackerTypes
  <2>2. Len(children') <= MaxBackups
    <3>1. Cardinality(BackingUp) >= 1
      BY <1>8, <1>3, Amounts, Joins, <1>2 DEF BackingUp
    <3> QED BY <1>7, <3>1, Amounts
  <2> QED BY <1>1, <1>7, <2>1, <2>2 DEF BackupInv, BackupTypes
<1>13. GivenInv'
  <2>1. Len(children') + Cardinality(Numbered)' = Len(children) + Cardinality(Numbered)
    BY <1>7, <1>8, Amounts
  <2>2. \A x \in Jobs : backup_count'[x] <= Len(children) + Cardinality(Numbered)
    BY <1>1, Amounts DEF BackupInv, BackupTypes, TrackerTypes, GivenInv
  <2> QED BY <1>1, <2>1, <2>2 DEF BackupInv, GivenInv
<1>14. ChildrenWhole'
  <2>1. ASSUME NEW i \in 1 .. Len(children')
        PROVE  /\ children'[i].blocked = {} => children'[i].whole
               /\ children'[i].st # "running" => children'[i].blocked = {} \/ children'[i].number = -1
    <3>1. i \in 1 .. Len(children) \/ i = Len(children) + 1
      BY <1>7, Amounts
    <3> QED BY <1>5, <1>6, <1>7, <3>1 DEF BackupInv, ChildrenWhole
  <2> QED BY <2>1 DEF ChildrenWhole
<1> QED BY <1>9, <1>11, <1>12, <1>13, <1>14 DEF BackupInv

\* A backup that is given up because the entry's name is no job file's.
LEMMA NotAJobKeeps ==
  ASSUME LockInv, BackupInv, NEW t \in Jobs, NotAJob(t)
  PROVE  BackupInv'
<1>1. /\ pc[t] = "fork" /\ pc' = [pc EXCEPT ![t] = "idle"]
      /\ where[t] = "search" /\ where' = [where EXCEPT ![t] = "out"]
      /\ UNCHANGED <<dir, buffer, d_name, file, refilled, simultaneous_backups, mutex, loaded,
                     children, backup_tracker, backup_tracker_size, size_read, backup_count, raced>>
  BY DEF NotAJob, Goto, Quit, At, fileVars, gateVars
<1>2. /\ pc'[t] = "idle" /\ where'[t] = "out"
      /\ \A x \in Jobs \ {t} : pc'[x] = pc[x] /\ where'[x] = where[x]
  BY <1>1 DEF LockInv, LockTypes, BackupInv, BackupTypes, TrackerTypes
<1>3. BackingUp' = BackingUp \ {t} /\ t \in BackingUp
  BY <1>1, <1>2 DEF BackingUp
<1>4. Counting' = Counting
  BY <1>1, <1>2 DEF Counting
<1>5. Numbered' = Numbered
  BY <1>1, <1>2 DEF Numbered
<1>6. AtBackup'
  BY <1>1, <1>2 DEF BackupInv, AtBackup
<1>7. CounterInv'
  <2>1. Cardinality(BackingUp)' = Cardinality(BackingUp) - 1
    BY <1>3, Amounts, Joins
  <2>2. Len(children') + Cardinality(BackingUp)' <= MaxBackups
    BY <1>1, <2>1, Amounts
  <2>3. \A v : Within(v) => Within(v)'
    BY <1>1, <1>4 DEF Within
  <2>4. Within(simultaneous_backups)'
    BY <1>1, <2>3 DEF BackupInv, CounterInv, Within
  <2>5. ASSUME NEW x \in Jobs
        PROVE  /\ pc'[x] = "inc" /\ loaded'[x] # NoThread => Within(loaded[x])'
               /\ mutex' = x => Within(loaded[x])'
    <3>1. pc'[x] = "inc" => pc[x] = "inc"
      BY <1>2
    <3>2. Within(loaded[x]) => Within(loaded[x])'
      BY <1>1, <2>3 DEF Within
    <3> QED BY <1>1, <3>1, <3>2 DEF BackupInv, CounterInv
  <2> QED BY <2>2, <2>4, <2>5 DEF CounterInv
<1>8. BackupTypes'
  <2>1. where' \in [Jobs -> {"out", "search", "name", "count", "grow", "store", "fetch", "done"}]
    BY <1>1 DEF BackupInv, BackupTypes, TrackerTypes
  <2>2. TrackerTypes'
    BY <1>1, <2>1 DEF BackupInv, BackupTypes, TrackerTypes
  <2> QED BY <1>1, <2>2 DEF BackupInv, BackupTypes
<1>9. GivenInv' /\ ChildrenWhole'
  BY <1>1, <1>5 DEF BackupInv, GivenInv, ChildrenWhole
<1> QED BY <1>6, <1>7, <1>8, <1>9 DEF BackupInv

\* A statement of get_backup_count.
LEMMA TrackStepKeeps ==
  ASSUME LockInv, BackupInv, NEW t \in Jobs, Track(t)
  PROVE  BackupInv'
<1>1. /\ pc[t] = "fork" /\ get_backup_count(t, d_name[t])
      /\ UNCHANGED <<dir, buffer, d_name, file, refilled, pc, simultaneous_backups, mutex, loaded, children>>
  BY DEF Track, fileVars, gateVars
<1>3. /\ TrackerTypes' /\ GivenInv' /\ where[t] # "out"
      /\ where'[t] # "out" /\ \A x \in Jobs \ {t} : where'[x] = where[x]
  BY <1>1, TrackKeeps DEF BackupInv
<1>4. BackingUp' = BackingUp /\ Forking' = Forking /\ Counting' = Counting
  BY <1>1 DEF BackingUp, Forking, Counting
<1>5. AtBackup'
  BY <1>1, <1>3 DEF BackupInv, AtBackup
<1>6. CounterInv'
  BY <1>1, <1>4 DEF BackupInv, CounterInv, Within
<1>7. BackupTypes'
  BY <1>1, <1>3 DEF BackupInv, BackupTypes
<1>8. ChildrenWhole'
  BY <1>1 DEF BackupInv, ChildrenWhole
<1> QED BY <1>3, <1>5, <1>6, <1>7, <1>8 DEF BackupInv

\* Every step keeps what is said of backups.
LEMMA NextBackups ==
  ASSUME LockInv, BatchInv, BackupInv, [Next]_vars
  PROVE  BackupInv'
<1>1. /\ pc \in [Jobs -> {"idle", "lock", "body", "unlock", "gate", "wait", "dec", "fork", "inc"}]
      /\ dir \subseteq JobFiles /\ buffer \subseteq dir /\ refilled \in BOOLEAN
      /\ file \in [Jobs -> JobFiles \cup {NoFile}] /\ d_name \in [Jobs -> JobFiles \cup {NoFile}]
      /\ mutex \in Jobs \cup {NoThread}
      /\ children \in Seq(Child) /\ ChildrenWhole
  BY DEF LockInv, LockTypes, BackupInv, BackupTypes, AtBackup
<1>2. ASSUME NEW t \in Jobs, NEW f \in JobFiles, NextFile(t, f) PROVE BackupInv'
  <2>1. /\ pc[t] = "idle" /\ pc' = pc /\ dir' = dir \ {f} /\ file' = [file EXCEPT ![t] = NoFile]
        /\ UNCHANGED backupVars
    BY <1>2 DEF NextFile
  <2>2. pc' = [pc EXCEPT ![t] = "idle"]
    BY <1>1, <2>1
  <2>3. CASE Refill(t, f)
    <3>1. /\ d_name' \in [Jobs -> JobFiles \cup {NoFile}] /\ refilled' \in BOOLEAN
          /\ buffer' \subseteq dir'
      BY <1>1, <2>1, <2>3 DEF Refill
    <3>2. file' \in [Jobs -> JobFiles \cup {NoFile}] /\ dir' \subseteq JobFiles
      BY <1>1, <2>1
    <3> QED BY <2>1, <2>2, <3>1, <3>2, AsideKeeps
  <2>4. CASE /\ f \in buffer /\ buffer' = buffer \ {f}
             /\ d_name' = [d_name EXCEPT ![t] = f] /\ UNCHANGED refilled
    <3>1. d_name' \in [Jobs -> JobFiles \cup {NoFile}] /\ file' \in [Jobs -> JobFiles \cup {NoFile}]
      BY <1>1, <2>1, <2>4
    <3>2. dir' \subseteq JobFiles /\ buffer' \subseteq dir' /\ refilled' \in BOOLEAN
      BY <1>1, <2>1, <2>4
    <3> QED BY <2>1, <2>2, <3>1, <3>2, AsideKeeps
  <2> QED BY <1>2, <2>3, <2>4 DEF NextFile
<1>3. ASSUME NEW t \in Jobs, UNCHANGED <<fileVars, backupVars>>,
             pc[t] \in {"idle", "lock", "body", "unlock"},
             NEW label \in {"idle", "lock", "body", "unlock"}, pc' = [pc EXCEPT ![t] = label]
      PROVE  BackupInv'
  <2>1. UNCHANGED <<dir, buffer, d_name, file, refilled>> /\ UNCHANGED backupVars
    BY <1>3 DEF fileVars
  <2> QED BY <1>1, <1>3, <2>1, AsideKeeps
<1>4. ASSUME NEW t \in Jobs, UNCHANGED <<fileVars, backupVars>>,
             pc[t] \in {"idle", "lock", "body", "unlock"}, pc' = pc
      PROVE  BackupInv'
  <2>1. pc' = [pc EXCEPT ![t] = pc[t]]
    BY <1>1, <1>4
  <2> QED BY <1>3, <1>4, <2>1
<1>5. ASSUME NEW t \in Jobs, NEW c \in Commands, Command(t, c) PROVE BackupInv'
  BY <1>1, <1>3, <1>5 DEF Command, Goto
<1>6. ASSUME NEW t \in Jobs, NEW b \in Buckets, Lock(t, b) PROVE BackupInv'
  BY <1>1, <1>3, <1>4, <1>6 DEF Lock, Goto
<1>7. ASSUME NEW t \in Jobs, WritePair(t) \/ ReadPair(t) \/ DeletePair(t) \/ ShowBucket(t)
      PROVE  BackupInv'
  BY <1>1, <1>4, <1>7 DEF WritePair, ReadPair, DeletePair, ShowBucket, InBatch
<1>8. ASSUME NEW t \in Jobs, BatchDone(t) PROVE BackupInv'
  BY <1>1, <1>3, <1>8 DEF BatchDone, Goto
<1>9. ASSUME NEW t \in Jobs, Unlock(t) PROVE BackupInv'
  BY <1>1, <1>3, <1>4, <1>9 DEF Unlock, Goto
<1>10. ASSUME NEW t \in Jobs, Gate(t) PROVE BackupInv'
  <2>1. /\ pc[t] = "gate" /\ mutex = NoThread /\ loaded[t] = NoThread
        /\ UNCHANGED <<dir, buffer, d_name, file, refilled, simultaneous_backups, mutex, loaded, children>>
    BY <1>10, TrackerAssumption DEF Gate, fileVars, gateVars, BackupInv, AtBackup
  <2>2. CASE pc' = [pc EXCEPT ![t] = "wait"] /\ UNCHANGED trackerVars
    <3>1. ChildrenWhole' /\ children' \in Seq(Child)
      BY <1>1, <2>1 DEF ChildrenWhole
    <3> QED BY <1>1, <2>1, <2>2, <3>1, CalmKeeps
  <2>3. CASE pc' = [pc EXCEPT ![t] = "fork"] /\ Enter(t)
    <3>1. loaded' \in [Jobs -> Int \cup {NoThread}]
      BY <2>1 DEF BackupInv, BackupTypes
    <3>2. mutex' # t
      BY <2>1, TrackerAssumption
    <3> QED BY <1>1, <2>1, <2>3, <3>1, <3>2, ReadyToFork
  <2> QED BY <1>10, <2>2, <2>3 DEF Gate, Goto
<1>11. ASSUME NEW t \in Jobs, Wait(t) PROVE BackupInv'
  <2>1. /\ pc[t] = "wait" /\ pc' = [pc EXCEPT ![t] = "dec"]
        /\ UNCHANGED <<dir, buffer, d_name, file, refilled, simultaneous_backups, mutex, loaded>> /\ UNCHANGED trackerVars
    BY <1>11 DEF Wait, Goto, fileVars
  <2>2. children' \in Seq(Child) /\ Len(children') = Len(children) /\ ChildrenWhole'
    <3>1. CASE \E i \in DOMAIN children : /\ children[i].st = "zombie"
                                          /\ children' = [children EXCEPT ![i].st = "reaped"]
      BY <3>1, ChildrenGoOn
    <3>2. CASE UNCHANGED children
      BY <1>1, <3>2 DEF ChildrenWhole
    <3> QED BY <1>11, <3>1, <3>2 DEF Wait
  <2> QED BY <1>1, <2>1, <2>2, CalmKeeps
<1>12. ASSUME NEW t \in Jobs, DecLoad(t) PROVE BackupInv'
  <2>1. /\ pc[t] = "dec" /\ pc' = pc /\ mutex = NoThread /\ mutex' = t
        /\ loaded' = [loaded EXCEPT ![t] = simultaneous_backups]
        /\ UNCHANGED <<dir, buffer, d_name, file, refilled, simultaneous_backups, children>> /\ UNCHANGED trackerVars
    BY <1>12 DEF DecLoad, fileVars
  <2>2. ChildrenWhole' /\ children' \in Seq(Child)
    BY <1>1, <2>1 DEF ChildrenWhole
  <2>3. loaded'[t] = simultaneous_backups
    BY <2>1 DEF BackupInv, BackupTypes
  <2>4. \A x \in Jobs : mutex # x
    BY <2>1, TrackerAssumption
  <2> QED BY <2>1, <2>2, <2>3, <2>4, CalmKeeps
<1>13. ASSUME NEW t \in Jobs, DecStore(t) PROVE BackupInv'
  <2>1. /\ pc[t] = "dec" /\ mutex = t /\ mutex' = NoThread
        /\ simultaneous_backups' = loaded[t] - 1 /\ loaded' = [loaded EXCEPT ![t] = NoThread]
        /\ pc' = [pc EXCEPT ![t] = "fork"] /\ Enter(t) /\ UNCHANGED <<dir, buffer, d_name, file, refilled, children>>
    BY <1>13 DEF DecStore, Goto, fileVars
  <2>2. Within(loaded[t])
    BY <2>1 DEF BackupInv, CounterInv
  <2>3. /\ loaded' \in [Jobs -> Int \cup {NoThread}]
        /\ loaded'[t] = NoThread /\ \A x \in Jobs \ {t} : loaded'[x] = loaded[x]
    BY <2>1 DEF BackupInv, BackupTypes
  <2>4. mutex' # t /\ \A x \in Jobs \ {t} : mutex' # x /\ mutex # x
    BY <2>1, TrackerAssumption
  <2> QED BY <2>1, <2>2, <2>3, <2>4, ReadyToFork
<1>14. ASSUME NEW t \in Jobs, IncLoad(t) PROVE BackupInv'
  <2>1. /\ pc[t] = "inc" /\ pc' = pc
        /\ loaded' = [loaded EXCEPT ![t] = simultaneous_backups]
        /\ UNCHANGED <<dir, buffer, d_name, file, refilled, simultaneous_backups, mutex, children>> /\ UNCHANGED trackerVars
    BY <1>14 DEF IncLoad, fileVars
  <2>2. ChildrenWhole' /\ children' \in Seq(Child)
    BY <1>1, <2>1 DEF ChildrenWhole
  <2> QED BY <1>1, <2>1, <2>2, CalmKeeps
<1>15. ASSUME NEW i \in 1 .. MaxBackups, ChildPrints(i) PROVE BackupInv'
  <2>1. /\ i \in DOMAIN children /\ children' = [children EXCEPT ![i].st = "zombie"]
        /\ children[i].blocked = {} \/ children[i].number = -1
        /\ UNCHANGED <<dir, buffer, d_name, file, refilled, simultaneous_backups, mutex, loaded, pc>> /\ UNCHANGED trackerVars
    BY <1>15 DEF ChildPrints, Ends, fileVars
  <2>2. children' \in Seq(Child) /\ Len(children') = Len(children) /\ ChildrenWhole'
    BY <2>1, ChildrenGoOn
  <2> QED BY <1>1, <2>1, <2>2, CalmKeeps
<1>16. ASSUME NEW t \in Jobs, Fork(t) \/ NotAJob(t) \/ Track(t) \/ IncStore(t) \/ Backup(t)
      PROVE  BackupInv'
  BY <1>16, ForkKeeps, NotAJobKeeps, TrackStepKeeps, IncKeeps, BackupKeeps
<1>18. ASSUME NEW t \in Jobs, gen_path(t) PROVE BackupInv'
  <2>1. /\ pc[t] = "idle" /\ pc' = pc /\ UNCHANGED <<dir, buffer, d_name, refilled>>
        /\ file' = [file EXCEPT ![t] = d_name[t]] /\ UNCHANGED backupVars
    BY <1>18 DEF gen_path
  <2>2. pc' = [pc EXCEPT ![t] = "idle"] /\ file' \in [Jobs -> JobFiles \cup {NoFile}]
    BY <1>1, <2>1
  <2> QED BY <1>1, <2>1, <2>2, AsideKeeps
<1>17. CASE UNCHANGED vars
  <2>1. /\ UNCHANGED <<dir, buffer, d_name, file, refilled, pc, simultaneous_backups, mutex, loaded, children>>
        /\ UNCHANGED trackerVars
    BY <1>17 DEF vars, fileVars, backupVars, gateVars
  <2>2. ChildrenWhole'
    BY <1>1, <2>1 DEF ChildrenWhole
  <2> QED BY <1>1, <2>1, <2>2, CalmKeeps
<1> QED BY <1>2, <1>5, <1>6, <1>7, <1>8, <1>9, <1>10, <1>11, <1>12, <1>13, <1>14, <1>15, <1>16, <1>17, <1>18
     DEF Next, Step, Acquire

LEMMA InitBackups == Init => BackupInv
<1> SUFFICES ASSUME Init PROVE BackupInv
  OBVIOUS
<1> USE DEF Init, TrackerInit
<1>1. children = <<>> /\ Len(children) = 0 /\ children \in Seq(Child)
  BY EmptySeq
<1>2. Forking = {} /\ BackingUp = {} /\ Counting = {} /\ Numbered = {}
  BY DEF Forking, BackingUp, Counting, Numbered
<1>3. Cardinality({}) = 0
  BY FS_EmptySet
<1>4. TrackerTypes
  BY DEF TrackerTypes
<1>5. BackupTypes
  <2>1. file \in [Jobs -> JobFiles \cup {NoFile}] /\ d_name \in [Jobs -> JobFiles \cup {NoFile}]
    OBVIOUS
  <2>2. loaded \in [Jobs -> Int \cup {NoThread}]
    OBVIOUS
  <2>3. dir \subseteq JobFiles /\ buffer \subseteq dir
    OBVIOUS
  <2>4. refilled \in BOOLEAN
    OBVIOUS
  <2>5. mutex \in Jobs \cup {NoThread}
    OBVIOUS
  <2>6. simultaneous_backups \in Int
    OBVIOUS
  <2>7. children \in Seq(Child) /\ Len(children) <= MaxBackups
    BY <1>1, BucketAssumption
  <2> HIDE DEF Init
  <2> QED BY <1>4, <2>1, <2>2, <2>3, <2>4, <2>5, <2>6, <2>7 DEF BackupTypes
<1>6. AtBackup
  BY TrackerAssumption DEF AtBackup
<1>7. CounterInv
  <2>1. Within(0)
    BY <1>1, <1>2, <1>3, BucketAssumption DEF Within
  <2>2. \A t \in Jobs : mutex # t /\ pc[t] # "inc"
    BY TrackerAssumption
  <2>3. Len(children) + Cardinality(BackingUp) <= MaxBackups
    BY <1>1, <1>2, <1>3, BucketAssumption
  <2> QED BY <2>1, <2>2, <2>3 DEF CounterInv
<1>8. GivenInv
  BY <1>1, <1>2, <1>3 DEF GivenInv
<1>9. ChildrenWhole
  BY <1>1 DEF ChildrenWhole
<1> QED BY <1>5, <1>6, <1>7, <1>8, <1>9 DEF BackupInv

\* The backups' inductive invariant: the counter stays within what lost updates
\* can make of it, and a child whose copy of the locks lets it print has a whole
\* table.
THEOREM BackupInvariant == Spec => []BackupInv
<1>1. LockInv /\ BatchInv /\ BackupInv /\ [Next]_vars => BackupInv'
  BY NextBackups
<1> QED BY <1>1, InitBackups, BatchInvariant, PTL DEF Spec

\* The store's variables have their types, whatever the commands, the threads and
\* the entries that readdir overwrites.
THEOREM TypesHold == Spec => []TypeOK
<1>1. LockInv /\ BatchInv /\ BackupInv => TypeOK
  BY DEF LockInv, BatchInv, BackupInv, TypeOK
<1> QED BY <1>1, BatchInvariant, BackupInvariant, PTL

\* Every backup that is written shows the table between two commands, although
\* the fork may come in the middle of a WRITE of another thread (kvs_backup).
THEOREM BackupsAreWhole == Spec => []BackupsWhole
<1>1. BackupInv => BackupsWhole
  BY LenProperties DEF BackupInv, BackupTypes, ChildrenWhole, BackupsWhole
<1> QED BY <1>1, BackupInvariant, PTL

-----------------------------------------------------------------------------
(* The numbers of backups.                                                 *)

\* backup_tracker's two columns, and how many of the children are a file's.
names   == [i \in Slots |-> backup_tracker[i].job_file_name]
counts  == [i \in Slots |-> backup_tracker[i].backup_count]
Among(s, i, f) == {j \in 1 .. i : s[j].file = f}
backups == [f \in JobFiles |-> Cardinality(Among(children, Len(children), f))]
HasSlot(f) == \E i \in Slots : names[i] = f

\* A thread with a job file has an entry that names one.
NamesHeld == \A t \in Jobs : file[t] # NoFile \/ pc[t] # "idle" => d_name[t] # NoFile

\* A job file is in the directory or named by one thread's entry, or it was
\* executed.
FilesApart ==
  /\ \A t \in Jobs : d_name[t] \notin dir
  /\ \A t, u \in Jobs : t # u /\ d_name[t] = d_name[u] => d_name[t] = NoFile

\* The slots behind the size are free, but for the one that a thread fills; no
\* file has two.
SlotsInUse ==
  /\ backup_tracker_size <= MAX_JOB_FILES
  /\ \A i \in Slots : i > backup_tracker_size => names[i] = NoFile
  /\ \A i \in Slots : i = backup_tracker_size /\ names[i] # NoFile =>
       \E t \in Jobs : where[t] \in {"count", "grow", "store"} /\ d_name[t] = names[i]
  /\ \A i, j \in Slots : i # j /\ names[i] = names[j] => names[i] = NoFile

\* What a thread that fills a slot can rely on, statement by statement.
FillsSlot(t) ==
  /\ where[t] \in {"name", "count"} => backups[d_name[t]] = 0
  /\ where[t] = "name" => backup_tracker_size \in Slots /\ ~HasSlot(d_name[t])
  /\ where[t] \in {"count", "grow", "store"} =>
       backup_tracker_size \in Slots /\ names[backup_tracker_size] = d_name[t]
  /\ where[t] = "store" => size_read[t] = backup_tracker_size
  /\ where[t] = "fetch" =>
       backup_tracker_size - 1 \in Slots /\ names[backup_tracker_size - 1] = d_name[t]
  /\ \A u \in Jobs : t \in Filling /\ u \in Filling => t = u

\* A slot has the number of its file's backups, and one more once a thread has
\* its number and has not forked.
SlotCounts(i) ==
  /\ \A t \in Jobs : d_name[t] = names[i] /\ t \in Numbered => counts[i] = backups[names[i]] + 1
  /\ (\A t \in Jobs : d_name[t] = names[i] => where[t] \in {"out", "search"})
       => counts[i] = backups[names[i]]

\* A file with backups has a slot unless the array is full.
SlotsMissing ==
  /\ \A f \in JobFiles : HasSlot(f) \/ backups[f] = 0 \/ backup_tracker_size = MAX_JOB_FILES
  /\ \A t \in Jobs : where[t] = "done" => HasSlot(d_name[t]) \/ backup_tracker_size = MAX_JOB_FILES

NumberGiven(t) == where[t] = "done" => backup_count[t] \in {-1, backups[d_name[t]] + 1}

ChildrenNumbered ==
  \A i \in 1 .. Len(children) :
    children[i].number \in {-1, Cardinality(Among(children, i, children[i].file))}

TrackerInOrder == /\ SlotsInUse /\ SlotsMissing
                  /\ \A t \in Jobs : FillsSlot(t) /\ NumberGiven(t)
                  /\ \A i \in Slots : names[i] # NoFile => SlotCounts(i)

NumbersRight == FilesApart /\ (~raced => TrackerInOrder /\ ChildrenNumbered)

NumberInv == ~refilled => NamesHeld /\ NumbersRight

\* A thread's statement in get_backup_count and what it does to the columns.
LEMMA Columns ==
  ASSUME BackupTypes, AtBackup, NamesHeld, FilesApart, NEW t \in Jobs, pc[t] = "fork"
  PROVE  /\ names \in [Slots -> JobFiles \cup {NoFile}] /\ counts \in [Slots -> Nat]
         /\ backup_tracker_size \in Nat /\ MAX_JOB_FILES \in Nat
         /\ d_name[t] \in JobFiles /\ d_name[t] # NoFile
         /\ \A x \in Jobs : d_name[x] = d_name[t] => x = t
         /\ \A f : HasSlot(f) => Slot(f) \in Slots /\ names[Slot(f)] = f
         /\ \A i \in Slots : i \in Nat /\ i < MAX_JOB_FILES
         /\ \A i \in Nat : i < MAX_JOB_FILES => i \in Slots
<1>1. names \in [Slots -> JobFiles \cup {NoFile}] /\ counts \in [Slots -> Nat]
  BY DEF BackupTypes, TrackerTypes, names, counts
<1>2. d_name[t] \in JobFiles /\ d_name[t] # NoFile /\ \A x \in Jobs : d_name[x] = d_name[t] => x = t
  BY TrackerAssumption DEF AtBackup, BackupTypes, NamesHeld, FilesApart
<1>3. \A f : HasSlot(f) => Slot(f) \in Slots /\ names[Slot(f)] = f
  BY FirstSlot DEF HasSlot, names
<1> QED BY <1>1, <1>2, <1>3, TrackerAssumption DEF Slots, BackupTypes, TrackerTypes

\* The children's number of a file is a number.
LEMMA BackupsType ==
  ASSUME children \in Seq(Child)
  PROVE  backups \in [JobFiles -> Nat]
<1>1. \A f \in JobFiles : Cardinality(Among(children, Len(children), f)) \in Nat
  <2> SUFFICES ASSUME NEW f \in JobFiles PROVE Cardinality(Among(children, Len(children), f)) \in Nat
    OBVIOUS
  <2>1. IsFiniteSet(1 .. Len(children))
    BY LenProperties, FS_Interval
  <2>2. Among(children, Len(children), f) \in SUBSET (1 .. Len(children))
    BY DEF Among
  <2> QED BY <2>1, <2>2, FS_Subset, FS_CardinalityType
<1> QED BY <1>1 DEF backups

\* A file that is found in its slot.
LEMMA FoundInOrder ==
  ASSUME BackupInv, NamesHeld, FilesApart, TrackerInOrder, NEW t \in Jobs, pc[t] = "fork",
         UNCHANGED <<d_name, children, backup_tracker_size, size_read>>, backups' = backups,
         where[t] = "search", where' = [where EXCEPT ![t] = "done"],
         HasSlot(d_name[t]), names' = names,
         counts' = [counts EXCEPT ![Slot(d_name[t])] = counts[Slot(d_name[t])] + 1],
         backup_count' = [backup_count EXCEPT ![t] = counts[Slot(d_name[t])] + 1]
  PROVE  TrackerInOrder'
<1> DEFINE f == d_name[t]
           k == Slot(d_name[t])
<1>1. /\ names \in [Slots -> JobFiles \cup {NoFile}] /\ counts \in [Slots -> Nat]
      /\ f \in JobFiles /\ f # NoFile /\ k \in Slots /\ names[k] = f
      /\ \A x \in Jobs : d_name[x] = f => x = t
  BY Columns DEF BackupInv
<1>2. /\ where'[t] = "done" /\ \A x \in Jobs \ {t} : where'[x] = where[x]
      /\ backup_count' \in [Jobs -> Nat \cup {-1}]
      /\ \A x \in Jobs \ {t} : backup_count'[x] = backup_count[x]
      /\ backup_count'[t] = counts[k] + 1
  BY <1>1 DEF BackupInv, BackupTypes, TrackerTypes
<1>3. counts[k] = backups[f]
  BY <1>1 DEF TrackerInOrder, SlotCounts
<1>4. /\ \A x \in Jobs : x \in Filling' <=> x \in Filling
      /\ \A x \in Jobs \ {t} : x \in Numbered' <=> x \in Numbered
  BY <1>2 DEF Filling, Numbered
<1>5. \A i \in Slots : i # k /\ names[i] # NoFile => names[i] # f
  BY <1>1 DEF TrackerInOrder, SlotsInUse
<1> HIDE DEF f, k
<1>6. SlotsInUse'
  BY <1>2 DEF TrackerInOrder, SlotsInUse
<1>7. SlotsMissing'
  BY <1>2 DEF TrackerInOrder, SlotsMissing, HasSlot
<1>8. ASSUME NEW x \in Jobs PROVE FillsSlot(x)' /\ NumberGiven(x)'
  <2>1. FillsSlot(x)'
    BY <1>2, <1>4 DEF TrackerInOrder, FillsSlot, HasSlot
  <2>2. NumberGiven(x)'
    BY <1>2, <1>3 DEF TrackerInOrder, NumberGiven, f
  <2> QED BY <2>1, <2>2
<1>9. ASSUME NEW i \in Slots, names[i] # NoFile PROVE SlotCounts(i)'
  <2>1. CASE i = k
    BY <1>1, <1>2, <1>3, <2>1 DEF SlotCounts, f, k
  <2>2. CASE i # k
    <3>1. SlotCounts(i) /\ counts'[i] = counts[i]
      BY <1>1, <1>9, <2>2 DEF TrackerInOrder, k
    <3>2. \A x \in Jobs : d_name[x] = names[i] => x # t
      BY <1>5, <1>9, <2>2 DEF f
    <3> QED BY <1>2, <1>4, <3>1, <3>2 DEF SlotCounts
  <2> QED BY <2>1, <2>2
<1> QED BY <1>6, <1>7, <1>8, <1>9 DEF TrackerInOrder

\* A file that is not found begins to fill a slot, or the array is full.
LEMMA NotFoundInOrder ==
  ASSUME BackupInv, NamesHeld, FilesApart, TrackerInOrder, NEW t \in Jobs, pc[t] = "fork",
         UNCHANGED <<d_name, children, backup_tracker_size, size_read>>, backups' = backups,
         names' = names, counts' = counts,
         where[t] = "search", ~HasSlot(d_name[t]),
         \/ /\ backup_tracker_size < MAX_JOB_FILES /\ Filling = {}
            /\ where' = [where EXCEPT ![t] = "name"] /\ backup_count' = backup_count
         \/ /\ ~(backup_tracker_size < MAX_JOB_FILES)
            /\ where' = [where EXCEPT ![t] = "done"]
            /\ backup_count' = [backup_count EXCEPT ![t] = -1]
  PROVE  TrackerInOrder'
<1> DEFINE f == d_name[t]
<1>1. /\ f \in JobFiles /\ f # NoFile /\ \A x \in Jobs : d_name[x] = f => x = t
      /\ backup_tracker_size \in Nat /\ MAX_JOB_FILES \in Nat
      /\ backup_tracker_size < MAX_JOB_FILES => backup_tracker_size \in Slots
      /\ backup_tracker_size <= MAX_JOB_FILES
  BY Columns DEF BackupInv, TrackerInOrder, SlotsInUse
<1>2. /\ where'[t] \in {"name", "done"} /\ \A x \in Jobs \ {t} : where'[x] = where[x]
      /\ \A x \in Jobs \ {t} : backup_count'[x] = backup_count[x]
      /\ where'[t] = "done" => backup_count'[t] = -1 /\ backup_tracker_size = MAX_JOB_FILES
      /\ where'[t] = "name" => backup_tracker_size < MAX_JOB_FILES /\ Filling = {}
  BY <1>1 DEF BackupInv, BackupTypes, TrackerTypes
<1>3. /\ \A x \in Jobs \ {t} : (x \in Filling' <=> x \in Filling) /\ (x \in Numbered' <=> x \in Numbered)
      /\ t \in Filling' => Filling = {}
      /\ \A x \in Jobs : x \in Filling => x # t
  BY <1>2 DEF Filling, Numbered
<1>4. \A i \in Slots : names[i] # f
  BY DEF HasSlot
<1>5. where'[t] = "name" => backups[f] = 0
  BY <1>1, <1>2 DEF TrackerInOrder, SlotsMissing
<1>6. SlotsInUse'
  BY <1>2 DEF TrackerInOrder, SlotsInUse
<1>7. SlotsMissing'
  BY <1>2 DEF TrackerInOrder, SlotsMissing, HasSlot
<1>8. ASSUME NEW x \in Jobs PROVE FillsSlot(x)' /\ NumberGiven(x)'
  <2>1. CASE x = t
    <3>1. FillsSlot(x)'
      BY <1>1, <1>2, <1>3, <1>5, <2>1 DEF FillsSlot, HasSlot
    <3> QED BY <1>2, <2>1, <3>1 DEF NumberGiven
  <2>2. CASE x # t
    <3>1. FillsSlot(x)'
      BY <1>2, <1>3, <2>2 DEF TrackerInOrder, FillsSlot, HasSlot
    <3> QED BY <1>2, <2>2, <3>1 DEF TrackerInOrder, NumberGiven
  <2> QED BY <2>1, <2>2
<1>9. ASSUME NEW i \in Slots, names[i] # NoFile PROVE SlotCounts(i)'
  <2>1. SlotCounts(i) /\ \A x \in Jobs : d_name[x] = names[i] => x # t
    BY <1>4, <1>9 DEF TrackerInOrder
  <2> QED BY <1>2, <1>3, <2>1 DEF SlotCounts
<1> QED BY <1>6, <1>7, <1>8, <1>9 DEF TrackerInOrder

\* The name goes into the slot behind those in use.
LEMMA NameInOrder ==
  ASSUME BackupInv, NamesHeld, FilesApart, TrackerInOrder, NEW t \in Jobs, pc[t] = "fork",
         UNCHANGED <<d_name, children, backup_tracker_size, size_read, backup_count>>,
         backups' = backups, counts' = counts,
         where[t] = "name", where' = [where EXCEPT ![t] = "count"],
         names' = [names EXCEPT ![backup_tracker_size] = d_name[t]]
  PROVE  TrackerInOrder'
<1> DEFINE f == d_name[t]
           k == backup_tracker_size
<1>1. /\ names \in [Slots -> JobFiles \cup {NoFile}] /\ f \in JobFiles /\ f # NoFile
      /\ \A x \in Jobs : d_name[x] = f => x = t
      /\ k \in Slots /\ k \in Nat /\ k < MAX_JOB_FILES /\ MAX_JOB_FILES \in Nat
      /\ \A i \in Slots : i \in Nat
      /\ ~HasSlot(f) /\ backups[f] = 0
  BY Columns DEF BackupInv, TrackerInOrder, FillsSlot
<1>2. where'[t] = "count" /\ \A x \in Jobs \ {t} : where'[x] = where[x]
  BY DEF BackupInv, BackupTypes, TrackerTypes
<1>3. /\ \A x \in Jobs : (x \in Filling' <=> x \in Filling) /\ (x \in Numbered' <=> x \in Numbered)
      /\ t \in Filling /\ \A x \in Filling : x = t
  BY <1>2 DEF Filling, Numbered, TrackerInOrder, FillsSlot
<1>4. names'[k] = f /\ \A i \in Slots \ {k} : names'[i] = names[i] /\ names[i] # f
  BY <1>1 DEF HasSlot
<1>5. names[k] = NoFile
  BY <1>1, <1>3 DEF TrackerInOrder, SlotsInUse, Filling
<1>6. \A g \in JobFiles : HasSlot(g) => HasSlot(g)'
  BY <1>1, <1>4, <1>5, TrackerAssumption DEF HasSlot
<1>7. SlotsInUse'
  <2>1. \A i \in Slots : i > k => names'[i] = NoFile
    BY <1>1, <1>4 DEF TrackerInOrder, SlotsInUse
  <2>2. \A i, j \in Slots : i # j /\ names'[i] = names'[j] => names'[i] = NoFile
    BY <1>4 DEF TrackerInOrder, SlotsInUse
  <2> QED BY <1>1, <1>2, <1>4, <2>1, <2>2 DEF SlotsInUse
<1>8. SlotsMissing'
  <2>1. ASSUME NEW g \in JobFiles
        PROVE  HasSlot(g)' \/ backups'[g] = 0 \/ k = MAX_JOB_FILES
    BY <1>6 DEF TrackerInOrder, SlotsMissing
  <2>2. ASSUME NEW x \in Jobs, where'[x] = "done" PROVE HasSlot(d_name[x])'
    <3>1. x # t /\ HasSlot(d_name[x]) /\ d_name[x] # NoFile
      <4>1. where[x] = "done"
        BY <1>2, <2>2
      <4>2. d_name[x] \in JobFiles
        BY <4>1, TrackerAssumption DEF BackupInv, BackupTypes, AtBackup, NamesHeld
      <4>3. HasSlot(d_name[x])
        BY <1>1, <4>1 DEF TrackerInOrder, SlotsMissing
      <4> QED BY <4>1, <4>2, <4>3, TrackerAssumption
    <3>2. PICK i \in Slots : names[i] = d_name[x]
      BY <3>1 DEF HasSlot
    <3> QED BY <1>4, <1>5, <3>1, <3>2 DEF HasSlot
  <2> QED BY <2>1, <2>2 DEF SlotsMissing
<1>9. ASSUME NEW x \in Jobs PROVE FillsSlot(x)' /\ NumberGiven(x)'
  <2>1. CASE x = t
    BY <1>1, <1>2, <1>3, <1>4, <2>1 DEF FillsSlot, NumberGiven
  <2>2. CASE x # t
    <3>1. where'[x] \notin {"name", "count", "grow", "store", "fetch"} /\ x \notin Filling'
      BY <1>2, <1>3, <2>2 DEF Filling
    <3> QED BY <1>2, <2>2, <3>1 DEF TrackerInOrder, FillsSlot, NumberGiven
  <2> QED BY <2>1, <2>2
<1>10. ASSUME NEW i \in Slots, names'[i] # NoFile PROVE SlotCounts(i)'
  <2>1. CASE i = k
    BY <1>1, <1>2, <1>4, <2>1 DEF SlotCounts, Numbered
  <2>2. CASE i # k
    <3>1. SlotCounts(i) /\ names'[i] = names[i] /\ \A x \in Jobs : d_name[x] = names[i] => x # t
      BY <1>4, <1>10, <2>2 DEF TrackerInOrder
    <3> QED BY <1>2, <1>3, <3>1 DEF SlotCounts
  <2> QED BY <2>1, <2>2
<1> QED BY <1>7, <1>8, <1>9, <1>10 DEF TrackerInOrder

\* The steps of the one thread that fills a slot change no name.
LEMMA FillerInOrder ==
  ASSUME BackupInv, NamesHeld, FilesApart, TrackerInOrder, NEW t \in Jobs, pc[t] = "fork",
         UNCHANGED <<d_name, children>>, backups' = backups, names' = names,
         \/ /\ where[t] = "count" /\ where' = [where EXCEPT ![t] = "grow"]
            /\ counts' = [counts EXCEPT ![backup_tracker_size] = 1]
            /\ UNCHANGED <<backup_tracker_size, size_read, backup_count>>
         \/ /\ where[t] = "grow" /\ where' = [where EXCEPT ![t] = "store"]
            /\ size_read' = [size_read EXCEPT ![t] = backup_tracker_size]
            /\ counts' = counts /\ UNCHANGED <<backup_tracker_size, backup_count>>
         \/ /\ where[t] = "store" /\ where' = [where EXCEPT ![t] = "fetch"]
            /\ backup_tracker_size' = size_read[t] + 1
            /\ counts' = counts /\ UNCHANGED backup_count
         \/ /\ where[t] = "fetch" /\ where' = [where EXCEPT ![t] = "done"]
            /\ backup_count' = [backup_count EXCEPT ![t] = counts[backup_tracker_size - 1]]
            /\ counts' = counts /\ UNCHANGED <<backup_tracker_size, size_read>>
  PROVE  TrackerInOrder'
<1> DEFINE f == d_name[t]
           k == backup_tracker_size
<1>1. /\ names \in [Slots -> JobFiles \cup {NoFile}] /\ counts \in [Slots -> Nat]
      /\ f \in JobFiles /\ f # NoFile
      /\ \A x \in Jobs : d_name[x] = f => x = t
      /\ k \in Nat /\ MAX_JOB_FILES \in Nat
      /\ \A i \in Slots : i \in Nat /\ i < MAX_JOB_FILES
      /\ \A i \in Nat : i < MAX_JOB_FILES => i \in Slots
  BY Columns DEF BackupInv
<1>2. /\ where'[t] \in {"grow", "store", "fetch", "done"}
      /\ \A x \in Jobs \ {t} : where'[x] = where[x]
      /\ \A x \in Jobs \ {t} : backup_count'[x] = backup_count[x]
      /\ where[t] = "count" => where'[t] = "grow"
      /\ where[t] = "grow" => where'[t] = "store" /\ size_read'[t] = k
      /\ where[t] = "store" => where'[t] = "fetch"
      /\ where[t] = "fetch" => where'[t] = "done" /\ backup_count'[t] = counts[k - 1]
  BY DEF BackupInv, BackupTypes, TrackerTypes
<1>3. /\ t \in Filling /\ \A x \in Filling : x = t
      /\ \A x \in Filling' : x = t
      /\ \A x \in Jobs \ {t} : x \in Numbered' <=> x \in Numbered
      /\ t \in Numbered'
  BY <1>2 DEF Filling, Numbered, TrackerInOrder, FillsSlot
<1>4. /\ where[t] # "fetch" => k \in Slots /\ names[k] = f
      /\ where[t] = "fetch" => k - 1 \in Slots /\ names[k - 1] = f
      /\ where[t] = "store" => size_read[t] = k
      /\ where[t] = "count" => backups[f] = 0
  BY DEF TrackerInOrder, FillsSlot
<1>5. /\ where[t] = "store" => k' = k + 1
      /\ where[t] # "store" => k' = k
  BY <1>4
<1>6. \A i, j \in Slots : names[i] = f /\ names[j] = f => i = j
  BY <1>1 DEF TrackerInOrder, SlotsInUse
<1>7. HasSlot(f)
  BY <1>4 DEF HasSlot
<1>8. \A i \in Slots : names[i] = f => counts'[i] = backups[f] + 1
  <2>1. where[t] # "count" => t \in Numbered /\ counts' = counts
    BY DEF Numbered
  <2>2. CASE where[t] = "count"
    <3>1. counts' = [counts EXCEPT ![k] = 1] /\ names[k] = f /\ k \in Slots /\ backups[f] = 0
      BY <1>4, <2>2
    <3> QED BY <1>1, <1>6, <3>1
  <2>3. CASE where[t] # "count"
    BY <1>1, <2>1, <2>3 DEF TrackerInOrder, SlotCounts
  <2> QED BY <2>2, <2>3
<1>9. \A i \in Slots : names[i] # f => counts'[i] = counts[i]
  <2>1. counts' = counts \/ (k \in Slots /\ names[k] = f /\ counts' = [counts EXCEPT ![k] = 1])
    BY <1>4
  <2> QED BY <1>1, <2>1
<1>10. SlotsInUse'
  <2>1. CASE where[t] = "store"
    <3>1. k \in Slots /\ k' = k + 1 /\ k' \in Nat /\ k' <= MAX_JOB_FILES
      BY <1>1, <1>4, <1>5, <2>1
    <3>2. \A i \in Slots : i >= k' => i > k
      BY <1>1, <3>1
    <3>3. \A i \in Slots : i >= k' => names[i] = NoFile
      BY <3>2 DEF TrackerInOrder, SlotsInUse
    <3> QED BY <1>1, <3>1, <3>3 DEF TrackerInOrder, SlotsInUse
  <2>2. CASE where[t] = "fetch"
    <3>1. k' = k /\ \A i \in Slots : i >= k => names[i] = NoFile
      <4>1. \A x \in Jobs : where[x] \notin {"count", "grow", "store"}
        BY <1>3, <2>2 DEF Filling
      <4> QED BY <1>1, <1>5, <2>2, <4>1 DEF TrackerInOrder, SlotsInUse
    <3> QED BY <1>1, <3>1 DEF TrackerInOrder, SlotsInUse
  <2>3. CASE where[t] \in {"count", "grow"}
    <3>1. k' = k /\ where'[t] \in {"grow", "store"}
      BY <1>2, <1>5, <2>3
    <3>2. \A i \in Slots : i = k => names[i] = f
      BY <1>4, <2>3
    <3> QED BY <1>1, <3>1, <3>2 DEF TrackerInOrder, SlotsInUse
  <2> QED BY <2>1, <2>2, <2>3
<1>11. SlotsMissing'
  <2>1. \A g : HasSlot(g)' <=> HasSlot(g)
    BY DEF HasSlot
  <2>2. k' # k => k # MAX_JOB_FILES
    BY <1>1, <1>4, <1>5
  <2>3. ASSUME NEW g \in JobFiles
        PROVE  HasSlot(g)' \/ backups'[g] = 0 \/ k' = MAX_JOB_FILES
    BY <2>1, <2>2 DEF TrackerInOrder, SlotsMissing
  <2>4. ASSUME NEW x \in Jobs, where'[x] = "done"
        PROVE  HasSlot(d_name[x]) \/ k' = MAX_JOB_FILES
    BY <1>2, <1>7, <2>2, <2>4 DEF TrackerInOrder, SlotsMissing
  <2>5. \A x \in Jobs : HasSlot(d_name[x])' <=> HasSlot(d_name[x])
    BY DEF HasSlot
  <2> QED BY <2>3, <2>4, <2>5 DEF SlotsMissing
<1>12. ASSUME NEW x \in Jobs PROVE FillsSlot(x)' /\ NumberGiven(x)'
  <2>1. CASE x = t
    <3>1. FillsSlot(x)'
      <4>1. where[t] # "store" => k' = k /\ where'[t] # "fetch"
        BY <1>2, <1>5
      <4>2. where[t] = "store" => where'[t] = "fetch" /\ k' - 1 = k /\ k \in Slots /\ names[k] = f
        BY <1>1, <1>2, <1>4, <1>5
      <4>3. where'[t] \in {"grow", "store"} => k' = k /\ k \in Slots /\ names[k] = f
        BY <1>2, <1>4, <1>5, <4>2
      <4>4. where'[t] = "store" => size_read'[t] = k
        BY <1>2
      <4>5. where'[t] = "fetch" => k' - 1 \in Slots /\ names[k' - 1] = f
        BY <1>2, <4>1, <4>2
      <4> QED BY <1>2, <1>3, <2>1, <4>3, <4>4, <4>5 DEF FillsSlot
    <3>2. NumberGiven(x)'
      <4>1. where'[t] = "done" => backup_count'[t] = backups[f] + 1
        BY <1>2, <1>4, <1>8
      <4> QED BY <2>1, <4>1 DEF NumberGiven
    <3> QED BY <3>1, <3>2
  <2>2. CASE x # t
    <3>1. where'[x] \notin {"name", "count", "grow", "store", "fetch"} /\ x \notin Filling'
      BY <1>2, <1>3, <2>2 DEF Filling
    <3> QED BY <1>2, <2>2, <3>1 DEF TrackerInOrder, FillsSlot, NumberGiven
  <2> QED BY <2>1, <2>2
<1>13. ASSUME NEW i \in Slots, names[i] # NoFile PROVE SlotCounts(i)'
  <2>1. CASE names[i] = f
    BY <1>2, <1>8, <2>1 DEF SlotCounts
  <2>2. CASE names[i] # f
    <3>1. SlotCounts(i) /\ counts'[i] = counts[i] /\ \A x \in Jobs : d_name[x] = names[i] => x # t
      BY <1>9, <1>13, <2>2 DEF TrackerInOrder
    <3> QED BY <1>2, <1>3, <3>1 DEF SlotCounts
  <2> QED BY <2>1, <2>2
<1> QED BY <1>10, <1>11, <1>12, <1>13 DEF TrackerInOrder

\* Every statement of get_backup_count.
LEMMA TrackInOrder ==
  ASSUME LockInv, BackupInv, NamesHeld, NumbersRight, NEW t \in Jobs, Track(t)
  PROVE  NumbersRight'
<1> DEFINE f == d_name[t]
           k == backup_tracker_size
<1>1. /\ pc[t] = "fork" /\ get_backup_count(t, f) /\ UNCHANGED <<dir, d_name, refilled, children>>
  BY DEF Track, fileVars, gateVars
<1>2. FilesApart'
  BY <1>1 DEF NumbersRight, FilesApart
<1>3. backups' = backups
  BY <1>1 DEF backups, Among
<1>4. ChildrenNumbered => ChildrenNumbered'
  BY <1>1 DEF ChildrenNumbered, Among
<1>5. /\ names \in [Slots -> JobFiles \cup {NoFile}] /\ counts \in [Slots -> Nat]
      /\ f \in JobFiles /\ (HasSlot(f) => Slot(f) \in Slots)
      /\ backup_tracker \in [Slots -> [job_file_name: JobFiles \cup {NoFile}, backup_count: Nat]]
  BY <1>1, Columns DEF BackupInv, BackupTypes, TrackerTypes, NumbersRight
<1>6. backup_tracker' = backup_tracker => names' = names /\ counts' = counts
  BY DEF names, counts
<1>7. SUFFICES ASSUME ~raced' PROVE TrackerInOrder' /\ ChildrenNumbered'
  BY <1>2 DEF NumbersRight
<1>8. ~raced
  BY <1>1, <1>7 DEF get_backup_count, Search, Name, CountOne, GrowLoad, GrowStore, Fetch
<1>9. FilesApart /\ TrackerInOrder /\ ChildrenNumbered'
  BY <1>4, <1>8 DEF NumbersRight
<1>10. HasSlot(f) <=> \E i \in Slots : backup_tracker[i].job_file_name = f
  BY DEF HasSlot, names
<1>11. CASE Search(t, f) /\ UNCHANGED <<backup_tracker_size, size_read>>
  <2>1. where[t] = "search"
    BY <1>11 DEF Search, At
  <2>2. CASE HasSlot(f)
    <3>1. /\ where' = [where EXCEPT ![t] = "done"]
          /\ backup_tracker' = [backup_tracker EXCEPT ![Slot(f)].backup_count = @ + 1]
          /\ backup_count' = [backup_count EXCEPT ![t] = backup_tracker[Slot(f)].backup_count + 1]
      BY <1>10, <1>11, <2>2 DEF Search, At, Return
    <3>2. counts[Slot(f)] = backup_tracker[Slot(f)].backup_count
      BY <1>5, <2>2 DEF counts
    <3>3. names' = names
      BY <1>5, <2>2, <3>1 DEF names
    <3>4. counts' = [counts EXCEPT ![Slot(f)] = counts[Slot(f)] + 1]
      BY <1>5, <2>2, <3>1 DEF counts
    <3> QED BY <1>1, <1>3, <1>9, <1>11, <2>1, <2>2, <3>1, <3>2, <3>3, <3>4, FoundInOrder
  <2>3. CASE ~HasSlot(f)
    <3>1. /\ names' = names /\ counts' = counts
          /\ \/ /\ k < MAX_JOB_FILES /\ Filling = {}
                /\ where' = [where EXCEPT ![t] = "name"] /\ backup_count' = backup_count
             \/ /\ ~(k < MAX_JOB_FILES)
                /\ where' = [where EXCEPT ![t] = "done"]
                /\ backup_count' = [backup_count EXCEPT ![t] = -1]
      BY <1>6, <1>7, <1>8, <1>10, <1>11, <2>3 DEF Search, At, Return, BackupInv, BackupTypes, TrackerTypes
    <3> QED BY <1>1, <1>3, <1>9, <1>11, <2>1, <2>3, <3>1, NotFoundInOrder
  <2> QED BY <1>9, <2>2, <2>3
<1>12. CASE Name(t, f) /\ UNCHANGED <<backup_tracker_size, size_read>>
  <2>1. /\ where[t] = "name" /\ where' = [where EXCEPT ![t] = "count"] /\ UNCHANGED backup_count
        /\ backup_tracker' = [i \in Slots |->
             IF i = k THEN [backup_tracker[i] EXCEPT !.job_file_name = f] ELSE backup_tracker[i]]
    BY <1>12 DEF Name, At
  <2>2. names' = [names EXCEPT ![k] = f]
    BY <1>5, <2>1 DEF names
  <2>3. counts' = counts
    BY <1>5, <2>1 DEF counts
  <2> QED BY <1>1, <1>3, <1>9, <1>12, <2>1, <2>2, <2>3, NameInOrder
<1>13. CASE CountOne(t) /\ UNCHANGED <<backup_tracker_size, size_read>>
  <2>1. /\ where[t] = "count" /\ where' = [where EXCEPT ![t] = "grow"] /\ UNCHANGED backup_count
        /\ backup_tracker' = [i \in Slots |->
             IF i = k THEN [backup_tracker[i] EXCEPT !.backup_count = 1] ELSE backup_tracker[i]]
    BY <1>13 DEF CountOne, At
  <2>2. names' = names
    BY <1>5, <2>1 DEF names
  <2>3. counts' = [counts EXCEPT ![k] = 1]
    BY <1>5, <2>1 DEF counts
  <2> QED BY <1>1, <1>3, <1>9, <1>13, <2>1, <2>2, <2>3, FillerInOrder
<1>14. CASE GrowLoad(t)
  BY <1>1, <1>3, <1>6, <1>9, <1>14, FillerInOrder DEF GrowLoad, At
<1>15. CASE GrowStore(t)
  BY <1>1, <1>3, <1>6, <1>9, <1>15, FillerInOrder DEF GrowStore, At
<1>16. CASE Fetch(t) /\ UNCHANGED <<backup_tracker_size, size_read>>
  <2>1. /\ where[t] = "fetch" /\ where' = [where EXCEPT ![t] = "done"] /\ UNCHANGED backup_tracker
    BY <1>16 DEF Fetch, At
  <2>2. k - 1 \in Slots
    BY <1>9, <2>1 DEF TrackerInOrder, FillsSlot
  <2>3. backup_count' = [backup_count EXCEPT ![t] = counts[k - 1]]
    BY <1>16, <2>2 DEF Fetch, Return, counts
  <2> QED BY <1>1, <1>3, <1>6, <1>9, <1>16, <2>1, <2>3, FillerInOrder
<1> QED BY <1>1, <1>11, <1>12, <1>13, <1>14, <1>15, <1>16 DEF get_backup_count

\* A step that leaves the tracker alone, but may bring threads to it, and that
\* changes neither the files nor the numbers of the children.
LEMMA TrackerAside ==
  ASSUME BackupInv, NumbersRight, FilesApart',
         UNCHANGED <<backup_tracker, backup_tracker_size, size_read, backup_count, raced>>,
         \A x \in Jobs : \/ where'[x] = where[x] /\ (where[x] # "out" => d_name'[x] = d_name[x])
                         \/ where[x] = "out" /\ where'[x] = "search" /\ d_name'[x] = d_name[x],
         \A x \in Jobs : d_name'[x] # d_name[x] => d_name'[x] \in dir,
         Len(children') = Len(children),
         \A j \in 1 .. Len(children) : /\ children'[j].file = children[j].file
                                       /\ children'[j].number = children[j].number
  PROVE  NumbersRight'
<1>1. names' = names /\ counts' = counts
  BY DEF names, counts
<1>2. \A i \in 1 .. Len(children) : \A f : Among(children', i, f) = Among(children, i, f)
  <2> SUFFICES ASSUME NEW i \in 1 .. Len(children), NEW f PROVE Among(children', i, f) = Among(children, i, f)
    OBVIOUS
  <2>1. 1 .. i \subseteq 1 .. Len(children)
    BY LenProperties DEF BackupInv, BackupTypes
  <2> QED BY <2>1 DEF Among
<1>3. backups' = backups
  <2>1. \A f : Among(children', Len(children'), f) = Among(children, Len(children), f)
    BY DEF Among
  <2> QED BY <2>1 DEF backups
<1>4. ChildrenNumbered => ChildrenNumbered'
  BY <1>2 DEF ChildrenNumbered
<1>5. /\ \A x \in Jobs : x \in Filling' <=> x \in Filling
      /\ \A x \in Jobs : x \in Numbered' <=> x \in Numbered
  BY DEF Filling, Numbered
<1>6. SUFFICES ASSUME TrackerInOrder, ~raced PROVE TrackerInOrder'
  BY <1>4 DEF NumbersRight
<1>7. SlotsInUse'
  BY <1>1, <1>6 DEF TrackerInOrder, SlotsInUse
<1>8. SlotsMissing'
  BY <1>1, <1>3, <1>6 DEF TrackerInOrder, SlotsMissing, HasSlot
<1>9. ASSUME NEW x \in Jobs PROVE FillsSlot(x)' /\ NumberGiven(x)'
  BY <1>1, <1>3, <1>5, <1>6 DEF TrackerInOrder, FillsSlot, NumberGiven, HasSlot
<1>10. ASSUME NEW i \in Slots, names[i] # NoFile PROVE SlotCounts(i)'
  <2>1. SlotCounts(i)
    BY <1>6, <1>10 DEF TrackerInOrder
  <2>2. ASSUME NEW x \in Jobs, d_name'[x] = names[i], x \in Numbered'
        PROVE  counts[i] = backups[names[i]] + 1
    BY <1>5, <2>1, <2>2 DEF SlotCounts, Numbered
  <2>3. ASSUME \A x \in Jobs : d_name'[x] = names[i] => where'[x] \in {"out", "search"}
        PROVE  counts[i] = backups[names[i]]
    <3>1. ASSUME NEW x \in Jobs, d_name[x] = names[i] PROVE where[x] \in {"out", "search"}
      BY <2>3, <3>1
    <3> QED BY <2>1, <3>1 DEF SlotCounts
  <2> QED BY <1>1, <1>3, <2>2, <2>3 DEF SlotCounts
<1> QED BY <1>1, <1>7, <1>8, <1>9, <1>10 DEF TrackerInOrder

\* A fork makes the thread's number that of a child.
LEMMA ForkInOrder ==
  ASSUME LockInv, BackupInv, NamesHeld, NumbersRight, NEW t \in Jobs, Fork(t)
  PROVE  NumbersRight'
<1> DEFINE f == d_name[t]
           n == Len(children)
<1>1. /\ pc[t] = "fork" /\ where[t] = "done" /\ where' = [where EXCEPT ![t] = "out"]
      /\ backup_count' = [backup_count EXCEPT ![t] = 0]
      /\ UNCHANGED <<dir, d_name, refilled, backup_tracker, backup_tracker_size, size_read, raced>>
  BY DEF Fork, Leave, At, Return, fileVars
<1>2. /\ Len(children') = n + 1 /\ n \in Nat
      /\ children'[n + 1].file = f /\ children'[n + 1].number = backup_count[t]
      /\ \A j \in 1 .. n : children'[j] = children[j]
  <2>1. children' = Append(children, [st |-> "running", blocked |-> {b \in Buckets : wr[b] # NoThread},
          file |-> f, number |-> backup_count[t], whole |-> contents = committed])
    BY DEF Fork
  <2>2. children \in Seq(Child)
    BY DEF BackupInv, BackupTypes
  <2> QED BY <2>1, <2>2, AppendProperties, LenProperties
<1>3. /\ where'[t] = "out" /\ \A x \in Jobs \ {t} : where'[x] = where[x]
      /\ \A x \in Jobs \ {t} : backup_count'[x] = backup_count[x]
  BY <1>1 DEF BackupInv, BackupTypes, TrackerTypes
<1>4. FilesApart /\ FilesApart' /\ names' = names /\ counts' = counts
  BY <1>1 DEF NumbersRight, FilesApart, names, counts
<1>5. SUFFICES ASSUME TrackerInOrder, ChildrenNumbered, ~raced
               PROVE  TrackerInOrder' /\ ChildrenNumbered'
  BY <1>1, <1>4 DEF NumbersRight
<1>6. f \in JobFiles /\ f # NoFile /\ \A x \in Jobs : d_name[x] = f => x = t
  BY <1>1, <1>4, Columns DEF BackupInv
<1>7. \A i \in 1 .. n : \A g : Among(children', i, g) = Among(children, i, g)
  <2> SUFFICES ASSUME NEW i \in 1 .. n, NEW g PROVE Among(children', i, g) = Among(children, i, g)
    OBVIOUS
  <2>1. 1 .. i \subseteq 1 .. n
    BY <1>2
  <2> QED BY <1>2, <2>1 DEF Among
<1>8. backups \in [JobFiles -> Nat]
  BY BackupsType DEF BackupInv, BackupTypes
<1>9. /\ Cardinality(Among(children', n + 1, f)) = backups[f] + 1 /\ backups'[f] = backups[f] + 1
      /\ \A g \in JobFiles \ {f} : backups'[g] = backups[g]
  <2>1. \A g \in JobFiles : Among(children', n + 1, g) = IF g = f THEN Among(children, n, g) \cup {n + 1} ELSE Among(children, n, g)
    <3> SUFFICES ASSUME NEW g \in JobFiles
                 PROVE  Among(children', n + 1, g) = IF g = f THEN Among(children, n, g) \cup {n + 1} ELSE Among(children, n, g)
      OBVIOUS
    <3>1. 1 .. n + 1 = (1 .. n) \cup {n + 1} /\ n + 1 \notin 1 .. n
      BY <1>2
    <3> HIDE DEF n
    <3> QED BY <1>2, <3>1 DEF Among
  <2>2. \A g \in JobFiles : backups[g] = Cardinality(Among(children, n, g))
    BY DEF backups
  <2>3. \A g \in JobFiles : backups'[g] = Cardinality(Among(children', n + 1, g))
    BY <1>2 DEF backups, Among
  <2>4. Cardinality(Among(children, n, f) \cup {n + 1}) = Cardinality(Among(children, n, f)) + 1
    <3>1. IsFiniteSet(1 .. n) /\ Among(children, n, f) \in SUBSET (1 .. n) /\ n + 1 \notin 1 .. n
      BY <1>2, FS_Interval DEF Among
    <3>2. IsFiniteSet(Among(children, n, f)) /\ n + 1 \notin Among(children, n, f)
      BY <3>1, FS_Subset
    <3> QED BY <3>2, FS_AddElement
  <2> QED BY <1>6, <2>1, <2>2, <2>3, <2>4
<1>10. backup_count[t] \in {-1, backups[f] + 1} /\ (HasSlot(f) \/ backup_tracker_size = MAX_JOB_FILES)
  BY <1>1, <1>5 DEF TrackerInOrder, NumberGiven, SlotsMissing
<1>11. ChildrenNumbered'
  <2>1. ASSUME NEW i \in 1 .. n + 1
        PROVE  children'[i].number \in {-1, Cardinality(Among(children', i, children'[i].file))}
    <3>1. CASE i = n + 1
      BY <1>2, <1>9, <1>10, <3>1
    <3>2. CASE i \in 1 .. n
      BY <1>2, <1>5, <1>7, <3>2 DEF ChildrenNumbered
    <3> QED BY <1>2, <3>1, <3>2
  <2> QED BY <1>2, <2>1 DEF ChildrenNumbered
<1>12. /\ \A x \in Jobs : x \in Filling' <=> x \in Filling
       /\ \A x \in Jobs \ {t} : x \in Numbered' <=> x \in Numbered
       /\ t \in Numbered /\ t \notin Numbered'
  BY <1>1, <1>3 DEF Filling, Numbered
<1>13. SlotsInUse'
  BY <1>1, <1>3, <1>4, <1>5 DEF TrackerInOrder, SlotsInUse
<1>14. SlotsMissing'
  BY <1>1, <1>3, <1>4, <1>5, <1>9, <1>10 DEF TrackerInOrder, SlotsMissing, HasSlot
<1>15. ASSUME NEW x \in Jobs PROVE FillsSlot(x)' /\ NumberGiven(x)'
  <2>1. CASE x = t
    BY <1>1, <1>3, <1>12, <2>1 DEF FillsSlot, NumberGiven, Filling
  <2>2. CASE x # t
    <3>1. where[x] # "out" => d_name[x] \in JobFiles /\ d_name[x] # f
      BY <1>6, <2>2, TrackerAssumption DEF BackupInv, BackupTypes, AtBackup, NamesHeld
    <3>2. where[x] # "out" => backups'[d_name[x]] = backups[d_name[x]]
      BY <1>9, <3>1
    <3> QED BY <1>1, <1>3, <1>4, <1>5, <1>12, <2>2, <3>2
            DEF TrackerInOrder, FillsSlot, NumberGiven, HasSlot
  <2> QED BY <2>1, <2>2
<1>16. ASSUME NEW i \in Slots, names[i] # NoFile PROVE SlotCounts(i)'
  <2>1. SlotCounts(i)
    BY <1>5, <1>16 DEF TrackerInOrder
  <2>2. names[i] \in JobFiles
    BY <1>1, <1>4, <1>16, Columns DEF BackupInv
  <2>3. CASE names[i] = f
    <3>1. counts[i] = backups'[names[i]]
      BY <1>9, <1>12, <2>1, <2>3 DEF SlotCounts
    <3>2. \A x \in Jobs : d_name[x] = names[i] => x \notin Numbered'
      BY <1>6, <1>12, <2>3
    <3> QED BY <1>1, <1>4, <3>1, <3>2 DEF SlotCounts
  <2>4. CASE names[i] # f
    <3>1. /\ backups'[names[i]] = backups[names[i]]
          /\ \A x \in Jobs : d_name[x] = names[i] => x # t
      BY <1>9, <2>2, <2>4
    <3> QED BY <1>1, <1>3, <1>4, <1>12, <2>1, <3>1 DEF SlotCounts
  <2> QED BY <2>3, <2>4
<1> QED BY <1>4, <1>11, <1>13, <1>14, <1>15, <1>16 DEF TrackerInOrder

\* readdir changes the entry of its caller; an entry of another thread that shows
\* something else is recorded.
LEMMA NextEntry ==
  ASSUME NEW t \in Jobs, NEW f \in JobFiles, NextFile(t, f), ~refilled'
  PROVE  d_name' = [d_name EXCEPT ![t] = f]
BY DEF NextFile, Refill

\* A step in which no entry is overwritten leaves every thread with a job file an
\* entry that names one.
LEMMA NextNames ==
  ASSUME LockInv, BackupInv, NamesHeld, [Next]_vars, ~refilled'
  PROVE  NamesHeld'
<1>1. /\ pc \in [Jobs -> {"idle", "lock", "body", "unlock", "gate", "wait", "dec", "fork", "inc"}]
      /\ file \in [Jobs -> JobFiles \cup {NoFile}] /\ d_name \in [Jobs -> JobFiles \cup {NoFile}]
      /\ NoFile \notin JobFiles
  BY TrackerAssumption DEF LockInv, LockTypes, BackupInv, BackupTypes
<1>2. ASSUME UNCHANGED <<d_name, file>>, \A x \in Jobs : pc'[x] # "idle" => pc[x] # "idle" \/ file[x] # NoFile
      PROVE  NamesHeld'
  BY <1>2 DEF NamesHeld
<1>3. ASSUME NEW t \in Jobs, UNCHANGED fileVars, pc[t] # "idle" \/ file[t] # NoFile,
             pc' = pc \/ \E l : pc' = [pc EXCEPT ![t] = l]
      PROVE  NamesHeld'
  BY <1>1, <1>2, <1>3 DEF fileVars
<1>4. ASSUME NEW t \in Jobs, NEW f \in JobFiles, NextFile(t, f) PROVE NamesHeld'
  <2>1. /\ d_name' = [d_name EXCEPT ![t] = f] /\ pc' = pc
        /\ file' = [file EXCEPT ![t] = NoFile]
    BY <1>4, NextEntry DEF NextFile
  <2> QED BY <1>1, <2>1 DEF NamesHeld
<1>5. ASSUME NEW t \in Jobs, gen_path(t) PROVE NamesHeld'
  BY <1>1, <1>5 DEF gen_path, NamesHeld
<1>6. ASSUME NEW t \in Jobs, NEW c \in Commands, Command(t, c) PROVE NamesHeld'
  BY <1>3, <1>6 DEF Command, Goto
<1>7. ASSUME NEW t \in Jobs, Backup(t) PROVE NamesHeld'
  BY <1>3, <1>7 DEF Backup, Goto
<1>8. ASSUME NEW t \in Jobs, NEW b \in Buckets, Lock(t, b) PROVE NamesHeld'
  BY <1>3, <1>8 DEF Lock, Goto
<1>9. ASSUME NEW t \in Jobs, WritePair(t) \/ ReadPair(t) \/ DeletePair(t) \/ ShowBucket(t)
      PROVE  NamesHeld'
  BY <1>3, <1>9 DEF WritePair, ReadPair, DeletePair, ShowBucket, InBatch
<1>10. ASSUME NEW t \in Jobs, BatchDone(t) \/ Unlock(t) PROVE NamesHeld'
  BY <1>3, <1>10 DEF BatchDone, Unlock, Goto
<1>11. ASSUME NEW t \in Jobs,
              \/ Gate(t) \/ Wait(t) \/ DecLoad(t) \/ DecStore(t) \/ NotAJob(t) \/ Track(t)
              \/ Fork(t) \/ IncLoad(t) \/ IncStore(t)
       PROVE  NamesHeld'
  BY <1>3, <1>11 DEF Gate, Wait, DecLoad, DecStore, NotAJob, Track, Fork, IncLoad, IncStore, Goto
<1>12. ASSUME NEW i \in 1 .. MaxBackups, ChildPrints(i) PROVE NamesHeld'
  BY <1>2, <1>12 DEF ChildPrints, Ends, fileVars
<1>13. CASE UNCHANGED vars
  BY <1>2, <1>13 DEF vars, fileVars
<1> QED BY <1>4, <1>5, <1>6, <1>7, <1>8, <1>9, <1>10, <1>11, <1>12, <1>13 DEF Next, Step, Acquire

\* Every step keeps the numbers in order.
LEMMA NextNumbers ==
  ASSUME LockInv, BackupInv, NamesHeld, NumbersRight, [Next]_vars, ~refilled'
  PROVE  NumbersRight'
<1>1. /\ FilesApart
      /\ \A t \in Jobs : where[t] = "out" <=> pc[t] # "fork"
      /\ children \in Seq(Child) /\ d_name \in [Jobs -> JobFiles \cup {NoFile}]
      /\ where \in [Jobs -> {"out", "search", "name", "count", "grow", "store", "fetch", "done"}]
      /\ dir \subseteq JobFiles /\ NoFile \notin JobFiles
  BY TrackerAssumption DEF NumbersRight, BackupInv, AtBackup, BackupTypes, TrackerTypes
<1>2. ASSUME UNCHANGED <<fileVars, trackerVars>>, Len(children') = Len(children),
             \A j \in 1 .. Len(children) : /\ children'[j].file = children[j].file
                                           /\ children'[j].number = children[j].number
      PROVE  NumbersRight'
  <2>1. UNCHANGED <<dir, d_name, refilled, backup_tracker, backup_tracker_size, where, size_read, backup_count, raced>>
    BY <1>2 DEF fileVars, trackerVars
  <2>2. FilesApart'
    BY <1>1, <2>1 DEF FilesApart
  <2> QED BY <1>2, <2>1, <2>2, TrackerAside
<1>3. ASSUME UNCHANGED <<fileVars, backupVars>> PROVE NumbersRight'
  BY <1>2, <1>3 DEF backupVars, gateVars
<1>4. ASSUME NEW i \in DOMAIN children, NEW st \in {"zombie", "reaped"},
             children' = [children EXCEPT ![i].st = st], UNCHANGED <<fileVars, trackerVars>>
      PROVE  NumbersRight'
  BY <1>1, <1>2, <1>4, ChildMoves
<1>5. ASSUME NEW t \in Jobs, Enter(t), UNCHANGED <<dir, d_name, refilled, children>> PROVE NumbersRight'
  <2>1. /\ where[t] = "out" /\ where' = [where EXCEPT ![t] = "search"]
        /\ UNCHANGED <<backup_tracker, backup_tracker_size, size_read, backup_count, raced>>
    BY <1>5 DEF Enter, At
  <2>2. FilesApart'
    BY <1>1, <1>5 DEF FilesApart
  <2>3. \A x \in Jobs : where'[x] = where[x] \/ (where[x] = "out" /\ where'[x] = "search")
    BY <1>1, <2>1
  <2> QED BY <1>5, <2>1, <2>2, <2>3, TrackerAside
<1>6. ASSUME NEW t \in Jobs, NEW f \in JobFiles, NextFile(t, f) PROVE NumbersRight'
  <2>1. /\ pc[t] = "idle" /\ f \in dir /\ dir' = dir \ {f} /\ d_name' = [d_name EXCEPT ![t] = f]
        /\ UNCHANGED <<backup_tracker, backup_tracker_size, where, size_read, backup_count, raced, children>>
    BY <1>6, NextEntry DEF NextFile, backupVars, gateVars, trackerVars
  <2>2. /\ where[t] = "out" /\ d_name'[t] = f /\ f # NoFile
        /\ \A x \in Jobs \ {t} : d_name'[x] = d_name[x] /\ d_name[x] # f
    BY <1>1, <2>1 DEF FilesApart
  <2>3. FilesApart'
    BY <1>1, <2>1, <2>2 DEF FilesApart
  <2> QED BY <2>1, <2>2, <2>3, TrackerAside
<1>7. ASSUME NEW t \in Jobs, NEW c \in Commands, Command(t, c) PROVE NumbersRight'
  BY <1>3, <1>7 DEF Command
<1>8. ASSUME NEW t \in Jobs, NEW b \in Buckets, Lock(t, b) PROVE NumbersRight'
  BY <1>3, <1>8 DEF Lock
<1>9. ASSUME NEW t \in Jobs,
             \/ WritePair(t) \/ ReadPair(t) \/ DeletePair(t) \/ ShowBucket(t)
             \/ BatchDone(t) \/ Unlock(t) \/ Backup(t)
      PROVE  NumbersRight'
  BY <1>3, <1>9 DEF WritePair, ReadPair, DeletePair, ShowBucket, BatchDone, Unlock, Backup
<1>10. ASSUME NEW t \in Jobs, Gate(t) PROVE NumbersRight'
  <2>1. UNCHANGED fileVars /\ UNCHANGED <<dir, d_name, refilled, children>>
    BY <1>10 DEF Gate, fileVars, gateVars
  <2> QED BY <1>2, <1>5, <1>10, <2>1 DEF Gate
<1>11. ASSUME NEW t \in Jobs, Wait(t) PROVE NumbersRight'
  <2>1. UNCHANGED <<fileVars, trackerVars>>
    BY <1>11 DEF Wait
  <2>2. CASE UNCHANGED children
    BY <1>2, <2>1, <2>2
  <2>3. CASE \E i \in DOMAIN children : children' = [children EXCEPT ![i].st = "reaped"]
    BY <1>4, <2>1, <2>3
  <2> QED BY <1>11, <2>2, <2>3 DEF Wait
<1>12. ASSUME NEW t \in Jobs, DecLoad(t) \/ IncLoad(t) \/ IncStore(t) PROVE NumbersRight'
  BY <1>2, <1>12 DEF DecLoad, IncLoad, IncStore
<1>13. ASSUME NEW t \in Jobs, DecStore(t) PROVE NumbersRight'
  BY <1>5, <1>13 DEF DecStore, fileVars
<1>14. ASSUME NEW i \in 1 .. MaxBackups, ChildPrints(i) PROVE NumbersRight'
  BY <1>4, <1>14 DEF ChildPrints, Ends
<1>15. ASSUME NEW t \in Jobs, Track(t) \/ Fork(t) PROVE NumbersRight'
  BY <1>15, TrackInOrder, ForkInOrder
<1>16. CASE UNCHANGED vars
  BY <1>3, <1>16 DEF vars
<1>17. ASSUME NEW t \in Jobs, gen_path(t) PROVE NumbersRight'
  <2>1. UNCHANGED <<dir, d_name, backup_tracker, backup_tracker_size, where, size_read,
                    backup_count, raced, children>>
    BY <1>17 DEF gen_path, backupVars, gateVars, trackerVars
  <2>2. FilesApart'
    BY <1>1, <2>1 DEF FilesApart
  <2> QED BY <2>1, <2>2, TrackerAside
<1>18. ASSUME NEW t \in Jobs, NotAJob(t) PROVE NumbersRight'
  BY <1>18 DEF NotAJob, NamesHeld
<1> QED BY <1>6, <1>7, <1>8, <1>9, <1>10, <1>11, <1>12, <1>13, <1>14, <1>15, <1>16, <1>17, <1>18
     DEF Next, Step, Acquire

\* Once an entry was overwritten nothing is said of the numbers any more.
LEMMA NextNumberInv ==
  ASSUME LockInv, BackupInv, NumberInv, [Next]_vars
  PROVE  NumberInv'
<1> SUFFICES ASSUME ~refilled' PROVE NamesHeld' /\ NumbersRight'
  BY DEF NumberInv
<1>1. UNCHANGED refilled \/ \E t \in Jobs, f \in JobFiles : NextFile(t, f)
  BY DEF Next, Step, Acquire, vars, fileVars, gen_path, Command, Lock, Backup, WritePair, ReadPair,
         DeletePair, ShowBucket, BatchDone, Unlock, Gate, Wait, DecLoad, DecStore, NotAJob, Track,
         Fork, IncLoad, IncStore, ChildPrints, Ends
<1>2. ~refilled
  BY <1>1 DEF NextFile, Refill
<1>3. NamesHeld /\ NumbersRight
  BY <1>2 DEF NumberInv
<1> QED BY <1>3, NextNames, NextNumbers

LEMMA InitNumbers == Init => NumberInv
<1> SUFFICES ASSUME Init PROVE NumberInv
  OBVIOUS
<1> USE DEF Init, TrackerInit
<1>1. Len(children) = 0
  OBVIOUS
<1>2. backups = [f \in JobFiles |-> 0]
  <2>1. \A f : Among(children, Len(children), f) = {}
    BY <1>1 DEF Among
  <2> QED BY <2>1, FS_EmptySet DEF backups
<1>3. names = [i \in Slots |-> NoFile]
  BY DEF names
<1>4. FilesApart /\ NamesHeld
  BY TrackerAssumption DEF FilesApart, NamesHeld
<1>5. SlotsInUse
  BY <1>3, TrackerAssumption DEF SlotsInUse
<1>6. SlotsMissing
  BY <1>2 DEF SlotsMissing
<1>7. \A t \in Jobs : FillsSlot(t) /\ NumberGiven(t)
  BY DEF FillsSlot, NumberGiven, Filling
<1>8. ChildrenNumbered
  BY <1>1 DEF ChildrenNumbered
<1> QED BY <1>3, <1>4, <1>5, <1>6, <1>7, <1>8 DEF NumberInv, NumbersRight, TrackerInOrder

\* The backups of a job file are numbered one after the other, so that none is
\* written over another, unless two threads were filling a slot of the array at
\* once, there was no slot, or a readdir overwrote the entry that holds a thread's
\* name (get_backup_count, gen_path_backup, processFiles).
THEOREM BackupsAreNumbered == Spec => []BackupsNumbered
<1>1. LockInv /\ BackupInv /\ NumberInv /\ [Next]_vars => NumberInv'
  BY NextNumberInv
<1>2. Spec => []NumberInv
  BY <1>1, InitNumbers, BatchInvariant, BackupInvariant, PTL DEF Spec
<1>3. BackupInv /\ NumberInv => BackupsNumbered
  <2> SUFFICES ASSUME BackupInv, NumberInv PROVE BackupsNumbered
    OBVIOUS
  <2>1. DOMAIN children = 1 .. Len(children)
    BY LenProperties DEF BackupInv, BackupTypes
  <2> QED BY <2>1 DEF NumberInv, NumbersRight, ChildrenNumbered, Among, BackupsNumbered
<1> QED BY <1>2, <1>3, BackupInvariant, PTL
=============================================================================
