-------------------------- MODULE BucketAtomicity --------------------------
(***************************************************************************)
(* BucketStore implements AtomicStore: a WRITE, READ, DELETE or SHOW takes *)
(* effect at once, when its batch is done, although every bucket has a     *)
(* lock of its own and other threads write and fork meanwhile.  The        *)
(* invariant says of every thread in a batch what the elements it has      *)
(* taken have done to the buckets it has locked, compared with what        *)
(* commands left there, and what they have printed.                        *)
(***************************************************************************)
EXTENDS BucketStoreProofs

\* The keys whose bucket the command of t locks.
Locked(t) == {k \in Keys : hash[k] \in boolean_locks(cmd[t])}

\* A key has the value of the last pair taken for it, or the one it had.
WrittenSoFar(t) ==
  /\ output[t] = {}
  /\ \A k \in Locked(t) :
       \/ /\ \A i \in 1 .. Done(t) : Taken(t, i)[1] # k
          /\ contents[k] = committed[k]
       \/ \E i \in 1 .. Done(t) :
            /\ Taken(t, i)[1] = k /\ Taken(t, i)[2] = contents[k]
            /\ \A j \in 1 .. Done(t) : Taken(t, j)[1] = k => j <= i

\* The keys taken are gone, the others as they were; those printed were not in
\* the table, or no longer.
DeletedSoFar(t) ==
  /\ \A k \in Locked(t) :
       contents[k] = IF \E i \in 1 .. Done(t) : Taken(t, i) = k THEN Missing ELSE committed[k]
  /\ output[t] = {<<k, Missing>> : k \in
       {x \in Keys : \E i \in 1 .. Done(t) :
          /\ Taken(t, i) = x
          /\ committed[x] = Missing \/ \E j \in 1 .. i - 1 : Taken(t, j) = x}}

\* A reader finds in its buckets what commands left there.
ReadSoFar(t) ==
  /\ \A k \in Locked(t) : contents[k] = committed[k]
  /\ output[t] = {<<k, committed[k]>> : k \in
       {x \in Keys : \E i \in 1 .. Done(t) : Taken(t, i) = x}}

ShownSoFar(t) ==
  /\ \A k \in Keys : contents[k] = committed[k]
  /\ output[t] = {<<k, committed[k]>> : k \in
       {x \in Keys : hash[x] < Done(t) /\ committed[x] # Missing}}

Progress(t) ==
  pc[t] = "body" => /\ cmd[t].cmd = "WRITE" => WrittenSoFar(t)
                    /\ cmd[t].cmd = "DELETE" => DeletedSoFar(t)
                    /\ cmd[t].cmd = "READ" => ReadSoFar(t)
                    /\ cmd[t].cmd = "SHOW" => ShownSoFar(t)

ProgressInv == \A t \in Jobs : Progress(t)

StoreInv == LockInv /\ BatchInv

-----------------------------------------------------------------------------
\* A bucket of a thread in its batch has no other writer, and none at all if
\* the thread reads.
LEMMA NoOtherWriter ==
  ASSUME LockInv, NEW t \in Jobs, pc[t] = "body", NEW k \in Locked(t)
  PROVE  /\ \A x \in Jobs : wr[hash[k]] = x => x = t /\ Writes(t)
         /\ Writes(t) => wr[hash[k]] = t
<1>1. hash[k] \in boolean_locks(cmd[t]) /\ hash[k] \in Buckets
  BY BucketAssumption DEF Locked
<1>2. IF Writes(t) THEN wr[hash[k]] = t ELSE t \in rd[hash[k]]
  BY <1>1 DEF LockInv, BatchLocked
<1>3. wr[hash[k]] # NoThread => rd[hash[k]] = {}
  BY <1>1 DEF LockInv, BatchLocked
<1> QED BY <1>2, <1>3, TrackerAssumption

\* A thread that does not move keeps its progress if its buckets do not change.
LEMMA ProgressKept ==
  ASSUME NEW x \in Jobs, Progress(x), AtWork(x),
         pc'[x] = pc[x], cmd'[x] = cmd[x], rest'[x] = rest[x], output'[x] = output[x],
         pc[x] = "body" => \A k \in Locked(x) :
                             contents'[k] = contents[k] /\ committed'[k] = committed[k]
  PROVE  Progress(x)'
<1> SUFFICES ASSUME pc[x] = "body" PROVE Progress(x)'
  BY DEF Progress
<1>1. Done(x)' = Done(x) /\ \A i : Taken(x, i)' = Taken(x, i)
  BY DEF Done, Taken
<1>2. Locked(x)' = Locked(x)
  BY DEF Locked
<1>3. \A k \in Locked(x) : contents'[k] = contents[k] /\ committed'[k] = committed[k]
  OBVIOUS
<1>4. WrittenSoFar(x) => WrittenSoFar(x)'
  BY <1>1, <1>2, <1>3 DEF WrittenSoFar
<1>5. cmd[x] \in Commands /\ cmd[x].cmd # "BACKUP"
  BY DEF AtWork
<1>6. cmd[x].cmd \in {"READ", "DELETE"} =>
        \A k \in Keys : (\E i \in 1 .. Done(x) : Taken(x, i) = k) => k \in Locked(x)
  <2>1. 1 .. Done(x) \subseteq 1 .. Len(Whole(cmd[x]))
    BY <1>5, WholeParts DEF AtWork
  <2> QED BY <1>5, <2>1, WholeParts DEF Locked, Taken
<1>7. cmd[x].cmd = "DELETE" /\ DeletedSoFar(x) => DeletedSoFar(x)'
  <2> DEFINE N == {y \in Keys : \E i \in 1 .. Done(x) : Taken(x, i) = y /\
                     (committed[y] = Missing \/ \E j \in 1 .. i - 1 : Taken(x, j) = y)}
  <2> SUFFICES ASSUME cmd[x].cmd = "DELETE", DeletedSoFar(x) PROVE DeletedSoFar(x)'
    OBVIOUS
  <2>1. N = {y \in Keys : \E i \in 1 .. Done(x) : Taken(x, i) = y /\
                     (committed'[y] = Missing \/ \E j \in 1 .. i - 1 : Taken(x, j) = y)}
    BY <1>3, <1>6
  <2>2. output[x] = {<<k, Missing>> : k \in N}
    BY DEF DeletedSoFar
  <2> HIDE DEF N
  <2>3. \A k \in Locked(x) : contents'[k] =
          IF \E i \in 1 .. Done(x) : Taken(x, i) = k THEN Missing ELSE committed'[k]
    BY <1>3 DEF DeletedSoFar
  <2> QED BY <1>1, <1>2, <2>1, <2>2, <2>3 DEF DeletedSoFar
<1>8. cmd[x].cmd = "READ" /\ ReadSoFar(x) => ReadSoFar(x)'
  <2> DEFINE N == {y \in Keys : \E i \in 1 .. Done(x) : Taken(x, i) = y}
  <2> SUFFICES ASSUME cmd[x].cmd = "READ", ReadSoFar(x) PROVE ReadSoFar(x)'
    OBVIOUS
  <2>1. \A k \in N : k \in Locked(x)
    BY <1>6
  <2>2. output[x] = {<<k, committed[k]>> : k \in N}
    BY DEF ReadSoFar
  <2>3. N' = N
    BY <1>1
  <2> HIDE DEF N
  <2>4. output'[x] = {<<k, committed'[k]>> : k \in N}
    BY <1>3, <2>1, <2>2
  <2> QED BY <1>1, <1>2, <1>3, <2>3, <2>4 DEF ReadSoFar, N
<1>9. cmd[x].cmd = "SHOW" /\ ShownSoFar(x) => ShownSoFar(x)'
  <2> DEFINE N == {y \in Keys : hash[y] < Done(x) /\ committed[y] # Missing}
  <2> SUFFICES ASSUME cmd[x].cmd = "SHOW", ShownSoFar(x) PROVE ShownSoFar(x)'
    OBVIOUS
  <2>1. \A k \in Keys : k \in Locked(x)
    BY <1>5, WholeParts, BucketAssumption DEF Locked
  <2>2. \A k \in Keys : contents'[k] = contents[k] /\ committed'[k] = committed[k]
    BY <1>3, <2>1
  <2>3. N = {y \in Keys : hash[y] < Done(x)' /\ committed'[y] # Missing}
    BY <1>1, <2>2
  <2>4. output[x] = {<<k, committed[k]>> : k \in N} /\ \A k \in N : k \in Keys
    BY DEF ShownSoFar
  <2> HIDE DEF N
  <2>5. output'[x] = {<<k, committed'[k]>> : k \in N}
    BY <2>2, <2>4
  <2>6. \A k \in Keys : contents'[k] = committed'[k]
    BY <2>2 DEF ShownSoFar
  <2> QED BY <2>3, <2>5, <2>6 DEF ShownSoFar
<1> QED BY <1>4, <1>7, <1>8, <1>9 DEF Progress

-----------------------------------------------------------------------------
(* One element of a batch.                                                 *)

\* WRITE.
LEMMA WriteProgress ==
  ASSUME StoreInv, NEW t \in Jobs, Progress(t), WritePair(t)
  PROVE  Progress(t)'
<1> DEFINE k == Head(rest[t])[1]
           v == Head(rest[t])[2]
<1>1. /\ pc[t] = "body" /\ cmd[t].cmd = "WRITE" /\ rest[t] # <<>>
      /\ contents' = [contents EXCEPT ![k] = v]
      /\ rest' = [rest EXCEPT ![t] = Tail(rest[t])]
      /\ UNCHANGED <<pc, cmd, output, committed>>
  BY DEF WritePair, InBatch, NextOfBatch, write_pair
<1>2. /\ rest'[t] = Tail(rest[t]) /\ cmd'[t] = cmd[t] /\ pc'[t] = pc[t]
      /\ output'[t] = output[t]
  BY <1>1 DEF StoreInv, BatchInv, BatchTypes
<1>3. /\ Done(t) \in Nat /\ Done(t)' = Done(t) + 1
      /\ Head(rest[t]) = Taken(t, Done(t) + 1)
      /\ \A i : Taken(t, i)' = Taken(t, i)
  BY <1>1, <1>2, TakesNext DEF StoreInv, BatchInv
<1>4. k \in Keys
  BY <1>1, NextElement DEF StoreInv, BatchInv
<1> HIDE DEF k, v
<1>5. \A j \in Keys : contents'[j] = IF j = k THEN v ELSE contents[j]
  BY <1>1, <1>4 DEF StoreInv, BatchInv, BatchTypes
<1>6. WrittenSoFar(t) /\ Locked(t)' = Locked(t)
  BY <1>1 DEF Progress, Locked
<1>7. WrittenSoFar(t)'
  <2> DEFINE n == Done(t)
  <2>1. /\ n \in Nat /\ Done(t)' = n + 1 /\ n + 1 \in 1 .. n + 1
        /\ \A i \in 1 .. n + 1 : i <= n + 1 /\ (i # n + 1 => i \in 1 .. n)
        /\ \A i \in 1 .. n : i \in 1 .. n + 1 /\ i # n + 1
    BY <1>3
  <2>2. Taken(t, n + 1)[1] = k /\ Taken(t, n + 1)[2] = v
    BY <1>3 DEF k, v
  <2> HIDE DEF n
  <2>3. ASSUME NEW j \in Locked(t)
        PROVE  \/ /\ \A i \in 1 .. n + 1 : Taken(t, i)[1] # j
                  /\ contents'[j] = committed[j]
               \/ \E i \in 1 .. n + 1 :
                    /\ Taken(t, i)[1] = j /\ Taken(t, i)[2] = contents'[j]
                    /\ \A x \in 1 .. n + 1 : Taken(t, x)[1] = j => x <= i
    <3> j \in Keys
      BY DEF Locked
    <3>1. CASE j = k
      BY <1>5, <2>1, <2>2, <3>1
    <3>2. CASE j # k
      <4>1. contents'[j] = contents[j]
        BY <1>5, <3>2
      <4>2. \A i \in 1 .. n + 1 : Taken(t, i)[1] = j => i \in 1 .. n
        BY <2>1, <2>2, <3>2
      <4> QED BY <1>6, <2>1, <4>1, <4>2 DEF WrittenSoFar, n
    <3> QED BY <3>1, <3>2
  <2> QED BY <1>1, <1>2, <1>3, <1>6, <2>1, <2>3 DEF WrittenSoFar
<1> QED BY <1>1, <1>2, <1>7 DEF Progress

\* DELETE.
LEMMA DeleteProgress ==
  ASSUME StoreInv, NEW t \in Jobs, Progress(t), DeletePair(t)
  PROVE  Progress(t)'
<1> DEFINE k == Head(rest[t])
<1>1. /\ pc[t] = "body" /\ cmd[t].cmd = "DELETE" /\ rest[t] # <<>>
      /\ contents' = [contents EXCEPT ![k] = Missing]
      /\ rest' = [rest EXCEPT ![t] = Tail(rest[t])]
      /\ output' = [output EXCEPT ![t] =
           IF contents[k] = Missing THEN output[t] \cup {<<k, Missing>>} ELSE output[t]]
      /\ UNCHANGED <<pc, cmd, committed>>
  BY DEF DeletePair, InBatch, NextOfBatch, delete_pair, read_pair
<1>2. /\ rest'[t] = Tail(rest[t]) /\ cmd'[t] = cmd[t] /\ pc'[t] = pc[t]
      /\ output'[t] = IF contents[k] # Missing THEN output[t] ELSE output[t] \cup {<<k, Missing>>}
  BY <1>1 DEF StoreInv, BatchInv, BatchTypes
<1>3. /\ Done(t) \in Nat /\ Done(t)' = Done(t) + 1
      /\ Head(rest[t]) = Taken(t, Done(t) + 1)
      /\ \A i : Taken(t, i)' = Taken(t, i)
  BY <1>1, <1>2, TakesNext DEF StoreInv, BatchInv
<1>4. k \in Keys /\ k \in Locked(t)
  BY <1>1, NextElement DEF StoreInv, BatchInv, Locked
<1> HIDE DEF k
<1>5. \A j \in Keys : contents'[j] = IF j = k THEN Missing ELSE contents[j]
  BY <1>1, <1>4 DEF StoreInv, BatchInv, BatchTypes
<1>6. DeletedSoFar(t) /\ Locked(t)' = Locked(t)
  BY <1>1 DEF Progress, Locked
<1>7. DeletedSoFar(t)'
  <2> DEFINE n == Done(t)
             Gone(j, m) == \E i \in 1 .. m : Taken(t, i) = j
             Absent(j, m) == \E i \in 1 .. m :
               Taken(t, i) = j /\ (committed[j] = Missing \/ \E y \in 1 .. i - 1 : Taken(t, y) = j)
  <2>1. /\ n \in Nat /\ Done(t)' = n + 1 /\ n + 1 \in 1 .. n + 1 /\ (n + 1) - 1 = n
        /\ \A i \in 1 .. n + 1 : i # n + 1 => i \in 1 .. n
        /\ \A i \in 1 .. n : i \in 1 .. n + 1
    BY <1>3
  <2>2. Taken(t, n + 1) = k
    BY <1>3 DEF k
  <2>3. /\ \A j \in Locked(t) : contents[j] = IF Gone(j, n) THEN Missing ELSE committed[j]
        /\ output[t] = {<<j, Missing>> : j \in {x \in Keys : Absent(x, n)}}
    BY <1>6 DEF DeletedSoFar
  <2> HIDE DEF n
  <2>4. \A j \in Keys : Gone(j, n + 1) <=> Gone(j, n) \/ j = k
    BY <2>1, <2>2
  <2>5. \A j \in Keys : Absent(j, n + 1) <=>
          Absent(j, n) \/ (j = k /\ (committed[j] = Missing \/ Gone(j, n)))
    BY <2>1, <2>2
  <2> HIDE DEF Gone, Absent
  <2>6. \A j \in Locked(t) : contents'[j] = IF Gone(j, n + 1) THEN Missing ELSE committed[j]
    <3>1. \A j \in Locked(t) : j \in Keys
      BY DEF Locked
    <3> QED BY <1>5, <2>3, <2>4, <3>1
  <2>7. contents[k] = Missing <=> committed[k] = Missing \/ Gone(k, n)
    BY <1>4, <2>3
  <2>8. {x \in Keys : Absent(x, n + 1)} =
          {x \in Keys : Absent(x, n)} \cup (IF contents[k] = Missing THEN {k} ELSE {})
    BY <1>4, <2>5, <2>7
  <2>9. output'[t] = {<<j, Missing>> : j \in {x \in Keys : Absent(x, n + 1)}}
    BY <1>2, <2>3, <2>8
  <2> QED BY <1>1, <1>3, <1>6, <2>1, <2>6, <2>9 DEF DeletedSoFar, Gone, Absent
<1> QED BY <1>1, <1>2, <1>7 DEF Progress

\* READ.
LEMMA ReadProgress ==
  ASSUME StoreInv, NEW t \in Jobs, Progress(t), ReadPair(t)
  PROVE  Progress(t)'
<1> DEFINE k == Head(rest[t])
<1>1. /\ pc[t] = "body" /\ cmd[t].cmd = "READ" /\ rest[t] # <<>>
      /\ rest' = [rest EXCEPT ![t] = Tail(rest[t])]
      /\ output' = [output EXCEPT ![t] = output[t] \cup {<<k, contents[k]>>}]
      /\ UNCHANGED <<contents, committed, pc, cmd>>
  BY DEF ReadPair, InBatch, NextOfBatch, read_pair, tableVars
<1>2. /\ rest'[t] = Tail(rest[t]) /\ cmd'[t] = cmd[t] /\ pc'[t] = pc[t]
      /\ output'[t] = output[t] \cup {<<k, contents[k]>>}
  BY <1>1 DEF StoreInv, BatchInv, BatchTypes
<1>3. /\ Done(t) \in Nat /\ Done(t)' = Done(t) + 1
      /\ Head(rest[t]) = Taken(t, Done(t) + 1)
      /\ \A i : Taken(t, i)' = Taken(t, i)
  BY <1>1, <1>2, TakesNext DEF StoreInv, BatchInv
<1>4. k \in Keys /\ k \in Locked(t)
  BY <1>1, NextElement DEF StoreInv, BatchInv, Locked
<1>5. ReadSoFar(t) /\ Locked(t)' = Locked(t) /\ contents[k] = committed[k]
  BY <1>1, <1>4 DEF Progress, Locked, ReadSoFar
<1> HIDE DEF k
<1>6. ReadSoFar(t)'
  <2> DEFINE n == Done(t)
             Named(m) == {x \in Keys : \E i \in 1 .. m : Taken(t, i) = x}
  <2>1. /\ n \in Nat /\ Done(t)' = n + 1 /\ n + 1 \in 1 .. n + 1
        /\ \A i \in 1 .. n + 1 : i # n + 1 => i \in 1 .. n
        /\ \A i \in 1 .. n : i \in 1 .. n + 1
    BY <1>3
  <2>2. Taken(t, n + 1) = k
    BY <1>3 DEF k
  <2>3. output[t] = {<<x, committed[x]>> : x \in Named(n)}
    BY <1>5 DEF ReadSoFar
  <2> HIDE DEF n
  <2>4. Named(n + 1) = Named(n) \cup {k}
    BY <1>4, <2>1, <2>2
  <2> HIDE DEF Named
  <2>5. output'[t] = {<<x, committed[x]>> : x \in Named(n + 1)}
    BY <1>2, <1>5, <2>3, <2>4
  <2>6. \A x \in Locked(t) : contents'[x] = committed'[x]
    BY <1>1, <1>5 DEF ReadSoFar
  <2> QED BY <1>1, <1>3, <1>5, <2>1, <2>5, <2>6 DEF ReadSoFar, Named
<1> QED BY <1>1, <1>2, <1>6 DEF Progress

\* SHOW.
LEMMA ShowProgress ==
  ASSUME StoreInv, NEW t \in Jobs, Progress(t), ShowBucket(t)
  PROVE  Progress(t)'
<1> DEFINE b == Head(rest[t])[1]
           found == {<<k, contents[k]>> : k \in {x \in Keys : hash[x] = b /\ contents[x] # Missing}}
<1>1. /\ pc[t] = "body" /\ cmd[t].cmd = "SHOW" /\ rest[t] # <<>>
      /\ rest' = [rest EXCEPT ![t] = Tail(rest[t])]
      /\ output' = [output EXCEPT ![t] = output[t] \cup found]
      /\ UNCHANGED <<contents, committed, pc, cmd>>
  BY DEF ShowBucket, InBatch, NextOfBatch, tableVars
<1>2. /\ rest'[t] = Tail(rest[t]) /\ cmd'[t] = cmd[t] /\ pc'[t] = pc[t]
      /\ output'[t] = output[t] \cup found
  BY <1>1 DEF StoreInv, BatchInv, BatchTypes
<1>3. /\ Done(t) \in Nat /\ Done(t)' = Done(t) + 1
      /\ Done(t) + 1 \in 1 .. Len(Whole(cmd[t]))
      /\ Head(rest[t]) = Taken(t, Done(t) + 1)
  BY <1>1, <1>2, TakesNext DEF StoreInv, BatchInv
<1>4. b = Done(t)
  <2>1. cmd[t] \in Commands
    BY <1>1 DEF StoreInv, BatchInv, AtWork
  <2>2. Taken(t, Done(t) + 1) = <<Done(t) + 1 - 1>>
    BY <1>1, <1>3, <2>1, WholeParts DEF Taken
  <2> QED BY <1>3, <2>2
<1>5. ShownSoFar(t)
  BY <1>1 DEF Progress
<1>6. found = {<<k, committed[k]>> : k \in {x \in Keys : hash[x] = Done(t) /\ committed[x] # Missing}}
  BY <1>4, <1>5 DEF ShownSoFar
<1> HIDE DEF found, b
<1>7. ShownSoFar(t)'
  <2> DEFINE n == Done(t)
             Seen(m) == {x \in Keys : hash[x] < m /\ committed[x] # Missing}
             Here(m) == {x \in Keys : hash[x] = m /\ committed[x] # Missing}
  <2>1. output[t] = {<<x, committed[x]>> : x \in Seen(n)}
    BY <1>5 DEF ShownSoFar
  <2>2. found = {<<x, committed[x]>> : x \in Here(n)}
    BY <1>6
  <2>3. n \in Nat /\ Done(t)' = n + 1 /\ \A x \in Keys : hash[x] \in Nat
    BY <1>3, BucketAssumption DEF Buckets
  <2> HIDE DEF n
  <2>4. Seen(n + 1) = Seen(n) \cup Here(n)
    <3>1. \A x \in Keys : hash[x] < n + 1 <=> hash[x] < n \/ hash[x] = n
      BY <2>3
    <3> QED BY <3>1
  <2> HIDE DEF Seen, Here
  <2>5. output'[t] = {<<x, committed[x]>> : x \in Seen(n + 1)}
    BY <1>2, <2>1, <2>2, <2>4
  <2>6. \A x \in Keys : contents'[x] = committed'[x]
    BY <1>1, <1>5 DEF ShownSoFar
  <2> QED BY <1>1, <2>3, <2>5, <2>6 DEF ShownSoFar, Seen
<1> QED BY <1>1, <1>2, <1>7 DEF Progress

-----------------------------------------------------------------------------
(* Every step.                                                             *)

\* The last lock: nothing is done yet, and nobody else has touched the buckets.
LEMMA LockProgress ==
  ASSUME StoreInv, NEW t \in Jobs, NEW b \in Buckets, Progress(t), Lock(t, b)
  PROVE  Progress(t)'
<1>1. /\ pc[t] = "lock" /\ wr[b] = NoThread
      /\ UNCHANGED <<contents, committed, cmd, rest, output>>
      /\ \/ pc' = [pc EXCEPT ![t] = "body"] /\ boolean_locks(cmd[t]) = Held(t) \cup {b}
         \/ pc' = pc
  BY DEF Lock, Goto, tableVars, batchVars
<1> SUFFICES ASSUME pc'[t] = "body" PROVE Progress(t)'
  BY DEF Progress
<1>2. boolean_locks(cmd[t]) = Held(t) \cup {b}
  BY <1>1
<1>3. Done(t)' = 0 /\ output'[t] = {} /\ cmd'[t] = cmd[t] /\ 1 .. Done(t)' = {}
  <2>1. Done(t) = 0 /\ output[t] = {}
    BY <1>1 DEF StoreInv, BatchInv, AtWork
  <2>2. Done(t)' = Done(t)
    BY <1>1 DEF Done
  <2> QED BY <1>1, <2>1, <2>2
<1>4. Locked(t)' = Locked(t)
  BY <1>1 DEF Locked
<1>5. \A k \in Locked(t) : contents'[k] = committed'[k]
  <2> SUFFICES ASSUME NEW k \in Locked(t), contents[k] # committed[k] PROVE FALSE
    BY <1>1
  <2>1. k \in Keys /\ hash[k] \in Buckets /\ hash[k] \in Held(t) \cup {b}
    BY <1>2, BucketAssumption DEF Locked
  <2>2. PICK u \in Jobs : pc[u] = "body" /\ wr[hash[k]] = u
    BY <2>1 DEF StoreInv, BatchInv, Untouched
  <2>3. u # t /\ u # NoThread
    BY <1>1, <2>2, TrackerAssumption
  <2>4. hash[k] \in Held(t)
    BY <1>1, <2>1, <2>2, <2>3
  <2>5. t \in rd[hash[k]]
    BY <1>1, <2>2, <2>3, <2>4 DEF StoreInv, LockInv, HeldInMode
  <2> QED BY <2>1, <2>2, <2>3, <2>5 DEF StoreInv, LockInv, BatchLocked
<1>6. WrittenSoFar(t)'
  BY <1>3, <1>4, <1>5 DEF WrittenSoFar
<1>7. DeletedSoFar(t)'
  BY <1>3, <1>4, <1>5 DEF DeletedSoFar
<1>8. ReadSoFar(t)'
  BY <1>3, <1>4, <1>5 DEF ReadSoFar
<1>9. cmd[t].cmd = "SHOW" => ShownSoFar(t)'
  <2> SUFFICES ASSUME cmd[t].cmd = "SHOW" PROVE ShownSoFar(t)'
    OBVIOUS
  <2>1. \A k \in Keys : ~(hash[k] < 0)
    BY BucketAssumption DEF Buckets
  <2>2. cmd[t] \in Commands
    BY <1>1 DEF StoreInv, BatchInv, AtWork
  <2>3. \A k \in Keys : k \in Locked(t)
    BY <2>2, WholeParts, BucketAssumption DEF Locked
  <2> QED BY <1>3, <1>5, <2>1, <2>3 DEF ShownSoFar
<1> QED BY <1>3, <1>6, <1>7, <1>8, <1>9 DEF Progress

\* Every step of every thread keeps the progress of every other one.
LEMMA NextProgress ==
  ASSUME StoreInv, ProgressInv, [Next]_vars
  PROVE  ProgressInv'
<1> DEFINE Still(x) == /\ pc'[x] = pc[x] /\ cmd'[x] = cmd[x]
                       /\ rest'[x] = rest[x] /\ output'[x] = output[x]
           Same(x) == \A k \in Locked(x) : contents'[k] = contents[k] /\ committed'[k] = committed[k]
<1>1. ASSUME NEW x \in Jobs, Still(x), pc[x] = "body" => Same(x) PROVE Progress(x)'
  BY <1>1, ProgressKept DEF ProgressInv, StoreInv, BatchInv
<1> HIDE DEF Still, Same
<1>2. ASSUME NEW t \in Jobs, Progress(t)',
             \A x \in Jobs \ {t} : Still(x) /\ (pc[x] = "body" => Same(x))
      PROVE  ProgressInv'
  BY <1>1, <1>2 DEF ProgressInv
<1>3. ASSUME NEW t \in Jobs, NEW x \in Jobs \ {t}, pc[x] = "body",
             \A k \in Keys : wr[hash[k]] # t => contents'[k] = contents[k] /\ committed'[k] = committed[k]
      PROVE  Same(x)
  <2>1. \A k \in Locked(x) : k \in Keys /\ wr[hash[k]] # t
    BY <1>3, NoOtherWriter DEF StoreInv, Locked
  <2> QED BY <1>3, <2>1 DEF Same
<1>4. ASSUME NEW t \in Jobs, WritePair(t) \/ DeletePair(t) PROVE ProgressInv'
  <2>1. Progress(t)'
    BY <1>4, WriteProgress, DeleteProgress DEF ProgressInv
  <2>2. \A x \in Jobs \ {t} : Still(x)
    BY <1>4 DEF Still, WritePair, DeletePair, NextOfBatch, StoreInv, BatchInv, BatchTypes
  <2>3. \A k \in Keys : wr[hash[k]] # t => contents'[k] = contents[k] /\ committed'[k] = committed[k]
    <3> DEFINE j == IF cmd[t].cmd = "WRITE" THEN Head(rest[t])[1] ELSE Head(rest[t])
    <3>1. pc[t] = "body" /\ rest[t] # <<>> /\ cmd[t].cmd \in {"WRITE", "DELETE"}
          /\ committed' = committed /\ \E v : contents' = [contents EXCEPT ![j] = v]
      BY <1>4 DEF WritePair, DeletePair, InBatch, write_pair, delete_pair
    <3>2. wr[hash[j]] = t
      BY <3>1, NextElement DEF StoreInv, BatchInv
    <3> HIDE DEF j
    <3> QED BY <3>1, <3>2 DEF StoreInv, BatchInv, BatchTypes
  <2> QED BY <1>2, <1>3, <2>1, <2>2, <2>3
<1>5. ASSUME NEW t \in Jobs, BatchDone(t) PROVE ProgressInv'
  <2>1. Progress(t)'
    <3>1. pc'[t] = "unlock"
      BY <1>5 DEF BatchDone, Goto, StoreInv, LockInv, LockTypes
    <3> QED BY <3>1 DEF Progress
  <2>2. \A x \in Jobs \ {t} : Still(x)
    BY <1>5 DEF Still, BatchDone, Goto, batchVars, StoreInv, LockInv, LockTypes
  <2>3. \A k \in Keys : wr[hash[k]] # t => contents'[k] = contents[k] /\ committed'[k] = committed[k]
    BY <1>5 DEF BatchDone
  <2> QED BY <1>2, <1>3, <2>1, <2>2, <2>3
<1>6. ASSUME NEW t \in Jobs, UNCHANGED <<contents, committed>>, Progress(t)',
             \A x \in Jobs \ {t} : Still(x)
      PROVE  ProgressInv'
  BY <1>2, <1>6 DEF Same
<1>7. ASSUME NEW t \in Jobs, ReadPair(t) \/ ShowBucket(t) PROVE ProgressInv'
  <2>1. Progress(t)'
    BY <1>7, ReadProgress, ShowProgress DEF ProgressInv
  <2>2. \A x \in Jobs \ {t} : Still(x)
    BY <1>7 DEF Still, ReadPair, ShowBucket, NextOfBatch, StoreInv, BatchInv, BatchTypes
  <2>3. UNCHANGED <<contents, committed>>
    BY <1>7 DEF ReadPair, ShowBucket, tableVars
  <2> QED BY <1>6, <2>1, <2>2, <2>3
<1>8. ASSUME NEW t \in Jobs, NEW b \in Buckets, Lock(t, b) PROVE ProgressInv'
  <2>1. Progress(t)'
    BY <1>8, LockProgress DEF ProgressInv
  <2>2. \A x \in Jobs \ {t} : Still(x)
    BY <1>8 DEF Still, Lock, Goto, batchVars, StoreInv, LockInv, LockTypes
  <2>3. UNCHANGED <<contents, committed>>
    BY <1>8 DEF Lock, tableVars
  <2> QED BY <1>6, <2>1, <2>2, <2>3
<1>9. ASSUME NEW t \in Jobs, NEW c \in Commands, Command(t, c) PROVE ProgressInv'
  <2>1. Progress(t)'
    <3>1. pc'[t] = "lock"
      BY <1>9 DEF Command, Goto, StoreInv, LockInv, LockTypes
    <3> QED BY <3>1 DEF Progress
  <2>2. \A x \in Jobs \ {t} : Still(x)
    BY <1>9 DEF Still, Command, Goto, StoreInv, LockInv, LockTypes, BatchInv, BatchTypes
  <2>3. UNCHANGED <<contents, committed>>
    BY <1>9 DEF Command, tableVars
  <2> QED BY <1>6, <2>1, <2>2, <2>3
<1>10. ASSUME NEW t \in Jobs,
              \/ Wait(t) \/ DecStore(t) \/ NotAJob(t) \/ Track(t) \/ Fork(t) \/ IncLoad(t) \/ IncStore(t)
              \/ Gate(t) \/ DecLoad(t) \/ Backup(t) \/ Unlock(t)
       PROVE  ProgressInv'
  <2>1. /\ pc[t] \in {"idle", "gate", "wait", "dec", "fork", "inc", "unlock"}
        /\ UNCHANGED <<contents, committed, rest, output>>
        /\ pc' = pc \/ \E label \in {"idle", "gate", "wait", "dec", "fork", "inc"} :
                         pc' = [pc EXCEPT ![t] = label]
        /\ cmd' = cmd \/ \E c : cmd' = [cmd EXCEPT ![t] = c]
    BY <1>10 DEF Wait, DecStore, NotAJob, Track, Fork, IncLoad, IncStore, Gate, DecLoad, Backup, Unlock, Goto,
       tableVars, batchVars
  <2>2. pc'[t] # "body"
    BY <2>1 DEF StoreInv, LockInv, LockTypes
  <2>3. \A x \in Jobs \ {t} : Still(x)
    BY <2>1 DEF Still, StoreInv, LockInv, LockTypes
  <2> QED BY <1>6, <2>1, <2>2, <2>3 DEF Progress
<1>11. ASSUME UNCHANGED <<contents, committed, pc, cmd, rest, output>> PROVE ProgressInv'
  <2>1. \A x \in Jobs : Still(x) /\ Same(x)
    BY <1>11 DEF Still, Same, Locked
  <2> QED BY <1>1, <2>1 DEF ProgressInv
<1>12. ASSUME NEW i \in 1 .. MaxBackups, ChildPrints(i) PROVE ProgressInv'
  BY <1>11, <1>12 DEF ChildPrints, Ends, batchVars, tableVars
<1>13. ASSUME NEW t \in Jobs, gen_path(t) \/ \E f \in JobFiles : NextFile(t, f)
      PROVE  ProgressInv'
  BY <1>11, <1>13 DEF NextFile, gen_path, batchVars, tableVars
<1>14. CASE UNCHANGED vars
  BY <1>11, <1>14 DEF vars, batchVars, tableVars
<1> QED BY <1>4, <1>5, <1>7, <1>8, <1>9, <1>10, <1>12, <1>13, <1>14 DEF Next, Step, Acquire

\* The start.
LEMMA InitProgress == Init => ProgressInv
<1> QED BY DEF Init, ProgressInv, Progress

\* What each command has done so far, in every reachable state.
LEMMA ProgressInvariant == Spec => [](StoreInv /\ ProgressInv)
<1>1. Spec => []StoreInv
  BY BatchInvariant, PTL DEF StoreInv
<1>2. StoreInv /\ ProgressInv /\ [Next]_vars => ProgressInv'
  BY NextProgress
<1>3. Spec /\ []StoreInv => []ProgressInv
  BY InitProgress, <1>2, PTL DEF Spec
<1> QED BY <1>1, <1>3, PTL

-----------------------------------------------------------------------------
(* A batch that is done has done what AtomicStore says.                    *)

\* What AtomicStore sees of a thread.
Executing == [t \in Jobs |-> IF pc[t] \in {"lock", "body"} THEN qsorted(cmd[t]) ELSE NoCommand]
Answered  == [t \in Jobs |-> IF pc[t] \in {"lock", "body"} THEN {} ELSE output[t]]

\* At its end a command has taken all of its elements.
LEMMA AllTaken ==
  ASSUME StoreInv, NEW t \in Jobs, pc[t] = "body", rest[t] = <<>>
  PROVE  /\ cmd[t] \in Commands /\ cmd[t].cmd # "BACKUP"
         /\ Done(t) = Len(Whole(cmd[t])) /\ Done(t) \in Nat
<1>1. cmd[t] \in Commands /\ cmd[t].cmd # "BACKUP"
  BY DEF StoreInv, BatchInv, AtWork
<1>2. Len(Whole(cmd[t])) \in Nat
  BY <1>1, WholeParts
<1>3. Len(rest[t]) = 0
  BY EmptySeq
<1> QED BY <1>1, <1>2, <1>3 DEF Done

\* The elements of a WRITE, READ or DELETE are its sorted arguments.
LEMMA ElementsTaken ==
  ASSUME StoreInv, NEW t \in Jobs, pc[t] = "body", rest[t] = <<>>,
         cmd[t].cmd \in {"WRITE", "READ", "DELETE"},
         NEW c, c = qsorted(cmd[t])
  PROVE  /\ Done(t) = Len(c.args) /\ c.cmd = cmd[t].cmd
         /\ DOMAIN c.args = 1 .. Len(c.args) /\ Len(c.args) \in Nat
         /\ \A i : Taken(t, i) = c.args[i]
<1>1. cmd[t] \in Commands /\ Done(t) = Len(Whole(cmd[t])) /\ cmd[t].cmd # "BACKUP"
  BY AllTaken
<1>2. Whole(cmd[t]) = c.args /\ Whole(cmd[t]) \in Seq(Elements) /\ c.cmd = cmd[t].cmd
  BY <1>1, WholeParts, QsortedParts
<1> QED BY <1>1, <1>2, LenProperties DEF Taken

\* What counts as done after the batch of a writer: its own buckets.
LEMMA DoneBuckets ==
  ASSUME StoreInv, NEW t \in Jobs, pc[t] = "body", NEW k \in Keys
  PROVE  wr[hash[k]] = t <=> Writes(t) /\ k \in Locked(t)
<1>1. hash[k] \in Buckets
  BY BucketAssumption
<1>2. Held(t) = boolean_locks(cmd[t])
  BY DEF StoreInv, LockInv, HeldInMode
<1>3. wr[hash[k]] = t => k \in Locked(t)
  BY <1>1, <1>2 DEF Held, Locked
<1> QED BY <1>3, NoOtherWriter DEF StoreInv

\* WRITE: of the pairs for a key the last one counts.
LEMMA WriteOutcome ==
  ASSUME StoreInv, ProgressInv, NEW t \in Jobs, BatchDone(t), cmd[t].cmd = "WRITE",
         NEW c, c = qsorted(cmd[t])
  PROVE  committed' = Store!Effect(c) /\ output[t] = Store!Printed(c)
<1>1. /\ pc[t] = "body" /\ rest[t] = <<>>
      /\ committed' = [k \in Keys |-> IF wr[hash[k]] = t THEN contents[k] ELSE committed[k]]
  BY DEF BatchDone
<1>2. WrittenSoFar(t)
  BY <1>1 DEF ProgressInv, Progress
<1>3. /\ Done(t) = Len(c.args) /\ DOMAIN c.args = 1 .. Len(c.args) /\ Len(c.args) \in Nat
      /\ \A i : Taken(t, i) = c.args[i] /\ c.cmd = "WRITE"
  BY <1>1, ElementsTaken
<1>4. ASSUME NEW k \in Keys
      PROVE  committed'[k] =
               IF Store!Written(c, k) = {} THEN committed[k]
               ELSE c.args[CHOOSE i \in Store!Written(c, k) :
                             \A j \in Store!Written(c, k) : j <= i][2]
  <2> DEFINE W == Store!Written(c, k)
             a == c.args
             n == Len(c.args)
             val == committed'[k]
  <2>1. W = {i \in 1 .. n : a[i][1] = k} /\ n \in Nat
    BY <1>3 DEF Store!Written
  <2>2. \/ /\ \A i \in 1 .. n : a[i][1] # k
           /\ val = committed[k]
        \/ \E i \in 1 .. n :
             a[i][1] = k /\ a[i][2] = val /\ \A j \in 1 .. n : a[j][1] = k => j <= i
    <3>1. CASE k \in Locked(t)
      <4>1. val = contents[k]
        BY <1>1, <3>1, DoneBuckets DEF Writes
      <4> QED BY <1>2, <1>3, <3>1, <4>1 DEF WrittenSoFar
    <3>2. CASE k \notin Locked(t)
      <4>1. val = committed[k]
        BY <1>1, <3>2, DoneBuckets
      <4>2. cmd[t] \in Commands /\ cmd[t].cmd = "WRITE"
        BY <1>1, AllTaken
      <4>3. \A i \in 1 .. n : hash[a[i][1]] \in boolean_locks(cmd[t])
        BY <4>2, QsortedParts
      <4>4. \A i \in 1 .. n : a[i][1] # k
        BY <3>2, <4>3 DEF Locked
      <4> QED BY <4>1, <4>4
    <3> QED BY <3>1, <3>2
  <2> HIDE DEF W, a, n, val
  <2>3. CASE W = {}
    BY <2>1, <2>2, <2>3 DEF W, a, val
  <2>4. CASE W # {}
    <3>1. PICK i \in W : a[i][2] = val /\ \A j \in W : j <= i
      BY <2>1, <2>2, <2>4
    <3>2. W \subseteq Nat
      BY <2>1
    <3>3. ASSUME NEW x \in W, \A j \in W : j <= x PROVE x = i
      BY <3>1, <3>2, <3>3
    <3>4. i = CHOOSE x \in W : \A j \in W : j <= x
      BY <3>1, <3>3
    <3>5. val = IF W = {} THEN committed[k] ELSE a[CHOOSE x \in W : \A j \in W : j <= x][2]
      BY <2>4, <3>1, <3>4
    <3> QED BY <3>5 DEF W, a, val
  <2> QED BY <2>3, <2>4
<1>5. committed' = Store!AfterWrite(c)
  BY <1>1, <1>4 DEF Store!AfterWrite
<1> QED BY <1>2, <1>3, <1>5 DEF Store!Effect, Store!Printed, WrittenSoFar

\* DELETE: a key that the batch names twice is reported the second time.
LEMMA DeleteOutcome ==
  ASSUME StoreInv, ProgressInv, NEW t \in Jobs, BatchDone(t), cmd[t].cmd = "DELETE",
         NEW c, c = qsorted(cmd[t])
  PROVE  committed' = Store!Effect(c) /\ output[t] = Store!Printed(c)
<1>1. /\ pc[t] = "body" /\ rest[t] = <<>>
      /\ committed' = [k \in Keys |-> IF wr[hash[k]] = t THEN contents[k] ELSE committed[k]]
  BY DEF BatchDone
<1>2. DeletedSoFar(t)
  BY <1>1 DEF ProgressInv, Progress
<1>3. /\ Done(t) = Len(c.args) /\ DOMAIN c.args = 1 .. Len(c.args) /\ Len(c.args) \in Nat
      /\ \A i : Taken(t, i) = c.args[i] /\ c.cmd = "DELETE"
  BY <1>1, ElementsTaken
<1>4. \A k \in Keys : k \in Store!Named(c) <=> \E i \in DOMAIN c.args : c.args[i] = k
  BY DEF Store!Named
<1>5. Store!Named(c) \subseteq Locked(t)
  <2>1. cmd[t] \in Commands
    BY <1>1, AllTaken
  <2>2. /\ c.args \in Seq(Keys)
        /\ \A i \in 1 .. Len(c.args) : hash[c.args[i]] \in boolean_locks(cmd[t])
    BY <2>1, QsortedParts
  <2>3. \A i \in 1 .. Len(c.args) : c.args[i] \in Keys
    BY <2>2, ElementOfSeq
  <2> QED BY <1>3, <2>2, <2>3 DEF Store!Named, Locked
<1>6. committed' = [k \in Keys |-> IF k \in Store!Named(c) THEN Missing ELSE committed[k]]
  <2>1. ASSUME NEW k \in Keys
        PROVE  (IF wr[hash[k]] = t THEN contents[k] ELSE committed[k]) =
                 (IF k \in Store!Named(c) THEN Missing ELSE committed[k])
    <3>1. CASE k \in Locked(t)
      <4>1. wr[hash[k]] = t
        BY <1>1, <3>1, DoneBuckets DEF Writes
      <4> QED BY <1>2, <1>3, <1>4, <3>1, <4>1 DEF DeletedSoFar
    <3>2. CASE k \notin Locked(t)
      BY <1>1, <1>5, <3>2, DoneBuckets
    <3> QED BY <3>1, <3>2
  <2> QED BY <1>1, <2>1
<1>7. Store!NotFound(c) =
        {x \in Keys : \E i \in 1 .. Done(t) :
           Taken(t, i) = x /\ (committed[x] = Missing \/ \E j \in 1 .. i - 1 : Taken(t, j) = x)}
  <2>1. ASSUME NEW x \in Keys
        PROVE  x \in Store!NotFound(c) <=>
                 \E i \in 1 .. Len(c.args) :
                   c.args[i] = x /\ (committed[x] = Missing \/ \E j \in 1 .. i - 1 : c.args[j] = x)
    <3> DEFINE a == c.args
               n == Len(c.args)
    <3>1. x \in Store!NotFound(c) <=>
            /\ \E i \in 1 .. n : a[i] = x
            /\ \/ committed[x] = Missing
               \/ \E i, j \in 1 .. n : i # j /\ a[i] = x /\ a[j] = x
      BY <1>3, <1>4 DEF Store!NotFound
    <3>2. n \in Nat
      BY <1>3
    <3> HIDE DEF a, n
    <3>3. ASSUME NEW i \in 1 .. n, NEW j \in 1 .. n, i # j, a[i] = x, a[j] = x
          PROVE  \E y \in 1 .. n : a[y] = x /\ \E z \in 1 .. y - 1 : a[z] = x
      <4>1. CASE i < j
        <5>1. i \in 1 .. j - 1
          BY <3>2, <4>1
        <5> QED BY <3>3, <5>1
      <4>2. CASE j < i
        <5>1. j \in 1 .. i - 1
          BY <3>2, <4>2
        <5> QED BY <3>3, <5>1
      <4> QED BY <3>2, <3>3, <4>1, <4>2
    <3>4. ASSUME NEW i \in 1 .. n, NEW j \in 1 .. i - 1, a[i] = x, a[j] = x
          PROVE  \E y, z \in 1 .. n : y # z /\ a[y] = x /\ a[z] = x
      <4>1. j \in 1 .. n /\ i # j
        BY <3>2
      <4> QED BY <3>4, <4>1
    <3> QED BY <3>1, <3>3, <3>4 DEF a, n
  <2>2. Store!NotFound(c) \subseteq Keys
    BY <1>5 DEF Store!NotFound, Locked
  <2>3. 1 .. Done(t) = 1 .. Len(c.args)
    BY <1>3
  <2> QED BY <1>3, <2>1, <2>2, <2>3
<1>8. output[t] = {<<k, Missing>> : k \in Store!NotFound(c)}
  BY <1>2, <1>7 DEF DeletedSoFar
<1> QED BY <1>3, <1>6, <1>8 DEF Store!Effect, Store!Printed

\* READ and SHOW.
LEMMA ReadersOutcome ==
  ASSUME StoreInv, ProgressInv, NEW t \in Jobs, BatchDone(t), cmd[t].cmd \in {"READ", "SHOW"},
         NEW c, c = qsorted(cmd[t])
  PROVE  committed' = Store!Effect(c) /\ output[t] = Store!Printed(c)
<1>1. /\ pc[t] = "body" /\ rest[t] = <<>>
      /\ committed' = [k \in Keys |-> IF wr[hash[k]] = t THEN contents[k] ELSE committed[k]]
  BY DEF BatchDone
<1>2. cmd[t] \in Commands /\ c.cmd = cmd[t].cmd
  BY <1>1, AllTaken, QsortedParts
<1>3. committed' = committed
  <2>1. \A k \in Keys : wr[hash[k]] # t
    BY <1>1, DoneBuckets DEF Writes
  <2> QED BY <1>1, <2>1 DEF StoreInv, BatchInv, BatchTypes
<1>4. CASE cmd[t].cmd = "READ"
  <2>1. ReadSoFar(t)
    BY <1>1, <1>4 DEF ProgressInv, Progress
  <2>2. /\ Done(t) = Len(c.args) /\ DOMAIN c.args = 1 .. Len(c.args)
        /\ \A i : Taken(t, i) = c.args[i]
    BY <1>1, <1>4, ElementsTaken
  <2>3. \A i \in 1 .. Len(c.args) : c.args[i] \in Keys
    BY <1>2, <1>4, QsortedParts, ElementOfSeq
  <2>4. Store!Named(c) = {x \in Keys : \E i \in 1 .. Done(t) : Taken(t, i) = x}
    BY <2>2, <2>3 DEF Store!Named
  <2>5. output[t] = {<<k, committed[k]>> : k \in Store!Named(c)}
    BY <2>1, <2>4 DEF ReadSoFar
  <2> QED BY <1>2, <1>3, <1>4, <2>5 DEF Store!Effect, Store!Printed
<1>5. CASE cmd[t].cmd = "SHOW"
  <2>1. ShownSoFar(t)
    BY <1>1, <1>5 DEF ProgressInv, Progress
  <2>2. Done(t) = TABLE_SIZE
    BY <1>1, <1>5, AllTaken, WholeParts
  <2>3. \A x \in Keys : hash[x] < Done(t)
    BY <2>2, BucketAssumption DEF Buckets
  <2>4. {x \in Keys : hash[x] < Done(t) /\ committed[x] # Missing} =
          {x \in Keys : committed[x] # Missing}
    BY <2>3
  <2>5. output[t] = {<<k, committed[k]>> : k \in {x \in Keys : committed[x] # Missing}}
    BY <2>1, <2>4 DEF ShownSoFar
  <2> QED BY <1>2, <1>3, <1>5, <2>5 DEF Store!Effect, Store!Printed
<1> QED BY <1>4, <1>5

-----------------------------------------------------------------------------
(* The refinement.                                                         *)

\* A step that AtomicStore does not see.
LEMMA StoreStutters ==
  ASSUME UNCHANGED committed,
         \A x \in Jobs :
           \/ pc[x] \in {"lock", "body"} /\ pc'[x] \in {"lock", "body"} /\ cmd'[x] = cmd[x]
           \/ pc[x] \notin {"lock", "body"} /\ pc'[x] \notin {"lock", "body"} /\ output'[x] = output[x]
  PROVE  UNCHANGED Store!storeVars
<1>1. Executing' = Executing /\ Answered' = Answered
  BY DEF Executing, Answered
<1> QED BY <1>1 DEF Store!storeVars, Executing, Answered

\* A command begins when the kvs_ function has sorted its keys.
LEMMA CommandRefines ==
  ASSUME StoreInv, NEW t \in Jobs, NEW c \in Commands, Command(t, c)
  PROVE  Store!StoreBegin(t, qsorted(c))
<1>1. /\ pc[t] = "idle" /\ pc' = [pc EXCEPT ![t] = "lock"] /\ cmd' = [cmd EXCEPT ![t] = c]
      /\ output' = [output EXCEPT ![t] = {}] /\ committed' = committed
  BY DEF Command, Goto, tableVars
<1>2. /\ pc'[t] = "lock" /\ cmd'[t] = c /\ output'[t] = {}
      /\ \A x \in Jobs \ {t} : pc'[x] = pc[x] /\ cmd'[x] = cmd[x] /\ output'[x] = output[x]
  BY <1>1 DEF StoreInv, LockInv, LockTypes, BatchInv, BatchTypes
<1>3. Executing' = [Executing EXCEPT ![t] = qsorted(c)]
  BY <1>2 DEF Executing
<1>4. Answered' = [Answered EXCEPT ![t] = {}]
  BY <1>2 DEF Answered
<1>5. Executing[t] = NoCommand
  BY <1>1 DEF Executing
<1> QED BY <1>1, <1>3, <1>4, <1>5 DEF Store!StoreBegin, Executing, Answered

\* It takes effect when its batch is done.
LEMMA DoneRefines ==
  ASSUME StoreInv, ProgressInv, NEW t \in Jobs, BatchDone(t)
  PROVE  Store!StoreExecute(t)
<1>1. pc[t] = "body" /\ rest[t] = <<>> /\ pc' = [pc EXCEPT ![t] = "unlock"]
      /\ UNCHANGED <<cmd, output>>
  BY DEF BatchDone, Goto, batchVars
<1>2. cmd[t] \in Commands /\ cmd[t].cmd # "BACKUP"
  BY <1>1, AllTaken
<1>3. PICK c : c = qsorted(cmd[t])
  OBVIOUS
<1>4. c # NoCommand
  BY <1>2, <1>3, QsortedParts, CommandsAssumption
<1>5. committed' = Store!Effect(c) /\ output[t] = Store!Printed(c)
  BY <1>2, <1>3, WholeParts, WriteOutcome, DeleteOutcome, ReadersOutcome
<1>6. pc'[t] = "unlock" /\ \A x \in Jobs \ {t} : pc'[x] = pc[x]
  BY <1>1 DEF StoreInv, LockInv, LockTypes
<1>7. Executing' = [Executing EXCEPT ![t] = NoCommand] /\ Executing[t] = c
  BY <1>1, <1>3, <1>6 DEF Executing
<1>8. Answered' = [Answered EXCEPT ![t] = output[t]]
  BY <1>1, <1>6 DEF Answered
<1> QED BY <1>4, <1>5, <1>7, <1>8 DEF Store!StoreExecute, Executing, Answered

\* All other steps change nothing that AtomicStore sees.
LEMMA OthersStutter ==
  ASSUME StoreInv, NEW t \in Jobs,
         \/ Step(t) /\ ~BatchDone(t)
         \/ Acquire(t) \/ Backup(t)
  PROVE  UNCHANGED Store!storeVars
<1>1. CASE WritePair(t) \/ ReadPair(t) \/ DeletePair(t) \/ ShowBucket(t)
  <2>1. pc[t] = "body" /\ UNCHANGED <<pc, cmd, committed>>
    BY <1>1 DEF WritePair, ReadPair, DeletePair, ShowBucket, InBatch, tableVars
  <2>2. \A x \in Jobs \ {t} : output'[x] = output[x]
    BY <1>1 DEF WritePair, ReadPair, DeletePair, ShowBucket, StoreInv, BatchInv, BatchTypes
  <2> QED BY <2>1, <2>2, StoreStutters
<1>2. CASE \E b \in Buckets : Lock(t, b)
  <2>1. /\ pc[t] = "lock" /\ UNCHANGED <<committed, cmd, output>>
        /\ pc' = [pc EXCEPT ![t] = "body"] \/ pc' = pc
    BY <1>2 DEF Lock, Goto, tableVars, batchVars
  <2>2. pc'[t] \in {"lock", "body"} /\ \A x \in Jobs \ {t} : pc'[x] = pc[x]
    BY <2>1 DEF StoreInv, LockInv, LockTypes
  <2> QED BY <2>1, <2>2, StoreStutters
<1>3. CASE \/ Wait(t) \/ DecStore(t) \/ NotAJob(t) \/ Track(t) \/ Fork(t) \/ IncLoad(t) \/ IncStore(t)
           \/ Gate(t) \/ DecLoad(t) \/ Backup(t) \/ Unlock(t)
  <2>1. /\ pc[t] \in {"idle", "gate", "wait", "dec", "fork", "inc", "unlock"}
        /\ UNCHANGED <<committed, output>>
        /\ pc' = pc \/ \E label \in {"idle", "gate", "wait", "dec", "fork", "inc"} :
                         pc' = [pc EXCEPT ![t] = label]
        /\ cmd' = cmd \/ \E c : cmd' = [cmd EXCEPT ![t] = c]
    BY <1>3 DEF Wait, DecStore, NotAJob, Track, Fork, IncLoad, IncStore, Gate, DecLoad, Backup, Unlock, Goto,
       tableVars, batchVars
  <2>2. /\ pc'[t] \notin {"lock", "body"}
        /\ \A x \in Jobs \ {t} : pc'[x] = pc[x] /\ cmd'[x] = cmd[x]
    BY <2>1 DEF StoreInv, LockInv, LockTypes
  <2> QED BY <2>1, <2>2, StoreStutters
<1> QED BY <1>1, <1>2, <1>3 DEF Step, Acquire

\* A WRITE, READ, DELETE or SHOW of a job file is atomic: the threads with their
\* lock per bucket implement the store that executes a command in one step.
THEOREM BucketsAreAtomic == Spec => CommandsAtomic
<1>1. Init => Store!StoreInit
  <2> SUFFICES ASSUME Init PROVE Store!StoreInit
    OBVIOUS
  <2> QED BY DEF Init, Store!StoreInit
<1>2. StoreInv /\ ProgressInv /\ [Next]_vars => [Store!StoreNext]_(Store!storeVars)
  <2> SUFFICES ASSUME StoreInv, ProgressInv, [Next]_vars
               PROVE  Store!StoreNext \/ UNCHANGED Store!storeVars
    OBVIOUS
  <2>1. ASSUME NEW t \in Jobs, NEW c \in Commands, Command(t, c) PROVE Store!StoreNext
    <3>1. c.cmd # "BACKUP"
      BY <2>1 DEF Command
    <3>2. Store!StoreBegin(t, qsorted(c))
      BY <2>1, CommandRefines
    <3> QED BY <3>1, <3>2 DEF Store!StoreNext
  <2>2. ASSUME NEW t \in Jobs, BatchDone(t) PROVE Store!StoreNext
    BY <2>2, DoneRefines DEF Store!StoreNext
  <2>3. CASE \/ UNCHANGED vars \/ \E i \in 1 .. MaxBackups : ChildPrints(i)
             \/ \E t \in Jobs : gen_path(t) \/ \E f \in JobFiles : NextFile(t, f)
    <3>1. UNCHANGED <<committed, pc, cmd, output>>
      BY <2>3 DEF vars, ChildPrints, Ends, NextFile, gen_path, tableVars, batchVars
    <3> QED BY <3>1, StoreStutters
  <2> QED BY <2>1, <2>2, <2>3, OthersStutter DEF Next
<1> QED BY <1>1, <1>2, ProgressInvariant, PTL DEF Spec, CommandsAtomic, Store!StoreSpec
=============================================================================
