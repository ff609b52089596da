---------------------------- MODULE BucketStore ----------------------------
(***************************************************************************)
(* The store of SO/projeto_1: job threads execute WRITE, READ, DELETE,     *)
(* SHOW and BACKUP on a table with one read-write lock per bucket.  A      *)
(* command takes the locks of all its buckets in ascending order and gives *)
(* them back when its batch is done.  BACKUP forks: the child prints its   *)
(* copy of the table, with its copy of the locks, whatever other threads   *)
(* held at the fork.                                                       *)
(*                                                                         *)
(* A bucket's list is modelled by the value of each key: only the thread   *)
(* that holds the bucket's lock walks or changes the list.  The number in   *)
(* a backup's file name comes from BackupTracker.                           *)
(*                                                                         *)
(* The name in it comes from entry->d_name, which is in the buffer of the  *)
(* directory stream.  The threads share the stream: when one of them calls *)
(* readdir and nothing is left in the buffer, the next entries overwrite   *)
(* what the other threads' entries point to, and those go on reading there.*)
(***************************************************************************)
EXTENDS BackupTracker, Sequences, FiniteSets, FiniteSetsExt

CONSTANTS
  Keys, Values, Missing,
  rank,              \* rank[k]: the place of key k in the order of strcmp
  TABLE_SIZE, hash,
  Commands,          \* records [cmd, args] that job files may hold
  max_backup,
  MaxBackups,        \* bound of the model: BACKUPs executed in all
  NoCommand

Buckets == 0 .. TABLE_SIZE - 1

\* hash() is -1 for keys that start with another character; they are left out.
\* main creates a fixed number of threads.
ASSUME BucketAssumption ==
  /\ IsFiniteSet(Jobs)
  /\ rank \in [Keys -> Nat]
  /\ \A j, k \in Keys : rank[j] = rank[k] => j = k
  /\ TABLE_SIZE \in Nat \ {0}
  /\ hash \in [Keys -> Buckets]
  /\ Missing \notin Values /\ NoCommand \notin Commands
  /\ max_backup \in Nat \ {0} /\ MaxBackups \in Nat

\* What readFilesLines hands to the kvs_ functions: parse_write fills pairs,
\* parse_read_delete keys, and a batch without any is refused.
Batches == [cmd: {"WRITE"}, args: Seq(Keys \X Values) \ {<<>>}]
             \cup [cmd: {"READ", "DELETE"}, args: Seq(Keys) \ {<<>>}]
             \cup [cmd: {"SHOW", "BACKUP"}, args: {<<>>}]

ASSUME CommandsAssumption == Commands \subseteq Batches /\ NoCommand \notin Batches

VARIABLES
  contents,          \* contents[k]: the value of k in its bucket's list
  wr, rd,            \* wr[b], rd[b]: writer and readers of locks[b]
  dir,               \* job files that readdir has not returned yet
  buffer,            \* those of them that are in the stream's buffer
  d_name,            \* d_name[t]: the job file that entry->d_name of t names now
  file,              \* file[t]: the job file that thread t executes
  refilled,          \* history: an entry was overwritten that a thread had
  pc,
  cmd,               \* the command a thread executes, as in its job file
  rest,              \* what is left of its batch
  output,            \* pairs it has printed
  simultaneous_backups,
  mutex,             \* owner of simultaneous_backups_mutex
  loaded,            \* the counter as a thread that updates it has read it
  children,          \* the forked processes, in order
  committed          \* history: contents as the commands that are done left it

tableVars  == <<contents, committed>>
lockVars   == <<wr, rd>>
fileVars   == <<dir, buffer, d_name, file, refilled>>
batchVars  == <<cmd, rest, output>>
gateVars   == <<simultaneous_backups, mutex, loaded, children>>
backupVars == <<gateVars, trackerVars>>
vars == <<tableVars, lockVars, fileVars, pc, batchVars, backupVars>>

Child == [st: {"running", "zombie", "reaped"},
          blocked: SUBSET Buckets,  \* locks that are taken for ever in its copy
          file: JobFiles \cup {NoFile}, number: -1 .. MaxBackups,   \* its file is <file>-<number>.bck
          whole: BOOLEAN]           \* history: its table is as commands left it

LockTypes ==
  /\ wr \in [Buckets -> Jobs \cup {NoThread}]
  /\ rd \in [Buckets -> SUBSET Jobs]
  /\ pc \in [Jobs -> {"idle", "lock", "body", "unlock", "gate", "wait", "dec", "fork", "inc"}]
  /\ cmd \in [Jobs -> Commands \cup {NoCommand}]

BatchTypes ==
  /\ contents \in [Keys -> Values \cup {Missing}]
  /\ committed \in [Keys -> Values \cup {Missing}]
  /\ rest \in [Jobs -> Seq((Keys \X Values) \cup Keys \cup {<<b>> : b \in Buckets})]
  /\ output \in [Jobs -> SUBSET (Keys \X (Values \cup {Missing}))]

BackupTypes ==
  /\ dir \subseteq JobFiles /\ buffer \subseteq dir
  /\ d_name \in [Jobs -> JobFiles \cup {NoFile}] /\ refilled \in BOOLEAN
  /\ file \in [Jobs -> JobFiles \cup {NoFile}]
  /\ TrackerTypes
  /\ mutex \in Jobs \cup {NoThread}
  /\ simultaneous_backups \in Int
  /\ loaded \in [Jobs -> Int \cup {NoThread}]
  /\ children \in Seq(Child) /\ Len(children) <= MaxBackups

TypeOK == LockTypes /\ BatchTypes /\ BackupTypes

Init ==
  /\ contents = [k \in Keys |-> Missing] /\ committed = contents
  /\ wr = [b \in Buckets |-> NoThread] /\ rd = [b \in Buckets |-> {}]
  /\ dir = JobFiles /\ buffer = {}
  /\ file = [t \in Jobs |-> NoFile] /\ d_name = file /\ refilled = FALSE
  /\ TrackerInit
  /\ pc = [t \in Jobs |-> "idle"]
  /\ cmd = [t \in Jobs |-> NoCommand]
  /\ rest = [t \in Jobs |-> <<>>]
  /\ output = [t \in Jobs |-> {}]
  /\ simultaneous_backups = 0 /\ mutex = NoThread
  /\ loaded = [t \in Jobs |-> NoThread]
  /\ children = <<>>

Goto(t, label) == pc' = [pc EXCEPT ![t] = label]

\* readdir finds its buffer used up and fills it: an entry that another thread has
\* shows what it did, an entry of the new block, or (NoFile) nothing.  Names have
\* one length: the child takes its name up to the dot where the old one ended.
Refill(t, f) ==
  \E block \in SUBSET dir :
    /\ f \in block /\ buffer' = block \ {f}
    /\ d_name' \in {n \in [Jobs -> JobFiles \cup {NoFile}] :
         /\ n[t] = f
         /\ \A u \in Jobs \ {t} :
              n[u] \in {d_name[u]} \cup (IF d_name[u] = NoFile THEN {} ELSE block \cup {NoFile})}
    /\ refilled' = (refilled \/ d_name' # [d_name EXCEPT ![t] = f])

\* processFiles: the thread goes from one job file to the next entry that readdir
\* returns (glibc locks the stream for the call, and no longer).
NextFile(t, f) ==
  /\ pc[t] = "idle" /\ f \in dir
  /\ dir' = dir \ {f}
  /\ \/ buffer = {} /\ Refill(t, f)
     \/ /\ f \in buffer /\ buffer' = buffer \ {f}
        /\ d_name' = [d_name EXCEPT ![t] = f] /\ UNCHANGED refilled
  /\ file' = [file EXCEPT ![t] = NoFile]
  /\ UNCHANGED <<tableVars, lockVars, pc, batchVars, backupVars>>

\* gen_path takes the name from the entry as it is now, and passes over an entry
\* that names no job file.
gen_path(t) ==
  /\ pc[t] = "idle" /\ file[t] = NoFile /\ d_name[t] # NoFile
  /\ file' = [file EXCEPT ![t] = d_name[t]]
  /\ UNCHANGED <<tableVars, lockVars, dir, buffer, d_name, refilled, pc, batchVars, backupVars>>

-----------------------------------------------------------------------------
(* The batch of a command.                                                 *)

\* qsort with compare_keys sorts the keys; the values of a WRITE stay where
\* they are, so that the i-th value goes to the i-th key in order.
compare_keys(j, k) == rank[j] < rank[k]
Place(s, i) ==
  Cardinality({j \in DOMAIN s : compare_keys(s[j], s[i]) \/ (s[j] = s[i] /\ j <= i)})
Sorted(s) == [n \in DOMAIN s |-> s[CHOOSE i \in DOMAIN s : Place(s, i) = n]]

qsorted(c) ==
  IF c.cmd = "WRITE"
  THEN LET keys == Sorted([i \in DOMAIN c.args |-> c.args[i][1]])
       IN [c EXCEPT !.args = [i \in DOMAIN c.args |-> <<keys[i], c.args[i][2]>>]]
  ELSE [c EXCEPT !.args = Sorted(c.args)]

\* (Faulty variant for mutation: only the first key's bucket is marked.)
boolean_locks_first(c) ==
  CASE c.cmd = "SHOW"  -> Buckets
    [] c.cmd = "WRITE" -> {hash[c.args[1][1]]}
    [] OTHER           -> {hash[c.args[1]]}

\* The buckets that lock_keys marks in boolean_locks; SHOW locks them all.
boolean_locks(c) ==
  CASE c.cmd = "SHOW"  -> Buckets
    [] c.cmd = "WRITE" -> {hash[c.args[i][1]] : i \in DOMAIN c.args}
    [] OTHER           -> {hash[c.args[i]] : i \in DOMAIN c.args}

Held(t)   == {b \in Buckets : wr[b] = t \/ t \in rd[b]}
Writes(t) == cmd[t].cmd \in {"WRITE", "DELETE"}

\* readFilesLines reads a command and calls its function; kvs_show goes over the
\* buckets in order.
Command(t, c) ==
  /\ pc[t] = "idle" /\ file[t] # NoFile /\ c.cmd # "BACKUP"
  /\ cmd' = [cmd EXCEPT ![t] = c]
  /\ rest' = [rest EXCEPT ![t] = IF c.cmd = "SHOW"
                                 THEN [i \in 1 .. TABLE_SIZE |-> <<i - 1>>]
                                 ELSE qsorted(c).args]
  /\ output' = [output EXCEPT ![t] = {}]
  /\ Goto(t, "lock")
  /\ UNCHANGED <<tableVars, fileVars, lockVars, backupVars>>

\* (Faulty variant for mutation: the locks are taken in the order of the keys.)
LockNextInKeyOrder(t, b) ==
  LET bucket(i) == CASE cmd[t].cmd = "SHOW"  -> rest[t][i][1]
                     [] cmd[t].cmd = "WRITE" -> hash[rest[t][i][1]]
                     [] OTHER                -> hash[rest[t][i]]
  IN \E i \in DOMAIN rest[t] :
       /\ b = bucket(i) /\ b \notin Held(t)
       /\ \A j \in 1 .. i - 1 : bucket(j) \in Held(t)

\* The bucket whose lock lock_keys takes next.
LockNext(t, b) ==
  LET missing == boolean_locks(cmd[t]) \ Held(t)
  IN missing # {} /\ b = Min(missing)

\* (Faulty variant for mutation: every command locks for reading.)
LockForReading(t, b) ==
  /\ pc[t] = "lock" /\ LockNext(t, b)
  /\ wr[b] = NoThread
  /\ rd' = [rd EXCEPT ![b] = @ \cup {t}]
  /\ IF boolean_locks(cmd[t]) = Held(t) \cup {b} THEN Goto(t, "body") ELSE UNCHANGED pc
  /\ UNCHANGED <<tableVars, fileVars, wr, batchVars, backupVars>>

\* One pthread_rwlock_wrlock or pthread_rwlock_rdlock.
Lock(t, b) ==
  /\ pc[t] = "lock" /\ LockNext(t, b)
  /\ IF Writes(t)
     THEN /\ wr[b] = NoThread /\ rd[b] = {}
          /\ wr' = [wr EXCEPT ![b] = t]
          /\ UNCHANGED rd
     ELSE /\ wr[b] = NoThread
          /\ rd' = [rd EXCEPT ![b] = @ \cup {t}]
          /\ UNCHANGED wr
  /\ IF boolean_locks(cmd[t]) = Held(t) \cup {b} THEN Goto(t, "body") ELSE UNCHANGED pc
  /\ UNCHANGED <<tableVars, fileVars, batchVars, backupVars>>

\* The table after write_pair and delete_pair, and what read_pair finds in it.
write_pair(k, v) == [contents EXCEPT ![k] = v]
delete_pair(k)   == [contents EXCEPT ![k] = Missing]
read_pair(k)     == contents[k]

InBatch(t, c) == pc[t] = "body" /\ cmd[t].cmd = c /\ rest[t] # <<>>
NextOfBatch(t) == rest' = [rest EXCEPT ![t] = Tail(@)]

\* kvs_write: the next key and the value in its place.
WritePair(t) ==
  /\ InBatch(t, "WRITE")
  /\ contents' = write_pair(Head(rest[t])[1], Head(rest[t])[2])
  /\ NextOfBatch(t)
  /\ UNCHANGED <<committed, fileVars, lockVars, pc, cmd, output, backupVars>>

\* kvs_read: the next key with its value or KVSERROR.
ReadPair(t) ==
  /\ InBatch(t, "READ")
  /\ LET k == Head(rest[t]) IN
       output' = [output EXCEPT ![t] = @ \cup {<<k, read_pair(k)>>}]
  /\ NextOfBatch(t)
  /\ UNCHANGED <<tableVars, fileVars, lockVars, pc, cmd, backupVars>>

\* kvs_delete: a key that is not there is printed with KVSMISSING.
DeletePair(t) ==
  /\ InBatch(t, "DELETE")
  /\ LET k == Head(rest[t]) IN
       /\ contents' = delete_pair(k)
       /\ output' = [output EXCEPT ![t] =
            IF read_pair(k) = Missing THEN @ \cup {<<k, Missing>>} ELSE @]
  /\ NextOfBatch(t)
  /\ UNCHANGED <<committed, fileVars, lockVars, pc, cmd, backupVars>>

\* kvs_show prints the pairs of the next bucket.
ShowBucket(t) ==
  /\ InBatch(t, "SHOW")
  /\ output' = [output EXCEPT ![t] = @ \cup
       {<<k, contents[k]>> : k \in {x \in Keys : hash[x] = Head(rest[t])[1] /\ contents[x] # Missing}}]
  /\ NextOfBatch(t)
  /\ UNCHANGED <<tableVars, fileVars, lockVars, pc, cmd, backupVars>>

\* The loop over the batch ends; what it changed now counts as done.
BatchDone(t) ==
  /\ pc[t] = "body" /\ rest[t] = <<>>
  /\ committed' = [k \in Keys |-> IF wr[hash[k]] = t THEN contents[k] ELSE committed[k]]
  /\ Goto(t, "unlock")
  /\ UNCHANGED <<contents, fileVars, lockVars, batchVars, backupVars>>

\* One pthread_rwlock_unlock of unlock_keys, in ascending order.
Unlock(t) ==
  /\ pc[t] = "unlock"
  /\ LET b == Min(Held(t)) IN
       /\ wr' = [wr EXCEPT ![b] = IF @ = t THEN NoThread ELSE @]
       /\ rd' = [rd EXCEPT ![b] = @ \ {t}]
       /\ IF Held(t) = {b}
          THEN Goto(t, "idle") /\ cmd' = [cmd EXCEPT ![t] = NoCommand]
          ELSE UNCHANGED <<pc, cmd>>
  /\ UNCHANGED <<tableVars, fileVars, rest, output, backupVars>>

-----------------------------------------------------------------------------
(* kvs_backup.                                                             *)

BackingUp == {t \in Jobs : pc[t] \in {"gate", "wait", "dec", "fork"}}

Backup(t) ==
  /\ pc[t] = "idle" /\ file[t] # NoFile
  /\ Len(children) + Cardinality(BackingUp) < MaxBackups
  /\ \E c \in Commands : c.cmd = "BACKUP" /\ cmd' = [cmd EXCEPT ![t] = c]
  /\ Goto(t, "gate")
  /\ UNCHANGED <<tableVars, fileVars, lockVars, rest, output, backupVars>>

\* The counter is read inside the mutex, which is free again before anything
\* is done about it.
Gate(t) ==
  /\ pc[t] = "gate" /\ mutex = NoThread
  /\ IF simultaneous_backups >= max_backup
     THEN Goto(t, "wait") /\ UNCHANGED trackerVars
     ELSE Goto(t, "fork") /\ Enter(t)
  /\ UNCHANGED <<tableVars, fileVars, lockVars, batchVars, gateVars>>

\* wait(NULL) reaps a child that has ended or fails at once if there is none.
Wait(t) ==
  /\ pc[t] = "wait"
  /\ \/ \E i \in DOMAIN children :
          /\ children[i].st = "zombie"
          /\ children' = [children EXCEPT ![i].st = "reaped"]
     \/ /\ \A i \in DOMAIN children : children[i].st = "reaped"
        /\ UNCHANGED children
  /\ Goto(t, "dec")
  /\ UNCHANGED <<tableVars, fileVars, lockVars, batchVars, simultaneous_backups, mutex,
                 loaded, trackerVars>>

\* simultaneous_backups-- inside the mutex, but against increments outside it:
\* a load and a store.
DecLoad(t) ==
  /\ pc[t] = "dec" /\ mutex = NoThread
  /\ mutex' = t
  /\ loaded' = [loaded EXCEPT ![t] = simultaneous_backups]
  /\ UNCHANGED <<tableVars, fileVars, lockVars, pc, batchVars, simultaneous_backups,
                 children, trackerVars>>

DecStore(t) ==
  /\ pc[t] = "dec" /\ mutex = t
  /\ simultaneous_backups' = loaded[t] - 1
  /\ loaded' = [loaded EXCEPT ![t] = NoThread]
  /\ mutex' = NoThread
  /\ Goto(t, "fork") /\ Enter(t)
  /\ UNCHANGED <<tableVars, fileVars, lockVars, batchVars, children>>

\* gen_path_backup makes no backup if the entry's name no longer ends in .job.
NotAJob(t) ==
  /\ pc[t] = "fork" /\ d_name[t] = NoFile /\ Quit(t)
  /\ Goto(t, "idle")
  /\ cmd' = [cmd EXCEPT ![t] = NoCommand]
  /\ UNCHANGED <<tableVars, fileVars, lockVars, rest, output, gateVars>>

\* gen_path_backup asks for the number of this backup.
Track(t) ==
  /\ pc[t] = "fork" /\ (where[t] = "search" => d_name[t] # NoFile)
  /\ get_backup_count(t, d_name[t])
  /\ UNCHANGED <<tableVars, fileVars, lockVars, pc, batchVars, gateVars>>

\* fork: the child gets the table, the locks and the entry as they are.
Fork(t) ==
  /\ pc[t] = "fork" /\ Leave(t)
  /\ children' = Append(children,
       [st |-> "running", blocked |-> {b \in Buckets : wr[b] # NoThread},
        file |-> d_name[t], number |-> backup_count[t], whole |-> contents = committed])
  /\ Goto(t, "inc")
  /\ UNCHANGED <<tableVars, fileVars, lockVars, batchVars, simultaneous_backups, mutex, loaded>>

\* simultaneous_backups++ without the mutex.
IncLoad(t) ==
  /\ pc[t] = "inc" /\ loaded[t] = NoThread
  /\ loaded' = [loaded EXCEPT ![t] = simultaneous_backups]
  /\ UNCHANGED <<tableVars, fileVars, lockVars, pc, batchVars, simultaneous_backups, mutex,
                 children, trackerVars>>

IncStore(t) ==
  /\ pc[t] = "inc" /\ loaded[t] # NoThread
  /\ simultaneous_backups' = loaded[t] + 1
  /\ loaded' = [loaded EXCEPT ![t] = NoThread]
  /\ Goto(t, "idle")
  /\ cmd' = [cmd EXCEPT ![t] = NoCommand]
  /\ UNCHANGED <<tableVars, fileVars, lockVars, rest, output, mutex, children, trackerVars>>

Ends(i) ==
  /\ children[i].st = "running"
  /\ children' = [children EXCEPT ![i].st = "zombie"]
  /\ UNCHANGED <<tableVars, fileVars, lockVars, pc, batchVars, simultaneous_backups, mutex,
                 loaded, trackerVars>>

\* (Faulty variant for mutation: the child's kvs_show takes no lock.)
ChildPrintsUnlocked(i) == i \in DOMAIN children /\ Ends(i)

\* The child takes every lock for reading, prints its table and exits; a lock
\* whose writer does not exist in the child stops it for ever.  A child without
\* a number exits at once.
ChildPrints(i) ==
  /\ i \in DOMAIN children
  /\ children[i].blocked = {} \/ children[i].number = -1
  /\ Ends(i)

-----------------------------------------------------------------------------
Step(t) == \/ WritePair(t) \/ ReadPair(t) \/ DeletePair(t) \/ ShowBucket(t)
           \/ BatchDone(t) \/ Unlock(t)
           \/ Wait(t) \/ DecStore(t) \/ NotAJob(t) \/ Track(t) \/ Fork(t) \/ IncLoad(t) \/ IncStore(t)

\* What a thread may have to wait for: a lock or the mutex.
Acquire(t) == (\E b \in Buckets : Lock(t, b)) \/ Gate(t) \/ DecLoad(t)

Next == \/ \E t \in Jobs, f \in JobFiles : NextFile(t, f)
        \/ \E t \in Jobs, c \in Commands : Command(t, c)
        \/ \E t \in Jobs : gen_path(t) \/ Step(t) \/ Acquire(t) \/ Backup(t)
        \/ \E i \in 1 .. MaxBackups : ChildPrints(i)

Spec == Init /\ [][Next]_vars

(* Fairness: threads and children run, and a thread that waits for a lock   *)
(* or for the mutex gets it if it is free again and again.  No job has to   *)
(* issue another command.                                                  *)
Fairness == /\ \A t \in Jobs : WF_vars(Step(t)) /\ SF_vars(Acquire(t))
            /\ WF_vars(\E i \in 1 .. MaxBackups : ChildPrints(i))

FairSpec == Spec /\ Fairness

-----------------------------------------------------------------------------
(* Correctness.                                                            *)

\* A lock has one writer or some readers, and a thread works on its batch only
\* with the locks of all buckets of the batch (kvs_write to kvs_show).
BatchLocked ==
  /\ \A b \in Buckets : wr[b] # NoThread => rd[b] = {}
  /\ \A t \in Jobs : pc[t] = "body" =>
       \A b \in boolean_locks(cmd[t]) : IF Writes(t) THEN wr[b] = t ELSE t \in rd[b]

\* The strengthening that makes BatchLocked inductive: a thread holds locks only
\* for the batch at hand, each in the mode of its command.
HeldInMode ==
  \A t \in Jobs :
    /\ pc[t] \in {"lock", "body"} =>
         \A b \in Held(t) : IF Writes(t) THEN wr[b] = t ELSE t \in rd[b]
    /\ pc[t] = "body" => Held(t) = boolean_locks(cmd[t])
    /\ pc[t] \notin {"lock", "body", "unlock"} => Held(t) = {}

LockInv == LockTypes /\ HeldInMode /\ BatchLocked

\* Whom a thread waits for in lock_keys: who has its next lock and keeps it out.
WaitsFor(t, u) ==
  pc[t] = "lock" /\ \E b \in Buckets : LockNext(t, b) /\ (wr[b] = u \/ (Writes(t) /\ u \in rd[b]))

\* Threads that wait for bucket locks never wait for each other in a circle,
\* however many there are: among any of them one waits for none of the others.
NoCircularWait ==
  \A W \in SUBSET Jobs : W # {} => \E t \in W : \A u \in W : ~WaitsFor(t, u)

\* WRITE, READ, DELETE and SHOW are atomic although each bucket has its own
\* lock: the store changes when a batch is done.  The atomic store's commands
\* are the ones of the job files after qsort.
Store == INSTANCE AtomicStore WITH
  StoreCommands <- {qsorted(c) : c \in {x \in Commands : x.cmd # "BACKUP"}},
  store   <- committed,
  pending <- [t \in Jobs |-> IF pc[t] \in {"lock", "body"} THEN qsorted(cmd[t])
                                                           ELSE NoCommand],
  answer  <- [t \in Jobs |-> IF pc[t] \in {"lock", "body"} THEN {} ELSE output[t]]

CommandsAtomic == Store!StoreSpec

\* A backup that is written shows the table between commands: the fork may come
\* in the middle of a WRITE of another thread, but that child never prints.
BackupsWhole ==
  \A i \in DOMAIN children :
    children[i].st # "running" /\ children[i].number # -1 => children[i].whole

\* The backups of a job file are numbered 1, 2, 3, ..., so that none is written
\* over another, unless there was no slot for the file, two threads filled their
\* slots of backup_tracker at the same time (get_backup_count), or a readdir
\* overwrote the entry that a thread takes its file's name from.
BackupsNumbered ==
  ~raced /\ ~refilled => \A i \in DOMAIN children :
    children[i].number \in
      {-1, Cardinality({j \in 1 .. i : children[j].file = children[i].file})}

\* A child that will never print.
Stuck == \E i \in DOMAIN children : children[i].blocked # {} /\ children[i].number # -1

\* A command ends: neither the order of the locks nor wait(NULL) stops a
\* thread, unless a child inherited a lock that is taken for ever.
CommandEndsUnlessStuck == \A t \in Jobs : pc[t] # "idle" ~> pc[t] = "idle" \/ Stuck

\* A WRITE gives each key the value that the job file pairs it with (the last
\* one if the key is named twice).
WritesItsPairs ==
  \A t \in Jobs :
    pc[t] = "unlock" /\ cmd[t].cmd = "WRITE" /\ Held(t) = boolean_locks(cmd[t]) =>
      \A i \in DOMAIN cmd[t].args :
        \/ contents[cmd[t].args[i][1]] = cmd[t].args[i][2]
        \/ \E j \in DOMAIN cmd[t].args : j > i /\ cmd[t].args[j][1] = cmd[t].args[i][1]
=============================================================================
