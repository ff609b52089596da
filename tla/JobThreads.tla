---------------------------- MODULE JobThreads ----------------------------
(***************************************************************************)
(* The job threads of SO/projeto_2's server: main.c get_file and the       *)
(* BACKUP command of run_job, with kvs_backup in operations.c.             *)
(*                                                                         *)
(* A thread calls readdir under directory_mutex until it meets a .job      *)
(* file, releases the mutex, opens the file and runs it, and comes back.   *)
(* For a BACKUP it passes a gate under n_current_backups_lock: the gate    *)
(* counts in active_backups up to max_backups and from then on waits, with *)
(* the mutex, for any child.  After the gate it forks a child that prints  *)
(* the table and exits.  The child's file is named after entry->d_name, a  *)
(* pointer into the directory stream's buffer, which a later readdir of    *)
(* another thread may fill again; the paths of the input and output files  *)
(* are copies made under the mutex.  strtok, which forms the name, cuts it *)
(* off at the '.' in the buffer itself: if the buffer was filled again the *)
(* entry that loses its .job may be one that no thread has read yet.       *)
(*                                                                         *)
(* The fork needs the table's read lock, which a failed request of a       *)
(* client can leave taken (Leak, Release); the other commands of a job and *)
(* the requests are in KvsServer.  SIGUSR1 ends a wait(NULL) that blocks:  *)
(* signal() of -std=c17 installs the handler without SA_RESTART.           *)
(***************************************************************************)
EXTENDS Naturals, FiniteSets

CONSTANTS Jobs,         \* the max_threads job threads
          max_backups,
          Files,        \* names in the directory
          JobFiles,     \* those that entry_files accepts
          BlockSize,    \* entries that one filling of the stream's buffer holds
          MaxBackups,   \* bound of the model: BACKUP commands per job file
          MaxSignals,   \* bound of the model: signals that end a wait
          NoThread, NoFile

ASSUME JobThreadsAssumption ==
  /\ IsFiniteSet(Jobs) /\ IsFiniteSet(Files)
  /\ max_backups \in Nat \ {0}     \* main() rejects 0
  /\ JobFiles \subseteq Files
  /\ NoThread \notin Jobs
  /\ NoFile \notin Files
  /\ BlockSize \in Nat \ {0}
  /\ MaxBackups \in Nat
  /\ MaxSignals \in Nat

VARIABLES
  dir,              \* the directory: its entries in the order of readdir
  pos,              \* number of entries already returned
  directory_mutex,  \* its owner, or NoThread
  pc,
  entry,            \* entry[t]: number of the entry that t's pointer is for
  path,             \* path[t]: the file that t opens and runs
  started,          \* started[f]: times that a thread took f from the directory
  cut,              \* entries cut off in the buffer before readdir returned them
  ran,              \* files that were run to their end
  file_backups,     \* file_backups[t]: BACKUPs in t's job so far
  bck_name,         \* bck_name[t]: job that the last backup of t's job is named after
  active_backups,
  n_current_backups_lock,   \* its owner, or NoThread
  running,          \* children that are printing
  zombies,          \* children that have exited and nobody waited for
  leaked,           \* does a failed request hold the table's write lock?
  interrupted       \* history: waits for a child that a signal has ended

dirVars  == <<dir, pos, directory_mutex, entry, path, started, cut>>
gateVars == <<active_backups, n_current_backups_lock>>
children == <<running, zombies, leaked, interrupted>>
vars == <<dirVars, pc, ran, file_backups, bck_name, gateVars, children>>

\* How many entries the directory has.
Entries == Cardinality(Files)

\* Where a thread is while it has a job file, and while it runs one.
Running == {"run", "backup", "gate", "name", "fork"}
Holding == Running \cup {"open"}

TypeOK ==
  /\ dir \in [1 .. Entries -> Files]
  /\ pos \in 0 .. Entries
  /\ directory_mutex \in Jobs \cup {NoThread}
  /\ pc \in [Jobs -> {"lock", "readdir", "done"} \cup Holding]
  /\ entry \in [Jobs -> 0 .. Entries]
  /\ path \in [Jobs -> Files \cup {NoFile}]
  /\ started \in [Files -> Nat]
  /\ cut \in SUBSET (1 .. Entries)
  /\ ran \in SUBSET JobFiles
  /\ file_backups \in [Jobs -> 0 .. MaxBackups]
  /\ bck_name \in [Jobs -> Files \cup {NoFile}]
  /\ active_backups \in 0 .. max_backups
  /\ n_current_backups_lock \in Jobs \cup {NoThread}
  /\ running \in Nat
  /\ zombies \in Nat
  /\ leaked \in BOOLEAN
  /\ interrupted \in 0 .. MaxSignals

\* The order of the entries is the file system's.
Init ==
  /\ dir \in [1 .. Entries -> Files]
  /\ \A i, j \in 1 .. Entries : dir[i] = dir[j] => i = j
  /\ pos = 0
  /\ directory_mutex = NoThread
  /\ pc = [t \in Jobs |-> "lock"]
  /\ entry = [t \in Jobs |-> 0]
  /\ path = [t \in Jobs |-> NoFile]
  /\ started = [f \in Files |-> 0]
  /\ cut = {}
  /\ ran = {}
  /\ file_backups = [t \in Jobs |-> 0]
  /\ bck_name = [t \in Jobs |-> NoFile]
  /\ active_backups = 0
  /\ n_current_backups_lock = NoThread
  /\ running = 0 /\ zombies = 0
  /\ leaked = FALSE
  /\ interrupted = 0

Goto(t, from, to) == pc[t] = from /\ pc' = [pc EXCEPT ![t] = to]

\* The entries that the stream's buffer holds after n calls of readdir.
Block(i)  == (i - 1) \div BlockSize
Loaded(n) == {i \in 1 .. Entries : n > 0 /\ Block(i) = Block(n)}

-----------------------------------------------------------------------------
(* The directory.                                                          *)

Lock(t) == /\ Goto(t, "lock", "readdir")
           /\ directory_mutex = NoThread
           /\ directory_mutex' = t
           /\ UNCHANGED <<dir, pos, entry, path, started, cut, ran, file_backups, bck_name,
                          gateVars, children>>

\* Entry n becomes t's: t keeps its path and the pointer and unlocks.
TakeEntry(t, n) ==
  /\ n <= Entries
  /\ Goto(t, "readdir", "open")
  /\ entry' = [entry EXCEPT ![t] = n]
  /\ path' = [path EXCEPT ![t] = dir[n]]
  /\ started' = [started EXCEPT ![dir[n]] = @ + 1]
  /\ directory_mutex' = NoThread
  /\ UNCHANGED <<dir, cut, ran, file_backups, bck_name, gateVars, children>>

\* (Faulty variants: the stream does not advance over a file taken; entry_files
\* is not asked.)
TakeSame(t) == /\ TakeEntry(t, pos + 1) /\ dir[pos + 1] \in JobFiles
               /\ UNCHANGED pos
TakeUnfiltered(t) == TakeEntry(t, pos + 1) /\ pos' = pos + 1

\* What entry_files looks for: a .job at the end of the name in the buffer.
IsJob(i) == dir[i] \in JobFiles /\ i \notin cut

\* readdir returns a .job file.
Take(t) == /\ TakeEntry(t, pos + 1) /\ IsJob(pos + 1)
           /\ pos' = pos + 1

\* Another entry: entry_files rejects it and the loop goes on with the mutex.
Skip(t) ==
  /\ pc[t] = "readdir"
  /\ pos < Entries /\ ~IsJob(pos + 1)
  /\ pos' = pos + 1
  /\ UNCHANGED <<dir, directory_mutex, pc, entry, path, started, cut, ran, file_backups,
                 bck_name, gateVars, children>>

\* (Faulty variant: the thread leaves with the mutex.)
LeaveLocked(t) == /\ pos = Entries
                  /\ Goto(t, "readdir", "done")
                  /\ UNCHANGED <<dirVars, ran, file_backups, bck_name, gateVars, children>>

\* The end of the directory: unlock, pthread_exit.
Leave(t) == /\ pos = Entries
            /\ Goto(t, "readdir", "done")
            /\ directory_mutex' = NoThread
            /\ UNCHANGED <<dir, pos, entry, path, started, cut, ran, file_backups, bck_name,
                           gateVars, children>>

\* Both open() calls succeed: run_job begins, with file_backups = 0.
Open(t) == /\ Goto(t, "open", "run")
           /\ file_backups' = [file_backups EXCEPT ![t] = 0]
           /\ bck_name' = [bck_name EXCEPT ![t] = NoFile]
           /\ UNCHANGED <<dirVars, ran, gateVars, children>>

\* One fails: the thread ends.
OpenFails(t) == /\ Goto(t, "open", "done")
                /\ UNCHANGED <<dirVars, ran, file_backups, bck_name, gateVars, children>>

\* (Faulty variant: the thread does not go back for another file.)
FinishEnds(t) == /\ Goto(t, "run", "done")
                 /\ ran' = ran \cup {path[t]}
                 /\ UNCHANGED <<dirVars, file_backups, bck_name, gateVars, children>>

\* The end of the job file; the thread closes its files and goes back.
Finish(t) == /\ Goto(t, "run", "lock")
             /\ ran' = ran \cup {path[t]}
             /\ UNCHANGED <<dirVars, file_backups, bck_name, gateVars, children>>

-----------------------------------------------------------------------------
(* BACKUP.                                                                 *)

\* The job file has a BACKUP command.
Command(t) == /\ file_backups[t] < MaxBackups
              /\ Goto(t, "run", "backup")
              /\ UNCHANGED <<dirVars, ran, file_backups, bck_name, gateVars, children>>

\* pthread_mutex_lock(&n_current_backups_lock).
LockBackups(t) == /\ Goto(t, "backup", "gate")
                  /\ n_current_backups_lock = NoThread
                  /\ n_current_backups_lock' = t
                  /\ UNCHANGED <<dirVars, ran, file_backups, bck_name, active_backups,
                                 children>>

\* active_backups < max_backups: active_backups++, unlock.
Count(t) == /\ active_backups < max_backups
            /\ Goto(t, "gate", "name")
            /\ active_backups' = active_backups + 1
            /\ n_current_backups_lock' = NoThread
            /\ UNCHANGED <<dirVars, ran, file_backups, bck_name, children>>

\* wait(NULL) takes one exited child, blocks while all children run, and fails
\* at once (ECHILD) when there is none.
WaitAny == /\ \/ zombies > 0 /\ zombies' = zombies - 1
              \/ running + zombies = 0 /\ UNCHANGED zombies
           /\ UNCHANGED <<running, leaked, interrupted>>

\* (Faulty variants: the gate does not wait for a child; the mutex is not
\* released after the wait.)
NoWait(t) == /\ active_backups >= max_backups
             /\ Goto(t, "gate", "name")
             /\ n_current_backups_lock' = NoThread
             /\ UNCHANGED <<dirVars, ran, file_backups, bck_name, active_backups, children>>
WaitChildKeepLock(t) == /\ active_backups >= max_backups
                        /\ Goto(t, "gate", "name")
                        /\ WaitAny
                        /\ UNCHANGED <<dirVars, ran, file_backups, bck_name, gateVars>>

\* Otherwise wait(NULL), then unlock.
WaitChild(t) == /\ active_backups >= max_backups
                /\ Goto(t, "gate", "name")
                /\ WaitAny
                /\ n_current_backups_lock' = NoThread
                /\ UNCHANGED <<dirVars, ran, file_backups, bck_name, active_backups>>

\* The handler of SIGUSR1 has run on the thread that waits: wait returns with
\* EINTR, which nobody looks at.
WaitInterrupted(t) ==
  /\ active_backups >= max_backups
  /\ Goto(t, "gate", "name")
  /\ running > 0 /\ zombies = 0
  /\ interrupted < MaxSignals
  /\ interrupted' = interrupted + 1
  /\ n_current_backups_lock' = NoThread
  /\ UNCHANGED <<dirVars, ran, file_backups, bck_name, active_backups, running, zombies,
                 leaked>>

\* (Faulty variant: any entry that the buffer holds may stand there.)
NamedAny(t) == {entry[t]} \cup Loaded(pos)

\* What entry->d_name may point to: t's own file while its block is in the
\* stream's buffer; afterwards another block may have been written over it, or
\* over other bytes.
Named(t) == {entry[t]} \cup (IF entry[t] \in Loaded(pos) THEN {} ELSE Loaded(pos))

\* kvs_backup(++file_backups, ...) forms the name; strtok ends it at the '.', in
\* the buffer.
Name(t) == /\ Goto(t, "name", "fork")
           /\ file_backups' = [file_backups EXCEPT ![t] = @ + 1]
           /\ \E i \in Named(t) : /\ bck_name' = [bck_name EXCEPT ![t] = dir[i]]
                                  /\ cut' = cut \cup ({i} \ 1 .. pos)
           /\ UNCHANGED <<dir, pos, directory_mutex, entry, path, started, ran, gateVars,
                          children>>

\* The fork, with the table's read lock around it.  If it fails there is no
\* file, and the counter of backups is left alone.
Fork(t) == /\ Goto(t, "fork", "run")
           /\ ~leaked
           /\ running' \in {running, running + 1}
           /\ UNCHANGED <<dirVars, ran, file_backups, bck_name, gateVars, zombies, leaked,
                          interrupted>>

\* A child has printed its copy of the table: exit(1).
ChildExits == /\ running > 0
              /\ running' = running - 1
              /\ zombies' = zombies + 1
              /\ UNCHANGED <<dirVars, pc, ran, file_backups, bck_name, gateVars, leaked,
                             interrupted>>

\* A request of a client fails, and its manager keeps the table's write lock; a
\* later one of the same manager succeeds and unlocks (KvsServer).
Leak    == /\ ~leaked /\ leaked' = TRUE
           /\ UNCHANGED <<dirVars, pc, ran, file_backups, bck_name, gateVars, running, zombies,
                          interrupted>>
Release == /\ leaked /\ leaked' = FALSE
           /\ UNCHANGED <<dirVars, pc, ran, file_backups, bck_name, gateVars, running, zombies,
                          interrupted>>

-----------------------------------------------------------------------------
Step(t) == \/ Take(t) \/ Skip(t) \/ Leave(t) \/ Open(t) \/ OpenFails(t) \/ Finish(t)
           \/ Command(t) \/ Count(t) \/ WaitChild(t) \/ Name(t)

\* dispatch_threads joins the job threads when all have ended.
Terminated == (\A t \in Jobs : pc[t] = "done") /\ UNCHANGED vars

Next == \/ \E t \in Jobs : \/ Lock(t) \/ LockBackups(t) \/ Fork(t) \/ Step(t)
                            \/ WaitInterrupted(t)
        \/ ChildExits \/ Leak \/ Release
        \/ Terminated

Spec == Init /\ [][Next]_vars

(* Threads and children run, and a lock is granted to a thread that can have *)
(* it again and again.  Job files are finite (MaxBackups).  Nothing makes an *)
(* open() or a fork() fail, as it competes with one that succeeds, and       *)
(* nobody has to send a signal or a request.                                 *)
Fairness == /\ \A t \in Jobs : /\ SF_vars(Lock(t)) /\ SF_vars(LockBackups(t))
                               /\ SF_vars(Fork(t)) /\ WF_vars(Step(t))
            /\ WF_vars(ChildExits)

FairSpec == Spec /\ Fairness

-----------------------------------------------------------------------------
(* Correctness.                                                            *)

\* readdir is called only by the owner of directory_mutex, and active_backups
\* is tested and changed only by the owner of n_current_backups_lock.
LocksExclusive ==
  \A t \in Jobs : /\ pc[t] = "readdir" <=> directory_mutex = t
                  /\ pc[t] = "gate" <=> n_current_backups_lock = t

\* No job file is taken by two threads or twice.  Of those that were read none
\* was passed over, unless the name of another job's backup was formed in its
\* place of the buffer (kvs_backup), which cannot happen in the first filling:
\* a directory whose entries fit into one loses no job.
EachJobOnce ==
  /\ \A f \in Files : started[f] # 0 =>
       started[f] = 1 /\ f \in JobFiles /\ \E i \in 1 .. pos : dir[i] = f
  /\ \A i \in 1 .. pos : dir[i] \in JobFiles /\ started[dir[i]] = 0 =>
       i \in cut /\ Block(i) > 0

\* Two threads never run the same file, and so never write the same .out file.
OwnFile ==
  \A t, u \in Jobs : t # u /\ {pc[t], pc[u]} \subseteq Holding => path[t] # path[u]

\* The strengthening for both: a directory names each file once, and a thread
\* with a file has an entry of its own that readdir has returned.
EntryOfItsOwn ==
  /\ \A i, j \in 1 .. Entries : dir[i] = dir[j] => i = j
  /\ \A t \in Jobs : pc[t] \in Holding =>
       /\ entry[t] \in 1 .. pos /\ path[t] = dir[entry[t]]
       /\ path[t] \in JobFiles /\ started[path[t]] = 1
  /\ \A t, u \in Jobs : t # u /\ {pc[t], pc[u]} \subseteq Holding => entry[t] # entry[u]

\* BACKUP is asked for only while the job has backups left (bound of the model).
BackupsLeft == \A t \in Jobs : pc[t] \in {"backup", "gate", "name"} =>
                 file_backups[t] < MaxBackups

\* An entry is cut off for another job only when the buffer has been refilled.
CutAfterRefill == \A i \in cut : Block(i) > 0

DispatchInv == TypeOK /\ LocksExclusive /\ EachJobOnce /\ EntryOfItsOwn /\ BackupsLeft
                      /\ CutAfterRefill

\* The job files that were taken from the directory and not run to their end.
TakenAndNotRun == {f \in JobFiles \ ran : started[f] = 1}

\* When the server joins the job threads every job file has been taken, unless
\* it was cut off in the buffer or each thread ended at a file that it could not
\* open.
NoJobForgotten ==
  (\A t \in Jobs : pc[t] = "done") =>
    \/ \A f \in JobFiles : started[f] = 1 \/ \E i \in cut : dir[i] = f
    \/ Cardinality(TakenAndNotRun) = Cardinality(Jobs)

\* The strengthening behind it: as long as the directory has entries left, a
\* thread that has ended did so at a file of its own that it could not open, and
\* the files taken and not run are those of the threads that hold one or ended.
RanWereRead   == \A f \in ran : \E i \in 1 .. pos : dir[i] = f
HeldNotRun    == \A t \in Jobs : pc[t] \in Holding => path[t] \notin ran
HasFile(t)    == pc[t] \in Holding \cup {"done"}
EndedAtFile   == \A t \in Jobs : pc[t] = "done" =>
                   entry[t] \in 1 .. pos /\ path[t] = dir[entry[t]] /\ path[t] \in TakenAndNotRun
EntriesApart  == \A t, u \in Jobs : t # u /\ HasFile(t) /\ HasFile(u) => entry[t] # entry[u]
EachWithThread == \A f \in TakenAndNotRun : \E t \in Jobs : HasFile(t) /\ path[t] = f
Accounted == /\ RanWereRead /\ HeldNotRun
             /\ pos < Entries => EndedAtFile /\ EntriesApart /\ EachWithThread

\* A backup is named after the job file that asked for it, unless other threads
\* have read on until readdir filled the stream's buffer again: the name is used
\* after directory_mutex was released (get_file).
BackupNamedUnlessRefilled ==
  \A t \in Jobs : pc[t] \in Running =>
    \/ bck_name[t] \in {NoFile, path[t]}
    \/ Block(pos) > Block(entry[t])

Forking == {t \in Jobs : pc[t] \in {"name", "fork"}}

\* What the gate does bound.  The fork happens after the gate, so that a thread
\* which finds no child to wait for passes although others are between the
\* gate and their fork; children and threads about to fork are therefore at
\* most max_backups or the number of job threads, whichever is larger, and one
\* more for each wait that a signal has ended.
ChildrenBounded ==
  \/ running + zombies + Cardinality(Forking) <= max_backups + interrupted
  \/ running + zombies + Cardinality(Forking) <= Cardinality(Jobs) + interrupted

\* The strengthening that makes it inductive: while the counter is below the
\* limit every child and every thread about to fork is counted in it.
Counted == active_backups < max_backups =>
             running + zombies + Cardinality(Forking) <= active_backups

BackupsInv == DispatchInv /\ ChildrenBounded /\ Counted

\* A failed request has left the table's lock taken, and no later one of its
\* manager gives it back.
StaysLeaked == <>[]leaked

\* A thread that asks for a backup gets past the gate and the fork, unless the
\* table's lock stays leaked: waiting for a child with the mutex taken does not
\* block the jobs for ever.
BackupEndsUnlessLeaked == StaysLeaked \/ \A t \in Jobs : pc[t] = "backup" ~> pc[t] = "run"

\* The job threads end, so that the server gets to joining them, unless the
\* table's lock stays leaked.
ThreadsEndUnlessLeaked == StaysLeaked \/ <>(\A t \in Jobs : pc[t] = "done")
=============================================================================
