--------------------------- MODULE BackupTracker ---------------------------
(***************************************************************************)
(* backup_tracker of SO/projeto_1: how many backups each job file has had, *)
(* kept in an array that the job threads share without a lock.  A thread   *)
(* that backs up calls get_backup_count; its statements are the steps      *)
(* here, because every one of them reads backup_tracker_size again.  The   *)
(* search over the names is one step: as long as the threads' entries show *)
(* their own files, a name that another thread copies meanwhile is the     *)
(* name of another file.  f is the name as a statement finds it: NoFile is *)
(* a name that is empty, as those of free slots are.                       *)
(***************************************************************************)
EXTENDS Integers

CONSTANTS
  Jobs,              \* the threads of main.c
  JobFiles,          \* the .job files of the directory
  MAX_JOB_FILES,     \* slots of the array
  NoFile, NoThread

ASSUME TrackerAssumption ==
  MAX_JOB_FILES \in Nat \ {0} /\ NoFile \notin JobFiles /\ NoThread \notin Jobs

VARIABLES
  backup_tracker, backup_tracker_size,
  where,             \* where[t]: t's statement in get_backup_count, or "out"
  size_read,         \* the size as a thread that increments it has read it
  backup_count,      \* backup_count[t]: what the call returned
  raced              \* history: two threads were filling a slot at the same time

trackerVars == <<backup_tracker, backup_tracker_size, where, size_read, backup_count, raced>>

Slots == 0 .. MAX_JOB_FILES - 1

TrackerTypes ==
  /\ backup_tracker \in [Slots -> [job_file_name: JobFiles \cup {NoFile}, backup_count: Nat]]
  /\ backup_tracker_size \in Nat
  /\ where \in [Jobs -> {"out", "search", "name", "count", "grow", "store", "fetch", "done"}]
  /\ size_read \in [Jobs -> Nat]
  /\ backup_count \in [Jobs -> Nat \cup {-1}]
  /\ raced \in BOOLEAN

TrackerInit ==
  /\ backup_tracker = [i \in Slots |-> [job_file_name |-> NoFile, backup_count |-> 0]]
  /\ backup_tracker_size = 0
  /\ where = [t \in Jobs |-> "out"]
  /\ size_read = [t \in Jobs |-> 0]
  /\ backup_count = [t \in Jobs |-> 0]
  /\ raced = FALSE

Filling == {t \in Jobs : where[t] \in {"name", "count", "grow", "store", "fetch"}}

At(t, from, to) == where[t] = from /\ where' = [where EXCEPT ![t] = to]

Enter(t) == /\ At(t, "out", "search")
            /\ UNCHANGED <<backup_tracker, backup_tracker_size, size_read, backup_count, raced>>

Slot(f) == CHOOSE i \in Slots : /\ backup_tracker[i].job_file_name = f
                                /\ \A j \in 0 .. i - 1 : backup_tracker[j].job_file_name # f

Return(t, n) == backup_count' = [backup_count EXCEPT ![t] = n]

\* (Faulty variant for mutation: the count of a file that is found stays.)
SearchNoCount(t, f) ==
  \/ /\ \E i \in Slots : backup_tracker[i].job_file_name = f
     /\ At(t, "search", "done")
     /\ Return(t, backup_tracker[Slot(f)].backup_count)
     /\ UNCHANGED <<backup_tracker, raced>>
  \/ /\ \A i \in Slots : backup_tracker[i].job_file_name # f
     /\ At(t, "search", "name")
     /\ raced' = (raced \/ Filling # {})
     /\ UNCHANGED <<backup_tracker, backup_count>>

\* The loop over the slots: the file's slot, a free slot, or a full array.
Search(t, f) ==
  \/ /\ \E i \in Slots : backup_tracker[i].job_file_name = f
     /\ At(t, "search", "done")
     /\ backup_tracker' = [backup_tracker EXCEPT ![Slot(f)].backup_count = @ + 1]
     /\ Return(t, backup_tracker[Slot(f)].backup_count + 1)
     /\ UNCHANGED raced
  \/ /\ \A i \in Slots : backup_tracker[i].job_file_name # f
     /\ IF backup_tracker_size < MAX_JOB_FILES
        THEN /\ At(t, "search", "name")
             /\ raced' = (raced \/ Filling # {})
             /\ UNCHANGED backup_count
        ELSE /\ At(t, "search", "done")
             /\ Return(t, -1)
             /\ UNCHANGED raced
     /\ UNCHANGED backup_tracker

\* A write behind the end of the array leaves the slots alone.
Name(t, f) ==
  /\ At(t, "name", "count")
  /\ backup_tracker' = [i \in Slots |->
       IF i = backup_tracker_size THEN [backup_tracker[i] EXCEPT !.job_file_name = f]
                                  ELSE backup_tracker[i]]
  /\ UNCHANGED <<raced, backup_count>>

CountOne(t) ==
  /\ At(t, "count", "grow")
  /\ backup_tracker' = [i \in Slots |->
       IF i = backup_tracker_size THEN [backup_tracker[i] EXCEPT !.backup_count = 1]
                                  ELSE backup_tracker[i]]
  /\ UNCHANGED <<raced, backup_count>>

\* backup_tracker_size++: a load and a store.
GrowLoad(t) ==
  /\ At(t, "grow", "store")
  /\ size_read' = [size_read EXCEPT ![t] = backup_tracker_size]
  /\ UNCHANGED <<backup_tracker, backup_tracker_size, backup_count, raced>>

GrowStore(t) ==
  /\ At(t, "store", "fetch")
  /\ backup_tracker_size' = size_read[t] + 1
  /\ size_read' = [size_read EXCEPT ![t] = 0]
  /\ UNCHANGED <<backup_tracker, backup_count, raced>>

\* return backup_tracker[backup_tracker_size - 1].backup_count, from the array or
\* from the memory behind it, which is zero or what CountOne wrote there.
Fetch(t) ==
  /\ At(t, "fetch", "done")
  /\ IF backup_tracker_size - 1 \in Slots
     THEN Return(t, backup_tracker[backup_tracker_size - 1].backup_count)
     ELSE \E n \in {0, 1} : Return(t, n)
  /\ UNCHANGED <<backup_tracker, raced>>

get_backup_count(t, f) ==
  \/ (Search(t, f) \/ Name(t, f) \/ CountOne(t) \/ Fetch(t))
       /\ UNCHANGED <<backup_tracker_size, size_read>>
  \/ GrowLoad(t) \/ GrowStore(t)

\* No call is made.
Quit(t) == /\ At(t, "search", "out")
           /\ UNCHANGED <<backup_tracker, backup_tracker_size, size_read, backup_count, raced>>

Leave(t) == /\ At(t, "done", "out")
            /\ Return(t, 0)
            /\ UNCHANGED <<backup_tracker, backup_tracker_size, size_read, raced>>
=============================================================================
