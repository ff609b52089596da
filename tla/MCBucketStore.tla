--------------------------- MODULE MCBucketStore ---------------------------
(* One instance of BucketStore under two loads, so that each keeps to a      *)
(* number of states that TLC can visit: commands of two job files with one   *)
(* BACKUP, or BACKUPs of three job files between WRITEs.                     *)
EXTENDS BucketStore, TLC

CONSTANTS t1, t2, A, B, C
OwnJobs == t1 :> {A, C} @@ t2 :> {B}

CONSTANTS k1, k2, k3   \* "9", "a" and "j", say: the order is not the buckets' order

MCRank == k1 :> 1 @@ k2 :> 2 @@ k3 :> 3
MCHash == k1 :> 1 @@ k2 :> 0 @@ k3 :> 1
MCCommands == {[cmd |-> "WRITE", args |-> <<<<k2, "v">>, <<k1, "w">>>>],
               [cmd |-> "DELETE", args |-> <<k3, k2>>],
               [cmd |-> "READ", args |-> <<k2, k1>>],
               [cmd |-> "SHOW", args |-> <<>>],
               [cmd |-> "BACKUP", args |-> <<>>]}

VARIABLE load

InLoad ==
  /\ refilled \/ \A t \in Jobs : d_name[t] \in {NoFile} \cup OwnJobs[t]
  /\ ~refilled /\ (\E t \in Jobs : d_name[t] = NoFile) => \A t \in Jobs : cmd[t] = NoCommand
  /\ LET begun == Len(children) + Cardinality(BackingUp) IN
     CASE load = "batches" ->
            /\ buffer = dir \/ dir = JobFiles
            /\ C \in dir /\ begun <= 1
            /\ (\E t \in Jobs : file[t] = NoFile) => \A t \in Jobs : cmd[t] = NoCommand
       [] load = "backups" ->
            /\ refilled => begun <= 2
            /\ \A t \in Jobs : cmd[t] = NoCommand \/ cmd[t].cmd = "BACKUP"

MCInit == Init /\ load \in {"batches", "backups"}
MCNext == Next /\ UNCHANGED load /\ InLoad'

\* Fairness asks for no step that a load leaves out: no job has to issue a
\* command.
MCSpec == MCInit /\ [][MCNext]_<<vars, load>> /\ Fairness
=============================================================================
