----------------------------- MODULE KvsServer -----------------------------
(***************************************************************************)
(* The store of SO/projeto_2's server under its concurrent users: the job  *)
(* threads that run WRITE, READ, DELETE, SHOW and BACKUP (main.c run_job,  *)
(* operations.c) and the manager threads that subscribe, unsubscribe and   *)
(* disconnect clients (main.c manager_thread, operations.c), around one    *)
(* read-write lock.  Notifications are written to the clients' pipes by    *)
(* the thread that changes a key, while it holds the lock.                 *)
(*                                                                         *)
(* kvs_subs_or_unsubs and kvs_disconnect return without unlocking when     *)
(* they fail: the manager then keeps the write lock.  The lock of glibc    *)
(* refuses (EDEADLK, which the code does not look at) a thread that        *)
(* already holds it, so that manager can still execute later requests, and *)
(* the first one that succeeds releases the lock.                          *)
(***************************************************************************)
EXTENDS KvsTable

CONSTANTS
  Jobs, Managers,
  JobCommands,       \* records [cmd, args] that job files may hold
  NotifCapacity,     \* notifications a client's pipe holds
  MaxSubscribers,    \* bound of the model: list length at which clients stop subscribing
  NoThread, NoFd, NoCommand, NoNotif

Threads == Jobs \cup Managers

ASSUME KvsServerAssumption ==
  /\ Jobs \cap Managers = {}
  /\ NoThread \notin Threads
  /\ NoFd \notin Fds
  /\ NoCommand \notin JobCommands
  /\ NotifCapacity \in Nat \ {0}

\* What run_job hands to the kvs_ functions: parse_write fills pairs,
\* parse_read_delete keys; SHOW and BACKUP have no arguments.
Batches == [cmd: {"WRITE"}, args: Seq(Keys \X Values)]
             \cup [cmd: {"READ", "DELETE"}, args: Seq(Keys)]
             \cup [cmd: {"SHOW", "BACKUP"}, args: {<<>>}]

ASSUME CommandsAssumption == JobCommands \subseteq Batches

VARIABLES
  table,
  writer, readers,   \* owner and readers of kvs_table->tablelock
  pc,
  cmd,               \* the command or request a thread executes
  rest,              \* what is left of its batch
  outbox,            \* notifications its write_pair / delete_pair still has to write
  output,            \* pairs its command has printed
  f_notif,           \* f_notif[m]: the notification pipe of manager m's client
  fd,                \* fd[f]: is descriptor f closed, open, or without a reader
  unread,            \* unread[f]: notifications in the pipe
  reply,             \* reply[m]: result that m is about to send, or "none"
  base,              \* history: contents when the job that now writes took the lock
  last               \* history: last[f][k], the last notification on k in pipe f

lockVars    == <<writer, readers>>
threadVars  == <<pc, cmd, rest, outbox, output>>
sessionVars == <<f_notif, fd, unread, reply, last>>
vars == <<table, lockVars, threadVars, sessionVars, base>>

-----------------------------------------------------------------------------
Requests == [op: {"SUBSCRIBE", "UNSUBSCRIBE"}, key: Keys] \cup [op: {"DISCONNECT"}]

Notifications == [fd: Fds, key: Keys, value: Values \cup {Missing}]

TypeOK ==
  /\ table \in [Buckets -> Seq(Node)]
  /\ writer \in Threads \cup {NoThread}
  /\ readers \in SUBSET Jobs
  /\ pc \in [Threads -> {"idle", "wrlock", "rdlock", "body", "unlock", "reply", "close"}]
  /\ cmd \in [Threads -> JobCommands \cup Requests \cup {NoCommand}]
  /\ rest \in [Threads -> Seq((Keys \X Values) \cup Keys \cup {<<b>> : b \in Buckets})]
  /\ outbox \in [Threads -> Seq(Notifications)]
  /\ output \in [Threads -> SUBSET (Keys \X (Values \cup {Missing}))]
  /\ f_notif \in [Managers -> Fds \cup {NoFd}]
  /\ fd \in [Fds -> {"closed", "open", "broken"}]
  /\ unread \in [Fds -> 0 .. NotifCapacity]
  /\ reply \in [Managers -> {"none", "0", "1"}]
  /\ base \in [Keys -> Values \cup {Missing}]
  /\ last \in [Fds -> [Keys -> Values \cup {Missing, NoNotif}]]

NoContents == [k \in Keys |-> Missing]

Init ==
  /\ table = EmptyTable
  /\ writer = NoThread /\ readers = {}
  /\ pc = [t \in Threads |-> "idle"]
  /\ cmd = [t \in Threads |-> NoCommand]
  /\ rest = [t \in Threads |-> <<>>]
  /\ outbox = [t \in Threads |-> <<>>]
  /\ output = [t \in Threads |-> {}]
  /\ f_notif = [m \in Managers |-> NoFd]
  /\ fd = [f \in Fds |-> "closed"]
  /\ unread = [f \in Fds |-> 0]
  /\ reply = [m \in Managers |-> "none"]
  /\ base = NoContents
  /\ last = [f \in Fds |-> [k \in Keys |-> NoNotif]]

Goto(t, label) == pc' = [pc EXCEPT ![t] = label]

-----------------------------------------------------------------------------
(* The lock.                                                               *)

\* pthread_rwlock_wrlock.  A manager that leaked the lock goes on.
WrLock(t) == /\ pc[t] = "wrlock"
             /\ \/ writer = NoThread /\ readers = {}
                \/ writer = t
             /\ writer' = t
             /\ base' = IF t \in Jobs THEN Contents(table) ELSE base
             /\ Goto(t, "body")
             /\ UNCHANGED <<table, readers, cmd, rest, outbox, output, sessionVars>>

\* (Faulty variant for mutation: readers do not wait for the writer.)
RdLockAlways(t) == /\ pc[t] = "rdlock"
                   /\ readers' = readers \cup {t}
                   /\ Goto(t, "body")
                   /\ UNCHANGED <<table, writer, cmd, rest, outbox, output, sessionVars, base>>

\* pthread_rwlock_rdlock: the default lock lets readers pass waiting writers.
RdLock(t) == /\ pc[t] = "rdlock"
             /\ writer = NoThread
             /\ readers' = readers \cup {t}
             /\ Goto(t, "body")
             /\ UNCHANGED <<table, writer, cmd, rest, outbox, output, sessionVars, base>>

\* pthread_rwlock_unlock at the end of a job's command.
Unlock(t) == /\ pc[t] = "unlock"
             /\ IF writer = t THEN writer' = NoThread /\ UNCHANGED readers
                              ELSE readers' = readers \ {t} /\ UNCHANGED writer
             /\ Goto(t, "idle")
             /\ cmd' = [cmd EXCEPT ![t] = NoCommand]
             /\ base' = IF writer = t THEN NoContents ELSE base
             /\ UNCHANGED <<table, rest, outbox, output, sessionVars>>

-----------------------------------------------------------------------------
(* Job threads.                                                            *)

\* (Faulty variant: SHOW does not take the lock.)
JobCommandShowUnlocked(t, c) ==
  /\ pc[t] = "idle"
  /\ Goto(t, CASE c.cmd = "SHOW" -> "body"
               [] c.cmd \in {"WRITE", "DELETE"} -> "wrlock"
               [] OTHER -> "rdlock")
  /\ cmd' = [cmd EXCEPT ![t] = c]
  /\ rest' = [rest EXCEPT ![t] = IF c.cmd = "SHOW"
                                 THEN [i \in 1 .. TABLE_SIZE |-> <<i - 1>>] ELSE c.args]
  /\ output' = [output EXCEPT ![t] = {}]
  /\ UNCHANGED <<table, lockVars, outbox, sessionVars, base>>

\* run_job reads the next command and calls its kvs_ function.  SHOW goes
\* over the buckets, the others over the keys or pairs of the command.
JobCommand(t, c) ==
  /\ pc[t] = "idle"
  /\ Goto(t, IF c.cmd \in {"WRITE", "DELETE"} THEN "wrlock" ELSE "rdlock")
  /\ cmd' = [cmd EXCEPT ![t] = c]
  /\ rest' = [rest EXCEPT ![t] = IF c.cmd = "SHOW"
                                 THEN [i \in 1 .. TABLE_SIZE |-> <<i - 1>>] ELSE c.args]
  /\ output' = [output EXCEPT ![t] = {}]
  /\ UNCHANGED <<table, lockVars, outbox, sessionVars, base>>

\* Thread t, inside the lock, goes to the next element of its batch once it
\* has written the notifications of the previous one.
InBatch(t, c) == pc[t] = "body" /\ cmd[t].cmd = c /\ outbox[t] = <<>> /\ rest[t] # <<>>

\* (Faulty variant: the value from before the change is sent.)
NotifyOldValue(t, k, v) ==
  outbox' = [outbox EXCEPT ![t] =
    [i \in DOMAIN notified(table, k) |->
       [fd |-> notified(table, k)[i], key |-> k, value |-> read_pair(table, k)]]]

NotifyAll(t, k, v) ==
  outbox' = [outbox EXCEPT ![t] =
    [i \in DOMAIN notified(table, k) |->
       [fd |-> notified(table, k)[i], key |-> k, value |-> v]]]

WritePair(t) ==
  /\ t \in Jobs /\ InBatch(t, "WRITE")
  /\ LET k == Head(rest[t])[1]  v == Head(rest[t])[2] IN
       /\ table' = write_pair(table, k, v)
       /\ NotifyAll(t, k, v)
  /\ rest' = [rest EXCEPT ![t] = Tail(@)]
  /\ UNCHANGED <<lockVars, pc, cmd, output, sessionVars, base>>

DeletePair(t) ==
  /\ t \in Jobs /\ InBatch(t, "DELETE")
  /\ LET k == Head(rest[t]) IN
       /\ table' = delete_pair(table, k)
       /\ NotifyAll(t, k, Missing)
       /\ output' = [output EXCEPT ![t] =
            IF Found(table, k) THEN @ ELSE @ \cup {<<k, Missing>>}]
  /\ rest' = [rest EXCEPT ![t] = Tail(@)]
  /\ UNCHANGED <<lockVars, pc, cmd, sessionVars, base>>

ReadKey(t) ==
  /\ t \in Jobs /\ InBatch(t, "READ")
  /\ LET k == Head(rest[t]) IN
       output' = [output EXCEPT ![t] = @ \cup {<<k, read_pair(table, k)>>}]
  /\ rest' = [rest EXCEPT ![t] = Tail(@)]
  /\ UNCHANGED <<table, lockVars, pc, cmd, outbox, sessionVars, base>>

ShowBucket(t) ==
  /\ t \in Jobs /\ InBatch(t, "SHOW")
  /\ output' = [output EXCEPT ![t] = @ \cup PairsIn(table[Head(rest[t])[1]])]
  /\ rest' = [rest EXCEPT ![t] = Tail(@)]
  /\ UNCHANGED <<table, lockVars, pc, cmd, outbox, sessionVars, base>>

\* The loop over the batch ends.
BatchDone(t) ==
  /\ t \in Jobs /\ pc[t] = "body" /\ cmd[t].cmd # "BACKUP"
  /\ outbox[t] = <<>> /\ rest[t] = <<>>
  /\ Goto(t, "unlock")
  /\ UNCHANGED <<table, lockVars, cmd, rest, outbox, output, sessionVars, base>>

\* fork: the child prints the copy of the table that it got.
ForkBackup(t) ==
  /\ t \in Jobs /\ pc[t] = "body" /\ cmd[t].cmd = "BACKUP"
  /\ output' = [output EXCEPT ![t] = Pairs(table)]
  /\ Goto(t, "unlock")
  /\ UNCHANGED <<table, lockVars, cmd, rest, outbox, sessionVars, base>>

\* (Faulty variant: a client that is gone blocks the writer.)
NotifyLiveOnly(t) ==
  /\ outbox[t] # <<>>
  /\ LET n == Head(outbox[t]) IN
       /\ fd[n.fd] = "open" /\ unread[n.fd] < NotifCapacity
       /\ unread' = [unread EXCEPT ![n.fd] = @ + 1]
       /\ last' = [last EXCEPT ![n.fd][n.key] = n.value]
  /\ outbox' = [outbox EXCEPT ![t] = Tail(@)]
  /\ UNCHANGED <<table, lockVars, pc, cmd, rest, output, f_notif, fd, reply, base>>

\* One turn of notify_all_pipes: write_all blocks while the pipe is full and
\* fails at once on a closed descriptor or a pipe without a reader.
Notify(t) ==
  /\ outbox[t] # <<>>
  /\ LET n == Head(outbox[t]) IN
       IF fd[n.fd] = "open"
       THEN /\ unread[n.fd] < NotifCapacity
            /\ unread' = [unread EXCEPT ![n.fd] = @ + 1]
            /\ last' = [last EXCEPT ![n.fd][n.key] = n.value]
       ELSE UNCHANGED <<unread, last>>
  /\ outbox' = [outbox EXCEPT ![t] = Tail(@)]
  /\ UNCHANGED <<table, lockVars, pc, cmd, rest, output, f_notif, fd, reply, base>>

-----------------------------------------------------------------------------
(* Manager threads and their clients.                                      *)

\* A manager opens the pipes of a client that connects: open() may return
\* any descriptor that is free.
Connect(m, f) ==
  /\ pc[m] = "idle" /\ f_notif[m] = NoFd
  /\ fd[f] = "closed"
  /\ f_notif' = [f_notif EXCEPT ![m] = f]
  /\ fd' = [fd EXCEPT ![f] = "open"]
  /\ UNCHANGED <<table, lockVars, threadVars, unread, reply, last, base>>

\* get_next2 and the read of the key.
Request(m, r) ==
  /\ pc[m] = "idle" /\ f_notif[m] # NoFd
  /\ fd[f_notif[m]] = "open"
  /\ r.op = "SUBSCRIBE" /\ Found(table, r.key) =>
       Len(NodeOf(table, r.key).notif_pipes) < MaxSubscribers
  /\ cmd' = [cmd EXCEPT ![m] = r]
  /\ Goto(m, "wrlock")
  /\ UNCHANGED <<table, lockVars, rest, outbox, output, sessionVars, base>>

\* The client's process ends without DISCONNECT.
ClientDies(m) ==
  /\ f_notif[m] # NoFd /\ fd[f_notif[m]] = "open"
  /\ fd' = [fd EXCEPT ![f_notif[m]] = "broken"]
  /\ UNCHANGED <<table, lockVars, threadVars, f_notif, unread, reply, last, base>>

\* get_next2 takes the end of the request pipe for a DISCONNECT.
EndOfRequests(m) ==
  /\ pc[m] = "idle" /\ f_notif[m] # NoFd
  /\ fd[f_notif[m]] = "broken"
  /\ cmd' = [cmd EXCEPT ![m] = [op |-> "DISCONNECT"]]
  /\ Goto(m, "wrlock")
  /\ UNCHANGED <<table, lockVars, rest, outbox, output, sessionVars, base>>

\* The end of a request: a success unlocks, a failure returns with the lock.
Answer(m, result, next) ==
  /\ table' = result.table
  /\ writer' = IF result.rc = 0 THEN NoThread ELSE writer
  /\ reply' = [reply EXCEPT ![m] = IF result.rc = 0 THEN "1" ELSE "0"]
  /\ cmd' = [cmd EXCEPT ![m] = NoCommand]
  /\ Goto(m, next)
  /\ UNCHANGED <<readers, rest, outbox, output, f_notif, fd, unread, base>>

InRequest(m, op) == m \in Managers /\ pc[m] = "body" /\ cmd[m].op = op

Subscribe(m) ==
  /\ InRequest(m, "SUBSCRIBE")
  /\ Answer(m, execute_subscribe(table, cmd[m].key, f_notif[m]), "reply")
  /\ last' = [last EXCEPT ![f_notif[m]][cmd[m].key] = NoNotif]

Unsubscribe(m) ==
  /\ InRequest(m, "UNSUBSCRIBE")
  /\ Answer(m, execute_unsubscribe(table, cmd[m].key, f_notif[m]), "reply")
  /\ UNCHANGED last

Disconnect(m) ==
  /\ InRequest(m, "DISCONNECT")
  /\ Answer(m, execute_disconnect(table, f_notif[m]), "close")
  /\ UNCHANGED last

\* The answer goes to the response pipe.
Reply(m) ==
  /\ pc[m] = "reply"
  /\ reply' = [reply EXCEPT ![m] = "none"]
  /\ Goto(m, "idle")
  /\ UNCHANGED <<table, lockVars, cmd, rest, outbox, output, f_notif, fd, unread, last, base>>

\* The answer to DISCONNECT, whatever it is, and close(f_notif).
Close(m) ==
  /\ pc[m] = "close"
  /\ fd' = [fd EXCEPT ![f_notif[m]] = "closed"]
  /\ f_notif' = [f_notif EXCEPT ![m] = NoFd]
  /\ reply' = [reply EXCEPT ![m] = "none"]
  /\ unread' = [unread EXCEPT ![f_notif[m]] = 0]
  /\ last' = [last EXCEPT ![f_notif[m]] = [k \in Keys |-> NoNotif]]
  /\ Goto(m, "idle")
  /\ UNCHANGED <<table, lockVars, cmd, rest, outbox, output, base>>

\* The client's read_Thread takes a notification.
ClientReads(f) ==
  /\ fd[f] = "open" /\ unread[f] > 0
  /\ unread' = [unread EXCEPT ![f] = @ - 1]
  /\ UNCHANGED <<table, lockVars, threadVars, f_notif, fd, reply, last, base>>

-----------------------------------------------------------------------------
Batch(t) == \/ WritePair(t) \/ DeletePair(t) \/ ReadKey(t) \/ ShowBucket(t)
            \/ BatchDone(t) \/ ForkBackup(t) \/ Notify(t) \/ Unlock(t)

Serve(m) == \/ Subscribe(m) \/ Unsubscribe(m) \/ Disconnect(m) \/ Reply(m) \/ Close(m)
            \/ EndOfRequests(m)

Next == \/ \E t \in Jobs : Batch(t) \/ RdLock(t)
        \/ \E t \in Threads : WrLock(t)
        \/ \E t \in Jobs, c \in JobCommands : JobCommand(t, c)
        \/ \E m \in Managers : Serve(m) \/ ClientDies(m)
        \/ \E m \in Managers, f \in Fds : Connect(m, f)
        \/ \E m \in Managers, r \in Requests : Request(m, r)
        \/ \E f \in Fds : ClientReads(f)

Spec == Init /\ [][Next]_vars

(* Fairness: threads run; a thread that waits for the lock gets it if it is *)
(* free for it again and again; a live client keeps reading notifications.  *)
(* Nobody has to issue a command, connect, ask or die.                      *)
Fairness == /\ \A t \in Jobs : WF_vars(Batch(t)) /\ SF_vars(RdLock(t))
            /\ \A t \in Threads : SF_vars(WrLock(t))
            /\ \A m \in Managers : WF_vars(Serve(m))
            /\ \A f \in Fds : WF_vars(ClientReads(f))

FairSpec == Spec /\ Fairness

-----------------------------------------------------------------------------
(* Correctness.                                                            *)

\* The lock has one writer or some readers; a job changes the table, or
\* prints from it, only inside the lock, whatever managers leaked.
LockProtectsTable ==
  /\ writer # NoThread => readers = {}
  /\ \A t \in Threads : pc[t] \in {"body", "unlock"} => writer = t \/ t \in readers
  /\ \A t \in Jobs :
       pc[t] \in {"body", "unlock"} /\ cmd[t].cmd \in {"WRITE", "DELETE"} => writer = t

\* Batches of all threads keep the table a set of lists without duplicates.
TableWellFormed == WellFormed(table)

\* What a live subscriber of a key was last told about it is the key's value,
\* unless the thread that changed it is still notifying.  (A key may have no
\* notification since the subscription.)
ToldCurrentValue ==
  \A f \in Fds : fd[f] = "open" =>
    \A k \in Subscriptions(table, f) :
      \/ last[f][k] \in {NoNotif, read_pair(table, k)}
      \/ \E t \in Jobs : \E i \in DOMAIN outbox[t] :
           outbox[t][i].fd = f /\ outbox[t][i].key = k

\* Every WRITE, READ, DELETE, SHOW and BACKUP is atomic: the store changes
\* when the writer unlocks.
Store == INSTANCE AtomicStore WITH
  StoreCommands <- JobCommands,
  store   <- IF writer \in Jobs THEN base ELSE Contents(table),
  pending <- [t \in Jobs |-> cmd[t]],
  answer  <- [t \in Jobs |-> IF pc[t] = "idle" THEN output[t] ELSE {}]

CommandsAtomic == Store!StoreSpec

\* A manager that is not executing a request owns the write lock.
Leaked == \E m \in Managers : writer = m /\ pc[m] # "body"

\* A command of a job ends, unless a failed request leaves the lock taken.
\* Nothing else can stop it: no full pipe of a client and no stream of readers.
CommandEndsUnlessLeaked ==
  \A t \in Jobs : pc[t] # "idle" ~> pc[t] = "idle" \/ Leaked

\* A command of a job ends.
CommandEnds == \A t \in Jobs : pc[t] # "idle" ~> pc[t] = "idle"

\* A client whose DISCONNECT succeeded is in no key's list.
DisconnectForgets ==
  \A m \in Managers : pc[m] = "close" /\ reply[m] = "1" =>
    Subscriptions(table, f_notif[m]) = {}
=============================================================================
