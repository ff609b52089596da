# Verification of IST-KVS and its companions

TLA+ models of the key-value store in `SO/` (the course project on operating
systems), of the spreadsheet in `PO/` and of two algorithms in `ASA/`, their
model-checking configurations for TLC and proofs for TLAPS.
The repository is a collection of course projects; the store is its concurrent
program: threads, locks, condition variables, FIFOs shared by processes, signals and
forks. The others are sequential programs, diagrams or data. Of these the spreadsheet
keeps state in which a long sequence of commands can go wrong, and the readers of
scripts and the algorithms of `ASA` are functions that can be compared with a definition.

Paths below are relative to the repository; `main.c`, `operations.c`, `kvs.c`
without a directory are those of `SO/projeto_2/src/server`.

## 1. The system

`SO/projeto_2` is a server process and any number of client processes.

| Part | State | Operations | Talks to |
|---|---|---|---|
| job threads (`main.c` get_file, run_job) | one directory stream and its mutex, `active_backups` and its mutex | take the next `.job` file, run its commands, BACKUP | table, child processes |
| table (`kvs.c`, `operations.c`) | 26 bucket lists, per key a list of subscribed descriptors, one read-write lock | write, read, delete, show, backup, subscribe, unsubscribe, disconnect | clients' notification FIFOs, written under the lock |
| host thread (`main.c` main_Thread) and SIGUSR1 handler | registration FIFO, ring `buf` with `prodptr`, `consptr`, `count`, mutex and two condition variables | read a registration, put it into the ring | clients, managers |
| manager threads (`main.c` manager_thread) | the session's three descriptors, the answer being formed | take a registration, open the client's FIFOs, answer requests until DISCONNECT | ring, table, one client each |
| client (`client/api.c`, `client/main.c`) | its three FIFOs, named after an id that the user gives | connect, subscribe, unsubscribe, disconnect; a thread prints notifications | registration FIFO, one manager |

`SO/projeto_1` is the first part of the project: the store without clients, with
one read-write lock per bucket in the place of one lock for the table, and a
different handling of the limit on backups.

`PO/entrega_final/xxl` is a spreadsheet: cells hold literals, references and functions; a
function observes the cells it is computed from and keeps its value; a range can be copied
or cut into a buffer and pasted; a document is written to a file and read again. `ASA/proj1` cuts a
sheet of paper for the best price, `ASA/proj2` finds a longest path between the strongly
connected components of a graph.

What is hard in it, and so what the properties are about:

* wake-ups and the mutual exclusion around the ring, with several consumers, a
  reset of the indices at start-up and signals that interrupt any thread;
* blocking `open()` of FIFOs from both sides, in the presence of clients that die
  and of names that are used again;
* one descriptor table for all manager threads, and descriptors closed twice;
* error paths that return with the table's lock taken;
* notifications written under the lock to FIFOs that can be full or broken;
* batches of several keys that have to be atomic, with one lock and with many;
* `fork` in a process with threads, and the limit on children;
* a directory stream shared by threads, whose buffer one thread overwrites while others have pointers into it;
* scripts that are read without a way back, so that one bad line can take the next with it;
* values that are kept and must be recomputed when what they depend on changes;
* saving that can fail half-way, and the flag that says whether it is needed.

## 2. Modules

| Module | Models | Uses |
|---|---|---|
| `SessionRegistry` | abstract: a FIFO queue of registrations, each taken once | |
| `SessionQueue` | the ring and its threads: main_Thread, apanha_usr1, the first half of manager_thread, the write of kvs_connect | `SessionRegistry` (refinement) |
| `SessionQueueProofs` | proofs about `SessionQueue`, the refinement among them | |
| `KvsTable` | the functions of `kvs.c` as operators on the table | |
| `AtomicStore` | abstract: a store whose commands happen in one step | |
| `KvsServer` | `operations.c` run by job threads and managers around the lock | `KvsTable`, `AtomicStore` (refinement) |
| `KvsServerProofs` | lemmas about the operators of `KvsTable`, proofs of the invariants of `KvsServer` and that it implements `AtomicStore` | |
| `Sessions` | kvs_connect, kvs_disconnect and requests against manager_thread, over FIFOs and descriptors | |
| `SessionsProofs` | proofs about `Sessions` | |
| `JobThreads` | get_file, the BACKUP case of run_job, kvs_backup's fork, the join in dispatch_threads | |
| `JobThreadsProofs` | proofs about `JobThreads` | |
| `BackupTracker` | `SO/projeto_1`: get_backup_count and its array, statement by statement | |
| `BucketStore` | `SO/projeto_1`: operations.c and the loops of main.c | `BackupTracker`, `AtomicStore` (refinement) |
| `BucketStoreProofs` | proofs of the invariants of `BucketStore` and `BackupTracker` | |
| `BucketAtomicity` | proof that `BucketStore` implements `AtomicStore` | `BucketStoreProofs` |
| `Parser` | the server's parser.c as operators on a text | |
| `JobReader` | run_job as a reader of a job file | `Parser` |
| `PartOneReader` | the same loop of `SO/projeto_1` | `JobReader` |
| `ClientReader` | the client's parser.c and the loop of its main | `JobReader` |
| `LongestPath` | `ASA/proj2/longest_path.cpp` as operators | |
| `PaperCutting` | `ASA/proj1/proj1.cpp`, one comparison per step | |
| `PaperCuttingProofs` | proofs about `PaperCutting` | |
| `Spreadsheet` | the sheet of `PO`: cells, observers, ranges, cut buffer | |
| `Calculator` | the document around it: New, Open, Save and their files | `Spreadsheet` |
| `SpreadsheetProofs` | proofs about `Spreadsheet` and `Calculator` | |
| `MCKvsLoads`, `MCOffline` | the two loads of `KvsServer`; the programs that work alone on an input, with what their inputs are meant to give | |
| `MC...` | definitions of constants for TLC: commands, hash functions | the module they are named after |

Operators named "faulty variant" in the modules are not part of any specification:
each is a plausible slip in the definition after it, and putting it in the
definition's place makes a property fail. `PROJECT.json` says which.

### SessionQueue

One action per atomic piece of the code: everything between two points at which
another thread or a signal can interfere. The host goes through `HostRead`,
`HostLock`, `HostWait` or `HostCopy` (main.c:114-115), `HostAdvance` (117-118),
`HostSignal` (119-120), after `HostInstall`, `HostStart` and `HostReset`
(100-106); a manager through `ManagerLock` to `ManagerSignal` (146-153),
`ManagerOpen` (the rest of the session) and `ManagerFinish`. `pthread_cond_wait` is
a step that joins the condition's set and frees the mutex; a signal moves one
member, chosen freely, to the competition for the mutex; waits may also end
without a signal. SIGUSR1 can arrive at any thread: before the handler is
installed it ends the process, later it suspends the thread until its message is in
the FIFO, whoever owns the mutex. A message is the client's name or the
handler's message; the paths in the handler's message are whatever was on its stack, so that
the manager that takes it may fail to open them and end the server
(`ManagerOpenFails`).

### KvsTable and KvsServer

`KvsTable` is the data structure: `table[i]` is the list of bucket i in the order
of the C list, a node has its key, value and the list of subscribed descriptors.
`execute_disconnect` is modelled as it is: it walks the buckets up to the first
empty one, looks at the first node of each and fails at the first without the
descriptor. Keys for which `hash` is -1 are outside the model.

In `KvsServer` a thread takes the lock, goes over its batch one element at a time,
writes the notifications of each element one at a time (`Notify` blocks while
the client's FIFO is full and fails at once when it has no reader), and
unlocks. A request that fails keeps `writer` as it is. With glibc a second
`pthread_rwlock_wrlock` of the owner returns EDEADLK, which the code ignores, so a
manager that leaked the lock passes `WrLock` again and its next successful request
frees it. Readers pass waiting writers, as the default attribute has it.
Descriptors are reused: `Connect` may get any closed one.

### Sessions

Clients and managers of `projeto_2` around the FIFOs. `fifo[i]` is the process
whose FIFOs the paths of name i lead to; `kvs_connect` replaces it
and both ends of a session remove it, by name. An `open()` of the server takes the
lowest free number of `table` at once and is installed when the other
end is there; `close` acts on the number, whoever owns it now. Two clients may
have the same name. A client may die at any step. The server ignores
SIGPIPE, so a manager's write to a FIFO without a reader fails and nobody looks; a client's ends the client.
An `open` that fails in a manager ends the whole server (exit).

SIGUSR1 has two effects here. Its handler sends a message whose paths are whatever was on the stack (`HandlerSends`, the message
`Nobody`), and the manager that takes it fails to open them. And the handler ends the call that it interrupts, as `signal()` under
`-std=c17` installs it without `SA_RESTART`: an `open()` fails with EINTR and ends the server (`SignalInOpen`), a `read()` of an opcode counts as
a DISCONNECT and one of a key leaves the client without an answer (`SignalInRead`).

Of the table there is its lock only: a request may fail and keep it (`StoreRequest`, `leaked`), and then the requests of other
managers hang. Whether it fails is open here and decided in `KvsServer`.

### JobThreads

`readdir` gives entries from a buffer of `BlockSize` entries that the next system call
refills (`Block`, `Loaded`); the entry that a thread keeps is a place in that buffer, and
`Named` is what stands there when the name is used. Forming the name writes into the buffer: `strtok` (operations.c:145) ends
it at the '.', and if the buffer was refilled the entry that is cut off (`cut`) may be one that no thread has read; `Skip` then
passes over it, as `entry_files` does (`IsJob`). `WaitAny` is `wait(NULL)`: it
reaps a zombie, fails if there is no child, and blocks otherwise, with
`n_current_backups_lock` taken; SIGUSR1 may end a wait that blocks (`WaitInterrupted`).
`Fork` needs the table's read lock (operations.c:147). Failed requests of clients may leave the write lock taken at any time
(`Leak`), and a later request of the same manager may give it back (`Release`).

### BucketStore and BackupTracker

`Lock` takes one bucket lock; the buckets are those of `boolean_locks`, in
ascending order, all of them for SHOW, which goes bucket by bucket. `qsorted` is the batch as the code
runs it: keys sorted, values where they were; it is defined by the place that each key has in the order (`Place`). `kvs_backup` reads its counter inside the mutex (`Gate`) but acts on
it outside; `simultaneous_backups++` after the fork has no lock at all and is
therefore a load and a store that other updates can fall between, as is the decrement,
which has the mutex but not against the increment. A child has the locks as they were at the fork: it
prints if none was taken by a writer and waits for ever otherwise.

The number in a backup's file name is the result of get_backup_count, which searches and fills an
array that the threads share without a lock. The program is built without optimisation, so that each
statement reads `backup_tracker_size` again: `BackupTracker` has one action per statement, and two for
`backup_tracker_size++`. `raced` remembers that two threads were filling a slot at the same time.

The name itself is `entry->d_name`, which every use reads again in the buffer of the directory stream that the threads share without a
mutex. `d_name[t]` is what stands there for thread t at the moment. `NextFile` is `readdir`: when the buffer has nothing left it is
filled again (`Refill`) and every entry that another thread still has may become one of the new entries or something that names no job file
(`NoFile`). `gen_path` takes the path of the job from it, later, `NotAJob` and `Track` test and count it, and the child of `Fork` forms
its file's name from it once more. `refilled` remembers that an entry in use was changed.

### Parser and the readers

A job file is a string and the descriptor a place in it; every operator returns the place behind what it
has read, and an error where `cleanup` leaves it. That makes visible what the code does to the *next* lines: a name that
is cut short, a pair that is refused or a number that is too large is found out behind the newline, and the
cleanup then swallows a line. `JobReader` and `ClientReader` carry out one command per step and record it in
`done`. A client at a terminal gets one line from a `read`; from a file or a pipe it gets all that fits, which
`parse_key` then throws away. `PartOneReader` differs in a read that fails (`readable` is FALSE): get_next of `SO/projeto_1`
takes only 0 for the end, so the loop goes on for ever.

### LongestPath and PaperCutting

`LongestPath` has operators on the program's data in its order: stack, visited and component numbers of the two searches.
`outside` says that the program has read behind the vector `dag`, which has the size of the components but is indexed by vertices; it happens only with cycles.

`PaperCutting` takes a step for each piece that `main` reads (`ReadPiece`) and for each comparison of the two inner loops of
`paperCutting` (`LengthStrip`, `WidthStrip`); the two outer loops are `NextCell`, in the step of a cell's last comparison. `max` is a
variable of its own, as in the code, which carries it from cell to cell. `Best` is the reference: the price of a sheet, or the best
of two parts that one cut leaves. The price of a sheet (`Price`) is the best that the input offers for it, with every piece given or
turned, whatever `main` keeps of it; `PlainPieces` says when `main` loses nothing.

### Spreadsheet and Calculator

`sheet` has the content and the list of observers of each cell and, for every function object, its arguments and the value
it keeps. Every insertion, deletion, cut and paste is one command of a sequential program and one action, composed of the
operators for the methods it calls, in their order: a function registers in its constructor, `setContent` unsubscribes the
function that it replaces, the observers compute before the change and after it. An entry inserted in a range is one
object in several cells; an entry parsed for a range that does not exist is registered and in no cell (`InsertNowhere`). Objects that nothing
holds any more are dropped (`Collect`), as Java's garbage collection does; nothing observes that.
A user sees the value that a function keeps before its name and arguments, so that there are two views of a content: what was written
(`Written`) and what is shown (`Shown`).
`Calculator` adds the file name, the flag of changes and the files. A save may fail before or after it has
emptied the file; `DoNew` keeps the file name. The question whether to save first is `Save` as a step before.

## 3. What is checked

All runs finish over their whole state space. State counts are of distinct states.

| Run | Instance | Shows |
|---|---|---|
| `queue` | 3 clients, 1 SIGUSR1, 2 managers, ring of 2, FIFO of 2; 186 000 states | invariants of the ring, no lost wake-up on either side, refinement of `SessionRegistry` (`TakenOnceInOrder`), every client attended unless the handler blocks on a full FIFO |
| `kvs` | two loads: 2 job threads, 3 keys in 2 buckets, batches with repeated and absent keys; and 2 jobs, 1 manager, 1 descriptor, a FIFO of one notification; 86 000 | lists without duplicates, lock discipline, refinement of `AtomicStore` (`CommandsAtomic`), BACKUP included; a live subscriber was last told the key's value (`ToldCurrentValue`); a command ends unless a failed request leaked the lock |
| `jobs` | 2 threads, 3 job files and another file in every order (one order of the job files' names, which mean nothing), max_backups 1, 1 signal, requests that fail; 115 000 | each file once, and none passed over unless a backup's name was formed in its place of a refilled buffer; its own output, the limit on children that the code does keep, backups named after their job unless the buffer was refilled, BACKUP and the threads end unless the table's lock stays leaked |
| `sessions` | 3 clients, 3 names, 2 managers, 1 death, 1 request, 1 SIGUSR1, in three loads; 516 000 | connecting ends unless no manager is ever free again, descriptors are not lost in spite of the double close, only a reused name or a signal can stop the server |
| `buckets` | 2 threads, 3 job files, 3 keys in 2 buckets, 3 BACKUPs, max_backup 1, 2 slots in the tracker; 489 000 | bucket locks give atomic commands, threads never wait for each other's locks in a circle, commands end, written backups are whole and have numbers of their own unless two threads filled a slot at once or a refill changed the entry that a thread has |
| `offline` | scripts of 2 lines and a last one for three readers; graphs of 3 and 4 vertices; rods up to length 5, along and across, and a square, with 2 pieces of 18; 75 000 | a line does what it is meant to do, unless it is a full command or an unfinished last line, and takes no more of the others along than it is known to; readers end; components and longest paths as defined; when the table is full a rod has the best price unless `main` lost a piece or a price |
| `sheet` | 2 by 2 cells, a number, a reference and two functions that observe one cell in common, 2 files, 4 commands; 172 000 | functions of literals are current, the buffer is independent, cut and paste in place restores what was written and what settled cells show, a sheet without changes is saved |
| `kvs_leak`, `kvs_forget`, `sessions_cut`, `buckets_pairs`, `client_script` | small | counterexamples, section 5 |

Why these bounds are enough: the ring has two slots and three clients, so that it is full
with a message in the host's hands and wraps around; two consumers are the least with which a
signal can go to one and the message to the other. Two threads suffice for the
interference of batches and for an entry that one thread has while the other refills the buffer, because a batch only meets other threads through the lock,
and the batches hold collisions, repetitions and absent keys. Three
files with buffers of two entries make the stream refill its buffer while a thread still has an entry of it, and with two entries in the
second filling there is one to cut off. Two
sessions are what a double close or a reused name needs; a third client finds both managers taken, and waits. Two buckets with three keys whose order is
not the order of the buckets are enough for a cycle if locks were taken in the order of the keys. Three job
files meet a tracker of two slots, so that it fills up. A line that takes the next with it needs two lines,
and the last one has or has not a newline. Graphs of three vertices have every
structure of components; four are needed for paths that share a piece. A rod of five has room for a piece of three and one of two, in
the order in which the first is compared before the second and the other way round. Four commands are an insertion of a value and of a
function of it, and two changes after them; 2 by 2 cells have ranges in both directions and a paste that the edge cuts off.

`MaxSubscribers`, `MaxBackups`, `MaxDeaths`, `MaxRequests`, `MaxSignals`, `NotifCapacity`, `ScriptLines`, `MaxObjects` and
`MaxCommands` bound the model; `MAX_STRING_SIZE`, `MAX_WRITE_SIZE`, `UINT_MAX` and `WORD` are the program's limits made small, except
in `client_script`, which has the real ones. `PipeCapacity` in `SessionQueue` is that of the FIFO, and smaller than the messages of
the instance: the handler of SIGUSR1 can then run on the host, the only reader, and block there in `write`, which
`EveryClientAttended` names as its one exception (`HandlerStuck`). The real FIFO holds 64 KiB.
`sessions` has three loads under one specification (`MCSessions`), which keep the dangers apart that each need room: two clients with
one name or two, one of which dies or asks (`Pair`); a signal at any point of a session, and a client after it (`Interrupted`); two clients
that start together while a third has one manager, connected or dead (`Competing`).
In `buckets` the directory stream fills its buffer with any part of the directory, so that the size of the buffer is not a bound.
`sheet` has two loads under one specification: a document without files, with functions; and few contents, with files.
`CHECK_DEADLOCK FALSE` stands where the system may stop: the server has ended, or all
clients are done, a program has answered, or the bound on commands is reached.
The types of `BucketStore` and of `PaperCutting` (`TypeOK`) are in no run: they are proved, and TLC stops by itself at a cell outside
of a table.

### Fairness

Threads that can run are scheduled (weak fairness). A thread that waits for a mutex or
a read-write lock gets it if it is free again and again (strong fairness): pthreads promise
no order, but no implementation passes over a waiter for ever while the lock is released.
In `JobThreads` no fairness makes a request fail or succeed, so that a leaked lock may stay; in `Sessions` none makes a connected client
ask or leave.
Clients that are alive read their notifications (`read_Thread` loops), and in `SessionQueue` an attended
client disconnects some time. No fairness makes anybody connect, ask, die, issue another command or send
a signal. In `offline` a program goes on as long as it can: it is one thread that waits for nobody.
In `KvsServer` and `BucketStore` the liveness runs have two jobs: with
three, two readers that overlap for ever would keep a writer out, which the
default lock of glibc allows; job files are finite, so such a stream ends.

## 4. What is proved

All proofs hold for every value of the constants under the named assumptions of the
modules. These say what the program sets up: disjoint sets of threads, the finite number that main creates, a
ring and a table of at least one slot, a hash function that stays in the table, commands as the parsers hand them out
(`CommandsAssumption`), a process whose limit leaves three descriptors for every manager (`DescriptorsSuffice`), a sheet
of at least one cell on which users enter literals, references and functions of these (`SheetAssumption`), a value for "no
name" that is not a file's (`CalculatorAssumption`), and sheets to be cut with extents and prices that are not negative (`SheetsAssumption`).
The bounds of the runs (`MaxBackups`, `MaxDeaths`, `MaxSubscribers` and so on) are constants of any size in the theorems.

The proof that an invariant is inductive has one step per action of the module, or per group of actions that a lemma
deals with at once.

### SessionQueue

`SessionQueueProofs`:

* `RingInvariant` — `RingInv` is inductive. It is `TypeOK`, `LockDiscipline`, `RingConsistent`,
  `HostNotForgotten` and `TestStillHolds`. The last is what makes the others inductive:
  before the host's reset the ring is untouched (otherwise resetting `prodptr` and not `consptr` would break
  `RingConsistent`), and a thread between its test of `count` and its update of it can still rely on the test
  (otherwise `count` leaves its range). `TypeCorrect`, `MutexProtectsRing`, `RingNeverCorrupt` and `HostAlwaysWoken` follow.
* `ManagersAlwaysWoken` — `ManagersNotForgotten` counts: with managers asleep, the messages in the ring are no more than
  the managers on their way to it (`Coming`) and the host's signal that is still to come. The lemma
  `NobodyStops` deals at once with the steps that neither add a message nor send a manager to sleep.
* `SessionQueueImplementsRegistry` — `Spec => TakenOnceInOrder`. The refinement reads the queue off the ring, the
  host's hands and the FIFO. `FlowInv` says that slots in use and hands hold messages (`InTransit`) and that
  a message is handled by one thread at most (`HandlersApart`). Then a step of the ring moves a message along
  (a stutter of the abstract queue), a write puts one behind, and the copy of a manager takes the first.

### The server's store

The first part of `KvsServerProofs` has what the operators of `kvs.c` do to a table, once and for all: each keeps buckets without
duplicates, in their place and with lists of subscribers without duplicates; `write_pair` and `delete_pair` change what is read for
one key and no other. The rest of the module cites these lemmas and never opens the lists again.

* `TypeCorrect`, `TableStaysWellFormed`, `LockAlwaysProtects` — from `ControlInv`. It reads the owner of the lock off the
  threads (`LockHeldRight`): for a job an equivalence, for a manager in its request an implication only, because a failed
  request leaks the lock and the manager keeps it outside. `BatchLeft` gives the elements of a batch their types.
* `SubscribersTold` — `ToldCurrentValue` with `OutboxCurrent` (a notification that is still to be written has
  the current value, which holds because its thread has the lock) and `ClosedUntold` (nothing is remembered of a
  number's earlier client).
* `CommandsAreAtomic` — `Spec => CommandsAtomic`. `Progress` says for each command what the elements it has
  taken so far have done to the table, compared with the table at the time it got the lock. The step in which a job unlocks
  is the step of the abstract store, every other one is a stutter. The abstract WRITE and DELETE are defined by the whole batch,
  last write wins, so that no induction over the batch is needed: each element extends the statement by one.

### Job threads

`JobThreadsProofs`:

* `DispatchInvariant` — the invariant of the directory loop: locks are exclusive, a file read
  is taken by one thread or already finished, and an entry is cut off for another job only behind the first filling of the buffer
  (`CutAfterRefill`). `TypeCorrect`, `JobsTakenOnce` and `NoSharedOutput` follow. `JobsTakenOnce` therefore has one exception, an
  entry in a later filling whose place another job's backup name was formed in; a directory of at most `BlockSize` entries loses no job.
* `BackupsBounded` needs `Counted`: while the
  counter is below the limit every child and every thread about to fork is counted in it. The bound
  it gives is the larger of `max_backups` and the number of threads, which is the limit that the code really keeps, and one more for
  each wait that SIGUSR1 has ended.
* `NoJobLeftBehind` — `Accounted` says that a file that was read and not run is with a thread, and that before the last
  entry a thread ends only at a file it cannot open; that the directory yields every file comes from counting (`DirectoryComplete`).
  A file that was not taken is then one that was cut off.
* `BackupsNamedByJob` — the stream only goes forward (`BlocksInOrder`), so that a thread's entry stays where it is until the
  position is in a later block. The property is inductive together with `DispatchInv`.

### Sessions

`SessionsProofs`:

* `SessionsTypes`, `DescriptorsClosed` — from `DescriptorInv`. `Owned` says that a number in use is remembered by the manager that
  opened it, who is between the open and the close of that kind. A double close can free the number of another
  manager but never leave one behind. That an `open` finds a free number is not assumed: by `Owned` the numbers in use are at most three
  for each manager and fewer for the one that opens, and `DescriptorsSuffice` does the rest.
* `ServerStopsByReuseOrSignal` — `OnlyReuseOrSignalStopsServer`: while each name was used once and nobody has sent SIGUSR1, an open in a
  manager does not fail. Without a signal every message is a client's (`FromClients`, `ClientsMessages`), and
  `AloneInv` follows the only client of a name: its message is in one place, its paths stay until it leaves or its
  manager unlinks them, and when one side is past an `open` so is the other.

### The store of the first part

`BucketStoreProofs`, any buckets and any hash function:

* `LocksInvariant` — `LockInv` is inductive. A thread holds locks only for the batch at hand, each in the mode of
  its command, and in the middle of the batch exactly the locks of its buckets (`HeldInMode`). Without the
  first part a command could start with locks of the one before; without the last an unlock
  between two steps of the batch could not be excluded. `LocksCoverBatch` follows.
* `BatchInvariant` — what of a batch is done and what is left; contents differ from what commands left
  only in buckets that a writer has locked.
* `LocksNeverCircular` — `NoCircularWait`. By `LocksInOrder` the locks that a thread in `lock_keys` has are below those that it lacks,
  the least of which is its next. Of any threads that wait, the one whose next lock is the greatest waits for none of the others: who
  has this lock would have a greater next one. With `CommandEndsUnlessStuck` it divides the question why a command ends in the part that is
  safety, proved for any number of threads and buckets, and the part that rests on fairness.
* `BackupInvariant` — says what a thread in `kvs_backup` can rely on (`AtBackup`), bounds the counter although updates of it
  are lost (`CounterInv`: it is never above the number of children that were forked and counted), bounds what the tracker
  gives out (`GivenInv`), and says that a child has a whole table if its copy of the locks lets it print (`ChildrenWhole`: no lock was
  a writer's, so no content differed). `TypesHold` and `BackupsAreWhole` follow.
* `BackupsAreNumbered` — `NumberInv`: while no readdir has overwritten an entry that a thread has, a thread with a job file has an
  entry that names one (`NamesHeld`), and no other thread's entry names the same (`FilesApart`). If moreover no two
  threads were in the filling part of `get_backup_count` at once, its array is in order (`TrackerInOrder`): each file has at most one slot, the slot has the number of that file's children and one
  more between the call and the fork, and a file with children and without a slot means a full array. The thread that fills a slot
  needs its own clause for each of the statements (`FillsSlot`), because the name, the count and the size are stored one after another and
  searches of other threads fall between.

`BucketAtomicity`: `BucketsAreAtomic` — `Spec => CommandsAtomic`, along the lines of `CommandsAreAtomic`, but about the buckets
that a command has locked instead of the whole table. That `qsort` orders a READ's or DELETE's keys without losing one is proved by
counting places (`PlaceOrders`, `PlacesTaken`); a WRITE is compared with the pairs as the code runs them (see `buckets_pairs` for those it should have run).

### The spreadsheet

`SpreadsheetProofs`, sheets of any size, any entries, any number of documents and commands.

A command goes over the cells of a range, a constructor over its arguments, a notification over a list of observers: all of them
folds. The library's induction takes an operator as a parameter, so each kind of step has its own path lemma (`UpdateFold`,
`RegisterFold`, `LeaveFold`, `FillFold`, `TakeFold`, `PutFold`, `CombineFold`): the recursive function that defines the fold exists and
has one value, by counting to the least place where it would not (`FoldExists`, `FoldPath`), and so the fold goes through sheets
p[0], p[1] ... p[n], each a step after the one before and all in any set S that the step does not leave. With S chosen
for the purpose — the sheets that are well formed, those that show what the first one showed, those whose functions are up
to date — one lemma about one step is enough for a command.

* `TypeCorrect` — `Documents`: the sheet and each file that was written are made of cells, lists of observers and objects that
  exist, no object that a cell, a list or the buffer holds is ever dropped, and the buffer has independent copies. It is
  inductive because `Construct` takes a number that nothing holds (`Fresh`, over a finite set of numbers) and because `Collect` keeps
  what is held (`Keeps`, `Follows`).
* `BufferIndependence` — `BufferIndependent`, a part of `Documents`: it has to hold of the files as well, as a document
  that is opened brings its buffer with it.
* `NothingUnsavedGoes` — `UnchangedIsSaved` with `Saved`: a document whose flag of changes is down has the contents of its file or
  is empty, and the file is the one whose name it has. Copying constructs functions and so changes objects and
  lists with the flag down; that it leaves what is written in every cell is `WrittenAsBefore`.
* `LiteralsAreCurrent` — `LiteralsCurrent` from `AllCurrent`. For the sheet and those in the files: an object in the
  lists of all the cells it is computed from is up to date if these are literals (`RegisteredCurrent`, for objects in the buffer or
  only in lists too), and an object that one command put in one cell is registered and held by that cell only (`OwnersRegistered`). The
  first alone is not enough: a cell that is overwritten unsubscribes its object, and if that object were in a
  second cell this one would go out of date without notice, as it does for the objects that the property leaves out.
  In the middle of a command one cell is between its old object and its new one; `CurrentBut` says which.
* `CutAndPasteRestores` — `CutPasteRestores` in every reachable sheet. First what is written (`CutAndPaste`): the copies are those of what was
  cut, the clearing leaves them alone since no cell holds them, and since the cells of a range are distinct each is written by one place of
  the buffer. Then what is shown: the sheet after the cut and that after the paste are current again by the lemmas for
  `LiteralsAreCurrent`, and so a function of literals that no other cell shares shows what it computes (`OwnerComputes`) from the same literals
  (`OwnRestored`), and a reference what its cell shows (`SettledRestored`).

TLC had checked `Documents`, `Saved` and `AllCurrent` as invariants of the instance of `sheet` before they were proved.

### The cutting of sheets

`PaperCuttingProofs`, sheets of any size and any pieces.

* `InsideTheTable` — `TypeOK`: every comparison reads and writes inside the table and the prices, also for a sheet with an extent of 0.
* `RodsCutBest` — `RodsBest`. `PricesRead`: the prices are those of the last of the pieces read so far that fit; if the pieces are plain these are
  the best that the input offers for each size (`OfferedPrices`).
  `RodInv`: a cell of the rod that is done has at least what each strip with the rest brings, and has either what
  one of them brings or what the cell before it has (`CutBest`); the cell that is being filled has the same of the strips tried so
  far, and before the first of them `max` is the cell before (`CutUpTo`). That is where `max` carried over is right: on a rod the cell
  before is a part of this one. One of the two loops tries every strip and the other only the whole rod (`Tried`), so the two loops
  need no invariant each.
  From a full table `PartsBringLess` follows, that two parts of a rod do not bring more than the rod, and from this that the entry is the
  greatest of what one cut leaves (`RodIsBest`): the strip sold whole is no loss, since the entry of its length is worth
  as much. Both go from the shorter to the longer by `UpFromZero`, as does the proof that the recursion of `Best` has a solution
  (`BestExists`), without which nothing could be said of it.

TLC had checked `RodInv` on the sheets of `offline`. For wider sheets the same claim is false in both directions (section 5).

### Only model-checked

* Liveness (`EveryClientAttended`, `CommandEndsUnlessLeaked`, `BackupEndsUnlessLeaked`, `ThreadsEndUnlessLeaked`, `ConnectEnds`, `CommandEndsUnlessStuck`,
  `ReadersEnd`): it rests on fairness and ENABLED, which the proof system does not treat.
* `offline`: `LinesDone`, `ComponentsRight` and `LongestWithoutCycles` compare what a program computes from a text or a
  graph with a definition. Program and definition are recursive operators over data, and a module with such operators
  is one that cannot be proved about.

Every other safety property that a passing run checks is a theorem.

## 5. Where the code and its documentation disagree

Each has a run whose counterexample shows it.

* `kvs_leak`: operations.c:196, 201 and 220 return with the table's write lock taken; a job's command
  then never returns (in the counterexample a READ; operations.h:16 is about WRITE, which hangs just the same).
* `kvs_forget`: kvs.c:314; a DISCONNECT answered with success leaves subscriptions.
* `sessions_cut`: main.c:188; a descriptor closed twice cuts another client's session.
* `buckets_pairs`: `SO/projeto_1/operations.c:150`; sorting keys without their values stores wrong pairs.
  The counterexample is the second WRITE of `SO/projeto_1/jobs/3.job`.
* `client_script`: `client/parser.c:235`; one read for a key takes the commands behind it along when the input is a file.
  The counterexample is `SO/projeto_2/src/tests/client_tests.txt`.

The models show others that no run of their own is spent on; a passing property names each as its exception:

* More than `max_backups` children at the same time: main.c:322 counts before the fork and `wait` reaps any child, so that
  `ChildrenBounded` needs the number of threads in its bound; and one more for every `wait` that SIGUSR1 interrupts, as
  nobody looks at its result.
* A backup named after another job: main.c:402 uses a name in the stream's buffer after the mutex is free
  (`BackupNamedUnlessRefilled`).
* A job file that is never run: `strtok` (operations.c:145) writes into that buffer, and after a refill it may take the `.job` off an entry
  that no thread has read (`EachJobOnce`, `NoJobForgotten`).
* Job threads that never end: a backup takes the table's read lock (operations.c:147), which the request of `kvs_leak` leaves taken for writing
  (`BackupEndsUnlessLeaked`, `ThreadsEndUnlessLeaked`).
* A server that ends at SIGUSR1: a manager's `open()` fails with EINTR (main.c:162), or
  with the paths of the handler's message (main.c:85-88), and `exit(1)` follows (`OnlyReuseOrSignalStopsServer`).
* A `kvs_connect` that never returns: a client that no manager takes, because each serves a client that does not leave, waits for
  one that died, or hangs for the leaked lock (`ConnectEnds`, `NoManagerLeft`).
* Two backups of `SO/projeto_1` with one file name, if two threads fill a slot of the tracker at once, or under the name of another job
  file, if a readdir (`SO/projeto_1/main.c:194`) overwrites the entry that the name is read from (`BackupsNumbered`).
* Lines of a script that are lost with the one before them (`takes` in `MCOffline`).
* A WRITE with exactly `MAX_WRITE_SIZE` pairs is refused (parser.c:238, and for keys parser.c:276), though parser.h:31 calls the number the "Maximum number
  of pairs it will write" and the arrays have room for it; a last line that has no newline is refused as well (`LinesDone`, `Refused`).
* `SO/projeto_1/parser.c:93`: the reader of a file that cannot be read never ends (`ReadersEnd`).
* Cells of one range share a function object, which stops being told of changes when one of them is replaced, and functions
  of functions are not told at all, although `PO/README.md` says that dependent results are updated (`LiteralsCurrent`).
  A function of a function that is cut and pasted where it was may therefore show #VALUE instead of its number: it is copied
  while its argument is empty and not told when that is back and computes (`CutPasteRestores`, `Settled`).
* `longest_path` indexes its graph of components with vertices, so that its answer for graphs with cycles is not the longest
  path (`LongestWithoutCycles`).
* `ASA/proj1` promises "the maximum price obtainable for the given sheet" (README.md:22) and keeps it for rods (`RodsBest`)
  but for two cases of reading (`PlainPieces`): a piece that fits only when it is turned is dropped (proj1.cpp:33), so that a sheet 1 x 3 with the piece
  3 x 1 for 5 brings 0, while line 38 lets pieces be turned; and of two pieces of one size the last wins, also when it is the cheaper one. A wider sheet
  can come out too low, because a strip that is cut off is sold whole (proj1.cpp:83): 2 x 2 with the piece 1 x 1 for 1 gives 2 instead
  of 4. It can come out too high, because the `max` of another cell goes into a cell whose comparisons all fail (line 87): 2 x 3
  with 1 x 3 for 5 and 2 x 2 for 7 gives 12, while the sheet has no room for both pieces and brings 10.

## 6. What is left out

* In the models of the store: the text of commands and messages (the readers have it), partial reads and writes of a
  message (they are below PIPE_BUF), failing `malloc` and `pthread_create`; a failing `fork` is in `JobThreads` only.
* `SessionQueue`: what a session does (`ManagerOpen` stands for it); it is in `Sessions`.
* `KvsServer`: answers are not sent over a FIFO that can be cut; that is in `Sessions`. The contents of what a
  stale descriptor receives.
* `Sessions`: a second SIGUSR1 while the handler of the first runs, which ends the server, as the handler is reset until it has installed itself again;
  the paths of the handler's message name no FIFO in the model, whatever they are. Of the lock of the table only the managers' part;
  job threads that hold it while a notification blocks are in `KvsServer`. The unlink of three paths, and their creation, is one step each; descriptors
  that job threads open are not in the table, though they can meet the double close as managers' do.
* `JobThreads`: the commands of a job other than BACKUP. The name of a backup is that of a job or of another: that it ends at the
  first '.' of a name with several, and that `bck_name[50]` (operations.c:143) cuts long ones, so that two backups of one job can have one name, is not
  in the model, nor is a pointer into the middle of a name of the refilled buffer. An entry is cut off before `entry_files` looks at it
  or not at all; if it happens while `entry_files` is reading, the path has no `.job` and the `open` fails (`OpenFails`). A run that ends with the process (`exit` in
  get_file) does not happen, since run_job returns 0.
* `BucketStore`: all uses of `entry->d_name` in `gen_path`, and all in `gen_path_backup` between two calls, are one step each, and names have one
  length: a name in the refilled buffer is one of the entries or no job file, not the middle of one or half overwritten. The paths of the input and the output file
  are therefore those of one file. The count of open descriptors, of which each job file leaks up to three. The locks are never initialised in the
  code; the memory is fresh and zero, an unlocked lock with glibc, and the model starts there.
* The readers: numbers of more than fifteen digits, a number cut by the end of the file and the byte `\0`, with which the code
  reads memory that it has not written or writes behind a buffer. In `offline`, an UNSUBSCRIBE whose key is refused: the client then sends the
  key of the command before, and nothing says what it is meant to send.
* `LongestPath`: `visited = {false}` makes the vector one element long; the storage behind it is still there, and the model has it.
* `PaperCutting`: prices that are negative and sums above INT_MAX.
* `Spreadsheet`: the other functions (ADD and PRODUCT stand for the two kinds), references that lead back to their cell and
  divisions by zero, which throw out of a command, the searches and the import of a text.

Not modelled, and why: the I/O helpers of `projeto_2` repeat a system call until it is done; in
the other directories `PE`, `Machine Learning`, `AMS`, `OC`, `IPM`, `IAED` hold data, notebooks, diagrams or
archives; `FP` and `LP` are pure programs on text and puzzles; `ASA/proj3` calls a linear solver. The game in assembly
(`IAC`) and the web application (`BD`) are in the plan.

## 7. Plan

Done, in this order, the most concurrent part first: `SessionQueue`, `KvsTable` with `KvsServer`,
`JobThreads`, `Sessions`, `BucketStore` with `BackupTracker`, the readers, `LongestPath` and `PaperCutting`, `Spreadsheet` with
`Calculator`. Next:

1. `GameProcesses` (`IAC/projeto`): the processes' cooperative schedule and the flags that
   interrupt routines set for them. Property: no tick lost unnoticed, no process acts in a paused game.
2. `Bookings` (`BD/projeto/.../web/app.py`): concurrent booking and cancelling against the schema's constraints.

The abstract specifications worth adding are a registry of subscriptions (who is told what) for `KvsServer`, and a dictionary of
formulas for `Spreadsheet`, from which to prove what `LiteralsCurrent` says for references as well.
