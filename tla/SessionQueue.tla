---------------------------- MODULE SessionQueue ----------------------------
(***************************************************************************)
(* SO/projeto_2/src/server/main.c: how a client's connection message gets  *)
(* from the registration pipe to a manager thread.                         *)
(*                                                                         *)
(*   f_server  --host: main_Thread-->  buf[MAX_BUFFER_SIZE]  --> managers  *)
(*                                                                         *)
(* The host thread and the manager threads share the ring (buf, prodptr,   *)
(* consptr, count) under mutexBuffer and wait on podeProd / podeCons.  One *)
(* action is one stretch of code between two points where another thread   *)
(* can act: taking the mutex, releasing it, a blocking system call; inside *)
(* the critical section the copy of a slot and the update of the indices   *)
(* are separate actions, so that their protection by the mutex is a result *)
(* and not an assumption.  SIGUSR1's handler runs on any thread, also on   *)
(* one that holds mutexBuffer, and suspends it while it writes.            *)
(***************************************************************************)
EXTENDS Naturals, Sequences, FiniteSets

CONSTANTS
  Clients,          \* connection messages of clients
  Signals,          \* SIGUSR1 deliveries: each writes a message without paths
  Managers,         \* the MAX_SESSION_COUNT manager threads
  Host,             \* the host thread
  MAX_BUFFER_SIZE,  \* slots of the ring
  PipeCapacity,     \* messages the registration pipe holds before a write blocks
  NoMsg, NoThread

Messages == Clients \cup Signals
Threads  == Managers \cup {Host}

ASSUME SizeAssumption ==
  /\ MAX_BUFFER_SIZE \in Nat \ {0}
  /\ PipeCapacity \in Nat \ {0}

ASSUME ManagersAssumption == IsFiniteSet(Managers)

ASSUME DistinctAssumption ==
  /\ Host \notin Managers
  /\ NoThread \notin Threads
  /\ NoMsg \notin Messages
  /\ Clients \cap Signals = {}

VARIABLES
  server,           \* "running" or "exited"
  written,          \* messages ever written to the registration pipe
  f_server,         \* contents of the registration pipe
  buf, prodptr, consptr, count,
  mutexBuffer,      \* its owner, or NoThread
  podeProd,         \* threads blocked in pthread_cond_wait(&podeProd)
  podeCons,         \* threads blocked in pthread_cond_wait(&podeCons)
  pc,
  sessionMessage,   \* the local variable of each thread
  handler           \* handler[t]: the signal whose handler thread t is running

ring    == <<buf, prodptr, consptr, count>>
sync    == <<mutexBuffer, podeProd, podeCons>>
pipe    == <<written, f_server>>
vars    == <<server, pipe, ring, sync, pc, sessionMessage, handler>>

-----------------------------------------------------------------------------
Slots == 0 .. MAX_BUFFER_SIZE - 1

HostPC == {"begin", "start", "reset", "read", "lock", "check", "relock", "waiting",
           "advance", "signal"}
ManagerPC == {"lock", "check", "relock", "waiting", "advance", "signal",
              "open", "attend"}

\* One type invariant: which values each variable takes.
TypeOK ==
  /\ server \in {"running", "exited"}
  /\ written \in SUBSET Messages
  /\ f_server \in Seq(Messages)
  /\ buf \in [Slots -> Messages \cup {NoMsg}]
  /\ prodptr \in Slots
  /\ consptr \in Slots
  /\ count \in 0 .. MAX_BUFFER_SIZE
  /\ mutexBuffer \in Threads \cup {NoThread}
  /\ podeProd \in SUBSET {Host}
  /\ podeCons \in SUBSET Managers
  /\ pc \in [Threads -> HostPC \cup ManagerPC]
  /\ pc[Host] \in HostPC
  /\ \A m \in Managers : pc[m] \in ManagerPC
  /\ sessionMessage \in [Threads -> Messages \cup {NoMsg}]
  /\ handler \in [Threads -> Signals \cup {NoMsg}]

Init ==
  /\ server = "running"
  /\ written = {}
  /\ f_server = <<>>
  /\ buf = [i \in Slots |-> NoMsg]
  /\ prodptr = 0 /\ consptr = 0 /\ count = 0
  /\ mutexBuffer = NoThread
  /\ podeProd = {} /\ podeCons = {}
  /\ pc = [t \in Threads |-> IF t = Host THEN "begin" ELSE "lock"]
  /\ sessionMessage = [t \in Threads |-> NoMsg]
  /\ handler = [t \in Threads |-> NoMsg]

-----------------------------------------------------------------------------
(* Threads, the mutex and the condition variables.                         *)

\* Thread t executes its own code: no signal handler runs on it.
Runs(t, label) == /\ server = "running"
                  /\ handler[t] = NoMsg
                  /\ pc[t] = label

Goto(t, label) == pc' = [pc EXCEPT ![t] = label]

\* pthread_mutex_lock(&mutexBuffer), also its re-acquisition inside
\* pthread_cond_wait after a wake-up.
Acquire(t, from, to) == /\ Runs(t, from)
                        /\ mutexBuffer = NoThread
                        /\ mutexBuffer' = t
                        /\ Goto(t, to)
                        /\ UNCHANGED <<server, pipe, ring, podeProd, podeCons,
                                       sessionMessage, handler>>

\* (Faulty variant for mutation: the index wraps one slot early.)
WrapEarly(p) == IF p + 2 = MAX_BUFFER_SIZE THEN 0 ELSE p + 1

\* The array index after p: prodptr++; if (prodptr == MAX) prodptr = 0.
Wrap(p) == IF p + 1 = MAX_BUFFER_SIZE THEN 0 ELSE p + 1

-----------------------------------------------------------------------------
(* The host thread: main_Thread.                                           *)

\* signal(SIGUSR1, apanha_usr1)
HostInstall == /\ Runs(Host, "begin")
               /\ Goto(Host, "start")
               /\ UNCHANGED <<server, pipe, ring, sync, sessionMessage, handler>>

HostStart == Acquire(Host, "start", "reset")

\* count = 0; prodptr = 0; unlock.  (consptr is left alone.)
HostReset == /\ Runs(Host, "reset")
             /\ count' = 0
             /\ prodptr' = 0
             /\ mutexBuffer' = NoThread
             /\ Goto(Host, "read")
             /\ UNCHANGED <<server, pipe, buf, consptr, podeProd, podeCons,
                            sessionMessage, handler>>

\* read_all(f_server, &sessionMessage): blocks while the pipe is empty.
HostRead == /\ Runs(Host, "read")
            /\ f_server # <<>>
            /\ sessionMessage' = [sessionMessage EXCEPT ![Host] = Head(f_server)]
            /\ f_server' = Tail(f_server)
            /\ Goto(Host, "lock")
            /\ UNCHANGED <<server, written, ring, sync, handler>>

HostLock == Acquire(Host, "lock", "check") \/ Acquire(Host, "relock", "check")

\* while (count == MAX_BUFFER_SIZE) pthread_cond_wait(&podeProd, &mutexBuffer)
HostWait == /\ Runs(Host, "check")
            /\ count = MAX_BUFFER_SIZE
            /\ mutexBuffer' = NoThread
            /\ podeProd' = podeProd \cup {Host}
            /\ Goto(Host, "waiting")
            /\ UNCHANGED <<server, pipe, ring, podeCons, sessionMessage, handler>>

\* (Faulty variant: the host does not wait for a free slot.)
HostCopyWhenFull == /\ Runs(Host, "check")
                    /\ buf' = [buf EXCEPT ![prodptr] = sessionMessage[Host]]
                    /\ Goto(Host, "advance")
                    /\ UNCHANGED <<server, pipe, prodptr, consptr, count, sync,
                                   sessionMessage, handler>>

\* memcpy(&buf[prodptr], &sessionMessage)
HostCopy == /\ Runs(Host, "check")
            /\ count # MAX_BUFFER_SIZE
            /\ buf' = [buf EXCEPT ![prodptr] = sessionMessage[Host]]
            /\ Goto(Host, "advance")
            /\ UNCHANGED <<server, pipe, prodptr, consptr, count, sync,
                           sessionMessage, handler>>

\* prodptr++ with wrap-around; count++
HostAdvance == /\ Runs(Host, "advance")
               /\ prodptr' = Wrap(prodptr)
               /\ count' = count + 1
               /\ Goto(Host, "signal")
               /\ UNCHANGED <<server, pipe, buf, consptr, sync,
                              sessionMessage, handler>>

\* (Faulty variant: the signal is forgotten.)
HostUnlockOnly == /\ Runs(Host, "signal")
                  /\ Goto(Host, "read")
                  /\ mutexBuffer' = NoThread
                  /\ UNCHANGED <<server, pipe, ring, podeProd, podeCons,
                                 sessionMessage, handler>>

\* pthread_cond_signal(&podeCons); pthread_mutex_unlock(&mutexBuffer)
HostSignal == /\ Runs(Host, "signal")
              /\ \/ /\ podeCons = {}
                    /\ podeCons' = {}
                    /\ Goto(Host, "read")
                 \/ \E m \in podeCons :
                      /\ podeCons' = podeCons \ {m}
                      /\ pc' = [pc EXCEPT ![Host] = "read", ![m] = "relock"]
              /\ mutexBuffer' = NoThread
              /\ UNCHANGED <<server, pipe, ring, podeProd, sessionMessage, handler>>

-----------------------------------------------------------------------------
(* A manager thread: manager_thread, up to and after attending a client.   *)

ManagerLock(m) == Acquire(m, "lock", "check") \/ Acquire(m, "relock", "check")

\* while (count == 0) pthread_cond_wait(&podeCons, &mutexBuffer)
ManagerWait(m) == /\ Runs(m, "check")
                  /\ count = 0
                  /\ mutexBuffer' = NoThread
                  /\ podeCons' = podeCons \cup {m}
                  /\ Goto(m, "waiting")
                  /\ UNCHANGED <<server, pipe, ring, podeProd, sessionMessage,
                                 handler>>

\* (Faulty variant for mutation: the slot is read after the index moved.)
ManagerCopyNext(m) == /\ Runs(m, "check")
                      /\ count # 0
                      /\ sessionMessage' =
                           [sessionMessage EXCEPT ![m] = buf[Wrap(consptr)]]
                      /\ Goto(m, "advance")
                      /\ UNCHANGED <<server, pipe, ring, sync, handler>>

\* memcpy(&sessionMessage, &buf[consptr])
ManagerCopy(m) == /\ Runs(m, "check")
                  /\ count # 0
                  /\ sessionMessage' = [sessionMessage EXCEPT ![m] = buf[consptr]]
                  /\ Goto(m, "advance")
                  /\ UNCHANGED <<server, pipe, ring, sync, handler>>

\* consptr++ with wrap-around; count--
ManagerAdvance(m) == /\ Runs(m, "advance")
                     /\ consptr' = Wrap(consptr)
                     /\ count' = count - 1
                     /\ Goto(m, "signal")
                     /\ UNCHANGED <<server, pipe, buf, prodptr, sync,
                                    sessionMessage, handler>>

\* (Faulty variants: no signal; no unlock.)
ManagerUnlockOnly(m) == /\ Runs(m, "signal")
                        /\ Goto(m, "open")
                        /\ mutexBuffer' = NoThread
                        /\ UNCHANGED <<server, pipe, ring, podeProd, podeCons,
                                       sessionMessage, handler>>
ManagerSignalOnly(m) == /\ Runs(m, "signal")
                        /\ podeProd' = {}
                        /\ pc' = [t \in Threads |->
                                    IF t = m THEN "open"
                                    ELSE IF t \in podeProd THEN "relock" ELSE pc[t]]
                        /\ UNCHANGED <<server, pipe, ring, mutexBuffer, podeCons,
                                       sessionMessage, handler>>

\* pthread_cond_signal(&podeProd); pthread_mutex_unlock(&mutexBuffer)
ManagerSignal(m) == /\ Runs(m, "signal")
                    /\ podeProd' = {}
                    /\ pc' = [t \in Threads |->
                                IF t = m THEN "open"
                                ELSE IF t \in podeProd THEN "relock" ELSE pc[t]]
                    /\ mutexBuffer' = NoThread
                    /\ UNCHANGED <<server, pipe, ring, podeCons, sessionMessage,
                                   handler>>

\* The three open() calls on the client's pipes succeed.  A message of the
\* signal handler has uninitialised paths: what they hold may also open.
ManagerOpen(m) == /\ Runs(m, "open")
                  /\ Goto(m, "attend")
                  /\ UNCHANGED <<server, pipe, ring, sync, sessionMessage, handler>>

\* One of them fails, as when the client removed its pipes: exit(1).
ManagerOpenFails(m) == /\ Runs(m, "open")
                       /\ server' = "exited"
                       /\ UNCHANGED <<pipe, ring, sync, pc, sessionMessage, handler>>

\* The attended client disconnects; the manager goes for the next session.
ManagerFinish(m) == /\ Runs(m, "attend")
                    /\ Goto(m, "lock")
                    /\ UNCHANGED <<server, pipe, ring, sync, sessionMessage, handler>>

-----------------------------------------------------------------------------
(* The environment.                                                        *)

Put(s) == /\ f_server' = Append(f_server, s)
          /\ written' = written \cup {s}

\* kvs_connect writes the connection message: one atomic write (it is
\* shorter than PIPE_BUF) that blocks while the pipe is full.
ClientConnect(c) == /\ server = "running"
                    /\ c \in Clients \ written
                    /\ Len(f_server) < PipeCapacity
                    /\ Put(c)
                    /\ UNCHANGED <<server, ring, sync, pc, sessionMessage, handler>>

\* SIGUSR1 is delivered to thread t once main_Thread has installed the
\* handler, which suspends t.  A blocked pthread_cond_wait or mutex lock
\* resumes after the handler, so the label of t does not change.
SignalDelivered(t, s) == /\ server = "running"
                         /\ pc[Host] # "begin"
                         /\ s \in Signals \ written
                         /\ \A u \in Threads : handler[u] # s
                         /\ handler[t] = NoMsg
                         /\ handler' = [handler EXCEPT ![t] = s]
                         /\ UNCHANGED <<server, pipe, ring, sync, pc, sessionMessage>>

\* Before that, SIGUSR1 has its default action: it terminates the server.
SignalKills == /\ server = "running"
               /\ pc[Host] = "begin"
               /\ Signals # {}
               /\ server' = "exited"
               /\ UNCHANGED <<pipe, ring, sync, pc, sessionMessage, handler>>

\* apanha_usr1's write and the return from the handler.
HandlerWrites(t) == /\ server = "running"
                    /\ handler[t] # NoMsg
                    /\ Len(f_server) < PipeCapacity
                    /\ Put(handler[t])
                    /\ handler' = [handler EXCEPT ![t] = NoMsg]
                    /\ UNCHANGED <<server, ring, sync, pc, sessionMessage>>

\* pthread_cond_wait may return without a signal.
SpuriousHost == /\ Runs(Host, "waiting")
                /\ podeProd' = podeProd \ {Host}
                /\ Goto(Host, "relock")
                /\ UNCHANGED <<server, pipe, ring, mutexBuffer, podeCons,
                               sessionMessage, handler>>

SpuriousManager(m) == /\ Runs(m, "waiting")
                      /\ podeCons' = podeCons \ {m}
                      /\ Goto(m, "relock")
                      /\ UNCHANGED <<server, pipe, ring, mutexBuffer, podeProd,
                                     sessionMessage, handler>>

-----------------------------------------------------------------------------
HostStep == \/ HostInstall \/ HostStart \/ HostReset \/ HostRead \/ HostLock \/ HostWait
            \/ HostCopy \/ HostAdvance \/ HostSignal

ManagerStep(m) == \/ ManagerLock(m) \/ ManagerWait(m) \/ ManagerCopy(m)
                  \/ ManagerAdvance(m) \/ ManagerSignal(m)
                  \/ ManagerOpen(m) \/ ManagerOpenFails(m) \/ ManagerFinish(m)

Environment == \/ \E c \in Clients : ClientConnect(c)
               \/ \E t \in Threads : HandlerWrites(t)
               \/ \E t \in Threads, s \in Signals : SignalDelivered(t, s)
               \/ SignalKills
               \/ SpuriousHost
               \/ \E m \in Managers : SpuriousManager(m)

Next == HostStep \/ (\E m \in Managers : ManagerStep(m)) \/ Environment

Spec == Init /\ [][Next]_vars

(* Fairness.  Every runnable thread is scheduled; a thread that finds the  *)
(* mutex free again and again gets it in the end (strong fairness); the    *)
(* client that a manager attends disconnects at some time.  Nothing makes  *)
(* a client connect, a signal arrive, an open() fail or a wait end without *)
(* a signal.                                                               *)
HostWorks == HostInstall \/ HostReset \/ HostRead \/ HostWait \/ HostCopy
             \/ HostAdvance \/ HostSignal

ManagerWorks(m) == \/ ManagerWait(m) \/ ManagerCopy(m) \/ ManagerAdvance(m)
                   \/ ManagerSignal(m) \/ ManagerOpen(m) \/ ManagerOpenFails(m)
                   \/ ManagerFinish(m)

Fairness == /\ WF_vars(HostWorks)
            /\ SF_vars(HostStart \/ HostLock)
            /\ \A m \in Managers : WF_vars(ManagerWorks(m)) /\ SF_vars(ManagerLock(m))
            /\ \A t \in Threads : WF_vars(HandlerWrites(t))

FairSpec == Spec /\ Fairness

-----------------------------------------------------------------------------
(* Correctness.                                                            *)

HostCS    == {"reset", "check", "advance", "signal"}
ManagerCS == {"check", "advance", "signal"}
InCS(t)   == IF t = Host THEN pc[t] \in HostCS ELSE pc[t] \in ManagerCS

\* Only the owner of mutexBuffer is inside a critical section, and the two
\* condition variables hold exactly the threads blocked on them: the wait
\* releases the mutex and joins the queue in one step.
LockDiscipline ==
  /\ \A t \in Threads : InCS(t) <=> mutexBuffer = t
  /\ Host \in podeProd <=> pc[Host] = "waiting"
  /\ \A m \in Managers : m \in podeCons <=> pc[m] = "waiting"

\* prodptr is count slots after consptr, around the ring.  main_Thread's reset
\* of count and prodptr but not of consptr keeps this only because no message
\* can be in the ring before it.
RingConsistent ==
  \/ consptr + count = prodptr
  \/ consptr + count = prodptr + MAX_BUFFER_SIZE

\* No lost wake-up on the producer's side: the host sleeps only while the ring
\* is full or a manager is about to signal it.
HostNotForgotten ==
  Host \in podeProd => \/ count = MAX_BUFFER_SIZE
                       \/ \E m \in Managers : pc[m] = "signal"

\* No lost wake-up on the consumers' side: while a manager sleeps, every
\* message in the ring has a manager on its way to it, but for the one the
\* host has just put and is about to signal.  A signal wakes one manager, and
\* another may take the message first.
Coming == {m \in Managers : pc[m] \in {"lock", "relock", "check", "advance"}}
ManagersNotForgotten ==
  podeCons # {} =>
    count <= Cardinality(Coming) + (IF pc[Host] = "signal" THEN 1 ELSE 0)

\* The strengthening that makes the four invariants above inductive: before the
\* host's reset the ring is untouched, and a thread between its test of count
\* and its update of count can rely on the test.
TestStillHolds ==
  /\ pc[Host] \in {"begin", "start", "reset"} =>
       prodptr = 0 /\ consptr = 0 /\ count = 0
  /\ pc[Host] = "advance" => count < MAX_BUFFER_SIZE
  /\ \A m \in Managers : pc[m] = "advance" => count > 0

RingInv == TypeOK /\ LockDiscipline /\ RingConsistent /\ HostNotForgotten
           /\ TestStillHolds

\* The slot i places after consptr, and the messages in the ring in order.
Slot(i)  == IF consptr + i < MAX_BUFFER_SIZE THEN consptr + i
            ELSE consptr + i - MAX_BUFFER_SIZE
Occupied == [i \in 1 .. count |-> buf[Slot(i - 1)]]

HostHolds == pc[Host] \in {"lock", "relock", "check", "waiting", "advance"}
InHand    == IF HostHolds THEN <<sessionMessage[Host]>> ELSE <<>>
Served(m) == IF pc[m] \in {"signal", "open", "attend"} THEN sessionMessage[m]
             ELSE NoMsg

\* What is waiting is in the ring, in the host's hands and in the pipe, in
\* this order.
Pending == Occupied \o InHand \o f_server

\* The strengthening behind the refinement: what a thread has in its hands and
\* what the occupied slots hold are messages, a copy is still the copy of its
\* slot when the index moves, and a signal that a handler runs for has not been
\* written and is nobody else's.
InTransit ==
  /\ \A i \in 0 .. count - 1 : buf[Slot(i)] \in Messages
  /\ HostHolds => sessionMessage[Host] \in Messages
  /\ pc[Host] = "advance" => buf[prodptr] = sessionMessage[Host]
  /\ \A m \in Managers : pc[m] = "advance" => sessionMessage[m] = buf[consptr]
  /\ \A m \in Managers :
       pc[m] \in {"signal", "open", "attend"} => sessionMessage[m] \in Messages

HandlersApart ==
  /\ \A t \in Threads : handler[t] \notin written
  /\ \A t, u \in Threads : handler[t] = handler[u] /\ handler[t] # NoMsg => t = u

\* The refinement mapping to the registry's queue.
Registry == INSTANCE SessionRegistry WITH
              written <- written,
              queue   <- Pending,
              serving <- [m \in Managers |-> Served(m)],
              up      <- server = "running"

\* Each message that reaches the pipe is taken by exactly one manager, in the
\* order of the writes, whatever the ring's size and the threads' timing.
TakenOnceInOrder == Registry!RegSpec

\* The FIFO is full and the handler of SIGUSR1, which waits to write to it,
\* suspends the host, its only reader, or the thread that the host waits for.
HandlerStuck ==
  /\ Len(f_server) = PipeCapacity
  /\ \E t \in Threads :
       handler[t] # NoMsg /\ (t = Host \/ (mutexBuffer = t /\ pc[Host] # "read"))

\* Every client whose message waits is attended in the end, also when there are
\* more clients than managers and slots, unless the server exits or a handler
\* is stuck: a full FIFO alone does not stop registrations.
EveryClientAttended ==
  \A c \in Clients :
    (\E i \in DOMAIN Pending : Pending[i] = c)
      ~> \/ server = "exited" \/ HandlerStuck
         \/ \E m \in Managers : pc[m] = "attend" /\ sessionMessage[m] = c
=============================================================================
