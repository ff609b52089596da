------------------------------ MODULE Sessions ------------------------------
(***************************************************************************)
(* A client's session in SO/projeto_2: client/api.c and client/main.c on   *)
(* one side, main.c manager_thread on the other.  A client process makes   *)
(* three FIFOs named after its id, sends their names to the server and     *)
(* opens them; the manager that takes its message opens the other ends.    *)
(* Opening a FIFO blocks until the other end arrives, and the other end    *)
(* may already have been removed: by the death of the client, or by an     *)
(* unlink of a session before it with the same names.                      *)
(*                                                                         *)
(* The managers share the descriptor table of the server.  A manager       *)
(* closes f_resp twice, in write_to_resp_pipe and after f_req; in between  *)
(* the number may have become another manager's.                           *)
(*                                                                         *)
(* The registration queue is the FIFO queue of SessionRegistry.  What a    *)
(* request does to the store is in KvsServer; here it can fail, and then   *)
(* the manager keeps the lock of the table.  The handler of SIGUSR1 sends  *)
(* a message too, with whatever stands on the stack for paths, and ends    *)
(* the open() or read() that it interrupts: signal() of -std=c17 sets no   *)
(* SA_RESTART.                                                             *)
(***************************************************************************)
EXTENDS Naturals, Sequences, FiniteSets, SequencesExt

CONSTANTS Clients,     \* client processes
          Ids,         \* the names that users give to their clients
          Managers,
          MaxFd,       \* descriptor numbers are 1 .. MaxFd
          MaxDeaths,   \* bound of the model: processes killed
          MaxRequests, \* bound of the model: requests of all processes
          MaxSignals,  \* bound of the model: SIGUSR1 sent to the server
          Nobody, Free

ASSUME SessionsAssumption ==
  /\ Nobody \notin Clients \cup Ids \cup Managers
  /\ MaxDeaths \in Nat /\ MaxRequests \in Nat /\ MaxSignals \in Nat

\* The limit of the process leaves three descriptors for each manager.
ASSUME DescriptorsSuffice ==
  IsFiniteSet(Managers) /\ MaxFd \in Nat /\ MaxFd >= 3 * Cardinality(Managers)

VARIABLES
  id,        \* id[p]: the name given to process p
  fifo,      \* fifo[i]: the process whose FIFOs the paths of i name, or Nobody
  queue,     \* registered messages: ids, and Nobody for the signal handler's
  cpc,       \* where client processes are
  ends,      \* ends[p]: FIFOs that p has open or is opening
  requests, deaths,   \* how many so far, to bound them
  req,       \* req[p]: bytes in p's request FIFO: opcodes and keys
  resp,      \* resp[p]: number of responses in its response FIFO
  up,        \* has no thread called exit?
  pc,        \* where manager threads are
  msg,       \* msg[m]: id in the message that m has taken
  f,         \* f[m][k]: the numbers in m's variables f_resp, f_req, f_notif
  table,     \* table[n]: what number n refers to, or Free
  reading,   \* reading[m]: the process from whose FIFO m's read() is reading
  leaked,    \* the manager that kept the table's lock after a failed request, or Nobody
  signals    \* how many so far

clientVars  == <<id, cpc, ends, requests, deaths>>
managerVars == <<pc, msg, f, reading>>
storeVars == <<leaked, signals>>
vars == <<fifo, queue, clientVars, req, resp, up, managerVars, table, storeVars>>

Kinds   == {"resp", "req", "notif"}
Numbers == 1 .. MaxFd
WaitFor == [resp |-> "respWait", req |-> "reqWait", notif |-> "notifWait"]

\* What a client does when an open() has returned.
ClientThen == [resp |-> "greeting", req |-> "notif", notif |-> "connected"]

\* (Faulty variant for mutation: f_notif is opened before f_req.)
ThenSwapped == [resp |-> "greet", greet |-> "notif", notif |-> "req", req |-> "serve"]

\* What a manager does after a step of the handshake.
Then == [resp |-> "greet", greet |-> "req", req |-> "notif", notif |-> "serve"]

\* installed: open() has returned; until then the number is only reserved.
\* by is history: the manager that called open().
Descriptor == [client: Clients, kind: Kinds, by: Managers, installed: BOOLEAN]

ASSUME FreeAssumption == Free \notin Descriptor

ClientStates == {"off", "send", "resp", "respWait", "greeting", "req", "reqWait", "notif",
                 "notifWait", "connected", "answer", "bye", "done", "dead"}

ManagerStates == {"take", "resp", "respWait", "greet", "req", "reqWait", "notif", "notifWait",
                  "serve", "opcode", "key", "keyRead", "answer", "farewell", "closeReq",
                  "closeResp", "closeNotif", "unlink"}

Bytes == {"subscribe", "key", "disconnect"}

ClientTypes ==
  /\ id \in [Clients -> Ids]
  /\ fifo \in [Ids -> Clients \cup {Nobody}]
  /\ queue \in Seq(Ids \cup {Nobody})
  /\ cpc \in [Clients -> ClientStates]
  /\ ends \in [Clients -> SUBSET Kinds]
  /\ requests \in 0 .. MaxRequests
  /\ deaths \in 0 .. MaxDeaths
  /\ req \in [Clients -> Seq(Bytes)]
  /\ resp \in [Clients -> Nat]

ManagerTypes ==
  /\ up \in BOOLEAN
  /\ pc \in [Managers -> ManagerStates]
  /\ msg \in [Managers -> Ids \cup {Nobody}]
  /\ f \in [Managers -> [Kinds -> Numbers \cup {0}]]
  /\ table \in [Numbers -> Descriptor \cup {Free}]
  /\ reading \in [Managers -> Clients \cup {Nobody}]
  /\ leaked \in Managers \cup {Nobody}
  /\ signals \in 0 .. MaxSignals

TypeOK == ClientTypes /\ ManagerTypes

Init ==
  /\ id \in [Clients -> Ids]
  /\ fifo = [i \in Ids |-> Nobody]
  /\ queue = <<>>
  /\ cpc = [p \in Clients |-> "off"]
  /\ ends = [p \in Clients |-> {}]
  /\ requests = 0
  /\ deaths = 0
  /\ req = [p \in Clients |-> <<>>]
  /\ resp = [p \in Clients |-> 0]
  /\ up = TRUE
  /\ pc = [m \in Managers |-> "take"]
  /\ msg = [m \in Managers |-> Nobody]
  /\ f = [m \in Managers |-> [k \in Kinds |-> 0]]
  /\ table = [n \in Numbers |-> Free]
  /\ reading = [m \in Managers |-> Nobody]
  /\ leaked = Nobody
  /\ signals = 0

Gone(p) == cpc[p] \in {"done", "dead"}

\* Numbers that refer to p's FIFO of kind k.
NumbersOf(p, k) == {n \in Numbers : table[n] # Free /\ table[n].client = p
                                                    /\ table[n].kind = k}

\* Is there a server's end of p's FIFO?  A read() that has begun holds it.
ServerEnd(p, k) == NumbersOf(p, k) # {} \/ (k = "req" /\ \E m \in Managers : reading[m] = p)

\* What number n means to a system call.
Installed(n) == n \in Numbers /\ table[n] # Free /\ table[n].installed

-----------------------------------------------------------------------------
(* Clients.                                                                *)

ClientGoto(p, from, to) == cpc[p] = from /\ cpc' = [cpc EXCEPT ![p] = to]

\* (Faulty variant: the FIFOs are not made.)
StartWithoutFifos(p) ==
  /\ \A q \in Clients \ {p} : id[q] = id[p] => cpc[q] = "off" \/ Gone(q)
  /\ ClientGoto(p, "off", "send")
  /\ UNCHANGED <<id, fifo, queue, ends, requests, deaths, req, resp, up, managerVars, table,
                 storeVars>>

\* kvs_connect: unlink what has its names, mkfifo.  A user gives a name to one
\* process at a time.
ClientStart(p) ==
  /\ \A q \in Clients \ {p} : id[q] = id[p] => cpc[q] = "off" \/ Gone(q)
  /\ ClientGoto(p, "off", "send")
  /\ fifo' = [fifo EXCEPT ![id[p]] = p]
  /\ UNCHANGED <<id, queue, ends, requests, deaths, req, resp, up, managerVars, table,
                 storeVars>>

\* The message with the names goes to the registration FIFO.
ClientSend(p) ==
  /\ ClientGoto(p, "send", "resp")
  /\ queue' = Append(queue, id[p])
  /\ UNCHANGED <<id, fifo, ends, requests, deaths, req, resp, up, managerVars, table,
                 storeVars>>

\* The client calls open() for its end of FIFO k.  It returns at once if the
\* server has its end, and lets managers go on that wait for the client.  If
\* the path no longer names a FIFO open fails and the process exits.
ClientOpens(p, k) ==
  /\ IF fifo[id[p]] = p
     THEN /\ ClientGoto(p, k, IF ServerEnd(p, k) THEN ClientThen[k] ELSE WaitFor[k])
          /\ ends' = [ends EXCEPT ![p] = @ \cup {k}]
          /\ table' = [n \in Numbers |-> IF n \in NumbersOf(p, k)
                                         THEN [table[n] EXCEPT !.installed = TRUE]
                                         ELSE table[n]]
          /\ pc' = [m \in Managers |->
               IF \E n \in NumbersOf(p, k) : table[n].by = m /\ ~table[n].installed
               THEN Then[k] ELSE pc[m]]
     ELSE /\ ClientGoto(p, k, "dead")
          /\ ends' = [ends EXCEPT ![p] = {}]
          /\ UNCHANGED <<table, pc>>
  /\ UNCHANGED <<id, fifo, queue, requests, deaths, req, resp, up, msg, f, reading, storeVars>>

\* (Faulty variant: it does not wait for a response.)
ClientReadsAtOnce(p, from, to) ==
  /\ ClientGoto(p, from, to)
  /\ resp' = [resp EXCEPT ![p] = @ - 1]
  /\ UNCHANGED <<id, fifo, queue, ends, requests, deaths, req, up, managerVars, table,
                 storeVars>>

\* read_response: it returns with a response, or with nothing when no process
\* has the FIFO open for writing; the result is not looked at.
ClientReads(p, from, to) ==
  /\ ClientGoto(p, from, to)
  /\ \/ resp[p] > 0 /\ resp' = [resp EXCEPT ![p] = @ - 1]
     \/ resp[p] = 0 /\ ~ServerEnd(p, "resp") /\ UNCHANGED resp
  /\ UNCHANGED <<id, fifo, queue, ends, requests, deaths, req, up, managerVars, table,
                 storeVars>>

\* The client writes a request: SIGPIPE ends it if the FIFO has no reader.
ClientWrites(p, bytes, to) ==
  /\ IF ServerEnd(p, "req")
     THEN /\ ClientGoto(p, "connected", to)
          /\ req' = [req EXCEPT ![p] = @ \o bytes]
          /\ UNCHANGED ends
     ELSE /\ ClientGoto(p, "connected", "dead")
          /\ ends' = [ends EXCEPT ![p] = {}]
          /\ UNCHANGED req
  /\ UNCHANGED <<id, fifo, queue, deaths, resp, up, managerVars, table,
                 storeVars>>

\* SUBSCRIBE or UNSUBSCRIBE.
ClientAsks(p) ==
  /\ requests < MaxRequests
  /\ requests' = requests + 1
  /\ ClientWrites(p, <<"subscribe", "key">>, "answer")

ClientDisconnects(p) ==
  /\ ClientWrites(p, <<"disconnect">>, "bye")
  /\ UNCHANGED requests

\* The answer to DISCONNECT has come: close and unlink.
ClientLeaves(p) ==
  /\ \/ resp[p] > 0
     \/ ~ServerEnd(p, "resp")
  /\ ClientGoto(p, "bye", "done")
  /\ ends' = [ends EXCEPT ![p] = {}]
  /\ fifo' = [fifo EXCEPT ![id[p]] = Nobody]
  /\ UNCHANGED <<id, queue, requests, deaths, req, resp, up, managerVars, table,
                 storeVars>>

\* The process is killed at any point after it has started.
ClientDies(p) ==
  /\ cpc[p] # "off" /\ ~Gone(p)
  /\ deaths < MaxDeaths
  /\ deaths' = deaths + 1
  /\ cpc' = [cpc EXCEPT ![p] = "dead"]
  /\ ends' = [ends EXCEPT ![p] = {}]
  /\ UNCHANGED <<id, fifo, queue, requests, req, resp, up, managerVars, table,
                 storeVars>>

Connect(p) == ClientSend(p) \/ (\E k \in Kinds : ClientOpens(p, k))
                            \/ ClientReads(p, "greeting", "req")

-----------------------------------------------------------------------------
(* Managers.                                                               *)

Goto(m, from, to) == up /\ pc[m] = from /\ pc' = [pc EXCEPT ![m] = to]

\* The message at the head of the queue.
ManagerTake(m) ==
  /\ queue # <<>>
  /\ Goto(m, "take", "resp")
  /\ msg' = [msg EXCEPT ![m] = Head(queue)]
  /\ queue' = Tail(queue)
  /\ UNCHANGED <<fifo, clientVars, req, resp, up, f, reading, table, storeVars>>

\* The process whose FIFOs the paths of m's message name.  Those of the signal
\* handler's message name nothing.
Named(m) == IF msg[m] = Nobody THEN Nobody ELSE fifo[msg[m]]

\* open() reserves the lowest free number and waits for the client's end, or
\* returns at once if that is there; a client that waits goes on.  If the path
\* does not exist it fails and the thread ends the server: all its descriptors
\* are closed.
LowestFree == CHOOSE n \in Numbers : table[n] = Free /\ \A i \in 1 .. n - 1 : table[i] # Free

Exit == /\ up' = FALSE
        /\ table' = [n \in Numbers |-> Free]
        /\ reading' = [m \in Managers |-> Nobody]
        /\ UNCHANGED <<cpc, pc, f>>

ManagerOpens(m, k) ==
  LET p == Named(m) IN
  /\ up /\ pc[m] = k
  /\ IF p = Nobody
     THEN Exit
     ELSE /\ Goto(m, k, IF k \in ends[p] THEN Then[k] ELSE WaitFor[k])
          /\ f' = [f EXCEPT ![m][k] = LowestFree]
          /\ table' = [table EXCEPT ![LowestFree] =
               [client |-> p, kind |-> k, by |-> m, installed |-> k \in ends[p]]]
          /\ cpc' = [cpc EXCEPT ![p] = IF @ = WaitFor[k] THEN ClientThen[k] ELSE @]
          /\ UNCHANGED <<up, reading>>
  /\ UNCHANGED <<id, fifo, queue, ends, requests, deaths, req, resp, msg, storeVars>>

\* write(f_resp, ...): whoever's response FIFO the number refers to gets it; it
\* fails without notice on other numbers and on a FIFO that nobody reads.
WriteResponse(m) ==
  LET n == f[m]["resp"] IN
  IF Installed(n) /\ table[n].kind = "resp" /\ "resp" \in ends[table[n].client]
  THEN resp' = [resp EXCEPT ![table[n].client] = @ + 1]
  ELSE UNCHANGED resp

\* The greeting after the first open().
ManagerGreets(m) ==
  /\ Goto(m, "greet", Then["greet"])
  /\ WriteResponse(m)
  /\ UNCHANGED <<fifo, queue, clientVars, req, up, msg, f, reading, table, storeVars>>

\* A request gets the table's lock, which its last failed request may have kept
\* (EDEADLK lets the owner through), and gives it back unless it fails.
StoreRequest(m) == /\ leaked \in {Nobody, m}
                   /\ leaked' \in {Nobody, m}
                   /\ UNCHANGED signals

\* kvs_subs_or_unsubs, and the answer.
ManagerAnswers(m) ==
  /\ Goto(m, "answer", "serve")
  /\ StoreRequest(m)
  /\ WriteResponse(m)
  /\ UNCHANGED <<fifo, queue, clientVars, req, up, msg, f, reading, table>>

\* read(f_req, ...) of an opcode or a key begins.
ManagerReads(m, from, to, onError) ==
  LET n == f[m]["req"] IN
  /\ IF Installed(n) /\ table[n].kind = "req"
     THEN /\ Goto(m, from, to)
          /\ reading' = [reading EXCEPT ![m] = table[n].client]
     ELSE Goto(m, from, onError) /\ UNCHANGED reading
  /\ UNCHANGED <<fifo, queue, clientVars, req, resp, up, msg, f, table, storeVars>>

\* The FIFO that m reads has come to its end.
EndOfFifo(p) == req[p] = <<>> /\ "req" \notin ends[p]

ReadReturns(m, from, to) == /\ Goto(m, from, to)
                            /\ reading' = [reading EXCEPT ![m] = Nobody]
                            /\ UNCHANGED <<fifo, clientVars, resp, up, msg, f, table, leaked>>

\* get_next2 has a byte: all that is no opcode of SUBSCRIBE or UNSUBSCRIBE is a
\* DISCONNECT, and so are the end of the FIFO and an error.  (Of a key that
\* another manager should have read there may be more bytes.)
ManagerGetsOpcode(m) ==
  LET p == reading[m] IN
  /\ up /\ pc[m] = "opcode"
  /\ \/ /\ req[p] # <<>> /\ Head(req[p]) = "subscribe"
        /\ ReadReturns(m, "opcode", "key")
        /\ req' = [req EXCEPT ![p] = Tail(@)]
     \/ /\ req[p] # <<>> /\ Head(req[p]) # "subscribe"
        /\ ReadReturns(m, "opcode", "farewell")
        /\ \/ req' = [req EXCEPT ![p] = Tail(@)]
           \/ Head(req[p]) = "key" /\ UNCHANGED req
     \/ EndOfFifo(p) /\ ReadReturns(m, "opcode", "farewell") /\ UNCHANGED req
  /\ UNCHANGED <<queue, signals>>

\* The read of the key takes all that is there; at the end of the FIFO, and on
\* an error, the request is not answered.
ManagerGetsKey(m) ==
  LET p == reading[m] IN
  /\ up /\ pc[m] = "keyRead"
  /\ \/ /\ req[p] # <<>>
        /\ ReadReturns(m, "keyRead", "answer")
        /\ req' = [req EXCEPT ![p] = <<>>]
     \/ EndOfFifo(p) /\ ReadReturns(m, "keyRead", "serve") /\ UNCHANGED req
  /\ UNCHANGED <<queue, signals>>

\* close(n): without effect unless n is installed.
Closed(n) == [table EXCEPT ![n] = IF Installed(n) THEN Free ELSE @]

\* kvs_disconnect, and write_to_resp_pipe: the answer to DISCONNECT and the first
\* close(f_resp).
ManagerFarewell(m) ==
  /\ Goto(m, "farewell", "closeReq")
  /\ StoreRequest(m)
  /\ WriteResponse(m)
  /\ table' = Closed(f[m]["resp"])
  /\ UNCHANGED <<fifo, queue, clientVars, req, up, msg, f, reading>>

\* (Faulty variant: a number is not closed.)
ForgetsToClose(m, k, from, to) ==
  /\ Goto(m, from, to)
  /\ UNCHANGED <<fifo, queue, clientVars, req, resp, up, msg, f, reading, table, storeVars>>

ManagerCloses(m, k, from, to) ==
  /\ Goto(m, from, to)
  /\ table' = Closed(f[m][k])
  /\ UNCHANGED <<fifo, queue, clientVars, req, resp, up, msg, f, reading, storeVars>>

\* The three paths are unlinked, whatever they name by now.
ManagerUnlinks(m) ==
  /\ Goto(m, "unlink", "take")
  /\ fifo' = [fifo EXCEPT ![msg[m]] = Nobody]
  /\ msg' = [msg EXCEPT ![m] = Nobody]
  /\ f' = [f EXCEPT ![m] = [k \in Kinds |-> 0]]
  /\ UNCHANGED <<queue, clientVars, req, resp, up, reading, table, storeVars>>

Handshake(m) == \/ \E k \in Kinds : ManagerOpens(m, k)
                \/ ManagerGreets(m)

Attend(m) ==
  \/ ManagerReads(m, "serve", "opcode", "farewell") \/ ManagerGetsOpcode(m)
  \/ ManagerReads(m, "key", "keyRead", "serve") \/ ManagerGetsKey(m)
  \/ ManagerAnswers(m)
  \/ ManagerFarewell(m)
  \/ ManagerCloses(m, "req", "closeReq", "closeResp")
  \/ ManagerCloses(m, "resp", "closeResp", "closeNotif")
  \/ ManagerCloses(m, "notif", "closeNotif", "unlink")
  \/ ManagerUnlinks(m)

-----------------------------------------------------------------------------
(* SIGUSR1.                                                                *)

\* apanha_usr1 writes a message to the registration FIFO.
HandlerSends == /\ up /\ signals < MaxSignals
                /\ signals' = signals + 1
                /\ queue' = Append(queue, Nobody)

\* The thread that it runs on is in no call that ends for it.
Signal == /\ HandlerSends
          /\ UNCHANGED <<fifo, clientVars, req, resp, up, managerVars, table, leaked>>

\* It runs on a manager that waits in open(): EINTR ends the server.
SignalInOpen(m) ==
  /\ HandlerSends
  /\ \E k \in Kinds : pc[m] = WaitFor[k]
  /\ Exit
  /\ UNCHANGED <<id, fifo, ends, requests, deaths, req, resp, msg, leaked>>

\* On a manager in read(): of an opcode it makes a DISCONNECT, and of a key no
\* answer.
SignalInRead(m) ==
  /\ HandlerSends
  /\ ReadReturns(m, "opcode", "farewell") \/ ReadReturns(m, "keyRead", "serve")
  /\ UNCHANGED req

Signalled == Signal \/ \E m \in Managers : SignalInOpen(m) \/ SignalInRead(m)

-----------------------------------------------------------------------------
Manager(m) == ManagerTake(m) \/ Handshake(m) \/ Attend(m)

Converse(p) == ClientReads(p, "answer", "connected") \/ ClientLeaves(p)

Next == \/ \E p \in Clients : \/ ClientStart(p) \/ Connect(p) \/ Converse(p)
                              \/ ClientAsks(p) \/ ClientDisconnects(p) \/ ClientDies(p)
        \/ \E m \in Managers : Manager(m)
        \/ Signalled

Spec == Init /\ [][Next]_vars

(* The threads of a running server run, and so does a client that is        *)
(* connecting.  No process has to start, ask, disconnect, die or send a      *)
(* signal.                                                                   *)
Fairness == /\ \A m \in Managers : WF_vars(Manager(m))
            /\ \A p \in Clients : WF_vars(Connect(p) \/ Converse(p))

FairSpec == Spec /\ Fairness

-----------------------------------------------------------------------------
(* Correctness.                                                            *)

Connecting(p) == cpc[p] \in {"send", "resp", "respWait", "greeting", "req", "reqWait",
                             "notif", "notifWait"}

\* A manager is stuck in an open() for a process that no longer arrives.
Stuck(m) == /\ pc[m] \in {"respWait", "reqWait", "notifWait"}
            /\ \E n \in Numbers : table[n] # Free /\ table[n].by = m /\ ~table[n].installed
                                  /\ Gone(table[n].client)

\* A manager hangs for the table's lock, kept by a failed request of another.
HangsOnLock(m) == pc[m] \in {"answer", "farewell"} /\ leaked \notin {Nobody, m}

\* A manager serves a process that has nothing to ask at present.
Attends(m) == /\ reading[m] \in Clients
              /\ req[reading[m]] = <<>> /\ "req" \in ends[reading[m]]

\* Unless somebody sends SIGUSR1, only a name that was used again can make a
\* manager's open() fail and end the server: then a path may have been unlinked
\* by the session before.
OnlyReuseOrSignalStopsServer ==
  ~up /\ signals = 0 =>
    \E p, q \in Clients : /\ p # q /\ id[p] = id[q]
                           /\ cpc[p] # "off" /\ cpc[q] # "off"

\* In spite of the numbers closed twice, a manager that goes back for the next
\* message leaves no descriptor open.
NoDescriptorLeak ==
  \A m \in Managers : pc[m] = "take" => \A n \in Numbers : table[n] # Free => table[n].by # m

\* kvs_connect returns or its process ends: client and manager open the FIFOs
\* in an order in which neither waits for ever, and a registered client's turn
\* comes.  Unless the server has ended, or there is never a manager free again:
\* each serves a process that does not ask or leave, waits for one that died
\* before it opened its FIFOs, or hangs for the table's lock.
NoManagerLeft == \A m \in Managers : Stuck(m) \/ HangsOnLock(m) \/ Attends(m)

ConnectEnds ==
  \/ <>[]NoManagerLeft
  \/ \A p \in Clients : Connecting(p) ~> ~Connecting(p) \/ ~up

\* A client whose kvs_connect has returned 0 has a manager that serves it.
ConnectedIsServed ==
  \A p \in Clients : cpc[p] = "connected" /\ up =>
    \E m \in Managers : \A k \in Kinds :
      f[m][k] \in Numbers /\ table[f[m][k]] # Free /\ table[f[m][k]].client = p
=============================================================================
