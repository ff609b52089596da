--------------------------- MODULE SessionsProofs ---------------------------
(***************************************************************************)
(* Proofs about Sessions, for any sets of client processes, names and      *)
(* managers, any number of deaths, requests and signals, and enough        *)
(* descriptors.                                                            *)
(***************************************************************************)
EXTENDS Sessions, FiniteSetTheorems, SequenceTheorems, WellFoundedInduction, TLAPS

\* Where a manager has not yet opened its FIFO of a kind, and where it has
\* closed it again.
Before == [resp  |-> {"take", "resp"},
           req   |-> {"take", "resp", "respWait", "greet", "req"},
           notif |-> {"take", "resp", "respWait", "greet", "req", "reqWait", "notif"}]
After == [resp  |-> {"closeReq", "closeResp", "closeNotif", "unlink"},
          req   |-> {"closeResp", "closeNotif", "unlink"},
          notif |-> {"unlink"}]

\* Where a client's open() of a FIFO has returned.
Passed == [resp  |-> {"greeting", "req", "reqWait", "notif", "notifWait", "connected",
                      "answer", "bye", "done"},
           req   |-> {"notif", "notifWait", "connected", "answer", "bye", "done"},
           notif |-> {"connected", "answer", "bye", "done"}]

\* A number in use is remembered by the manager that opened it, for the client
\* of its message, and is installed unless its open() has not returned.
Owned ==
  \A n \in Numbers : table[n] # Free =>
    LET m == table[n].by  k == table[n].kind IN
      /\ f[m][k] = n
      /\ pc[m] \notin Before[k] \cup After[k]
      /\ table[n].installed \/ pc[m] = WaitFor[k]
      /\ msg[m] = id[table[n].client]

\* A manager has a message while it works on one, a client's from its first
\* open() on, and reads some client's FIFO while it is in read().
AtWork ==
  \A m \in Managers :
    /\ pc[m] = "take" => msg[m] = Nobody
    /\ pc[m] \notin {"take", "resp"} => msg[m] \in Ids
    /\ up /\ pc[m] \in {"opcode", "keyRead"} => reading[m] \in Clients

\* Only a process of that name makes FIFOs at a path.
PathsNamed == \A i \in Ids : fifo[i] # Nobody => id[fifo[i]] = i

DescriptorInv == TypeOK /\ Owned /\ AtWork /\ PathsNamed

-----------------------------------------------------------------------------
(* Why a path that a manager opens is there.                               *)

Started(p) == cpc[p] # "off"

\* p has sent its message, or has ended.
Sent(p) == cpc[p] \notin {"off", "send"}

Queued(i) == \E j \in DOMAIN queue : queue[j] = i
Taken(i)  == \E m \in Managers : msg[m] = i

\* Messages come from clients of that name; FIFOs, numbers and readers belong to
\* clients that have started.
FromClients ==
  /\ \A i \in Ids : Queued(i) \/ Taken(i) => \E p \in Clients : id[p] = i /\ Sent(p)
  /\ \A i \in Ids : fifo[i] # Nobody => Started(fifo[i])
  /\ \A n \in Numbers : table[n] # Free => Started(table[n].client)
  /\ \A m \in Managers : reading[m] # Nobody => Started(reading[m])

\* There is no message of the signal handler.
ClientsMessages ==
  /\ queue \in Seq(Ids)
  /\ \A m \in Managers : pc[m] # "take" => msg[m] \in Ids

\* No process had p's name before.
Alone(p) == Started(p) /\ \A q \in Clients : id[q] = id[p] /\ q # p => ~Started(q)

\* The one message of p is in one place.
OneMessage(p) ==
  /\ \A i, j \in DOMAIN queue : queue[i] = id[p] /\ queue[j] = id[p] => i = j
  /\ \A m, o \in Managers : msg[m] = id[p] /\ msg[o] = id[p] => m = o
  /\ ~(Queued(id[p]) /\ Taken(id[p]))

\* The manager of p's message, if there is still one, has opened p's FIFO k.
Opened(p, k) ==
  /\ Sent(p) /\ ~Queued(id[p])
  /\ \A m \in Managers : msg[m] = id[p] => pc[m] \notin Before[k]

\* p's paths are there until p leaves or its manager unlinks them.
PathStays(p) ==
  fifo[id[p]] = p \/ cpc[p] = "done" \/ (Sent(p) /\ ~Queued(id[p]) /\ ~Taken(id[p]))

AloneInv ==
  \A p \in Clients : Alone(p) =>
    /\ OneMessage(p) /\ PathStays(p)
    /\ \A k \in Kinds : cpc[p] \in Passed[k] => Opened(p, k)
    /\ \A m \in Managers : reading[m] = p => Opened(p, "req")

ReuseInv == signals = 0 => FromClients /\ ClientsMessages /\ AloneInv
                           /\ OnlyReuseOrSignalStopsServer

\* A step while no signal comes.
Step == \/ \E p \in Clients : \/ ClientStart(p) \/ Connect(p) \/ Converse(p)
                               \/ ClientAsks(p) \/ ClientDisconnects(p) \/ ClientDies(p)
        \/ \E m \in Managers : Manager(m)
        \/ UNCHANGED vars

-----------------------------------------------------------------------------
(* Where managers are.                                                     *)

\* A set of numbers has a least one.
LEMMA LeastNumber ==
  ASSUME NEW T, T \subseteq Nat, T # {}
  PROVE  \E x \in T : \A y \in T : x <= y
<1>1. PICK x \in T : \A y \in T : ~ (<<y, x>> \in OpToRel(<, Nat))
  BY NatLessThanWellFounded, WFMin
<1>2. ASSUME NEW y \in T PROVE x <= y
  <2>1. <<y, x>> \in Nat \X Nat /\ ~ (<<y, x>> \in OpToRel(<, Nat))
    BY <1>1
  <2>2. ~ (y < x)
    BY <2>1 DEF OpToRel
  <2> QED BY <2>2
<1> QED BY <1>2

\* The order of a manager's steps: one after another it opens the FIFOs, waiting
\* or not, and then it goes on.
LEMMA StepOrder ==
  ASSUME NEW k \in Kinds, NEW j \in Kinds
  PROVE  /\ k \in Before[k] /\ "take" \in Before[k]
         /\ WaitFor[k] \notin Before[k] \cup After[k]
         /\ Then[k] \notin Before[k] \cup After[k]
         /\ WaitFor[j] \notin Before[k] => Then[j] \notin Before[k]
         /\ WaitFor[j] \notin After[k] /\ Then[j] \notin After[k]
         /\ j \notin Before[k] => WaitFor[j] \notin Before[k] /\ Then[j] \notin Before[k]
         /\ j # WaitFor[k] /\ Then[j] # WaitFor[k]
         /\ WaitFor[j] = WaitFor[k] => j = k
         /\ {WaitFor[k], Then[k]} \cap {"take", "opcode", "keyRead"} = {}
<1>1. k \in {"resp", "req", "notif"} /\ j \in {"resp", "req", "notif"}
  BY DEF Kinds
<1>2. /\ WaitFor["resp"] = "respWait" /\ WaitFor["req"] = "reqWait"
      /\ WaitFor["notif"] = "notifWait"
      /\ Then["resp"] = "greet" /\ Then["req"] = "notif" /\ Then["notif"] = "serve"
  BY DEF WaitFor, Then
<1>3. CASE k = "resp"
  BY <1>1, <1>2, <1>3 DEF Before, After
<1>4. CASE k = "req"
  BY <1>1, <1>2, <1>4 DEF Before, After
<1>5. CASE k = "notif"
  BY <1>1, <1>2, <1>5 DEF Before, After
<1> QED BY <1>1, <1>3, <1>4, <1>5

\* There are three kinds of FIFOs.
LEMMA ThreeKinds == IsFiniteSet(Kinds) /\ Cardinality(Kinds) = 3
<1>1. IsFiniteSet({"resp"}) /\ Cardinality({"resp"}) = 1
  BY FS_Singleton
<1>2. IsFiniteSet({"resp"} \cup {"req"}) /\ Cardinality({"resp"} \cup {"req"}) = 2
  BY <1>1, FS_AddElement
<1>3. /\ IsFiniteSet(({"resp"} \cup {"req"}) \cup {"notif"})
      /\ Cardinality(({"resp"} \cup {"req"}) \cup {"notif"}) = 3
  BY <1>2, FS_AddElement
<1>4. Kinds = ({"resp"} \cup {"req"}) \cup {"notif"}
  BY DEF Kinds
<1> QED BY <1>3, <1>4

\* A manager that opens a FIFO finds a free number: every number in use is the
\* number of one FIFO of one manager.
LEMMA NumberFree ==
  ASSUME TypeOK, Owned, NEW m \in Managers, NEW k \in Kinds, pc[m] = k
  PROVE  /\ LowestFree \in Numbers /\ table[LowestFree] = Free
<1>1. MaxFd \in Nat /\ IsFiniteSet(Managers) /\ MaxFd >= 3 * Cardinality(Managers)
  BY DescriptorsSuffice
<1>2. \E n \in Numbers : table[n] = Free
  <2> SUFFICES ASSUME \A n \in Numbers : table[n] # Free PROVE FALSE
    OBVIOUS
  <2> DEFINE Pairs == Managers \X Kinds
             T == Pairs \ {<<m, k>>}
             g == [n \in Numbers |-> <<table[n].by, table[n].kind>>]
  <2>1. \A n \in Numbers : /\ table[n].by \in Managers /\ table[n].kind \in Kinds
                           /\ f[table[n].by][table[n].kind] = n
                           /\ pc[table[n].by] \notin Before[table[n].kind]
    BY DEF TypeOK, ManagerTypes, Descriptor, Owned
  <2>2. \A n \in Numbers : g[n] \in T
    BY <2>1, StepOrder
  <2>3. g \in [Numbers -> T]
    BY <2>2
  <2>4. IsFiniteSet(Pairs) /\ Cardinality(Pairs) = Cardinality(Managers) * 3
    BY <1>1, ThreeKinds, FS_Product
  <2>5. IsFiniteSet(T) /\ Cardinality(T) = Cardinality(Pairs) - 1
    <3>1. <<m, k>> \in Pairs
      OBVIOUS
    <3> HIDE DEF Pairs
    <3> QED BY <2>4, <3>1, FS_RemoveElement
  <2>6. IsFiniteSet(Numbers) /\ Cardinality(Numbers) = MaxFd
    <3>1. 1 \in Int /\ MaxFd \in Int
      BY <1>1
    <3>2. IsFiniteSet(1 .. MaxFd) /\ Cardinality(1 .. MaxFd) = IF 1 > MaxFd THEN 0 ELSE MaxFd - 1 + 1
      BY <3>1, FS_Interval
    <3> QED BY <1>1, <3>2 DEF Numbers
  <2>7. Cardinality(T) < Cardinality(Numbers)
    <3>1. Cardinality(Managers) \in Nat
      BY <1>1, FS_CardinalityType
    <3> QED BY <1>1, <2>4, <2>5, <2>6, <3>1
  <2> HIDE DEF T, g
  <2>8. PICK x, y \in Numbers : x # y /\ g[x] = g[y]
    BY <2>3, <2>5, <2>6, <2>7, FS_PigeonHole
  <2> QED BY <2>1, <2>8 DEF g
<1>3. PICK n \in {x \in Numbers : table[x] = Free} :
        \A i \in {x \in Numbers : table[x] = Free} : n <= i
  <2>1. {x \in Numbers : table[x] = Free} \subseteq Nat
    BY <1>1 DEF Numbers
  <2> QED BY <1>2, <2>1, LeastNumber
<1>4. \A i \in 1 .. n - 1 : table[i] # Free
  <2> SUFFICES ASSUME NEW i \in 1 .. n - 1 PROVE table[i] # Free
    OBVIOUS
  <2>1. i \in Numbers /\ ~(n <= i)
    BY <1>1 DEF Numbers
  <2> QED BY <1>3, <2>1
<1> QED BY <1>3, <1>4 DEF LowestFree

-----------------------------------------------------------------------------
(* Descriptors.                                                            *)

\* The start.
LEMMA InitDescriptors == Init => DescriptorInv
<1> SUFFICES ASSUME Init PROVE DescriptorInv
  OBVIOUS
<1>1. \A S : <<>> \in Seq(S)
  BY EmptySeq
<1>2. TypeOK
  BY <1>1, SessionsAssumption
     DEF Init, TypeOK, ClientTypes, ManagerTypes, ClientStates, ManagerStates
<1>3. Owned /\ AtWork /\ PathsNamed
  BY DEF Init, Owned, AtWork, PathsNamed
<1> QED BY <1>2, <1>3 DEF DescriptorInv

\* Where the two sides go when an open() returns or waits.
LEMMA OpenStates ==
  ASSUME NEW k \in Kinds
  PROVE  ClientThen[k] \in ClientStates /\ WaitFor[k] \in ClientStates
         /\ WaitFor[k] \in ManagerStates /\ Then[k] \in ManagerStates
<1>1. k \in {"resp", "req", "notif"}
  BY DEF Kinds
<1> QED BY <1>1 DEF ClientThen, WaitFor, Then, ClientStates, ManagerStates

\* What a number in use refers to.
LEMMA InUse ==
  ASSUME TypeOK, NEW n \in Numbers, table[n] # Free
  PROVE  /\ table[n] \in Descriptor /\ table[n].client \in Clients /\ table[n].kind \in Kinds
         /\ table[n].by \in Managers
<1> QED BY DEF TypeOK, ManagerTypes, Descriptor

\* What write_response does to the number of responses.
LEMMA ResponseTypes ==
  ASSUME TypeOK, NEW m \in Managers, WriteResponse(m)
  PROVE  resp' \in [Clients -> Nat]
<1>1. resp \in [Clients -> Nat]
  BY DEF TypeOK, ClientTypes
<1> DEFINE n == f[m]["resp"]
<1>2. CASE Installed(n) /\ table[n].kind = "resp" /\ "resp" \in ends[table[n].client]
  <2>1. table[n].client \in Clients
    BY <1>2, InUse DEF Installed
  <2>2. resp' = [resp EXCEPT ![table[n].client] = resp[table[n].client] + 1]
    BY <1>2 DEF WriteResponse
  <2> HIDE DEF n
  <2> QED BY <1>1, <2>1, <2>2
<1>3. CASE ~(Installed(n) /\ table[n].kind = "resp" /\ "resp" \in ends[table[n].client])
  BY <1>1, <1>3 DEF WriteResponse
<1> QED BY <1>2, <1>3

\* A message whose paths name a FIFO is a client's.
LEMMA NamesFifo ==
  ASSUME TypeOK, NEW m \in Managers, Named(m) # Nobody
  PROVE  msg[m] \in Ids /\ Named(m) = fifo[msg[m]]
<1> QED BY DEF TypeOK, ManagerTypes, Named

\* The steps of a client keep the types.
LEMMA ClientKeepsTypes ==
  ASSUME DescriptorInv, NEW p \in Clients,
         \/ ClientStart(p) \/ Connect(p) \/ Converse(p)
         \/ ClientAsks(p) \/ ClientDisconnects(p) \/ ClientDies(p)
  PROVE  TypeOK'
<1> USE DEF TypeOK
<1>1. ClientTypes /\ ManagerTypes
  BY DEF DescriptorInv
<1>2. ASSUME UNCHANGED <<managerVars, up, table, storeVars>> PROVE ManagerTypes'
  BY <1>1, <1>2 DEF managerVars, storeVars, ManagerTypes
<1>3. ASSUME UNCHANGED <<managerVars, up, table, storeVars, id>>,
             fifo' \in [Ids -> Clients \cup {Nobody}], queue' \in Seq(Ids \cup {Nobody}),
             NEW c \in ClientStates, cpc' = [cpc EXCEPT ![p] = c],
             ends' = ends \/ ends' = [ends EXCEPT ![p] = {}],
             requests' \in 0 .. MaxRequests, deaths' \in 0 .. MaxDeaths,
             req' \in [Clients -> Seq(Bytes)], resp' \in [Clients -> Nat]
      PROVE  TypeOK'
  <2>1. ends' \in [Clients -> SUBSET Kinds] /\ cpc' \in [Clients -> ClientStates]
    BY <1>1, <1>3 DEF ClientTypes
  <2> QED BY <1>1, <1>2, <1>3, <2>1 DEF ClientTypes
<1>4. {"send", "resp", "req", "connected", "answer", "bye", "done", "dead"} \subseteq ClientStates
  BY DEF ClientStates
<1>5. CASE ClientStart(p)
  BY <1>1, <1>3, <1>4, <1>5 DEF ClientStart, ClientGoto, ClientTypes
<1>6. CASE ClientLeaves(p)
  BY <1>1, <1>3, <1>4, <1>6 DEF ClientLeaves, ClientGoto, ClientTypes
<1>7. CASE ClientDies(p)
  <2>1. deaths' \in 0 .. MaxDeaths
    BY <1>1, <1>7, SessionsAssumption DEF ClientDies, ClientTypes
  <2> QED BY <1>1, <1>3, <1>4, <1>7, <2>1 DEF ClientDies, ClientTypes
<1>8. CASE ClientSend(p)
  <2>1. queue' \in Seq(Ids \cup {Nobody})
    BY <1>1, <1>8, AppendProperties DEF ClientSend, ClientTypes
  <2> QED BY <1>1, <1>3, <1>4, <1>8, <2>1 DEF ClientSend, ClientGoto, ClientTypes
<1>9. ASSUME NEW from, NEW to \in {"req", "connected"}, ClientReads(p, from, to) PROVE TypeOK'
  <2>1. resp' \in [Clients -> Nat]
    <3>1. resp \in [Clients -> Nat]
      BY <1>1 DEF ClientTypes
    <3>2. resp' = resp \/ (resp' = [resp EXCEPT ![p] = resp[p] - 1] /\ resp[p] > 0)
      BY <1>9 DEF ClientReads
    <3> QED BY <3>1, <3>2
  <2> QED BY <1>1, <1>3, <1>4, <1>9, <2>1 DEF ClientReads, ClientGoto, ClientTypes
<1>10. ASSUME NEW bytes \in Seq(Bytes), NEW to \in {"answer", "bye"}, ClientWrites(p, bytes, to),
              requests' \in 0 .. MaxRequests
       PROVE  TypeOK'
  <2>1. req' \in [Clients -> Seq(Bytes)]
    <3>1. req \in [Clients -> Seq(Bytes)]
      BY <1>1 DEF ClientTypes
    <3>2. req[p] \o bytes \in Seq(Bytes)
      BY <3>1, ConcatProperties
    <3>3. req' = req \/ req' = [req EXCEPT ![p] = req[p] \o bytes]
      BY <1>10 DEF ClientWrites
    <3> QED BY <3>1, <3>2, <3>3
  <2>2. (cpc' = [cpc EXCEPT ![p] = to] \/ cpc' = [cpc EXCEPT ![p] = "dead"])
        /\ (ends' = ends \/ ends' = [ends EXCEPT ![p] = {}])
        /\ UNCHANGED <<id, fifo, queue, deaths, resp, up, managerVars, table, storeVars>>
    BY <1>10 DEF ClientWrites, ClientGoto
  <2> QED BY <1>1, <1>3, <1>4, <1>10, <2>1, <2>2 DEF ClientTypes
<1>11. CASE ClientAsks(p)
  <2>1. <<"subscribe", "key">> \in Seq(Bytes)
    BY DEF Bytes
  <2>2. requests' \in 0 .. MaxRequests
    BY <1>1, <1>11, SessionsAssumption DEF ClientAsks, ClientTypes
  <2> QED BY <1>10, <1>11, <2>1, <2>2 DEF ClientAsks
<1>12. CASE ClientDisconnects(p)
  <2>1. <<"disconnect">> \in Seq(Bytes)
    BY DEF Bytes
  <2>2. requests' \in 0 .. MaxRequests
    BY <1>1, <1>12 DEF ClientDisconnects, ClientTypes
  <2> QED BY <1>10, <1>12, <2>1, <2>2 DEF ClientDisconnects
<1>13. ASSUME NEW k \in Kinds, ClientOpens(p, k) PROVE TypeOK'
  <2>1. /\ \E c \in ClientStates : cpc' = [cpc EXCEPT ![p] = c]
        /\ ends' = [ends EXCEPT ![p] = ends[p] \cup {k}] \/ ends' = [ends EXCEPT ![p] = {}]
        /\ UNCHANGED <<id, fifo, queue, requests, deaths, req, resp, up, msg, f, reading, storeVars>>
    BY <1>4, <1>13, OpenStates DEF ClientOpens, ClientGoto
  <2>2. cpc' \in [Clients -> ClientStates] /\ ends' \in [Clients -> SUBSET Kinds]
    <3>1. ends \in [Clients -> SUBSET Kinds] /\ cpc \in [Clients -> ClientStates]
      BY <1>1 DEF ClientTypes
    <3>2. ends[p] \cup {k} \in SUBSET Kinds /\ {} \in SUBSET Kinds
      BY <3>1
    <3> QED BY <2>1, <3>1, <3>2
  <2>3. pc \in [Managers -> ManagerStates] /\ table \in [Numbers -> Descriptor \cup {Free}]
    BY <1>1 DEF ManagerTypes
  <2>4. pc' \in [Managers -> ManagerStates]
    <3>1. CASE fifo[id[p]] = p
      <4>1. pc' = [m \in Managers |->
               IF \E n \in NumbersOf(p, k) : table[n].by = m /\ ~table[n].installed
               THEN Then[k] ELSE pc[m]]
        BY <1>13, <3>1 DEF ClientOpens
      <4> QED BY <2>3, <4>1, OpenStates
    <3>2. CASE fifo[id[p]] # p
      BY <1>13, <2>3, <3>2 DEF ClientOpens
    <3> QED BY <3>1, <3>2
  <2>5. table' \in [Numbers -> Descriptor \cup {Free}]
    <3>1. CASE fifo[id[p]] = p
      <4>1. table' = [n \in Numbers |-> IF n \in NumbersOf(p, k)
                                         THEN [table[n] EXCEPT !.installed = TRUE]
                                         ELSE table[n]]
        BY <1>13, <3>1 DEF ClientOpens
      <4>2. \A n \in NumbersOf(p, k) : table[n] \in Descriptor
        BY <2>3 DEF NumbersOf
      <4>3. \A d \in Descriptor : [d EXCEPT !.installed = TRUE] \in Descriptor
        BY DEF Descriptor
      <4> QED BY <2>3, <4>1, <4>2, <4>3
    <3>2. CASE fifo[id[p]] # p
      BY <1>13, <2>3, <3>2 DEF ClientOpens
    <3> QED BY <3>1, <3>2
  <2> QED BY <1>1, <2>1, <2>2, <2>4, <2>5 DEF ClientTypes, ManagerTypes, storeVars
<1> QED BY <1>5, <1>6, <1>7, <1>8, <1>9, <1>11, <1>12, <1>13 DEF Connect, Converse

\* So do the steps of a manager.
LEMMA ManagerKeepsTypes ==
  ASSUME DescriptorInv, NEW m \in Managers, Manager(m)
  PROVE  TypeOK'
<1> USE DEF TypeOK, storeVars
<1>1. ClientTypes /\ ManagerTypes
  BY DEF DescriptorInv
<1>2. /\ {"resp", "req", "serve", "opcode", "key", "keyRead", "answer", "farewell", "closeReq",
          "closeResp", "closeNotif", "unlink", "take"} \subseteq ManagerStates
      /\ Then["greet"] \in ManagerStates
  BY DEF ManagerStates, Then
<1>3. ASSUME NEW s \in ManagerStates, NEW from, Goto(m, from, s)
      PROVE  pc' \in [Managers -> ManagerStates]
  BY <1>1, <1>3 DEF Goto, ManagerTypes
<1>4. CASE ManagerTake(m)
  <2>1. Head(queue) \in Ids \cup {Nobody} /\ Tail(queue) \in Seq(Ids \cup {Nobody})
    BY <1>1, <1>4, HeadTailProperties DEF ManagerTake, ClientTypes
  <2>2. pc' \in [Managers -> ManagerStates]
    BY <1>2, <1>3, <1>4 DEF ManagerTake
  <2> QED BY <1>1, <1>4, <2>1, <2>2 DEF ManagerTake, clientVars, ClientTypes, ManagerTypes
<1>5. ASSUME NEW k \in Kinds, ManagerOpens(m, k) PROVE TypeOK'
  <2>1. k \in {"resp", "req", "notif"} /\ pc[m] = k
    BY <1>5 DEF Kinds, ManagerOpens
  <2>2. LowestFree \in Numbers
    BY <2>1, NumberFree DEF DescriptorInv
  <2>3. CASE Named(m) = Nobody
    BY <1>1, <1>5, <2>3 DEF ManagerOpens, Exit, ClientTypes, ManagerTypes
  <2>4. CASE Named(m) # Nobody
    <3> DEFINE p == Named(m)
    <3>1. p \in Clients
      BY <1>1, <2>4, NamesFifo DEF ClientTypes
    <3>2. [client |-> p, kind |-> k, by |-> m, installed |-> k \in ends[p]] \in Descriptor
      BY <3>1 DEF Descriptor
    <3>3. /\ Goto(m, k, IF k \in ends[p] THEN Then[k] ELSE WaitFor[k])
          /\ f' = [f EXCEPT ![m][k] = LowestFree]
          /\ table' = [table EXCEPT ![LowestFree] =
               [client |-> p, kind |-> k, by |-> m, installed |-> k \in ends[p]]]
          /\ cpc' = [cpc EXCEPT ![p] = IF @ = WaitFor[k] THEN ClientThen[k] ELSE @]
          /\ UNCHANGED <<up, reading, id, fifo, queue, ends, requests, deaths, req, resp, msg,
                         storeVars>>
      BY <1>5, <2>4 DEF ManagerOpens
    <3> HIDE DEF p
    <3>4. f' \in [Managers -> [Kinds -> Numbers \cup {0}]]
      BY <1>1, <2>2, <3>3 DEF ManagerTypes
    <3>5. table' \in [Numbers -> Descriptor \cup {Free}]
      BY <1>1, <2>2, <3>2, <3>3 DEF ManagerTypes
    <3>6. pc' \in [Managers -> ManagerStates]
      BY <1>3, <3>3, OpenStates
    <3>7. cpc' \in [Clients -> ClientStates]
      BY <1>1, <3>1, <3>3, OpenStates DEF ClientTypes
    <3> QED BY <1>1, <3>3, <3>4, <3>5, <3>6, <3>7 DEF ClientTypes, ManagerTypes
  <2> QED BY <2>3, <2>4
<1>6. CASE ManagerGreets(m) \/ ManagerAnswers(m)
  <2>1. resp' \in [Clients -> Nat] /\ pc' \in [Managers -> ManagerStates]
    BY <1>1, <1>2, <1>3, <1>6, ResponseTypes DEF ManagerGreets, ManagerAnswers
  <2>2. leaked' \in Managers \cup {Nobody} /\ UNCHANGED signals
    BY <1>1, <1>6 DEF ManagerGreets, ManagerAnswers, StoreRequest, ManagerTypes
  <2> QED BY <1>1, <1>6, <2>1, <2>2
          DEF ManagerGreets, ManagerAnswers, clientVars, ClientTypes, ManagerTypes
<1>7. ASSUME NEW from, NEW to \in ManagerStates, NEW onError \in ManagerStates,
             ManagerReads(m, from, to, onError)
      PROVE  TypeOK'
  <2>1. reading' \in [Managers -> Clients \cup {Nobody}]
    <3>1. Installed(f[m]["req"]) => table[f[m]["req"]].client \in Clients
      BY <1>1, InUse DEF Installed
    <3> QED BY <1>1, <1>7, <3>1 DEF ManagerReads, ManagerTypes
  <2>2. pc' \in [Managers -> ManagerStates]
    BY <1>3, <1>7 DEF ManagerReads
  <2> QED BY <1>1, <1>7, <2>1, <2>2 DEF ManagerReads, clientVars, ClientTypes, ManagerTypes
<1>8. CASE ManagerGetsOpcode(m) \/ ManagerGetsKey(m)
  <2>1. reading[m] \in Clients /\ req \in [Clients -> Seq(Bytes)]
    BY <1>1, <1>8 DEF ManagerGetsOpcode, ManagerGetsKey, AtWork, DescriptorInv, ClientTypes
  <2>2. <<>> \in Seq(Bytes) /\ (req[reading[m]] # <<>> => Tail(req[reading[m]]) \in Seq(Bytes))
    BY <2>1, HeadTailProperties, EmptySeq
  <2>3. \/ req' = req
        \/ req' = [req EXCEPT ![reading[m]] = Tail(req[reading[m]])] /\ req[reading[m]] # <<>>
        \/ req' = [req EXCEPT ![reading[m]] = <<>>]
    BY <1>8 DEF ManagerGetsOpcode, ManagerGetsKey
  <2>4. req' \in [Clients -> Seq(Bytes)]
    BY <2>1, <2>2, <2>3
  <2>5. /\ \E from, to : to \in ManagerStates /\ ReadReturns(m, from, to)
        /\ UNCHANGED <<queue, signals>>
    BY <1>2, <1>8 DEF ManagerGetsOpcode, ManagerGetsKey
  <2>6. pc' \in [Managers -> ManagerStates]
    BY <1>3, <2>5 DEF ReadReturns
  <2> QED BY <1>1, <2>4, <2>5, <2>6 DEF ReadReturns, clientVars, ClientTypes, ManagerTypes
<1>9. ASSUME NEW n PROVE Closed(n) \in [Numbers -> Descriptor \cup {Free}]
  BY <1>1 DEF Closed, Installed, ManagerTypes
<1>10. CASE ManagerFarewell(m)
  <2>1. resp' \in [Clients -> Nat] /\ pc' \in [Managers -> ManagerStates]
    BY <1>1, <1>2, <1>3, <1>10, ResponseTypes DEF ManagerFarewell
  <2>2. table' \in [Numbers -> Descriptor \cup {Free}]
    BY <1>9, <1>10 DEF ManagerFarewell
  <2>3. leaked' \in Managers \cup {Nobody} /\ UNCHANGED signals
    BY <1>10 DEF ManagerFarewell, StoreRequest
  <2> QED BY <1>1, <1>10, <2>1, <2>2, <2>3 DEF ManagerFarewell, clientVars, ClientTypes, ManagerTypes
<1>11. ASSUME NEW k, NEW from, NEW to \in ManagerStates, ManagerCloses(m, k, from, to)
       PROVE  TypeOK'
  <2>1. table' \in [Numbers -> Descriptor \cup {Free}] /\ pc' \in [Managers -> ManagerStates]
    BY <1>3, <1>9, <1>11 DEF ManagerCloses
  <2> QED BY <1>1, <1>11, <2>1 DEF ManagerCloses, clientVars, ClientTypes, ManagerTypes
<1>12. CASE ManagerUnlinks(m)
  <2>1. pc' \in [Managers -> ManagerStates]
    BY <1>2, <1>3, <1>12 DEF ManagerUnlinks
  <2>2. f' \in [Managers -> [Kinds -> Numbers \cup {0}]]
    BY <1>1, <1>12 DEF ManagerUnlinks, ManagerTypes
  <2>3. fifo' \in [Ids -> Clients \cup {Nobody}] /\ msg' \in [Managers -> Ids \cup {Nobody}]
    BY <1>1, <1>12 DEF ManagerUnlinks, ManagerTypes, ClientTypes
  <2> QED BY <1>1, <1>12, <2>1, <2>2, <2>3 DEF ManagerUnlinks, clientVars, ClientTypes, ManagerTypes
<1> QED BY <1>2, <1>4, <1>5, <1>6, <1>7, <1>8, <1>10, <1>11, <1>12 DEF Manager, Handshake, Attend

\* A number that keeps its entry keeps its owner, if the manager that opened it
\* is not yet where it has closed it.
LEMMA StaysOwned ==
  ASSUME TypeOK, Owned, NEW n \in Numbers, table[n] # Free, table'[n] = table[n], id' = id,
         LET m == table[n].by  k == table[n].kind IN
           /\ f'[m][k] = f[m][k] /\ msg'[m] = msg[m]
           /\ pc'[m] # pc[m] => pc'[m] \notin Before[k] \cup After[k] /\ pc[m] # WaitFor[k]
  PROVE  LET m == table'[n].by  k == table'[n].kind IN
           /\ f'[m][k] = n
           /\ pc'[m] \notin Before[k] \cup After[k]
           /\ table'[n].installed \/ pc'[m] = WaitFor[k]
           /\ msg'[m] = id'[table'[n].client]
<1> QED BY DEF Owned

\* open() of a client installs the numbers that wait for it, and their managers
\* go on.
LEMMA ClientOpensOwned ==
  ASSUME DescriptorInv, NEW p \in Clients, NEW j \in Kinds, ClientOpens(p, j)
  PROVE  Owned'
<1>1. TypeOK /\ Owned /\ UNCHANGED <<id, f, msg>>
  BY DEF DescriptorInv, ClientOpens
<1>2. CASE fifo[id[p]] # p
  <2>1. UNCHANGED <<table, pc>>
    BY <1>2 DEF ClientOpens
  <2> QED BY <1>1, <2>1 DEF Owned
<1>3. CASE fifo[id[p]] = p
  <2>1. /\ table' = [n \in Numbers |-> IF n \in NumbersOf(p, j)
                                       THEN [table[n] EXCEPT !.installed = TRUE]
                                       ELSE table[n]]
        /\ pc' = [m \in Managers |->
             IF \E n \in NumbersOf(p, j) : table[n].by = m /\ ~table[n].installed
             THEN Then[j] ELSE pc[m]]
    BY <1>3 DEF ClientOpens
  <2> SUFFICES ASSUME NEW n \in Numbers, table'[n] # Free
               PROVE  LET m == table'[n].by  k == table'[n].kind IN
                        /\ f'[m][k] = n
                        /\ pc'[m] \notin Before[k] \cup After[k]
                        /\ table'[n].installed \/ pc'[m] = WaitFor[k]
                        /\ msg'[m] = id'[table'[n].client]
    BY DEF Owned
  <2> DEFINE m == table[n].by
             k == table[n].kind
  <2>2. table[n] # Free
    BY <2>1 DEF NumbersOf
  <2>3. m \in Managers /\ k \in Kinds /\ table[n] \in Descriptor
    BY <1>1, <2>2, InUse
  <2>4. /\ table'[n].by = m /\ table'[n].kind = k /\ table'[n].client = table[n].client
        /\ table'[n].installed = IF n \in NumbersOf(p, j) THEN TRUE ELSE table[n].installed
    BY <2>1, <2>3 DEF Descriptor
  <2>5. /\ f[m][k] = n /\ pc[m] \notin Before[k] \cup After[k]
        /\ table[n].installed \/ pc[m] = WaitFor[k]
        /\ msg[m] = id[table[n].client]
    BY <1>1, <2>2 DEF Owned
  <2>6. pc'[m] = pc[m] \/ (pc'[m] = Then[j] /\ pc[m] = WaitFor[j]
                             /\ (k = j => n \in NumbersOf(p, j)))
    <3>1. CASE \E x \in NumbersOf(p, j) : table[x].by = m /\ ~table[x].installed
      <4>1. PICK x \in NumbersOf(p, j) : table[x].by = m /\ ~table[x].installed
        BY <3>1
      <4>2. x \in Numbers /\ table[x] # Free /\ table[x].kind = j
        BY <4>1 DEF NumbersOf
      <4>3. pc[m] = WaitFor[j] /\ f[m][j] = x
        BY <1>1, <4>1, <4>2 DEF Owned
      <4>4. pc'[m] = Then[j]
        BY <2>1, <2>3, <3>1
      <4> QED BY <2>5, <4>1, <4>3, <4>4
    <3>2. CASE ~\E x \in NumbersOf(p, j) : table[x].by = m /\ ~table[x].installed
      BY <2>1, <2>3, <3>2
    <3> QED BY <3>1, <3>2
  <2> HIDE DEF m, k
  <2>7. pc'[m] \notin Before[k] \cup After[k]
    BY <2>3, <2>5, <2>6, StepOrder
  <2>8. table'[n].installed \/ pc'[m] = WaitFor[k]
    <3>1. CASE pc'[m] = pc[m]
      BY <2>4, <2>5, <3>1
    <3>2. CASE pc'[m] # pc[m]
      <4>1. pc[m] = WaitFor[j] /\ (k = j => n \in NumbersOf(p, j))
        BY <2>6, <3>2
      <4>2. pc[m] = WaitFor[k] => k = j
        BY <2>3, <4>1, StepOrder
      <4> QED BY <2>4, <2>5, <4>1, <4>2
    <3> QED BY <3>1, <3>2
  <2> QED BY <1>1, <2>4, <2>5, <2>7, <2>8
<1> QED BY <1>2, <1>3

\* A manager's open() gives it a number of its own.
LEMMA ManagerOpensOwned ==
  ASSUME DescriptorInv, NEW m \in Managers, NEW k \in Kinds, ManagerOpens(m, k)
  PROVE  Owned'
<1>1. TypeOK /\ Owned /\ AtWork /\ PathsNamed /\ pc[m] = k /\ UNCHANGED <<id, msg>>
  BY DEF DescriptorInv, ManagerOpens
<1>2. CASE Named(m) = Nobody
  BY <1>2 DEF ManagerOpens, Exit, Owned
<1>3. CASE Named(m) # Nobody
  <2> DEFINE p == Named(m)
             l == LowestFree
  <2>1. l \in Numbers /\ table[l] = Free
    BY <1>1, NumberFree
  <2>2. /\ pc' = [pc EXCEPT ![m] = IF k \in ends[p] THEN Then[k] ELSE WaitFor[k]]
        /\ f' = [f EXCEPT ![m][k] = l]
        /\ table' = [table EXCEPT ![l] =
             [client |-> p, kind |-> k, by |-> m, installed |-> k \in ends[p]]]
    BY <1>3 DEF ManagerOpens, Goto
  <2> HIDE DEF l
  <2>3. pc \in [Managers -> ManagerStates] /\ f \in [Managers -> [Kinds -> Numbers \cup {0}]]
        /\ table \in [Numbers -> Descriptor \cup {Free}]
    BY <1>1 DEF TypeOK, ManagerTypes
  <2>4. pc'[m] \in {Then[k], WaitFor[k]} /\ (pc'[m] = WaitFor[k] \/ k \in ends[p])
    BY <2>2, <2>3
  <2> SUFFICES ASSUME NEW n \in Numbers, table'[n] # Free
               PROVE  LET o == table'[n].by  j == table'[n].kind IN
                        /\ f'[o][j] = n
                        /\ pc'[o] \notin Before[j] \cup After[j]
                        /\ table'[n].installed \/ pc'[o] = WaitFor[j]
                        /\ msg'[o] = id'[table'[n].client]
    BY DEF Owned
  <2>5. CASE n = l
    <3>1. /\ table'[n].client = p /\ table'[n].kind = k /\ table'[n].by = m
          /\ table'[n].installed = (k \in ends[p])
      BY <2>1, <2>2, <2>3, <2>5
    <3>2. f'[m][k] = n
      BY <2>2, <2>3, <2>5
    <3>3. pc'[m] \notin Before[k] \cup After[k]
      BY <2>4, StepOrder
    <3>4. msg[m] = id[p]
      <4>1. msg[m] \in Ids /\ p = fifo[msg[m]]
        BY <1>1, <1>3, NamesFifo
      <4> QED BY <1>1, <1>3, <4>1 DEF PathsNamed
    <3> QED BY <1>1, <2>4, <3>1, <3>2, <3>3, <3>4
  <2>6. CASE n # l
    <3>1. table'[n] = table[n] /\ table[n] # Free
      BY <2>2, <2>3, <2>6
    <3>2. table[n].by \in Managers /\ table[n].kind \in Kinds
      BY <1>1, <3>1, InUse
    <3>3. pc[table[n].by] \notin Before[table[n].kind] \cup After[table[n].kind]
      BY <1>1, <3>1 DEF Owned
    <3>4. CASE table[n].by # m
      BY <1>1, <2>2, <2>3, <3>1, <3>2, <3>4, StaysOwned
    <3>5. CASE table[n].by = m
      <4>1. k # table[n].kind
        BY <1>1, <3>3, <3>5, StepOrder
      <4>2. f'[m][table[n].kind] = f[m][table[n].kind]
        BY <2>2, <2>3, <3>2, <4>1
      <4>3. pc'[m] \notin Before[table[n].kind] \cup After[table[n].kind]
        BY <1>1, <2>4, <3>2, <3>3, <3>5, StepOrder
      <4>4. pc[m] # WaitFor[table[n].kind]
        BY <1>1, <3>2, StepOrder
      <4> QED BY <1>1, <3>1, <3>5, <4>2, <4>3, <4>4, StaysOwned
    <3> QED BY <3>4, <3>5
  <2> QED BY <2>5, <2>6
<1> QED BY <1>2, <1>3

\* The other steps of a manager: numbers stay with it until it closes them.
LEMMA ManagerOwned ==
  ASSUME DescriptorInv, NEW m \in Managers, Manager(m), \A k \in Kinds : ~ManagerOpens(m, k)
  PROVE  Owned'
<1>1. /\ TypeOK /\ Owned /\ AtWork
      /\ pc \in [Managers -> ManagerStates] /\ f \in [Managers -> [Kinds -> Numbers \cup {0}]]
      /\ table \in [Numbers -> Descriptor \cup {Free}]
      /\ msg \in [Managers -> Ids \cup {Nobody}]
  BY DEF DescriptorInv, TypeOK, ManagerTypes
<1>2. \A k \in Kinds : k \in {"resp", "req", "notif"}
  BY DEF Kinds
<1>3. ASSUME NEW to, pc' = [pc EXCEPT ![m] = to], id' = id,
             \A o \in Managers \ {m} : f'[o] = f[o] /\ msg'[o] = msg[o],
             \A n \in Numbers : table'[n] = table[n] \/ table'[n] = Free,
             \A n \in Numbers : table'[n] # Free /\ table[n].by = m =>
               LET k == table[n].kind IN
                 /\ f'[m][k] = f[m][k] /\ msg'[m] = msg[m]
                 /\ to \notin Before[k] \cup After[k] /\ pc[m] # WaitFor[k]
      PROVE  Owned'
  <2> SUFFICES ASSUME NEW n \in Numbers, table'[n] # Free
               PROVE  LET o == table'[n].by  j == table'[n].kind IN
                        /\ f'[o][j] = n
                        /\ pc'[o] \notin Before[j] \cup After[j]
                        /\ table'[n].installed \/ pc'[o] = WaitFor[j]
                        /\ msg'[o] = id'[table'[n].client]
    BY DEF Owned
  <2>1. table'[n] = table[n] /\ table[n] # Free
    BY <1>3
  <2>2. table[n].by \in Managers /\ table[n].kind \in Kinds
    BY <1>1, <2>1, InUse
  <2>3. CASE table[n].by # m
    BY <1>1, <1>3, <2>1, <2>2, <2>3, StaysOwned
  <2>4. CASE table[n].by = m
    <3>1. pc'[m] = to
      BY <1>1, <1>3
    <3> QED BY <1>1, <1>3, <2>1, <2>2, <2>4, <3>1, StaysOwned
  <2> QED BY <2>3, <2>4
<1>4. ASSUME NEW n \in Numbers, table[n] # Free, table[n].by = m
      PROVE  LET k == table[n].kind IN
               /\ pc[m] \notin Before[k] \cup After[k] /\ k \in {"resp", "req", "notif"}
               /\ f[m][k] = n /\ (pc[m] # WaitFor[k] => table[n].installed)
  BY <1>1, <1>2, <1>4, InUse DEF Owned
<1>5. CASE ManagerTake(m)
  <2>1. pc[m] = "take" /\ pc' = [pc EXCEPT ![m] = "resp"] /\ UNCHANGED <<id, f, table>>
        /\ msg' = [msg EXCEPT ![m] = Head(queue)]
    BY <1>5 DEF ManagerTake, Goto, clientVars
  <2>2. \A n \in Numbers : ~(table[n] # Free /\ table[n].by = m)
    BY <1>4, <2>1 DEF Before
  <2> QED BY <1>1, <1>3, <2>1, <2>2
<1>6. ASSUME NEW from, NEW to, Goto(m, from, to), UNCHANGED <<id, f, msg, table>>,
             \A k \in {"resp", "req", "notif"} :
               from \notin Before[k] \cup After[k] =>
                 to \notin Before[k] \cup After[k] /\ from # WaitFor[k]
      PROVE  Owned'
  <2>1. ASSUME NEW n \in Numbers, table'[n] # Free, table[n].by = m
        PROVE  to \notin Before[table[n].kind] \cup After[table[n].kind]
               /\ pc[m] # WaitFor[table[n].kind]
    <3>1. table[n] # Free /\ pc[m] = from
      BY <1>6, <2>1 DEF Goto
    <3>2. from \notin Before[table[n].kind] \cup After[table[n].kind]
          /\ table[n].kind \in {"resp", "req", "notif"}
      BY <1>4, <2>1, <3>1
    <3> QED BY <1>6, <3>1, <3>2
  <2>2. pc' = [pc EXCEPT ![m] = to] /\ UNCHANGED <<id, f, msg, table>>
    BY <1>6 DEF Goto
  <2> QED BY <1>3, <2>1, <2>2
<1>7. CASE ManagerGreets(m) \/ ManagerAnswers(m)
  <2>1. Then["greet"] = "req"
    BY DEF Then
  <2>2. \E from, to : /\ <<from, to>> \in {<<"greet", "req">>, <<"answer", "serve">>}
                      /\ Goto(m, from, to) /\ UNCHANGED <<id, f, msg, table>>
    BY <1>7, <2>1 DEF ManagerGreets, ManagerAnswers, clientVars
  <2> QED BY <1>6, <2>2 DEF Before, After, WaitFor
<1>8. CASE \/ ManagerReads(m, "serve", "opcode", "farewell") \/ ManagerGetsOpcode(m)
           \/ ManagerReads(m, "key", "keyRead", "serve") \/ ManagerGetsKey(m)
  <2>1. \E from, to : /\ {from, to} \subseteq {"serve", "opcode", "farewell", "key", "keyRead", "answer"}
                      /\ Goto(m, from, to) /\ UNCHANGED <<id, f, msg, table>>
    BY <1>8 DEF ManagerReads, ManagerGetsOpcode, ManagerGetsKey, ReadReturns, clientVars
  <2> QED BY <1>6, <2>1 DEF Before, After, WaitFor
<1>9. ASSUME NEW j \in Kinds, NEW from, NEW to, Goto(m, from, to), table' = Closed(f[m][j]),
             UNCHANGED <<id, f, msg>>,
             \A k \in {"resp", "req", "notif"} :
               /\ from # WaitFor[k]
               /\ k # j /\ from \notin Before[k] \cup After[k] => to \notin Before[k] \cup After[k]
      PROVE  Owned'
  <2>1. \A n \in Numbers : table'[n] = table[n] \/ table'[n] = Free
    BY <1>1, <1>9 DEF Closed
  <2>2. ASSUME NEW n \in Numbers, table'[n] # Free, table[n].by = m
        PROVE  table[n].kind # j
    <3>1. table[n] # Free /\ pc[m] = from
      BY <1>9, <2>1, <2>2 DEF Goto
    <3>2. f[m][table[n].kind] = n /\ table[n].installed
      BY <1>4, <1>9, <2>2, <3>1
    <3>3. f[m][j] = n => table'[n] = Free
      BY <1>1, <1>9, <3>1, <3>2 DEF Closed, Installed
    <3> QED BY <2>2, <3>2, <3>3
  <2>3. ASSUME NEW n \in Numbers, table'[n] # Free, table[n].by = m
        PROVE  to \notin Before[table[n].kind] \cup After[table[n].kind]
               /\ pc[m] # WaitFor[table[n].kind]
    <3>1. table[n] # Free /\ pc[m] = from /\ table[n].kind # j
      BY <1>9, <2>1, <2>2, <2>3 DEF Goto
    <3>2. from \notin Before[table[n].kind] \cup After[table[n].kind]
          /\ table[n].kind \in {"resp", "req", "notif"}
      BY <1>4, <2>3, <3>1
    <3> QED BY <1>9, <3>1, <3>2
  <2>4. pc' = [pc EXCEPT ![m] = to] /\ UNCHANGED <<id, f, msg>>
    BY <1>9 DEF Goto
  <2> QED BY <1>3, <2>1, <2>3, <2>4
<1>10. CASE ManagerFarewell(m)
  <2>1. Goto(m, "farewell", "closeReq") /\ table' = Closed(f[m]["resp"]) /\ UNCHANGED <<id, f, msg>>
    BY <1>10 DEF ManagerFarewell, clientVars
  <2> QED BY <1>9, <2>1 DEF Before, After, WaitFor, Kinds
<1>11. CASE ManagerCloses(m, "req", "closeReq", "closeResp")
  <2>1. Goto(m, "closeReq", "closeResp") /\ table' = Closed(f[m]["req"]) /\ UNCHANGED <<id, f, msg>>
    BY <1>11 DEF ManagerCloses, clientVars
  <2> QED BY <1>9, <2>1 DEF Before, After, WaitFor, Kinds
<1>12. CASE ManagerCloses(m, "resp", "closeResp", "closeNotif")
  <2>1. Goto(m, "closeResp", "closeNotif") /\ table' = Closed(f[m]["resp"]) /\ UNCHANGED <<id, f, msg>>
    BY <1>12 DEF ManagerCloses, clientVars
  <2> QED BY <1>9, <2>1 DEF Before, After, WaitFor, Kinds
<1>13. CASE ManagerCloses(m, "notif", "closeNotif", "unlink")
  <2>1. Goto(m, "closeNotif", "unlink") /\ table' = Closed(f[m]["notif"]) /\ UNCHANGED <<id, f, msg>>
    BY <1>13 DEF ManagerCloses, clientVars
  <2> QED BY <1>9, <2>1 DEF Before, After, WaitFor, Kinds
<1>14. CASE ManagerUnlinks(m)
  <2>1. pc[m] = "unlink" /\ pc' = [pc EXCEPT ![m] = "take"] /\ UNCHANGED <<id, table>>
        /\ f' = [f EXCEPT ![m] = [k \in Kinds |-> 0]] /\ msg' = [msg EXCEPT ![m] = Nobody]
    BY <1>14 DEF ManagerUnlinks, Goto, clientVars
  <2>2. \A n \in Numbers : ~(table[n] # Free /\ table[n].by = m)
    BY <1>4, <2>1 DEF After
  <2> QED BY <1>1, <1>3, <2>1, <2>2
<1> QED BY <1>5, <1>7, <1>8, <1>10, <1>11, <1>12, <1>13, <1>14 DEF Manager, Handshake, Attend

\* A client's open() lets only those managers go on that wait for it.
LEMMA ClientMoves ==
  ASSUME DescriptorInv, NEW p \in Clients, NEW j \in Kinds, ClientOpens(p, j), NEW m \in Managers
  PROVE  pc'[m] = pc[m] \/ (pc'[m] = Then[j] /\ pc[m] = WaitFor[j])
<1>1. CASE \E n \in NumbersOf(p, j) : table[n].by = m /\ ~table[n].installed
  <2>1. PICK n \in NumbersOf(p, j) : table[n].by = m /\ ~table[n].installed
    BY <1>1
  <2>2. pc[m] = WaitFor[j]
    BY <2>1 DEF NumbersOf, DescriptorInv, Owned
  <2> QED BY <1>1, <2>2 DEF ClientOpens
<1>2. CASE ~\E n \in NumbersOf(p, j) : table[n].by = m /\ ~table[n].installed
  BY <1>2 DEF ClientOpens
<1> QED BY <1>1, <1>2

\* What a step of manager m leaves alone, and where it leads.
LEMMA ManagerMoves ==
  ASSUME DescriptorInv, NEW m \in Managers, Manager(m)
  PROVE  /\ up /\ UNCHANGED <<id, requests, deaths, ends>>
         /\ \A o \in Managers \ {m} :
              pc'[o] = pc[o] /\ msg'[o] = msg[o] /\ (up' => reading'[o] = reading[o])
         /\ pc[m] = "take" => pc'[m] = "resp" /\ msg'[m] \in Ids \cup {Nobody}
         /\ pc[m] = "take" => queue # <<>> /\ msg'[m] = Head(queue)
         /\ pc[m] = "resp" /\ pc'[m] # "resp" => msg[m] \in Ids
         /\ pc'[m] = "resp" => pc[m] \in {"take", "resp"}
         /\ pc[m] # "take" /\ pc'[m] # "take" => msg'[m] = msg[m]
         /\ pc[m] # "take" /\ pc'[m] = "take" => pc[m] = "unlink" /\ msg'[m] = Nobody
         /\ pc'[m] \in {"opcode", "keyRead"} /\ up' => reading'[m] \in Clients
<1>1. /\ TypeOK /\ AtWork /\ pc \in [Managers -> ManagerStates]
      /\ msg \in [Managers -> Ids \cup {Nobody}]
      /\ table \in [Numbers -> Descriptor \cup {Free}]
      /\ reading \in [Managers -> Clients \cup {Nobody}]
  BY DEF DescriptorInv, TypeOK, ManagerTypes
<1>2. CASE ManagerTake(m)
  <2>1. Head(queue) \in Ids \cup {Nobody}
    BY <1>1, <1>2, HeadTailProperties DEF ManagerTake, TypeOK, ClientTypes
  <2> QED BY <1>1, <1>2, <2>1 DEF ManagerTake, Goto, clientVars
<1>3. ASSUME NEW k \in Kinds, ManagerOpens(m, k) PROVE pc[m] = k /\ up /\ UNCHANGED <<id, requests, deaths, ends, msg>>
        /\ \/ up' = FALSE /\ pc' = pc
           \/ reading' = reading /\ msg[m] \in Ids /\ (pc' = [pc EXCEPT ![m] = Then[k]] \/ pc' = [pc EXCEPT ![m] = WaitFor[k]])
  BY <1>1, <1>3, NamesFifo DEF ManagerOpens, Exit, Goto
<1>4. ASSUME NEW k \in Kinds
      PROVE  k # "take" /\ {WaitFor[k], Then[k]} \cap {"take", "resp", "opcode", "keyRead"} = {}
  <2>1. {WaitFor[k], Then[k]} \cap {"take", "opcode", "keyRead"} = {} /\ "resp" \in Kinds
    BY StepOrder DEF Kinds
  <2>2. "resp" # WaitFor[k] /\ Then[k] \notin Before[k]
    BY <2>1, StepOrder
  <2> QED BY <2>1, <2>2 DEF Kinds, Before
<1>5. CASE \E k \in Kinds : ManagerOpens(m, k)
  <2>1. PICK k \in Kinds : ManagerOpens(m, k)
    BY <1>5
  <2>2. pc'[m] # "take" /\ pc[m] # "take"
    BY <1>1, <1>3, <1>4, <2>1
  <2>3. pc'[m] \notin {"opcode", "keyRead"} \/ ~up'
    BY <1>1, <1>3, <1>4, <2>1
  <2>4. pc'[m] = "resp" => pc[m] = "resp"
    BY <1>1, <1>3, <1>4, <2>1
  <2> QED BY <1>1, <1>3, <2>1, <2>2, <2>3, <2>4
<1>6. CASE ManagerGreets(m) \/ ManagerAnswers(m)
  BY <1>1, <1>6 DEF ManagerGreets, ManagerAnswers, Goto, clientVars, Then
<1>7. CASE ManagerReads(m, "serve", "opcode", "farewell") \/ ManagerReads(m, "key", "keyRead", "serve")
  <2>1. Installed(f[m]["req"]) => table[f[m]["req"]].client \in Clients
    BY <1>1, InUse DEF Installed
  <2> QED BY <1>1, <1>7, <2>1 DEF ManagerReads, Goto, clientVars
<1>8. CASE ManagerGetsOpcode(m) \/ ManagerGetsKey(m)
  <2>1. \E from, to : /\ from \in {"opcode", "keyRead"} /\ to \in {"key", "farewell", "answer", "serve"}
                      /\ ReadReturns(m, from, to)
    BY <1>8 DEF ManagerGetsOpcode, ManagerGetsKey
  <2> QED BY <1>1, <2>1 DEF ReadReturns, Goto, clientVars
<1>9. CASE \/ ManagerFarewell(m)
           \/ ManagerCloses(m, "req", "closeReq", "closeResp")
           \/ ManagerCloses(m, "resp", "closeResp", "closeNotif")
           \/ ManagerCloses(m, "notif", "closeNotif", "unlink")
  BY <1>1, <1>9 DEF ManagerFarewell, ManagerCloses, Goto, clientVars
<1>10. CASE ManagerUnlinks(m)
  BY <1>1, <1>10 DEF ManagerUnlinks, Goto, clientVars
<1> QED BY <1>2, <1>5, <1>6, <1>7, <1>8, <1>9, <1>10 DEF Manager, Handshake, Attend

\* Where a client's step leaves the managers.
LEMMA ClientStepKeeps ==
  ASSUME DescriptorInv, NEW p \in Clients,
         \/ ClientStart(p) \/ Connect(p) \/ Converse(p)
         \/ ClientAsks(p) \/ ClientDisconnects(p) \/ ClientDies(p)
  PROVE  /\ UNCHANGED <<id, msg, f, up, reading>>
         /\ \A m \in Managers : pc'[m] = pc[m] \/ \E j \in Kinds : pc'[m] = Then[j] /\ pc[m] = WaitFor[j]
<1>1. CASE \E j \in Kinds : ClientOpens(p, j)
  <2>1. PICK j \in Kinds : ClientOpens(p, j)
    BY <1>1
  <2> QED BY <2>1, ClientMoves DEF ClientOpens
<1>2. CASE ~\E j \in Kinds : ClientOpens(p, j)
  <2>1. UNCHANGED <<id, managerVars, up>>
    BY <1>2 DEF ClientStart, Connect, ClientSend, Converse, ClientReads, ClientLeaves, ClientAsks,
       ClientDisconnects, ClientWrites, ClientDies
  <2> QED BY <2>1 DEF managerVars
<1> QED BY <1>1, <1>2

\* FIFOs are made at the path of the process's own name.
LEMMA NextPaths ==
  ASSUME DescriptorInv, [Next]_vars
  PROVE  PathsNamed'
<1>1. PathsNamed /\ fifo \in [Ids -> Clients \cup {Nobody}] /\ id \in [Clients -> Ids]
  BY DEF DescriptorInv, TypeOK, ClientTypes
<1>2. ASSUME NEW p \in Clients, ClientStart(p) PROVE PathsNamed'
  BY <1>1, <1>2 DEF ClientStart, PathsNamed
<1>3. ASSUME NEW i \in Ids, fifo' = [fifo EXCEPT ![i] = Nobody], id' = id PROVE PathsNamed'
  BY <1>1, <1>3 DEF PathsNamed
<1>4. ASSUME UNCHANGED <<fifo, id>> PROVE PathsNamed'
  BY <1>1, <1>4 DEF PathsNamed
<1>5. ASSUME NEW p \in Clients, \/ Connect(p) \/ Converse(p) \/ ClientAsks(p) \/ ClientDisconnects(p)
                                \/ ClientDies(p)
      PROVE  PathsNamed'
  <2>1. CASE ClientLeaves(p)
    BY <1>1, <1>3, <2>1 DEF ClientLeaves
  <2>2. CASE ~ClientLeaves(p)
    <3>1. UNCHANGED <<fifo, id>>
      BY <1>5, <2>2 DEF Connect, ClientSend, ClientOpens, Converse, ClientReads, ClientAsks,
         ClientDisconnects, ClientWrites, ClientDies
    <3> QED BY <1>4, <3>1
  <2> QED BY <2>1, <2>2
<1>6. ASSUME NEW m \in Managers, Manager(m) PROVE PathsNamed'
  <2>1. CASE ManagerUnlinks(m)
    <3>1. msg[m] \in Ids
      BY <2>1 DEF ManagerUnlinks, Goto, DescriptorInv, AtWork
    <3> QED BY <1>3, <2>1, <3>1 DEF ManagerUnlinks, clientVars
  <2>2. CASE ~ManagerUnlinks(m)
    <3>1. UNCHANGED <<fifo, id>>
      BY <1>6, <2>2 DEF Manager, ManagerTake, Handshake, ManagerOpens, ManagerGreets, ManagerAnswers, Attend,
         ManagerReads, ManagerGetsOpcode, ManagerGetsKey, ReadReturns, ManagerFarewell, ManagerCloses,
         clientVars
    <3> QED BY <1>4, <3>1
  <2> QED BY <2>1, <2>2
<1>7. CASE UNCHANGED vars
  BY <1>4, <1>7 DEF vars, clientVars
<1>8. CASE Signalled
  <2>1. UNCHANGED <<fifo, id>>
    BY <1>8 DEF Signalled, Signal, SignalInOpen, SignalInRead, ReadReturns, clientVars
  <2> QED BY <1>4, <2>1
<1> QED BY <1>2, <1>5, <1>6, <1>7, <1>8 DEF Next

\* So does a signal, on whatever thread its handler runs.
LEMMA SignalKeeps ==
  ASSUME DescriptorInv, Signalled
  PROVE  TypeOK' /\ Owned' /\ AtWork'
<1>1. /\ TypeOK /\ Owned /\ AtWork /\ ClientTypes /\ ManagerTypes
      /\ pc \in [Managers -> ManagerStates] /\ reading \in [Managers -> Clients \cup {Nobody}]
      /\ table \in [Numbers -> Descriptor \cup {Free}]
  BY DEF DescriptorInv, TypeOK, ManagerTypes
<1>2. queue' \in Seq(Ids \cup {Nobody}) /\ signals' \in 0 .. MaxSignals
  <2>1. HandlerSends
    BY DEF Signalled, Signal, SignalInOpen, SignalInRead
  <2>2. queue' \in Seq(Ids \cup {Nobody})
    BY <1>1, <2>1, AppendProperties DEF HandlerSends, ClientTypes
  <2>3. signals' \in 0 .. MaxSignals
    BY <1>1, <2>1, SessionsAssumption DEF HandlerSends, ManagerTypes
  <2> QED BY <2>2, <2>3
<1>3. CASE Signal
  <2>1. UNCHANGED <<fifo, clientVars, req, resp, up, managerVars, table, leaked>>
    BY <1>3 DEF Signal
  <2>2. TypeOK'
    BY <1>1, <1>2, <2>1 DEF TypeOK, ClientTypes, ManagerTypes, clientVars, managerVars
  <2> QED BY <1>1, <2>1, <2>2 DEF Owned, AtWork, clientVars, managerVars
<1>4. ASSUME NEW m \in Managers, SignalInOpen(m) PROVE TypeOK' /\ Owned' /\ AtWork'
  <2>1. /\ UNCHANGED <<id, fifo, cpc, ends, requests, deaths, req, resp, msg, leaked, pc, f>>
        /\ up' = FALSE /\ table' = [n \in Numbers |-> Free]
        /\ reading' = [o \in Managers |-> Nobody]
    BY <1>4 DEF SignalInOpen, Exit
  <2>2. TypeOK'
    BY <1>1, <1>2, <2>1 DEF TypeOK, ClientTypes, ManagerTypes
  <2> QED BY <1>1, <2>1, <2>2 DEF Owned, AtWork
<1>5. ASSUME NEW m \in Managers, SignalInRead(m) PROVE TypeOK' /\ Owned' /\ AtWork'
  <2>1. PICK from, to : /\ <<from, to>> \in {<<"opcode", "farewell">>, <<"keyRead", "serve">>}
                        /\ ReadReturns(m, from, to)
    BY <1>5 DEF SignalInRead
  <2>2. /\ pc[m] = from /\ pc' = [pc EXCEPT ![m] = to]
        /\ reading' = [reading EXCEPT ![m] = Nobody]
        /\ UNCHANGED <<id, fifo, cpc, ends, requests, deaths, req, resp, msg, leaked, up, f, table>>
    BY <1>5, <2>1 DEF SignalInRead, ReadReturns, Goto, clientVars
  <2>3. to \in ManagerStates
    BY <2>1 DEF ManagerStates
  <2>4. TypeOK'
    BY <1>1, <1>2, <2>2, <2>3 DEF TypeOK, ClientTypes, ManagerTypes
  <2>5. Owned'
    <3> SUFFICES ASSUME NEW n \in Numbers, table'[n] # Free
                 PROVE  LET o == table'[n].by  j == table'[n].kind IN
                          /\ f'[o][j] = n
                          /\ pc'[o] \notin Before[j] \cup After[j]
                          /\ table'[n].installed \/ pc'[o] = WaitFor[j]
                          /\ msg'[o] = id'[table'[n].client]
      BY DEF Owned
    <3>1. table'[n] = table[n] /\ table[n] # Free /\ table[n].by \in Managers
          /\ table[n].kind \in {"resp", "req", "notif"}
      BY <1>1, <2>2, InUse DEF Kinds
    <3>2. pc'[table[n].by] # pc[table[n].by] =>
            /\ pc'[table[n].by] \notin Before[table[n].kind] \cup After[table[n].kind]
            /\ pc[table[n].by] # WaitFor[table[n].kind]
      BY <1>1, <2>1, <2>2, <3>1 DEF Before, After, WaitFor
    <3> QED BY <1>1, <2>2, <3>1, <3>2, StaysOwned
  <2>6. AtWork'
    BY <1>1, <2>1, <2>2 DEF AtWork
  <2> QED BY <2>4, <2>5, <2>6
<1> QED BY <1>3, <1>4, <1>5 DEF Signalled

\* Every step preserves the invariant.
LEMMA NextDescriptors == DescriptorInv /\ [Next]_vars => DescriptorInv'
<1> SUFFICES ASSUME DescriptorInv, [Next]_vars PROVE DescriptorInv'
  OBVIOUS
<1>1. PathsNamed'
  BY NextPaths
<1>2. AtWork
  BY DEF DescriptorInv
<1>3. ASSUME NEW p \in Clients,
             \/ ClientStart(p) \/ Connect(p) \/ Converse(p)
             \/ ClientAsks(p) \/ ClientDisconnects(p) \/ ClientDies(p)
      PROVE  DescriptorInv'
  <2>1. TypeOK'
    BY <1>3, ClientKeepsTypes
  <2>2. /\ UNCHANGED <<id, msg, f, up, reading>>
        /\ \A m \in Managers : pc'[m] = pc[m] \/ \E j \in Kinds : pc'[m] = Then[j] /\ pc[m] = WaitFor[j]
    BY <1>3, ClientStepKeeps
  <2>3. AtWork'
    <3>1. ASSUME NEW m \in Managers
          PROVE  \/ pc'[m] = pc[m]
                 \/ {pc[m], pc'[m]} \cap {"take", "resp", "opcode", "keyRead"} = {}
      <4>1. CASE pc'[m] # pc[m]
        <5>1. PICK j \in Kinds : pc'[m] = Then[j] /\ pc[m] = WaitFor[j]
          BY <2>2, <4>1
        <5>2. "resp" \in Kinds /\ "resp" \in Before[j]
          BY DEF Kinds, Before
        <5> QED BY <5>1, <5>2, StepOrder
      <4> QED BY <4>1
    <3> QED BY <1>2, <2>2, <3>1 DEF AtWork
  <2>4. Owned'
    <3>1. CASE \E j \in Kinds : ClientOpens(p, j)
      BY <3>1, ClientOpensOwned
    <3>2. CASE ~\E j \in Kinds : ClientOpens(p, j)
      <4>1. UNCHANGED <<id, managerVars, table>>
        BY <1>3, <3>2 DEF ClientStart, Connect, ClientSend, Converse, ClientReads, ClientLeaves,
           ClientAsks, ClientDisconnects, ClientWrites, ClientDies
      <4> QED BY <4>1 DEF DescriptorInv, Owned, managerVars
    <3> QED BY <3>1, <3>2
  <2> QED BY <1>1, <2>1, <2>3, <2>4 DEF DescriptorInv
<1>4. ASSUME NEW m \in Managers, Manager(m) PROVE DescriptorInv'
  <2>1. TypeOK' /\ Owned'
    BY <1>4, ManagerKeepsTypes, ManagerOpensOwned, ManagerOwned
  <2>2. AtWork'
    BY <1>2, <1>4, ManagerMoves DEF AtWork
  <2> QED BY <1>1, <2>1, <2>2 DEF DescriptorInv
<1>5. CASE UNCHANGED vars
  BY <1>1, <1>5 DEF DescriptorInv, vars, clientVars, managerVars, storeVars, TypeOK, ClientTypes,
     ManagerTypes, Owned, AtWork
<1>6. CASE Signalled
  BY <1>1, <1>6, SignalKeeps DEF DescriptorInv
<1> QED BY <1>3, <1>4, <1>5, <1>6 DEF Next

\* Descriptors and threads fit together in every reachable state.
LEMMA Descriptors == Spec => []DescriptorInv
<1> QED BY InitDescriptors, NextDescriptors, PTL DEF Spec

\* The variables have their types; an open() never finds all numbers in use.
THEOREM SessionsTypes == Spec => []TypeOK
<1>1. DescriptorInv => TypeOK
  BY DEF DescriptorInv
<1> QED BY <1>1, Descriptors, PTL

\* manager_thread, write_to_resp_pipe: although f_resp is closed twice, and the
\* second time it may be another manager's number, a manager that goes back for
\* the next message has left no descriptor open.
THEOREM DescriptorsClosed == Spec => []NoDescriptorLeak
<1>1. DescriptorInv => NoDescriptorLeak
  <2> SUFFICES ASSUME DescriptorInv, NEW m \in Managers, pc[m] = "take",
                      NEW n \in Numbers, table[n] # Free
               PROVE  table[n].by # m
    BY DEF NoDescriptorLeak
  <2>1. table[n].kind \in Kinds /\ pc[table[n].by] \notin Before[table[n].kind]
    BY InUse DEF DescriptorInv, Owned
  <2> QED BY <2>1, StepOrder
<1> QED BY <1>1, Descriptors, PTL

-----------------------------------------------------------------------------
(* Names, messages and paths.                                              *)

\* Where a client is when it has not yet opened a FIFO, opens it, and has it.
LEMMA ClientOrder ==
  ASSUME NEW k \in Kinds, NEW j \in Kinds
  PROVE  /\ {j, WaitFor[j], ClientThen[j]} \cap {"off", "send", "done", "dead"} = {}
         /\ WaitFor[j] # ClientThen[j]
         /\ WaitFor[j] \in Passed[k] => j \in Passed[k]
         /\ ClientThen[j] \in Passed[k] /\ j # k => j \in Passed[k] /\ WaitFor[j] \in Passed[k]
         /\ {"off", "send", "resp", "dead"} \cap Passed[k] = {}
         /\ "greeting" \in Passed[k] \/ "req" \notin Passed[k]
         /\ {"connected", "answer", "bye", "done"} \subseteq Passed[k]
<1>1. k \in {"resp", "req", "notif"} /\ j \in {"resp", "req", "notif"}
  BY DEF Kinds
<1>2. /\ WaitFor["resp"] = "respWait" /\ WaitFor["req"] = "reqWait"
      /\ WaitFor["notif"] = "notifWait" /\ ClientThen["resp"] = "greeting"
      /\ ClientThen["req"] = "notif" /\ ClientThen["notif"] = "connected"
  BY DEF WaitFor, ClientThen
<1>3. CASE k = "resp"
  BY <1>1, <1>2, <1>3 DEF Passed
<1>4. CASE k = "req"
  BY <1>1, <1>2, <1>4 DEF Passed
<1>5. CASE k = "notif"
  BY <1>1, <1>2, <1>5 DEF Passed
<1> QED BY <1>1, <1>3, <1>4, <1>5

\* What a client's own step does to its place.
LEMMA ClientPlace ==
  ASSUME DescriptorInv, NEW p \in Clients,
         \/ ClientStart(p) \/ Connect(p) \/ Converse(p)
         \/ ClientAsks(p) \/ ClientDisconnects(p) \/ ClientDies(p)
  PROVE  /\ \A q \in Clients \ {p} : cpc'[q] = cpc[q]
         /\ cpc[p] # "done"
         /\ cpc[p] = "off" => ClientStart(p)
         /\ IF cpc[p] = "off" THEN cpc'[p] = "send" ELSE cpc'[p] \notin {"off", "send"}
         /\ \A k \in Kinds : cpc'[p] \in Passed[k] /\ cpc[p] \notin Passed[k] =>
              ClientOpens(p, k) /\ ServerEnd(p, k)
<1>1. cpc \in [Clients -> ClientStates]
  BY DEF DescriptorInv, TypeOK, ClientTypes
<1>2. CASE ClientStart(p)
  BY <1>1, <1>2, ClientOrder DEF ClientStart, ClientGoto
<1>3. CASE ClientDies(p)
  BY <1>1, <1>3, ClientOrder DEF ClientDies, Gone
<1>4. CASE ClientSend(p)
  BY <1>1, <1>4, ClientOrder DEF ClientSend, ClientGoto
<1>5. CASE ClientReads(p, "greeting", "req")
  BY <1>1, <1>5, ClientOrder DEF ClientReads, ClientGoto
<1>6. CASE ClientReads(p, "answer", "connected")
  BY <1>1, <1>6, ClientOrder DEF ClientReads, ClientGoto
<1>7. CASE ClientLeaves(p)
  BY <1>1, <1>7, ClientOrder DEF ClientLeaves, ClientGoto
<1>8. CASE ClientAsks(p) \/ ClientDisconnects(p)
  <2>1. \E to \in {"answer", "bye", "dead"} : ClientGoto(p, "connected", to)
    BY <1>8 DEF ClientAsks, ClientDisconnects, ClientWrites
  <2> QED BY <1>1, <2>1, ClientOrder DEF ClientGoto
<1>9. ASSUME NEW j \in Kinds, ClientOpens(p, j)
      PROVE  /\ \A q \in Clients \ {p} : cpc'[q] = cpc[q]
             /\ cpc[p] \notin {"off", "done"} /\ cpc'[p] \notin {"off", "send"}
             /\ \A k \in Kinds : cpc'[p] \in Passed[k] /\ cpc[p] \notin Passed[k] =>
                  k = j /\ ServerEnd(p, k)
  <2>1. \E to \in {ClientThen[j], WaitFor[j], "dead"} :
          ClientGoto(p, j, to) /\ (to = ClientThen[j] => ServerEnd(p, j))
    <3>1. WaitFor[j] # ClientThen[j] /\ "dead" # ClientThen[j]
      BY ClientOrder
    <3>2. CASE fifo[id[p]] = p /\ ServerEnd(p, j)
      BY <1>9, <3>2 DEF ClientOpens
    <3>3. CASE fifo[id[p]] = p /\ ~ServerEnd(p, j)
      BY <1>9, <3>1, <3>3 DEF ClientOpens
    <3>4. CASE fifo[id[p]] # p
      BY <1>9, <3>1, <3>4 DEF ClientOpens
    <3> QED BY <3>2, <3>3, <3>4
  <2>2. PICK to \in {ClientThen[j], WaitFor[j], "dead"} :
          ClientGoto(p, j, to) /\ (to = ClientThen[j] => ServerEnd(p, j))
    BY <2>1
  <2>3. cpc[p] = j /\ cpc'[p] = to /\ \A q \in Clients \ {p} : cpc'[q] = cpc[q]
    BY <1>1, <2>2 DEF ClientGoto
  <2>4. ASSUME NEW k \in Kinds, to \in Passed[k], j \notin Passed[k]
        PROVE  to = ClientThen[j] /\ k = j
    BY <2>4, ClientOrder
  <2>5. cpc[p] \notin {"off", "done"} /\ cpc'[p] \notin {"off", "send"}
    BY <2>3, ClientOrder
  <2> QED BY <2>2, <2>3, <2>4, <2>5
<1>10. CASE \E j \in Kinds : ClientOpens(p, j)
  BY <1>9, <1>10
<1> QED BY <1>2, <1>3, <1>4, <1>5, <1>6, <1>7, <1>8, <1>10 DEF Connect, Converse

\* What a manager's step does to the place of a client.
LEMMA ClientPlaceByManager ==
  ASSUME DescriptorInv, NEW m \in Managers, Manager(m), NEW p \in Clients
  PROVE  \/ cpc'[p] = cpc[p]
         \/ \E k \in Kinds : /\ ManagerOpens(m, k) /\ Named(m) = p
                             /\ cpc[p] = WaitFor[k] /\ cpc'[p] = ClientThen[k]
<1>1. cpc \in [Clients -> ClientStates]
  BY DEF DescriptorInv, TypeOK, ClientTypes
<1>2. CASE \E k \in Kinds : ManagerOpens(m, k)
  <2>1. PICK k \in Kinds : ManagerOpens(m, k)
    BY <1>2
  <2>2. CASE Named(m) = Nobody
    BY <2>1, <2>2 DEF ManagerOpens, Exit
  <2>3. CASE Named(m) # Nobody
    <3> DEFINE q == Named(m)
    <3>1. cpc' = [cpc EXCEPT ![q] = IF cpc[q] = WaitFor[k] THEN ClientThen[k] ELSE cpc[q]]
      BY <2>1, <2>3 DEF ManagerOpens
    <3> HIDE DEF q
    <3>2. cpc'[p] = cpc[p] \/ (q = p /\ cpc[p] = WaitFor[k] /\ cpc'[p] = ClientThen[k])
      BY <1>1, <3>1
    <3> QED BY <2>1, <3>2 DEF q
  <2> QED BY <2>2, <2>3
<1>3. CASE ~\E k \in Kinds : ManagerOpens(m, k)
  <2>1. UNCHANGED cpc
    BY <1>3 DEF Manager, ManagerTake, Handshake, ManagerGreets, ManagerAnswers, Attend, ManagerReads,
       ManagerGetsOpcode, ManagerGetsKey, ReadReturns, ManagerFarewell, ManagerCloses,
       ManagerUnlinks, clientVars
  <2> QED BY <2>1
<1> QED BY <1>2, <1>3

\* Clients go on: none goes back to where it has not started or sent its
\* message, and one that has left stays.
LEMMA ClientGoesOn ==
  ASSUME DescriptorInv, Step, NEW p \in Clients
  PROVE  /\ Started(p) => Started(p)'
         /\ Sent(p) => Sent(p)'
         /\ cpc[p] = "done" => cpc'[p] = "done"
         /\ ~Started(p) /\ Started(p)' => ClientStart(p)
         /\ \A k \in Kinds : cpc'[p] \in Passed[k] /\ cpc[p] \notin Passed[k] =>
              \/ ClientOpens(p, k) /\ ServerEnd(p, k)
              \/ \E m \in Managers : ManagerOpens(m, k) /\ Named(m) = p /\ cpc[p] = WaitFor[k]
<1> USE DEF Started, Sent
<1>1. ASSUME NEW q \in Clients,
             \/ ClientStart(q) \/ Connect(q) \/ Converse(q)
             \/ ClientAsks(q) \/ ClientDisconnects(q) \/ ClientDies(q)
      PROVE  /\ Started(p) => Started(p)'
             /\ Sent(p) => Sent(p)'
             /\ cpc[p] = "done" => cpc'[p] = "done"
             /\ ~Started(p) /\ Started(p)' => ClientStart(p)
             /\ \A k \in Kinds : cpc'[p] \in Passed[k] /\ cpc[p] \notin Passed[k] =>
                  ClientOpens(p, k) /\ ServerEnd(p, k)
  <2>1. CASE q = p
    BY <1>1, <2>1, ClientPlace
  <2>2. CASE q # p
    BY <1>1, <2>2, ClientPlace
  <2> QED BY <2>1, <2>2
<1>2. ASSUME NEW m \in Managers, Manager(m)
      PROVE  /\ Started(p) => Started(p)'
             /\ Sent(p) => Sent(p)'
             /\ cpc[p] = "done" => cpc'[p] = "done"
             /\ ~Started(p) => ~Started(p)'
             /\ \A k \in Kinds : cpc'[p] \in Passed[k] /\ cpc[p] \notin Passed[k] =>
                  ManagerOpens(m, k) /\ Named(m) = p /\ cpc[p] = WaitFor[k]
  <2>1. CASE cpc'[p] = cpc[p]
    BY <2>1
  <2>2. CASE cpc'[p] # cpc[p]
    <3>1. PICK j \in Kinds : /\ ManagerOpens(m, j) /\ Named(m) = p
                             /\ cpc[p] = WaitFor[j] /\ cpc'[p] = ClientThen[j]
      BY <1>2, <2>2, ClientPlaceByManager
    <3>2. {cpc[p], cpc'[p]} \cap {"off", "send", "done"} = {}
      BY <3>1, ClientOrder
    <3>3. ASSUME NEW k \in Kinds, cpc'[p] \in Passed[k], cpc[p] \notin Passed[k] PROVE k = j
      BY <3>1, <3>3, ClientOrder
    <3> QED BY <3>1, <3>2, <3>3
  <2> QED BY <2>1, <2>2
<1>3. CASE UNCHANGED vars
  BY <1>3 DEF vars, clientVars
<1> QED BY <1>1, <1>2, <1>3 DEF Step

\* Managers go on: with a message, none goes back to before an open().
LEMMA ManagersGoOn ==
  ASSUME DescriptorInv, Step, NEW m \in Managers, NEW k \in Kinds, pc[m] \notin Before[k]
  PROVE  pc'[m] \notin Before[k] \/ msg'[m] = Nobody
<1>1. pc \in [Managers -> ManagerStates] /\ msg \in [Managers -> Ids \cup {Nobody}]
  BY DEF DescriptorInv, TypeOK, ManagerTypes
<1>2. ASSUME NEW j \in Kinds, pc'[m] = Then[j], pc[m] = WaitFor[j] PROVE pc'[m] \notin Before[k]
  BY <1>2, StepOrder
<1>3. ASSUME NEW p \in Clients,
             \/ ClientStart(p) \/ Connect(p) \/ Converse(p)
             \/ ClientAsks(p) \/ ClientDisconnects(p) \/ ClientDies(p)
      PROVE  pc'[m] \notin Before[k]
  BY <1>2, <1>3, ClientStepKeeps
<1>4. ASSUME NEW o \in Managers, Manager(o), o # m PROVE pc'[m] \notin Before[k]
  BY <1>4, ManagerMoves
<1>5. CASE Manager(m)
  <2>1. k \in {"resp", "req", "notif"}
    BY DEF Kinds
  <2>2. CASE ManagerTake(m)
    BY <2>2, StepOrder DEF ManagerTake, Goto
  <2>3. CASE \E j \in Kinds : ManagerOpens(m, j)
    <3>1. PICK j \in Kinds : ManagerOpens(m, j)
      BY <2>3
    <3>2. pc[m] = j /\ (pc' = pc \/ pc' = [pc EXCEPT ![m] = Then[j]]
                                 \/ pc' = [pc EXCEPT ![m] = WaitFor[j]])
      BY <3>1 DEF ManagerOpens, Exit, Goto
    <3>3. WaitFor[j] \notin Before[k] /\ Then[j] \notin Before[k]
      BY <3>2, StepOrder
    <3> QED BY <1>1, <3>2, <3>3
  <2>4. CASE ManagerGreets(m)
    <3>1. pc[m] = "greet" /\ pc'[m] = "req"
      BY <1>1, <2>4 DEF ManagerGreets, Goto, Then
    <3> QED BY <2>1, <3>1 DEF Before
  <2>5. CASE ManagerUnlinks(m)
    BY <1>1, <2>5 DEF ManagerUnlinks
  <2>6. CASE Attend(m) /\ ~ManagerUnlinks(m)
    <3>1. pc'[m] \in {"opcode", "farewell", "key", "keyRead", "answer", "serve", "closeReq",
                      "closeResp", "closeNotif", "unlink"}
      BY <1>1, <2>6 DEF Attend, ManagerReads, ManagerGetsOpcode, ManagerGetsKey, ReadReturns,
         ManagerGreets, ManagerAnswers, ManagerFarewell, ManagerCloses, Goto
    <3> QED BY <2>1, <3>1 DEF Before
  <2> QED BY <1>5, <2>2, <2>3, <2>4, <2>5, <2>6 DEF Manager, Handshake
<1>6. CASE UNCHANGED vars
  BY <1>6 DEF vars, managerVars
<1> QED BY <1>3, <1>4, <1>5, <1>6 DEF Step

\* Messages move in three steps.
LEMMA MessageSteps ==
  ASSUME DescriptorInv, Step
  PROVE  /\ UNCHANGED id
         /\ \/ UNCHANGED <<queue, msg>>
            \/ \E p \in Clients : ClientSend(p)
            \/ \E m \in Managers : ManagerTake(m) \/ ManagerUnlinks(m)
<1>1. ASSUME NEW p \in Clients,
             \/ ClientStart(p) \/ Connect(p) \/ Converse(p)
             \/ ClientAsks(p) \/ ClientDisconnects(p) \/ ClientDies(p)
      PROVE  UNCHANGED id /\ (UNCHANGED <<queue, msg>> \/ ClientSend(p))
  <2>1. CASE \E j \in Kinds : ClientOpens(p, j)
    BY <2>1 DEF ClientOpens
  <2>2. CASE ~\E j \in Kinds : ClientOpens(p, j)
    BY <1>1, <2>2 DEF ClientStart, Connect, ClientSend, Converse, ClientReads, ClientLeaves,
       ClientAsks, ClientDisconnects, ClientWrites, ClientDies, managerVars
  <2> QED BY <2>1, <2>2
<1>2. ASSUME NEW m \in Managers, Manager(m)
      PROVE  UNCHANGED id /\ (UNCHANGED <<queue, msg>> \/ ManagerTake(m) \/ ManagerUnlinks(m))
  <2>1. UNCHANGED id
    BY <1>2, ManagerMoves
  <2>2. CASE ~ManagerTake(m) /\ ~ManagerUnlinks(m)
    <3>1. UNCHANGED <<queue, msg>>
      BY <1>2, <2>2 DEF Manager, Handshake, ManagerOpens, ManagerGreets, ManagerAnswers, Attend, ManagerReads,
         ManagerGetsOpcode, ManagerGetsKey, ReadReturns, ManagerFarewell, ManagerCloses
    <3> QED BY <2>1, <3>1
  <2> QED BY <2>1, <2>2
<1>3. CASE UNCHANGED vars
  BY <1>3 DEF vars, clientVars, managerVars
<1> QED BY <1>1, <1>2, <1>3 DEF Step

\* What is in the queue after a client has sent its message, and after a manager
\* has taken one.
LEMMA QueueSteps ==
  ASSUME DescriptorInv
  PROVE  /\ \A p \in Clients : ClientSend(p) =>
              /\ DOMAIN queue' = 1 .. Len(queue) + 1 /\ queue'[Len(queue) + 1] = id[p]
              /\ \A j \in DOMAIN queue : j < Len(queue) + 1 /\ queue'[j] = queue[j]
         /\ \A m \in Managers : ManagerTake(m) =>
              /\ 1 \in DOMAIN queue /\ msg'[m] = queue[1]
              /\ \A j \in DOMAIN queue' : j + 1 \in DOMAIN queue /\ queue'[j] = queue[j + 1] /\ j \in Nat \ {0}
<1>1. queue \in Seq(Ids \cup {Nobody}) /\ msg \in [Managers -> Ids \cup {Nobody}] /\ id \in [Clients -> Ids]
  BY DEF DescriptorInv, TypeOK, ManagerTypes, ClientTypes
<1>2. DOMAIN queue = 1 .. Len(queue) /\ Len(queue) \in Nat
  BY <1>1
<1>3. ASSUME NEW p \in Clients, ClientSend(p)
      PROVE  /\ DOMAIN queue' = 1 .. Len(queue) + 1 /\ queue'[Len(queue) + 1] = id[p]
             /\ \A j \in DOMAIN queue : j < Len(queue) + 1 /\ queue'[j] = queue[j]
  BY <1>1, <1>2, <1>3, AppendProperties DEF ClientSend
<1>4. ASSUME NEW m \in Managers, ManagerTake(m)
      PROVE  /\ 1 \in DOMAIN queue /\ msg'[m] = queue[1]
             /\ \A j \in DOMAIN queue' : j + 1 \in DOMAIN queue /\ queue'[j] = queue[j + 1] /\ j \in Nat \ {0}
  <2>1. queue # <<>> /\ queue' = Tail(queue) /\ msg' = [msg EXCEPT ![m] = Head(queue)]
    BY <1>4 DEF ManagerTake
  <2>2. Len(queue) > 0 /\ Head(queue) = queue[1]
    BY <1>1, <2>1
  <2>3. queue' \in Seq(Ids \cup {Nobody}) /\ Len(queue') = Len(queue) - 1
        /\ \A j \in 1 .. Len(queue') : queue'[j] = queue[j + 1]
    BY <1>1, <2>1, HeadTailProperties
  <2> QED BY <1>1, <1>2, <2>1, <2>2, <2>3
<1> QED BY <1>3, <1>4

\* Where a message of name i comes from that was not there.
LEMMA MessageCame ==
  ASSUME DescriptorInv, Step, NEW i \in Ids
  PROVE  /\ Queued(i)' => Queued(i) \/ \E p \in Clients : ClientSend(p) /\ id[p] = i
         /\ \A m \in Managers : msg'[m] = i /\ msg[m] # i => ManagerTake(m) /\ queue[1] = i /\ Queued(i)
<1>1. msg \in [Managers -> Ids \cup {Nobody}] /\ Nobody \notin Ids
  BY SessionsAssumption DEF DescriptorInv, TypeOK, ManagerTypes
<1>2. CASE UNCHANGED <<queue, msg>>
  BY <1>2 DEF Queued
<1>3. CASE \E p \in Clients : ClientSend(p)
  <2>1. PICK p \in Clients : ClientSend(p)
    BY <1>3
  <2>2. UNCHANGED msg /\ DOMAIN queue = 1 .. Len(queue) /\ Len(queue) \in Nat
    BY <2>1 DEF ClientSend, managerVars, DescriptorInv, TypeOK, ClientTypes
  <2> QED BY <2>1, <2>2, QueueSteps DEF Queued
<1>4. CASE \E m \in Managers : ManagerTake(m)
  <2>1. PICK m \in Managers : ManagerTake(m)
    BY <1>4
  <2>2. \A o \in Managers \ {m} : msg'[o] = msg[o]
    BY <1>1, <2>1 DEF ManagerTake
  <2> QED BY <2>1, <2>2, QueueSteps DEF Queued
<1>5. CASE \E m \in Managers : ManagerUnlinks(m)
  <2>1. PICK m \in Managers : ManagerUnlinks(m)
    BY <1>5
  <2>2. msg' = [msg EXCEPT ![m] = Nobody] /\ UNCHANGED queue
    BY <2>1 DEF ManagerUnlinks
  <2> QED BY <1>1, <2>2 DEF Queued
<1> QED BY <1>2, <1>3, <1>4, <1>5, MessageSteps

\* Where the FIFO at a path, the client of a number and that of a reader come from.
LEMMA ClientCame ==
  ASSUME DescriptorInv, Step
  PROVE  /\ \A i \in Ids : fifo'[i] # fifo[i] /\ fifo'[i] # Nobody =>
              ClientStart(fifo'[i]) /\ fifo'[i] \in Clients
         /\ \A n \in Numbers : table'[n] # Free /\ (table[n] # Free => table'[n].client # table[n].client) =>
              \E i \in Ids : fifo[i] # Nobody /\ table'[n].client = fifo[i]
         /\ \A m \in Managers : reading'[m] # reading[m] /\ reading'[m] # Nobody =>
              \E n \in Numbers : table[n] # Free /\ table[n].kind = "req" /\ table[n].client = reading'[m]
<1>1. /\ fifo \in [Ids -> Clients \cup {Nobody}] /\ id \in [Clients -> Ids] /\ TypeOK
      /\ table \in [Numbers -> Descriptor \cup {Free}]
      /\ reading \in [Managers -> Clients \cup {Nobody}]
      /\ AtWork
  BY DEF DescriptorInv, TypeOK, ManagerTypes, ClientTypes
<1>2. ASSUME NEW p \in Clients, ClientStart(p)
      PROVE  UNCHANGED <<table, reading>>
             /\ \A i \in Ids : fifo'[i] # fifo[i] => fifo'[i] = p
  BY <1>1, <1>2 DEF ClientStart, managerVars
<1>3. ASSUME NEW p \in Clients,
             Connect(p) \/ Converse(p) \/ ClientAsks(p) \/ ClientDisconnects(p) \/ ClientDies(p)
      PROVE  /\ UNCHANGED reading
             /\ \A n \in Numbers : table'[n] # Free => table[n] # Free /\ table'[n].client = table[n].client
             /\ \A i \in Ids : fifo'[i] # fifo[i] => fifo'[i] = Nobody
  <2>1. CASE \E j \in Kinds : ClientOpens(p, j)
    <3>1. PICK j \in Kinds : ClientOpens(p, j)
      BY <2>1
    <3>2. UNCHANGED <<reading, fifo>>
          /\ \/ table' = table
             \/ table' = [n \in Numbers |-> IF n \in NumbersOf(p, j)
                                            THEN [table[n] EXCEPT !.installed = TRUE]
                                            ELSE table[n]]
      BY <3>1 DEF ClientOpens
    <3>3. ASSUME NEW n \in Numbers, table'[n] # Free
          PROVE  table[n] # Free /\ table'[n].client = table[n].client
      <4>1. CASE n \in NumbersOf(p, j)
        <5>1. table[n] # Free /\ table[n] \in Descriptor
          BY <1>1, <4>1 DEF NumbersOf
        <5> QED BY <3>2, <5>1 DEF Descriptor
      <4>2. CASE n \notin NumbersOf(p, j)
        BY <3>2, <3>3, <4>2
      <4> QED BY <4>1, <4>2
    <3> QED BY <3>2, <3>3
  <2>2. CASE ~\E j \in Kinds : ClientOpens(p, j)
    <3>1. UNCHANGED <<reading, table>> /\ (fifo' = fifo \/ fifo' = [fifo EXCEPT ![id[p]] = Nobody])
      BY <1>3, <2>2 DEF Connect, ClientSend, Converse, ClientReads, ClientLeaves,
         ClientAsks, ClientDisconnects, ClientWrites, ClientDies, managerVars
    <3> QED BY <1>1, <3>1
  <2> QED BY <2>1, <2>2
<1>4. ASSUME NEW m \in Managers, NEW k \in Kinds, ManagerOpens(m, k)
      PROVE  /\ UNCHANGED fifo /\ \A o \in Managers : reading'[o] \in {reading[o], Nobody}
             /\ \A n \in Numbers : table'[n] \in {table[n], Free}
                  \/ \E i \in Ids : fifo[i] # Nobody /\ table'[n].client = fifo[i]
  <2>1. CASE Named(m) = Nobody
    BY <1>4, <2>1 DEF ManagerOpens, Exit
  <2>2. CASE Named(m) # Nobody
    <3>1. pc[m] = k /\ UNCHANGED <<fifo, reading>>
          /\ table' = [table EXCEPT ![LowestFree] =
               [client |-> Named(m), kind |-> k, by |-> m, installed |-> k \in ends[Named(m)]]]
      BY <1>4, <2>2 DEF ManagerOpens
    <3>2. msg[m] \in Ids /\ Named(m) = fifo[msg[m]]
      BY <1>1, <2>2, NamesFifo
    <3>3. \A n \in Numbers : table'[n] = table[n] \/ table'[n].client = fifo[msg[m]]
      BY <1>1, <3>1, <3>2
    <3> QED BY <1>1, <2>2, <3>1, <3>2, <3>3
  <2> QED BY <2>1, <2>2
<1>5. ASSUME NEW m \in Managers, Manager(m), ~\E k \in Kinds : ManagerOpens(m, k)
      PROVE  /\ \A i \in Ids : fifo'[i] \in {fifo[i], Nobody}
             /\ \A n \in Numbers : table'[n] \in {table[n], Free}
             /\ \A o \in Managers : reading'[o] \in {reading[o], Nobody}
                  \/ \E n \in Numbers : table[n] # Free /\ table[n].kind = "req" /\ table[n].client = reading'[o]
  <2>1. CASE ManagerReads(m, "serve", "opcode", "farewell") \/ ManagerReads(m, "key", "keyRead", "serve")
    BY <1>1, <2>1 DEF ManagerReads, Installed
  <2>2. CASE ManagerGetsOpcode(m) \/ ManagerGetsKey(m)
    <3>1. \E from, to : ReadReturns(m, from, to)
      BY <2>2 DEF ManagerGetsOpcode, ManagerGetsKey
    <3> QED BY <1>1, <3>1 DEF ReadReturns
  <2>3. CASE ManagerTake(m) \/ ManagerGreets(m) \/ ManagerAnswers(m) \/ ManagerUnlinks(m)
    <3>1. UNCHANGED <<table, reading>> /\ (fifo' = fifo \/ fifo' = [fifo EXCEPT ![msg[m]] = Nobody])
      BY <2>3 DEF ManagerTake, ManagerGreets, ManagerAnswers, ManagerUnlinks
    <3> QED BY <1>1, <3>1
  <2>4. CASE \/ ManagerFarewell(m) \/ ManagerCloses(m, "req", "closeReq", "closeResp")
             \/ ManagerCloses(m, "resp", "closeResp", "closeNotif")
             \/ ManagerCloses(m, "notif", "closeNotif", "unlink")
    <3>1. UNCHANGED <<fifo, reading>> /\ \E n : table' = Closed(n)
      BY <2>4 DEF ManagerFarewell, ManagerCloses
    <3> QED BY <1>1, <3>1 DEF Closed
  <2> QED BY <1>5, <2>1, <2>2, <2>3, <2>4 DEF Manager, Handshake, Attend
<1>6. CASE UNCHANGED vars
  BY <1>6 DEF vars, managerVars
<1>7. CASE \E p \in Clients : ClientStart(p)
  BY <1>2, <1>7
<1>8. CASE \E p \in Clients :
             Connect(p) \/ Converse(p) \/ ClientAsks(p) \/ ClientDisconnects(p) \/ ClientDies(p)
  BY <1>3, <1>8
<1>9. CASE \E m \in Managers : Manager(m)
  <2>1. PICK m \in Managers : Manager(m)
    BY <1>9
  <2>2. CASE \E k \in Kinds : ManagerOpens(m, k)
    BY <1>4, <2>2
  <2>3. CASE ~\E k \in Kinds : ManagerOpens(m, k)
    BY <1>5, <2>1, <2>3
  <2> QED BY <2>2, <2>3
<1> QED BY <1>6, <1>7, <1>8, <1>9 DEF Step

\* Messages, FIFOs, numbers and readers belong to clients that have started.
LEMMA NextFromClients ==
  ASSUME DescriptorInv, FromClients, Step
  PROVE  FromClients'
<1>1. UNCHANGED id
  BY MessageSteps
<1>2. \A p \in Clients : (Started(p) => Started(p)') /\ (Sent(p) => Sent(p)')
  BY ClientGoesOn
<1>3. ASSUME NEW i \in Ids, Queued(i)' \/ Taken(i)'
      PROVE  \E p \in Clients : id'[p] = i /\ Sent(p)'
  <2>1. CASE \E p \in Clients : ClientSend(p) /\ id[p] = i
    <3>1. PICK p \in Clients : ClientSend(p) /\ id[p] = i
      BY <2>1
    <3>2. Sent(p)'
      BY <3>1 DEF ClientSend, ClientGoto, Sent, DescriptorInv, TypeOK, ClientTypes
    <3> QED BY <1>1, <3>1, <3>2
  <2>2. CASE ~\E p \in Clients : ClientSend(p) /\ id[p] = i
    <3>1. Queued(i) \/ Taken(i)
      BY <1>3, <2>2, MessageCame DEF Taken
    <3>2. PICK p \in Clients : id[p] = i /\ Sent(p)
      BY <3>1 DEF FromClients
    <3> QED BY <1>1, <1>2, <3>2
  <2> QED BY <2>1, <2>2
<1>4. ASSUME NEW i \in Ids, fifo'[i] # Nobody PROVE cpc'[fifo'[i]] # "off"
  <2>1. CASE fifo'[i] = fifo[i]
    <3>1. fifo[i] \in Clients /\ Started(fifo[i])
      BY <1>4, <2>1 DEF FromClients, DescriptorInv, TypeOK, ClientTypes
    <3> QED BY <1>2, <2>1, <3>1 DEF Started
  <2>2. CASE fifo'[i] # fifo[i]
    <3> DEFINE p == fifo'[i]
    <3>1. p \in Clients /\ ClientStart(p)
      BY <1>4, <2>2, ClientCame
    <3> HIDE DEF p
    <3>2. cpc'[p] = "send"
      BY <3>1 DEF ClientStart, ClientGoto, DescriptorInv, TypeOK, ClientTypes
    <3> QED BY <3>2 DEF Started, p
  <2> QED BY <2>1, <2>2
<1>5. ASSUME NEW n \in Numbers, table'[n] # Free PROVE cpc'[table'[n].client] # "off"
  <2>1. \E p \in Clients : table'[n].client = p /\ Started(p)
    <3>1. CASE table[n] # Free /\ table'[n].client = table[n].client
      BY <3>1, InUse DEF FromClients, DescriptorInv
    <3>2. CASE ~(table[n] # Free /\ table'[n].client = table[n].client)
      <4>1. PICK i \in Ids : fifo[i] # Nobody /\ table'[n].client = fifo[i]
        BY <1>5, <3>2, ClientCame
      <4> QED BY <4>1 DEF FromClients, DescriptorInv, TypeOK, ClientTypes
    <3> QED BY <3>1, <3>2
  <2> QED BY <1>2, <2>1 DEF Started
<1>6. ASSUME NEW m \in Managers, reading'[m] # Nobody PROVE cpc'[reading'[m]] # "off"
  <2>1. \E p \in Clients : reading'[m] = p /\ Started(p)
    <3>1. CASE reading'[m] = reading[m]
      BY <1>6, <3>1 DEF FromClients, DescriptorInv, TypeOK, ManagerTypes
    <3>2. CASE reading'[m] # reading[m]
      <4>1. PICK n \in Numbers : table[n] # Free /\ table[n].client = reading'[m]
        BY <1>6, <3>2, ClientCame
      <4> QED BY <4>1, InUse DEF FromClients, DescriptorInv
    <3> QED BY <3>1, <3>2
  <2> QED BY <1>2, <2>1 DEF Started
<1> QED BY <1>3, <1>4, <1>5, <1>6 DEF FromClients, Started

\* While no other process has p's name, a message with that name is p's.
LEMMA MessageOfAlone ==
  ASSUME FromClients, NEW p \in Clients, id[p] \in Ids, Queued(id[p]) \/ Taken(id[p]),
         \A q \in Clients : id[q] = id[p] /\ q # p => ~Started(q)
  PROVE  Sent(p)
<1>1. PICK q \in Clients : id[q] = id[p] /\ Sent(q)
  BY DEF FromClients
<1>2. Started(q)
  BY <1>1 DEF Sent, Started
<1> QED BY <1>1, <1>2

\* Being alone is a thing of the past as well, but for the step that starts p.
LEMMA AloneBefore ==
  ASSUME DescriptorInv, Step, NEW p \in Clients, Alone(p)'
  PROVE  /\ \A q \in Clients : id[q] = id[p] /\ q # p => ~Started(q) /\ ~Started(q)'
         /\ Alone(p) \/ (ClientStart(p) /\ ~Started(p))
<1>1. UNCHANGED id
  BY MessageSteps
<1>2. \A q \in Clients : (Started(q) => Started(q)') /\ (~Started(q) /\ Started(q)' => ClientStart(q))
  BY ClientGoesOn
<1>3. Started(p)' /\ \A q \in Clients : id[q] = id[p] /\ q # p => ~Started(q)'
  BY <1>1 DEF Alone
<1> QED BY <1>2, <1>3 DEF Alone

\* The one message of p stays one.
LEMMA OneMessageStays ==
  ASSUME DescriptorInv, FromClients, Step, NEW p \in Clients, Alone(p)', Alone(p), OneMessage(p)
  PROVE  OneMessage(p)' /\ (Sent(p) /\ ~Queued(id[p]) => ~Queued(id[p])')
<1>0. PICK i \in Ids : i = id[p]
  BY DEF DescriptorInv, TypeOK, ClientTypes
<1>1. /\ UNCHANGED id /\ Nobody \notin Ids
      /\ msg \in [Managers -> Ids \cup {Nobody}] /\ id \in [Clients -> Ids]
      /\ DOMAIN queue = 1 .. Len(queue) /\ Len(queue) \in Nat
  BY MessageSteps, SessionsAssumption DEF DescriptorInv, TypeOK, ClientTypes, ManagerTypes
<1>2. \A q \in Clients : id[q] = i /\ q # p => ~Started(q) /\ ~Started(q)'
  BY <1>0, AloneBefore
<1>3. /\ \A a, b \in DOMAIN queue : queue[a] = i /\ queue[b] = i => a = b
      /\ \A m, o \in Managers : msg[m] = i /\ msg[o] = i => m = o
      /\ ~(Queued(i) /\ Taken(i))
  BY <1>0 DEF OneMessage
<1> SUFFICES /\ \A a, b \in DOMAIN queue' : queue'[a] = i /\ queue'[b] = i => a = b
             /\ \A m, o \in Managers : msg'[m] = i /\ msg'[o] = i => m = o
             /\ ~(Queued(i)' /\ Taken(i)')
             /\ Sent(p) /\ ~Queued(i) => ~Queued(i)'
  BY <1>0, <1>1 DEF OneMessage
<1>4. CASE UNCHANGED <<queue, msg>>
  BY <1>3, <1>4 DEF Queued, Taken
<1>5. CASE \E q \in Clients : ClientSend(q)
  <2>1. PICK q \in Clients : ClientSend(q)
    BY <1>5
  <2>2. UNCHANGED msg /\ cpc[q] = "send"
    BY <2>1 DEF ClientSend, ClientGoto, managerVars
  <2>3. /\ DOMAIN queue' = 1 .. Len(queue) + 1 /\ queue'[Len(queue) + 1] = id[q]
        /\ \A j \in DOMAIN queue : j < Len(queue) + 1 /\ queue'[j] = queue[j]
    BY <2>1, QueueSteps
  <2>4. CASE q = p
    <3>1. ~Sent(p)
      BY <2>2, <2>4 DEF Sent
    <3>2. ~Queued(i) /\ ~Taken(i)
      BY <1>0, <1>2, <3>1, MessageOfAlone
    <3> QED BY <1>1, <2>2, <2>3, <3>1, <3>2 DEF Queued, Taken
  <2>5. CASE q # p
    <3>1. Started(q)
      BY <2>2 DEF Started
    <3>2. id[q] # i
      BY <1>2, <2>5, <3>1
    <3> QED BY <1>1, <1>3, <2>2, <2>3, <3>2 DEF Queued, Taken
  <2> QED BY <2>4, <2>5
<1>6. CASE \E m \in Managers : ManagerTake(m)
  <2>1. PICK m \in Managers : ManagerTake(m)
    BY <1>6
  <2>2. \A o \in Managers \ {m} : msg'[o] = msg[o]
    BY <1>1, <2>1 DEF ManagerTake
  <2>3. /\ 1 \in DOMAIN queue /\ msg'[m] = queue[1]
        /\ \A j \in DOMAIN queue' : j + 1 \in DOMAIN queue /\ queue'[j] = queue[j + 1] /\ j \in Nat \ {0}
    BY <2>1, QueueSteps
  <2>4. \A a, b \in DOMAIN queue' : queue'[a] = i /\ queue'[b] = i => a = b
    BY <1>3, <2>3
  <2>5. Queued(i)' => Queued(i) /\ queue[1] # i
    BY <1>3, <2>3 DEF Queued
  <2>6. \A o \in Managers : msg'[o] = i => msg[o] = i \/ (o = m /\ queue[1] = i /\ Queued(i))
    BY <2>2, <2>3 DEF Queued
  <2>7. /\ \A x, o \in Managers : msg'[x] = i /\ msg'[o] = i => x = o
        /\ ~(Queued(i)' /\ Taken(i)')
    BY <1>3, <2>5, <2>6 DEF Taken
  <2> QED BY <2>4, <2>5, <2>7
<1>7. CASE \E m \in Managers : ManagerUnlinks(m)
  <2>1. PICK m \in Managers : ManagerUnlinks(m)
    BY <1>7
  <2>2. msg' = [msg EXCEPT ![m] = Nobody] /\ UNCHANGED queue
    BY <2>1 DEF ManagerUnlinks
  <2>3. \A o \in Managers : msg'[o] = i => msg[o] = i
    BY <1>1, <2>2
  <2> QED BY <1>3, <2>2, <2>3 DEF Queued, Taken
<1> QED BY <1>4, <1>5, <1>6, <1>7, MessageSteps

\* A manager that has opened p's FIFO k is the only one with p's message.
LEMMA HasOpened ==
  ASSUME DescriptorInv, FromClients, NEW p \in Clients, Alone(p), OneMessage(p), NEW k \in Kinds,
         NEW m \in Managers, msg[m] = id[p], pc[m] \notin Before[k]
  PROVE  Opened(p, k)
<1>1. Taken(id[p]) /\ id[p] \in Ids
  BY DEF Taken, DescriptorInv, TypeOK, ClientTypes
<1>2. Sent(p)
  BY <1>1, MessageOfAlone DEF Alone
<1> QED BY <1>1, <1>2 DEF OneMessage, Opened

\* The server has its end of a FIFO: its manager has opened it.
LEMMA EndOpened ==
  ASSUME DescriptorInv, FromClients, NEW p \in Clients, Alone(p), OneMessage(p), NEW k \in Kinds,
         \A m \in Managers : reading[m] = p => Opened(p, "req"), ServerEnd(p, k)
  PROVE  Opened(p, k)
<1>1. CASE NumbersOf(p, k) # {}
  <2>1. PICK n \in Numbers : table[n] # Free /\ table[n].client = p /\ table[n].kind = k
    BY <1>1 DEF NumbersOf
  <2>2. table[n].by \in Managers
    BY <2>1, InUse DEF DescriptorInv
  <2>3. msg[table[n].by] = id[p] /\ pc[table[n].by] \notin Before[k]
    BY <2>1 DEF DescriptorInv, Owned
  <2> QED BY <2>2, <2>3, HasOpened
<1>2. CASE k = "req" /\ \E m \in Managers : reading[m] = p
  BY <1>2
<1> QED BY <1>1, <1>2 DEF ServerEnd

\* What has been opened has been opened.
LEMMA OpenedStays ==
  ASSUME DescriptorInv, FromClients, Step, NEW p \in Clients, Alone(p)', Alone(p),
         OneMessage(p), NEW k \in Kinds, Opened(p, k)
  PROVE  Opened(p, k)'
<1>0. PICK i \in Ids : i = id[p]
  BY DEF DescriptorInv, TypeOK, ClientTypes
<1>1. UNCHANGED id /\ Nobody \notin Ids
  BY MessageSteps, SessionsAssumption
<1>2. Sent(p) /\ ~Queued(i) /\ \A m \in Managers : msg[m] = i => pc[m] \notin Before[k]
  BY <1>0 DEF Opened
<1>3. Sent(p)'
  BY <1>2, ClientGoesOn
<1>4. ~Queued(i)'
  BY <1>0, <1>1, <1>2, OneMessageStays
<1>5. ASSUME NEW m \in Managers, msg'[m] = i PROVE pc'[m] \notin Before[k]
  <2>1. msg[m] = i
    BY <1>2, <1>5, MessageCame
  <2> QED BY <1>1, <1>2, <1>5, <2>1, ManagersGoOn
<1> QED BY <1>0, <1>1, <1>3, <1>4, <1>5 DEF Opened

\* A path of a process that is alone is removed by the process or its manager.
LEMMA PathGoesOn ==
  ASSUME DescriptorInv, FromClients, Step, NEW p \in Clients, Alone(p)', Alone(p),
         OneMessage(p), PathStays(p)
  PROVE  PathStays(p)'
<1>0. PICK i \in Ids : i = id[p]
  BY DEF DescriptorInv, TypeOK, ClientTypes
<1>1. /\ UNCHANGED id /\ Nobody \notin Ids
      /\ fifo \in [Ids -> Clients \cup {Nobody}] /\ msg \in [Managers -> Ids \cup {Nobody}]
      /\ cpc \in [Clients -> ClientStates]
  BY MessageSteps, SessionsAssumption DEF DescriptorInv, TypeOK, ClientTypes, ManagerTypes
<1>2. \A q \in Clients : id[q] = i /\ q # p => ~Started(q) /\ ~Started(q)'
  BY <1>0, AloneBefore
<1>3. CASE cpc[p] = "done"
  <2>1. cpc'[p] = "done"
    BY <1>3, ClientGoesOn
  <2> QED BY <2>1 DEF PathStays
<1>4. CASE Sent(p) /\ ~Queued(i) /\ ~Taken(i)
  <2>1. Sent(p)' /\ ~Queued(i)'
    BY <1>0, <1>1, <1>4, ClientGoesOn, OneMessageStays
  <2>2. ~Taken(i)'
    BY <1>4, MessageCame DEF Taken
  <2> QED BY <1>0, <1>1, <2>1, <2>2 DEF PathStays
<1>5. CASE fifo[i] = p
  <2>1. CASE fifo'[i] = p
    BY <1>0, <1>1, <2>1 DEF PathStays
  <2>2. CASE fifo'[i] # p
    <3>1. CASE \E q \in Clients : ClientStart(q)
      <4>1. PICK q \in Clients : ClientStart(q)
        BY <3>1
      <4>2. cpc[q] = "off" /\ cpc'[q] = "send" /\ fifo' = [fifo EXCEPT ![id[q]] = q]
        BY <1>1, <4>1 DEF ClientStart, ClientGoto
      <4>3. id[q] # i
        BY <1>0, <1>2, <4>2 DEF Alone, Started
      <4> QED BY <1>1, <1>5, <2>2, <4>2, <4>3
    <3>2. CASE \E q \in Clients : ClientLeaves(q)
      <4>1. PICK q \in Clients : ClientLeaves(q)
        BY <3>2
      <4>2. cpc[q] = "bye" /\ cpc'[q] = "done" /\ fifo' = [fifo EXCEPT ![id[q]] = Nobody]
        BY <1>1, <4>1 DEF ClientLeaves, ClientGoto
      <4>3. id[q] = i
        BY <1>1, <1>5, <2>2, <4>2
      <4>4. q = p
        BY <1>2, <4>2, <4>3 DEF Started
      <4> QED BY <4>2, <4>4 DEF PathStays
    <3>3. CASE \E m \in Managers : ManagerUnlinks(m)
      <4>1. PICK m \in Managers : ManagerUnlinks(m)
        BY <3>3
      <4>2. fifo' = [fifo EXCEPT ![msg[m]] = Nobody] /\ msg' = [msg EXCEPT ![m] = Nobody]
        BY <4>1 DEF ManagerUnlinks
      <4>3. msg[m] = i
        BY <1>1, <1>5, <2>2, <4>2
      <4>4. Taken(i) /\ ~Queued(i) /\ \A o \in Managers : msg[o] = i => o = m
        BY <1>0, <4>3 DEF OneMessage, Taken
      <4>5. Sent(p)
        BY <1>0, <1>2, <4>4, MessageOfAlone
      <4>6. Sent(p)' /\ ~Queued(i)'
        BY <1>0, <1>1, <4>4, <4>5, ClientGoesOn, OneMessageStays
      <4>7. ~Taken(i)'
        BY <1>1, <4>2, <4>4 DEF Taken
      <4> QED BY <1>0, <1>1, <4>6, <4>7 DEF PathStays
    <3>4. CASE /\ ~\E q \in Clients : ClientStart(q) \/ ClientLeaves(q)
               /\ ~\E m \in Managers : ManagerUnlinks(m)
      <4>1. UNCHANGED fifo
        BY <3>4 DEF Step, vars, Connect, ClientSend, ClientOpens, Converse, ClientReads, ClientAsks,
           ClientDisconnects, ClientWrites, ClientDies, Manager, ManagerTake, Handshake, ManagerOpens,
           ManagerGreets, ManagerAnswers, Attend, ManagerReads, ManagerGetsOpcode, ManagerGetsKey, ReadReturns,
           ManagerFarewell, ManagerCloses
      <4> QED BY <1>5, <2>2, <4>1
    <3> QED BY <3>1, <3>2, <3>3, <3>4
  <2> QED BY <2>1, <2>2
<1> QED BY <1>0, <1>3, <1>4, <1>5 DEF PathStays

\* The paths, the message and the open FIFOs of each process whose name is new.
LEMMA NextAlone ==
  ASSUME DescriptorInv, FromClients, AloneInv, Step
  PROVE  AloneInv'
<1> SUFFICES ASSUME NEW p \in Clients, Alone(p)'
             PROVE  /\ OneMessage(p)' /\ PathStays(p)'
                    /\ \A k \in Kinds : cpc'[p] \in Passed[k] => Opened(p, k)'
                    /\ \A m \in Managers : reading'[m] = p => Opened(p, "req")'
  BY DEF AloneInv
<1>1. /\ UNCHANGED id /\ Nobody \notin Ids \cup Clients
      /\ msg \in [Managers -> Ids \cup {Nobody}] /\ cpc \in [Clients -> ClientStates]
      /\ fifo \in [Ids -> Clients \cup {Nobody}] /\ id \in [Clients -> Ids]
      /\ reading \in [Managers -> Clients \cup {Nobody}]
  BY MessageSteps, SessionsAssumption DEF DescriptorInv, TypeOK, ClientTypes, ManagerTypes
<1>2. PICK i \in Ids : i = id[p]
  BY <1>1
<1>3. CASE ~Alone(p)
  <2>1. /\ ClientStart(p) /\ ~Started(p)
        /\ \A q \in Clients : id[q] = id[p] /\ q # p => ~Started(q)
    BY <1>3, AloneBefore
  <2>2. ~Queued(i) /\ ~Taken(i)
    <3>1. ~Sent(p)
      BY <2>1 DEF Sent, Started
    <3> QED BY <1>2, <2>1, <3>1, MessageOfAlone
  <2>3. cpc'[p] = "send" /\ fifo'[i] = p /\ UNCHANGED <<queue, msg, reading>>
    BY <1>1, <1>2, <2>1 DEF ClientStart, ClientGoto, managerVars
  <2>4. OneMessage(p)'
    BY <1>1, <1>2, <2>2, <2>3 DEF OneMessage, Queued, Taken
  <2>5. PathStays(p)'
    BY <1>1, <1>2, <2>3 DEF PathStays
  <2>6. \A m \in Managers : reading'[m] # p
    BY <1>1, <2>1, <2>3 DEF FromClients
  <2>7. \A k \in Kinds : cpc'[p] \notin Passed[k]
    BY <2>3, ClientOrder
  <2> QED BY <2>4, <2>5, <2>6, <2>7
<1>4. CASE Alone(p)
  <2>1. /\ OneMessage(p) /\ PathStays(p)
        /\ \A k \in Kinds : cpc[p] \in Passed[k] => Opened(p, k)
        /\ \A m \in Managers : reading[m] = p => Opened(p, "req")
    BY <1>4 DEF AloneInv
  <2>2. \A k \in Kinds : Opened(p, k) => Opened(p, k)'
    BY <1>4, <2>1, OpenedStays
  <2>3. OneMessage(p)'
    BY <1>4, <2>1, OneMessageStays
  <2>4. PathStays(p)'
    BY <1>4, <2>1, PathGoesOn
  <2>5. ASSUME NEW k \in Kinds, cpc'[p] \in Passed[k] PROVE Opened(p, k)'
    <3>1. CASE cpc[p] \in Passed[k]
      BY <2>1, <2>2, <3>1
    <3>2. CASE ClientOpens(p, k) /\ ServerEnd(p, k)
      BY <1>4, <2>1, <2>2, <3>2, EndOpened
    <3>3. CASE \E m \in Managers : ManagerOpens(m, k) /\ Named(m) = p /\ cpc[p] = WaitFor[k]
      <4>1. PICK m \in Managers : ManagerOpens(m, k) /\ Named(m) = p /\ cpc[p] = WaitFor[k]
        BY <3>3
      <4>2. pc[m] = k /\ UNCHANGED <<queue, msg>>
            /\ pc' = [pc EXCEPT ![m] = IF k \in ends[p] THEN Then[k] ELSE WaitFor[k]]
        BY <1>1, <4>1 DEF ManagerOpens, Goto
      <4>3. msg[m] = i
        <5>1. msg[m] \in Ids /\ Named(m) = fifo[msg[m]]
          BY <1>1, <4>1, NamesFifo DEF DescriptorInv
        <5> QED BY <1>1, <1>2, <4>1, <5>1 DEF DescriptorInv, PathsNamed
      <4>4. pc'[m] \notin Before[k]
        <5>1. pc'[m] \in {Then[k], WaitFor[k]}
          BY <4>2 DEF DescriptorInv, TypeOK, ManagerTypes
        <5> QED BY <5>1, StepOrder
      <4>5. ~Queued(i) /\ \A o \in Managers : msg[o] = i => o = m
        BY <1>2, <2>1, <4>3 DEF OneMessage, Taken
      <4>6. Sent(p)
        BY <4>1, ClientOrder DEF Sent
      <4>7. Sent(p)'
        BY <4>6, ClientGoesOn
      <4>8. ~Queued(i)'
        BY <4>2, <4>5 DEF Queued
      <4> QED BY <1>1, <1>2, <4>2, <4>4, <4>5, <4>7, <4>8 DEF Opened
    <3> QED BY <2>5, <3>1, <3>2, <3>3, ClientGoesOn
  <2>6. ASSUME NEW m \in Managers, reading'[m] = p PROVE Opened(p, "req")'
    <3>1. CASE reading[m] = p
      BY <2>1, <2>2, <3>1 DEF Kinds
    <3>2. CASE reading[m] # p
      <4>1. PICK n \in Numbers : table[n] # Free /\ table[n].kind = "req" /\ table[n].client = p
        BY <1>1, <2>6, <3>2, ClientCame
      <4>2. ServerEnd(p, "req")
        BY <4>1 DEF ServerEnd, NumbersOf
      <4> QED BY <1>4, <2>1, <2>2, <4>2, EndOpened DEF Kinds
    <3> QED BY <3>1, <3>2
  <2> QED BY <2>3, <2>4, <2>5, <2>6
<1> QED BY <1>3, <1>4

\* Without a signal the messages stay those of clients.
LEMMA NextClientsMessages ==
  ASSUME DescriptorInv, ClientsMessages, Step
  PROVE  ClientsMessages'
<1>1. msg \in [Managers -> Ids \cup {Nobody}] /\ id \in [Clients -> Ids] /\ AtWork
  BY DEF DescriptorInv, TypeOK, ClientTypes, ManagerTypes
<1>2. queue' \in Seq(Ids)
  <2>1. CASE UNCHANGED queue
    BY <2>1 DEF ClientsMessages
  <2>2. CASE \E p \in Clients : ClientSend(p)
    BY <1>1, <2>2, AppendProperties DEF ClientSend, ClientsMessages
  <2>3. CASE \E m \in Managers : ManagerTake(m)
    BY <2>3, HeadTailProperties DEF ManagerTake, ClientsMessages
  <2>4. CASE \E m \in Managers : ManagerUnlinks(m)
    BY <2>1, <2>4 DEF ManagerUnlinks
  <2> QED BY <2>1, <2>2, <2>3, <2>4, MessageSteps
<1>3. ASSUME NEW m \in Managers, pc'[m] # "take" PROVE msg'[m] \in Ids
  <2>1. ASSUME NEW p \in Clients,
               \/ ClientStart(p) \/ Connect(p) \/ Converse(p)
               \/ ClientAsks(p) \/ ClientDisconnects(p) \/ ClientDies(p)
        PROVE  msg'[m] \in Ids
    <3>1. msg' = msg /\ (pc'[m] = pc[m] \/ \E j \in Kinds : pc[m] = WaitFor[j])
      BY <2>1, ClientStepKeeps
    <3>2. pc[m] # "take"
      BY <1>3, <3>1, StepOrder
    <3> QED BY <3>1, <3>2 DEF ClientsMessages
  <2>2. ASSUME NEW o \in Managers, Manager(o) PROVE msg'[m] \in Ids
    <3>1. CASE o = m /\ pc[m] = "take"
      BY <2>2, <3>1, ManagerMoves, HeadTailProperties DEF ClientsMessages
    <3>2. CASE o = m /\ pc[m] # "take"
      BY <1>3, <2>2, <3>2, ManagerMoves DEF ClientsMessages
    <3>3. CASE o # m
      BY <1>3, <2>2, <3>3, ManagerMoves DEF ClientsMessages
    <3> QED BY <3>1, <3>2, <3>3
  <2>3. CASE UNCHANGED vars
    BY <1>3, <2>3 DEF vars, managerVars, ClientsMessages
  <2> QED BY <2>1, <2>2, <2>3 DEF Step
<1> QED BY <1>2, <1>3 DEF ClientsMessages

\* While no signal has come, only the other steps were taken.
LEMMA NoSignal ==
  ASSUME DescriptorInv, [Next]_vars, signals' = 0
  PROVE  Step /\ signals = 0
<1>1. signals \in Nat
  BY SessionsAssumption DEF DescriptorInv, TypeOK, ManagerTypes
<1>2. ~Signalled
  <2>1. Signalled => signals' = signals + 1
    BY DEF Signalled, Signal, SignalInOpen, SignalInRead, HandlerSends
  <2> QED BY <1>1, <2>1
<1>3. Step
  BY <1>2 DEF Next, Step
<1>4. UNCHANGED signals
  <2>1. CASE \E p \in Clients : \/ ClientStart(p) \/ Connect(p) \/ Converse(p)
                                \/ ClientAsks(p) \/ ClientDisconnects(p) \/ ClientDies(p)
    BY <2>1 DEF ClientStart, Connect, ClientSend, ClientOpens, Converse, ClientReads, ClientLeaves,
       ClientAsks, ClientDisconnects, ClientWrites, ClientDies, storeVars
  <2>2. CASE \E m \in Managers : Manager(m)
    BY <2>2 DEF Manager, ManagerTake, Handshake, ManagerOpens, ManagerGreets, ManagerAnswers,
       Attend, ManagerReads, ManagerGetsOpcode, ManagerGetsKey, ManagerFarewell, ManagerCloses,
       ManagerUnlinks, StoreRequest, storeVars
  <2>3. CASE UNCHANGED vars
    BY <2>3 DEF vars, storeVars
  <2> QED BY <1>3, <2>1, <2>2, <2>3 DEF Step
<1> QED BY <1>3, <1>4

\* exit() in a manager's open() means that a name was used again.
LEMMA NextReuse ==
  ASSUME DescriptorInv, FromClients, ClientsMessages, AloneInv, OnlyReuseOrSignalStopsServer,
         signals = 0, Step
  PROVE  OnlyReuseOrSignalStopsServer'
<1>1. UNCHANGED id /\ \A p \in Clients : Started(p) => Started(p)'
  BY MessageSteps, ClientGoesOn
<1>2. ASSUME \E p, q \in Clients : p # q /\ id[p] = id[q] /\ Started(p) /\ Started(q)
      PROVE  OnlyReuseOrSignalStopsServer'
  BY <1>1, <1>2 DEF OnlyReuseOrSignalStopsServer, Started
<1>3. CASE ~up
  BY <1>2, <1>3 DEF OnlyReuseOrSignalStopsServer, Started
<1>4. CASE up'
  BY <1>4 DEF OnlyReuseOrSignalStopsServer
<1>5. CASE up /\ ~up'
  <2>1. PICK m \in Managers, k \in Kinds : ManagerOpens(m, k) /\ Named(m) = Nobody
    <3>1. ~UNCHANGED up
      BY <1>5
    <3>2. \A p \in Clients : ~(\/ ClientStart(p) \/ Connect(p) \/ Converse(p)
                               \/ ClientAsks(p) \/ ClientDisconnects(p) \/ ClientDies(p))
      BY <3>1, ClientStepKeeps
    <3>3. PICK m \in Managers : Manager(m)
      BY <3>1, <3>2 DEF Step, vars
    <3>4. CASE \E k \in Kinds : ManagerOpens(m, k)
      BY <3>1, <3>4 DEF ManagerOpens
    <3>5. CASE ~\E k \in Kinds : ManagerOpens(m, k)
      BY <3>1, <3>3, <3>5 DEF Manager, ManagerTake, Handshake, ManagerGreets, ManagerAnswers, Attend, ManagerReads,
         ManagerGetsOpcode, ManagerGetsKey, ReadReturns, ManagerFarewell, ManagerCloses, ManagerUnlinks
    <3> QED BY <3>4, <3>5
  <2>2. pc[m] = k /\ msg[m] \in Ids /\ fifo[msg[m]] = Nobody /\ Nobody \notin Clients
    BY <2>1, SessionsAssumption DEF ManagerOpens, ClientsMessages, Kinds, Named
  <2>3. PICK p \in Clients : id[p] = msg[m] /\ Sent(p)
    BY <2>2 DEF FromClients, Taken
  <2>4. ~Alone(p)
    <3> SUFFICES ASSUME Alone(p) PROVE FALSE
      OBVIOUS
    <3>1. PathStays(p) /\ \A j \in Kinds : cpc[p] \in Passed[j] => Opened(p, j)
      BY DEF AloneInv
    <3>2. cpc[p] = "done"
      BY <2>1, <2>2, <2>3, <3>1 DEF PathStays, Taken
    <3>3. Opened(p, "notif")
      BY <3>1, <3>2, ClientOrder DEF Kinds
    <3>4. pc[m] \notin Before["notif"]
      BY <2>3, <3>3 DEF Opened
    <3> QED BY <2>2, <3>4 DEF Before, Kinds
  <2>5. Started(p)
    BY <2>3 DEF Sent, Started
  <2>6. PICK q \in Clients : id[q] = id[p] /\ q # p /\ Started(q)
    BY <2>4, <2>5 DEF Alone
  <2> QED BY <1>2, <2>5, <2>6
<1> QED BY <1>3, <1>4, <1>5

\* manager_thread calls exit() when it cannot open a FIFO.  Unless SIGUSR1 was
\* sent, that happens only after a second process has connected with the name of
\* one before it.
THEOREM ServerStopsByReuseOrSignal == Spec => []OnlyReuseOrSignalStopsServer
<1>1. Init => ReuseInv
  <2>1. <<>> \in Seq(Ids)
    BY EmptySeq
  <2> QED BY <2>1, SessionsAssumption
          DEF Init, ReuseInv, FromClients, ClientsMessages, AloneInv, OnlyReuseOrSignalStopsServer,
              Alone, Started, Queued, Taken
<1>2. DescriptorInv /\ ReuseInv /\ [Next]_vars => ReuseInv'
  <2> SUFFICES ASSUME DescriptorInv, ReuseInv, [Next]_vars, signals' = 0
               PROVE  /\ FromClients' /\ ClientsMessages' /\ AloneInv'
                      /\ OnlyReuseOrSignalStopsServer'
    BY DEF ReuseInv
  <2>1. Step /\ signals = 0
    BY NoSignal
  <2>2. FromClients /\ ClientsMessages /\ AloneInv /\ OnlyReuseOrSignalStopsServer
    BY <2>1 DEF ReuseInv
  <2> QED BY <2>1, <2>2, NextFromClients, NextClientsMessages, NextAlone, NextReuse
<1>3. ReuseInv => OnlyReuseOrSignalStopsServer
  BY DEF ReuseInv, OnlyReuseOrSignalStopsServer
<1> QED BY <1>1, <1>2, <1>3, Descriptors, PTL DEF Spec
=============================================================================
