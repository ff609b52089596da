------------------------- MODULE SessionQueueProofs -------------------------
(***************************************************************************)
(* Proofs about SessionQueue, for any number of managers, clients and      *)
(* signals, any ring size and any pipe capacity; at the end, that the      *)
(* pipe, the host thread, the ring and the managers of server/main.c       *)
(* implement SessionRegistry: one queue from which each message is taken   *)
(* by one manager, in the order of the writes.                             *)
(***************************************************************************)
EXTENDS SessionQueue, FiniteSetTheorems, SequenceTheorems, TLAPS

\* The state in which the threads start satisfies the inductive invariant.
LEMMA InitRing == Init => RingInv
<1> SUFFICES ASSUME Init PROVE RingInv
  OBVIOUS
<1> USE SizeAssumption, DistinctAssumption DEF Init, Threads, Messages
<1>1. TypeOK
  BY DEF TypeOK, Slots, HostPC, ManagerPC
<1>2. LockDiscipline
  BY DEF LockDiscipline, InCS, HostCS, ManagerCS
<1>3. RingConsistent /\ HostNotForgotten /\ TestStillHolds
  BY DEF RingConsistent, HostNotForgotten, TestStillHolds
<1> QED BY <1>1, <1>2, <1>3 DEF RingInv

\* Taking the mutex, also after a wake-up.
LEMMA AcquireKeepsRing ==
  ASSUME RingInv, NEW t \in Threads, NEW from, NEW to,
         Acquire(t, from, to),
         \/ t = Host /\ from = "start" /\ to = "reset"
         \/ from \in {"lock", "relock"} /\ to = "check"
  PROVE  RingInv'
<1> USE SizeAssumption, DistinctAssumption
    DEF Acquire, Runs, Goto, pipe, ring, Threads, Messages, RingInv, TypeOK
<1>1. TypeOK'
  BY DEF HostPC, ManagerPC
<1>2. LockDiscipline'
  BY DEF LockDiscipline, InCS, HostCS, ManagerCS
<1>3. RingConsistent'
  BY DEF RingConsistent
<1>4. HostNotForgotten'
  BY DEF HostNotForgotten
<1>5. TestStillHolds'
  BY DEF TestStillHolds
<1> QED BY <1>1, <1>2, <1>3, <1>4, <1>5

\* Every step of the program and of its environment preserves the invariant.
LEMMA NextKeepsRing == RingInv /\ [Next]_vars => RingInv'
<1> SUFFICES ASSUME RingInv, [Next]_vars PROVE RingInv'
  OBVIOUS
<1> USE SizeAssumption, DistinctAssumption
    DEF Runs, Goto, pipe, ring, sync, Threads, Messages
<1>1. CASE HostInstall
  <2> USE DEF HostInstall, RingInv, TypeOK
  <2>1. TypeOK'
    BY <1>1 DEF HostPC, ManagerPC, Slots, Wrap, Put, TestStillHolds
  <2>2. LockDiscipline'
    BY <1>1 DEF LockDiscipline, InCS, HostCS, ManagerCS, HostPC, ManagerPC
  <2>3. RingConsistent'
    BY <1>1 DEF RingConsistent, Wrap, Slots, TestStillHolds
  <2>4. HostNotForgotten'
    BY <1>1 DEF HostNotForgotten, LockDiscipline, InCS, HostCS, ManagerCS
  <2>5. TestStillHolds'
    BY <1>1 DEF TestStillHolds, LockDiscipline, InCS, HostCS, ManagerCS, Wrap
  <2> QED BY <2>1, <2>2, <2>3, <2>4, <2>5
<1>2. CASE HostReset
  <2> USE DEF HostReset, RingInv, TypeOK
  <2>1. TypeOK'
    BY <1>2 DEF HostPC, ManagerPC, Slots, Wrap, Put, TestStillHolds
  <2>2. LockDiscipline'
    BY <1>2 DEF LockDiscipline, InCS, HostCS, ManagerCS, HostPC, ManagerPC
  <2>3. RingConsistent'
    BY <1>2 DEF RingConsistent, Wrap, Slots, TestStillHolds
  <2>4. HostNotForgotten'
    BY <1>2 DEF HostNotForgotten, LockDiscipline, InCS, HostCS, ManagerCS
  <2>5. TestStillHolds'
    BY <1>2 DEF TestStillHolds, LockDiscipline, InCS, HostCS, ManagerCS, Wrap
  <2> QED BY <2>1, <2>2, <2>3, <2>4, <2>5
<1>3. CASE HostRead
  <2> USE DEF HostRead, RingInv, TypeOK
  <2>1. TypeOK'
    BY <1>3 DEF HostPC, ManagerPC, Slots, Wrap, Put, TestStillHolds
  <2>2. LockDiscipline'
    BY <1>3 DEF LockDiscipline, InCS, HostCS, ManagerCS, HostPC, ManagerPC
  <2>3. RingConsistent'
    BY <1>3 DEF RingConsistent, Wrap, Slots, TestStillHolds
  <2>4. HostNotForgotten'
    BY <1>3 DEF HostNotForgotten, LockDiscipline, InCS, HostCS, ManagerCS
  <2>5. TestStillHolds'
    BY <1>3 DEF TestStillHolds, LockDiscipline, InCS, HostCS, ManagerCS, Wrap
  <2> QED BY <2>1, <2>2, <2>3, <2>4, <2>5
<1>4. CASE HostWait
  <2> USE DEF HostWait, RingInv, TypeOK
  <2>1. TypeOK'
    BY <1>4 DEF HostPC, ManagerPC, Slots, Wrap, Put, TestStillHolds
  <2>2. LockDiscipline'
    BY <1>4 DEF LockDiscipline, InCS, HostCS, ManagerCS, HostPC, ManagerPC
  <2>3. RingConsistent'
    BY <1>4 DEF RingConsistent, Wrap, Slots, TestStillHolds
  <2>4. HostNotForgotten'
    BY <1>4 DEF HostNotForgotten, LockDiscipline, InCS, HostCS, ManagerCS
  <2>5. TestStillHolds'
    BY <1>4 DEF TestStillHolds, LockDiscipline, InCS, HostCS, ManagerCS, Wrap
  <2> QED BY <2>1, <2>2, <2>3, <2>4, <2>5
<1>5. CASE HostCopy
  <2> USE DEF HostCopy, RingInv, TypeOK
  <2>1. TypeOK'
    BY <1>5 DEF HostPC, ManagerPC, Slots, Wrap, Put, TestStillHolds
  <2>2. LockDiscipline'
    BY <1>5 DEF LockDiscipline, InCS, HostCS, ManagerCS, HostPC, ManagerPC
  <2>3. RingConsistent'
    BY <1>5 DEF RingConsistent, Wrap, Slots, TestStillHolds
  <2>4. HostNotForgotten'
    BY <1>5 DEF HostNotForgotten, LockDiscipline, InCS, HostCS, ManagerCS
  <2>5. TestStillHolds'
    BY <1>5 DEF TestStillHolds, LockDiscipline, InCS, HostCS, ManagerCS, Wrap
  <2> QED BY <2>1, <2>2, <2>3, <2>4, <2>5
<1>6. CASE HostAdvance
  <2> USE DEF HostAdvance, RingInv, TypeOK
  <2>1. TypeOK'
    BY <1>6 DEF HostPC, ManagerPC, Slots, Wrap, Put, TestStillHolds
  <2>2. LockDiscipline'
    BY <1>6 DEF LockDiscipline, InCS, HostCS, ManagerCS, HostPC, ManagerPC
  <2>3. RingConsistent'
    BY <1>6 DEF RingConsistent, Wrap, Slots, TestStillHolds
  <2>4. HostNotForgotten'
    BY <1>6 DEF HostNotForgotten, LockDiscipline, InCS, HostCS, ManagerCS
  <2>5. TestStillHolds'
    BY <1>6 DEF TestStillHolds, LockDiscipline, InCS, HostCS, ManagerCS, Wrap
  <2> QED BY <2>1, <2>2, <2>3, <2>4, <2>5
<1>7. CASE HostSignal
  <2> USE DEF HostSignal, RingInv, TypeOK
  <2>1. TypeOK'
    BY <1>7 DEF HostPC, ManagerPC, Slots, Wrap, Put, TestStillHolds
  <2>2. LockDiscipline'
    BY <1>7 DEF LockDiscipline, InCS, HostCS, ManagerCS, HostPC, ManagerPC
  <2>3. RingConsistent'
    BY <1>7 DEF RingConsistent, Wrap, Slots, TestStillHolds
  <2>4. HostNotForgotten'
    BY <1>7 DEF HostNotForgotten, LockDiscipline, InCS, HostCS, ManagerCS
  <2>5. TestStillHolds'
    BY <1>7 DEF TestStillHolds, LockDiscipline, InCS, HostCS, ManagerCS, Wrap
  <2> QED BY <2>1, <2>2, <2>3, <2>4, <2>5
<1>8. CASE HostStart \/ HostLock
  BY <1>8, AcquireKeepsRing DEF HostStart, HostLock
<1>9. ASSUME NEW m \in Managers, ManagerWait(m) PROVE RingInv'
  <2> USE DEF ManagerWait, RingInv, TypeOK
  <2>1. TypeOK'
    BY <1>9 DEF HostPC, ManagerPC, Slots, Wrap, Put, TestStillHolds
  <2>2. LockDiscipline'
    BY <1>9 DEF LockDiscipline, InCS, HostCS, ManagerCS, HostPC, ManagerPC
  <2>3. RingConsistent'
    BY <1>9 DEF RingConsistent, Wrap, Slots, TestStillHolds
  <2>4. HostNotForgotten'
    BY <1>9 DEF HostNotForgotten, LockDiscipline, InCS, HostCS, ManagerCS
  <2>5. TestStillHolds'
    BY <1>9 DEF TestStillHolds, LockDiscipline, InCS, HostCS, ManagerCS, Wrap
  <2> QED BY <2>1, <2>2, <2>3, <2>4, <2>5
<1>10. ASSUME NEW m \in Managers, ManagerCopy(m) PROVE RingInv'
  <2> USE DEF ManagerCopy, RingInv, TypeOK
  <2>1. TypeOK'
    BY <1>10 DEF HostPC, ManagerPC, Slots, Wrap, Put, TestStillHolds
  <2>2. LockDiscipline'
    BY <1>10 DEF LockDiscipline, InCS, HostCS, ManagerCS, HostPC, ManagerPC
  <2>3. RingConsistent'
    BY <1>10 DEF RingConsistent, Wrap, Slots, TestStillHolds
  <2>4. HostNotForgotten'
    BY <1>10 DEF HostNotForgotten, LockDiscipline, InCS, HostCS, ManagerCS
  <2>5. TestStillHolds'
    BY <1>10 DEF TestStillHolds, LockDiscipline, InCS, HostCS, ManagerCS, Wrap
  <2> QED BY <2>1, <2>2, <2>3, <2>4, <2>5
<1>11. ASSUME NEW m \in Managers, ManagerAdvance(m) PROVE RingInv'
  <2> USE DEF ManagerAdvance, RingInv, TypeOK
  <2>1. TypeOK'
    BY <1>11 DEF HostPC, ManagerPC, Slots, Wrap, Put, TestStillHolds
  <2>2. LockDiscipline'
    BY <1>11 DEF LockDiscipline, InCS, HostCS, ManagerCS, HostPC, ManagerPC
  <2>3. RingConsistent'
    BY <1>11 DEF RingConsistent, Wrap, Slots, TestStillHolds
  <2>4. HostNotForgotten'
    BY <1>11 DEF HostNotForgotten, LockDiscipline, InCS, HostCS, ManagerCS
  <2>5. TestStillHolds'
    BY <1>11 DEF TestStillHolds, LockDiscipline, InCS, HostCS, ManagerCS, Wrap
  <2> QED BY <2>1, <2>2, <2>3, <2>4, <2>5
<1>12. ASSUME NEW m \in Managers, ManagerSignal(m) PROVE RingInv'
  <2> USE DEF ManagerSignal, RingInv, TypeOK
  <2>1. TypeOK'
    BY <1>12 DEF HostPC, ManagerPC, Slots, Wrap, Put, TestStillHolds
  <2>2. LockDiscipline'
    BY <1>12 DEF LockDiscipline, InCS, HostCS, ManagerCS, HostPC, ManagerPC
  <2>3. RingConsistent'
    BY <1>12 DEF RingConsistent, Wrap, Slots, TestStillHolds
  <2>4. HostNotForgotten'
    BY <1>12 DEF HostNotForgotten, LockDiscipline, InCS, HostCS, ManagerCS
  <2>5. TestStillHolds'
    BY <1>12 DEF TestStillHolds, LockDiscipline, InCS, HostCS, ManagerCS, Wrap
  <2> QED BY <2>1, <2>2, <2>3, <2>4, <2>5
<1>13. ASSUME NEW m \in Managers, ManagerOpen(m) PROVE RingInv'
  <2> USE DEF ManagerOpen, RingInv, TypeOK
  <2>1. TypeOK'
    BY <1>13 DEF HostPC, ManagerPC, Slots, Wrap, Put, TestStillHolds
  <2>2. LockDiscipline'
    BY <1>13 DEF LockDiscipline, InCS, HostCS, ManagerCS, HostPC, ManagerPC
  <2>3. RingConsistent'
    BY <1>13 DEF RingConsistent, Wrap, Slots, TestStillHolds
  <2>4. HostNotForgotten'
    BY <1>13 DEF HostNotForgotten, LockDiscipline, InCS, HostCS, ManagerCS
  <2>5. TestStillHolds'
    BY <1>13 DEF TestStillHolds, LockDiscipline, InCS, HostCS, ManagerCS, Wrap
  <2> QED BY <2>1, <2>2, <2>3, <2>4, <2>5
<1>14. ASSUME NEW m \in Managers, ManagerOpenFails(m) PROVE RingInv'
  <2> USE DEF ManagerOpenFails, RingInv, TypeOK
  <2>1. TypeOK'
    BY <1>14 DEF HostPC, ManagerPC, Slots, Wrap, Put, TestStillHolds
  <2>2. LockDiscipline'
    BY <1>14 DEF LockDiscipline, InCS, HostCS, ManagerCS, HostPC, ManagerPC
  <2>3. RingConsistent'
    BY <1>14 DEF RingConsistent, Wrap, Slots, TestStillHolds
  <2>4. HostNotForgotten'
    BY <1>14 DEF HostNotForgotten, LockDiscipline, InCS, HostCS, ManagerCS
  <2>5. TestStillHolds'
    BY <1>14 DEF TestStillHolds, LockDiscipline, InCS, HostCS, ManagerCS, Wrap
  <2> QED BY <2>1, <2>2, <2>3, <2>4, <2>5
<1>15. ASSUME NEW m \in Managers, ManagerFinish(m) PROVE RingInv'
  <2> USE DEF ManagerFinish, RingInv, TypeOK
  <2>1. TypeOK'
    BY <1>15 DEF HostPC, ManagerPC, Slots, Wrap, Put, TestStillHolds
  <2>2. LockDiscipline'
    BY <1>15 DEF LockDiscipline, InCS, HostCS, ManagerCS, HostPC, ManagerPC
  <2>3. RingConsistent'
    BY <1>15 DEF RingConsistent, Wrap, Slots, TestStillHolds
  <2>4. HostNotForgotten'
    BY <1>15 DEF HostNotForgotten, LockDiscipline, InCS, HostCS, ManagerCS
  <2>5. TestStillHolds'
    BY <1>15 DEF TestStillHolds, LockDiscipline, InCS, HostCS, ManagerCS, Wrap
  <2> QED BY <2>1, <2>2, <2>3, <2>4, <2>5
<1>16. ASSUME NEW m \in Managers, SpuriousManager(m) PROVE RingInv'
  <2> USE DEF SpuriousManager, RingInv, TypeOK
  <2>1. TypeOK'
    BY <1>16 DEF HostPC, ManagerPC, Slots, Wrap, Put, TestStillHolds
  <2>2. LockDiscipline'
    BY <1>16 DEF LockDiscipline, InCS, HostCS, ManagerCS, HostPC, ManagerPC
  <2>3. RingConsistent'
    BY <1>16 DEF RingConsistent, Wrap, Slots, TestStillHolds
  <2>4. HostNotForgotten'
    BY <1>16 DEF HostNotForgotten, LockDiscipline, InCS, HostCS, ManagerCS
  <2>5. TestStillHolds'
    BY <1>16 DEF TestStillHolds, LockDiscipline, InCS, HostCS, ManagerCS, Wrap
  <2> QED BY <2>1, <2>2, <2>3, <2>4, <2>5
<1>17. ASSUME NEW m \in Managers, ManagerLock(m) PROVE RingInv'
  BY <1>17, AcquireKeepsRing DEF ManagerLock
<1>18. ASSUME NEW c \in Clients, ClientConnect(c) PROVE RingInv'
  <2> USE DEF ClientConnect, RingInv, TypeOK
  <2>1. TypeOK'
    BY <1>18 DEF HostPC, ManagerPC, Slots, Wrap, Put, TestStillHolds
  <2>2. LockDiscipline'
    BY <1>18 DEF LockDiscipline, InCS, HostCS, ManagerCS, HostPC, ManagerPC
  <2>3. RingConsistent'
    BY <1>18 DEF RingConsistent, Wrap, Slots, TestStillHolds
  <2>4. HostNotForgotten'
    BY <1>18 DEF HostNotForgotten, LockDiscipline, InCS, HostCS, ManagerCS
  <2>5. TestStillHolds'
    BY <1>18 DEF TestStillHolds, LockDiscipline, InCS, HostCS, ManagerCS, Wrap
  <2> QED BY <2>1, <2>2, <2>3, <2>4, <2>5
<1>19. ASSUME NEW t \in Threads, HandlerWrites(t) PROVE RingInv'
  <2> USE DEF HandlerWrites, RingInv, TypeOK
  <2>1. TypeOK'
    BY <1>19 DEF HostPC, ManagerPC, Slots, Wrap, Put, TestStillHolds
  <2>2. LockDiscipline'
    BY <1>19 DEF LockDiscipline, InCS, HostCS, ManagerCS, HostPC, ManagerPC
  <2>3. RingConsistent'
    BY <1>19 DEF RingConsistent, Wrap, Slots, TestStillHolds
  <2>4. HostNotForgotten'
    BY <1>19 DEF HostNotForgotten, LockDiscipline, InCS, HostCS, ManagerCS
  <2>5. TestStillHolds'
    BY <1>19 DEF TestStillHolds, LockDiscipline, InCS, HostCS, ManagerCS, Wrap
  <2> QED BY <2>1, <2>2, <2>3, <2>4, <2>5
<1>20. ASSUME NEW t \in Threads, NEW sig \in Signals, SignalDelivered(t, sig) PROVE RingInv'
  <2> USE DEF SignalDelivered, RingInv, TypeOK
  <2>1. TypeOK'
    BY <1>20 DEF HostPC, ManagerPC, Slots, Wrap, Put, TestStillHolds
  <2>2. LockDiscipline'
    BY <1>20 DEF LockDiscipline, InCS, HostCS, ManagerCS, HostPC, ManagerPC
  <2>3. RingConsistent'
    BY <1>20 DEF RingConsistent, Wrap, Slots, TestStillHolds
  <2>4. HostNotForgotten'
    BY <1>20 DEF HostNotForgotten, LockDiscipline, InCS, HostCS, ManagerCS
  <2>5. TestStillHolds'
    BY <1>20 DEF TestStillHolds, LockDiscipline, InCS, HostCS, ManagerCS, Wrap
  <2> QED BY <2>1, <2>2, <2>3, <2>4, <2>5
<1>21. CASE SignalKills
  <2> USE DEF SignalKills, RingInv, TypeOK
  <2>1. TypeOK'
    BY <1>21 DEF HostPC, ManagerPC, Slots, Wrap, Put, TestStillHolds
  <2>2. LockDiscipline'
    BY <1>21 DEF LockDiscipline, InCS, HostCS, ManagerCS, HostPC, ManagerPC
  <2>3. RingConsistent'
    BY <1>21 DEF RingConsistent, Wrap, Slots, TestStillHolds
  <2>4. HostNotForgotten'
    BY <1>21 DEF HostNotForgotten, LockDiscipline, InCS, HostCS, ManagerCS
  <2>5. TestStillHolds'
    BY <1>21 DEF TestStillHolds, LockDiscipline, InCS, HostCS, ManagerCS, Wrap
  <2> QED BY <2>1, <2>2, <2>3, <2>4, <2>5
<1>22. CASE SpuriousHost
  <2> USE DEF SpuriousHost, RingInv, TypeOK
  <2>1. TypeOK'
    BY <1>22 DEF HostPC, ManagerPC, Slots, Wrap, Put, TestStillHolds
  <2>2. LockDiscipline'
    BY <1>22 DEF LockDiscipline, InCS, HostCS, ManagerCS, HostPC, ManagerPC
  <2>3. RingConsistent'
    BY <1>22 DEF RingConsistent, Wrap, Slots, TestStillHolds
  <2>4. HostNotForgotten'
    BY <1>22 DEF HostNotForgotten, LockDiscipline, InCS, HostCS, ManagerCS
  <2>5. TestStillHolds'
    BY <1>22 DEF TestStillHolds, LockDiscipline, InCS, HostCS, ManagerCS, Wrap
  <2> QED BY <2>1, <2>2, <2>3, <2>4, <2>5
<1>23. CASE UNCHANGED vars
  <2> USE DEF vars, RingInv, TypeOK
  <2>1. TypeOK'
    BY <1>23 DEF HostPC, ManagerPC, Slots, Wrap, Put, TestStillHolds
  <2>2. LockDiscipline'
    BY <1>23 DEF LockDiscipline, InCS, HostCS, ManagerCS, HostPC, ManagerPC
  <2>3. RingConsistent'
    BY <1>23 DEF RingConsistent, Wrap, Slots, TestStillHolds
  <2>4. HostNotForgotten'
    BY <1>23 DEF HostNotForgotten, LockDiscipline, InCS, HostCS, ManagerCS
  <2>5. TestStillHolds'
    BY <1>23 DEF TestStillHolds, LockDiscipline, InCS, HostCS, ManagerCS, Wrap
  <2> QED BY <2>1, <2>2, <2>3, <2>4, <2>5
<1> QED
  BY <1>1, <1>2, <1>3, <1>4, <1>5, <1>6, <1>7, <1>8, <1>9, <1>10, <1>11, <1>12, <1>13, <1>14, <1>15, <1>16, <1>17, <1>18, <1>19, <1>20, <1>21, <1>22, <1>23
     DEF Next, HostStep, ManagerStep, Environment

\* The inductive invariant holds in every reachable state.
THEOREM RingInvariant == Spec => []RingInv
<1> QED BY InitRing, NextKeepsRing, PTL DEF Spec

\* The variables stay within their types: in particular count never leaves
\* 0..MAX_BUFFER_SIZE and the indices never leave the ring.
THEOREM TypeCorrect == Spec => []TypeOK
<1>1. RingInv => TypeOK
  BY DEF RingInv
<1> QED BY <1>1, RingInvariant, PTL

\* The ring is accessed only by the owner of mutexBuffer.
THEOREM MutexProtectsRing == Spec => []LockDiscipline
<1>1. RingInv => LockDiscipline
  BY DEF RingInv
<1> QED BY <1>1, RingInvariant, PTL

\* count is the distance from consptr to prodptr, for every ring size.
THEOREM RingNeverCorrupt == Spec => []RingConsistent
<1>1. RingInv => RingConsistent
  BY DEF RingInv
<1> QED BY <1>1, RingInvariant, PTL

\* The host is never left asleep while the ring has a free slot.
THEOREM HostAlwaysWoken == Spec => []HostNotForgotten
<1>1. RingInv => HostNotForgotten
  BY DEF RingInv
<1> QED BY <1>1, RingInvariant, PTL

-----------------------------------------------------------------------------
(* No lost wake-up on the consumers' side.                                 *)

\* The managers on their way to the ring are finitely many.
LEMMA ComingFinite == IsFiniteSet(Coming) /\ Cardinality(Coming) \in Nat
<1>1. Coming \in SUBSET Managers
  BY DEF Coming
<1> QED BY <1>1, ManagersAssumption, FS_Subset, FS_CardinalityType

\* A step that puts nothing into the ring, puts nobody to sleep and stops no
\* manager on its way keeps the wake-ups.
LEMMA NobodyStops ==
  ASSUME TypeOK, TypeOK', ManagersNotForgotten, count' <= count,
         podeCons' \subseteq podeCons, Coming \subseteq Coming',
         pc[Host] = "signal" => pc'[Host] = "signal"
  PROVE  ManagersNotForgotten'
<1>1. IsFiniteSet(Coming') /\ Coming' \subseteq Managers
  <2>1. Coming' \in SUBSET Managers
    BY DEF Coming
  <2> QED BY <2>1, ManagersAssumption, FS_Subset
<1>2. /\ Cardinality(Coming) \in Nat /\ Cardinality(Coming') \in Nat
      /\ Cardinality(Coming) <= Cardinality(Coming')
  BY <1>1, ComingFinite, FS_Subset, FS_CardinalityType
<1>3. count \in Nat /\ count' \in Nat
  BY SizeAssumption DEF TypeOK
<1> QED BY <1>2, <1>3 DEF ManagersNotForgotten

\* Every step keeps the wake-ups: what the host puts into the ring is made good
\* by its signal, and what a manager takes from it is what it was coming for.
LEMMA NextKeepsManagers ==
  RingInv /\ RingInv' /\ ManagersNotForgotten /\ [Next]_vars => ManagersNotForgotten'
<1> SUFFICES ASSUME RingInv, RingInv', ManagersNotForgotten, [Next]_vars
             PROVE  ManagersNotForgotten'
  OBVIOUS
<1> USE SizeAssumption, DistinctAssumption
    DEF RingInv, Runs, Goto, pipe, ring, sync, Threads
<1>1. CASE HostReset
  BY <1>1, NobodyStops DEF HostReset, Coming, TypeOK, HostPC
<1>2. CASE \/ HostInstall \/ HostStart \/ HostRead \/ HostLock \/ HostWait
           \/ HostCopy \/ SpuriousHost
  BY <1>2, NobodyStops
     DEF HostInstall, HostStart, HostRead, HostLock, HostWait, HostCopy, SpuriousHost,
         Acquire, Coming, TypeOK
<1>3. CASE HostAdvance
  <2>1. /\ count' = count + 1 /\ podeCons' = podeCons /\ Coming' = Coming
        /\ pc[Host] = "advance" /\ pc'[Host] = "signal"
    BY <1>3 DEF HostAdvance, Coming, TypeOK
  <2> QED BY <2>1, ComingFinite DEF ManagersNotForgotten, TypeOK
<1>4. CASE HostSignal
  <2>1. CASE podeCons = {}
    BY <1>4, <2>1 DEF HostSignal, ManagersNotForgotten
  <2>2. ASSUME NEW m \in podeCons, podeCons' = podeCons \ {m},
               pc' = [pc EXCEPT ![Host] = "read", ![m] = "relock"]
        PROVE  ManagersNotForgotten'
    <3>1. m \in Managers /\ m \notin Coming /\ m # Host
      BY <2>2 DEF LockDiscipline, Coming, TypeOK
    <3>2. Coming' = Coming \cup {m}
      BY <2>2, <3>1 DEF Coming, TypeOK
    <3>3. Cardinality(Coming') = Cardinality(Coming) + 1
      BY <3>1, <3>2, ComingFinite, FS_AddElement
    <3>4. count' = count
      BY <1>4 DEF HostSignal
    <3> QED BY <3>3, <3>4, <2>2, <1>4, ComingFinite DEF HostSignal, ManagersNotForgotten, TypeOK
  <2> QED BY <1>4, <2>1, <2>2 DEF HostSignal
<1>5. ASSUME NEW m \in Managers, ManagerWait(m) PROVE ManagersNotForgotten'
  <2>1. count' = 0
    BY <1>5 DEF ManagerWait
  <2>2. Coming' \in SUBSET Managers
    BY DEF Coming
  <2>3. Cardinality(Coming') \in Nat
    BY <2>2, ManagersAssumption, FS_Subset, FS_CardinalityType
  <2> QED BY <2>1, <2>3 DEF ManagersNotForgotten
<1>6. ASSUME NEW m \in Managers, ManagerAdvance(m) PROVE ManagersNotForgotten'
  <2>1. /\ pc[m] = "advance" /\ pc' = [pc EXCEPT ![m] = "signal"] /\ count' = count - 1
        /\ podeCons' = podeCons
    BY <1>6 DEF ManagerAdvance
  <2>2. m \in Coming /\ Coming' = Coming \ {m} /\ pc'[Host] = pc[Host]
    BY <2>1 DEF Coming, TypeOK
  <2>3. Cardinality(Coming') = Cardinality(Coming) - 1
    BY <2>2, ComingFinite, FS_RemoveElement
  <2> QED BY <2>1, <2>2, <2>3, ComingFinite DEF ManagersNotForgotten, TypeOK
<1>7. ASSUME NEW m \in Managers,
             \/ ManagerLock(m) \/ ManagerCopy(m) \/ ManagerSignal(m) \/ ManagerOpen(m)
             \/ ManagerOpenFails(m) \/ ManagerFinish(m) \/ SpuriousManager(m)
      PROVE  ManagersNotForgotten'
  <2>1. count' = count /\ podeCons' \subseteq podeCons
    BY <1>7 DEF ManagerLock, Acquire, ManagerCopy, ManagerSignal, ManagerOpen,
                ManagerOpenFails, ManagerFinish, SpuriousManager
  <2>2. pc[Host] = "signal" => pc'[Host] = "signal"
    BY <1>7 DEF ManagerLock, Acquire, ManagerCopy, ManagerSignal, ManagerOpen,
                ManagerOpenFails, ManagerFinish, SpuriousManager, TypeOK, LockDiscipline
  <2>3. Coming \subseteq Coming'
    BY <1>7 DEF ManagerLock, Acquire, ManagerCopy, ManagerSignal, ManagerOpen,
                ManagerOpenFails, ManagerFinish, SpuriousManager, TypeOK, Coming
  <2> QED BY <2>1, <2>2, <2>3, NobodyStops DEF TypeOK
<1>8. ASSUME UNCHANGED <<count, podeCons, pc>> PROVE ManagersNotForgotten'
  BY <1>8, NobodyStops DEF Coming, TypeOK
<1>9. CASE \/ \E c \in Clients : ClientConnect(c)
           \/ \E t \in Threads : HandlerWrites(t)
           \/ \E t \in Threads, s \in Signals : SignalDelivered(t, s)
           \/ SignalKills \/ UNCHANGED vars
  BY <1>8, <1>9 DEF ClientConnect, HandlerWrites, SignalDelivered, SignalKills, vars
<1> QED BY <1>1, <1>2, <1>3, <1>4, <1>5, <1>6, <1>7, <1>9
        DEF Next, HostStep, ManagerStep, Environment

\* While a manager sleeps, every message in the ring has a manager on its way to
\* it or the host about to signal: no client waits beside an idle manager.
THEOREM ManagersAlwaysWoken == Spec => []ManagersNotForgotten
<1>1. Init => ManagersNotForgotten
  BY DEF Init, ManagersNotForgotten
<1> QED BY <1>1, RingInvariant, NextKeepsManagers, PTL DEF Spec

-----------------------------------------------------------------------------
(* Three sequences as one queue.                                           *)

\* A sequence is its head before its tail.
LEMMA HeadBeforeTail ==
  ASSUME NEW S, NEW s \in Seq(S), s # <<>>
  PROVE  Head(s) \in S /\ Tail(s) \in Seq(S) /\ <<Head(s)>> \o Tail(s) = s
<1>1. Head(s) \in S /\ Tail(s) \in Seq(S)
  BY HeadTailProperties
<1>2. <<Head(s)>> \in Seq(S)
  BY <1>1
<1>3. <<Head(s)>> \o Tail(s) \in Seq(S)
  BY <1>1, <1>2, ConcatProperties
<1>4. Len(<<Head(s)>> \o Tail(s)) = Len(s)
  BY <1>1, <1>2, ConcatProperties, HeadTailProperties, LenProperties
<1>5. \A i \in 1 .. Len(s) : (<<Head(s)>> \o Tail(s))[i] = s[i]
  BY <1>1, <1>2, ConcatProperties, HeadTailProperties, LenProperties
<1> QED BY <1>1, <1>3, <1>4, <1>5, SeqEqual

\* The head and the tail of a sequence to which an element was put in front.
LEMMA TailAfterHead ==
  ASSUME NEW S, NEW s \in Seq(S), NEW x \in S
  PROVE  /\ <<x>> \o s # <<>> /\ Head(<<x>> \o s) = x /\ Tail(<<x>> \o s) = s
<1> DEFINE t == <<x>> \o s
<1>1. /\ t \in Seq(S) /\ Len(t) = Len(s) + 1 /\ Len(s) \in Nat
      /\ t[1] = x /\ \A i \in 1 .. Len(s) : t[i + 1] = s[i]
  BY ConcatProperties, LenProperties
<1> HIDE DEF t
<1>2. t # <<>>
  BY <1>1, EmptySeq
<1>3. /\ Tail(t) \in Seq(S) /\ Len(Tail(t)) = Len(s)
      /\ \A i \in 1 .. Len(s) : Tail(t)[i] = s[i]
  BY <1>1, <1>2, HeadTailProperties
<1>4. Tail(t) = s
  BY <1>3, SeqEqual
<1>5. Head(t) = x
  BY <1>1 DEF Head
<1> QED BY <1>2, <1>4, <1>5 DEF t

\* A message written to the last of three sequences is written to the queue.
LEMMA WriteToLast ==
  ASSUME NEW S, NEW a \in Seq(S), NEW b \in Seq(S), NEW c \in Seq(S), NEW x \in S
  PROVE  a \o b \o Append(c, x) = Append(a \o b \o c, x)
<1>1. <<x>> \in Seq(S) /\ a \o b \in Seq(S) /\ a \o b \o c \in Seq(S)
  BY ConcatProperties
<1>2. Append(c, x) = c \o <<x>> /\ Append(a \o b \o c, x) = (a \o b \o c) \o <<x>>
  BY <1>1, AppendIsConcat
<1> QED BY <1>1, <1>2, ConcatAssociative

\* A message that moves from the last one to the empty one between stays in place.
LEMMA MoveToMiddle ==
  ASSUME NEW S, NEW a \in Seq(S), NEW c \in Seq(S), c # <<>>
  PROVE  a \o <<Head(c)>> \o Tail(c) = a \o <<>> \o c
<1>1. Tail(c) \in Seq(S) /\ <<Head(c)>> \in Seq(S) /\ <<Head(c)>> \o Tail(c) = c
  BY HeadBeforeTail
<1>2. a \o <<>> = a
  BY ConcatEmptySeq
<1> QED BY <1>1, <1>2, ConcatAssociative

\* And one that moves from there to the end of the first one.
LEMMA MoveToFirst ==
  ASSUME NEW S, NEW a \in Seq(S), NEW c \in Seq(S), NEW x \in S
  PROVE  Append(a, x) \o <<>> \o c = a \o <<x>> \o c
<1>1. Append(a, x) = a \o <<x>> /\ Append(a, x) \in Seq(S)
  BY AppendIsConcat, AppendProperties
<1>2. Append(a, x) \o <<>> = Append(a, x)
  BY <1>1, ConcatEmptySeq
<1> QED BY <1>1, <1>2

\* Taking the oldest message of the first one is taking it from the queue.
LEMMA TakeFromFirst ==
  ASSUME NEW S, NEW a \in Seq(S), NEW b \in Seq(S), NEW c \in Seq(S), a # <<>>,
         NEW q, q = a \o b \o c
  PROVE  /\ q # <<>>
         /\ Head(q) = Head(a)
         /\ Tail(q) = Tail(a) \o b \o c
<1>1. /\ Head(a) \in S /\ Tail(a) \in Seq(S) /\ <<Head(a)>> \in Seq(S)
      /\ <<Head(a)>> \o Tail(a) = a
  BY HeadBeforeTail
<1>2. Tail(a) \o b \in Seq(S) /\ Tail(a) \o b \o c \in Seq(S)
  BY <1>1, ConcatProperties
<1>3. a \o b \o c = <<Head(a)>> \o (Tail(a) \o b \o c)
  <2>1. a \o b = <<Head(a)>> \o (Tail(a) \o b)
    BY <1>1, ConcatAssociative
  <2> QED BY <1>1, <1>2, <2>1, ConcatAssociative
<1> QED BY <1>1, <1>2, <1>3, TailAfterHead

-----------------------------------------------------------------------------
(* The ring as a sequence.                                                 *)

\* The occupied slots are slots; the host's is the first free one.
LEMMA SlotsOfRing ==
  ASSUME TypeOK, RingConsistent
  PROVE  /\ \A i \in 0 .. count - 1 : Slot(i) \in Slots
         /\ count < MAX_BUFFER_SIZE => /\ Slot(count) = prodptr
                                       /\ \A i \in 0 .. count - 1 : Slot(i) # prodptr
         /\ count > 0 => Slot(0) = consptr
BY SizeAssumption DEF TypeOK, RingConsistent, Slot, Slots

\* When the consumer's index moves, each slot comes one place nearer.
LEMMA NextSlot ==
  ASSUME TypeOK, count > 0, count' = count - 1, consptr' = Wrap(consptr)
  PROVE  \A i \in 0 .. count' - 1 : Slot(i)' = Slot(i + 1) /\ i + 1 \in 0 .. count - 1
BY SizeAssumption DEF TypeOK, Slots, Slot, Wrap

\* Occupied is a sequence of messages.
LEMMA OccupiedType ==
  ASSUME TypeOK, InTransit
  PROVE  /\ Occupied \in Seq(Messages) /\ Len(Occupied) = count
         /\ \A i \in 1 .. count : Occupied[i] = buf[Slot(i - 1)]
<1>1. count \in Nat
  BY SizeAssumption DEF TypeOK
<1>2. \A i \in 1 .. count : buf[Slot(i - 1)] \in Messages
  BY <1>1 DEF InTransit
<1>3. Occupied \in [1 .. count -> Messages]
  BY <1>2 DEF Occupied
<1>4. Occupied \in Seq(Messages)
  BY <1>1, <1>3, SeqDef
<1>5. Len(Occupied) = count
  BY <1>1, <1>3, <1>4, LenProperties
<1> QED BY <1>4, <1>5 DEF Occupied

\* What the host has in its hands.
LEMMA InHandType ==
  ASSUME TypeOK, InTransit
  PROVE  InHand \in Seq(Messages)
<1>1. HostHolds => <<sessionMessage[Host]>> \in Seq(Messages)
  BY DEF InTransit
<1> QED BY <1>1, EmptySeq DEF InHand

-----------------------------------------------------------------------------
(* The messages on their way are the ones that were written.               *)

FlowInv == RingInv /\ InTransit /\ HandlersApart

\* At the start nothing is on its way.
LEMMA InitFlow == Init => FlowInv
<1> SUFFICES ASSUME Init PROVE FlowInv
  OBVIOUS
<1>1. RingInv
  BY InitRing
<1>2. InTransit /\ HandlersApart
  BY SizeAssumption, DistinctAssumption
     DEF Init, InTransit, HandlersApart, HostHolds, Threads
<1> QED BY <1>1, <1>2 DEF FlowInv

\* Only the owner of the mutex touches the ring, so that a copy stays a copy
\* until its owner moves the index.
LEMMA NextInTransit == FlowInv /\ [Next]_vars => InTransit'
<1> SUFFICES ASSUME FlowInv, [Next]_vars PROVE InTransit'
  OBVIOUS
<1> USE SizeAssumption, DistinctAssumption
    DEF FlowInv, RingInv, TypeOK, Runs, Goto, pipe, ring, sync, Threads, Messages
<1>1. CASE HostInstall \/ HostWait \/ SpuriousHost
  BY <1>1 DEF HostInstall, HostWait, SpuriousHost, InTransit, Slot, HostHolds
<1>2. CASE HostStart \/ HostLock
  BY <1>2 DEF HostStart, HostLock, Acquire, InTransit, Slot, HostHolds
<1>3. CASE HostReset
  BY <1>3 DEF HostReset, InTransit, Slot, HostHolds, TestStillHolds, LockDiscipline, InCS, HostCS, ManagerCS
<1>4. CASE HostRead
  BY <1>4, HeadBeforeTail DEF HostRead, InTransit, Slot, HostHolds
<1>5. CASE HostCopy
  <2>1. /\ count \in 0 .. MAX_BUFFER_SIZE - 1 /\ pc[Host] = "check"
        /\ pc' = [pc EXCEPT ![Host] = "advance"]
        /\ buf' = [buf EXCEPT ![prodptr] = sessionMessage[Host]]
        /\ UNCHANGED <<prodptr, consptr, count, sessionMessage>>
    BY <1>5 DEF HostCopy
  <2>2. \A i : Slot(i)' = Slot(i)
    BY <2>1 DEF Slot
  <2>3. \A i \in 0 .. count - 1 : Slot(i) \in Slots /\ Slot(i) # prodptr
    BY <2>1, SlotsOfRing
  <2>4. \A i \in 0 .. count - 1 : buf'[Slot(i)] = buf[Slot(i)]
    BY <2>1, <2>3
  <2>5. \A m \in Managers : pc[m] # "advance"
    BY <2>1 DEF LockDiscipline, InCS, HostCS, ManagerCS
  <2> QED BY <2>1, <2>2, <2>4, <2>5 DEF InTransit, HostHolds
<1>6. CASE HostAdvance
  <2>1. /\ count \in 0 .. MAX_BUFFER_SIZE - 1 /\ pc[Host] = "advance"
        /\ pc' = [pc EXCEPT ![Host] = "signal"] /\ count' = count + 1
        /\ UNCHANGED <<buf, consptr, sessionMessage>>
    BY <1>6 DEF HostAdvance, TestStillHolds
  <2>2. \A i : Slot(i)' = Slot(i)
    BY <2>1 DEF Slot
  <2>3. buf[Slot(count)] \in Messages
    BY <2>1, SlotsOfRing DEF InTransit, HostHolds
  <2>4. \A i \in 0 .. count' - 1 : i = count \/ i \in 0 .. count - 1
    BY <2>1
  <2>5. \A i \in 0 .. count' - 1 : buf'[Slot(i)'] \in Messages
    BY <2>1, <2>2, <2>3, <2>4 DEF InTransit
  <2> QED BY <2>1, <2>5 DEF InTransit, HostHolds
<1>7. CASE HostSignal
  BY <1>7 DEF HostSignal, InTransit, Slot, HostHolds, LockDiscipline
<1>8. ASSUME NEW m \in Managers, ManagerLock(m) \/ ManagerWait(m) \/ SpuriousManager(m)
      PROVE  InTransit'
  BY <1>8 DEF ManagerLock, Acquire, ManagerWait, SpuriousManager, InTransit, Slot, HostHolds
<1>9. ASSUME NEW m \in Managers, ManagerCopy(m) PROVE InTransit'
  BY <1>9 DEF ManagerCopy, InTransit, Slot, HostHolds
<1>10. ASSUME NEW m \in Managers, ManagerAdvance(m) PROVE InTransit'
  <2>1. /\ count \in 1 .. MAX_BUFFER_SIZE /\ pc[m] = "advance" /\ m # Host
        /\ pc' = [pc EXCEPT ![m] = "signal"] /\ count' = count - 1
        /\ consptr' = Wrap(consptr)
        /\ UNCHANGED <<buf, prodptr, sessionMessage>>
    BY <1>10 DEF ManagerAdvance, TestStillHolds
  <2>2. \A i \in 0 .. count' - 1 : Slot(i)' = Slot(i + 1) /\ i + 1 \in 0 .. count - 1
    BY <2>1, NextSlot
  <2>3. \A i \in 0 .. count' - 1 : buf'[Slot(i)'] \in Messages
    BY <2>1, <2>2 DEF InTransit
  <2>4. sessionMessage[m] = buf[Slot(0)] /\ 0 \in 0 .. count - 1
    BY <2>1, SlotsOfRing DEF InTransit
  <2>5. sessionMessage'[m] \in Messages
    BY <2>1, <2>4 DEF InTransit
  <2>6. \A n \in Managers \ {m} : pc[n] # "advance"
    BY <2>1 DEF LockDiscipline, InCS, ManagerCS
  <2> QED BY <2>1, <2>3, <2>5, <2>6 DEF InTransit, HostHolds
<1>11. ASSUME NEW m \in Managers, ManagerSignal(m) PROVE InTransit'
  BY <1>11 DEF ManagerSignal, InTransit, Slot, HostHolds, LockDiscipline
<1>12. ASSUME NEW m \in Managers, ManagerOpen(m) \/ ManagerOpenFails(m) \/ ManagerFinish(m)
       PROVE  InTransit'
  BY <1>12 DEF ManagerOpen, ManagerOpenFails, ManagerFinish, InTransit, Slot, HostHolds
<1>13. ASSUME UNCHANGED <<ring, pc, sessionMessage>> PROVE InTransit'
  BY <1>13 DEF InTransit, Slot, HostHolds
<1>14. CASE \/ \E c \in Clients : ClientConnect(c)
            \/ \E t \in Threads : HandlerWrites(t)
            \/ \E t \in Threads, s \in Signals : SignalDelivered(t, s)
            \/ SignalKills \/ UNCHANGED vars
  BY <1>13, <1>14 DEF ClientConnect, HandlerWrites, SignalDelivered, SignalKills, vars
<1> QED BY <1>1, <1>2, <1>3, <1>4, <1>5, <1>6, <1>7, <1>8, <1>9, <1>10, <1>11, <1>12, <1>14
        DEF Next, HostStep, ManagerStep, Environment

\* A signal has one handler, which writes it once.
LEMMA NextHandlersApart == FlowInv /\ [Next]_vars => HandlersApart'
<1> SUFFICES ASSUME FlowInv, [Next]_vars PROVE HandlersApart'
  OBVIOUS
<1> USE DistinctAssumption
    DEF FlowInv, RingInv, TypeOK, HandlersApart, pipe, ring, sync, Threads, Messages
<1>1. ASSUME NEW c \in Clients, ClientConnect(c) PROVE HandlersApart'
  BY <1>1 DEF ClientConnect, Put
<1>2. ASSUME NEW t \in Threads, HandlerWrites(t) PROVE HandlersApart'
  BY <1>2 DEF HandlerWrites, Put
<1>3. ASSUME NEW t \in Threads, NEW s \in Signals, SignalDelivered(t, s)
      PROVE  HandlersApart'
  BY <1>3 DEF SignalDelivered
<1>4. CASE HostStep
  BY <1>4 DEF HostStep, HostInstall, HostStart, HostReset, HostRead, HostLock, HostWait,
              HostCopy, HostAdvance, HostSignal, Acquire
<1>5. ASSUME NEW m \in Managers, ManagerStep(m) \/ SpuriousManager(m) PROVE HandlersApart'
  BY <1>5 DEF ManagerStep, ManagerLock, Acquire, ManagerWait, ManagerCopy, ManagerAdvance,
              ManagerSignal, ManagerOpen, ManagerOpenFails, ManagerFinish, SpuriousManager
<1>6. CASE SignalKills \/ SpuriousHost \/ UNCHANGED vars
  BY <1>6 DEF SignalKills, SpuriousHost, vars
<1> QED BY <1>1, <1>2, <1>3, <1>4, <1>5, <1>6 DEF Next, Environment

\* The invariant of the flow of messages holds in every reachable state.
THEOREM FlowInvariant == Spec => []FlowInv
<1>1. FlowInv /\ [Next]_vars => FlowInv'
  BY NextKeepsRing, NextInTransit, NextHandlersApart DEF FlowInv
<1> QED BY <1>1, InitFlow, PTL DEF Spec

-----------------------------------------------------------------------------
(* The refinement, step by step.                                           *)

Serving == [m \in Managers |-> Served(m)]
Up      == server = "running"

\* A step that moves no message does nothing in the registry.
LEMMA Stutters ==
  ASSUME UNCHANGED <<written, Pending, Serving, Up>>
  PROVE  UNCHANGED Registry!regVars
BY DEF Registry!regVars, Serving, Up

\* The ring's contents depend on the ring alone.
LEMMA OccupiedUnchanged ==
  ASSUME UNCHANGED ring
  PROVE  Occupied' = Occupied
BY DEF ring, Occupied, Slot

\* Registered messages: a write to the pipe appends to the queue.
LEMMA WriteRefines ==
  ASSUME FlowInv, NEW s \in Messages, s \notin written, server = "running", Put(s),
         UNCHANGED <<server, ring, pc, sessionMessage>>
  PROVE  Registry!RegWrite(s)
<1>1. Occupied' = Occupied /\ InHand' = InHand /\ Serving' = Serving
  BY OccupiedUnchanged DEF InHand, HostHolds, Serving, Served
<1>2. Pending' = Append(Pending, s)
  BY <1>1, OccupiedType, InHandType, WriteToLast
     DEF Pending, Put, FlowInv, RingInv, TypeOK
<1> QED BY <1>1, <1>2 DEF Registry!RegWrite, Serving, Put

\* The host's steps: a message goes from the pipe to its hands and on to the
\* ring, and the queue as a whole stays as it is.
LEMMA HostRefines ==
  ASSUME FlowInv, FlowInv', HostStep \/ SpuriousHost
  PROVE  UNCHANGED Registry!regVars
<1> USE SizeAssumption, DistinctAssumption
    DEF FlowInv, RingInv, TypeOK, Runs, Goto, pipe, ring, sync, Threads
<1>1. Serving' = Serving
  BY DEF HostStep, HostInstall, HostStart, HostReset, HostRead, HostLock, HostWait,
         HostCopy, HostAdvance, HostSignal, SpuriousHost, Acquire, LockDiscipline,
         Serving, Served
<1>2. UNCHANGED <<written, Up>>
  BY DEF HostStep, HostInstall, HostStart, HostReset, HostRead, HostLock, HostWait,
         HostCopy, HostAdvance, HostSignal, SpuriousHost, Acquire, Up
<1> SUFFICES Pending' = Pending
  BY <1>1, <1>2, Stutters
<1>3. CASE \/ HostInstall \/ HostStart \/ HostLock \/ HostWait \/ HostSignal \/ SpuriousHost
  <2>1. UNCHANGED ring /\ InHand' = InHand /\ f_server' = f_server
    BY <1>3 DEF HostInstall, HostStart, HostLock, HostWait, HostSignal, SpuriousHost,
                Acquire, InHand, HostHolds, LockDiscipline
  <2> QED BY <2>1, OccupiedUnchanged DEF Pending
<1>4. CASE HostReset
  <2>1. UNCHANGED ring /\ InHand' = InHand /\ f_server' = f_server
    BY <1>4 DEF HostReset, InHand, HostHolds, TestStillHolds
  <2> QED BY <2>1, OccupiedUnchanged DEF Pending
<1>5. CASE HostRead
  <2>1. UNCHANGED ring /\ InHand = <<>> /\ InHand' = <<Head(f_server)>>
    BY <1>5 DEF HostRead, InHand, HostHolds
  <2>2. f_server # <<>> /\ f_server' = Tail(f_server) /\ f_server \in Seq(Messages)
    BY <1>5 DEF HostRead
  <2>3. Occupied' = Occupied /\ Occupied \in Seq(Messages)
    BY <2>1, OccupiedUnchanged, OccupiedType
  <2> QED BY <2>1, <2>2, <2>3, MoveToMiddle DEF Pending
<1>6. CASE HostCopy
  <2>1. /\ count \in 0 .. MAX_BUFFER_SIZE - 1
        /\ buf' = [buf EXCEPT ![prodptr] = sessionMessage[Host]]
        /\ UNCHANGED <<prodptr, consptr, count, f_server>> /\ InHand' = InHand
    BY <1>6 DEF HostCopy, InHand, HostHolds
  <2>2. \A i \in 0 .. count - 1 : Slot(i) \in Slots /\ Slot(i) # prodptr
    BY <2>1, SlotsOfRing
  <2>3. \A i \in 1 .. count : buf'[Slot(i - 1)] = buf[Slot(i - 1)]
    BY <2>1, <2>2
  <2>4. Occupied' = Occupied
    BY <2>1, <2>3 DEF Occupied, Slot
  <2> QED BY <2>1, <2>4 DEF Pending
<1>7. CASE HostAdvance
  <2> DEFINE x == sessionMessage[Host]
  <2>1. /\ count \in 0 .. MAX_BUFFER_SIZE - 1 /\ count' = count + 1 /\ pc[Host] = "advance"
        /\ UNCHANGED <<buf, consptr, f_server>> /\ InHand = <<x>> /\ InHand' = <<>>
    BY <1>7 DEF HostAdvance, InHand, HostHolds, TestStillHolds
  <2>2. x \in Messages /\ buf[Slot(count)] = x
    BY <2>1, SlotsOfRing DEF InTransit, HostHolds
  <2>3. /\ Occupied \in Seq(Messages) /\ Len(Occupied) = count
        /\ \A i \in 1 .. count : Occupied[i] = buf[Slot(i - 1)]
    BY OccupiedType
  <2>4. /\ Occupied' \in Seq(Messages) /\ Len(Occupied') = count + 1
        /\ \A i \in 1 .. count + 1 : Occupied'[i] = buf[Slot(i - 1)]
    <3>1. Occupied' = [i \in 1 .. count + 1 |-> buf[Slot(i - 1)]]
      BY <2>1 DEF Occupied, Slot
    <3>2. \A i \in 1 .. count + 1 : buf[Slot(i - 1)] \in Messages
      BY <2>1, <2>2 DEF InTransit
    <3>3. Occupied' \in Seq(Messages)
      BY <2>1, <3>1, <3>2, SeqDef
    <3>4. Len(Occupied') = count + 1
      BY <2>1, <3>1, <3>3, LenProperties
    <3> QED BY <3>1, <3>3, <3>4
  <2>5. Occupied' = Append(Occupied, x)
    <3>1. /\ Append(Occupied, x) \in Seq(Messages) /\ Len(Append(Occupied, x)) = count + 1
          /\ \A i \in 1 .. count : Append(Occupied, x)[i] = Occupied[i]
          /\ Append(Occupied, x)[count + 1] = x
      BY <2>2, <2>3, AppendProperties
    <3> HIDE DEF x
    <3>2. Occupied'[count + 1] = x
      <4>1. count + 1 \in 1 .. count + 1 /\ count + 1 - 1 = count
        BY <2>1
      <4> QED BY <4>1, <2>2, <2>4
    <3>3. ASSUME NEW i \in 1 .. count PROVE Occupied'[i] = Occupied[i]
      <4>1. i \in 1 .. count + 1
        BY <2>1
      <4> QED BY <4>1, <2>3, <2>4
    <3>4. \A i \in 1 .. count + 1 : Occupied'[i] = Append(Occupied, x)[i]
      <4>1. \A i \in 1 .. count + 1 : i \in 1 .. count \/ i = count + 1
        BY <2>1
      <4> QED BY <4>1, <3>1, <3>2, <3>3
    <3> QED BY <2>4, <3>1, <3>4, SeqEqual
  <2> QED BY <2>1, <2>2, <2>3, <2>5, MoveToFirst DEF Pending
<1> QED BY <1>3, <1>4, <1>5, <1>6, <1>7 DEF HostStep

\* The oldest message of the queue is the one in the consumer's slot.
LEMMA TakeOccupied ==
  ASSUME TypeOK, InTransit, InTransit', TypeOK', count > 0, count' = count - 1,
         consptr' = Wrap(consptr), buf' = buf
  PROVE  /\ Occupied # <<>> /\ Head(Occupied) = buf[consptr]
         /\ Occupied' = Tail(Occupied)
<1>1. /\ Occupied \in Seq(Messages) /\ Len(Occupied) = count
      /\ \A i \in 1 .. count : Occupied[i] = buf[Slot(i - 1)]
  BY OccupiedType
<1>2. /\ Occupied' \in Seq(Messages) /\ Len(Occupied') = count'
      /\ \A i \in 1 .. count' : Occupied'[i] = buf'[Slot(i - 1)']
  <2>1. count' \in Nat
    BY SizeAssumption DEF TypeOK
  <2>2. \A i \in 1 .. count' : buf'[Slot(i - 1)'] \in Messages
    BY <2>1 DEF InTransit
  <2>3. Occupied' \in [1 .. count' -> Messages]
    BY <2>2 DEF Occupied
  <2>4. Occupied' \in Seq(Messages)
    BY <2>1, <2>3, SeqDef
  <2>5. Len(Occupied') = count'
    BY <2>1, <2>3, <2>4, LenProperties
  <2> QED BY <2>4, <2>5 DEF Occupied
<1>3. count \in Nat /\ count' \in Nat
  BY SizeAssumption DEF TypeOK
<1>4. Occupied # <<>>
  BY <1>1, <1>3, EmptySeq
<1>5. Head(Occupied) = buf[consptr]
  <2>1. Slot(0) = consptr
    BY SizeAssumption DEF TypeOK, Slots, Slot
  <2>2. 1 \in 1 .. count /\ 1 - 1 = 0
    BY <1>3
  <2>3. Head(Occupied) = Occupied[1]
    BY <1>1, <1>4 DEF Head
  <2> QED BY <1>1, <2>1, <2>2, <2>3
<1>6. /\ Tail(Occupied) \in Seq(Messages) /\ Len(Tail(Occupied)) = count'
      /\ \A i \in 1 .. count' : Tail(Occupied)[i] = Occupied[i + 1]
  BY <1>1, <1>4, HeadTailProperties
<1>7. ASSUME NEW i \in 1 .. count' PROVE Occupied'[i] = Tail(Occupied)[i]
  <2>1. i - 1 \in 0 .. count' - 1 /\ i + 1 \in 1 .. count /\ (i - 1) + 1 = (i + 1) - 1
    BY <1>3
  <2>2. Slot(i - 1)' = Slot((i + 1) - 1)
    BY <2>1, NextSlot
  <2> QED BY <1>1, <1>2, <1>6, <2>1, <2>2
<1> QED BY <1>2, <1>4, <1>5, <1>6, <1>7, SeqEqual

\* A manager's steps: to move the index is to take the oldest message, to go for
\* the next session is to finish with the client.
LEMMA ManagerRefines ==
  ASSUME FlowInv, FlowInv', NEW m \in Managers, ManagerStep(m) \/ SpuriousManager(m)
  PROVE  Registry!RegNext \/ UNCHANGED Registry!regVars
<1> USE DistinctAssumption
    DEF FlowInv, RingInv, TypeOK, Runs, Goto, pipe, ring, sync, Threads
<1>1. InHand' = InHand
  BY DEF ManagerStep, ManagerLock, Acquire, ManagerWait, ManagerCopy, ManagerAdvance,
         ManagerSignal, ManagerOpen, ManagerOpenFails, ManagerFinish, SpuriousManager,
         LockDiscipline, InHand, HostHolds
<1>2. CASE \/ ManagerLock(m) \/ ManagerWait(m) \/ ManagerCopy(m) \/ ManagerSignal(m)
           \/ ManagerOpen(m) \/ SpuriousManager(m)
  <2>1. UNCHANGED <<ring, f_server, written, server>>
    BY <1>2 DEF ManagerLock, Acquire, ManagerWait, ManagerCopy, ManagerSignal, ManagerOpen,
                SpuriousManager
  <2>2. Serving' = Serving
    BY <1>2 DEF ManagerLock, Acquire, ManagerWait, ManagerCopy, ManagerSignal, ManagerOpen,
                SpuriousManager, Serving, Served
  <2> QED BY <1>1, <2>1, <2>2, OccupiedUnchanged, Stutters DEF Pending, Up
<1>3. CASE ManagerAdvance(m)
  <2>1. /\ server = "running" /\ count > 0 /\ count' = count - 1 /\ pc[m] = "advance"
        /\ consptr' = Wrap(consptr) /\ pc' = [pc EXCEPT ![m] = "signal"]
        /\ UNCHANGED <<server, buf, written, f_server, sessionMessage>>
    BY <1>3, SizeAssumption DEF ManagerAdvance, TestStillHolds
  <2>2. /\ Occupied # <<>> /\ Head(Occupied) = sessionMessage[m]
        /\ Occupied' = Tail(Occupied)
    BY <2>1, TakeOccupied DEF InTransit
  <2>3. /\ Pending # <<>> /\ Head(Pending) = sessionMessage[m]
        /\ Pending' = Tail(Pending)
    <3>1. Occupied \in Seq(Messages) /\ InHand \in Seq(Messages) /\ f_server \in Seq(Messages)
      BY OccupiedType, InHandType
    <3>2. Pending = Occupied \o InHand \o f_server
      BY DEF Pending
    <3>3. /\ Pending # <<>> /\ Head(Pending) = Head(Occupied)
          /\ Tail(Pending) = Tail(Occupied) \o InHand \o f_server
      BY <2>2, <3>1, <3>2, TakeFromFirst
    <3>4. Pending' = Tail(Occupied) \o InHand \o f_server
      BY <1>1, <2>1, <2>2 DEF Pending
    <3> QED BY <2>2, <3>3, <3>4
  <2>4. Serving[m] = NoMsg /\ Serving' = [Serving EXCEPT ![m] = sessionMessage[m]]
    BY <2>1 DEF Serving, Served
  <2>5. Registry!RegTake(m)
    BY <2>1, <2>3, <2>4 DEF Registry!RegTake, Serving
  <2> QED BY <2>5 DEF Registry!RegNext
<1>4. CASE ManagerOpenFails(m)
  <2>1. /\ server = "running" /\ server' = "exited"
        /\ UNCHANGED <<ring, written, f_server, pc, sessionMessage>>
    BY <1>4 DEF ManagerOpenFails
  <2>2. Pending' = Pending /\ Serving' = Serving
    BY <1>1, <2>1, OccupiedUnchanged DEF Pending, Serving, Served
  <2> QED BY <2>1, <2>2 DEF Registry!RegNext, Registry!RegExit, Serving
<1>5. CASE ManagerFinish(m)
  <2>1. /\ server = "running" /\ pc[m] = "attend" /\ pc' = [pc EXCEPT ![m] = "lock"]
        /\ UNCHANGED <<server, ring, written, f_server, sessionMessage>>
    BY <1>5 DEF ManagerFinish
  <2>2. Pending' = Pending
    BY <1>1, <2>1, OccupiedUnchanged DEF Pending
  <2>3. Serving[m] # NoMsg /\ Serving' = [Serving EXCEPT ![m] = NoMsg]
    <3>1. sessionMessage[m] # NoMsg
      BY <2>1 DEF InTransit
    <3> QED BY <2>1, <3>1 DEF Serving, Served
  <2>4. Registry!RegFinish(m)
    BY <2>1, <2>2, <2>3 DEF Registry!RegFinish, Serving
  <2> QED BY <2>4 DEF Registry!RegNext
<1> QED BY <1>2, <1>3, <1>4, <1>5 DEF ManagerStep

\* The initial state of the threads is the empty registry.
LEMMA InitRefines == Init => Registry!RegInit
<1> SUFFICES ASSUME Init PROVE Registry!RegInit
  OBVIOUS
<1>1. count = 0 /\ f_server = <<>> /\ InHand = <<>> /\ Serving = [m \in Managers |-> NoMsg]
  BY DistinctAssumption DEF Init, InHand, HostHolds, Serving, Served, Threads
<1>2. Occupied = <<>>
  <2>1. FlowInv
    BY InitFlow
  <2>2. Occupied \in Seq(Messages) /\ Len(Occupied) = 0
    BY <1>1, <2>1, OccupiedType DEF FlowInv, RingInv
  <2> QED BY <2>2, EmptySeq
<1>3. <<>> \in Seq(Messages) /\ <<>> \o <<>> = <<>>
  BY EmptySeq, ConcatEmptySeq
<1> QED BY <1>1, <1>2, <1>3 DEF Init, Registry!RegInit, Pending, Serving

\* Each message that reaches the pipe is taken by exactly one manager, in the
\* order of the writes: the threads, the pipe and the ring implement the registry.
THEOREM SessionQueueImplementsRegistry == Spec => TakenOnceInOrder
<1>1. FlowInv /\ FlowInv' /\ [Next]_vars => [Registry!RegNext]_(Registry!regVars)
  <2> SUFFICES ASSUME FlowInv, FlowInv', [Next]_vars
               PROVE  Registry!RegNext \/ UNCHANGED Registry!regVars
    OBVIOUS
  <2>1. CASE HostStep \/ SpuriousHost
    BY <2>1, HostRefines
  <2>2. ASSUME NEW m \in Managers, ManagerStep(m) \/ SpuriousManager(m)
        PROVE  Registry!RegNext \/ UNCHANGED Registry!regVars
    BY <2>2, ManagerRefines
  <2>3. ASSUME NEW c \in Clients, ClientConnect(c) PROVE Registry!RegNext
    <3>1. Registry!RegWrite(c)
      BY <2>3, WriteRefines DEF ClientConnect, Messages
    <3> QED BY <3>1 DEF Registry!RegNext, Messages
  <2>4. ASSUME NEW t \in Threads, HandlerWrites(t) PROVE Registry!RegNext
    <3>1. handler[t] \in Messages /\ handler[t] \notin written
      BY <2>4 DEF HandlerWrites, FlowInv, RingInv, TypeOK, HandlersApart, Messages
    <3>2. Registry!RegWrite(handler[t])
      BY <2>4, <3>1, WriteRefines DEF HandlerWrites
    <3> QED BY <3>1, <3>2 DEF Registry!RegNext
  <2>5. ASSUME UNCHANGED <<ring, f_server, written, pc, sessionMessage>>
        PROVE  UNCHANGED <<written, Pending, Serving>>
    BY <2>5, OccupiedUnchanged DEF Pending, InHand, HostHolds, Serving, Served
  <2>6. CASE \/ \E t \in Threads, s \in Signals : SignalDelivered(t, s)
             \/ UNCHANGED vars
    BY <2>5, <2>6, Stutters DEF SignalDelivered, vars, pipe, Up
  <2>7. CASE SignalKills
    <3>1. UNCHANGED <<written, Pending, Serving>>
      BY <2>5, <2>7 DEF SignalKills, pipe
    <3> QED BY <2>7, <3>1 DEF SignalKills, Registry!RegNext, Registry!RegExit, Serving
  <2> QED BY <2>1, <2>2, <2>3, <2>4, <2>6, <2>7 DEF Next, Environment
<1> QED BY <1>1, InitRefines, FlowInvariant, PTL
        DEF Spec, TakenOnceInOrder, Registry!RegSpec
=============================================================================
