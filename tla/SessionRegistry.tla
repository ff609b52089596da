-------------------------- MODULE SessionRegistry --------------------------
(***************************************************************************)
(* What the session layer of SO/projeto_2's server promises to a client    *)
(* that wrote its connection message to the registration pipe: messages    *)
(* are taken in the order in which they were written, each by exactly one  *)
(* manager thread, until a manager stops the whole server with exit(1).    *)
(* SessionQueue, the pipe + host thread + ring + manager threads of        *)
(* server/main.c, is shown to implement this module.                       *)
(***************************************************************************)
EXTENDS Naturals, Sequences

CONSTANTS Messages,   \* connection messages that may be written
          Managers,   \* the manager threads
          NoMsg       \* "no message"

VARIABLES written,    \* messages written so far
          queue,      \* written and not yet taken, oldest first
          serving,    \* serving[m]: the message manager m has taken, or NoMsg
          up          \* FALSE once the server has exited

regVars == <<written, queue, serving, up>>

RegInit == /\ written = {}
           /\ queue = <<>>
           /\ serving = [m \in Managers |-> NoMsg]
           /\ up = TRUE

\* A client (or the signal handler) writes a message.
RegWrite(s) == /\ up
               /\ s \notin written
               /\ written' = written \cup {s}
               /\ queue' = Append(queue, s)
               /\ UNCHANGED <<serving, up>>

\* A free manager takes the oldest message.
RegTake(m) == /\ up
              /\ serving[m] = NoMsg
              /\ queue # <<>>
              /\ serving' = [serving EXCEPT ![m] = Head(queue)]
              /\ queue' = Tail(queue)
              /\ UNCHANGED <<written, up>>

\* The client of manager m disconnects.
RegFinish(m) == /\ up
                /\ serving[m] # NoMsg
                /\ serving' = [serving EXCEPT ![m] = NoMsg]
                /\ UNCHANGED <<written, queue, up>>

\* A manager that cannot open a client's pipe stops the server.
RegExit == /\ up
           /\ up' = FALSE
           /\ UNCHANGED <<written, queue, serving>>

RegNext == \/ \E s \in Messages : RegWrite(s)
           \/ \E m \in Managers : RegTake(m) \/ RegFinish(m)
           \/ RegExit

RegSpec == RegInit /\ [][RegNext]_regVars
=============================================================================
