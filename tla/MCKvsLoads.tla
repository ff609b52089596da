----------------------------- MODULE MCKvsLoads -----------------------------
(* One instance of KvsServer under two loads, so that each keeps to a number *)
(* of states that TLC can visit: batches of job threads alone, or jobs that  *)
(* work on one key while a client comes and goes.                            *)
EXTENDS MCKvsServer

VARIABLE load

InLoad ==
  /\ \A t \in Jobs :
       cmd[t] = NoCommand \/ cmd[t] \in IF load = "batches" THEN AtomicCommands ELSE ClientCommands
  /\ \A m \in Managers :
       /\ load = "batches" => f_notif[m] = NoFd
       /\ cmd[m] = NoCommand \/ cmd[m].op = "DISCONNECT" \/ cmd[m].key = a

MCInit == Init /\ load \in {"batches", "clients"}
MCNext == Next /\ UNCHANGED load /\ InLoad'

\* Fairness asks for no step that a load leaves out: nobody has to issue a
\* command, connect or ask.
MCSpec == MCInit /\ [][MCNext]_<<vars, load>> /\ Fairness
=============================================================================
