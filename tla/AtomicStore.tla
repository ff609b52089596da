---------------------------- MODULE AtomicStore ----------------------------
(***************************************************************************)
(* What the key-value store promises to a job: a whole WRITE, READ,        *)
(* DELETE, SHOW or BACKUP command takes effect in one indivisible step     *)
(* between its start and its end.  KvsServer implements this module.       *)
(*                                                                         *)
(* An answer is the set of pairs that the command prints; Missing as a     *)
(* value stands for KVSERROR (READ) and KVSMISSING (DELETE).               *)
(***************************************************************************)
EXTENDS Naturals, Sequences

CONSTANTS Jobs,          \* job threads
          Keys, Values, Missing,
          StoreCommands, \* the commands jobs may issue
          NoCommand

VARIABLES store,      \* [Keys -> Values \cup {Missing}]
          pending,    \* pending[t]: the command that job t is executing
          answer      \* answer[t]: what its last complete command printed

storeVars == <<store, pending, answer>>

StoreInit == /\ store = [k \in Keys |-> Missing]
             /\ pending = [t \in Jobs |-> NoCommand]
             /\ answer = [t \in Jobs |-> {}]

\* In a batch that names a key twice the last pair wins.
Written(c, k) == {i \in DOMAIN c.args : c.args[i][1] = k}
AfterWrite(c) ==
  [k \in Keys |->
     IF Written(c, k) = {} THEN store[k]
     ELSE c.args[CHOOSE i \in Written(c, k) : \A j \in Written(c, k) : j <= i][2]]

Named(c) == {c.args[i] : i \in DOMAIN c.args}

\* A DELETE reports the keys it does not find: also one it deleted itself.
NotFound(c) == {k \in Named(c) :
                  \/ store[k] = Missing
                  \/ \E i, j \in DOMAIN c.args : i # j /\ c.args[i] = k /\ c.args[j] = k}

Effect(c) ==
  CASE c.cmd = "WRITE"  -> AfterWrite(c)
    [] c.cmd = "DELETE" -> [k \in Keys |-> IF k \in Named(c) THEN Missing ELSE store[k]]
    [] OTHER            -> store

Printed(c) ==
  CASE c.cmd = "WRITE"  -> {}
    [] c.cmd = "DELETE" -> {<<k, Missing>> : k \in NotFound(c)}
    [] c.cmd = "READ"   -> {<<k, store[k]>> : k \in Named(c)}
    [] OTHER            -> {<<k, store[k]>> : k \in {x \in Keys : store[x] # Missing}}

StoreBegin(t, c) == /\ pending[t] = NoCommand
                    /\ pending' = [pending EXCEPT ![t] = c]
                    /\ answer' = [answer EXCEPT ![t] = {}]
                    /\ UNCHANGED store

StoreExecute(t) == /\ pending[t] # NoCommand
                   /\ store' = Effect(pending[t])
                   /\ answer' = [answer EXCEPT ![t] = Printed(pending[t])]
                   /\ pending' = [pending EXCEPT ![t] = NoCommand]

StoreNext == \E t \in Jobs : StoreExecute(t) \/ \E c \in StoreCommands : StoreBegin(t, c)

StoreSpec == StoreInit /\ [][StoreNext]_storeVars
=============================================================================
