---------------------------- MODULE MCKvsServer ----------------------------
(* Small instances of KvsServer for TLC.                                   *)
EXTENDS KvsServer

CONSTANTS a, b, c, v1, v2

\* a and c share bucket 0; b is alone in bucket 1.
MCKeys   == {a, b, c}
MCHash   == [k \in MCKeys |-> IF k = b THEN 1 ELSE 0]
OneKey   == {a}
OneHash  == [k \in OneKey |-> 0]
TwoKeys  == {a, b}
TwoHash  == [k \in TwoKeys |-> IF k = b THEN 1 ELSE 0]

Write(pairs) == [cmd |-> "WRITE", args |-> pairs]
Delete(keys) == [cmd |-> "DELETE", args |-> keys]
Read(keys)   == [cmd |-> "READ", args |-> keys]
Show         == [cmd |-> "SHOW", args |-> <<>>]
Backup       == [cmd |-> "BACKUP", args |-> <<>>]

\* Batches of two with collisions, repeated keys and absent keys.
AtomicCommands ==
  { Write(<<<<a, v1>>, <<b, v1>>>>), Write(<<<<c, v2>>, <<a, v2>>>>),
    Delete(<<a, b>>), Delete(<<c, c>>), Read(<<a, b>>), Show, Backup }

\* What a subscriber sees: changes of a value, deletion, insertion again.
ClientCommands ==
  { Write(<<<<a, v1>>>>), Write(<<<<a, v2>>>>), Delete(<<a>>) }

AllCommands == AtomicCommands \cup ClientCommands

\* A writer and a reader.
LiveCommands == { Write(<<<<a, v1>>>>), Read(<<a>>) }

\* Keys of the two buckets get their values one by one.
DisconnectCommands == { Write(<<<<a, v1>>>>), Write(<<<<b, v1>>>>) }
=============================================================================
