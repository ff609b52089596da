----------------------------- MODULE JobReader -----------------------------
(***************************************************************************)
(* How a job file becomes commands: run_job of SO/projeto_2's server over  *)
(* the parser, one get_next and the parsing and carrying out of its        *)
(* command per step.  What a command does to the table is KvsServer's;     *)
(* here it is recorded in done.                                            *)
(***************************************************************************)
EXTENDS Parser

VARIABLES
  text,    \* what the descriptor reads
  pos,     \* how far it has been read
  done,    \* the commands carried out, in order
  ended    \* the loop has returned

vars == <<text, pos, done, ended>>

Begin(in) == text = in /\ pos = 1 /\ done = <<>> /\ ended = FALSE

\* A command whose arguments are refused is reported and left out.
Carry(name, parsed) ==
  /\ \E q \in {parsed} :
       /\ pos' = q.next
       /\ done' = IF q.args = <<>> THEN done ELSE Append(done, [name |-> name, args |-> q.args])
  /\ UNCHANGED <<text, ended>>

Write(c)  == c.name = "CMD_WRITE" /\ Carry("WRITE", parse_write(text, c.next))
Read(c)   == c.name = "CMD_READ" /\ Carry("READ", parse_read_delete(text, c.next))
Delete(c) == c.name = "CMD_DELETE" /\ Carry("DELETE", parse_read_delete(text, c.next))

\* A wait of zero is none.
Wait(c) ==
  LET wait == parse_wait(text, c.next)
  IN  /\ c.name = "CMD_WAIT"
      /\ Carry("WAIT", IF wait.args = <<0>> THEN Parsed(<<>>, wait.next) ELSE wait)

Show(c)   == c.name = "CMD_SHOW" /\ Carry("SHOW", Parsed(<<"all">>, c.next))
Backup(c) == c.name = "CMD_BACKUP" /\ Carry("BACKUP", Parsed(<<"all">>, c.next))

\* Help and complaints go to the terminal.
Pass(c) == /\ c.name \in {"CMD_HELP", "CMD_INVALID", "CMD_EMPTY"}
           /\ Carry("", Parsed(<<>>, c.next))

End(c) == /\ c.name = "EOC"
          /\ ended' = TRUE
          /\ UNCHANGED <<text, pos, done>>

Serve(c) == Write(c) \/ Read(c) \/ Delete(c) \/ Wait(c) \/ Show(c) \/ Backup(c) \/ Pass(c) \/ End(c)

run_job == ~ended /\ \E c \in {get_next(text, pos)} : Serve(c)
=============================================================================
