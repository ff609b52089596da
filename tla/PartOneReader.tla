--------------------------- MODULE PartOneReader ---------------------------
(***************************************************************************)
(* The same loop in SO/projeto_1: main.c readFilesLines over its parser.c, *)
(* which parses as the later one does but for a read that fails.           *)
(***************************************************************************)
EXTENDS JobReader

VARIABLE readable   \* FALSE: open() gave -1, or the file is a directory

\* (Faulty variant for mutation: the end of the file is not looked for.)
NextEndless(in, p) ==
  IF get_next(in, p).name = "EOC" THEN {Command("CMD_EMPTY", p)} ELSE {get_next(in, p)}

\* Only a read of no characters is the end.  One that fails leaves buf as it
\* was: whatever letter is in it, no further read gives a command.
get_next_1(in, p) ==
  IF readable THEN {get_next(in, p)}
              ELSE {Command(name, p) : name \in {"CMD_INVALID", "CMD_EMPTY"}}

readFilesLines == /\ ~ended
                  /\ \E c \in get_next_1(text, pos) : Serve(c)
                  /\ UNCHANGED readable
=============================================================================
