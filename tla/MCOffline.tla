----------------------------- MODULE MCOffline -----------------------------
(***************************************************************************)
(* The programs that work alone on their input: the readers of job files   *)
(* and of a client's commands, line by line, the cutting of sheets, strip  *)
(* by strip, and the longest path, in one step.                            *)
(***************************************************************************)
EXTENDS PartOneReader, ClientReader, LongestPath, PaperCutting, FiniteSets

G == INSTANCE Graphs

CONSTANTS ScriptLines   \* most lines of a script

VARIABLES program, input, answer

offlineVars == <<clientVars, readable, program, input, answer, cuttingVars>>

(***************************************************************************)
(* Scripts: lines, what each is meant to do by the grammar and the limits  *)
(* that parser.h and constants.h state, and how many of the lines          *)
(* behind it a line takes with it because the parser goes past its newline *)
(* before it refuses it.                                                   *)
(***************************************************************************)
Line(in, gives, takes) == [line |-> in, gives |-> gives, takes |-> takes]
Gives(name, args) == <<[name |-> name, args |-> args]>>
Pair(k, v) == [key |-> k, value |-> v]

JobLines == {
  Line("WRITE [(a,b)(c,d)]\n", Gives("WRITE", <<Pair("a", "b"), Pair("c", "d")>>), 0),
  Line("WRITE [(a,b)(c,d)(e,f)]\n", Gives("WRITE", <<Pair("a", "b"), Pair("c", "d"), Pair("e", "f")>>), 0),
  Line("WRITE [(a,b)(c,d)(e,f)(g,h)]\n", <<>>, 0),  \* more than MAX_WRITE_SIZE pairs
  Line("WRITE [(a,b)x\n", <<>>, 0),
  Line("WRITE [(a b)]\n", <<>>, 1),            \* parse_pair skips a line, parse_write another
  Line("READ [a,b]\n", Gives("READ", <<"a", "b">>), 0),
  Line("READ [a,b,c]\n", Gives("READ", <<"a", "b", "c">>), 0),
  Line("READ [a)\n", <<>>, 0),
  Line("READ [abcdef]\n", <<>>, 0),            \* longer than a key
  Line("DELETE [a]\n", Gives("DELETE", <<"a">>), 0),
  Line("SHOW\n", Gives("SHOW", <<"all">>), 0),
  Line("SHOWS\n", <<>>, 0),
  Line("HEL\n", <<>>, 1),                      \* read as four characters of a name
  Line("BACKUP\n", Gives("BACKUP", <<"all">>), 0),
  Line("WAIT 10 2\n", Gives("WAIT", <<10>>), 0),
  Line("WAIT 0\n", <<>>, 0),
  Line("WAIT 100\n", <<>>, 1),                 \* above UINT_MAX: refused behind the newline
  Line("HELP\n", <<>>, 0),
  Line("# SHOW\n", <<>>, 0),
  Line("\n", <<>>, 0)}

LastLines == {Line("", <<>>, 0), Line("SHOW", Gives("SHOW", <<"all">>), 0),
              Line("READ [a]", Gives("READ", <<"a">>), 0)}

ClientLines == {
  Line("SUBSCRIBE [a]\n", Gives("SUBSCRIBE", <<"a">>), 0),
  Line("SUBSCRIBE []\n", Gives("SUBSCRIBE", <<"">>), 0),
  Line("SUBSCRIBE a\n", <<>>, 0),
  Line("SUBSCRIBE [ab\n", <<>>, 0),            \* longer than one read
  Line("UNSUBSCRIBE [b]\n", Gives("UNSUBSCRIBE", <<"b">>), 0),
  Line("DELAY 10\n", Gives("DELAY", <<10>>), 0),
  Line("DELAY 0\n", <<>>, 0),
  Line("DELAY 100\n", <<>>, 1),
  Line("DISCONNECT\n", Gives("DISCONNECT", <<"all">>), 0),
  Line("DISCONNECT now\n", <<>>, 0),
  Line("# SUBSCRIBE [a]\n", <<>>, 0),
  Line("\n", <<>>, 0)}

Text(script) == FoldLeft(LAMBDA t, l : t \o l.line, "", script)

RECURSIVE Meant(_)
Meant(script) ==
  IF script = <<>> THEN <<>>
  ELSE LET l == Head(script)
       IN  l.gives \o Meant(SubSeq(script, 2 + l.takes, Len(script)))

\* Client commands up to the one that disconnects, which the end does, too.
MeantByClient(script) ==
  LET all  == Meant(script) \o Gives("DISCONNECT", <<"all">>)
      last == Min({i \in 1 .. Len(all) : all[i].name = "DISCONNECT"})
  IN  SubSeq(all, 1, last)

(***************************************************************************)
(* Graphs, and sheets with their pieces.                                   *)
(***************************************************************************)
Sorted(S, order) == SetToSortSeq(S, LAMBDA v, w : IF order = "up" THEN v < w ELSE v > w)
AdjacencyLists ==
  {[v \in 1 .. 3 |-> Sorted(out[v], order)] : out \in [1 .. 3 -> SUBSET (1 .. 3)], order \in {"up", "down"}}
  \union {[v \in 1 .. 4 |-> Sorted(out[v] \ {v}, "up")] : out \in [1 .. 4 -> SUBSET (1 .. 4)]}

MCPieces == {<<s[1], s[2], p>> : s \in {<<1, 1>>, <<1, 2>>, <<2, 1>>, <<1, 3>>, <<3, 1>>, <<2, 2>>}, p \in {1, 3, 4}}
NoSheet  == [width |-> 1, length |-> 0, pieces |-> <<>>]
MCSheets ==
  {[width |-> s[1], length |-> s[2], pieces |-> pieces] :
     s \in ({1} \X (0 .. 5)) \union ((2 .. 5) \X {1}) \union {<<2, 2>>},
     pieces \in UNION {[1 .. n -> MCPieces] : n \in 0 .. 2}}

Edges(adjList) == UNION {{<<v, w>> : w \in Range(adjList[v])} : v \in DOMAIN adjList}
Reaches(adjList) == G!ConnectionsIn([node |-> DOMAIN adjList, edge |-> Edges(adjList)])
HasPath(adjList, n) ==
  \E f \in [0 .. n -> DOMAIN adjList] : \A i \in 1 .. n : <<f[i - 1], f[i]>> \in Edges(adjList)
Longest(adjList) == Max({n \in 0 .. Len(adjList) - 1 : HasPath(adjList, n)})

(***************************************************************************)
(* The behaviours.                                                         *)
(***************************************************************************)
NoAnswer == <<>>

Readers == {"server", "part one", "client"}
Lines == IF program = "client" THEN ClientLines ELSE JobLines

\* Before a reader starts, its script is written; pos is 0 until then.
MCInit ==
  /\ answer = NoAnswer /\ key = Garbage /\ terminal = TRUE
  /\ text = "" /\ pos = 0 /\ done = <<>> /\ ended = FALSE
  /\ \/ program \in Readers /\ input = <<>>
     \/ program = "longest_path" /\ input \in AdjacencyLists
     \/ program = "cutting" /\ input = <<>>
  /\ Init /\ (program # "cutting" => sheet = NoSheet)
  /\ readable \in IF program = "part one" THEN BOOLEAN ELSE {TRUE}

WriteLine ==
  /\ program \in Readers /\ pos = 0 /\ readable
  /\ Len(input) < ScriptLines
  /\ input' \in {Append(input, l) : l \in Lines}
  /\ UNCHANGED <<clientVars, readable, answer>>

Open ==
  /\ program \in Readers /\ pos = 0
  /\ \E l \in IF program = "client" THEN {Line("", <<>>, 0)} ELSE LastLines :
       /\ input' = Append(input, l)
       /\ text' = IF readable THEN Text(input') ELSE ""
  /\ pos' = 1
  /\ UNCHANGED <<done, ended, terminal, key, readable, answer>>

Solve ==
  /\ program = "longest_path" /\ answer = NoAnswer
  /\ answer' = <<LongestPathOf(input)>>
  /\ UNCHANGED <<clientVars, readable, input>>

OneCommand ==
  /\ pos > 0
  /\ \/ program = "server" /\ run_job /\ UNCHANGED <<readable, terminal, key>>
     \/ program = "part one" /\ readFilesLines /\ UNCHANGED <<terminal, key>>
     \/ program = "client" /\ client_main /\ UNCHANGED readable
  /\ UNCHANGED <<input, answer>>

Reading == (WriteLine \/ Open \/ OneCommand) /\ UNCHANGED <<program, cuttingVars>>

Cutting == program = "cutting" /\ Next /\ UNCHANGED <<clientVars, readable, program, input, answer>>

MCNext == Reading \/ Cutting \/ (Solve /\ UNCHANGED <<program, cuttingVars>>)

\* A program goes on as long as it can.
MCSpec == MCInit /\ [][MCNext]_offlineVars /\ WF_offlineVars(Reading)

(***************************************************************************)
(* Properties.                                                             *)
(***************************************************************************)
\* A WRITE, READ or DELETE with as many pairs or keys as parser.h allows at most, or
\* on a last line without a newline: parser.c refuses both.
Refused(l) ==
  \E i \in DOMAIN l.gives :
    /\ l.gives[i].name \in {"WRITE", "READ", "DELETE"}
    /\ Len(l.gives[i].args) = MAX_WRITE_SIZE \/ Ch(l.line, Len(l.line)) # "\n"

\* A script does what its lines are meant to do, in their order, and a line
\* that is refused harms the others no further than takes says; except that
\* full commands and unfinished last lines are refused as well.
LinesDone ==
  ended => done = IF program = "client" THEN MeantByClient(input)
                  ELSE Meant([i \in DOMAIN input |->
                                IF Refused(input[i]) THEN [input[i] EXCEPT !.gives = <<>>] ELSE input[i]])

\* Every reader comes to the end of its input, however many of its lines are
\* refused; readFilesLines only if the file can be read.
ReadersEnd == <>(program \notin Readers \/ ended \/ ~readable)

\* Kosaraju and Sharir's algorithm numbers two vertices alike exactly if each
\* can be reached from the other, whatever the order of the neighbours.
ComponentsRight ==
  program = "longest_path" =>
    LET reaches == Reaches(input)
        c == Components(input)
    IN  \A v, w \in DOMAIN input : c.sccArray[v] = c.sccArray[w] <=> reaches[v, w] /\ reaches[w, v]

\* Without cycles the answer is the length of the longest path, and nothing is
\* read outside of dag.
LongestWithoutCycles ==
  program = "longest_path" /\ answer # NoAnswer /\ ~HasPath(input, Len(input)) =>
    answer = <<[longest |-> Longest(input), outside |-> FALSE]>>

(***************************************************************************)
(* The script of the repository's tests, read from the file.               *)
(***************************************************************************)
TestScript == <<
  Line("DELAY 5000\n", Gives("DELAY", <<5000>>), 0),
  Line("SUBSCRIBE [a]\n", Gives("SUBSCRIBE", <<"a">>), 0),
  Line("SUBSCRIBE [NONE]\n", Gives("SUBSCRIBE", <<"NONE">>), 0),
  Line("DELAY 10000\n", Gives("DELAY", <<10000>>), 0),
  Line("UNSUBSCRIBE [a]\n", Gives("UNSUBSCRIBE", <<"a">>), 0),
  Line("DISCONNECT\n", Gives("DISCONNECT", <<"all">>), 0)>>

TestSpec ==
  /\ answer = NoAnswer /\ key = Garbage /\ terminal = FALSE /\ readable = TRUE
  /\ program = "client" /\ input = TestScript /\ Begin(Text(input))
  /\ Init /\ sheet = NoSheet
  /\ [][MCNext]_offlineVars

\* src/tests/client_tests.txt, given to a client, is carried out as it stands.
TestScriptDone == ended => done = MeantByClient(input)
=============================================================================
