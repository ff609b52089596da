------------------------------- MODULE Parser -------------------------------
(***************************************************************************)
(* server/parser.c of SO/projeto_2: how a command is read from a job file, *)
(* character by character and without a way back.  in is the text of the   *)
(* file and p the place of the descriptor in it; every operator says where *)
(* the descriptor is afterwards (next).  A read at the end of the file     *)
(* gives "".  Left out: the byte '\0' in a file, numbers of more than      *)
(* fifteen digits, and a number cut by the end of the file, where the code *)
(* goes on to memory that it has not written.                              *)
(***************************************************************************)
EXTENDS Naturals, Sequences, SequencesExt, TLC

CONSTANTS
  MAX_STRING_SIZE,   \* longest key or value, and one more
  MAX_WRITE_SIZE,    \* most pairs or keys of a command, and one more
  UINT_MAX

Chars(in, p, n) == SubSeq(in, p, Min({p + n - 1, Len(in)}))
Ch(in, p) == Chars(in, p, 1)

\* Skips the rest of a line, and its newline.
cleanup(in, p) ==
  LET ends == {q \in p .. Len(in) : Ch(in, q) = "\n"}
  IN  IF ends = {} THEN Len(in) + 1 ELSE Min(ends) + 1

\* end is the separator that ended the string, or "none": at a space, at the
\* end of the file, and, with nothing more read, when the buffer is full.
read_string(in, p, max) ==
  LET UpTo[q \in Nat] ==
        IF q = p + max
        THEN [text |-> SubSeq(in, p, q - 1), end |-> "none", next |-> q]
        ELSE [text |-> SubSeq(in, p, q - 1), next |-> q + 1,
              end |-> IF Ch(in, q) \in {"", " "} THEN "none" ELSE Ch(in, q)]
  IN  UpTo[Min({r \in p .. p + max : r = p + max \/ Ch(in, r) \in {"", " ", ",", ")", "]"}})]

\* The character behind the digits is read, too.
read_uint(in, p) ==
  LET Digit == [c \in {ToString(d) : d \in 0 .. 9} |-> CHOOSE d \in 0 .. 9 : ToString(d) = c]
      q == Min({r \in p .. Len(in) + 1 : Ch(in, r) \notin DOMAIN Digit})
  IN  [value |-> FoldLeft(LAMBDA v, r : 10 * v + Digit[Ch(in, r)], 0, [i \in 1 .. q - p |-> p + i - 1]),
       last |-> Ch(in, q), next |-> q + 1]

Command(name, p) == [name |-> name, next |-> p]
Invalid(in, p) == Command("CMD_INVALID", cleanup(in, p))

\* A name with arguments: as many characters are read as it has, the newline of
\* a shorter line and what follows it included.
Name(in, p, word, name) ==
  LET q == p + Len(word)
  IN  IF Chars(in, p, Len(word)) = word THEN Command(name, q) ELSE Invalid(in, q)

\* A name alone on its line.
Alone(in, p, word, name) ==
  LET q == p + Len(word)
  IN  IF Name(in, p, word, name).name = name /\ Ch(in, q) \notin {"", "\n"}
      THEN Invalid(in, q + 1)
      ELSE [Name(in, p, word, name) EXCEPT !.next = IF Chars(in, p, Len(word)) = word THEN q + 1 ELSE @]

get_next(in, p) ==
  LET c == Ch(in, p)
  IN  CASE c = "" -> Command("EOC", p)
        [] c = "W" /\ Chars(in, p, 5) = "WAIT " -> Command("CMD_WAIT", p + 5)
        [] c = "W" /\ Chars(in, p, 5) # "WAIT " -> Name(in, p, "WRITE ", "CMD_WRITE")
        [] c = "R" -> Name(in, p, "READ ", "CMD_READ")
        [] c = "D" -> Name(in, p, "DELETE ", "CMD_DELETE")
        [] c = "S" -> Alone(in, p, "SHOW", "CMD_SHOW")
        [] c = "B" -> Alone(in, p, "BACKUP", "CMD_BACKUP")
        [] c = "H" -> Alone(in, p, "HELP", "CMD_HELP")
        [] c = "#" -> Command("CMD_EMPTY", cleanup(in, p + 1))
        [] c = "\n" -> Command("CMD_EMPTY", p + 1)
        [] OTHER -> Invalid(in, p + 1)

\* What a parse function leaves: the arguments, <<>> if it returns 0 or -1.
Parsed(args, p) == [args |-> args, next |-> p]
Rejected(in, p) == Parsed(<<>>, cleanup(in, p))
\* (Faulty variant for mutation: a command counts although its line goes on.)
LineEndAny(in, p, args) == Parsed(args, p + 1)
LineEnd(in, p, args) == IF Ch(in, p) = "\n" THEN Parsed(args, p + 1) ELSE Rejected(in, p + 1)

parse_pair(in, p) ==
  LET String == [text : STRING, end : STRING, next : Nat]
      Both[key, value \in String] ==
        CASE key.end # "," -> Rejected(in, key.next)
          [] key.end = "," /\ value.end # ")" -> Rejected(in, value.next)
          [] OTHER -> Parsed(<<[key |-> key.text, value |-> value.text]>>, value.next)
      After[key \in String] == Both[key, read_string(in, key.next, MAX_STRING_SIZE)]
  IN  After[read_string(in, p, MAX_STRING_SIZE)]

\* The pairs of a WRITE from p on, after those in done.
Pairs(in) ==
  LET From[p \in Nat, done \in Seq([key : STRING, value : STRING])] ==
        LET pair  == parse_pair(in, p)
            pairs == done \o pair.args
            c     == Ch(in, pair.next)
        IN  CASE Len(done) = MAX_WRITE_SIZE -> Rejected(in, p)
              [] OTHER ->
                 CASE pair.args = <<>> -> Rejected(in, pair.next)
                   [] pair.args # <<>> /\ c = "(" -> From[pair.next + 1, pairs]
                   [] pair.args # <<>> /\ c = "]" /\ Len(pairs) < MAX_WRITE_SIZE -> LineEnd(in, pair.next + 1, pairs)
                   [] OTHER -> Rejected(in, pair.next + 1)
  IN  From

parse_write(in, p) ==
  CASE Ch(in, p) # "[" -> Rejected(in, p + 1)
    [] Ch(in, p) = "[" /\ Ch(in, p + 1) # "(" -> Rejected(in, p + 2)
    [] OTHER -> Pairs(in)[p + 2, <<>>]

Keys(in) ==
  LET From[p \in Nat, done \in Seq(STRING)] ==
        LET key  == read_string(in, p, MAX_STRING_SIZE)
            keys == Append(done, key.text)
        IN  CASE Len(done) = MAX_WRITE_SIZE -> Rejected(in, p)
              [] OTHER ->
                 CASE key.end = "," -> From[key.next, keys]
                   [] key.end = "]" /\ Len(keys) < MAX_WRITE_SIZE -> LineEnd(in, key.next, keys)
                   [] OTHER -> Rejected(in, key.next)
  IN  From

parse_read_delete(in, p) ==
  IF Ch(in, p) = "[" THEN Keys(in)[p + 1, <<>>] ELSE Rejected(in, p + 1)

\* Called without a place for a thread: what follows a space is skipped.
parse_wait(in, p) ==
  LET delay == read_uint(in, p)
  IN  CASE delay.value > UINT_MAX -> Rejected(in, delay.next)
        [] delay.value <= UINT_MAX /\ delay.last = " " -> Parsed(<<delay.value>>, cleanup(in, delay.next))
        [] delay.value <= UINT_MAX /\ delay.last \in {"", "\n"} -> Parsed(<<delay.value>>, delay.next)
        [] OTHER -> Rejected(in, delay.next)
=============================================================================
