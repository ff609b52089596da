--------------------------- MODULE ClientReader ---------------------------
(***************************************************************************)
(* The commands of a client of SO/projeto_2: client/parser.c and the loop  *)
(* of client/main.c.  read_string, read_uint and cleanup are those of      *)
(* Parser.  done holds the requests made, whose way through the FIFOs is   *)
(* in Sessions.  A terminal gives a read one line, a file or a pipe all    *)
(* that fits.                                                              *)
(***************************************************************************)
EXTENDS JobReader

CONSTANT Garbage       \* a key that was never written

VARIABLES
  terminal,   \* standard input is a terminal
  key         \* what the buffer for the key holds

clientVars == <<vars, terminal, key>>

client_get_next(in, p) ==
  LET c == Ch(in, p)
  IN  CASE c = "" -> Command("EOC", p)
        [] c = "S" -> Name(in, p, "SUBSCRIBE ", "CMD_SUBSCRIBE")
        [] c = "U" -> Name(in, p, "UNSUBSCRIBE ", "CMD_UNSUBSCRIBE")
        [] c = "D" /\ Chars(in, p, 6) = "DELAY " -> Command("CMD_DELAY", p + 6)
        [] c = "D" /\ Chars(in, p, 6) # "DELAY " -> Alone(in, p, "DISCONNECT", "CMD_DISCONNECT")
        [] c = "#" -> Command("CMD_EMPTY", cleanup(in, p + 1))
        [] c = "\n" -> Command("CMD_EMPTY", p + 1)
        [] OTHER -> Invalid(in, p + 1)

\* One read for the rest of the command, whatever it brings; args is <<>> when
\* 1 is returned.
parse_key(in, p, max_size) ==
  LET buffer == IF terminal /\ cleanup(in, p) < p + max_size
                THEN SubSeq(in, p, cleanup(in, p) - 1)
                ELSE Chars(in, p, max_size - 1)
      Places(c) == {i \in 1 .. Len(buffer) : SubSeq(buffer, i, i) = c}
      next == p + Len(buffer)
  IN  IF Places("[") = {} \/ Places("]") = {}
      THEN Parsed(<<>>, next)
      ELSE IF Min(Places("[")) >= Min(Places("]"))
      THEN Parsed(<<>>, next)
      ELSE Parsed(<<SubSeq(buffer, Min(Places("[")) + 1, Min(Places("]")) - 1)>>, next)

\* The character behind the number is gone, the rest of the line is not.
parse_delay(in, p) ==
  LET delay == read_uint(in, p)
  IN  IF delay.value > UINT_MAX THEN Rejected(in, delay.next) ELSE Parsed(<<delay.value>>, delay.next)

SUBSCRIBE(c) ==
  LET parsed == parse_key(text, c.next, MAX_STRING_SIZE)
  IN  /\ c.name = "CMD_SUBSCRIBE"
      /\ key' = IF parsed.args = <<>> THEN key ELSE parsed.args[1]
      /\ Carry("SUBSCRIBE", parsed)

\* parse_key is asked for -1, which it never returns: after an error the
\* buffer is sent as it is, in its own place of the stack.
UNSUBSCRIBE(c) ==
  LET parsed == parse_key(text, c.next, MAX_STRING_SIZE)
  IN  /\ c.name = "CMD_UNSUBSCRIBE"
      /\ key' = IF parsed.args = <<>> THEN key ELSE parsed.args[1]
      /\ Carry("UNSUBSCRIBE", Parsed(<<key'>>, parsed.next))

DELAY(c) ==
  LET delay == parse_delay(text, c.next)
  IN  /\ c.name = "CMD_DELAY"
      /\ Carry("DELAY", IF delay.args = <<0>> THEN Parsed(<<>>, delay.next) ELSE delay)
      /\ UNCHANGED key

\* DISCONNECT returns from main.  At the end of the input the client
\* disconnects, too, and then tries so for ever.
DISCONNECT(c) ==
  /\ c.name \in {"CMD_DISCONNECT", "EOC"}
  /\ done' = Append(done, [name |-> "DISCONNECT", args |-> <<"all">>])
  /\ pos' = c.next
  /\ ended' = TRUE
  /\ UNCHANGED <<text, key>>

client_main ==
  /\ ~ended
  /\ \E c \in {client_get_next(text, pos)} :
       SUBSCRIBE(c) \/ UNSUBSCRIBE(c) \/ DELAY(c) \/ DISCONNECT(c) \/ (Pass(c) /\ UNCHANGED key)
  /\ UNCHANGED terminal
=============================================================================
