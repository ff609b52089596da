---------------------------- MODULE MCCalculator ----------------------------
(* One instance of Calculator under two loads: one document with functions   *)
(* and the cut buffer, or documents of few contents that come and go.        *)
EXTENDS Calculator

CONSTANT MaxCommands    \* most commands of a behaviour

VARIABLES load, commands

\* The functions observe one cell in common.
MCEntries == {Number(2), Reference(<<1, 1>>), ADD(Reference(<<1, 1>>), Reference(<<2, 2>>)),
              PRODUCT(getCells(createRange(<<1, 1>>, <<2, 1>>)))}

InLoad ==
  IF load = "one document"
  THEN filename = NoName
  ELSE buffer = <<>> /\ \A c \in Cells : sheet.content[c] \in {Empty, Number(2), Object(1)}

MCInit == Init /\ load \in {"one document", "files"} /\ commands = 0
MCNext == commands < MaxCommands /\ Next /\ UNCHANGED load /\ InLoad' /\ commands' = commands + 1
MCSpec == MCInit /\ [][MCNext]_<<calculatorVars, load, commands>>
=============================================================================
