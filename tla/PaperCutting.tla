---------------------------- MODULE PaperCutting ----------------------------
(***************************************************************************)
(* ASA/proj1/proj1.cpp: the price that a sheet brings when it is cut into  *)
(* pieces that have a price.  main reads the pieces; paperCutting fills a  *)
(* table of sheets cell by cell, each by cutting off strips of every       *)
(* length and of every width.                                              *)
(***************************************************************************)
EXTENDS Integers, Sequences, FiniteSetsExt

CONSTANT Sheets   \* inputs: a width, a length and pieces <<w, l, p>> in their order

ASSUME SheetsAssumption == Sheets \subseteq [width : Nat, length : Nat, pieces : Seq(Int \X Int \X Nat)]

VARIABLES
  sheet,
  loop,           \* "pieces", then of a cell "lengths" and "widths", at last "done"
  read,           \* pieces read
  prices_p,
  table,
  max,            \* of this cell or of an earlier one
  width, length,  \* the cell
  strip           \* i and j: what is cut off

cutVars == <<table, max, width, length, strip>>
cuttingVars == <<sheet, loop, read, prices_p, cutVars>>

Cells == (0 .. sheet.width) \X (0 .. sheet.length)

Init ==
  /\ sheet \in Sheets
  /\ loop = "pieces" /\ read = 0
  /\ prices_p = [c \in Cells |-> 0]
  /\ table = [c \in Cells |-> 0] /\ max = 0
  /\ width = 1 /\ length = 1 /\ strip = 1

\* A piece that does not fit is skipped; one that fits when turned has its price
\* that way, too; a later piece of the same size wins.
Fits(x) == x[1] \in 1 .. sheet.width /\ x[2] \in 1 .. sheet.length
Sizes(x) == {<<x[1], x[2]>>, <<x[2], x[1]>>}

ReadPiece ==
  /\ loop = "pieces" /\ read < Len(sheet.pieces)
  /\ LET x == sheet.pieces[read + 1]
     IN  prices_p' = [c \in Cells |-> IF Fits(x) /\ c \in Sizes(x) THEN x[3] ELSE prices_p[c]]
  /\ read' = read + 1
  /\ UNCHANGED <<sheet, loop, cutVars>>

\* A sheet without an extent has no cell to fill.
StartCutting ==
  /\ loop = "pieces" /\ read = Len(sheet.pieces)
  /\ loop' = IF sheet.width > 0 /\ sheet.length > 0 THEN "lengths" ELSE "done"
  /\ UNCHANGED <<sheet, read, prices_p, cutVars>>

\* What a strip and the rest bring; max goes into the cell in either case.
Compare(tmp) ==
  /\ max' = IF tmp > table[<<width, length>>] THEN tmp ELSE max
  /\ table' = [table EXCEPT ![<<width, length>>] = max']

\* (Faulty variant for mutation: the rest is taken for one longer than it is.)
LengthStripLonger ==
  /\ loop = "lengths"
  /\ Compare(prices_p[<<width, strip>>] + table[<<width, length - strip + 1>>])
  /\ IF strip < length THEN strip' = strip + 1 /\ UNCHANGED loop
                       ELSE strip' = 1 /\ loop' = "widths"
  /\ UNCHANGED <<sheet, read, prices_p, width, length>>

LengthStrip ==
  /\ loop = "lengths"
  /\ Compare(prices_p[<<width, strip>>] + table[<<width, length - strip>>])
  /\ IF strip < length THEN strip' = strip + 1 /\ UNCHANGED loop
                       ELSE strip' = 1 /\ loop' = "widths"
  /\ UNCHANGED <<sheet, read, prices_p, width, length>>

NextCell ==
  \/ length < sheet.length /\ length' = length + 1 /\ loop' = "lengths" /\ UNCHANGED width
  \/ length = sheet.length /\ width < sheet.width
       /\ length' = 1 /\ width' = width + 1 /\ loop' = "lengths"
  \/ length = sheet.length /\ width = sheet.width /\ loop' = "done" /\ UNCHANGED <<width, length>>

WidthStrip ==
  /\ loop = "widths"
  /\ Compare(prices_p[<<strip, length>>] + table[<<width - strip, length>>])
  /\ IF strip < width THEN strip' = strip + 1 /\ UNCHANGED <<loop, width, length>>
                      ELSE strip' = 1 /\ NextCell
  /\ UNCHANGED <<sheet, read, prices_p>>

Next == ReadPiece \/ StartCutting \/ LengthStrip \/ WidthStrip

Spec == Init /\ [][Next]_cuttingVars

(***************************************************************************)
(* Properties.                                                             *)
(***************************************************************************)
\* Every cell that a comparison reads or writes is in its table.
TypeOK ==
  /\ sheet \in Sheets
  /\ loop \in {"pieces", "lengths", "widths", "done"}
  /\ read \in 0 .. Len(sheet.pieces)
  /\ prices_p \in [Cells -> Nat] /\ table \in [Cells -> Nat] /\ max \in Nat
  /\ width \in Nat \ {0} /\ length \in Nat \ {0} /\ strip \in Nat \ {0}
  /\ loop \in {"lengths", "widths"} =>
       /\ width <= sheet.width /\ length <= sheet.length
       /\ strip <= IF loop = "lengths" THEN length ELSE width

\* What a sheet of a size brings as one piece, given or turned: the best of the
\* prices for it.
Offers(c) == {i \in DOMAIN sheet.pieces : c \in Sizes(sheet.pieces[i])}
Price(c)  == Max({0} \cup {sheet.pieces[i][3] : i \in Offers(c)})

\* The best that a sheet brings: its price, or what two parts of it bring when B is
\* the best for them.
Cuts(B, c) == {Price(c)} \cup {B[<<c[1], i>>] + B[<<c[1], c[2] - i>>] : i \in 1 .. c[2] - 1}
                         \cup {B[<<j, c[2]>>] + B[<<c[1] - j, c[2]>>] : j \in 1 .. c[1] - 1}

Best ==
  LET B[c \in Cells] == IF c[1] = 0 \/ c[2] = 0 THEN 0 ELSE Max(Cuts(B, c))
  IN  B[<<sheet.width, sheet.length>>]

Rod == sheet.width = 1 \/ sheet.length = 1

\* No piece fits only when it is turned (main drops it), and of two pieces of one
\* size the later one has no lower price (main keeps that one).
PlainPieces ==
  LET p == sheet.pieces
  IN  /\ \A i \in DOMAIN p : Fits(<<p[i][2], p[i][1], p[i][3]>>) => Fits(p[i])
      /\ \A i, j \in DOMAIN p : i < j /\ Sizes(p[i]) = Sizes(p[j]) => p[i][3] <= p[j][3]

\* A sheet as narrow as a rod is cut for the best price that there is with its
\* pieces, given or turned, although max is carried from cell to cell and a strip
\* is sold whole; unless main has lost a piece or a price (PlainPieces).
RodsBest ==
  loop = "done" /\ Rod /\ PlainPieces => table[<<sheet.width, sheet.length>>] = Best
=============================================================================
