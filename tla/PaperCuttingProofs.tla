------------------------- MODULE PaperCuttingProofs -------------------------
(***************************************************************************)
(* Proofs about PaperCutting, for sheets of any size and any pieces.       *)
(***************************************************************************)
EXTENDS PaperCutting, SequenceTheorems, WellFoundedInduction, TLAPS

-----------------------------------------------------------------------------
(* Types.                                                                  *)

LEMMA SheetParts ==
  ASSUME sheet \in Sheets
  PROVE  /\ sheet.width \in Nat /\ sheet.length \in Nat
         /\ sheet.pieces \in Seq(Int \X Int \X Nat) /\ Len(sheet.pieces) \in Nat
         /\ \A i \in 1 .. Len(sheet.pieces) :
              sheet.pieces[i][1] \in Int /\ sheet.pieces[i][2] \in Int /\ sheet.pieces[i][3] \in Nat
<1>1. sheet.width \in Nat /\ sheet.length \in Nat /\ sheet.pieces \in Seq(Int \X Int \X Nat)
  BY SheetsAssumption
<1>2. Len(sheet.pieces) \in Nat
  BY <1>1, LenProperties
<1>3. \A i \in 1 .. Len(sheet.pieces) : sheet.pieces[i] \in Int \X Int \X Nat
  BY <1>1, LenProperties, ElementOfSeq
<1> QED BY <1>1, <1>2, <1>3

\* While pieces are read, nothing is cut yet.
Uncut ==
  loop = "pieces" =>
    /\ table = [c \in Cells |-> 0] /\ max = 0
    /\ width = 1 /\ length = 1 /\ strip = 1

TypeInv == TypeOK /\ Uncut

LEMMA InitTypes == Init => TypeInv
<1> SUFFICES ASSUME Init PROVE TypeInv
  OBVIOUS
<1>1. Len(sheet.pieces) \in Nat
  BY SheetParts DEF Init
<1> QED BY <1>1 DEF Init, TypeInv, TypeOK, Uncut

\* A comparison reads and writes cells of the table.
LEMMA CompareTypes ==
  ASSUME TypeOK, NEW c \in Cells, NEW d \in Cells, sheet' = sheet, <<width, length>> \in Cells,
         Compare(prices_p[c] + table[d])
  PROVE  table' \in [Cells -> Nat] /\ max' \in Nat
<1>1. prices_p[c] + table[d] \in Nat /\ max \in Nat /\ table[<<width, length>>] \in Nat
  BY DEF TypeOK
<1>2. max' \in Nat
  BY <1>1 DEF Compare
<1> QED BY <1>2 DEF Compare, TypeOK

LEMMA NextTypes == TypeInv /\ [Next]_cuttingVars => TypeInv'
<1> SUFFICES ASSUME TypeOK, Uncut, [Next]_cuttingVars PROVE TypeOK' /\ Uncut'
  BY DEF TypeInv
<1>1. /\ sheet \in Sheets /\ sheet' = sheet /\ Cells' = Cells
      /\ sheet.width \in Nat /\ sheet.length \in Nat /\ Len(sheet.pieces) \in Nat
  <2>1. sheet' = sheet
    BY DEF Next, ReadPiece, StartCutting, LengthStrip, WidthStrip, cuttingVars
  <2> QED BY <2>1, SheetParts DEF TypeOK, Cells
<1>2. CASE ReadPiece
  <2>1. /\ loop = "pieces" /\ read < Len(sheet.pieces) /\ read' = read + 1 /\ loop' = loop
        /\ UNCHANGED <<table, max, width, length, strip>>
    BY <1>2 DEF ReadPiece, cutVars
  <2>2. sheet.pieces[read + 1][3] \in Nat
    <3>1. read + 1 \in 1 .. Len(sheet.pieces)
      BY <1>1, <2>1 DEF TypeOK
    <3> QED BY <1>1, <3>1, SheetParts
  <2>3. prices_p' \in [Cells -> Nat]
    BY <1>2, <2>2 DEF ReadPiece, TypeOK
  <2> QED BY <1>1, <2>1, <2>3 DEF TypeOK, Uncut
<1>3. CASE StartCutting
  BY <1>1, <1>3 DEF StartCutting, TypeOK, Uncut, cutVars
<1>4. CASE LengthStrip
  <2>1. /\ loop = "lengths" /\ Compare(prices_p[<<width, strip>>] + table[<<width, length - strip>>])
        /\ UNCHANGED <<read, prices_p, width, length>>
        /\ \/ strip < length /\ strip' = strip + 1 /\ loop' = loop
           \/ strip' = 1 /\ loop' = "widths"
    BY <1>4 DEF LengthStrip
  <2>2. /\ width \in 1 .. sheet.width /\ length \in 1 .. sheet.length /\ strip \in 1 .. length
    BY <1>1, <2>1 DEF TypeOK
  <2>3. <<width, strip>> \in Cells /\ <<width, length - strip>> \in Cells /\ <<width, length>> \in Cells
    BY <1>1, <2>2 DEF Cells
  <2>4. table' \in [Cells -> Nat] /\ max' \in Nat
    BY <1>1, <2>1, <2>3, CompareTypes
  <2>5. strip' \in 1 .. (IF loop' = "lengths" THEN length' ELSE width') /\ loop' \in {"lengths", "widths"}
    BY <2>1, <2>2
  <2> QED BY <1>1, <2>1, <2>2, <2>4, <2>5 DEF TypeOK, Uncut
<1>5. CASE WidthStrip
  <2>1. /\ loop = "widths" /\ Compare(prices_p[<<strip, length>>] + table[<<width - strip, length>>])
        /\ UNCHANGED <<read, prices_p>>
        /\ \/ strip < width /\ strip' = strip + 1 /\ UNCHANGED <<loop, width, length>>
           \/ strip' = 1 /\ NextCell
    BY <1>5 DEF WidthStrip
  <2>2. /\ width \in 1 .. sheet.width /\ length \in 1 .. sheet.length /\ strip \in 1 .. width
    BY <1>1, <2>1 DEF TypeOK
  <2>3. <<strip, length>> \in Cells /\ <<width - strip, length>> \in Cells /\ <<width, length>> \in Cells
    BY <1>1, <2>2 DEF Cells
  <2>4. table' \in [Cells -> Nat] /\ max' \in Nat
    BY <1>1, <2>1, <2>3, CompareTypes
  <2>5. /\ loop' \in {"lengths", "widths", "done"}
        /\ width' \in 1 .. sheet.width /\ length' \in 1 .. sheet.length
        /\ strip' \in 1 .. (IF loop' = "lengths" THEN length' ELSE width')
    BY <1>1, <2>1, <2>2 DEF NextCell
  <2> QED BY <1>1, <2>1, <2>2, <2>4, <2>5 DEF TypeOK, Uncut
<1>6. CASE UNCHANGED cuttingVars
  BY <1>1, <1>6 DEF TypeOK, Uncut, cuttingVars, cutVars
<1> QED BY <1>2, <1>3, <1>4, <1>5, <1>6 DEF Next

\* No comparison reads or writes outside of the table or of the prices, for any
\* sheet and any pieces.
THEOREM InsideTheTable == Spec => []TypeOK
<1>1. TypeInv => TypeOK
  BY DEF TypeInv
<1> QED BY <1>1, InitTypes, NextTypes, PTL DEF Spec

-----------------------------------------------------------------------------
(* The pieces: after the first n the prices are those of the last of them. *)

OffersUpTo(c, n) == {i \in 1 .. n : Fits(sheet.pieces[i]) /\ c \in Sizes(sheet.pieces[i])}
PricedUpTo(c, n, p) ==
  \/ OffersUpTo(c, n) = {} /\ p = 0
  \/ \E i \in OffersUpTo(c, n) :
       p = sheet.pieces[i][3] /\ \A j \in OffersUpTo(c, n) : j <= i

PricesRead ==
  /\ \A c \in Cells : PricedUpTo(c, read, prices_p[c])
  /\ loop # "pieces" => read = Len(sheet.pieces)

\* The greatest element of a set of numbers.
LEMMA MaxIs ==
  ASSUME NEW S, S \subseteq Int, NEW x \in S, \A y \in S : x >= y
  PROVE  Max(S) = x
<1>1. Max(S) \in S /\ \A y \in S : Max(S) >= y
  BY DEF Max
<1>2. Max(S) \in Int /\ x \in Int
  BY <1>1
<1>3. Max(S) >= x /\ x >= Max(S)
  BY <1>1
<1> QED BY <1>2, <1>3

LEMMA InitPrices == Init => PricesRead
<1> SUFFICES ASSUME Init PROVE PricesRead
  OBVIOUS
<1>1. \A c : OffersUpTo(c, 0) = {}
  BY DEF OffersUpTo
<1> QED BY <1>1 DEF Init, PricesRead, PricedUpTo

LEMMA NextPrices ==
  ASSUME TypeOK, PricesRead, [Next]_cuttingVars
  PROVE  PricesRead'
<1>1. sheet' = sheet /\ Len(sheet.pieces) \in Nat
  <2>1. sheet' = sheet
    BY DEF Next, ReadPiece, StartCutting, LengthStrip, WidthStrip, cuttingVars
  <2> QED BY <2>1, SheetParts DEF TypeOK
<1>2. Cells' = Cells /\ \A c, n, p : PricedUpTo(c, n, p)' <=> PricedUpTo(c, n, p)
  BY <1>1 DEF Cells, PricedUpTo, OffersUpTo, Fits, Sizes
<1>3. CASE ReadPiece
  <2> DEFINE n == read + 1
             x == sheet.pieces[n]
  <2>1. /\ loop = "pieces" /\ loop' = loop /\ read' = n /\ n \in 1 .. Len(sheet.pieces)
        /\ prices_p' = [c \in Cells |-> IF Fits(x) /\ c \in Sizes(x) THEN x[3] ELSE prices_p[c]]
    BY <1>1, <1>3 DEF ReadPiece, TypeOK
  <2>2. read \in Nat /\ n \in Nat /\ 1 .. n = (1 .. read) \cup {n}
    BY <1>1, <2>1 DEF TypeOK
  <2> HIDE DEF n
  <2>3. ASSUME NEW c \in Cells PROVE PricedUpTo(c, n, prices_p'[c])
    <3>1. OffersUpTo(c, n) = OffersUpTo(c, read) \cup (IF Fits(x) /\ c \in Sizes(x) THEN {n} ELSE {})
      BY <2>2 DEF OffersUpTo
    <3>2. CASE Fits(x) /\ c \in Sizes(x)
      <4>1. OffersUpTo(c, n) \subseteq 1 .. n /\ n \in OffersUpTo(c, n)
        BY <3>1, <3>2 DEF OffersUpTo
      <4>2. \A i \in OffersUpTo(c, n) : i <= n
        BY <2>2, <4>1
      <4> QED BY <2>1, <3>2, <4>1, <4>2 DEF PricedUpTo
    <3>3. CASE ~(Fits(x) /\ c \in Sizes(x))
      BY <2>1, <3>1, <3>3 DEF PricedUpTo, PricesRead
    <3> QED BY <3>2, <3>3
  <2> QED BY <1>2, <2>1, <2>3 DEF PricesRead
<1>4. CASE ~ReadPiece
  <2>1. prices_p' = prices_p /\ read' = read /\ (loop' = "pieces" <=> loop = "pieces" /\ loop' = loop)
        /\ (loop' # "pieces" => loop # "pieces" \/ read = Len(sheet.pieces))
    BY <1>4 DEF Next, StartCutting, LengthStrip, WidthStrip, NextCell, cuttingVars
  <2> QED BY <1>1, <1>2, <2>1 DEF PricesRead
<1> QED BY <1>3, <1>4

\* With plain pieces the prices are the best that the pieces offer.
LEMMA OfferedPrices ==
  ASSUME TypeOK, PricesRead, PlainPieces, loop = "done", NEW c \in Cells, c[1] # 0, c[2] # 0
  PROVE  prices_p[c] = Price(c)
<1> DEFINE p == sheet.pieces
           S == {0} \cup {p[i][3] : i \in Offers(c)}
<1>1. /\ DOMAIN p = 1 .. Len(p) /\ read = Len(p) /\ Len(p) \in Nat
      /\ \A i \in DOMAIN p : p[i][1] \in Int /\ p[i][2] \in Int /\ p[i][3] \in Nat
      /\ c[1] \in 1 .. sheet.width /\ c[2] \in 1 .. sheet.length /\ c = <<c[1], c[2]>>
  <2>1. sheet.width \in Nat /\ sheet.length \in Nat /\ p \in Seq(Int \X Int \X Nat)
    BY SheetParts DEF TypeOK
  <2>2. DOMAIN p = 1 .. Len(p) /\ Len(p) \in Nat
    BY <2>1, LenProperties
  <2>3. ASSUME NEW i \in DOMAIN p PROVE p[i][1] \in Int /\ p[i][2] \in Int /\ p[i][3] \in Nat
    <3>1. p[i] \in Int \X Int \X Nat
      BY <2>1, <2>2, ElementOfSeq
    <3> QED BY <3>1
  <2>4. read = Len(p)
    BY DEF PricesRead
  <2>5. c[1] \in 1 .. sheet.width /\ c[2] \in 1 .. sheet.length /\ c = <<c[1], c[2]>>
    BY <2>1 DEF Cells
  <2> QED BY <2>2, <2>3, <2>4, <2>5
<1>2. OffersUpTo(c, read) = Offers(c)
  <2>1. ASSUME NEW i \in Offers(c) PROVE Fits(p[i])
    <3>1. i \in DOMAIN p /\ c \in Sizes(p[i])
      BY DEF Offers
    <3>2. (c[1] = p[i][1] /\ c[2] = p[i][2]) \/ (c[1] = p[i][2] /\ c[2] = p[i][1])
      BY <3>1 DEF Sizes
    <3> QED BY <1>1, <3>1, <3>2 DEF PlainPieces, Fits
  <2> QED BY <1>1, <2>1 DEF OffersUpTo, Offers
<1>3. S \subseteq Int /\ \A x \in S : x >= 0
  BY <1>1 DEF Offers
<1>4. CASE Offers(c) = {} /\ prices_p[c] = 0
  BY <1>3, <1>4, MaxIs DEF Price
<1>5. ASSUME NEW i \in Offers(c), prices_p[c] = p[i][3], \A j \in Offers(c) : j <= i
      PROVE  prices_p[c] = Price(c)
  <2>1. ASSUME NEW j \in Offers(c) PROVE p[j][3] <= p[i][3]
    <3>1. /\ i \in DOMAIN p /\ j \in DOMAIN p /\ j <= i
          /\ c \in Sizes(p[i]) /\ c \in Sizes(p[j])
      BY <1>5 DEF Offers
    <3>2. Sizes(p[i]) = Sizes(p[j])
      BY <3>1 DEF Sizes
    <3> QED BY <1>1, <3>1, <3>2 DEF PlainPieces
  <2>2. p[i][3] \in S /\ \A x \in S : p[i][3] >= x
    BY <1>1, <2>1 DEF Offers
  <2> HIDE DEF S
  <2>3. Max(S) = p[i][3]
    BY <1>3, <2>2, MaxIs
  <2> QED BY <1>5, <2>3 DEF Price, S
<1>6. PricedUpTo(c, read, prices_p[c])
  BY DEF PricesRead
<1> HIDE DEF p
<1> QED BY <1>2, <1>4, <1>5, <1>6 DEF PricedUpTo, p

-----------------------------------------------------------------------------
(* A rod: t[x] is what the table has for a rod of length x, f[s] the price *)
(* of a piece of length s, m what paperCutting has in max.                 *)

\* The entry of x is no less than what a strip of a length in V and the rest bring, and
\* it is what one of them or the rod that is one shorter brings.
Values(n)             == [0 .. n -> Nat]
Covers(t, f, x, V)    == \A s \in V : f[s] + t[x - s] <= t[x]
Reached(t, f, x, V)   == t[x] = t[x - 1] \/ \E s \in V : t[x] = f[s] + t[x - s]
CutBest(t, f, x)      == Covers(t, f, x, 1 .. x) /\ Reached(t, f, x, 1 .. x)
InCell(t, f, m, r, V) == IF V = {} THEN t[r] = 0 /\ m = t[r - 1]
                                   ELSE m = t[r] /\ Covers(t, f, r, V) /\ Reached(t, f, r, V)

\* The comparison with a strip of length s: Compare for a rod.
Sold(t, f, m, r, s, t2, m2) ==
  /\ m2 = IF f[s] + t[r - s] > t[r] THEN f[s] + t[r - s] ELSE m
  /\ t2 = [t EXCEPT ![r] = m2]

\* After it the entry covers s as well, and the entries before it are as they were.
LEMMA Compared ==
  ASSUME NEW n \in Nat, NEW t \in Values(n), NEW f \in Values(n), NEW m \in Nat,
         NEW r \in 1 .. n, NEW V \in SUBSET (1 .. r), NEW s \in 1 .. r, InCell(t, f, m, r, V),
         NEW t2, NEW m2, Sold(t, f, m, r, s, t2, m2)
  PROVE  /\ InCell(t2, f, m2, r, V \cup {s})
         /\ \A x \in 1 .. r - 1 : CutBest(t, f, x) => CutBest(t2, f, x)
<1> USE DEF Sold
<1>1. m2 \in Nat /\ t2[r] = m2 /\ \A x \in 0 .. r - 1 : t2[x] = t[x] /\ t[x] \in Nat
  BY DEF Values
<1>2. \A v \in 1 .. r : f[v] \in Nat /\ r - v \in 0 .. r - 1 /\ t2[r - v] = t[r - v] /\ t[r - v] \in Nat
  BY <1>1 DEF Values
<1>3. t[r] \in Nat /\ r - 1 \in 0 .. r - 1
  BY DEF Values
<1>4. Covers(t2, f, r, V \cup {s})
  <2>1. f[s] + t[r - s] <= m2
    BY <1>2, <1>3 DEF InCell
  <2>2. ASSUME NEW v \in V PROVE f[v] + t[r - v] <= m2
    <3>1. f[v] + t[r - v] <= t[r] /\ m = t[r]
      BY DEF InCell, Covers
    <3>2. f[v] \in Nat /\ t[r - v] \in Nat /\ f[s] \in Nat /\ t[r - s] \in Nat
      BY <1>2
    <3>3. m2 >= t[r]
      BY <1>3, <3>1, <3>2
    <3> QED BY <1>1, <1>3, <3>1, <3>2, <3>3
  <2> QED BY <1>1, <1>2, <2>1, <2>2 DEF Covers
<1>5. Reached(t2, f, r, V \cup {s})
  <2>1. CASE f[s] + t[r - s] > t[r]
    BY <1>1, <1>2, <2>1 DEF Reached
  <2>2. CASE ~(f[s] + t[r - s] > t[r]) /\ V = {}
    BY <1>1, <1>3, <2>2 DEF InCell, Reached
  <2>3. CASE ~(f[s] + t[r - s] > t[r]) /\ V # {}
    BY <1>1, <1>2, <1>3, <2>3 DEF InCell, Reached
  <2> QED BY <2>1, <2>2, <2>3
<1>6. ASSUME NEW x \in 1 .. r - 1, CutBest(t, f, x) PROVE CutBest(t2, f, x)
  <2>1. \A v \in 1 .. x : x - v \in 0 .. r - 1
    OBVIOUS
  <2>2. x \in 0 .. r - 1 /\ x - 1 \in 0 .. r - 1
    OBVIOUS
  <2> QED BY <1>1, <1>6, <2>1, <2>2 DEF CutBest, Covers, Reached
<1> QED BY <1>1, <1>4, <1>5, <1>6 DEF InCell

\* Counting from 0 up to n.
LEMMA UpFromZero ==
  ASSUME NEW n \in Nat, NEW I \in SUBSET (0 .. n), 0 \in I,
         \A i \in 1 .. n : i - 1 \in I => i \in I
  PROVE  \A i \in 0 .. n : i \in I
<1> SUFFICES ASSUME (0 .. n) \ I # {} PROVE FALSE
  OBVIOUS
<1>1. (0 .. n) \ I \subseteq Nat
  OBVIOUS
<1>2. PICK x \in (0 .. n) \ I : \A y \in (0 .. n) \ I : ~ (<<y, x>> \in OpToRel(<, Nat))
  BY <1>1, NatLessThanWellFounded, WFMin
<1>3. x # 0 /\ x \in 1 .. n /\ x - 1 \in 0 .. n
  OBVIOUS
<1>4. x - 1 < x /\ <<x - 1, x>> \in Nat \X Nat
  BY <1>3
<1>5. <<x - 1, x>> \in OpToRel(<, Nat)
  BY <1>4 DEF OpToRel
<1>6. x - 1 \in I
  BY <1>2, <1>3, <1>5
<1> QED BY <1>2, <1>3, <1>6

\* Two parts of a rod do not bring more than the rod.
LEMMA PartsBringLess ==
  ASSUME NEW n \in Nat, NEW t \in Values(n), NEW f \in Values(n), t[0] = 0,
         \A x \in 1 .. n : CutBest(t, f, x)
  PROVE  \A r \in 0 .. n : \A i \in 0 .. r : t[i] + t[r - i] <= t[r]
<1> DEFINE P(k) == \A i \in 0 .. k, r \in 0 .. n : i <= r => t[i] + t[r - i] <= t[r]
           I    == {k \in 0 .. n : P(k)}
<1>1. P(0)
  BY DEF Values
<1>2. ASSUME NEW k \in 1 .. n, P(k - 1) PROVE P(k)
  <2>1. ASSUME NEW r \in 0 .. n, k <= r PROVE t[k] + t[r - k] <= t[r]
    <3>1. /\ CutBest(t, f, k) /\ CutBest(t, f, r) /\ k \in 1 .. r /\ r - k \in 0 .. n
          /\ t[k] \in Nat /\ t[r] \in Nat /\ t[r - k] \in Nat
      BY <2>1 DEF Values
    <3>2. CASE t[k] = t[k - 1]
      <4>1. /\ k - 1 \in 0 .. k - 1 /\ r - 1 \in 0 .. n /\ k - 1 <= r - 1 /\ (r - 1) - (k - 1) = r - k
            /\ 1 \in 1 .. r /\ f[1] \in Nat /\ t[r - 1] \in Nat
        BY <3>1 DEF Values
      <4>2. t[k] + t[r - k] <= t[r - 1]
        BY <1>2, <3>2, <4>1
      <4>3. f[1] + t[r - 1] <= t[r]
        BY <3>1, <4>1 DEF CutBest, Covers
      <4>4. t[r - 1] <= t[r]
        BY <3>1, <4>1, <4>3
      <4> QED BY <3>1, <4>1, <4>2, <4>4
    <3>3. ASSUME NEW s \in 1 .. k, t[k] = f[s] + t[k - s] PROVE t[k] + t[r - k] <= t[r]
      <4>1. /\ k - s \in 0 .. k - 1 /\ r - s \in 0 .. n /\ k - s <= r - s /\ (r - s) - (k - s) = r - k
            /\ s \in 1 .. r /\ f[s] \in Nat /\ t[r - s] \in Nat /\ t[k - s] \in Nat
        BY <3>1 DEF Values
      <4>2. t[k - s] + t[r - k] <= t[r - s]
        BY <1>2, <4>1
      <4>3. f[s] + t[r - s] <= t[r]
        BY <3>1, <4>1 DEF CutBest, Covers
      <4>4. (f[s] + t[k - s]) + t[r - k] <= t[r]
        <5>1. f[s] \in Nat /\ t[k - s] \in Nat /\ t[r - k] \in Nat /\ t[r - s] \in Nat /\ t[r] \in Nat
          BY <3>1, <4>1
        <5> QED BY <4>2, <4>3, <5>1
      <4> QED BY <3>3, <4>4
    <3> QED BY <3>1, <3>2, <3>3 DEF CutBest, Reached
  <2>2. \A i \in 0 .. k : i \in 0 .. k - 1 \/ i = k
    OBVIOUS
  <2> QED BY <1>2, <2>1, <2>2
<1> HIDE DEF P
<1>3. \A k \in 0 .. n : k \in I
  <2>1. I \in SUBSET (0 .. n) /\ 0 \in I
    BY <1>1
  <2>2. \A k \in 1 .. n : k - 1 \in I => k \in I
    BY <1>2
  <2> HIDE DEF I
  <2> QED BY <2>1, <2>2, UpFromZero
<1>4. P(n)
  BY <1>3
<1> QED
  <2> TAKE r \in 0 .. n
  <2> TAKE i \in 0 .. r
  <2>1. i \in 0 .. n /\ i <= r
    OBVIOUS
  <2> QED BY <1>4, <2>1 DEF P

\* What the table has for a rod is its price or what two parts of it bring, and none
\* of these is more.
LEMMA RodIsBest ==
  ASSUME NEW n \in Nat, NEW t \in Values(n), NEW f \in Values(n), t[0] = 0,
         \A x \in 1 .. n : CutBest(t, f, x), NEW r \in 1 .. n
  PROVE  Max({f[r]} \cup {t[i] + t[r - i] : i \in 1 .. r - 1}) = t[r]
<1> DEFINE S == {f[r]} \cup {t[i] + t[r - i] : i \in 1 .. r - 1}
<1>1. \A i \in 0 .. r : t[i] \in Nat /\ r - i \in 0 .. r /\ t[r - i] \in Nat /\ t[i] + t[r - i] <= t[r]
  <2>1. \A x \in 0 .. n : \A i \in 0 .. x : t[i] + t[x - i] <= t[x]
    BY PartsBringLess
  <2>2. \A i \in 0 .. r : t[i] \in Nat /\ r - i \in 0 .. r /\ t[r - i] \in Nat
    BY DEF Values
  <2> QED BY <2>1, <2>2
<1>2. f[r] \in Nat /\ f[r] <= t[r]
  <2>1. f[r] + t[r - r] <= t[r] /\ r - r = 0
    BY DEF CutBest, Covers
  <2>2. f[r] \in Nat /\ t[0] = 0
    BY DEF Values
  <2> QED BY <2>1, <2>2
<1>3. S \subseteq Int /\ \A y \in S : t[r] >= y
  BY <1>1, <1>2
<1>4. t[r] \in S
  <2>1. CASE t[r] = t[r - 1]
    <3>1. CASE r = 1
      BY <1>2, <2>1, <3>1
    <3>2. CASE r # 1
      <4>1. 1 \in 1 .. r - 1 /\ t[1] + t[r - 1] = t[r]
        BY <1>1, <2>1, <3>2
      <4> QED BY <4>1
    <3> QED BY <3>1, <3>2
  <2>2. ASSUME NEW s \in 1 .. r, t[r] = f[s] + t[r - s] PROVE t[r] \in S
    <3>1. CASE s = r
      BY <1>2, <2>2, <3>1
    <3>2. CASE s # r
      <4>1. s \in 1 .. r - 1 /\ s \in 0 .. r /\ s \in 1 .. n
        BY <3>2
      <4>2. f[s] + t[s - s] <= t[s] /\ s - s = 0
        BY <4>1 DEF CutBest, Covers
      <4>3. f[s] \in Nat
        BY <4>1 DEF Values
      <4>4. t[s] + t[r - s] = t[r]
        BY <1>1, <2>2, <4>1, <4>2, <4>3
      <4> QED BY <4>1, <4>4
    <3> QED BY <3>1, <3>2
  <2>3. Reached(t, f, r, 1 .. r)
    BY DEF CutBest
  <2> QED BY <2>1, <2>2, <2>3 DEF Reached
<1> HIDE DEF S
<1>5. Max(S) = t[r]
  BY <1>3, <1>4, MaxIs
<1> QED BY <1>5 DEF S

\* The table of a rod of length n while cell r is filled and the strips of V have been
\* compared, and what is left of it when r is done.
CutUpTo(n, t, f, m, r, V) ==
  /\ \A x \in r + 1 .. n : t[x] = 0
  /\ \A x \in 1 .. r - 1 : CutBest(t, f, x)
  /\ InCell(t, f, m, r, V)

LEMMA ComparedInRod ==
  ASSUME NEW n \in Nat, NEW t \in Values(n), NEW f \in Values(n), NEW m \in Nat,
         NEW r \in 1 .. n, NEW V \in SUBSET (1 .. r), NEW s \in 1 .. r, CutUpTo(n, t, f, m, r, V),
         NEW t2, NEW m2, Sold(t, f, m, r, s, t2, m2)
  PROVE  CutUpTo(n, t2, f, m2, r, V \cup {s})
<1>1. /\ InCell(t2, f, m2, r, V \cup {s})
      /\ \A x \in 1 .. r - 1 : CutBest(t, f, x) => CutBest(t2, f, x)
  <2>1. InCell(t, f, m, r, V)
    BY DEF CutUpTo
  <2> QED BY <2>1, Compared
<1>2. \A x \in r + 1 .. n : t2[x] = t[x]
  BY DEF Values, Sold
<1> QED BY <1>1, <1>2 DEF CutUpTo

LEMMA NextInRod ==
  ASSUME NEW n \in Nat, NEW t \in Values(n), NEW f \in Values(n), NEW m \in Nat,
         NEW r \in 1 .. n, CutUpTo(n, t, f, m, r, 1 .. r)
  PROVE  /\ \A x \in 1 .. r : CutBest(t, f, x)
         /\ r < n => CutUpTo(n, t, f, m, r + 1, {})
<1>1. 1 \in 1 .. r
  OBVIOUS
<1>2. CutBest(t, f, r) /\ m = t[r]
  BY <1>1 DEF CutUpTo, InCell, CutBest
<1>3. \A x \in 1 .. r : x \in 1 .. r - 1 \/ x = r
  OBVIOUS
<1>4. \A x \in 1 .. r : CutBest(t, f, x)
  BY <1>2, <1>3 DEF CutUpTo
<1>5. ASSUME r < n PROVE CutUpTo(n, t, f, m, r + 1, {})
  <2>1. /\ r + 1 \in r + 1 .. n /\ (r + 1) - 1 = r
        /\ \A x \in (r + 1) + 1 .. n : x \in r + 1 .. n
    BY <1>5
  <2> QED BY <1>2, <1>4, <2>1 DEF CutUpTo, InCell
<1> QED BY <1>4, <1>5

-----------------------------------------------------------------------------
(* The rod that a narrow sheet is, in the table of the sheet.              *)

At(s)     == IF sheet.width = 1 THEN <<1, s>> ELSE <<s, 1>>
RodLength == IF sheet.width = 1 THEN sheet.length ELSE sheet.width
RodTable  == [s \in 0 .. RodLength |-> table[At(s)]]
RodPrices == [s \in 0 .. RodLength |-> prices_p[At(s)]]

\* The cell that is filled and the strips that have been compared there: one of the two
\* loops takes every strip of the rod, the other the whole of it.
Here == IF sheet.width = 1 THEN length ELSE width
Tried ==
  IF sheet.width = 1 THEN (IF loop = "lengths" THEN 1 .. strip - 1 ELSE 1 .. length)
                     ELSE (IF loop = "lengths" THEN {} ELSE {width} \cup 1 .. strip - 1)

RodInv ==
  /\ \A c \in Cells : c[1] = 0 \/ c[2] = 0 => table[c] = 0
  /\ loop \in {"lengths", "widths"} => CutUpTo(RodLength, RodTable, RodPrices, max, Here, Tried)
  /\ loop = "done" => \A x \in 1 .. RodLength : CutBest(RodTable, RodPrices, x)

LEMMA RodParts ==
  ASSUME TypeOK, Rod
  PROVE  /\ sheet.width \in Nat /\ sheet.length \in Nat /\ RodLength \in Nat
         /\ \A s \in 0 .. RodLength : At(s) \in Cells
         /\ RodTable \in Values(RodLength) /\ RodPrices \in Values(RodLength)
<1>1. sheet.width \in Nat /\ sheet.length \in Nat
  BY SheetParts DEF TypeOK
<1>2. RodLength \in Nat /\ \A s \in 0 .. RodLength : At(s) \in Cells
  BY <1>1 DEF Rod, RodLength, At, Cells
<1> QED BY <1>1, <1>2 DEF TypeOK, RodTable, RodPrices, Values

LEMMA InitRod == Init => (Rod => RodInv)
<1> SUFFICES ASSUME Init PROVE RodInv
  OBVIOUS
<1> QED BY DEF Init, RodInv

\* A comparison in a rod is one with a strip of the rod.
LEMMA ComparedHere ==
  ASSUME TypeOK, Rod, RodInv, loop \in {"lengths", "widths"}, sheet' = sheet, prices_p' = prices_p,
         width \in 1 .. sheet.width, length \in 1 .. sheet.length, NEW s \in 1 .. Here, NEW tmp,
         tmp = RodPrices[s] + RodTable[Here - s], Compare(tmp), table' \in [Cells -> Nat], max' \in Nat
  PROVE  /\ RodLength' = RodLength /\ RodPrices' = RodPrices /\ RodTable' \in Values(RodLength)
         /\ \A c \in Cells : c[1] = 0 \/ c[2] = 0 => table'[c] = 0
         /\ CutUpTo(RodLength, RodTable', RodPrices, max', Here, Tried \cup {s})
<1>1. /\ RodLength \in Nat /\ RodTable \in Values(RodLength) /\ RodPrices \in Values(RodLength)
      /\ sheet.width \in Nat /\ sheet.length \in Nat /\ \A x \in 0 .. RodLength : At(x) \in Cells
  BY RodParts
<1>2. /\ Here \in 1 .. RodLength /\ <<width, length>> = At(Here) /\ Tried \subseteq 1 .. Here
      /\ RodTable[Here] = table[At(Here)]
  <2>1. Here \in 1 .. RodLength /\ <<width, length>> = At(Here)
    BY <1>1 DEF Here, RodLength, At, Rod
  <2>2. strip \in Nat \ {0} /\ strip <= IF loop = "lengths" THEN length ELSE width
    BY DEF TypeOK
  <2>3. Tried \subseteq 1 .. Here
    BY <1>1, <2>2 DEF Here, Tried
  <2>4. Here \in 0 .. RodLength
    BY <1>1, <2>1
  <2> QED BY <2>1, <2>3, <2>4 DEF RodTable
<1>3. /\ max' = IF tmp > RodTable[Here] THEN tmp ELSE max
      /\ table' = [table EXCEPT ![At(Here)] = max']
  BY <1>2 DEF Compare
<1>4. RodLength' = RodLength /\ RodPrices' = RodPrices /\ \A x : At(x)' = At(x)
  BY DEF RodLength, RodPrices, At
<1>5. RodTable' = [RodTable EXCEPT ![Here] = max']
  <2>1. \A x \in 0 .. RodLength : At(x) = At(Here) <=> x = Here
    BY DEF At
  <2>2. table \in [Cells -> Nat]
    BY DEF TypeOK
  <2>3. \A x \in 0 .. RodLength : table'[At(x)] = IF x = Here THEN max' ELSE table[At(x)]
    BY <1>1, <1>3, <2>1, <2>2
  <2> QED BY <1>2, <1>4, <2>3 DEF RodTable
<1>6. RodTable' \in Values(RodLength)
  BY <1>1, <1>2, <1>5 DEF Values
<1>7. ASSUME NEW c \in Cells, c[1] = 0 \/ c[2] = 0 PROVE table'[c] = 0
  <2>1. c # <<width, length>> /\ table[c] = 0
    BY <1>7 DEF RodInv
  <2> QED BY <1>2, <1>3, <2>1 DEF TypeOK
<1>8. CutUpTo(RodLength, RodTable', RodPrices, max', Here, Tried \cup {s})
  <2>1. CutUpTo(RodLength, RodTable, RodPrices, max, Here, Tried) /\ max \in Nat
    BY DEF RodInv, TypeOK
  <2>2. Sold(RodTable, RodPrices, max, Here, s, RodTable', max')
    BY <1>3, <1>5 DEF Sold
  <2> HIDE DEF Here
  <2> QED BY <1>1, <1>2, <2>1, <2>2, ComparedInRod
<1> QED BY <1>4, <1>6, <1>7, <1>8

LEMMA NextRod ==
  ASSUME TypeInv, TypeInv', Rod, RodInv, [Next]_cuttingVars
  PROVE  RodInv'
<1>1. /\ TypeOK /\ TypeOK' /\ sheet' = sheet /\ Cells' = Cells /\ Rod'
      /\ RodLength' = RodLength /\ \A x : At(x)' = At(x)
  <2>1. sheet' = sheet
    BY DEF Next, ReadPiece, StartCutting, LengthStrip, WidthStrip, cuttingVars
  <2> QED BY <2>1 DEF TypeInv, Cells, Rod, RodLength, At
<1>2. /\ RodLength \in Nat /\ RodTable \in Values(RodLength) /\ RodPrices \in Values(RodLength)
      /\ sheet.width \in Nat /\ sheet.length \in Nat /\ \A x \in 0 .. RodLength : At(x) \in Cells
  BY <1>1, RodParts
<1>3. CASE ReadPiece
  BY <1>1, <1>3 DEF ReadPiece, RodInv, cutVars
<1>4. CASE StartCutting
  <2>1. /\ loop = "pieces" /\ prices_p' = prices_p /\ UNCHANGED <<table, max, width, length, strip>>
        /\ loop' = IF sheet.width > 0 /\ sheet.length > 0 THEN "lengths" ELSE "done"
    BY <1>4 DEF StartCutting, cutVars
  <2>2. table = [c \in Cells |-> 0] /\ max = 0 /\ width = 1 /\ length = 1 /\ strip = 1
    BY <2>1 DEF TypeInv, Uncut
  <2>3. CASE loop' = "lengths"
    <3>1. RodLength >= 1 /\ Here' = 1 /\ Tried' = {}
      BY <1>1, <1>2, <2>1, <2>2, <2>3 DEF RodLength, Here, Tried
    <3>2. \A x \in 0 .. RodLength : RodTable'[x] = 0
      BY <1>1, <1>2, <2>1, <2>2 DEF RodTable
    <3>3. CutUpTo(RodLength, RodTable', RodPrices', max', 1, {})
      BY <1>2, <2>1, <2>2, <3>1, <3>2 DEF CutUpTo, InCell
    <3> QED BY <1>1, <2>1, <2>2, <2>3, <3>1, <3>3 DEF RodInv
  <2>4. CASE loop' = "done"
    <3>1. RodLength = 0
      BY <1>2, <2>1, <2>4 DEF Rod, RodLength
    <3> QED BY <1>1, <2>1, <2>2, <2>4, <3>1 DEF RodInv
  <2> QED BY <2>1, <2>3, <2>4
<1>5. CASE LengthStrip
  <2>1. /\ loop = "lengths" /\ Compare(prices_p[<<width, strip>>] + table[<<width, length - strip>>])
        /\ UNCHANGED <<prices_p, width, length>>
        /\ \/ strip < length /\ strip' = strip + 1 /\ loop' = "lengths"
           \/ strip >= length /\ strip' = 1 /\ loop' = "widths"
    BY <1>5 DEF LengthStrip, TypeOK, TypeInv
  <2>2. width \in 1 .. sheet.width /\ length \in 1 .. sheet.length /\ strip \in 1 .. length
    BY <1>1, <1>2, <2>1 DEF TypeOK
  <2>3. table' \in [Cells -> Nat] /\ max' \in Nat
    BY <1>1 DEF TypeOK
  <2>4. \E s \in 1 .. Here :
          /\ prices_p[<<width, strip>>] + table[<<width, length - strip>>]
               = RodPrices[s] + RodTable[Here - s]
          /\ Tried' = Tried \cup {s}
    <3>1. CASE sheet.width = 1
      <4>1. /\ width = 1 /\ Here = length /\ RodLength = sheet.length
            /\ strip \in 0 .. RodLength /\ length - strip \in 0 .. RodLength
        BY <1>2, <2>2, <3>1 DEF Here, RodLength
      <4>2. /\ RodPrices[strip] = prices_p[<<width, strip>>]
            /\ RodTable[length - strip] = table[<<width, length - strip>>]
        BY <3>1, <4>1 DEF RodPrices, RodTable, At
      <4>3. Tried' = Tried \cup {strip}
        BY <1>1, <2>1, <2>2, <3>1 DEF Tried
      <4> QED BY <2>2, <4>1, <4>2, <4>3
    <3>2. CASE sheet.width # 1
      <4>1. /\ length = 1 /\ strip = 1 /\ Here = width /\ RodLength = sheet.width
            /\ width \in 0 .. RodLength /\ 0 \in 0 .. RodLength /\ width - width = 0 /\ length - strip = 0
        BY <1>2, <2>2, <3>2 DEF Here, RodLength, Rod
      <4>2. RodPrices[width] = prices_p[<<width, strip>>] /\ RodTable[0] = table[<<0, 1>>]
        BY <3>2, <4>1 DEF RodPrices, RodTable, At
      <4>3. table[<<0, 1>>] = 0 /\ table[<<width, 0>>] = 0
        BY <1>2, <2>2, <4>1 DEF RodInv, Cells
      <4>4. Tried' = Tried \cup {width} /\ width \in 1 .. Here
        BY <1>1, <2>1, <2>2, <3>2, <4>1 DEF Tried
      <4> QED BY <4>1, <4>2, <4>3, <4>4
    <3> QED BY <3>1, <3>2
  <2>5. /\ RodPrices' = RodPrices /\ Here' = Here
        /\ \A c \in Cells : c[1] = 0 \/ c[2] = 0 => table'[c] = 0
        /\ CutUpTo(RodLength, RodTable', RodPrices, max', Here, Tried')
    BY <1>1, <2>1, <2>2, <2>3, <2>4, ComparedHere DEF Here
  <2> QED BY <1>1, <2>1, <2>5 DEF RodInv
<1>6. CASE WidthStrip
  <2>1. /\ loop = "widths" /\ Compare(prices_p[<<strip, length>>] + table[<<width - strip, length>>])
        /\ prices_p' = prices_p
        /\ \/ strip < width /\ strip' = strip + 1 /\ UNCHANGED <<loop, width, length>>
           \/ strip >= width /\ strip' = 1 /\ NextCell
    BY <1>6 DEF WidthStrip, TypeOK, TypeInv
  <2>2. width \in 1 .. sheet.width /\ length \in 1 .. sheet.length /\ strip \in 1 .. width
    BY <1>1, <1>2, <2>1 DEF TypeOK
  <2>3. table' \in [Cells -> Nat] /\ max' \in Nat
    BY <1>1 DEF TypeOK
  <2>4. \E s \in 1 .. Here :
          /\ prices_p[<<strip, length>>] + table[<<width - strip, length>>]
               = RodPrices[s] + RodTable[Here - s]
          /\ strip < width => Tried' = Tried \cup {s}
          /\ strip >= width => Tried \cup {s} = 1 .. Here
    <3>1. CASE sheet.width = 1
      <4>1. /\ width = 1 /\ strip = 1 /\ Here = length /\ RodLength = sheet.length
            /\ length \in 0 .. RodLength /\ 0 \in 0 .. RodLength /\ length - length = 0 /\ width - strip = 0
        BY <1>2, <2>2, <3>1 DEF Here, RodLength
      <4>2. RodPrices[length] = prices_p[<<strip, length>>] /\ RodTable[0] = table[<<1, 0>>]
        BY <3>1, <4>1 DEF RodPrices, RodTable, At
      <4>3. table[<<1, 0>>] = 0 /\ table[<<0, length>>] = 0
        BY <1>2, <2>2, <3>1, <4>1 DEF RodInv, Cells
      <4>4. Tried = 1 .. Here /\ length \in 1 .. Here
        BY <2>1, <2>2, <3>1, <4>1 DEF Tried
      <4> QED BY <4>1, <4>2, <4>3, <4>4
    <3>2. CASE sheet.width # 1
      <4>1. /\ length = 1 /\ Here = width /\ RodLength = sheet.width
            /\ strip \in 0 .. RodLength /\ width - strip \in 0 .. RodLength
        BY <1>2, <2>2, <3>2 DEF Here, RodLength, Rod
      <4>2. /\ RodPrices[strip] = prices_p[<<strip, length>>]
            /\ RodTable[width - strip] = table[<<width - strip, length>>]
        BY <3>2, <4>1 DEF RodPrices, RodTable, At
      <4>3. Tried = {width} \cup 1 .. strip - 1
        BY <2>1, <3>2 DEF Tried
      <4>4. strip < width => Tried' = Tried \cup {strip}
        <5>1. strip < width => strip' = strip + 1 /\ loop' = "widths" /\ width' = width
          BY <2>1, <2>2
        <5>2. strip < width => Tried' = {width} \cup 1 .. strip
          BY <1>1, <2>2, <3>2, <5>1 DEF Tried
        <5> QED BY <2>2, <4>3, <5>2
      <4>5. strip >= width => Tried \cup {strip} = 1 .. Here
        BY <2>2, <4>1, <4>3
      <4> QED BY <2>2, <4>1, <4>2, <4>4, <4>5
    <3> QED BY <3>1, <3>2
  <2>5. PICK s \in 1 .. Here :
          /\ RodPrices' = RodPrices /\ RodTable' \in Values(RodLength)
          /\ \A c \in Cells : c[1] = 0 \/ c[2] = 0 => table'[c] = 0
          /\ CutUpTo(RodLength, RodTable', RodPrices, max', Here, Tried \cup {s})
          /\ strip < width => Tried' = Tried \cup {s}
          /\ strip >= width => Tried \cup {s} = 1 .. Here
    BY <1>1, <2>1, <2>2, <2>3, <2>4, ComparedHere
  <2>6. CASE strip < width
    <3>1. Here' = Here /\ loop' = "widths"
      BY <1>1, <2>1, <2>2, <2>6 DEF Here
    <3> QED BY <1>1, <2>5, <2>6, <3>1 DEF RodInv
  <2>7. CASE strip >= width
    <3>1. NextCell /\ strip' = 1
      BY <2>1, <2>2, <2>7
    <3>2. Here \in 1 .. RodLength
      BY <1>2, <2>2 DEF Here, RodLength
    <3>3. /\ \A x \in 1 .. Here : CutBest(RodTable', RodPrices, x)
          /\ Here < RodLength => CutUpTo(RodLength, RodTable', RodPrices, max', Here + 1, {})
      <4> HIDE DEF Here
      <4> QED BY <1>2, <2>3, <2>5, <2>7, <3>2, NextInRod
    <3>4. \/ loop' = "lengths" /\ Here < RodLength /\ Here' = Here + 1
          \/ loop' = "done" /\ Here = RodLength
      <4>1. CASE sheet.width = 1
        BY <1>1, <1>2, <2>2, <3>1, <4>1 DEF NextCell, Here, RodLength
      <4>2. CASE sheet.width # 1
        BY <1>1, <1>2, <2>2, <3>1, <4>2 DEF NextCell, Here, RodLength, Rod
      <4> QED BY <4>1, <4>2
    <3>5. loop' = "lengths" => Tried' = {}
      BY <1>1, <3>1 DEF Tried
    <3>6. /\ loop' = "lengths" => CutUpTo(RodLength, RodTable', RodPrices, max', Here', Tried')
          /\ loop' = "done" => \A x \in 1 .. RodLength : CutBest(RodTable', RodPrices, x)
      BY <3>3, <3>4, <3>5
    <3> QED BY <1>1, <2>5, <3>4, <3>6 DEF RodInv
  <2> QED BY <2>2, <2>6, <2>7
<1>7. CASE UNCHANGED cuttingVars
  BY <1>1, <1>7 DEF RodInv, RodTable, RodPrices, Here, Tried, cuttingVars, cutVars
<1> QED BY <1>3, <1>4, <1>5, <1>6, <1>7 DEF Next

-----------------------------------------------------------------------------
(* The best prices are well defined: a cell's depends on smaller cells.    *)

BestOf(B, c) == IF c[1] = 0 \/ c[2] = 0 THEN 0 ELSE Max(Cuts(B, c))

LEMMA CutsOfParts ==
  ASSUME sheet.width \in Nat, sheet.length \in Nat, NEW c \in Cells, NEW B, NEW D,
         \A d \in Cells : d[1] + d[2] < c[1] + c[2] => B[d] = D[d]
  PROVE  BestOf(B, c) = BestOf(D, c)
<1>1. c[1] \in 0 .. sheet.width /\ c[2] \in 0 .. sheet.length
  BY DEF Cells
<1> SUFFICES ASSUME c[1] # 0, c[2] # 0 PROVE Cuts(B, c) = Cuts(D, c)
  BY DEF BestOf
<1>2. ASSUME NEW i \in 1 .. c[2] - 1
      PROVE  B[<<c[1], i>>] = D[<<c[1], i>>] /\ B[<<c[1], c[2] - i>>] = D[<<c[1], c[2] - i>>]
  <2>1. <<c[1], i>> \in Cells /\ <<c[1], c[2] - i>> \in Cells
    BY <1>1 DEF Cells
  <2>2. c[1] + i < c[1] + c[2] /\ c[1] + (c[2] - i) < c[1] + c[2]
    BY <1>1
  <2> QED BY <2>1, <2>2
<1>3. ASSUME NEW j \in 1 .. c[1] - 1
      PROVE  B[<<j, c[2]>>] = D[<<j, c[2]>>] /\ B[<<c[1] - j, c[2]>>] = D[<<c[1] - j, c[2]>>]
  <2>1. <<j, c[2]>> \in Cells /\ <<c[1] - j, c[2]>> \in Cells
    BY <1>1 DEF Cells
  <2>2. j + c[2] < c[1] + c[2] /\ (c[1] - j) + c[2] < c[1] + c[2]
    BY <1>1
  <2> QED BY <2>1, <2>2
<1>4. {B[<<c[1], i>>] + B[<<c[1], c[2] - i>>] : i \in 1 .. c[2] - 1}
        = {D[<<c[1], i>>] + D[<<c[1], c[2] - i>>] : i \in 1 .. c[2] - 1}
  <2>1. \A i \in 1 .. c[2] - 1 :
          B[<<c[1], i>>] + B[<<c[1], c[2] - i>>] = D[<<c[1], i>>] + D[<<c[1], c[2] - i>>]
    BY <1>2
  <2> QED BY <2>1, Zenon
<1>5. {B[<<j, c[2]>>] + B[<<c[1] - j, c[2]>>] : j \in 1 .. c[1] - 1}
        = {D[<<j, c[2]>>] + D[<<c[1] - j, c[2]>>] : j \in 1 .. c[1] - 1}
  <2>1. \A j \in 1 .. c[1] - 1 :
          B[<<j, c[2]>>] + B[<<c[1] - j, c[2]>>] = D[<<j, c[2]>>] + D[<<c[1] - j, c[2]>>]
    BY <1>3
  <2> QED BY <2>1, Zenon
<1> QED BY <1>4, <1>5 DEF Cuts

LEMMA BestExists ==
  ASSUME sheet.width \in Nat, sheet.length \in Nat
  PROVE  \E B : B = [c \in Cells |-> BestOf(B, c)]
<1> DEFINE n == sheet.width + sheet.length
           Good(B, k) ==
             B = [c \in Cells |-> B[c]] /\ \A c \in Cells : c[1] + c[2] <= k => B[c] = BestOf(B, c)
           I == {k \in 0 .. n : \E B : Good(B, k)}
<1>1. n \in Nat /\ \A c \in Cells : c[1] \in Nat /\ c[2] \in Nat /\ c[1] + c[2] \in 0 .. n
  BY DEF Cells
<1> HIDE DEF n, Good
<1>2. \E B : Good(B, 0)
  <2> DEFINE Z == [c \in Cells |-> 0]
  <2>1. \A c \in Cells : c[1] + c[2] <= 0 => c[1] = 0
    BY <1>1
  <2>2. Good(Z, 0)
    BY <2>1 DEF Good, BestOf
  <2> QED BY <2>2
<1>3. ASSUME NEW k \in 1 .. n, \E B : Good(B, k - 1) PROVE \E B : Good(B, k)
  <2>1. PICK B : Good(B, k - 1)
    BY <1>3
  <2> DEFINE D == [c \in Cells |-> IF c[1] + c[2] <= k - 1 THEN B[c] ELSE BestOf(B, c)]
  <2>2. D = [c \in Cells |-> D[c]]
    OBVIOUS
  <2>3. ASSUME NEW c \in Cells, c[1] + c[2] <= k PROVE D[c] = BestOf(D, c)
    <3>1. \A d \in Cells : d[1] + d[2] < c[1] + c[2] => D[d] = B[d]
      BY <1>1, <2>3
    <3>2. D[c] = BestOf(B, c)
      BY <2>1 DEF Good
    <3> HIDE DEF D
    <3> QED BY <3>1, <3>2, CutsOfParts
  <2> HIDE DEF D
  <2> QED BY <2>2, <2>3 DEF Good
<1>4. \E B : Good(B, n)
  <2>1. I \in SUBSET (0 .. n) /\ 0 \in I
    BY <1>1, <1>2
  <2>2. \A k \in 1 .. n : k - 1 \in I => k \in I
    BY <1>3
  <2>3. n \in 0 .. n
    BY <1>1
  <2> HIDE DEF I
  <2>4. n \in I
    BY <1>1, <2>1, <2>2, <2>3, UpFromZero
  <2> QED BY <2>4 DEF I
<1>5. PICK B : Good(B, n)
  BY <1>4
<1>6. \A c \in Cells : B[c] = BestOf(B, c)
  BY <1>1, <1>5 DEF Good
<1>7. B = [c \in Cells |-> BestOf(B, c)]
  BY <1>5, <1>6 DEF Good
<1> QED BY <1>7

LEMMA BestIs ==
  ASSUME sheet.width \in Nat, sheet.length \in Nat
  PROVE  \E B : B = [c \in Cells |-> BestOf(B, c)] /\ Best = B[<<sheet.width, sheet.length>>]
<1> DEFINE B == CHOOSE B : B = [c \in Cells |-> BestOf(B, c)]
<1>1. B = [c \in Cells |-> BestOf(B, c)]
  BY BestExists
<1>2. Best = B[<<sheet.width, sheet.length>>]
  BY DEF Best, BestOf
<1> HIDE DEF B
<1> QED BY <1>1, <1>2

-----------------------------------------------------------------------------
(* The table of a rod has the best prices.                                 *)

\* The best that a rod of length r brings is what the table has for it.
LEMMA BestOfRod ==
  ASSUME TypeOK, Rod, RodInv, PricesRead, PlainPieces, loop = "done", NEW B, B = [c \in Cells |-> BestOf(B, c)],
         NEW r \in 0 .. RodLength
  PROVE  B[At(r)] = RodTable[r]
<1>1. /\ sheet.width \in Nat /\ sheet.length \in Nat /\ RodLength \in Nat
      /\ \A s \in 0 .. RodLength : At(s) \in Cells
      /\ RodTable \in Values(RodLength) /\ RodPrices \in Values(RodLength)
  BY RodParts
<1>2. /\ \A s \in 1 .. RodLength : RodPrices[s] = Price(At(s))
      /\ \A s \in 0 .. RodLength : RodTable[s] = table[At(s)]
  <2>1. \A s \in 1 .. RodLength : s \in 0 .. RodLength /\ At(s)[1] # 0 /\ At(s)[2] # 0
    BY DEF At
  <2> QED BY <1>1, <2>1, OfferedPrices DEF RodPrices, RodTable
<1>3. RodTable[0] = 0 /\ B[At(0)] = 0
  <2>1. At(0) \in Cells /\ (At(0)[1] = 0 \/ At(0)[2] = 0)
    BY <1>1 DEF At
  <2> QED BY <1>1, <1>2, <2>1 DEF RodInv, BestOf
<1>4. ASSUME NEW k \in 1 .. RodLength, \A i \in 0 .. k - 1 : B[At(i)] = RodTable[i]
      PROVE  B[At(k)] = RodTable[k]
  <2>1. At(k) \in Cells /\ B[At(k)] = Max(Cuts(B, At(k)))
    <3>1. k \in 0 .. RodLength /\ At(k)[1] # 0 /\ At(k)[2] # 0
      BY DEF At
    <3> QED BY <1>1, <3>1 DEF BestOf
  <2>2. Cuts(B, At(k)) = {Price(At(k))} \cup {B[At(i)] + B[At(k - i)] : i \in 1 .. k - 1}
    <3>1. CASE sheet.width = 1
      BY <3>1 DEF Cuts, At
    <3>2. CASE sheet.width # 1
      BY <3>2 DEF Cuts, At
    <3> QED BY <3>1, <3>2
  <2>3. {B[At(i)] + B[At(k - i)] : i \in 1 .. k - 1} = {RodTable[i] + RodTable[k - i] : i \in 1 .. k - 1}
    <3>1. \A i \in 1 .. k - 1 : i \in 0 .. k - 1 /\ k - i \in 0 .. k - 1
      OBVIOUS
    <3>2. \A i \in 1 .. k - 1 : B[At(i)] = RodTable[i] /\ B[At(k - i)] = RodTable[k - i]
      BY <1>4, <3>1
    <3> QED BY <3>2
  <2>4. Price(At(k)) = RodPrices[k]
    BY <1>2
  <2>5. Max({RodPrices[k]} \cup {RodTable[i] + RodTable[k - i] : i \in 1 .. k - 1}) = RodTable[k]
    BY <1>1, <1>3, RodIsBest DEF RodInv
  <2> QED BY <2>1, <2>2, <2>3, <2>4, <2>5
<1> DEFINE I == {k \in 0 .. RodLength : \A i \in 0 .. k : B[At(i)] = RodTable[i]}
<1>5. I \in SUBSET (0 .. RodLength) /\ 0 \in I
  BY <1>1, <1>3
<1>6. ASSUME NEW k \in 1 .. RodLength, k - 1 \in I PROVE k \in I
  <2>1. \A i \in 0 .. k - 1 : B[At(i)] = RodTable[i]
    BY <1>6
  <2>2. B[At(k)] = RodTable[k]
    BY <1>4, <2>1
  <2>3. k \in 0 .. RodLength /\ \A i \in 0 .. k : i \in 0 .. k - 1 \/ i = k
    BY <1>1
  <2> QED BY <2>1, <2>2, <2>3
<1> HIDE DEF I
<1>7. r \in I
  BY <1>1, <1>5, <1>6, UpFromZero
<1> QED BY <1>7 DEF I

\* A sheet that is as narrow as a rod is cut for the best price there is, for any
\* length and any pieces, given or turned, of which main loses none: it drops those
\* that fit only when turned and keeps the last of those of one size.
THEOREM RodsCutBest == Spec => []RodsBest
<1> DEFINE Inv == TypeInv /\ PricesRead /\ (Rod => RodInv)
<1>1. Init => Inv
  BY InitTypes, InitPrices, InitRod
<1>2. Inv /\ [Next]_cuttingVars => Inv'
  <2> SUFFICES ASSUME TypeInv, PricesRead, Rod => RodInv, [Next]_cuttingVars PROVE Inv'
    OBVIOUS
  <2>1. TypeInv' /\ TypeOK
    BY NextTypes DEF TypeInv
  <2>2. PricesRead'
    BY <2>1, NextPrices
  <2>3. Rod' <=> Rod
    <3>1. sheet' = sheet
      BY DEF Next, ReadPiece, StartCutting, LengthStrip, WidthStrip, cuttingVars
    <3> QED BY <3>1 DEF Rod
  <2>4. (Rod => RodInv)'
    BY <2>1, <2>3, NextRod
  <2> QED BY <2>1, <2>2, <2>4
<1>3. Inv => RodsBest
  <2> SUFFICES ASSUME TypeOK, PricesRead, RodInv, loop = "done", Rod, PlainPieces
               PROVE  table[<<sheet.width, sheet.length>>] = Best
    BY DEF RodsBest, TypeInv
  <2>1. sheet.width \in Nat /\ sheet.length \in Nat /\ RodLength \in 0 .. RodLength
    BY RodParts
  <2>2. PICK B : B = [c \in Cells |-> BestOf(B, c)] /\ Best = B[<<sheet.width, sheet.length>>]
    BY <2>1, BestIs
  <2>3. <<sheet.width, sheet.length>> = At(RodLength)
    BY DEF Rod, At, RodLength
  <2>4. B[At(RodLength)] = RodTable[RodLength]
    BY <2>1, <2>2, BestOfRod
  <2> QED BY <2>1, <2>2, <2>3, <2>4 DEF RodTable
<1> HIDE DEF Inv
<1> QED BY <1>1, <1>2, <1>3, PTL DEF Spec

=============================================================================
