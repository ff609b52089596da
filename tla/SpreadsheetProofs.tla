------------------------- MODULE SpreadsheetProofs -------------------------
(***************************************************************************)
(* Proofs about Spreadsheet and Calculator, for sheets of any size, any    *)
(* entries, documents and files.                                           *)
(***************************************************************************)
EXTENDS Calculator, FiniteSetTheorems, SequenceTheorems, WellFoundedInduction, TLAPS

-----------------------------------------------------------------------------
(* Folds.  What a command does to the cells of a range is a fold; it goes  *)
(* through as many sheets as there are cells.                              *)

\* Counting from 0 up to n.
LEMMA UpFromZero ==
  ASSUME NEW n \in Nat, NEW I \in SUBSET (0 .. n), 0 \in I,
         \A i \in 1 .. n : i - 1 \in I => i \in I
  PROVE  \A i \in 0 .. n : i \in I
<1> SUFFICES ASSUME (0 .. n) \ I # {} PROVE FALSE
  OBVIOUS
<1>1. (0 .. n) \ I \subseteq Nat
  OBVIOUS
<1>2. PICK x \in (0 .. n) \ I : \A y \in (0 .. n) \ I : ~ (<<y, x>> \in OpToRel(<, Nat))
  BY <1>1, NatLessThanWellFounded, WFMin
<1>3. x # 0 /\ x \in 1 .. n /\ x - 1 \in 0 .. n
  OBVIOUS
<1>4. x - 1 < x /\ <<x - 1, x>> \in Nat \X Nat
  BY <1>3
<1>5. <<x - 1, x>> \in OpToRel(<, Nat)
  BY <1>4 DEF OpToRel
<1>6. x - 1 \in I
  BY <1>2, <1>3, <1>5
<1> QED BY <1>2, <1>3, <1>6

\* A set of numbers has a greatest one.
LEMMA Greatest ==
  ASSUME NEW n \in Nat, NEW u \in SUBSET (1 .. n), u # {}
  PROVE  Max(u) \in u /\ \A i \in u : i <= Max(u)
<1> DEFINE I == {i \in 0 .. n : \A v \in SUBSET (1 .. i) : v = {} \/ \E x \in v : \A y \in v : x >= y}
<1>1. 0 \in I
  OBVIOUS
<1>2. ASSUME NEW i \in 1 .. n, i - 1 \in I PROVE i \in I
  <2> SUFFICES ASSUME NEW v \in SUBSET (1 .. i), v # {}
               PROVE  \E x \in v : \A y \in v : x >= y
    OBVIOUS
  <2>1. CASE i \in v
    BY <2>1
  <2>2. CASE i \notin v
    <3>1. v \in SUBSET (1 .. i - 1)
      BY <2>2
    <3> QED BY <1>2, <3>1
  <2> QED BY <2>1, <2>2
<1>3. \E x \in u : \A y \in u : x >= y
  <2> HIDE DEF I
  <2>1. I \in SUBSET (0 .. n)
    BY DEF I
  <2>2. n \in I
    BY <1>1, <1>2, <2>1, UpFromZero
  <2> QED BY <2>2 DEF I
<1> QED BY <1>3 DEF Max

\* F takes a step with number 1 .. n within S; g is what a fold of the steps is defined
\* by, and p goes through its results.
Steps(F, n, S) == F \in [(1 .. n) \X S -> S]
Solves(g, n, base, F) ==
  \A u \in SUBSET (1 .. n) : g[u] = IF u = {} THEN base ELSE F[<<Max(u), g[u \ {Max(u)}]>>]
SolvesWithin(g, n, S, base, F) ==
  /\ g[{}] = base
  /\ \A u \in SUBSET (1 .. n) :
       u # {} /\ g[u \ {Max(u)}] \in S => g[u] = F[<<Max(u), g[u \ {Max(u)}]>>]
Path(p, n, S, base, F) ==
  p \in [0 .. n -> S] /\ p[0] = base /\ \A i \in 1 .. n : p[i] = F[<<i, p[i - 1]>>]

\* The recursion that a fold is defined by has a solution.
LEMMA FoldExists ==
  ASSUME NEW n \in Nat, NEW S, NEW base \in S, NEW F, Steps(F, n, S)
  PROVE  \E g \in [SUBSET (1 .. n) -> S] : Solves(g, n, base, F)
<1> USE DEF Steps
<1> DEFINE Solution(g, i) == g \in [SUBSET (1 .. i) -> S] /\ Solves(g, i, base, F)
           I == {i \in 0 .. n : \E g : Solution(g, i)}
<1> HIDE DEF Solution
<1>1. 0 \in I
  <2>1. Solution([u \in SUBSET (1 .. 0) |-> base], 0)
    BY DEF Solution, Solves
  <2>2. 0 \in 0 .. n
    OBVIOUS
  <2> QED BY <2>1, <2>2
<1>2. ASSUME NEW i \in 1 .. n, i - 1 \in I PROVE i \in I
  <2>1. PICK g : Solution(g, i - 1)
    BY <1>2
  <2> DEFINE h == [u \in SUBSET (1 .. i) |-> IF i \in u THEN F[<<i, g[u \ {i}]>>] ELSE g[u]]
  <2>2. ASSUME NEW u \in SUBSET (1 .. i)
        PROVE  h[u] = (IF u = {} THEN base ELSE F[<<Max(u), h[u \ {Max(u)}]>>]) /\ h[u] \in S
    <3>1. CASE i \in u
      <4>1. Max(u) = i
        <5>1. Max(u) \in u /\ \A j \in u : j <= Max(u)
          <6>1. i \in Nat
            OBVIOUS
          <6> QED BY <3>1, <6>1, Greatest
        <5>2. Max(u) \in 1 .. i
          BY <5>1
        <5> QED BY <3>1, <5>1, <5>2
      <4>2. u \ {i} \in SUBSET (1 .. i - 1) /\ u \ {i} \in SUBSET (1 .. i)
        OBVIOUS
      <4>3. h[u] = F[<<i, g[u \ {i}]>>] /\ h[u \ {i}] = g[u \ {i}]
        BY <3>1, <4>2
      <4>4. g[u \ {i}] \in S
        BY <2>1, <4>2 DEF Solution, Solves
      <4> QED BY <3>1, <4>1, <4>3, <4>4
    <3>2. CASE i \notin u
      <4>1. u \in SUBSET (1 .. i - 1) /\ h[u] = g[u]
        BY <3>2
      <4>2. CASE u = {}
        BY <2>1, <4>1, <4>2 DEF Solution, Solves
      <4>3. CASE u # {}
        <5>1. i - 1 \in Nat
          OBVIOUS
        <5>2. Max(u) \in u
          BY <4>1, <4>3, <5>1, Greatest
        <5>3. u \ {Max(u)} \in SUBSET (1 .. i) /\ h[u \ {Max(u)}] = g[u \ {Max(u)}]
          BY <3>2
        <5>4. g[u] = F[<<Max(u), g[u \ {Max(u)}]>>] /\ g[u] \in S
          BY <2>1, <4>1, <4>3 DEF Solution, Solves
        <5> QED BY <4>1, <4>3, <5>3, <5>4
      <4> QED BY <4>2, <4>3
    <3> QED BY <3>1, <3>2
  <2>3. Solution(h, i)
    <3>1. h \in [SUBSET (1 .. i) -> S]
      BY <2>2
    <3> HIDE DEF h
    <3> QED BY <2>2, <3>1 DEF Solution, Solves
  <2> QED BY <2>3
<1>3. n \in I
  <2> HIDE DEF I
  <2>1. I \in SUBSET (0 .. n)
    BY DEF I
  <2> QED BY <1>1, <1>2, <2>1, UpFromZero
<1> QED BY <1>3 DEF Solution, Solves

\* A solution that agrees with F as long as it stays in S does stay there.
LEMMA FoldPath ==
  ASSUME NEW n \in Nat, NEW S, NEW base \in S, NEW F, Steps(F, n, S), NEW g,
         SolvesWithin(g, n, S, base, F)
  PROVE  \E p : Path(p, n, S, base, F) /\ p[n] = g[1 .. n]
<1> USE DEF Steps, SolvesWithin
<1> DEFINE p == [i \in 0 .. n |-> g[1 .. i]]
           I == {i \in 0 .. n : g[1 .. i] \in S}
<1>1. 1 .. 0 = {} /\ 0 \in I
  OBVIOUS
<1>2. ASSUME NEW i \in 1 .. n, g[1 .. i - 1] \in S
      PROVE  g[1 .. i] = F[<<i, g[1 .. i - 1]>>]
  <2>1. 1 .. i \in SUBSET (1 .. n) /\ 1 .. i # {} /\ i \in Nat
    OBVIOUS
  <2>2. Max(1 .. i) = i
    <3>1. Max(1 .. i) \in 1 .. i /\ \A j \in 1 .. i : j <= Max(1 .. i)
      BY <2>1, Greatest
    <3> QED BY <3>1
  <2>3. (1 .. i) \ {i} = 1 .. i - 1
    OBVIOUS
  <2> QED BY <1>2, <2>1, <2>2, <2>3
<1>3. \A i \in 0 .. n : i \in I
  <2>1. ASSUME NEW i \in 1 .. n, i - 1 \in I PROVE i \in I
    <3>1. g[1 .. i] = F[<<i, g[1 .. i - 1]>>]
      BY <1>2, <2>1
    <3> QED BY <2>1, <3>1
  <2>2. I \in SUBSET (0 .. n)
    OBVIOUS
  <2> HIDE DEF I
  <2> QED BY <1>1, <2>1, <2>2, UpFromZero
<1>4. p \in [0 .. n -> S]
  BY <1>3
<1>5. \A i \in 1 .. n : p[i] = F[<<i, p[i - 1]>>]
  BY <1>2, <1>3
<1>6. p[0] = base /\ p[n] = g[1 .. n]
  BY <1>1
<1> QED BY <1>4, <1>5, <1>6 DEF Path

\* A recursion from 0 up to n has a solution.
LEMMA RecursionUpTo ==
  ASSUME NEW n \in Nat, NEW S, NEW base \in S, NEW F, Steps(F, n, S)
  PROVE  \E p : Path(p, n, S, base, F)
<1>1. PICK g \in [SUBSET (1 .. n) -> S] : Solves(g, n, base, F)
  BY FoldExists
<1>2. SolvesWithin(g, n, S, base, F)
  BY <1>1 DEF Solves, SolvesWithin
<1> QED BY <1>2, FoldPath

\* A list of n elements.
Listed(seq, n) == seq = [i \in 1 .. n |-> seq[i]]

\* The observers of a cell compute one after the other.
UpdateAll(base, seq) == FoldLeft(update, base, seq)
UpdatePath(p, n, S, base, seq) ==
  /\ p \in [0 .. n -> S] /\ p[0] = base /\ p[n] = UpdateAll(base, seq)
  /\ \A i \in 1 .. n : p[i] = update(p[i - 1], seq[i])
LEMMA UpdateFold ==
  ASSUME NEW n \in Nat, NEW S, NEW base \in S, NEW seq, Listed(seq, n),
         \A i \in 1 .. n, t \in S : update(t, seq[i]) \in S
  PROVE  \E p : UpdatePath(p, n, S, base, seq)
<1> DEFINE F == [u \in (1 .. n) \X S |-> update(u[2], seq[u[1]])]
           Defines(g) == g = [u \in SUBSET (1 .. n) |->
                                IF u = {} THEN base ELSE update(g[u \ {Max(u)}], seq[Max(u)])]
           fold == CHOOSE g : Defines(g)
<1>1. Steps(F, n, S)
  BY DEF Steps
<1>2. PICK g \in [SUBSET (1 .. n) -> S] : Solves(g, n, base, F)
  BY <1>1, FoldExists
<1>3. Defines(g)
  <2>1. ASSUME NEW u \in SUBSET (1 .. n), u # {}
        PROVE  F[<<Max(u), g[u \ {Max(u)}]>>] = update(g[u \ {Max(u)}], seq[Max(u)])
    <3>1. Max(u) \in 1 .. n /\ g[u \ {Max(u)}] \in S
      BY <2>1, Greatest
    <3> QED BY <3>1
  <2> QED BY <1>2, <2>1 DEF Solves
<1>4. Defines(fold)
  BY <1>3
<1>5. SolvesWithin(fold, n, S, base, F)
  <2> HIDE DEF fold
  <2>1. ASSUME NEW u \in SUBSET (1 .. n), u # {}, fold[u \ {Max(u)}] \in S
        PROVE  fold[u] = F[<<Max(u), fold[u \ {Max(u)}]>>]
    <3>1. Max(u) \in 1 .. n
      BY <2>1, Greatest
    <3> QED BY <1>4, <2>1, <3>1
  <2> QED BY <1>4, <2>1 DEF SolvesWithin
<1>6. UpdateAll(base, seq) = fold[1 .. n]
  BY DEF UpdateAll, Listed, FoldLeft, MapThenFoldSet
<1> HIDE DEF fold, F
<1>7. PICK p : Path(p, n, S, base, F) /\ p[n] = fold[1 .. n]
  BY <1>1, <1>5, FoldPath
<1>8. ASSUME NEW i \in 1 .. n
      PROVE  p[i] = update(p[i - 1], seq[i])
  <2>1. i - 1 \in 0 .. n
    OBVIOUS
  <2>2. p[i - 1] \in S
    BY <1>7, <2>1 DEF Path
  <2>3. F[<<i, p[i - 1]>>] = update(p[i - 1], seq[i])
    BY <2>2 DEF F
  <2> QED BY <1>7, <2>3 DEF Path
<1>9. UpdatePath(p, n, S, base, seq)
  BY <1>6, <1>7, <1>8 DEF Path, UpdatePath
<1> QED BY <1>9

\* A function registers with its arguments one after the other.
RegisterAll(base, seq, id) == FoldLeft(LAMBDA t, x : Register(t, x, id), base, seq)
RegisterPath(p, n, S, base, seq, id) ==
  /\ p \in [0 .. n -> S] /\ p[0] = base /\ p[n] = RegisterAll(base, seq, id)
  /\ \A i \in 1 .. n : p[i] = Register(p[i - 1], seq[i], id)
LEMMA RegisterFold ==
  ASSUME NEW n \in Nat, NEW S, NEW base \in S, NEW seq, Listed(seq, n), NEW id,
         \A i \in 1 .. n, t \in S : Register(t, seq[i], id) \in S
  PROVE  \E p : RegisterPath(p, n, S, base, seq, id)
<1> DEFINE F == [u \in (1 .. n) \X S |-> Register(u[2], seq[u[1]], id)]
           Defines(g) == g = [u \in SUBSET (1 .. n) |->
                                IF u = {} THEN base ELSE Register(g[u \ {Max(u)}], seq[Max(u)], id)]
           fold == CHOOSE g : Defines(g)
<1>1. Steps(F, n, S)
  BY DEF Steps
<1>2. PICK g \in [SUBSET (1 .. n) -> S] : Solves(g, n, base, F)
  BY <1>1, FoldExists
<1>3. Defines(g)
  <2>1. ASSUME NEW u \in SUBSET (1 .. n), u # {}
        PROVE  F[<<Max(u), g[u \ {Max(u)}]>>] = Register(g[u \ {Max(u)}], seq[Max(u)], id)
    <3>1. Max(u) \in 1 .. n /\ g[u \ {Max(u)}] \in S
      BY <2>1, Greatest
    <3> QED BY <3>1
  <2> QED BY <1>2, <2>1 DEF Solves
<1>4. Defines(fold)
  BY <1>3
<1>5. SolvesWithin(fold, n, S, base, F)
  <2> HIDE DEF fold
  <2>1. ASSUME NEW u \in SUBSET (1 .. n), u # {}, fold[u \ {Max(u)}] \in S
        PROVE  fold[u] = F[<<Max(u), fold[u \ {Max(u)}]>>]
    <3>1. Max(u) \in 1 .. n
      BY <2>1, Greatest
    <3> QED BY <1>4, <2>1, <3>1
  <2> QED BY <1>4, <2>1 DEF SolvesWithin
<1>6. RegisterAll(base, seq, id) = fold[1 .. n]
  BY DEF RegisterAll, Listed, FoldLeft, MapThenFoldSet
<1> HIDE DEF fold, F
<1>7. PICK p : Path(p, n, S, base, F) /\ p[n] = fold[1 .. n]
  BY <1>1, <1>5, FoldPath
<1>8. ASSUME NEW i \in 1 .. n
      PROVE  p[i] = Register(p[i - 1], seq[i], id)
  <2>1. i - 1 \in 0 .. n
    OBVIOUS
  <2>2. p[i - 1] \in S
    BY <1>7, <2>1 DEF Path
  <2>3. F[<<i, p[i - 1]>>] = Register(p[i - 1], seq[i], id)
    BY <2>2 DEF F
  <2> QED BY <1>7, <2>3 DEF Path
<1>9. RegisterPath(p, n, S, base, seq, id)
  BY <1>6, <1>7, <1>8 DEF Path, RegisterPath
<1> QED BY <1>9

\* It leaves them one after the other.
LeaveAll(base, seq, id) == FoldLeft(LAMBDA t, x : Leave(t, x, id), base, seq)
LeavePath(p, n, S, base, seq, id) ==
  /\ p \in [0 .. n -> S] /\ p[0] = base /\ p[n] = LeaveAll(base, seq, id)
  /\ \A i \in 1 .. n : p[i] = Leave(p[i - 1], seq[i], id)
LEMMA LeaveFold ==
  ASSUME NEW n \in Nat, NEW S, NEW base \in S, NEW seq, Listed(seq, n), NEW id,
         \A i \in 1 .. n, t \in S : Leave(t, seq[i], id) \in S
  PROVE  \E p : LeavePath(p, n, S, base, seq, id)
<1> DEFINE F == [u \in (1 .. n) \X S |-> Leave(u[2], seq[u[1]], id)]
           Defines(g) == g = [u \in SUBSET (1 .. n) |->
                                IF u = {} THEN base ELSE Leave(g[u \ {Max(u)}], seq[Max(u)], id)]
           fold == CHOOSE g : Defines(g)
<1>1. Steps(F, n, S)
  BY DEF Steps
<1>2. PICK g \in [SUBSET (1 .. n) -> S] : Solves(g, n, base, F)
  BY <1>1, FoldExists
<1>3. Defines(g)
  <2>1. ASSUME NEW u \in SUBSET (1 .. n), u # {}
        PROVE  F[<<Max(u), g[u \ {Max(u)}]>>] = Leave(g[u \ {Max(u)}], seq[Max(u)], id)
    <3>1. Max(u) \in 1 .. n /\ g[u \ {Max(u)}] \in S
      BY <2>1, Greatest
    <3> QED BY <3>1
  <2> QED BY <1>2, <2>1 DEF Solves
<1>4. Defines(fold)
  BY <1>3
<1>5. SolvesWithin(fold, n, S, base, F)
  <2> HIDE DEF fold
  <2>1. ASSUME NEW u \in SUBSET (1 .. n), u # {}, fold[u \ {Max(u)}] \in S
        PROVE  fold[u] = F[<<Max(u), fold[u \ {Max(u)}]>>]
    <3>1. Max(u) \in 1 .. n
      BY <2>1, Greatest
    <3> QED BY <1>4, <2>1, <3>1
  <2> QED BY <1>4, <2>1 DEF SolvesWithin
<1>6. LeaveAll(base, seq, id) = fold[1 .. n]
  BY DEF LeaveAll, Listed, FoldLeft, MapThenFoldSet
<1> HIDE DEF fold, F
<1>7. PICK p : Path(p, n, S, base, F) /\ p[n] = fold[1 .. n]
  BY <1>1, <1>5, FoldPath
<1>8. ASSUME NEW i \in 1 .. n
      PROVE  p[i] = Leave(p[i - 1], seq[i], id)
  <2>1. i - 1 \in 0 .. n
    OBVIOUS
  <2>2. p[i - 1] \in S
    BY <1>7, <2>1 DEF Path
  <2>3. F[<<i, p[i - 1]>>] = Leave(p[i - 1], seq[i], id)
    BY <2>2 DEF F
  <2> QED BY <1>7, <2>3 DEF Path
<1>9. LeavePath(p, n, S, base, seq, id)
  BY <1>6, <1>7, <1>8 DEF Path, LeavePath
<1> QED BY <1>9

\* One content goes into the cells one after the other.
FillAll(base, seq, y) == FoldLeft(LAMBDA t, c : setContent(t, c, y), base, seq)
FillPath(p, n, S, base, seq, y) ==
  /\ p \in [0 .. n -> S] /\ p[0] = base /\ p[n] = FillAll(base, seq, y)
  /\ \A i \in 1 .. n : p[i] = setContent(p[i - 1], seq[i], y)
LEMMA FillFold ==
  ASSUME NEW n \in Nat, NEW S, NEW base \in S, NEW seq, Listed(seq, n), NEW y,
         \A i \in 1 .. n, t \in S : setContent(t, seq[i], y) \in S
  PROVE  \E p : FillPath(p, n, S, base, seq, y)
<1> DEFINE F == [u \in (1 .. n) \X S |-> setContent(u[2], seq[u[1]], y)]
           Defines(g) == g = [u \in SUBSET (1 .. n) |->
                                IF u = {} THEN base ELSE setContent(g[u \ {Max(u)}], seq[Max(u)], y)]
           fold == CHOOSE g : Defines(g)
<1>1. Steps(F, n, S)
  BY DEF Steps
<1>2. PICK g \in [SUBSET (1 .. n) -> S] : Solves(g, n, base, F)
  BY <1>1, FoldExists
<1>3. Defines(g)
  <2>1. ASSUME NEW u \in SUBSET (1 .. n), u # {}
        PROVE  F[<<Max(u), g[u \ {Max(u)}]>>] = setContent(g[u \ {Max(u)}], seq[Max(u)], y)
    <3>1. Max(u) \in 1 .. n /\ g[u \ {Max(u)}] \in S
      BY <2>1, Greatest
    <3> QED BY <3>1
  <2> QED BY <1>2, <2>1 DEF Solves
<1>4. Defines(fold)
  BY <1>3
<1>5. SolvesWithin(fold, n, S, base, F)
  <2> HIDE DEF fold
  <2>1. ASSUME NEW u \in SUBSET (1 .. n), u # {}, fold[u \ {Max(u)}] \in S
        PROVE  fold[u] = F[<<Max(u), fold[u \ {Max(u)}]>>]
    <3>1. Max(u) \in 1 .. n
      BY <2>1, Greatest
    <3> QED BY <1>4, <2>1, <3>1
  <2> QED BY <1>4, <2>1 DEF SolvesWithin
<1>6. FillAll(base, seq, y) = fold[1 .. n]
  BY DEF FillAll, Listed, FoldLeft, MapThenFoldSet
<1> HIDE DEF fold, F
<1>7. PICK p : Path(p, n, S, base, F) /\ p[n] = fold[1 .. n]
  BY <1>1, <1>5, FoldPath
<1>8. ASSUME NEW i \in 1 .. n
      PROVE  p[i] = setContent(p[i - 1], seq[i], y)
  <2>1. i - 1 \in 0 .. n
    OBVIOUS
  <2>2. p[i - 1] \in S
    BY <1>7, <2>1 DEF Path
  <2>3. F[<<i, p[i - 1]>>] = setContent(p[i - 1], seq[i], y)
    BY <2>2 DEF F
  <2> QED BY <1>7, <2>3 DEF Path
<1>9. FillPath(p, n, S, base, seq, y)
  BY <1>6, <1>7, <1>8 DEF Path, FillPath
<1> QED BY <1>9

\* The buffer takes the cells one after the other.
TakeAll(base, seq) == FoldLeft(Take, base, seq)
TakePath(p, n, S, base, seq) ==
  /\ p \in [0 .. n -> S] /\ p[0] = base /\ p[n] = TakeAll(base, seq)
  /\ \A i \in 1 .. n : p[i] = Take(p[i - 1], seq[i])
LEMMA TakeFold ==
  ASSUME NEW n \in Nat, NEW S, NEW base \in S, NEW seq, Listed(seq, n),
         \A i \in 1 .. n, t \in S : Take(t, seq[i]) \in S
  PROVE  \E p : TakePath(p, n, S, base, seq)
<1> DEFINE F == [u \in (1 .. n) \X S |-> Take(u[2], seq[u[1]])]
           Defines(g) == g = [u \in SUBSET (1 .. n) |->
                                IF u = {} THEN base ELSE Take(g[u \ {Max(u)}], seq[Max(u)])]
           fold == CHOOSE g : Defines(g)
<1>1. Steps(F, n, S)
  BY DEF Steps
<1>2. PICK g \in [SUBSET (1 .. n) -> S] : Solves(g, n, base, F)
  BY <1>1, FoldExists
<1>3. Defines(g)
  <2>1. ASSUME NEW u \in SUBSET (1 .. n), u # {}
        PROVE  F[<<Max(u), g[u \ {Max(u)}]>>] = Take(g[u \ {Max(u)}], seq[Max(u)])
    <3>1. Max(u) \in 1 .. n /\ g[u \ {Max(u)}] \in S
      BY <2>1, Greatest
    <3> QED BY <3>1
  <2> QED BY <1>2, <2>1 DEF Solves
<1>4. Defines(fold)
  BY <1>3
<1>5. SolvesWithin(fold, n, S, base, F)
  <2> HIDE DEF fold
  <2>1. ASSUME NEW u \in SUBSET (1 .. n), u # {}, fold[u \ {Max(u)}] \in S
        PROVE  fold[u] = F[<<Max(u), fold[u \ {Max(u)}]>>]
    <3>1. Max(u) \in 1 .. n
      BY <2>1, Greatest
    <3> QED BY <1>4, <2>1, <3>1
  <2> QED BY <1>4, <2>1 DEF SolvesWithin
<1>6. TakeAll(base, seq) = fold[1 .. n]
  BY DEF TakeAll, Listed, FoldLeft, MapThenFoldSet
<1> HIDE DEF fold, F
<1>7. PICK p : Path(p, n, S, base, F) /\ p[n] = fold[1 .. n]
  BY <1>1, <1>5, FoldPath
<1>8. ASSUME NEW i \in 1 .. n
      PROVE  p[i] = Take(p[i - 1], seq[i])
  <2>1. i - 1 \in 0 .. n
    OBVIOUS
  <2>2. p[i - 1] \in S
    BY <1>7, <2>1 DEF Path
  <2>3. F[<<i, p[i - 1]>>] = Take(p[i - 1], seq[i])
    BY <2>2 DEF F
  <2> QED BY <1>7, <2>3 DEF Path
<1>9. TakePath(p, n, S, base, seq)
  BY <1>6, <1>7, <1>8 DEF Path, TakePath
<1> QED BY <1>9

\* The contents of the buffer go into the cells one after the other.
PutAll(base, seq, b, cells) == FoldLeft(LAMBDA t, i : Put(t, b[i], cells[i]), base, seq)
PutPath(p, n, S, base, seq, b, cells) ==
  /\ p \in [0 .. n -> S] /\ p[0] = base /\ p[n] = PutAll(base, seq, b, cells)
  /\ \A i \in 1 .. n : p[i] = Put(p[i - 1], b[seq[i]], cells[seq[i]])
LEMMA PutFold ==
  ASSUME NEW n \in Nat, NEW S, NEW base \in S, NEW seq, Listed(seq, n), NEW b, NEW cells,
         \A i \in 1 .. n, t \in S : Put(t, b[seq[i]], cells[seq[i]]) \in S
  PROVE  \E p : PutPath(p, n, S, base, seq, b, cells)
<1> DEFINE F == [u \in (1 .. n) \X S |-> Put(u[2], b[seq[u[1]]], cells[seq[u[1]]])]
           Defines(g) == g = [u \in SUBSET (1 .. n) |->
                                IF u = {} THEN base ELSE Put(g[u \ {Max(u)}], b[seq[Max(u)]], cells[seq[Max(u)]])]
           fold == CHOOSE g : Defines(g)
<1>1. Steps(F, n, S)
  BY DEF Steps
<1>2. PICK g \in [SUBSET (1 .. n) -> S] : Solves(g, n, base, F)
  BY <1>1, FoldExists
<1>3. Defines(g)
  <2>1. ASSUME NEW u \in SUBSET (1 .. n), u # {}
        PROVE  F[<<Max(u), g[u \ {Max(u)}]>>] = Put(g[u \ {Max(u)}], b[seq[Max(u)]], cells[seq[Max(u)]])
    <3>1. Max(u) \in 1 .. n /\ g[u \ {Max(u)}] \in S
      BY <2>1, Greatest
    <3> QED BY <3>1
  <2> QED BY <1>2, <2>1 DEF Solves
<1>4. Defines(fold)
  BY <1>3
<1>5. SolvesWithin(fold, n, S, base, F)
  <2> HIDE DEF fold
  <2>1. ASSUME NEW u \in SUBSET (1 .. n), u # {}, fold[u \ {Max(u)}] \in S
        PROVE  fold[u] = F[<<Max(u), fold[u \ {Max(u)}]>>]
    <3>1. Max(u) \in 1 .. n
      BY <2>1, Greatest
    <3> QED BY <1>4, <2>1, <3>1
  <2> QED BY <1>4, <2>1 DEF SolvesWithin
<1>6. PutAll(base, seq, b, cells) = fold[1 .. n]
  BY DEF PutAll, Listed, FoldLeft, MapThenFoldSet
<1> HIDE DEF fold, F
<1>7. PICK p : Path(p, n, S, base, F) /\ p[n] = fold[1 .. n]
  BY <1>1, <1>5, FoldPath
<1>8. ASSUME NEW i \in 1 .. n
      PROVE  p[i] = Put(p[i - 1], b[seq[i]], cells[seq[i]])
  <2>1. i - 1 \in 0 .. n
    OBVIOUS
  <2>2. p[i - 1] \in S
    BY <1>7, <2>1 DEF Path
  <2>3. F[<<i, p[i - 1]>>] = Put(p[i - 1], b[seq[i]], cells[seq[i]])
    BY <2>2 DEF F
  <2> QED BY <1>7, <2>3 DEF Path
<1>9. PutPath(p, n, S, base, seq, b, cells)
  BY <1>6, <1>7, <1>8 DEF Path, PutPath
<1> QED BY <1>9

Combine(name, m, v) == IF name = "ADD" THEN (m + v.int) % WORD ELSE (m * v.int) % WORD
\* A function combines the values of its arguments one after the other.
CombineAll(base, seq, name) == FoldLeft(LAMBDA m, v : Combine(name, m, v), base, seq)
CombinePath(p, n, S, base, seq, name) ==
  /\ p \in [0 .. n -> S] /\ p[0] = base /\ p[n] = CombineAll(base, seq, name)
  /\ \A i \in 1 .. n : p[i] = Combine(name, p[i - 1], seq[i])
LEMMA CombineFold ==
  ASSUME NEW n \in Nat, NEW S, NEW base \in S, NEW seq, Listed(seq, n), NEW name,
         \A i \in 1 .. n, t \in S : Combine(name, t, seq[i]) \in S
  PROVE  \E p : CombinePath(p, n, S, base, seq, name)
<1> DEFINE F == [u \in (1 .. n) \X S |-> Combine(name, u[2], seq[u[1]])]
           Defines(g) == g = [u \in SUBSET (1 .. n) |->
                                IF u = {} THEN base ELSE Combine(name, g[u \ {Max(u)}], seq[Max(u)])]
           fold == CHOOSE g : Defines(g)
<1>1. Steps(F, n, S)
  BY DEF Steps
<1>2. PICK g \in [SUBSET (1 .. n) -> S] : Solves(g, n, base, F)
  BY <1>1, FoldExists
<1>3. Defines(g)
  <2>1. ASSUME NEW u \in SUBSET (1 .. n), u # {}
        PROVE  F[<<Max(u), g[u \ {Max(u)}]>>] = Combine(name, g[u \ {Max(u)}], seq[Max(u)])
    <3>1. Max(u) \in 1 .. n /\ g[u \ {Max(u)}] \in S
      BY <2>1, Greatest
    <3> QED BY <3>1
  <2> QED BY <1>2, <2>1 DEF Solves
<1>4. Defines(fold)
  BY <1>3
<1>5. SolvesWithin(fold, n, S, base, F)
  <2> HIDE DEF fold
  <2>1. ASSUME NEW u \in SUBSET (1 .. n), u # {}, fold[u \ {Max(u)}] \in S
        PROVE  fold[u] = F[<<Max(u), fold[u \ {Max(u)}]>>]
    <3>1. Max(u) \in 1 .. n
      BY <2>1, Greatest
    <3> QED BY <1>4, <2>1, <3>1
  <2> QED BY <1>4, <2>1 DEF SolvesWithin
<1>6. CombineAll(base, seq, name) = fold[1 .. n]
  BY DEF CombineAll, Listed, FoldLeft, MapThenFoldSet
<1> HIDE DEF fold, F
<1>7. PICK p : Path(p, n, S, base, F) /\ p[n] = fold[1 .. n]
  BY <1>1, <1>5, FoldPath
<1>8. ASSUME NEW i \in 1 .. n
      PROVE  p[i] = Combine(name, p[i - 1], seq[i])
  <2>1. i - 1 \in 0 .. n
    OBVIOUS
  <2>2. p[i - 1] \in S
    BY <1>7, <2>1 DEF Path
  <2>3. F[<<i, p[i - 1]>>] = Combine(name, p[i - 1], seq[i])
    BY <2>2 DEF F
  <2> QED BY <1>7, <2>3 DEF Path
<1>9. CombinePath(p, n, S, base, seq, name)
  BY <1>6, <1>7, <1>8 DEF Path, CombinePath
<1> QED BY <1>9

-----------------------------------------------------------------------------
(* What sheets are made of.                                                *)

Ids     == Nat \ {0}
Results == {Error} \cup {Number(i) : i \in 0 .. WORD - 1}
Plain   == Terms \cup {Empty}
Objects == [name : {"ADD", "PRODUCT"}, args : Seq(Terms), value : Results, shared : BOOLEAN]

\* The contents, and the sheets, with the objects D.
Contents(D) == Plain \cup {Object(i) : i \in D}
Sheets(D)   == [content : [Cells -> Contents(D)], observers : [Cells -> Seq(D)], fn : [D -> Objects]]

\* What the kinds of contents are.
LEMMA Kinds ==
  /\ \A D, x : x \in Contents(D) <=> x \in Plain \/ \E i \in D : x = Object(i)
  /\ \A i : IsFunction(Object(i)) /\ Object(i).id = i /\ ~IsReference(Object(i))
  /\ \A c : IsReference(Reference(c)) /\ Reference(c).cell = c /\ ~IsFunction(Reference(c))
  /\ \A x \in Plain : ~IsFunction(x)
  /\ \A x \in Plain : IsReference(x) <=> \E c \in Cells : x = Reference(c)
  /\ \A x \in Results : x \in Plain /\ ~IsReference(x)
  /\ ~IsFunction(Empty) /\ ~IsReference(Empty) /\ Empty \in Plain /\ Error \in Results
  /\ \A x : x.kind = "integer" => ~IsFunction(x) /\ ~IsReference(x)
  /\ \A x \in Plain : x.kind = "integer" => \E i \in 0 .. WORD - 1 : x = Number(i)
BY DEF Contents, Plain, Terms, Results, Object, Reference, Number, Error, Empty, IsFunction, IsReference

LEMMA FunctionContents ==
  ASSUME NEW D, NEW x \in Contents(D), IsFunction(x)
  PROVE  x.id \in D /\ x = Object(x.id)
BY Kinds

LEMMA ReferenceContents ==
  ASSUME NEW D, NEW x \in Contents(D), IsReference(x)
  PROVE  x.cell \in Cells /\ x = Reference(x.cell) /\ x \in Plain
BY Kinds

\* The value of a content is a literal or, without an end to a chain, a reference.
LEMMA OwnType ==
  ASSUME NEW D, NEW s \in Sheets(D), NEW x \in Contents(D)
  PROVE  Own(s, x) \in Plain
<1>1. CASE IsFunction(x)
  <2>1. s.fn[x.id] \in Objects
    BY <1>1, FunctionContents DEF Sheets
  <2>2. s.fn[x.id].value \in Results
    BY <2>1 DEF Objects
  <2> QED BY <1>1, <2>2, Kinds DEF Own
<1>2. CASE ~IsFunction(x)
  BY <1>2, Kinds DEF Own
<1> QED BY <1>1, <1>2

LEMMA CellNumber == Rows * Columns \in Nat
BY SheetAssumption

\* The values that the cells have after n steps of the references.
Chain(s, V) ==
  V = [n \in 0 .. Rows * Columns |->
         [c \in Cells |-> LET y == s.content[c]
                          IN  IF IsReference(y) /\ n > 0 THEN V[n - 1][y.cell] ELSE Own(s, y)]]

LEMMA ChainExists ==
  ASSUME NEW D, NEW s \in Sheets(D)
  PROVE  \E V \in [0 .. Rows * Columns -> [Cells -> Plain]] : Chain(s, V)
<1> DEFINE n == Rows * Columns
           S == [Cells -> Plain]
           base == [c \in Cells |-> Own(s, s.content[c])]
           F == [u \in (1 .. n) \X S |->
                   [c \in Cells |-> IF IsReference(s.content[c]) THEN u[2][s.content[c].cell] ELSE Own(s, s.content[c])]]
<1>1. \A c \in Cells : s.content[c] \in Contents(D) /\ Own(s, s.content[c]) \in Plain
  BY OwnType DEF Sheets
<1>2. \A c \in Cells : IsReference(s.content[c]) => s.content[c].cell \in Cells
  BY <1>1, ReferenceContents
<1>3. base \in S
  BY <1>1
<1>4. Steps(F, n, S)
  BY <1>1, <1>2 DEF Steps
<1>5. n \in Nat
  BY CellNumber
<1> HIDE DEF n, F, base
<1>6. PICK V : Path(V, n, S, base, F)
  BY <1>3, <1>4, <1>5, RecursionUpTo
<1>7. V \in [0 .. n -> S]
  BY <1>6 DEF Path
<1>8. ASSUME NEW k \in 0 .. n
      PROVE  V[k] = [c \in Cells |-> LET y == s.content[c]
                                     IN  IF IsReference(y) /\ k > 0 THEN V[k - 1][y.cell] ELSE Own(s, y)]
  <2>1. CASE k = 0
    BY <1>6, <2>1 DEF Path, base
  <2>2. CASE k > 0
    <3>1. k \in 1 .. n /\ k - 1 \in 0 .. n
      BY <1>5, <2>2
    <3>2. V[k] = F[<<k, V[k - 1]>>] /\ V[k - 1] \in S
      BY <1>6, <1>7, <3>1 DEF Path
    <3>3. F[<<k, V[k - 1]>>] =
            [c \in Cells |-> IF IsReference(s.content[c]) THEN V[k - 1][s.content[c].cell] ELSE Own(s, s.content[c])]
      BY <3>1, <3>2 DEF F
    <3> QED BY <2>2, <3>2, <3>3
  <2> QED BY <1>5, <2>1, <2>2
<1>9. Chain(s, V)
  BY <1>7, <1>8 DEF Chain, n
<1> QED BY <1>7, <1>9 DEF n
LEMMA ValueChain ==
  ASSUME NEW D, NEW s \in Sheets(D)
  PROVE  \E V \in [0 .. Rows * Columns -> [Cells -> Plain]] :
           /\ Chain(s, V)
           /\ \A x : Value(s, x) = IF IsReference(x) THEN V[Rows * Columns][x.cell] ELSE Own(s, x)
<1> DEFINE V == CHOOSE V : Chain(s, V)
<1>1. Chain(s, V)
  BY ChainExists
<1>2. \A x : Value(s, x) = IF IsReference(x) THEN V[Rows * Columns][x.cell] ELSE Own(s, x)
  BY DEF Value, Chain
<1> HIDE DEF V
<1>3. \A c \in Cells : s.content[c] \in Contents(D) /\ Own(s, s.content[c]) \in Plain
  BY OwnType DEF Sheets
<1>4. \A c \in Cells : IsReference(s.content[c]) => s.content[c].cell \in Cells
  BY <1>3, ReferenceContents
<1>5. PICK W \in [0 .. Rows * Columns -> [Cells -> Plain]] : Chain(s, W)
  BY ChainExists
<1> DEFINE n == Rows * Columns
           I == {k \in 0 .. n : V[k] \in [Cells -> Plain]}
<1>6. \A k \in 0 .. n : k \in I
  <2>1. 0 \in I
    <3>1. 0 \in 0 .. n
      BY CellNumber
    <3> QED BY <1>1, <1>3, <3>1 DEF Chain
  <2>2. ASSUME NEW k \in 1 .. n, k - 1 \in I
        PROVE  k \in I
    <3>1. k \in 0 .. n /\ k > 0 /\ V[k - 1] \in [Cells -> Plain]
      BY <2>2, CellNumber
    <3>2. V[k] = [c \in Cells |-> LET y == s.content[c]
                                  IN  IF IsReference(y) /\ k > 0 THEN V[k - 1][y.cell] ELSE Own(s, y)]
      BY <1>1, <3>1 DEF Chain
    <3> QED BY <1>3, <1>4, <3>1, <3>2
  <2>3. n \in Nat /\ I \in SUBSET (0 .. n)
    BY CellNumber
  <2> HIDE DEF I, n
  <2> QED BY <2>1, <2>2, <2>3, UpFromZero
<1>7. V \in [0 .. Rows * Columns -> [Cells -> Plain]]
  BY <1>1, <1>6 DEF Chain
<1> QED BY <1>1, <1>2, <1>7

LEMMA ValueType ==
  ASSUME NEW D, NEW s \in Sheets(D), NEW x \in Contents(D)
  PROVE  Value(s, x) \in Plain
<1>1. PICK V \in [0 .. Rows * Columns -> [Cells -> Plain]] :
        \A y : Value(s, y) = IF IsReference(y) THEN V[Rows * Columns][y.cell] ELSE Own(s, y)
  BY ValueChain
<1>2. Rows * Columns \in 0 .. Rows * Columns
  BY CellNumber
<1>3. CASE IsReference(x)
  BY <1>1, <1>2, <1>3, ReferenceContents
<1>4. CASE ~IsReference(x)
  BY <1>1, <1>4, OwnType
<1> QED BY <1>3, <1>4

\* A reference to a cell that holds none has the value of the content there.
LEMMA ValueThere ==
  ASSUME NEW D, NEW s \in Sheets(D), NEW c \in Cells, ~IsReference(s.content[c])
  PROVE  Value(s, Reference(c)) = Own(s, s.content[c])
<1>1. PICK V \in [0 .. Rows * Columns -> [Cells -> Plain]] :
        /\ Chain(s, V)
        /\ \A y : Value(s, y) = IF IsReference(y) THEN V[Rows * Columns][y.cell] ELSE Own(s, y)
  BY ValueChain
<1>2. Rows * Columns \in 0 .. Rows * Columns
  BY CellNumber
<1>3. V[Rows * Columns][c] = Own(s, s.content[c])
  BY <1>1, <1>2 DEF Chain
<1> QED BY <1>1, <1>3, Kinds

LEMMA ComputeType ==
  ASSUME NEW D, NEW s \in Sheets(D), NEW f \in Objects
  PROVE  compute(s, f) \in Results
<1> DEFINE n == Len(f.args)
           values == [i \in DOMAIN f.args |-> Value(s, f.args[i])]
           start == IF f.name = "ADD" THEN 0 ELSE 1
           S == 0 .. WORD - 1
<1>1. n \in Nat /\ DOMAIN f.args = 1 .. n /\ \A i \in 1 .. n : f.args[i] \in Terms
  BY DEF Objects
<1>2. \A i \in 1 .. n : values[i] \in Plain
  BY <1>1, ValueType, Kinds DEF Plain
<1>3. CASE \A i \in DOMAIN values : values[i].kind = "integer"
  <2>1. ASSUME NEW i \in 1 .. n, NEW m \in S PROVE Combine(f.name, m, values[i]) \in S
    <3>1. PICK k \in 0 .. WORD - 1 : values[i] = Number(k)
      BY <1>1, <1>2, <1>3, Kinds
    <3>2. values[i].int = k /\ k \in Nat /\ m \in Nat /\ WORD \in Nat \ {0, 1}
      BY <3>1, SheetAssumption DEF Number
    <3>3. m + k \in Nat /\ m * k \in Nat
      BY <3>2
    <3>4. \A j \in Nat : j % WORD \in S
      BY <3>2
    <3> QED BY <3>2, <3>3, <3>4 DEF Combine
  <2>2. start \in S
    BY SheetAssumption
  <2>3. Listed(values, n)
    BY <1>1 DEF Listed
  <2> HIDE DEF values, S, start, n
  <2>4. CombineAll(start, values, f.name) \in S
    <3>1. n \in Nat
      BY <1>1
    <3>2. \A i \in 1 .. n, m \in S : Combine(f.name, m, values[i]) \in S
      BY <2>1
    <3>3. \E p : CombinePath(p, n, S, start, values, f.name)
      BY <2>2, <2>3, <3>1, <3>2, CombineFold
    <3>4. n \in 0 .. n
      BY <3>1
    <3> QED BY <3>3, <3>4 DEF CombinePath
  <2>5. compute(s, f) = Number(CombineAll(start, values, f.name))
    BY <1>3 DEF compute, CombineAll, Combine, values, start
  <2> QED BY <2>4, <2>5 DEF Results, S
<1>4. CASE ~(\A i \in DOMAIN values : values[i].kind = "integer")
  BY <1>4, Kinds DEF compute
<1> QED BY <1>3, <1>4
-----------------------------------------------------------------------------
(* What the operations on sheets do.                                       *)

\* A set of numbers has a least one.
LEMMA Least ==
  ASSUME NEW I \in SUBSET Nat, I # {}
  PROVE  \E x \in I : \A y \in I : x <= y
<1>1. PICK x \in I : \A y \in I : ~ (<<y, x>> \in OpToRel(<, Nat))
  BY NatLessThanWellFounded, WFMin
<1>2. ASSUME NEW y \in I PROVE x <= y
  <2>1. x \in Nat /\ y \in Nat /\ <<y, x>> \notin OpToRel(<, Nat)
    BY <1>1
  <2>2. ~ (y < x)
    BY <2>1 DEF OpToRel
  <2>3. x \in Nat /\ y \in Nat
    OBVIOUS
  <2> QED BY <2>2, <2>3
<1> QED BY <1>2

\* Removing one element from a list leaves the others there.
LEMMA RemoveFirstType ==
  ASSUME NEW D, NEW q \in Seq(D), NEW e
  PROVE  /\ RemoveFirst(q, e) \in Seq(D)
         /\ \A x : x # e /\ Contains(q, x) => Contains(RemoveFirst(q, e), x)
         /\ \A x : Contains(RemoveFirst(q, e), x) => Contains(q, x)
<1> DEFINE I == {i \in 1 .. Len(q) : q[i] = e}
           k == Min(I)
           r == SubSeq(q, 1, k - 1) \o SubSeq(q, k + 1, Len(q))
<1>1. CASE I = {}
  BY <1>1 DEF RemoveFirst
<1>2. CASE I # {}
  <2>1. I \in SUBSET Nat
    OBVIOUS
  <2>2. k \in I
    <3> HIDE DEF I
    <3> QED BY <1>2, <2>1, Least DEF Min
  <2>3. k \in 1 .. Len(q) /\ q[k] = e /\ Len(q) \in Nat
    BY <2>2
  <2> HIDE DEF I, k
  <2> DEFINE a == SubSeq(q, 1, k - 1)
             b == SubSeq(q, k + 1, Len(q))
  <2>4. a \in Seq(D) /\ Len(a) = k - 1 /\ \A i \in 1 .. k - 1 : a[i] = q[i]
    BY <2>3
  <2>5. b \in Seq(D) /\ Len(b) = Len(q) - k /\ \A i \in 1 .. Len(q) - k : b[i] = q[k + i]
    BY <2>3
  <2>6. RemoveFirst(q, e) = r
    BY <1>2 DEF RemoveFirst, RemoveAt, SelectInSeq, k, I
  <2> HIDE DEF a, b
  <2>7. /\ r \in Seq(D) /\ Len(r) = Len(q) - 1
        /\ \A i \in 1 .. Len(r) : r[i] = IF i < k THEN q[i] ELSE q[i + 1]
    <3>1. a \o b \in Seq(D) /\ Len(a \o b) = Len(a) + Len(b)
      BY <2>4, <2>5, ConcatProperties
    <3>2. \A i \in 1 .. Len(a) + Len(b) : (a \o b)[i] = IF i <= Len(a) THEN a[i] ELSE b[i - Len(a)]
      BY <2>4, <2>5, ConcatProperties
    <3>3. r = a \o b
      BY DEF a, b
    <3> HIDE DEF r
    <3>4. Len(r) = Len(q) - 1
      BY <2>3, <2>4, <2>5, <3>1, <3>3
    <3>5. ASSUME NEW i \in 1 .. Len(r) PROVE r[i] = IF i < k THEN q[i] ELSE q[i + 1]
      <4>1. CASE i < k
        BY <2>3, <2>4, <2>5, <3>2, <3>3, <3>4, <4>1
      <4>2. CASE i >= k
        <5>1. i - Len(a) \in 1 .. Len(q) - k /\ k + (i - Len(a)) = i + 1 /\ ~(i <= Len(a))
          BY <2>3, <2>4, <3>4, <4>2
        <5>2. b[i - Len(a)] = q[i + 1]
          BY <2>5, <5>1
        <5>3. i \in 1 .. Len(a) + Len(b)
          BY <2>3, <2>4, <2>5, <3>4
        <5> QED BY <3>2, <3>3, <4>2, <5>1, <5>2, <5>3, <2>3
      <4> QED BY <2>3, <4>1, <4>2
    <3> QED BY <3>1, <3>3, <3>4, <3>5
  <2> HIDE DEF r
  <2>8. ASSUME NEW x, x # e, Contains(q, x) PROVE Contains(r, x)
    <3>1. PICK i \in 1 .. Len(q) : q[i] = x
      BY <2>8 DEF Contains
    <3>2. CASE i < k
      <4>1. i \in 1 .. Len(r) /\ r[i] = x
        BY <2>3, <2>7, <3>1, <3>2
      <4> QED BY <4>1 DEF Contains
    <3>3. CASE i > k
      <4>1. i - 1 \in 1 .. Len(r) /\ r[i - 1] = x
        BY <2>3, <2>7, <3>1, <3>3
      <4> QED BY <4>1 DEF Contains
    <3> QED BY <2>3, <2>8, <3>1, <3>2, <3>3
  <2>9. ASSUME NEW x, Contains(r, x) PROVE Contains(q, x)
    <3>1. PICK i \in 1 .. Len(r) : r[i] = x
      BY <2>9 DEF Contains
    <3>2. i \in 1 .. Len(q) /\ i + 1 \in 1 .. Len(q) /\ (q[i] = x \/ q[i + 1] = x)
      BY <2>3, <2>7, <3>1
    <3> QED BY <3>2 DEF Contains
  <2> QED BY <2>6, <2>7, <2>8, <2>9
<1> QED BY <1>1, <1>2

\* t has the objects of s, but for their values, and perhaps more.
Keeps(s, t) ==
  /\ DOMAIN s.fn \subseteq DOMAIN t.fn
  /\ \A i \in DOMAIN s.fn : /\ t.fn[i].name = s.fn[i].name /\ t.fn[i].args = s.fn[i].args
                            /\ t.fn[i].shared = s.fn[i].shared

LEMMA KeepsTransitive ==
  /\ \A s : Keeps(s, s)
  /\ \A s, t, u : Keeps(s, t) /\ Keeps(t, u) => Keeps(s, u)
BY DEF Keeps

LEMMA SheetParts ==
  ASSUME NEW D, NEW s \in Sheets(D)
  PROVE  /\ s.content \in [Cells -> Contents(D)] /\ s.observers \in [Cells -> Seq(D)]
         /\ s.fn \in [D -> Objects] /\ DOMAIN s.fn = D
BY DEF Sheets

LEMMA UpdateStep ==
  ASSUME NEW D, NEW s \in Sheets(D), NEW id \in D
  PROVE  /\ update(s, id) \in Sheets(D) /\ Keeps(s, update(s, id))
         /\ update(s, id).content = s.content /\ update(s, id).observers = s.observers
<1>1. s.fn[id] \in Objects /\ compute(s, s.fn[id]) \in Results
  BY ComputeType, SheetParts
<1> DEFINE v == compute(s, s.fn[id])
           fn == [s.fn EXCEPT ![id] = [@ EXCEPT !.value = v]]
<1>2. update(s, id) = [s EXCEPT !.fn = fn]
  BY DEF update
<1> HIDE DEF v
<1>3. /\ fn \in [D -> Objects]
      /\ \A i \in D : fn[i].name = s.fn[i].name /\ fn[i].args = s.fn[i].args /\ fn[i].shared = s.fn[i].shared
  BY <1>1, SheetParts DEF Objects, v
<1> HIDE DEF fn
<1>4. [s EXCEPT !.fn = fn] \in Sheets(D)
  BY <1>3 DEF Sheets
<1>5. /\ [s EXCEPT !.fn = fn].content = s.content /\ [s EXCEPT !.fn = fn].observers = s.observers
      /\ [s EXCEPT !.fn = fn].fn = fn
  BY DEF Sheets
<1> QED BY <1>2, <1>3, <1>4, <1>5, SheetParts DEF Keeps, fn, v

LEMMA UpdateValue ==
  ASSUME NEW D, NEW s \in Sheets(D), NEW id \in D
  PROVE  update(s, id).fn = [s.fn EXCEPT ![id] = [@ EXCEPT !.value = compute(s, s.fn[id])]]
BY DEF update, Sheets

LEMMA NotifyStep ==
  ASSUME NEW D, NEW s \in Sheets(D), NEW c \in Cells
  PROVE  LET t == notifyCellObserver(s, c)
         IN  t \in Sheets(D) /\ Keeps(s, t) /\ t.content = s.content /\ t.observers = s.observers
<1> DEFINE S == {t \in Sheets(D) : Keeps(s, t) /\ t.content = s.content /\ t.observers = s.observers}
           q == s.observers[c]
           n == Len(q)
<1>1. q \in Seq(D) /\ n \in Nat
  BY SheetParts
<1>2. Listed(q, n) /\ \A i \in 1 .. n : q[i] \in D
  BY <1>1 DEF Listed
<1>3. s \in S
  BY KeepsTransitive
<1> HIDE DEF q, n
<1>4. ASSUME NEW i \in 1 .. n, NEW t \in S PROVE update(t, q[i]) \in S
  <2>1. q[i] \in D /\ t \in Sheets(D) /\ Keeps(s, t)
    BY <1>2
  <2>2. /\ update(t, q[i]) \in Sheets(D) /\ Keeps(t, update(t, q[i]))
        /\ update(t, q[i]).content = t.content /\ update(t, q[i]).observers = t.observers
    BY <2>1, UpdateStep
  <2>3. Keeps(s, update(t, q[i]))
    BY <2>1, <2>2, KeepsTransitive
  <2> QED BY <2>2, <2>3
<1> HIDE DEF S
<1>5. PICK p : UpdatePath(p, n, S, s, q)
  BY <1>1, <1>2, <1>3, <1>4, UpdateFold
<1>6. n \in 0 .. n
  BY <1>1
<1>7. UpdateAll(s, q) \in S
  BY <1>5, <1>6 DEF UpdatePath
<1>8. notifyCellObserver(s, c) = UpdateAll(s, q)
  BY DEF notifyCellObserver, UpdateAll, q
<1> QED BY <1>7, <1>8 DEF S
LEMMA StoreStep ==
  ASSUME NEW D, NEW s \in Sheets(D), NEW c \in Cells, NEW x \in Contents(D)
  PROVE  LET t == Store(s, c, x)
         IN  /\ t \in Sheets(D) /\ Keeps(s, t) /\ t.observers = s.observers
             /\ t.content = [s.content EXCEPT ![c] = x]
<1> DEFINE t == notifyCellObserver(s, c)
           u == [t EXCEPT !.content[c] = x]
           v == notifyCellObserver(u, c)
<1>1. t \in Sheets(D) /\ Keeps(s, t) /\ t.content = s.content /\ t.observers = s.observers
  BY NotifyStep
<1> HIDE DEF t
<1>2. u \in Sheets(D) /\ u.content = [t.content EXCEPT ![c] = x] /\ u.observers = t.observers /\ u.fn = t.fn
  BY <1>1 DEF Sheets
<1> HIDE DEF u
<1>3. v \in Sheets(D) /\ Keeps(u, v) /\ v.content = u.content /\ v.observers = u.observers
  BY <1>2, NotifyStep
<1> HIDE DEF v
<1>4. Keeps(s, v)
  BY <1>1, <1>2, <1>3 DEF Keeps
<1>5. v = Store(s, c, x)
  BY DEF Store, t, u, v
<1> QED BY <1>1, <1>2, <1>3, <1>4, <1>5

LEMMA RegisterStep ==
  ASSUME NEW D, NEW s \in Sheets(D), NEW x \in Terms, NEW id \in D
  PROVE  LET t == Register(s, x, id)
         IN  t \in Sheets(D) /\ t.content = s.content /\ t.fn = s.fn
<1>1. CASE IsReference(x)
  <2>1. x.cell \in Cells
    BY <1>1, Kinds DEF Plain
  <2>2. Append(s.observers[x.cell], id) \in Seq(D)
    BY <2>1, SheetParts, AppendProperties
  <2> QED BY <1>1, <2>1, <2>2 DEF Register, Sheets
<1>2. CASE ~IsReference(x)
  BY <1>2 DEF Register
<1> QED BY <1>1, <1>2

LEMMA LeaveStep ==
  ASSUME NEW D, NEW s \in Sheets(D), NEW x \in Terms, NEW id
  PROVE  LET t == Leave(s, x, id)
         IN  t \in Sheets(D) /\ t.content = s.content /\ t.fn = s.fn
<1>1. CASE IsReference(x)
  <2>1. x.cell \in Cells
    BY <1>1, Kinds DEF Plain
  <2>2. RemoveFirst(s.observers[x.cell], id) \in Seq(D)
    BY <2>1, SheetParts, RemoveFirstType
  <2> QED BY <1>1, <2>1, <2>2 DEF Leave, Sheets
<1>2. CASE ~IsReference(x)
  BY <1>2 DEF Leave
<1> QED BY <1>1, <1>2

LEMMA RegisterAllStep ==
  ASSUME NEW D, NEW s \in Sheets(D), NEW args \in Seq(Terms), NEW id \in D
  PROVE  LET t == RegisterAll(s, args, id)
         IN  t \in Sheets(D) /\ t.content = s.content /\ t.fn = s.fn
<1> DEFINE S == {t \in Sheets(D) : t.content = s.content /\ t.fn = s.fn}
           n == Len(args)
<1>1. n \in Nat /\ Listed(args, n) /\ \A i \in 1 .. n : args[i] \in Terms
  BY DEF Listed
<1> HIDE DEF n
<1>2. ASSUME NEW i \in 1 .. n, NEW t \in S PROVE Register(t, args[i], id) \in S
  <2>1. args[i] \in Terms /\ t \in Sheets(D)
    BY <1>1
  <2> QED BY <2>1, RegisterStep
<1>3. s \in S
  OBVIOUS
<1> HIDE DEF S
<1>4. PICK p : RegisterPath(p, n, S, s, args, id)
  BY <1>1, <1>2, <1>3, RegisterFold
<1>5. n \in 0 .. n
  BY <1>1
<1>6. RegisterAll(s, args, id) \in S
  BY <1>4, <1>5 DEF RegisterPath
<1> QED BY <1>6 DEF S

LEMMA LeaveAllStep ==
  ASSUME NEW D, NEW s \in Sheets(D), NEW args \in Seq(Terms), NEW id
  PROVE  LET t == LeaveAll(s, args, id)
         IN  t \in Sheets(D) /\ t.content = s.content /\ t.fn = s.fn
<1> DEFINE S == {t \in Sheets(D) : t.content = s.content /\ t.fn = s.fn}
           n == Len(args)
<1>1. n \in Nat /\ Listed(args, n) /\ \A i \in 1 .. n : args[i] \in Terms
  BY DEF Listed
<1> HIDE DEF n
<1>2. ASSUME NEW i \in 1 .. n, NEW t \in S PROVE Leave(t, args[i], id) \in S
  <2>1. args[i] \in Terms /\ t \in Sheets(D)
    BY <1>1
  <2> QED BY <2>1, LeaveStep
<1>3. s \in S
  OBVIOUS
<1> HIDE DEF S
<1>4. PICK p : LeavePath(p, n, S, s, args, id)
  BY <1>1, <1>2, <1>3, LeaveFold
<1>5. n \in 0 .. n
  BY <1>1
<1>6. LeaveAll(s, args, id) \in S
  BY <1>4, <1>5 DEF LeavePath
<1> QED BY <1>6 DEF S

\* A cell gets a content; objects keep what they are.
LEMMA SetStep ==
  ASSUME NEW D, NEW s \in Sheets(D), NEW c \in Cells, NEW x \in Contents(D)
  PROVE  LET t == setContent(s, c, x)
         IN  t \in Sheets(D) /\ Keeps(s, t) /\ t.content = [s.content EXCEPT ![c] = x]
<1> DEFINE u == IF IsFunction(s.content[c]) THEN unsubscribe(s, s.content[c].id) ELSE s
<1>1. u \in Sheets(D) /\ u.content = s.content /\ u.fn = s.fn
  <2>1. CASE IsFunction(s.content[c])
    <3> DEFINE id == s.content[c].id
    <3>1. id \in D
      BY <2>1, SheetParts, FunctionContents
    <3>2. s.fn[id].args \in Seq(Terms)
      BY <3>1, SheetParts DEF Objects
    <3>3. unsubscribe(s, id) = LeaveAll(s, s.fn[id].args, id)
      BY DEF unsubscribe, LeaveAll
    <3> QED BY <2>1, <3>2, <3>3, LeaveAllStep
  <2>2. CASE ~IsFunction(s.content[c])
    BY <2>2
  <2> QED BY <2>1, <2>2
<1>2. setContent(s, c, x) = Store(u, c, x)
  BY DEF setContent
<1> HIDE DEF u
<1>3. Keeps(s, u)
  BY <1>1 DEF Keeps
<1> QED BY <1>1, <1>2, <1>3, StoreStep, KeepsTransitive
\* What a function is constructed from.
Source(entry) == entry.name \in {"ADD", "PRODUCT"} /\ entry.args \in Seq(Terms)

\* What a constructor makes of s.
Constructed(s, entry, id, t) ==
  /\ Keeps(s, t) /\ t.content = s.content
  /\ t.fn[id].name = entry.name /\ t.fn[id].args = entry.args /\ ~t.fn[id].shared

\* A constructor adds an object under a free number; the cells are as they were.
LEMMA ConstructStep ==
  ASSUME NEW D, NEW s \in Sheets(D), NEW entry, Source(entry), NEW id, id \notin D
  PROVE  LET t == Construct(s, entry, id)
         IN  t \in Sheets(D \cup {id}) /\ Constructed(s, entry, id, t)
<1> DEFINE E == D \cup {id}
           f == [name |-> entry.name, args |-> entry.args, value |-> Error, shared |-> FALSE]
           fn == [i \in DOMAIN s.fn \cup {id} |-> IF i = id THEN f ELSE s.fn[i]]
           r == [s EXCEPT !.fn = fn]
           u == RegisterAll(r, entry.args, id)
           t == update(u, id)
<1>1. f \in Objects
  BY Kinds DEF Objects, Source
<1> HIDE DEF f
<1>2. fn = [i \in E |-> IF i = id THEN f ELSE s.fn[i]]
  <2>1. DOMAIN s.fn = D
    BY SheetParts
  <2> QED BY <2>1
<1> HIDE DEF fn, E
<1>3. fn \in [E -> Objects] /\ fn[id] = f /\ \A i \in D : fn[i] = s.fn[i]
  <2>1. s.fn \in [D -> Objects]
    BY SheetParts
  <2> QED BY <1>1, <1>2, <2>1 DEF E
<1>4. s.content \in [Cells -> Contents(E)] /\ s.observers \in [Cells -> Seq(E)]
  <2>1. Contents(D) \subseteq Contents(E)
    BY DEF Contents, E
  <2>2. Seq(D) \subseteq Seq(E)
    BY DEF E
  <2>3. s.content \in [Cells -> Contents(D)] /\ s.observers \in [Cells -> Seq(D)]
    BY SheetParts
  <2>4. s.content \in [Cells -> Contents(E)]
    BY <2>1, <2>3
  <2>5. s.observers \in [Cells -> Seq(E)]
    BY <2>2, <2>3
  <2> QED BY <2>4, <2>5
<1>5. r \in Sheets(E) /\ r.content = s.content /\ r.fn = fn
  BY <1>3, <1>4 DEF Sheets
<1> HIDE DEF r
<1>6. u \in Sheets(E) /\ u.content = s.content /\ u.fn = fn
  <2>1. id \in E
    BY DEF E
  <2> QED BY <1>5, <2>1, RegisterAllStep DEF Source
<1> HIDE DEF u
<1>7. t \in Sheets(E) /\ Keeps(u, t) /\ t.content = s.content
  <2>1. id \in E
    BY DEF E
  <2> QED BY <1>6, <2>1, UpdateStep
<1>8. t = Construct(s, entry, id)
  BY DEF Construct, t, u, r, fn, f, RegisterAll
<1> HIDE DEF t
<1>9. Keeps(s, t)
  BY <1>3, <1>6, <1>7, SheetParts DEF Keeps, E
<1>10. t.fn[id].name = entry.name /\ t.fn[id].args = entry.args /\ ~t.fn[id].shared
  <2>1. id \in DOMAIN u.fn /\ u.fn[id] = f
    BY <1>3, <1>6, SheetParts DEF E
  <2> QED BY <1>7, <2>1 DEF Keeps, f
<1> QED BY <1>7, <1>8, <1>9, <1>10 DEF E, Constructed

\* A number that is free for a new object.
LEMMA FreshStep ==
  ASSUME NEW D \in SUBSET Ids, IsFiniteSet(D), NEW s \in Sheets(D)
  PROVE  Fresh(s) \in Ids \ D
<1> DEFINE n == Cardinality(D) + 1
           I == (1 .. n) \ D
<1>1. n \in Nat /\ n > Cardinality(D)
  BY FS_CardinalityType
<1>2. I # {}
  <2> SUFFICES ASSUME 1 .. n \subseteq D PROVE FALSE
    OBVIOUS
  <2>1. Cardinality(1 .. n) <= Cardinality(D)
    BY FS_Subset
  <2>2. Cardinality(1 .. n) = n
    BY <1>1, FS_Interval
  <2> QED BY <1>1, <2>1, <2>2, FS_CardinalityType
<1>3. PICK x \in I : \A y \in I : x <= y
  <2>1. I \in SUBSET Nat
    BY <1>1
  <2> HIDE DEF I
  <2> QED BY <1>2, <2>1, Least
<1>4. x \in 1 .. n /\ x \notin D /\ \A j \in 1 .. x - 1 : j \in D
  BY <1>1, <1>3
<1>5. Fresh(s) = CHOOSE i \in 1 .. n : i \notin D /\ \A j \in 1 .. i - 1 : j \in D
  <2>1. DOMAIN s.fn = D
    BY SheetParts
  <2> QED BY <2>1 DEF Fresh
<1>6. Fresh(s) \in 1 .. n /\ Fresh(s) \notin D
  BY <1>4, <1>5
<1> QED BY <1>1, <1>6 DEF Ids
-----------------------------------------------------------------------------
(* What the commands are made of does.                                     *)

\* The sheets, with finitely many objects.
Numberings == {D \in SUBSET Ids : IsFiniteSet(D)}
AllSheets  == UNION {Sheets(D) : D \in Numberings}
ContentsOf(s) == Contents(DOMAIN s.fn)

LEMMA AllSheetsParts ==
  ASSUME NEW s \in AllSheets
  PROVE  /\ s \in Sheets(DOMAIN s.fn) /\ DOMAIN s.fn \in SUBSET Ids /\ IsFiniteSet(DOMAIN s.fn)
         /\ \A c \in Cells : s.content[c] \in ContentsOf(s)
<1>1. PICK D \in Numberings : s \in Sheets(D)
  BY DEF AllSheets
<1>2. D = DOMAIN s.fn
  BY <1>1, SheetParts
<1> QED BY <1>1, <1>2, SheetParts DEF Numberings, ContentsOf

LEMMA InAllSheets ==
  ASSUME NEW D, NEW t \in Sheets(D), D \in SUBSET Ids, IsFiniteSet(D)
  PROVE  t \in AllSheets /\ DOMAIN t.fn = D
BY SheetParts DEF AllSheets, Numberings

LEMMA ContentsGrow ==
  ASSUME NEW s, NEW t, Keeps(s, t)
  PROVE  ContentsOf(s) \subseteq ContentsOf(t)
BY DEF Keeps, ContentsOf, Contents

\* Objects that are kept are shown as before.
LEMMA WrittenKept ==
  ASSUME NEW s, NEW t, Keeps(s, t), NEW x \in ContentsOf(s)
  PROVE  Written(t, x) = Written(s, x)
<1>1. CASE IsFunction(x)
  <2>1. x.id \in DOMAIN s.fn
    BY <1>1, FunctionContents DEF ContentsOf
  <2> QED BY <1>1, <2>1 DEF Written, Keeps
<1>2. CASE ~IsFunction(x)
  BY <1>2 DEF Written
<1> QED BY <1>1, <1>2

\* What is written tells a function from another content.
LEMMA WrittenKind ==
  ASSUME NEW s, NEW x \in ContentsOf(s), NEW t, NEW y \in ContentsOf(t), Written(t, y) = Written(s, x)
  PROVE  IsFunction(y) <=> IsFunction(x)
<1>1. ASSUME NEW z \in Plain, NEW a, NEW b PROVE z # [name |-> a, args |-> b]
  <2>1. "kind" \in DOMAIN z
    BY DEF Plain, Terms, Empty, Error, Number, Reference
  <2> QED BY <2>1
<1>2. \A z \in ContentsOf(s) \cup ContentsOf(t) : ~IsFunction(z) => z \in Plain
  BY Kinds DEF ContentsOf, Contents
<1> QED BY <1>1, <1>2 DEF Written

\* t holds no object of s that s does not hold.
HoldsNoMore(s, t) == Held(t) \cap DOMAIN s.fn \subseteq Held(s)

LEMMA HoldsNoMoreTransitive ==
  ASSUME NEW s, NEW t, NEW u, Keeps(s, t), HoldsNoMore(s, t), HoldsNoMore(t, u)
  PROVE  HoldsNoMore(s, u)
BY DEF Keeps, HoldsNoMore

LEMMA HoldsTheSame ==
  ASSUME NEW s, NEW t, t.content = s.content
  PROVE  HoldsNoMore(s, t) /\ Held(t) = Held(s)
BY DEF HoldsNoMore, Held

LEMMA SetAll ==
  ASSUME NEW s \in AllSheets, NEW c \in Cells, NEW x \in ContentsOf(s)
  PROVE  LET t == setContent(s, c, x)
         IN  /\ t \in AllSheets /\ Keeps(s, t) /\ DOMAIN t.fn = DOMAIN s.fn
             /\ t.content[c] = x /\ \A d \in Cells : d # c => t.content[d] = s.content[d]
<1> DEFINE t == setContent(s, c, x)
<1>1. t \in Sheets(DOMAIN s.fn) /\ Keeps(s, t) /\ t.content = [s.content EXCEPT ![c] = x]
  BY AllSheetsParts, SetStep DEF ContentsOf
<1> HIDE DEF t
<1>2. t \in AllSheets /\ DOMAIN t.fn = DOMAIN s.fn
  BY <1>1, AllSheetsParts, InAllSheets
<1>3. s.content \in [Cells -> Contents(DOMAIN s.fn)]
  BY AllSheetsParts, SheetParts
<1>4. t.content[c] = x /\ \A d \in Cells : d # c => t.content[d] = s.content[d]
  BY <1>1, <1>3
<1> QED BY <1>1, <1>2, <1>4 DEF t

\* A content in one cell instead of another.
LEMMA SetHolds ==
  ASSUME NEW s \in AllSheets, NEW c \in Cells, NEW x \in ContentsOf(s)
  PROVE  \A i \in Held(setContent(s, c, x)) : i \in Held(s) \/ (IsFunction(x) /\ i = x.id)
<1> DEFINE t == setContent(s, c, x)
<1>1. t.content[c] = x /\ \A d \in Cells : d # c => t.content[d] = s.content[d]
  BY SetAll
<1> HIDE DEF t
<1>2. \A i \in Held(t) : i \in Held(s) \/ (IsFunction(x) /\ i = x.id)
  BY <1>1 DEF Held
<1> QED BY <1>2 DEF t

LEMMA ConstructAll ==
  ASSUME NEW s \in AllSheets, NEW entry, Source(entry)
  PROVE  LET id == Fresh(s)
             t  == Construct(s, entry, id)
         IN  /\ id \in Ids \ DOMAIN s.fn
             /\ t \in AllSheets /\ DOMAIN t.fn = DOMAIN s.fn \cup {id}
             /\ Constructed(s, entry, id, t)
<1> DEFINE id == Fresh(s)
           t == Construct(s, entry, id)
           D == DOMAIN s.fn
<1>1. s \in Sheets(D) /\ D \in SUBSET Ids /\ IsFiniteSet(D)
  BY AllSheetsParts
<1> HIDE DEF D
<1>2. id \in Ids \ D
  BY <1>1, FreshStep
<1> HIDE DEF id
<1>3. t \in Sheets(D \cup {id}) /\ Constructed(s, entry, id, t)
  <2>1. id \notin D
    BY <1>2
  <2> QED BY <1>1, <2>1, ConstructStep
<1> HIDE DEF t
<1>4. D \cup {id} \in SUBSET Ids /\ IsFiniteSet(D \cup {id})
  BY <1>1, <1>2, FS_AddElement
<1>5. t \in AllSheets /\ DOMAIN t.fn = D \cup {id}
  BY <1>3, <1>4, InAllSheets
<1> QED BY <1>2, <1>3, <1>5 DEF id, t, D

\* t has room for a content that is new to s, and is the same sheet otherwise.
Adds(s, t, y) ==
  /\ t \in AllSheets /\ Keeps(s, t) /\ t.content = s.content
  /\ y \in ContentsOf(t) /\ (IsFunction(y) => y.id \notin DOMAIN s.fn)

\* y has in t what was written into x in s, and is no shared object.
Copied(s, x, t, y) ==
  /\ Written(t, y) = Written(s, x)
  /\ IsFunction(y) => ~t.fn[y.id].shared

LEMMA CopiedKept ==
  ASSUME NEW s, NEW x, NEW t, NEW u, Keeps(t, u), NEW y \in ContentsOf(t), Copied(s, x, t, y)
  PROVE  Copied(s, x, u, y)
<1>1. IsFunction(y) => y.id \in DOMAIN t.fn
  BY FunctionContents DEF ContentsOf
<1> QED BY <1>1, WrittenKept DEF Copied, Keeps

\* A copy has what its original has, and is an object of its own.
CopyOf(s, x, t, y) == Adds(s, t, y) /\ Copied(s, x, t, y)

LEMMA CopyStep ==
  ASSUME NEW s \in AllSheets, NEW x \in ContentsOf(s)
  PROVE  CopyOf(s, x, copyContent(s, x).sheet, copyContent(s, x).content)
<1>1. CASE IsFunction(x)
  <2> DEFINE entry == s.fn[x.id]
             id == Fresh(s)
             t == Construct(s, entry, id)
  <2>1. x.id \in DOMAIN s.fn /\ entry \in Objects
    BY <1>1, FunctionContents, AllSheetsParts, SheetParts DEF ContentsOf
  <2>2. Source(entry)
    BY <2>1 DEF Objects, Source
  <2>3. copyContent(s, x).sheet = t /\ copyContent(s, x).content = Object(id)
    BY <1>1 DEF copyContent, Made
  <2>4. Written(s, x) = [name |-> entry.name, args |-> entry.args]
    BY <1>1 DEF Written
  <2> HIDE DEF entry, id
  <2>5. /\ id \in Ids \ DOMAIN s.fn
        /\ t \in AllSheets /\ DOMAIN t.fn = DOMAIN s.fn \cup {id}
        /\ Keeps(s, t) /\ t.content = s.content
        /\ t.fn[id].name = entry.name /\ t.fn[id].args = entry.args /\ ~t.fn[id].shared
    BY <2>2, ConstructAll DEF id, Constructed
  <2> HIDE DEF t
  <2>6. Object(id) \in ContentsOf(t) /\ IsFunction(Object(id)) /\ Object(id).id = id
    BY <2>5, Kinds DEF ContentsOf
  <2>7. Written(t, Object(id)) = Written(s, x)
    BY <2>4, <2>5, <2>6 DEF Written
  <2>8. Copied(s, x, t, Object(id))
    BY <1>1, <2>5, <2>6, <2>7 DEF Copied
  <2> QED BY <2>3, <2>5, <2>6, <2>8 DEF CopyOf, Adds
<1>2. CASE ~IsFunction(x)
  <2>1. copyContent(s, x).sheet = s /\ copyContent(s, x).content = x
    BY <1>2 DEF copyContent, Made
  <2> QED BY <1>2, <2>1, KeepsTransitive DEF CopyOf, Adds, Copied
<1> QED BY <1>1, <1>2
LEMMA ParseStep ==
  ASSUME NEW s \in AllSheets, NEW entry \in Entries
  PROVE  Adds(s, parseContent(s, entry).sheet, parseContent(s, entry).content)
<1>1. CASE entry \in Terms
  <2>1. parseContent(s, entry) = Made(s, entry)
    BY <1>1 DEF parseContent, Terms, Error, Number, Reference
  <2>2. entry \in ContentsOf(s) /\ ~IsFunction(entry)
    BY <1>1, Kinds DEF ContentsOf, Plain
  <2> QED BY <2>1, <2>2, KeepsTransitive DEF Adds, Made
<1>2. CASE entry \in [kind : {"entry"}, name : {"ADD", "PRODUCT"}, args : Seq(Terms)]
  <2> DEFINE id == Fresh(s)
             t == Construct(s, entry, id)
  <2>1. Source(entry)
    BY <1>2 DEF Source
  <2>2. parseContent(s, entry).sheet = t /\ parseContent(s, entry).content = Object(id)
    BY <1>2 DEF parseContent, Made
  <2> HIDE DEF id
  <2>3. /\ id \in Ids \ DOMAIN s.fn /\ t \in AllSheets /\ DOMAIN t.fn = DOMAIN s.fn \cup {id}
        /\ Keeps(s, t) /\ t.content = s.content
    BY <2>1, ConstructAll DEF id, Constructed
  <2> HIDE DEF t
  <2>4. Object(id) \in ContentsOf(t) /\ IsFunction(Object(id)) /\ Object(id).id = id
    BY <2>3, Kinds DEF ContentsOf
  <2> QED BY <2>2, <2>3, <2>4 DEF Adds
<1> QED BY <1>1, <1>2, SheetAssumption

\* Cells that are listed, each once in a list without repetition.
CellList(cells, n) == n \in Nat /\ Listed(cells, n) /\ \A i \in 1 .. n : cells[i] \in Cells
Once(cells, n)     == \A i, j \in 1 .. n : cells[i] = cells[j] => i = j

LEMMA FillStep ==
  ASSUME NEW s \in AllSheets, NEW n, NEW cells, CellList(cells, n), NEW x \in ContentsOf(s)
  PROVE  LET t == FillAll(s, cells, x)
         IN  /\ t \in AllSheets /\ Keeps(s, t) /\ DOMAIN t.fn = DOMAIN s.fn
             /\ \A c \in Cells : t.content[c] = IF \E i \in 1 .. n : c = cells[i] THEN x ELSE s.content[c]
<1> DEFINE S == {t \in AllSheets : Keeps(s, t) /\ DOMAIN t.fn = DOMAIN s.fn}
<1>1. s \in S
  BY KeepsTransitive
<1>2. ASSUME NEW t \in S, NEW c \in Cells
      PROVE  /\ setContent(t, c, x) \in S
             /\ setContent(t, c, x).content[c] = x
             /\ \A d \in Cells : d # c => setContent(t, c, x).content[d] = t.content[d]
  <2>1. t \in AllSheets /\ x \in ContentsOf(t)
    BY ContentsGrow
  <2> DEFINE u == setContent(t, c, x)
  <2>2. /\ u \in AllSheets /\ Keeps(t, u) /\ DOMAIN u.fn = DOMAIN t.fn
        /\ u.content[c] = x /\ \A d \in Cells : d # c => u.content[d] = t.content[d]
    BY <2>1, SetAll
  <2> HIDE DEF u
  <2>3. u \in S
    BY <2>2, KeepsTransitive
  <2> QED BY <2>2, <2>3 DEF u
<1> HIDE DEF S
<1>3. n \in Nat /\ Listed(cells, n) /\ \A i \in 1 .. n : cells[i] \in Cells
  BY DEF CellList
<1>4. \A i \in 1 .. n, t \in S : setContent(t, cells[i], x) \in S
  BY <1>2, <1>3
<1>5. PICK p : FillPath(p, n, S, s, cells, x)
  BY <1>1, <1>3, <1>4, FillFold
<1> DEFINE Ok(k) == \A c \in Cells : p[k].content[c] = IF \E i \in 1 .. k : c = cells[i] THEN x ELSE s.content[c]
           I == {k \in 0 .. n : Ok(k)}
<1>6. 0 \in I
  BY <1>3, <1>5 DEF FillPath
<1>7. ASSUME NEW k \in 1 .. n, k - 1 \in I PROVE k \in I
  <2>1. p[k] = setContent(p[k - 1], cells[k], x) /\ p[k - 1] \in S
    <3>1. k - 1 \in 0 .. n
      BY <1>3
    <3> QED BY <1>5, <3>1 DEF FillPath
  <2>2. cells[k] \in Cells
    BY <1>3
  <2>3. p[k].content[cells[k]] = x /\ \A d \in Cells : d # cells[k] => p[k].content[d] = p[k - 1].content[d]
    BY <1>2, <2>1, <2>2
  <2>4. ASSUME NEW c \in Cells
        PROVE  p[k].content[c] = IF \E i \in 1 .. k : c = cells[i] THEN x ELSE s.content[c]
    <3>1. (\E i \in 1 .. k : c = cells[i]) <=> c = cells[k] \/ \E i \in 1 .. k - 1 : c = cells[i]
      <4>1. 1 .. k = (1 .. k - 1) \cup {k}
        OBVIOUS
      <4> QED BY <4>1
    <3> QED BY <1>7, <2>3, <3>1
  <2> QED BY <2>4
<1>8. n \in I
  <2>1. I \in SUBSET (0 .. n)
    OBVIOUS
  <2> HIDE DEF I
  <2>2. \A k \in 0 .. n : k \in I
    BY <1>3, <1>6, <1>7, <2>1, UpFromZero
  <2> QED BY <1>3, <2>2
<1>9. p[n] = FillAll(s, cells, x) /\ p[n] \in S
  <2>1. n \in 0 .. n
    BY <1>3
  <2> QED BY <1>5, <2>1 DEF FillPath
<1> QED BY <1>8, <1>9 DEF S

LEMMA DeleteFills == \A s, r : Delete(s, r) = FillAll(s, getCells(r), Empty)
BY DEF Delete, FillAll, deleteContent, FoldLeft, MapThenFoldSet
\* What putting a content into a cell, or several into theirs, never does: change an
\* object, or hold one that was there before.
Follows(s, t) == t \in AllSheets /\ Keeps(s, t) /\ HoldsNoMore(s, t)

LEMMA FollowsTransitive ==
  ASSUME NEW s, NEW t, NEW u, Follows(s, t), Follows(t, u)
  PROVE  Follows(s, u)
BY KeepsTransitive, HoldsNoMoreTransitive DEF Follows

LEMMA FollowsItself == \A s \in AllSheets : Follows(s, s)
BY KeepsTransitive, HoldsTheSame DEF Follows

LEMMA PutStep ==
  ASSUME NEW s \in AllSheets, NEW x \in ContentsOf(s), NEW c \in Cells
  PROVE  LET t == Put(s, x, c)
         IN  /\ Follows(s, t) /\ Copied(s, x, t, t.content[c])
             /\ \A d \in Cells : d # c => t.content[d] = s.content[d]
<1> DEFINE t == copyContent(s, x).sheet
           y == copyContent(s, x).content
           u == deleteContent(t, c)
           v == setContent(u, c, y)
<1>1. CopyOf(s, x, t, y)
  BY CopyStep
<1>2. v = Put(s, x, c)
  BY DEF Put
<1> HIDE DEF t, y
<1>3. t \in AllSheets /\ Keeps(s, t) /\ t.content = s.content /\ y \in ContentsOf(t) /\ Copied(s, x, t, y)
  BY <1>1 DEF CopyOf, Adds
<1>4. IsFunction(y) => y.id \notin DOMAIN s.fn
  BY <1>1 DEF CopyOf, Adds
<1>5. Empty \in ContentsOf(t)
  BY Kinds DEF ContentsOf
<1>6. u = setContent(t, c, Empty)
  BY DEF deleteContent
<1>7. /\ u \in AllSheets /\ Keeps(t, u) /\ DOMAIN u.fn = DOMAIN t.fn
      /\ \A d \in Cells : d # c => u.content[d] = t.content[d]
  BY <1>3, <1>5, <1>6, SetAll
<1>8. \A i \in Held(u) : i \in Held(t)
  BY <1>3, <1>5, <1>6, SetHolds, Kinds
<1> HIDE DEF u
<1>9. y \in ContentsOf(u) /\ Copied(s, x, u, y)
  BY <1>3, <1>7, ContentsGrow, CopiedKept
<1>10. /\ v \in AllSheets /\ Keeps(u, v) /\ v.content[c] = y
       /\ \A d \in Cells : d # c => v.content[d] = u.content[d]
  BY <1>7, <1>9, SetAll
<1>11. \A i \in Held(v) : i \in Held(u) \/ (IsFunction(y) /\ i = y.id)
  BY <1>7, <1>9, SetHolds
<1> HIDE DEF v
<1>12. Keeps(s, v) /\ Copied(s, x, v, y)
  BY <1>3, <1>7, <1>9, <1>10, KeepsTransitive, CopiedKept
<1>13. Held(t) = Held(s)
  BY <1>3, HoldsTheSame
<1>14. HoldsNoMore(s, v)
  BY <1>4, <1>8, <1>11, <1>13 DEF HoldsNoMore
<1> QED BY <1>2, <1>3, <1>7, <1>9, <1>10, <1>12, <1>14 DEF Follows

\* The contents b are in cells, one in each; the other cells are as they were.
PastedInto(s, b, n, cells, t) ==
  /\ Follows(s, t)
  /\ \A c \in Cells : (\A i \in 1 .. n : c # cells[i]) => t.content[c] = s.content[c]
  /\ Once(cells, n) => \A i \in 1 .. n : Copied(s, b[i], t, t.content[cells[i]])

LEMMA PutAllStep ==
  ASSUME NEW s \in AllSheets, NEW n, NEW cells, CellList(cells, n), NEW b, NEW seq, seq = [i \in 1 .. n |-> i],
         \A i \in 1 .. n : b[i] \in ContentsOf(s)
  PROVE  LET t == PutAll(s, seq, b, cells)
         IN  PastedInto(s, b, n, cells, t)
<1> DEFINE S == {t \in AllSheets : Follows(s, t)}
<1>1. s \in S
  BY FollowsItself
<1>2. ASSUME NEW t \in S, NEW i \in 1 .. n
      PROVE  LET u == Put(t, b[i], cells[i])
             IN  /\ u \in S /\ Keeps(t, u)
                 /\ Copied(s, b[i], u, u.content[cells[i]])
                 /\ \A d \in Cells : d # cells[i] => u.content[d] = t.content[d]
  <2>1. t \in AllSheets /\ Follows(s, t) /\ Keeps(s, t)
    BY DEF Follows
  <2>2. b[i] \in ContentsOf(t) /\ Written(t, b[i]) = Written(s, b[i]) /\ cells[i] \in Cells
    BY <2>1, ContentsGrow, WrittenKept DEF CellList
  <2> DEFINE u == Put(t, b[i], cells[i])
  <2>3. /\ Follows(t, u) /\ Copied(t, b[i], u, u.content[cells[i]])
        /\ \A d \in Cells : d # cells[i] => u.content[d] = t.content[d]
    BY <2>1, <2>2, PutStep
  <2> HIDE DEF u
  <2>4. u \in S /\ Keeps(t, u)
    BY <2>1, <2>3, FollowsTransitive DEF Follows
  <2>5. Copied(s, b[i], u, u.content[cells[i]])
    BY <2>2, <2>3 DEF Copied
  <2> QED BY <2>3, <2>4, <2>5 DEF u
<1> HIDE DEF S
<1>3. n \in Nat /\ Listed(seq, n) /\ \A i \in 1 .. n : seq[i] = i /\ cells[i] \in Cells
  BY DEF CellList, Listed
<1>4. \A i \in 1 .. n, t \in S : Put(t, b[seq[i]], cells[seq[i]]) \in S
  BY <1>2, <1>3
<1>5. PICK p : PutPath(p, n, S, s, seq, b, cells)
  BY <1>1, <1>3, <1>4, PutFold
<1> DEFINE Ok(k) ==
             /\ \A c \in Cells : (\A i \in 1 .. k : c # cells[i]) => p[k].content[c] = s.content[c]
             /\ Once(cells, n) => \A i \in 1 .. k : Copied(s, b[i], p[k], p[k].content[cells[i]])
           I == {k \in 0 .. n : Ok(k)}
<1>6. 0 \in I
  BY <1>3, <1>5 DEF PutPath
<1>7. ASSUME NEW k \in 1 .. n, k - 1 \in I PROVE k \in I
  <2> DEFINE t == p[k - 1]
             u == p[k]
  <2>1. u = Put(t, b[k], cells[k]) /\ t \in S
    <3>1. k - 1 \in 0 .. n /\ seq[k] = k
      BY <1>3
    <3> QED BY <1>5, <3>1 DEF PutPath
  <2>2. /\ Keeps(t, u) /\ Copied(s, b[k], u, u.content[cells[k]])
        /\ \A d \in Cells : d # cells[k] => u.content[d] = t.content[d]
    BY <1>2, <2>1
  <2>3. t \in AllSheets
    BY <2>1 DEF S
  <2>4. Ok(k - 1)
    BY <1>7
  <2>5. 1 .. k = (1 .. k - 1) \cup {k} /\ k \notin 1 .. k - 1 /\ 1 .. k - 1 \subseteq 1 .. n
    BY <1>3
  <2>6. \A c \in Cells : (\A i \in 1 .. k : c # cells[i]) => u.content[c] = s.content[c]
    BY <2>2, <2>4, <2>5
  <2>7. ASSUME Once(cells, n), NEW i \in 1 .. k PROVE Copied(s, b[i], u, u.content[cells[i]])
    <3>1. CASE i = k
      BY <2>2, <3>1
    <3>2. CASE i \in 1 .. k - 1
      <4>1. cells[i] # cells[k] /\ cells[i] \in Cells
        BY <1>3, <2>5, <2>7, <3>2 DEF Once
      <4>2. u.content[cells[i]] = t.content[cells[i]] /\ t.content[cells[i]] \in ContentsOf(t)
        BY <2>2, <2>3, <4>1, AllSheetsParts
      <4>3. Copied(s, b[i], t, t.content[cells[i]])
        BY <2>4, <2>7, <3>2
      <4> QED BY <2>2, <4>2, <4>3, CopiedKept
    <3> QED BY <2>5, <3>1, <3>2
  <2> QED BY <2>6, <2>7
<1>8. Ok(n)
  <2>1. I \in SUBSET (0 .. n)
    OBVIOUS
  <2> HIDE DEF I
  <2>2. \A k \in 0 .. n : k \in I
    BY <1>3, <1>6, <1>7, <2>1, UpFromZero
  <2> QED BY <1>3, <2>2 DEF I
<1>9. p[n] = PutAll(s, seq, b, cells) /\ p[n] \in S
  <2>1. n \in 0 .. n
    BY <1>3
  <2> QED BY <1>5, <2>1 DEF PutPath
<1> QED BY <1>8, <1>9 DEF S, PastedInto
\* The buffer b of the sheet t: independent copies of what s had.
Bufferings(s) ==
  {t \in [sheet : AllSheets, buffer : Seq(Contents(Ids))] :
     /\ Keeps(s, t.sheet) /\ t.sheet.content = s.content
     /\ \A j \in 1 .. Len(t.buffer) : /\ t.buffer[j] \in ContentsOf(t.sheet)
                                      /\ IsFunction(t.buffer[j]) => t.buffer[j].id \notin DOMAIN s.fn}

LEMMA TakeStep ==
  ASSUME NEW s \in AllSheets, NEW t \in Bufferings(s), NEW c \in Cells
  PROVE  LET u == Take(t, c)
             n == Len(t.buffer)
         IN  /\ u \in Bufferings(s) /\ Len(u.buffer) = n + 1
             /\ Keeps(t.sheet, u.sheet)
             /\ \A j \in 1 .. n : u.buffer[j] = t.buffer[j]
             /\ Written(u.sheet, u.buffer[n + 1]) = Written(s, s.content[c])
<1> DEFINE x == t.sheet.content[c]
           n == Len(t.buffer)
           v == copyContent(t.sheet, x).sheet
           y == copyContent(t.sheet, x).content
           b == Append(t.buffer, y)
           u == Take(t, c)
<1>1. /\ t.sheet \in AllSheets /\ Keeps(s, t.sheet) /\ t.sheet.content = s.content
      /\ t.buffer \in Seq(Contents(Ids)) /\ n \in Nat
      /\ \A j \in 1 .. n : /\ t.buffer[j] \in ContentsOf(t.sheet)
                           /\ IsFunction(t.buffer[j]) => t.buffer[j].id \notin DOMAIN s.fn
  BY DEF Bufferings
<1>2. x \in ContentsOf(t.sheet) /\ s.content[c] \in ContentsOf(s) /\ x = s.content[c]
  BY <1>1, AllSheetsParts
<1>3. CopyOf(t.sheet, x, v, y)
  BY <1>1, <1>2, CopyStep
<1>4. u = [sheet |-> v, buffer |-> b]
  BY DEF Take
<1> HIDE DEF v, y, u
<1>5. /\ v \in AllSheets /\ Keeps(t.sheet, v) /\ v.content = s.content
      /\ y \in ContentsOf(v) /\ Written(v, y) = Written(s, s.content[c])
      /\ IsFunction(y) => y.id \notin DOMAIN s.fn
  <2>1. Written(t.sheet, x) = Written(s, s.content[c])
    BY <1>1, <1>2, WrittenKept
  <2> QED BY <1>1, <1>3, <2>1 DEF CopyOf, Copied, Adds, Keeps
<1>6. y \in Contents(Ids)
  <2>1. DOMAIN v.fn \subseteq Ids
    BY <1>5, AllSheetsParts
  <2> QED BY <1>5, <2>1 DEF ContentsOf, Contents
<1>7. /\ b \in Seq(Contents(Ids)) /\ Len(b) = n + 1 /\ b[n + 1] = y
      /\ \A j \in 1 .. n : b[j] = t.buffer[j]
  BY <1>1, <1>6, AppendProperties
<1> HIDE DEF b, n, x
<1>8. Keeps(s, v)
  BY <1>1, <1>5, KeepsTransitive
<1>9. ASSUME NEW j \in 1 .. n + 1
      PROVE  b[j] \in ContentsOf(v) /\ (IsFunction(b[j]) => b[j].id \notin DOMAIN s.fn)
  <2>1. CASE j = n + 1
    BY <1>5, <1>7, <2>1
  <2>2. CASE j \in 1 .. n
    BY <1>1, <1>5, <1>7, <2>2, ContentsGrow
  <2> QED BY <1>1, <2>1, <2>2
<1>10. u \in Bufferings(s) /\ u.buffer = b /\ u.sheet = v
  BY <1>4, <1>5, <1>7, <1>8, <1>9 DEF Bufferings
<1> QED BY <1>5, <1>7, <1>10 DEF u, n

LEMMA CopyRangeStep ==
  ASSUME NEW s \in AllSheets, NEW n, NEW cells, CellList(cells, n)
  PROVE  LET t == TakeAll([sheet |-> s, buffer |-> <<>>], cells)
         IN  /\ t \in Bufferings(s) /\ Len(t.buffer) = n
             /\ \A j \in 1 .. n : Written(t.sheet, t.buffer[j]) = Written(s, s.content[cells[j]])
<1> DEFINE S == Bufferings(s)
           first == [sheet |-> s, buffer |-> <<>>]
<1>1. first \in S
  BY KeepsTransitive DEF Bufferings
<1> HIDE DEF first
<1>2. n \in Nat /\ Listed(cells, n) /\ \A i \in 1 .. n : cells[i] \in Cells
  BY DEF CellList
<1>3. \A i \in 1 .. n, t \in S : Take(t, cells[i]) \in S
  BY <1>2, TakeStep
<1>4. PICK p : TakePath(p, n, S, first, cells)
  BY <1>1, <1>2, <1>3, TakeFold
<1> DEFINE Ok(k) == /\ Len(p[k].buffer) = k
                    /\ \A j \in 1 .. k : Written(p[k].sheet, p[k].buffer[j]) = Written(s, s.content[cells[j]])
           I == {k \in 0 .. n : Ok(k)}
<1>5. 0 \in I
  BY <1>2, <1>4 DEF TakePath, first
<1>6. ASSUME NEW k \in 1 .. n, k - 1 \in I PROVE k \in I
  <2> DEFINE t == p[k - 1]
             u == p[k]
  <2>1. u = Take(t, cells[k]) /\ t \in S /\ k \in 0 .. n
    <3>1. k - 1 \in 0 .. n /\ k \in 0 .. n
      BY <1>2
    <3> QED BY <1>4, <3>1 DEF TakePath
  <2>2. Len(t.buffer) = k - 1 /\ Ok(k - 1) /\ cells[k] \in Cells /\ k - 1 + 1 = k
    BY <1>2, <1>6
  <2>3. /\ Len(u.buffer) = k /\ Keeps(t.sheet, u.sheet)
        /\ \A j \in 1 .. k - 1 : u.buffer[j] = t.buffer[j]
        /\ Written(u.sheet, u.buffer[k]) = Written(s, s.content[cells[k]])
    BY <2>1, <2>2, TakeStep
  <2>4. \A j \in 1 .. k - 1 : t.buffer[j] \in ContentsOf(t.sheet)
    BY <2>1, <2>2 DEF Bufferings
  <2>5. ASSUME NEW j \in 1 .. k PROVE Written(u.sheet, u.buffer[j]) = Written(s, s.content[cells[j]])
    <3>1. CASE j = k
      BY <2>3, <3>1
    <3>2. CASE j \in 1 .. k - 1
      <4>1. Keeps(t.sheet, u.sheet) /\ t.buffer[j] \in ContentsOf(t.sheet)
        BY <2>3, <2>4, <3>2
      <4>2. Written(u.sheet, t.buffer[j]) = Written(t.sheet, t.buffer[j])
        BY <4>1, WrittenKept
      <4>3. Written(t.sheet, t.buffer[j]) = Written(s, s.content[cells[j]]) /\ u.buffer[j] = t.buffer[j]
        BY <2>2, <2>3, <3>2
      <4> QED BY <4>2, <4>3
    <3> QED BY <3>1, <3>2
  <2> QED BY <2>1, <2>3, <2>5
<1>7. Ok(n)
  <2>1. I \in SUBSET (0 .. n)
    OBVIOUS
  <2> HIDE DEF I
  <2>2. \A k \in 0 .. n : k \in I
    BY <1>2, <1>5, <1>6, <2>1, UpFromZero
  <2> QED BY <1>2, <2>2 DEF I
<1>8. p[n] = TakeAll(first, cells) /\ p[n] \in S
  <2>1. n \in 0 .. n
    BY <1>2
  <2> QED BY <1>4, <2>1 DEF TakePath
<1> QED BY <1>7, <1>8 DEF first

\* Only objects that nothing leads to go.
LEMMA CollectStep ==
  ASSUME NEW s \in AllSheets, NEW b \in Seq(ContentsOf(s))
  PROVE  LET t == Collect(s, b)
         IN  /\ t \in AllSheets /\ t.content = s.content /\ t.observers = s.observers
             /\ DOMAIN t.fn \subseteq DOMAIN s.fn
             /\ \A i \in DOMAIN t.fn : t.fn[i] = s.fn[i]
             /\ Held(s) \subseteq DOMAIN t.fn /\ b \in Seq(ContentsOf(t))
<1> DEFINE D == DOMAIN s.fn
           held == {i \in D : \/ Contains(b, Object(i))
                              \/ \E c \in Cells : s.content[c] = Object(i) \/ Contains(s.observers[c], i)}
           fn == [i \in held |-> s.fn[i]]
           t == [s EXCEPT !.fn = fn]
<1>1. t = Collect(s, b)
  BY DEF Collect
<1>2. /\ s \in Sheets(D) /\ D \in SUBSET Ids /\ IsFiniteSet(D)
      /\ s.content \in [Cells -> Contents(D)] /\ s.observers \in [Cells -> Seq(D)] /\ s.fn \in [D -> Objects]
  BY AllSheetsParts, SheetParts
<1>3. held \subseteq D /\ IsFiniteSet(held)
  BY <1>2, FS_Subset
<1>4. \A c \in Cells : IsFunction(s.content[c]) => s.content[c].id \in held
  <2>1. ASSUME NEW c \in Cells, IsFunction(s.content[c])
        PROVE  s.content[c].id \in D /\ s.content[c] = Object(s.content[c].id)
    BY <1>2, <2>1, FunctionContents
  <2> QED BY <2>1
<1>5. s.content \in [Cells -> Contents(held)]
  <2>1. ASSUME NEW c \in Cells PROVE s.content[c] \in Contents(held)
    <3>1. s.content[c] \in Contents(D)
      BY <1>2
    <3> HIDE DEF held, D
    <3>2. CASE IsFunction(s.content[c])
      <4>1. s.content[c] = Object(s.content[c].id)
        BY <3>1, <3>2, FunctionContents
      <4> QED BY <1>4, <3>2, <4>1 DEF Contents
    <3>3. CASE ~IsFunction(s.content[c])
      BY <3>1, <3>3, Kinds
    <3> QED BY <3>2, <3>3
  <2> QED BY <1>2, <2>1
<1>6. s.observers \in [Cells -> Seq(held)]
  <2>1. ASSUME NEW c \in Cells PROVE s.observers[c] \in Seq(held)
    <3> DEFINE q == s.observers[c]
    <3>1. q \in Seq(D) /\ Len(q) \in Nat
      BY <1>2
    <3>2. \A j \in 1 .. Len(q) : q[j] \in D /\ Contains(q, q[j])
      BY <3>1 DEF Contains
    <3>3. \A j \in 1 .. Len(q) : q[j] \in held
      BY <3>2
    <3> HIDE DEF q, held
    <3> QED BY <3>1, <3>3 DEF q
  <2> QED BY <1>2, <2>1
<1>7. fn \in [held -> Objects]
  BY <1>2, <1>3
<1>8. b \in Seq(Contents(held))
  <2>1. b \in Seq(Contents(D)) /\ Len(b) \in Nat
    BY DEF ContentsOf
  <2>2. ASSUME NEW j \in 1 .. Len(b) PROVE b[j] \in Contents(held)
    <3>1. b[j] \in Contents(D) /\ Contains(b, b[j])
      BY <2>1 DEF Contains
    <3>2. CASE IsFunction(b[j])
      <4>1. b[j] = Object(b[j].id) /\ b[j].id \in D
        BY <3>1, <3>2, FunctionContents
      <4>2. b[j].id \in held
        BY <3>1, <4>1
      <4> QED BY <4>1, <4>2 DEF Contents
    <3>3. CASE ~IsFunction(b[j])
      BY <3>1, <3>3, Kinds
    <3> QED BY <3>2, <3>3
  <2> HIDE DEF held, D
  <2> QED BY <2>1, <2>2
<1> HIDE DEF held, D
<1>9. t \in Sheets(held) /\ t.fn = fn /\ t.content = s.content /\ t.observers = s.observers
  BY <1>2, <1>5, <1>6, <1>7 DEF Sheets
<1>10. held \in SUBSET Ids
  BY <1>2, <1>3
<1>11. t \in AllSheets /\ DOMAIN t.fn = held
  <2> HIDE DEF t
  <2> QED BY <1>3, <1>9, <1>10, InAllSheets
<1>12. Held(s) \subseteq held
  BY <1>4 DEF Held
<1>13. \A i \in held : t.fn[i] = s.fn[i]
  BY <1>9
<1> HIDE DEF t, fn
<1>14. b \in Seq(ContentsOf(t))
  BY <1>8, <1>11 DEF ContentsOf
<1> QED BY <1>1, <1>3, <1>9, <1>11, <1>12, <1>13, <1>14 DEF D
-----------------------------------------------------------------------------
(* Ranges.                                                                 *)

LEMMA LineCells ==
  ASSUME NEW c \in Cells, NEW n \in Nat, NEW across \in BOOLEAN
  PROVE  LET room == IF across THEN Columns - c[2] + 1 ELSE Rows - c[1] + 1
             m    == IF n <= room THEN n ELSE room
             line == LineOf(c, n, across)
         IN  CellList(line, m) /\ Once(line, m) /\ DOMAIN line = 1 .. m /\ (n = 1 => m = 1 /\ line[1] = c)
<1> DEFINE room == IF across THEN Columns - c[2] + 1 ELSE Rows - c[1] + 1
           m == IF n <= room THEN n ELSE room
           line == LineOf(c, n, across)
<1>1. /\ c = <<c[1], c[2]>> /\ c[1] \in 1 .. Rows /\ c[2] \in 1 .. Columns
      /\ Rows \in Nat \ {0} /\ Columns \in Nat \ {0}
  BY SheetAssumption DEF Cells
<1>2. room \in Nat \ {0} /\ m \in Nat
  BY <1>1
<1>3. Min({n, room}) = m
  BY <1>2 DEF Min
<1>4. line = [i \in 1 .. m |-> IF across THEN <<c[1], c[2] + i - 1>> ELSE <<c[1] + i - 1, c[2]>>]
  BY <1>3 DEF LineOf
<1>5. \A i \in 1 .. m : line[i] \in Cells
  <2>1. ASSUME NEW i \in 1 .. m PROVE line[i] \in Cells
    <3>1. i \in Nat /\ i >= 1 /\ i <= room
      BY <1>2
    <3>2. CASE across
      <4>1. c[2] + i - 1 \in 1 .. Columns
        BY <1>1, <3>1, <3>2
      <4> QED BY <1>1, <1>4, <3>2, <4>1 DEF Cells
    <3>3. CASE ~across
      <4>1. c[1] + i - 1 \in 1 .. Rows
        BY <1>1, <3>1, <3>3
      <4> QED BY <1>1, <1>4, <3>3, <4>1 DEF Cells
    <3> QED BY <3>2, <3>3
  <2> QED BY <2>1
<1>6. Once(line, m)
  <2>1. ASSUME NEW i \in 1 .. m, NEW j \in 1 .. m, line[i] = line[j] PROVE i = j
    <3>1. CASE across
      <4>1. c[2] + i - 1 = c[2] + j - 1
        BY <1>4, <2>1, <3>1
      <4> QED BY <1>1, <4>1
    <3>2. CASE ~across
      <4>1. c[1] + i - 1 = c[1] + j - 1
        BY <1>4, <2>1, <3>2
      <4> QED BY <1>1, <4>1
    <3> QED BY <3>1, <3>2
  <2> QED BY <2>1 DEF Once
<1>7. ASSUME n = 1 PROVE m = 1 /\ line[1] = c
  <2>1. m = 1 /\ 1 \in 1 .. m
    BY <1>2, <1>7
  <2>2. c[2] + 1 - 1 = c[2] /\ c[1] + 1 - 1 = c[1]
    BY <1>1
  <2> QED BY <1>1, <1>4, <2>1, <2>2
<1>8. Listed(line, m) /\ DOMAIN line = 1 .. m
  BY <1>4 DEF Listed
<1> HIDE DEF line, m
<1>9. CellList(line, m)
  BY <1>2, <1>5, <1>8 DEF CellList
<1> QED BY <1>6, <1>7, <1>8, <1>9 DEF line, m

LEMMA RangeCells ==
  ASSUME NEW r \in Ranges
  PROVE  /\ getSize(r) \in Nat \ {0} /\ getHorizontal(r) \in BOOLEAN /\ r.from \in Cells
         /\ CellList(getCells(r), getSize(r)) /\ Once(getCells(r), getSize(r))
         /\ DOMAIN getCells(r) = 1 .. getSize(r)
         /\ getCells(r) = LineOf(r.from, getSize(r), getHorizontal(r))
<1> DEFINE n == getSize(r)
           across == getHorizontal(r)
           c == r.from
           room == IF across THEN Columns - c[2] + 1 ELSE Rows - c[1] + 1
           m == IF n <= room THEN n ELSE room
<1>1. /\ r.from \in Cells /\ r.to \in Cells /\ r.from[1] <= r.to[1] /\ r.from[2] <= r.to[2]
      /\ r.from[1] = r.to[1] \/ r.from[2] = r.to[2]
  BY DEF Ranges
<1>2. /\ r.from[1] \in 1 .. Rows /\ r.from[2] \in 1 .. Columns
      /\ r.to[1] \in 1 .. Rows /\ r.to[2] \in 1 .. Columns
      /\ Rows \in Nat /\ Columns \in Nat
  BY <1>1, SheetAssumption DEF Cells
<1>3. n \in Nat \ {0} /\ n <= room /\ across \in BOOLEAN
  BY <1>1, <1>2 DEF getSize, getHorizontal
<1>4. getCells(r) = LineOf(c, n, across)
  BY DEF getCells, Line
<1>5. m = n
  BY <1>3
<1> HIDE DEF n, across
<1>6. CellList(LineOf(c, n, across), m) /\ Once(LineOf(c, n, across), m) /\ DOMAIN LineOf(c, n, across) = 1 .. m
  <2> n \in Nat
    BY <1>3
  <2> QED BY <1>1, <1>3, LineCells
<1> HIDE DEF m
<1> QED BY <1>1, <1>3, <1>4, <1>5, <1>6 DEF n, across
-----------------------------------------------------------------------------
(* The commands.                                                           *)

LEMMA DeleteStep ==
  ASSUME NEW s \in AllSheets, NEW r \in Ranges
  PROVE  LET t == Delete(s, r)
         IN  /\ Follows(s, t) /\ DOMAIN t.fn = DOMAIN s.fn
             /\ \A c \in Cells : t.content[c] = IF \E i \in 1 .. getSize(r) : c = getCells(r)[i]
                                                THEN Empty ELSE s.content[c]
<1> DEFINE n == getSize(r)
           cells == getCells(r)
           t == FillAll(s, cells, Empty)
<1>1. CellList(cells, n) /\ Empty \in ContentsOf(s)
  BY RangeCells, Kinds DEF ContentsOf
<1> HIDE DEF n, cells
<1>2. /\ t \in AllSheets /\ Keeps(s, t) /\ DOMAIN t.fn = DOMAIN s.fn
      /\ \A c \in Cells : t.content[c] = IF \E i \in 1 .. n : c = cells[i] THEN Empty ELSE s.content[c]
  BY <1>1, FillStep
<1>3. t = Delete(s, r)
  BY DeleteFills DEF cells
<1> HIDE DEF t
<1>4. HoldsNoMore(s, t)
  BY <1>2, Kinds DEF HoldsNoMore, Held
<1> QED BY <1>2, <1>3, <1>4 DEF Follows, n, cells

LEMMA CopyingStep ==
  ASSUME NEW s \in AllSheets, NEW r \in Ranges
  PROVE  LET t == Copy(s, r)
         IN  /\ t \in Bufferings(s) /\ Len(t.buffer) = getSize(r)
             /\ \A j \in 1 .. getSize(r) : Written(t.sheet, t.buffer[j]) = Written(s, s.content[getCells(r)[j]])
<1>1. Copy(s, r) = TakeAll([sheet |-> s, buffer |-> <<>>], getCells(r))
  BY DEF Copy, TakeAll
<1>2. CellList(getCells(r), getSize(r))
  BY RangeCells
<1> QED BY <1>1, <1>2, CopyRangeStep

LEMMA InsertStep ==
  ASSUME NEW s \in AllSheets, NEW r \in Ranges, NEW entry \in Entries
  PROVE  Follows(s, Insert(s, r, entry))
<1> DEFINE cells == getCells(r)
           n == getSize(r)
           t == parseContent(s, entry).sheet
           y == parseContent(s, entry).content
           all == FillAll(t, cells, y)
           u == Insert(s, r, entry)
<1>1. CellList(cells, n)
  BY RangeCells
<1>2. Adds(s, t, y)
  BY ParseStep
<1>3. u = IF IsFunction(y) /\ n > 1 THEN [all EXCEPT !.fn[y.id].shared = TRUE] ELSE all
  BY DEF Insert, FillAll
<1> HIDE DEF cells, n, t, y, u
<1>4. t \in AllSheets /\ y \in ContentsOf(t)
  BY <1>2 DEF Adds
<1>5. /\ all \in AllSheets /\ Keeps(t, all) /\ DOMAIN all.fn = DOMAIN t.fn
      /\ \A c \in Cells : all.content[c] = IF \E i \in 1 .. n : c = cells[i] THEN y ELSE t.content[c]
  BY <1>1, <1>4, FillStep
<1> HIDE DEF all
<1>6. Keeps(s, all)
  BY <1>2, <1>5, KeepsTransitive DEF Adds
<1>7. HoldsNoMore(s, all)
  BY <1>2, <1>5 DEF Adds, HoldsNoMore, Held
<1>8. CASE IsFunction(y) /\ n > 1
  <2> DEFINE id == y.id
             D == DOMAIN all.fn
             fn == [all.fn EXCEPT ![id] = [@ EXCEPT !.shared = TRUE]]
  <2>1. id \in D /\ id \notin DOMAIN s.fn
    BY <1>2, <1>4, <1>5, <1>8, FunctionContents DEF Adds, ContentsOf
  <2>2. all \in Sheets(D) /\ D \in SUBSET Ids /\ IsFiniteSet(D)
    BY <1>5, AllSheetsParts
  <2>3. all.fn \in [D -> Objects]
    BY <2>2, SheetParts
  <2> HIDE DEF id, D
  <2>4. fn \in [D -> Objects] /\ \A i \in D : i # id => fn[i] = all.fn[i]
    BY <2>1, <2>3 DEF Objects
  <2>5. u = [all EXCEPT !.fn = fn]
    BY <1>3, <1>8 DEF id
  <2> HIDE DEF fn
  <2>6. u \in Sheets(D) /\ u.fn = fn /\ u.content = all.content
    BY <2>2, <2>4, <2>5 DEF Sheets
  <2>7. u \in AllSheets /\ DOMAIN u.fn = D
    BY <2>2, <2>6, InAllSheets
  <2>8. Keeps(s, u)
    BY <1>6, <2>1, <2>4, <2>6, <2>7 DEF Keeps, D
  <2>9. HoldsNoMore(s, u)
    BY <1>7, <2>6 DEF HoldsNoMore, Held
  <2> QED BY <2>7, <2>8, <2>9 DEF Follows, u
<1>9. CASE ~(IsFunction(y) /\ n > 1)
  BY <1>3, <1>5, <1>6, <1>7, <1>9 DEF Follows, u
<1> QED BY <1>8, <1>9

\* b is a buffer of s.
Buffered(s, b) == b \in Seq(ContentsOf(s))

LEMMA BufferedKept ==
  ASSUME NEW s, NEW t, Keeps(s, t), NEW b, Buffered(s, b)
  PROVE  Buffered(t, b)
BY ContentsGrow DEF Buffered

LEMMA PasteIntoStep ==
  ASSUME NEW s \in AllSheets, NEW b, Buffered(s, b), NEW n, n <= Len(b),
         NEW cells, CellList(cells, n), DOMAIN cells = 1 .. n
  PROVE  LET t == PasteInto(s, b, cells)
         IN  PastedInto(s, b, n, cells, t)
<1> DEFINE seq == [i \in DOMAIN cells |-> i]
<1>1. seq = [i \in 1 .. n |-> i]
  OBVIOUS
<1>2. \A i \in 1 .. n : b[i] \in ContentsOf(s)
  BY DEF Buffered, CellList
<1>3. PasteInto(s, b, cells) = PutAll(s, seq, b, cells)
  BY DEF PasteInto, PutAll
<1> HIDE DEF seq
<1> QED BY <1>1, <1>2, <1>3, PutAllStep

LEMMA PasteStep ==
  ASSUME NEW s \in AllSheets, NEW b, Buffered(s, b), NEW across \in BOOLEAN, NEW r \in Ranges
  PROVE  /\ Follows(s, Paste(s, b, across, r))
         /\ ~Pastes(b, r) => Paste(s, b, across, r) = s
<1> DEFINE n == getSize(r)
           cells == getCells(r)
           m == IF Len(b) <= (IF across THEN Columns - r.from[2] + 1 ELSE Rows - r.from[1] + 1)
                THEN Len(b) ELSE IF across THEN Columns - r.from[2] + 1 ELSE Rows - r.from[1] + 1
           line == LineOf(r.from, Len(b), across)
           t == PasteInto(s, b, line)
           u == PasteInto(t, b, cells)
           v == PasteInto(s, b, cells)
<1>1. Len(b) \in Nat /\ (b # <<>> => Len(b) >= 1)
  BY DEF Buffered
<1>2. n \in Nat \ {0} /\ CellList(cells, n) /\ Once(cells, n) /\ DOMAIN cells = 1 .. n /\ r.from \in Cells
  BY RangeCells
<1>3. CellList(line, m) /\ DOMAIN line = 1 .. m
  BY <1>1, <1>2, LineCells
<1>4. m <= Len(b)
  <2>1. m \in Nat
    BY <1>3 DEF CellList
  <2> HIDE DEF line
  <2> QED BY <1>1, <2>1
<1>5. Paste(s, b, across, r) =
        CASE b = <<>> -> s
          [] b # <<>> /\ n = 1 -> u
          [] b # <<>> /\ n > 1 /\ n = Len(b) -> v
          [] OTHER -> s
  BY DEF Paste
<1> HIDE DEF n, cells, m, line
<1>6. Follows(s, t)
  BY <1>3, <1>4, PasteIntoStep DEF PastedInto
<1> HIDE DEF t
<1>7. ASSUME n = 1, b # <<>> PROVE Follows(s, u)
  <2>1. t \in AllSheets /\ Buffered(t, b) /\ n <= Len(b)
    BY <1>1, <1>6, <1>7, BufferedKept DEF Follows
  <2>2. Follows(t, u)
    BY <1>2, <2>1, PasteIntoStep DEF PastedInto
  <2> QED BY <1>6, <2>2, FollowsTransitive
<1>8. ASSUME n = Len(b) PROVE Follows(s, v)
  <2>1. n <= Len(b)
    BY <1>1, <1>8
  <2> QED BY <1>2, <2>1, PasteIntoStep DEF PastedInto
<1> HIDE DEF u, v
<1>9. Follows(s, Paste(s, b, across, r))
  BY <1>5, <1>7, <1>8, FollowsItself
<1>10. ASSUME ~Pastes(b, r) PROVE Paste(s, b, across, r) = s
  <2>1. b = <<>> \/ (n # 1 /\ n # Len(b))
    BY <1>10 DEF Pastes, n
  <2> QED BY <1>5, <2>1
<1> QED BY <1>9, <1>10
-----------------------------------------------------------------------------
(* Documents: a sheet and a cut buffer of independent copies.              *)

Independent(s, b) == \A id \in Held(s) : Object(id) \notin ToSet(b)
Document(s, b, across) == s \in AllSheets /\ Buffered(s, b) /\ Independent(s, b) /\ across \in BOOLEAN

LEMMA HeldObjects == \A s \in AllSheets : Held(s) \subseteq DOMAIN s.fn
BY AllSheetsParts, FunctionContents DEF Held, ContentsOf

LEMMA BufferedObjects ==
  ASSUME NEW s, NEW b, Buffered(s, b), NEW id, Object(id) \in ToSet(b)
  PROVE  id \in DOMAIN s.fn
<1>1. PICK j \in 1 .. Len(b) : b[j] = Object(id)
  BY DEF ToSet, Buffered
<1>2. Object(id) \in ContentsOf(s)
  BY <1>1 DEF Buffered
<1> QED BY <1>2, Kinds, FunctionContents DEF ContentsOf

\* The buffer stays independent of a sheet that holds no more objects of it.
LEMMA StaysIndependent ==
  ASSUME NEW s, NEW t, NEW b, NEW across, Document(s, b, across), Follows(s, t)
  PROVE  Document(t, b, across)
<1>1. Buffered(t, b)
  BY BufferedKept DEF Document, Follows
<1>2. Independent(t, b)
  BY BufferedObjects DEF Document, Follows, HoldsNoMore, Independent
<1> QED BY <1>1, <1>2 DEF Document, Follows

LEMMA CopiesIndependent ==
  ASSUME NEW s \in AllSheets, NEW t \in Bufferings(s), NEW across \in BOOLEAN
  PROVE  Document(t.sheet, t.buffer, across)
<1>1. /\ t.sheet \in AllSheets /\ t.sheet.content = s.content
      /\ \A j \in 1 .. Len(t.buffer) : /\ t.buffer[j] \in ContentsOf(t.sheet)
                                       /\ IsFunction(t.buffer[j]) => t.buffer[j].id \notin DOMAIN s.fn
      /\ t.buffer \in Seq(Contents(Ids))
  BY DEF Bufferings
<1>2. Buffered(t.sheet, t.buffer)
  <2> DEFINE b == t.buffer
             C == ContentsOf(t.sheet)
  <2>1. b \in Seq(Contents(Ids)) /\ \A j \in 1 .. Len(b) : b[j] \in C
    BY <1>1
  <2> HIDE DEF b, C
  <2>2. b \in Seq(C)
    BY <2>1
  <2> QED BY <2>2 DEF Buffered, b, C
<1>3. ASSUME NEW id \in Held(t.sheet), Object(id) \in ToSet(t.buffer) PROVE FALSE
  <2>1. id \in DOMAIN s.fn
    BY <1>1, HoldsTheSame, HeldObjects
  <2>2. PICK j \in 1 .. Len(t.buffer) : t.buffer[j] = Object(id)
    BY <1>1, <1>3 DEF ToSet
  <2> QED BY <1>1, <2>1, <2>2, Kinds
<1> QED BY <1>1, <1>2, <1>3 DEF Document, Independent

\* Collecting what nothing leads to leaves a document as it is shown.
LEMMA BecomesStep ==
  ASSUME NEW s, NEW b, NEW across, Document(s, b, across)
  PROVE  LET t == Collect(s, b)
         IN  /\ Document(t, b, across) /\ t.content = s.content
             /\ \A c \in Cells : Written(t, t.content[c]) = Written(s, s.content[c])
<1> DEFINE t == Collect(s, b)
<1>1. s \in AllSheets /\ b \in Seq(ContentsOf(s)) /\ across \in BOOLEAN /\ Independent(s, b)
  BY DEF Document, Buffered
<1>2. /\ t \in AllSheets /\ t.content = s.content /\ \A i \in DOMAIN t.fn : t.fn[i] = s.fn[i]
      /\ b \in Seq(ContentsOf(t))
  BY <1>1, CollectStep
<1> HIDE DEF t
<1>3. Document(t, b, across)
  BY <1>1, <1>2, HoldsTheSame DEF Document, Buffered, Independent
<1>4. ASSUME NEW c \in Cells PROVE Written(t, t.content[c]) = Written(s, s.content[c])
  <2>1. t.content[c] \in ContentsOf(t)
    BY <1>2, AllSheetsParts
  <2>2. IsFunction(t.content[c]) => t.fn[t.content[c].id] = s.fn[t.content[c].id]
    BY <1>2, <2>1, FunctionContents DEF ContentsOf
  <2> QED BY <1>2, <2>2 DEF Written
<1> QED BY <1>2, <1>3, <1>4 DEF t

\* What each command makes of a document.
LEMMA InsertDocument ==
  ASSUME NEW s, NEW b, NEW across, Document(s, b, across), NEW r \in Ranges, NEW entry \in Entries
  PROVE  Document(Insert(s, r, entry), b, across)
BY InsertStep, StaysIndependent DEF Document

LEMMA ParseDocument ==
  ASSUME NEW s, NEW b, NEW across, Document(s, b, across), NEW entry \in Entries
  PROVE  LET t == parseContent(s, entry).sheet
         IN  /\ Document(t, b, across) /\ t.content = s.content
             /\ \A c \in Cells : Written(t, t.content[c]) = Written(s, s.content[c])
<1> DEFINE t == parseContent(s, entry).sheet
<1>1. s \in AllSheets
  BY DEF Document
<1>2. t \in AllSheets /\ Keeps(s, t) /\ t.content = s.content
  BY <1>1, ParseStep DEF Adds
<1> HIDE DEF t
<1>3. Follows(s, t)
  BY <1>2, HoldsTheSame DEF Follows
<1>4. \A c \in Cells : Written(t, t.content[c]) = Written(s, s.content[c])
  BY <1>1, <1>2, WrittenKept, AllSheetsParts
<1> QED BY <1>2, <1>3, <1>4, StaysIndependent DEF t

LEMMA DeleteDocument ==
  ASSUME NEW s, NEW b, NEW across, Document(s, b, across), NEW r \in Ranges
  PROVE  Document(Delete(s, r), b, across)
BY DeleteStep, StaysIndependent DEF Document

LEMMA CopyDocument ==
  ASSUME NEW s \in AllSheets, NEW r \in Ranges, NEW across \in BOOLEAN
  PROVE  LET t == Copy(s, r)
         IN  /\ Document(t.sheet, t.buffer, across) /\ t.sheet.content = s.content
             /\ \A c \in Cells : Written(t.sheet, t.sheet.content[c]) = Written(s, s.content[c])
<1> DEFINE t == Copy(s, r)
<1>1. t \in Bufferings(s)
  BY CopyingStep
<1> HIDE DEF t
<1>2. Keeps(s, t.sheet) /\ t.sheet.content = s.content
  BY <1>1 DEF Bufferings
<1>3. \A c \in Cells : Written(t.sheet, t.sheet.content[c]) = Written(s, s.content[c])
  BY <1>2, WrittenKept, AllSheetsParts
<1> QED BY <1>1, <1>2, <1>3, CopiesIndependent DEF t

LEMMA CutDocument ==
  ASSUME NEW s \in AllSheets, NEW r \in Ranges, NEW across \in BOOLEAN
  PROVE  Document(Cut(s, r).sheet, Cut(s, r).buffer, across)
<1>1. Document(Copy(s, r).sheet, Copy(s, r).buffer, across)
  BY CopyDocument
<1>2. Copy(s, r) \in [sheet : AllSheets, buffer : Seq(Contents(Ids))]
  BY CopyingStep DEF Bufferings
<1>3. Cut(s, r).sheet = Delete(Copy(s, r).sheet, r) /\ Cut(s, r).buffer = Copy(s, r).buffer
  BY <1>2 DEF Cut
<1> QED BY <1>1, <1>3, DeleteDocument

LEMMA PasteDocument ==
  ASSUME NEW s, NEW b, NEW across, Document(s, b, across), NEW r \in Ranges
  PROVE  Document(Paste(s, b, across, r), b, across)
BY PasteStep, StaysIndependent DEF Document
-----------------------------------------------------------------------------
(* The invariant.                                                          *)

\* A file is missing, empty, or has a document.
Files ==
  /\ files = [n \in Names |-> files[n]]
  /\ \A n \in Names : \/ files[n] = <<>>
                      \/ /\ files[n] = <<files[n][1]>>
                         /\ Document(files[n][1].sheet, files[n][1].buffer, files[n][1].horizontal)

Documents ==
  /\ Document(sheet, buffer, horizontal) /\ changed \in BOOLEAN
  /\ filename \in Names \cup {NoName}
  /\ Files

\* What no question is asked about is in the file that has the name.
Saved ==
  ~changed =>
    \/ \A c \in Cells : sheet.content[c] = Empty
    \/ /\ filename \in Names /\ files[filename] # <<>>
       /\ \A c \in Cells : Written(files[filename][1].sheet, files[filename][1].sheet.content[c])
                           = Written(sheet, sheet.content[c])

\* The cells are shown as before.
WrittenAsBefore ==
  /\ \A c \in Cells : Written(sheet', sheet'.content[c]) = Written(sheet, sheet.content[c])
  /\ \A c \in Cells : sheet.content[c] = Empty => sheet'.content[c] = Empty

LEMMA NewDocument == Document(NewSheet, <<>>, FALSE)
<1>1. NewSheet \in Sheets({})
  <2>1. <<>> \in [{} -> Objects] /\ <<>> \in Seq({})
    OBVIOUS
  <2>2. Empty \in Contents({})
    BY Kinds
  <2> QED BY <2>1, <2>2 DEF NewSheet, Sheets
<1>2. {} \in SUBSET Ids /\ IsFiniteSet({})
  BY FS_EmptySet
<1>3. NewSheet \in AllSheets
  BY <1>1, <1>2, InAllSheets
<1>4. Buffered(NewSheet, <<>>)
  BY DEF Buffered
<1>5. Held(NewSheet) = {}
  BY Kinds DEF Held, NewSheet
<1> QED BY <1>3, <1>4, <1>5 DEF Document, Independent

LEMMA BecomesDocument ==
  ASSUME NEW s, NEW b, NEW across, Document(s, b, across), Becomes(s, b, across)
  PROVE  /\ Document(sheet', buffer', horizontal') /\ sheet'.content = s.content
         /\ \A c \in Cells : Written(sheet', sheet'.content[c]) = Written(s, s.content[c])
<1>1. sheet' = Collect(s, b) /\ buffer' = b /\ horizontal' = across
  BY DEF Becomes
<1> QED BY <1>1, BecomesStep

\* Every command of the menu Edit leaves a document, and one that does not
\* raise the flag shows the cells as before.
LEMMA EditStep ==
  ASSUME Document(sheet, buffer, horizontal), changed \in BOOLEAN, Edit
  PROVE  /\ Document(sheet', buffer', horizontal')
         /\ changed' \in BOOLEAN
         /\ ~changed' => ~changed /\ WrittenAsBefore
<1> DEFINE Done == /\ Document(sheet', buffer', horizontal')
                   /\ changed' \in BOOLEAN
                   /\ ~changed' => ~changed /\ WrittenAsBefore
<1>0. sheet \in AllSheets /\ Buffered(sheet, buffer) /\ horizontal \in BOOLEAN
  BY DEF Document
<1>1. ASSUME NEW r \in Ranges, NEW entry \in Entries, insertContentInRange(r, entry) PROVE Done
  <2>1. Becomes(Insert(sheet, r, entry), buffer, horizontal) /\ changed' = TRUE
    BY <1>1 DEF insertContentInRange
  <2> QED BY <2>1, InsertDocument, BecomesDocument
<1>2. ASSUME NEW entry \in Entries, InsertNowhere(entry) PROVE Done
  <2> DEFINE t == parseContent(sheet, entry).sheet
  <2>1. Becomes(t, buffer, horizontal) /\ changed' = changed
    BY <1>2 DEF InsertNowhere
  <2>2. /\ Document(t, buffer, horizontal) /\ t.content = sheet.content
        /\ \A c \in Cells : Written(t, t.content[c]) = Written(sheet, sheet.content[c])
    BY ParseDocument
  <2> HIDE DEF t
  <2>3. /\ Document(sheet', buffer', horizontal') /\ sheet'.content = t.content
        /\ \A c \in Cells : Written(sheet', sheet'.content[c]) = Written(t, t.content[c])
    BY <2>1, <2>2, BecomesDocument
  <2> QED BY <2>1, <2>2, <2>3 DEF WrittenAsBefore
<1>3. ASSUME NEW r \in Ranges, deleteContentInRange(r) PROVE Done
  <2>1. Becomes(Delete(sheet, r), buffer, horizontal) /\ changed' = TRUE
    BY <1>3 DEF deleteContentInRange
  <2> QED BY <2>1, DeleteDocument, BecomesDocument
<1>4. ASSUME NEW r \in Ranges, cutBufferCopy(r) PROVE Done
  <2> DEFINE t == Copy(sheet, r)
             across == getHorizontal(r)
  <2>1. Becomes(t.sheet, t.buffer, across) /\ changed' = changed
    BY <1>4 DEF cutBufferCopy
  <2>2. /\ Document(t.sheet, t.buffer, across) /\ t.sheet.content = sheet.content
        /\ \A c \in Cells : Written(t.sheet, t.sheet.content[c]) = Written(sheet, sheet.content[c])
    BY <1>0, RangeCells, CopyDocument
  <2> HIDE DEF t, across
  <2>3. /\ Document(sheet', buffer', horizontal') /\ sheet'.content = t.sheet.content
        /\ \A c \in Cells : Written(sheet', sheet'.content[c]) = Written(t.sheet, t.sheet.content[c])
    BY <2>1, <2>2, BecomesDocument
  <2> QED BY <2>1, <2>2, <2>3 DEF WrittenAsBefore
<1>5. ASSUME NEW r \in Ranges, cutBufferCut(r) PROVE Done
  <2>1. Becomes(Cut(sheet, r).sheet, Cut(sheet, r).buffer, getHorizontal(r)) /\ changed' = TRUE
    BY <1>5 DEF cutBufferCut
  <2>2. Document(Cut(sheet, r).sheet, Cut(sheet, r).buffer, getHorizontal(r))
    BY <1>0, RangeCells, CutDocument
  <2> QED BY <2>1, <2>2, BecomesDocument
<1>6. ASSUME NEW r \in Ranges, cutBufferPaste(r) PROVE Done
  <2> DEFINE t == Paste(sheet, buffer, horizontal, r)
  <2>1. Becomes(t, buffer, horizontal) /\ changed' = (changed \/ Pastes(buffer, r))
    BY <1>6 DEF cutBufferPaste
  <2>2. Document(t, buffer, horizontal)
    BY PasteDocument
  <2>3. ~Pastes(buffer, r) => t = sheet
    BY <1>0, PasteStep
  <2> HIDE DEF t
  <2>4. /\ Document(sheet', buffer', horizontal') /\ sheet'.content = t.content
        /\ \A c \in Cells : Written(sheet', sheet'.content[c]) = Written(t, t.content[c])
    BY <2>1, <2>2, BecomesDocument
  <2>5. Pastes(buffer, r) \in BOOLEAN
    BY DEF Pastes
  <2>6. ASSUME ~changed' PROVE ~changed /\ WrittenAsBefore
    BY <2>1, <2>3, <2>4, <2>6 DEF WrittenAsBefore
  <2> QED BY <2>1, <2>4, <2>5, <2>6
<1> HIDE DEF Done
<1>7. Done
  BY <1>1, <1>2, <1>3, <1>4, <1>5, <1>6 DEF Edit
<1> QED BY <1>7 DEF Done
LEMMA InitDocuments == Init => Documents /\ Saved
<1> SUFFICES ASSUME Init PROVE Documents /\ Saved
  OBVIOUS
<1>1. /\ sheet = NewSheet /\ buffer = <<>> /\ horizontal = FALSE /\ changed = FALSE
      /\ filename = NoName /\ files = [n \in Names |-> <<>>]
  BY DEF Init
<1>2. Document(sheet, buffer, horizontal)
  BY <1>1, NewDocument
<1>3. Files
  BY <1>1 DEF Files
<1>4. \A c \in Cells : sheet.content[c] = Empty
  BY <1>1 DEF NewSheet
<1> QED BY <1>1, <1>2, <1>3, <1>4 DEF Documents, Saved

\* The file that save writes, or leaves empty.
LEMMA SaveToStep ==
  ASSUME Documents, NEW n \in Names, SaveTo(n)
  PROVE  Files' /\ changed' \in BOOLEAN
<1>1. /\ files' \in {files, [files EXCEPT ![n] = <<Image>>], [files EXCEPT ![n] = <<>>]}
      /\ changed' \in BOOLEAN
  BY DEF SaveTo, Documents
<1>2. Files /\ Document(Image.sheet, Image.buffer, Image.horizontal)
  BY DEF Documents, Image
<1>3. ASSUME files' = files PROVE Files'
  BY <1>2, <1>3 DEF Files
<1>4. ASSUME NEW f, f = <<>> \/ f = <<Image>>, files' = [files EXCEPT ![n] = f] PROVE Files'
  <2>1. files' = [m \in Names |-> IF m = n THEN f ELSE files[m]]
    BY <1>2, <1>4 DEF Files
  <2>2. files' = [m \in Names |-> files'[m]]
    BY <2>1
  <2>3. ASSUME NEW m \in Names
        PROVE  \/ files'[m] = <<>>
               \/ /\ files'[m] = <<files'[m][1]>>
                  /\ Document(files'[m][1].sheet, files'[m][1].buffer, files'[m][1].horizontal)
    <3>1. CASE m = n
      <4>1. files'[m] = f
        BY <2>1, <3>1
      <4> HIDE DEF Image
      <4>2. CASE f = <<Image>>
        <5>1. files'[m] = <<Image>> /\ files'[m][1] = Image
          BY <4>1, <4>2
        <5> QED BY <1>2, <5>1
      <4> QED BY <1>4, <4>1, <4>2
    <3>2. CASE m # n
      <4>1. files'[m] = files[m]
        BY <2>1, <3>2
      <4> QED BY <1>2, <4>1 DEF Files
    <3> QED BY <3>1, <3>2
  <2> QED BY <2>2, <2>3 DEF Files
<1>5. Files'
  BY <1>1, <1>3, <1>4
<1> QED BY <1>1, <1>5

\* After a save that leaves the flag down the file has the cells, if it had not before.
LEMMA SaveToSaves ==
  ASSUME Documents, NEW n \in Names, SaveTo(n), changed, ~changed', UNCHANGED sheet
  PROVE  files'[n] # <<>> /\ files'[n][1].sheet = sheet'
<1>1. files' = [files EXCEPT ![n] = <<Image>>]
  BY DEF SaveTo
<1>2. files'[n] = <<Image>>
  BY <1>1 DEF Documents, Files
<1> QED BY <1>2 DEF Image

LEMMA NextDocuments == Documents /\ Saved /\ [Next]_calculatorVars => Documents' /\ Saved'
<1> SUFFICES ASSUME Documents, Saved, [Next]_calculatorVars PROVE Documents' /\ Saved'
  OBVIOUS
<1>0. /\ Document(sheet, buffer, horizontal) /\ changed \in BOOLEAN
      /\ filename \in Names \cup {NoName} /\ Files
  BY DEF Documents
<1>1. CASE Edit /\ UNCHANGED <<filename, files>>
  <2>1. /\ Document(sheet', buffer', horizontal') /\ changed' \in BOOLEAN
        /\ ~changed' => ~changed /\ WrittenAsBefore
    BY <1>0, <1>1, EditStep
  <2>2. filename' = filename /\ files' = files
    BY <1>1
  <2>3. Documents'
    BY <1>0, <2>1, <2>2 DEF Documents, Files
  <2>4. Saved'
    BY <2>1, <2>2 DEF Saved, WrittenAsBefore
  <2> QED BY <2>3, <2>4
<1>2. CASE Save
  <2>1. sheet' = sheet /\ buffer' = buffer /\ horizontal' = horizontal
    BY <1>2 DEF Save
  <2>2. PICK n \in Names : SaveTo(n) /\ filename' = n /\ (filename = NoName \/ n = filename)
    BY <1>0, <1>2 DEF Save
  <2>3. Files' /\ changed' \in BOOLEAN
    BY <2>2, SaveToStep
  <2>4. Documents'
    BY <1>0, <2>1, <2>2, <2>3 DEF Documents
  <2>5. ASSUME changed, ~changed' PROVE Saved'
    <3>1. files'[n] # <<>> /\ files'[n][1].sheet = sheet'
      BY <2>1, <2>2, <2>5, SaveToSaves
    <3> QED BY <2>2, <3>1 DEF Saved
  <2>6. ASSUME ~changed PROVE Saved'
    <3>1. files' = files /\ ~changed'
      BY <2>2, <2>6 DEF SaveTo
    <3>2. ASSUME filename = NoName PROVE Saved'
      <4>1. \A c \in Cells : sheet.content[c] = Empty
        BY <2>6, <3>2, CalculatorAssumption DEF Saved
      <4> QED BY <2>1, <4>1 DEF Saved
    <3>3. ASSUME filename' = filename PROVE Saved'
      BY <2>1, <2>6, <3>1, <3>3 DEF Saved
    <3> QED BY <2>2, <3>2, <3>3
  <2>7. ASSUME changed' PROVE Saved'
    BY <2>7 DEF Saved
  <2> QED BY <1>0, <2>4, <2>5, <2>6, <2>7
<1>3. CASE DoNew
  <2>1. /\ sheet' = NewSheet /\ buffer' = <<>> /\ horizontal' = FALSE /\ changed' = FALSE
        /\ filename' = filename /\ files' = files
    BY <1>3 DEF DoNew
  <2>2. Document(sheet', buffer', horizontal')
    BY <2>1, NewDocument
  <2>3. Documents'
    BY <1>0, <2>1, <2>2 DEF Documents, Files
  <2>4. Saved'
    BY <2>1 DEF Saved, NewSheet
  <2> QED BY <2>3, <2>4
<1>4. ASSUME NEW n \in Names, DoOpen(n) PROVE Documents' /\ Saved'
  <2>1. /\ files[n] # <<>> /\ changed' = TRUE /\ filename' = n /\ files' = files
        /\ sheet' = files[n][1].sheet /\ buffer' = files[n][1].buffer /\ horizontal' = files[n][1].horizontal
    BY <1>4 DEF DoOpen
  <2>2. Document(sheet', buffer', horizontal')
    BY <1>0, <2>1 DEF Files
  <2> QED BY <1>0, <2>1, <2>2 DEF Documents, Files, Saved
<1>5. CASE UNCHANGED calculatorVars
  BY <1>0, <1>5 DEF Documents, Files, Saved, calculatorVars, sheetVars
<1> QED BY <1>1, <1>2, <1>3, <1>4, <1>5 DEF Next

LEMMA DocumentsAlways == Spec => [](Documents /\ Saved)
BY InitDocuments, NextDocuments, PTL DEF Spec

-----------------------------------------------------------------------------
(* The theorems.                                                           *)

\* Type correctness: the sheet, the buffer and every file are documents, whose
\* contents, lists of observers and buffers name only objects that are there
\* (Spreadsheet, CutBuffer, Calculator.save and load).
THEOREM TypeCorrect == Spec => []Documents
BY DocumentsAlways, PTL

\* Of a function that is in a cell the cut buffer has no part, whatever was cut,
\* pasted, saved and loaded (Spreadsheet.copyRangeToCutBuffer, pasteSameSize).
THEOREM BufferIndependence == Spec => []BufferIndependent
<1>1. Documents => BufferIndependent
  BY DEF Documents, Document, Independent, BufferIndependent
<1> QED BY <1>1, DocumentsAlways, PTL

\* A sheet that goes without a question is empty or as its file has it
\* (Calculator.save, DoNew, DoOpen).
THEOREM NothingUnsavedGoes == Spec => []UnchangedIsSaved
<1>1. Saved => UnchangedIsSaved
  BY DEF Saved, UnchangedIsSaved
<1> QED BY <1>1, DocumentsAlways, PTL

-----------------------------------------------------------------------------
(* Functions on literals.  The observers of a cell compute when it changes *)
(* so that a function that is registered with its cells is up to date.     *)

Registered(s, i) == \A c \in Observed(s.fn[i]) : Contains(s.observers[c], i)
UpToDate(s, i)   == OnLiterals(s, i) => s.fn[i].value = compute(s, s.fn[i])

\* An object that is registered with all it observes is up to date.
RegisteredCurrent(s) == \A i \in DOMAIN s.fn : Registered(s, i) => UpToDate(s, i)

\* Of an object, other than those of X, that is not shared: c is its only cell.
OwnAt(s, c, X) ==
  LET i == s.content[c].id
  IN  i \notin X /\ ~s.fn[i].shared => Registered(s, i) /\ \A d \in Cells : s.content[d] = s.content[c] => d = c
OwnersRegistered(s, X) == \A c \in Cells : IsFunction(s.content[c]) => OwnAt(s, c, X)

\* What is current, but for who has the objects X.
CurrentBut(s, X) == RegisteredCurrent(s) /\ OwnersRegistered(s, X)
Current(s)       == CurrentBut(s, {})

LEMMA ObservedCells ==
  ASSUME NEW f \in Objects
  PROVE  /\ Observed(f) \subseteq Cells
         /\ \A i \in DOMAIN f.args : IsReference(f.args[i]) =>
              f.args[i].cell \in Observed(f) /\ f.args[i] = Reference(f.args[i].cell)
<1>1. \A i \in DOMAIN f.args : f.args[i] \in Terms
  BY DEF Objects
<1>2. \A x \in Terms : IsReference(x) => x.cell \in Cells /\ x = Reference(x.cell)
  BY Kinds DEF Plain
<1> QED BY <1>1, <1>2 DEF Observed

\* What a function computes from the values of its arguments.
Computed(f, values) ==
  IF \A i \in DOMAIN values : values[i].kind = "integer"
  THEN Number(CombineAll(IF f.name = "ADD" THEN 0 ELSE 1, values, f.name)) ELSE Error
ValuesOf(s, f) == [i \in DOMAIN f.args |-> Value(s, f.args[i])]

LEMMA ComputeIs == \A s, f : compute(s, f) = Computed(f, ValuesOf(s, f))
BY DEF compute, Computed, ValuesOf, CombineAll, Combine

LEMMA ComputedByName == \A f, g, values : f.name = g.name => Computed(f, values) = Computed(g, values)
BY DEF Computed

\* s and t have the same literals where f observes.
SameLiterals(s, t, f) == \A c \in Observed(f) : LiteralAt(s, c) /\ t.content[c] = s.content[c]

\* A literal has its value whatever else the sheet has.
LEMMA ComputeAgrees ==
  ASSUME NEW D, NEW s \in Sheets(D), NEW E, NEW t \in Sheets(E), NEW f \in Objects, NEW g \in Objects,
         f.name = g.name, f.args = g.args, SameLiterals(s, t, f)
  PROVE  compute(s, f) = compute(t, g)
<1>1. ASSUME NEW i \in DOMAIN f.args PROVE Value(s, f.args[i]) = Value(t, f.args[i])
  <2>1. CASE IsReference(f.args[i])
    <3> DEFINE c == f.args[i].cell
    <3>1. c \in Cells /\ c \in Observed(f) /\ f.args[i] = Reference(c)
      BY <2>1, ObservedCells
    <3> HIDE DEF c
    <3>2. LiteralAt(s, c) /\ LiteralAt(t, c) /\ t.content[c] = s.content[c]
      BY <3>1 DEF LiteralAt, SameLiterals
    <3>3. Value(s, Reference(c)) = s.content[c]
      BY <3>1, <3>2, ValueThere DEF LiteralAt, Own
    <3>4. Value(t, Reference(c)) = t.content[c]
      BY <3>1, <3>2, ValueThere DEF LiteralAt, Own
    <3> QED BY <3>1, <3>2, <3>3, <3>4
  <2>2. CASE ~IsReference(f.args[i])
    <3>1. ~IsFunction(f.args[i])
      BY Kinds DEF Objects, Plain
    <3> QED BY <2>2, <3>1 DEF Value, Own
  <2> QED BY <2>1, <2>2
<1>2. ValuesOf(s, f) = ValuesOf(t, g)
  BY <1>1 DEF ValuesOf
<1> QED BY <1>2, ComputeIs, ComputedByName

\* An update keeps what is up to date so, and brings its object up to date.
LEMMA UpdateCurrent ==
  ASSUME NEW D, NEW s \in Sheets(D), NEW id \in D
  PROVE  LET t == update(s, id)
         IN  /\ UpToDate(t, id)
             /\ \A i \in D : UpToDate(s, i) => UpToDate(t, i)
             /\ \A i \in D : Registered(t, i) <=> Registered(s, i)
             /\ \A i \in D : Observed(t.fn[i]) = Observed(s.fn[i])
<1> DEFINE t == update(s, id)
<1>1. t \in Sheets(D) /\ Keeps(s, t) /\ t.content = s.content /\ t.observers = s.observers
  BY UpdateStep
<1>2. t.fn = [s.fn EXCEPT ![id] = [@ EXCEPT !.value = compute(s, s.fn[id])]]
  BY UpdateValue
<1> HIDE DEF t
<1>3. s.fn \in [D -> Objects] /\ t.fn \in [D -> Objects]
  BY <1>1, SheetParts
<1>4. t.fn[id].value = compute(s, s.fn[id]) /\ \A i \in D : i # id => t.fn[i] = s.fn[i]
  BY <1>2, <1>3 DEF Objects
<1>5. \A i \in D : t.fn[i].name = s.fn[i].name /\ t.fn[i].args = s.fn[i].args
  BY <1>1, <1>3 DEF Keeps
<1>6. \A i \in D : Observed(t.fn[i]) = Observed(s.fn[i])
  BY <1>5 DEF Observed
<1>7. \A i \in D : OnLiterals(t, i) <=> OnLiterals(s, i)
  BY <1>1, <1>6 DEF OnLiterals, LiteralAt
<1>8. ASSUME NEW i \in D, OnLiterals(t, i) PROVE compute(t, t.fn[i]) = compute(s, s.fn[i])
  <2>1. SameLiterals(t, s, t.fn[i])
    BY <1>1, <1>8 DEF OnLiterals, SameLiterals
  <2>2. t.fn[i] \in Objects /\ s.fn[i] \in Objects
    BY <1>3
  <2> QED BY <1>1, <1>5, <2>1, <2>2, ComputeAgrees
<1>9. UpToDate(t, id)
  BY <1>4, <1>8 DEF UpToDate
<1>10. ASSUME NEW i \in D, UpToDate(s, i) PROVE UpToDate(t, i)
  BY <1>4, <1>7, <1>8, <1>9, <1>10 DEF UpToDate
<1>11. \A i \in D : Registered(t, i) <=> Registered(s, i)
  BY <1>1, <1>6 DEF Registered
<1> QED BY <1>6, <1>9, <1>10, <1>11 DEF t
\* A cell tells its observers, and all of them are up to date then.
LEMMA NotifyCurrent ==
  ASSUME NEW D, NEW s \in Sheets(D), NEW c \in Cells
  PROVE  LET t == notifyCellObserver(s, c)
         IN  /\ \A i \in D : UpToDate(s, i) => UpToDate(t, i)
             /\ \A i \in D : Contains(s.observers[c], i) => UpToDate(t, i)
             /\ \A i \in D : Registered(t, i) <=> Registered(s, i)
<1> DEFINE S == {t \in Sheets(D) : \A i \in D : /\ UpToDate(s, i) => UpToDate(t, i)
                                                /\ Registered(t, i) <=> Registered(s, i)}
           q == s.observers[c]
           n == Len(q)
<1>1. q \in Seq(D) /\ n \in Nat
  BY SheetParts
<1>2. Listed(q, n) /\ \A i \in 1 .. n : q[i] \in D
  BY <1>1 DEF Listed
<1>3. s \in S
  OBVIOUS
<1>4. ASSUME NEW t \in S, NEW k \in D
      PROVE  /\ update(t, k) \in S /\ UpToDate(update(t, k), k)
             /\ \A i \in D : UpToDate(t, i) => UpToDate(update(t, k), i)
  <2> DEFINE u == update(t, k)
  <2>1. t \in Sheets(D) /\ \A i \in D : /\ UpToDate(s, i) => UpToDate(t, i)
                                        /\ Registered(t, i) <=> Registered(s, i)
    OBVIOUS
  <2>2. u \in Sheets(D)
    BY <2>1, UpdateStep
  <2>3. /\ UpToDate(u, k)
        /\ \A i \in D : UpToDate(t, i) => UpToDate(u, i)
        /\ \A i \in D : Registered(u, i) <=> Registered(t, i)
    BY <2>1, UpdateCurrent
  <2> HIDE DEF u
  <2>4. u \in S
    BY <2>1, <2>2, <2>3
  <2> QED BY <2>3, <2>4 DEF u
<1> HIDE DEF q, n, S
<1>5. \A i \in 1 .. n, t \in S : update(t, q[i]) \in S
  BY <1>2, <1>4
<1>6. PICK p : UpdatePath(p, n, S, s, q)
  BY <1>1, <1>2, <1>3, <1>5, UpdateFold
<1> DEFINE I == {k \in 0 .. n : \A j \in 1 .. k : UpToDate(p[k], q[j])}
<1>7. 0 \in I
  BY <1>1
<1>8. ASSUME NEW k \in 1 .. n, k - 1 \in I PROVE k \in I
  <2>1. k - 1 \in 0 .. n /\ k \in 0 .. n /\ 1 .. k = (1 .. k - 1) \cup {k} /\ 1 .. k \subseteq 1 .. n
    BY <1>1
  <2>2. p[k] = update(p[k - 1], q[k]) /\ p[k - 1] \in S
    BY <1>6, <2>1 DEF UpdatePath
  <2>3. /\ UpToDate(p[k], q[k])
        /\ \A i \in D : UpToDate(p[k - 1], i) => UpToDate(p[k], i)
    BY <1>2, <1>4, <2>1, <2>2
  <2>4. \A j \in 1 .. k : UpToDate(p[k], q[j])
    BY <1>2, <1>8, <2>1, <2>3
  <2> QED BY <2>1, <2>4
<1>9. n \in I
  <2>1. I \in SUBSET (0 .. n)
    OBVIOUS
  <2> HIDE DEF I
  <2>2. \A k \in 0 .. n : k \in I
    BY <1>1, <1>7, <1>8, <2>1, UpFromZero
  <2> QED BY <1>1, <2>2
<1>10. p[n] \in S /\ p[n] = UpdateAll(s, q)
  <2>1. n \in 0 .. n
    BY <1>1
  <2> QED BY <1>6, <2>1 DEF UpdatePath
<1>11. notifyCellObserver(s, c) = p[n]
  BY <1>10 DEF notifyCellObserver, UpdateAll, q
<1>12. ASSUME NEW i \in D, Contains(q, i) PROVE UpToDate(p[n], i)
  BY <1>9, <1>12 DEF Contains, n
<1> QED BY <1>10, <1>11, <1>12 DEF S, q

LEMMA StoreCurrent ==
  ASSUME NEW D, NEW s \in Sheets(D), NEW c \in Cells, NEW x \in Contents(D)
  PROVE  LET t == Store(s, c, x)
         IN  /\ RegisteredCurrent(s) => RegisteredCurrent(t)
             /\ \A i \in D : Registered(t, i) <=> Registered(s, i)
<1> DEFINE t == notifyCellObserver(s, c)
           u == [t EXCEPT !.content[c] = x]
           v == notifyCellObserver(u, c)
<1>1. t \in Sheets(D)
  BY NotifyStep
<1>2. /\ \A i \in D : UpToDate(s, i) => UpToDate(t, i)
      /\ \A i \in D : Registered(t, i) <=> Registered(s, i)
  BY NotifyCurrent
<1> HIDE DEF t
<1>3. u \in Sheets(D) /\ u.content = [t.content EXCEPT ![c] = x] /\ u.observers = t.observers /\ u.fn = t.fn
  BY <1>1 DEF Sheets
<1> HIDE DEF u
<1>4. \A i \in D : Registered(u, i) <=> Registered(t, i)
  BY <1>3 DEF Registered
<1>5. v \in Sheets(D) /\ Keeps(u, v)
  BY <1>3, NotifyStep
<1>6. /\ \A i \in D : UpToDate(u, i) => UpToDate(v, i)
      /\ \A i \in D : Contains(u.observers[c], i) => UpToDate(v, i)
      /\ \A i \in D : Registered(v, i) <=> Registered(u, i)
  BY <1>3, NotifyCurrent
<1> HIDE DEF v
<1>7. v = Store(s, c, x)
  BY DEF Store, t, u, v
<1>8. DOMAIN s.fn = D /\ DOMAIN v.fn = D /\ t.fn \in [D -> Objects] /\ t.content \in [Cells -> Contents(D)]
  BY <1>1, <1>5, SheetParts
<1>9. ASSUME NEW i \in D, UpToDate(t, i), c \notin Observed(t.fn[i]) PROVE UpToDate(u, i)
  <2>1. t.fn[i] \in Objects /\ u.fn[i] = t.fn[i] /\ Observed(t.fn[i]) \subseteq Cells
    BY <1>3, <1>8, ObservedCells
  <2>2. \A d \in Observed(t.fn[i]) : u.content[d] = t.content[d]
    BY <1>3, <1>8, <1>9, <2>1
  <2>3. ASSUME OnLiterals(u, i) PROVE OnLiterals(t, i) /\ compute(t, t.fn[i]) = compute(u, u.fn[i])
    <3>1. SameLiterals(t, u, t.fn[i])
      BY <2>1, <2>2, <2>3 DEF OnLiterals, LiteralAt, SameLiterals
    <3>2. compute(t, t.fn[i]) = compute(u, t.fn[i])
      BY <1>1, <1>3, <2>1, <3>1, ComputeAgrees
    <3> QED BY <2>1, <3>1, <3>2 DEF OnLiterals, SameLiterals
  <2> QED BY <1>9, <2>1, <2>3 DEF UpToDate
<1>10. ASSUME RegisteredCurrent(s), NEW i \in D, Registered(v, i) PROVE UpToDate(v, i)
  <2>1. Registered(u, i) /\ Registered(t, i) /\ Registered(s, i)
    BY <1>2, <1>4, <1>6, <1>10
  <2>2. CASE c \in Observed(t.fn[i])
    <3>1. Contains(u.observers[c], i)
      BY <1>3, <2>1, <2>2 DEF Registered
    <3> QED BY <1>6, <3>1
  <2>3. CASE c \notin Observed(t.fn[i])
    <3>1. UpToDate(t, i)
      BY <1>2, <1>8, <1>10, <2>1 DEF RegisteredCurrent
    <3> QED BY <1>6, <1>9, <2>3, <3>1
  <2> QED BY <2>2, <2>3
<1>11. RegisteredCurrent(s) => RegisteredCurrent(v)
  BY <1>8, <1>10 DEF RegisteredCurrent
<1> QED BY <1>2, <1>4, <1>6, <1>7, <1>11

\* A function that leaves its cells leaves the other observers there.
LEMMA LeaveAllCurrent ==
  ASSUME NEW D, NEW s \in Sheets(D), NEW args \in Seq(Terms), NEW id
  PROVE  LET t == LeaveAll(s, args, id)
         IN  \A c \in Cells : \A i : /\ Contains(t.observers[c], i) => Contains(s.observers[c], i)
                                     /\ i # id /\ Contains(s.observers[c], i) => Contains(t.observers[c], i)
<1> DEFINE Left(a, b) ==
             \A c \in Cells : \A i : /\ Contains(b.observers[c], i) => Contains(a.observers[c], i)
                                     /\ i # id /\ Contains(a.observers[c], i) => Contains(b.observers[c], i)
           S == {t \in Sheets(D) : Left(s, t)}
           n == Len(args)
<1>1. n \in Nat /\ Listed(args, n) /\ \A i \in 1 .. n : args[i] \in Terms
  BY DEF Listed
<1> HIDE DEF n
<1>2. ASSUME NEW x \in Terms, NEW t \in S PROVE Leave(t, x, id) \in S
  <2> DEFINE u == Leave(t, x, id)
  <2>1. t \in Sheets(D) /\ Left(s, t)
    OBVIOUS
  <2> HIDE DEF Left
  <2>2. u \in Sheets(D)
    BY <2>1, LeaveStep
  <2>3. Left(t, u)
    <3>1. CASE IsReference(x)
      <4>1. x.cell \in Cells /\ t.observers \in [Cells -> Seq(D)]
        BY <2>1, <3>1, Kinds, SheetParts DEF Plain
      <4>2. u.observers = [t.observers EXCEPT ![x.cell] = RemoveFirst(@, id)]
        BY <2>1, <3>1 DEF Leave, Sheets
      <4> HIDE DEF u
      <4>3. ASSUME NEW c \in Cells, NEW i
            PROVE  /\ Contains(u.observers[c], i) => Contains(t.observers[c], i)
                   /\ i # id /\ Contains(t.observers[c], i) => Contains(u.observers[c], i)
        <5>1. CASE c = x.cell
          <6> DEFINE q == t.observers[c]
          <6>1. q \in Seq(D) /\ u.observers[c] = RemoveFirst(q, id)
            BY <4>1, <4>2, <5>1
          <6> HIDE DEF q
          <6>2. /\ i # id /\ Contains(q, i) => Contains(RemoveFirst(q, id), i)
                /\ Contains(RemoveFirst(q, id), i) => Contains(q, i)
            BY <6>1, RemoveFirstType
          <6> QED BY <6>1, <6>2 DEF q
        <5>2. CASE c # x.cell
          BY <4>1, <4>2, <5>2
        <5> QED BY <5>1, <5>2
      <4> QED BY <4>3 DEF Left
    <3>2. CASE ~IsReference(x)
      BY <3>2 DEF Leave, Left
    <3> QED BY <3>1, <3>2
  <2> HIDE DEF u
  <2>4. Left(s, u)
    BY <2>1, <2>3 DEF Left
  <2> QED BY <2>2, <2>4 DEF u
<1>3. s \in S
  OBVIOUS
<1> HIDE DEF S
<1>4. \A i \in 1 .. n, t \in S : Leave(t, args[i], id) \in S
  BY <1>1, <1>2
<1>5. PICK p : LeavePath(p, n, S, s, args, id)
  BY <1>1, <1>3, <1>4, LeaveFold
<1>6. n \in 0 .. n
  BY <1>1
<1>7. LeaveAll(s, args, id) \in S
  BY <1>5, <1>6 DEF LeavePath
<1> QED BY <1>7 DEF S

\* An object is the same in s and t, and in the lists of the same observers.
SameObject(s, t, i)  == t.fn[i].name = s.fn[i].name /\ t.fn[i].args = s.fn[i].args /\ t.fn[i].value = s.fn[i].value
SameWatches(s, t, i) == \A c \in Cells : Contains(t.observers[c], i) <=> Contains(s.observers[c], i)

LEMMA SameCurrent ==
  ASSUME NEW D, NEW s \in Sheets(D), NEW E, NEW t \in Sheets(E), NEW i, i \in D, i \in E,
         SameObject(s, t, i), t.content = s.content
  PROVE  /\ UpToDate(t, i) <=> UpToDate(s, i)
         /\ Observed(t.fn[i]) = Observed(s.fn[i]) /\ Observed(s.fn[i]) \subseteq Cells
         /\ SameWatches(s, t, i) => (Registered(t, i) <=> Registered(s, i))
<1>1. s.fn[i] \in Objects /\ t.fn[i] \in Objects
  BY SheetParts
<1>2. Observed(t.fn[i]) = Observed(s.fn[i])
  BY DEF Observed, SameObject
<1>3. OnLiterals(t, i) <=> OnLiterals(s, i)
  BY <1>2 DEF OnLiterals, LiteralAt
<1>4. ASSUME OnLiterals(s, i) PROVE compute(s, s.fn[i]) = compute(t, t.fn[i])
  <2>1. SameLiterals(s, t, s.fn[i])
    BY <1>4 DEF OnLiterals, SameLiterals
  <2>2. s.fn[i].name = t.fn[i].name /\ s.fn[i].args = t.fn[i].args
    BY DEF SameObject
  <2> QED BY <1>1, <2>1, <2>2, ComputeAgrees
<1>5. UpToDate(t, i) <=> UpToDate(s, i)
  BY <1>3, <1>4 DEF UpToDate, SameObject
<1>6. Observed(s.fn[i]) \subseteq Cells
  BY <1>1, ObservedCells
<1> QED BY <1>2, <1>5, <1>6 DEF Registered, SameWatches

\* Cells, objects and what they watch are as before; new objects are up to date.
StaysAt(s, t, i) == SameObject(s, t, i) /\ SameWatches(s, t, i) /\ (s.fn[i].shared => t.fn[i].shared)
Stays(s, t) ==
  /\ t.content = s.content
  /\ \A i \in DOMAIN s.fn \cap DOMAIN t.fn : StaysAt(s, t, i)
  /\ \A i \in DOMAIN t.fn \ DOMAIN s.fn : UpToDate(t, i)

\* What was current is so then.
LEMMA CurrentStays ==
  ASSUME NEW D, NEW s \in Sheets(D), NEW E, NEW t \in Sheets(E), NEW X, CurrentBut(s, X),
         Stays(s, t)
  PROVE  CurrentBut(t, X)
<1>0. /\ t.content = s.content
      /\ \A i \in D \cap E : SameObject(s, t, i) /\ SameWatches(s, t, i) /\ (s.fn[i].shared => t.fn[i].shared)
      /\ \A i \in E \ D : UpToDate(t, i)
  BY SheetParts DEF Stays, StaysAt
<1>1. \A i \in D \cap E : (UpToDate(t, i) <=> UpToDate(s, i)) /\ (Registered(t, i) <=> Registered(s, i))
  BY <1>0, SameCurrent
<1>2. DOMAIN s.fn = D /\ DOMAIN t.fn = E /\ s.content \in [Cells -> Contents(D)] /\ t.content \in [Cells -> Contents(E)]
  BY SheetParts
<1>3. RegisteredCurrent(t)
  <2>1. ASSUME NEW i \in E, Registered(t, i) PROVE UpToDate(t, i)
    <3>1. CASE i \in D
      BY <1>1, <1>2, <2>1, <3>1 DEF CurrentBut, RegisteredCurrent
    <3>2. CASE i \notin D
      BY <1>0, <3>2
    <3> QED BY <3>1, <3>2
  <2> QED BY <1>2, <2>1 DEF RegisteredCurrent
<1>4. ASSUME NEW c \in Cells, IsFunction(t.content[c]) PROVE OwnAt(t, c, X)
  <2> DEFINE i == t.content[c].id
  <2>1. i \in D \cap E /\ s.content[c] = t.content[c]
    BY <1>0, <1>2, <1>4, FunctionContents
  <2>2. OwnAt(s, c, X)
    BY <1>4, <2>1 DEF CurrentBut, OwnersRegistered
  <2>3. /\ i \notin X /\ ~s.fn[i].shared => Registered(s, i)
        /\ i \notin X /\ ~s.fn[i].shared => \A d \in Cells : s.content[d] = s.content[c] => d = c
    BY <2>1, <2>2 DEF OwnAt
  <2>4. (Registered(t, i) <=> Registered(s, i)) /\ (s.fn[i].shared => t.fn[i].shared)
    BY <1>0, <1>1, <2>1
  <2> HIDE DEF i
  <2>5. i \notin X /\ ~t.fn[i].shared => Registered(t, i) /\ \A d \in Cells : t.content[d] = t.content[c] => d = c
    BY <1>0, <2>3, <2>4
  <2> QED BY <2>5 DEF OwnAt, i
<1> QED BY <1>3, <1>4 DEF CurrentBut, OwnersRegistered

\* The function in a cell leaves the cells it observes before another content comes.
LEMMA LeftCurrent ==
  ASSUME NEW D, NEW s \in Sheets(D), NEW c \in Cells, RegisteredCurrent(s)
  PROVE  LET t == IF IsFunction(s.content[c]) THEN unsubscribe(s, s.content[c].id) ELSE s
         IN  /\ t \in Sheets(D) /\ t.content = s.content /\ t.fn = s.fn
             /\ RegisteredCurrent(t)
             /\ \A i \in D : s.content[c] # Object(i) /\ Registered(s, i) => Registered(t, i)
<1>1. CASE IsFunction(s.content[c])
  <2> DEFINE id == s.content[c].id
             args == s.fn[id].args
             t == LeaveAll(s, args, id)
  <2>1. id \in D /\ s.content[c] = Object(id)
    BY <1>1, SheetParts, FunctionContents
  <2>2. args \in Seq(Terms)
    BY <2>1, SheetParts DEF Objects
  <2>3. unsubscribe(s, id) = t
    BY DEF unsubscribe, LeaveAll
  <2> HIDE DEF args, id
  <2>4. t \in Sheets(D) /\ t.content = s.content /\ t.fn = s.fn
    BY <2>2, LeaveAllStep
  <2>5. \A d \in Cells : \A i : /\ Contains(t.observers[d], i) => Contains(s.observers[d], i)
                                /\ i # id /\ Contains(s.observers[d], i) => Contains(t.observers[d], i)
    BY <2>2, LeaveAllCurrent
  <2> HIDE DEF t
  <2>6. \A i \in D : Observed(s.fn[i]) \subseteq Cells /\ (UpToDate(t, i) <=> UpToDate(s, i))
    BY <2>4, SameCurrent DEF SameObject
  <2>7. \A i \in D : Registered(t, i) => Registered(s, i)
    BY <2>4, <2>5, <2>6 DEF Registered
  <2>8. \A i \in D : i # id /\ Registered(s, i) => Registered(t, i)
    BY <2>4, <2>5, <2>6 DEF Registered
  <2>9. RegisteredCurrent(t)
    BY <2>4, <2>6, <2>7, SheetParts DEF RegisteredCurrent
  <2>10. \A i \in D : s.content[c] # Object(i) => i # id
    BY <2>1
  <2> QED BY <1>1, <2>3, <2>4, <2>8, <2>9, <2>10 DEF id
<1>2. CASE ~IsFunction(s.content[c])
  BY <1>2
<1> QED BY <1>1, <1>2

\* A content that is no function, or one of X, comes into a cell.
LEMMA SetCurrent ==
  ASSUME NEW s \in AllSheets, NEW c \in Cells, NEW x \in ContentsOf(s), NEW X, CurrentBut(s, X),
         IsFunction(x) => x.id \in X
  PROVE  LET t == setContent(s, c, x)
         IN  /\ CurrentBut(t, X)
             /\ \A i \in DOMAIN s.fn : s.content[c] # Object(i) /\ Registered(s, i) => Registered(t, i)
<1> DEFINE D == DOMAIN s.fn
           u == IF IsFunction(s.content[c]) THEN unsubscribe(s, s.content[c].id) ELSE s
           t == Store(u, c, x)
<1>1. s \in Sheets(D) /\ x \in Contents(D)
  BY AllSheetsParts DEF ContentsOf
<1>2. t = setContent(s, c, x)
  BY DEF setContent
<1> HIDE DEF D
<1>3. /\ u \in Sheets(D) /\ u.content = s.content /\ u.fn = s.fn /\ RegisteredCurrent(u)
      /\ \A i \in D : s.content[c] # Object(i) /\ Registered(s, i) => Registered(u, i)
  BY <1>1, LeftCurrent DEF CurrentBut
<1> HIDE DEF u
<1>4. t \in Sheets(D) /\ Keeps(u, t) /\ t.content = [u.content EXCEPT ![c] = x]
  BY <1>1, <1>3, StoreStep
<1>5. RegisteredCurrent(t) /\ \A i \in D : Registered(t, i) <=> Registered(u, i)
  BY <1>1, <1>3, StoreCurrent
<1> HIDE DEF t
<1>6. \A i \in D : s.content[c] # Object(i) /\ Registered(s, i) => Registered(t, i)
  BY <1>3, <1>5
<1>7. s.content \in [Cells -> Contents(D)] /\ DOMAIN u.fn = D
  BY <1>1, <1>3, SheetParts
<1>8. t.content[c] = x /\ \A d \in Cells : d # c => t.content[d] = s.content[d]
  BY <1>3, <1>4, <1>7
<1>9. ASSUME NEW d \in Cells, IsFunction(t.content[d]) PROVE OwnAt(t, d, X)
  <2> DEFINE i == t.content[d].id
  <2>1. CASE i \in X
    BY <2>1 DEF OwnAt
  <2>2. CASE i \notin X
    <3>1. d # c /\ t.content[d] = s.content[d]
      BY <1>8, <1>9, <2>2
    <3>2. i \in D /\ t.content[d] = Object(i)
      BY <1>7, <1>9, <3>1, FunctionContents
    <3>3. OwnAt(s, d, X)
      BY <1>9, <3>1 DEF CurrentBut, OwnersRegistered
    <3>4. ~s.fn[i].shared => Registered(s, i) /\ \A e \in Cells : s.content[e] = s.content[d] => e = d
      BY <2>2, <3>1, <3>3 DEF OwnAt
    <3>5. t.fn[i].shared = s.fn[i].shared
      BY <1>3, <1>4, <1>7, <3>2 DEF Keeps
    <3>6. x # Object(i)
      BY <2>2, Kinds
    <3> HIDE DEF i
    <3>7. ASSUME ~t.fn[i].shared PROVE Registered(t, i) /\ \A e \in Cells : t.content[e] = t.content[d] => e = d
      <4>1. \A e \in Cells : s.content[e] = s.content[d] => e = d
        BY <3>4, <3>5, <3>7
      <4>2. \A e \in Cells : t.content[e] = t.content[d] => e = d
        BY <1>8, <3>1, <3>2, <3>6, <4>1
      <4>3. s.content[c] # Object(i)
        BY <3>1, <3>2, <4>1
      <4> QED BY <1>6, <3>2, <3>4, <3>5, <3>7, <4>2, <4>3
    <3> QED BY <3>7 DEF OwnAt, i
  <2> QED BY <2>1, <2>2
<1>10. CurrentBut(t, X)
  BY <1>5, <1>9 DEF CurrentBut, OwnersRegistered
<1> QED BY <1>2, <1>6, <1>10 DEF D

LEMMA AppendContains ==
  ASSUME NEW D, NEW q \in Seq(D), NEW e \in D
  PROVE  \A x : Contains(Append(q, e), x) <=> Contains(q, x) \/ x = e
<1>1. /\ Len(q) \in Nat /\ Len(Append(q, e)) = Len(q) + 1 /\ Append(q, e)[Len(q) + 1] = e
      /\ \A j \in 1 .. Len(q) : Append(q, e)[j] = q[j]
  BY AppendProperties
<1>2. 1 .. Len(q) + 1 = (1 .. Len(q)) \cup {Len(q) + 1}
  BY <1>1
<1> QED BY <1>1, <1>2 DEF Contains

\* One more argument that a function registers with.
LEMMA RegisterWatches ==
  ASSUME NEW D, NEW s \in Sheets(D), NEW x \in Terms, NEW id \in D
  PROVE  LET t == Register(s, x, id)
         IN  /\ \A i : i # id => SameWatches(s, t, i)
             /\ \A c \in Cells : Contains(s.observers[c], id) => Contains(t.observers[c], id)
             /\ IsReference(x) => Contains(t.observers[x.cell], id)
<1> DEFINE t == Register(s, x, id)
<1>1. CASE IsReference(x)
  <2>1. x.cell \in Cells /\ s.observers \in [Cells -> Seq(D)]
    BY <1>1, Kinds, SheetParts DEF Plain
  <2>2. t.observers = [s.observers EXCEPT ![x.cell] = Append(@, id)]
    BY <1>1 DEF Register, Sheets
  <2> HIDE DEF t
  <2>3. /\ t.observers[x.cell] = Append(s.observers[x.cell], id) /\ s.observers[x.cell] \in Seq(D)
        /\ \A c \in Cells : c # x.cell => t.observers[c] = s.observers[c]
    BY <2>1, <2>2
  <2>4. \A i : Contains(t.observers[x.cell], i) <=> Contains(s.observers[x.cell], i) \/ i = id
    BY <2>3, AppendContains
  <2>5. \A c \in Cells : \A i : Contains(t.observers[c], i) <=> Contains(s.observers[c], i) \/ (c = x.cell /\ i = id)
    BY <2>3, <2>4
  <2> QED BY <2>1, <2>5 DEF SameWatches, t
<1>2. CASE ~IsReference(x)
  BY <1>2 DEF Register, SameWatches
<1> QED BY <1>1, <1>2

LEMMA RegisterAllWatches ==
  ASSUME NEW D, NEW s \in Sheets(D), NEW args \in Seq(Terms), NEW id \in D
  PROVE  LET t == RegisterAll(s, args, id)
         IN  /\ \A i \in D : i # id => SameWatches(s, t, i)
             /\ \A j \in 1 .. Len(args) : IsReference(args[j]) => Contains(t.observers[args[j].cell], id)
<1> DEFINE S == {t \in Sheets(D) : \A i \in D : i # id => SameWatches(s, t, i)}
           n == Len(args)
<1>1. n \in Nat /\ Listed(args, n) /\ \A i \in 1 .. n : args[i] \in Terms
  BY DEF Listed
<1> HIDE DEF n
<1>2. ASSUME NEW t \in S, NEW x \in Terms
      PROVE  /\ Register(t, x, id) \in S
             /\ \A c \in Cells : Contains(t.observers[c], id) => Contains(Register(t, x, id).observers[c], id)
             /\ IsReference(x) => Contains(Register(t, x, id).observers[x.cell], id)
  <2> DEFINE u == Register(t, x, id)
  <2>1. t \in Sheets(D) /\ \A i \in D : i # id => SameWatches(s, t, i)
    OBVIOUS
  <2>2. u \in Sheets(D)
    BY <2>1, RegisterStep
  <2>3. /\ \A i : i # id => SameWatches(t, u, i)
        /\ \A c \in Cells : Contains(t.observers[c], id) => Contains(u.observers[c], id)
        /\ IsReference(x) => Contains(u.observers[x.cell], id)
    BY <2>1, RegisterWatches
  <2> HIDE DEF u
  <2>4. \A i \in D : i # id => SameWatches(s, u, i)
    BY <2>1, <2>3 DEF SameWatches
  <2> QED BY <2>2, <2>3, <2>4 DEF u
<1>3. s \in S
  BY DEF SameWatches
<1> HIDE DEF S
<1>4. \A i \in 1 .. n, t \in S : Register(t, args[i], id) \in S
  BY <1>1, <1>2
<1>5. PICK p : RegisterPath(p, n, S, s, args, id)
  BY <1>1, <1>3, <1>4, RegisterFold
<1> DEFINE Ok(k) == \A j \in 1 .. k : IsReference(args[j]) => Contains(p[k].observers[args[j].cell], id)
           I == {k \in 0 .. n : Ok(k)}
<1>6. 0 \in I
  BY <1>1
<1>7. ASSUME NEW k \in 1 .. n, k - 1 \in I PROVE k \in I
  <2>1. k - 1 \in 0 .. n /\ k \in 0 .. n /\ 1 .. k = (1 .. k - 1) \cup {k} /\ 1 .. k \subseteq 1 .. n
    BY <1>1
  <2>2. p[k] = Register(p[k - 1], args[k], id) /\ p[k - 1] \in S /\ args[k] \in Terms
    BY <1>1, <1>5, <2>1 DEF RegisterPath
  <2>3. /\ \A c \in Cells : Contains(p[k - 1].observers[c], id) => Contains(p[k].observers[c], id)
        /\ IsReference(args[k]) => Contains(p[k].observers[args[k].cell], id)
    BY <1>2, <2>2
  <2>4. \A j \in 1 .. k : IsReference(args[j]) => args[j].cell \in Cells
    BY <1>1, <2>1, Kinds DEF Plain
  <2>5. Ok(k)
    BY <1>7, <2>1, <2>3, <2>4
  <2> QED BY <2>1, <2>5
<1>8. Ok(n)
  <2>1. I \in SUBSET (0 .. n)
    OBVIOUS
  <2> HIDE DEF I
  <2>2. \A k \in 0 .. n : k \in I
    BY <1>1, <1>6, <1>7, <2>1, UpFromZero
  <2> QED BY <1>1, <2>2 DEF I
<1>9. p[n] = RegisterAll(s, args, id) /\ p[n] \in S
  <2>1. n \in 0 .. n
    BY <1>1
  <2> QED BY <1>5, <2>1 DEF RegisterPath
<1> QED BY <1>8, <1>9 DEF S, n

\* A constructor registers its object, and what was current stays so.
LEMMA ConstructCurrent ==
  ASSUME NEW D, NEW s \in Sheets(D), NEW entry, Source(entry), NEW id, id \notin D, CurrentBut(s, {})
  PROVE  LET t == Construct(s, entry, id)
         IN  CurrentBut(t, {}) /\ Registered(t, id)
<1> DEFINE E == D \cup {id}
           f == [name |-> entry.name, args |-> entry.args, value |-> Error, shared |-> FALSE]
           fn == [i \in DOMAIN s.fn \cup {id} |-> IF i = id THEN f ELSE s.fn[i]]
           r == [s EXCEPT !.fn = fn]
           u == RegisterAll(r, entry.args, id)
           t == update(u, id)
<1>1. f \in Objects /\ f.args = entry.args /\ entry.args \in Seq(Terms)
  BY Kinds DEF Objects, Source
<1> HIDE DEF f
<1>2. s.content \in [Cells -> Contents(D)] /\ s.observers \in [Cells -> Seq(D)] /\ s.fn \in [D -> Objects] /\ DOMAIN s.fn = D
  BY SheetParts
<1>3. fn \in [E -> Objects] /\ fn[id] = f /\ \A i \in D : fn[i] = s.fn[i]
  BY <1>1, <1>2
<1> HIDE DEF fn
<1>4. s.content \in [Cells -> Contents(E)] /\ s.observers \in [Cells -> Seq(E)]
  <2>1. Contents(D) \subseteq Contents(E)
    BY DEF Contents
  <2>2. Seq(D) \subseteq Seq(E)
    OBVIOUS
  <2>3. s.content \in [Cells -> Contents(E)]
    BY <1>2, <2>1
  <2>4. s.observers \in [Cells -> Seq(E)]
    BY <1>2, <2>2
  <2> QED BY <2>3, <2>4
<1>5. r \in Sheets(E) /\ r.content = s.content /\ r.fn = fn /\ r.observers = s.observers
  <2> HIDE DEF E
  <2> QED BY <1>2, <1>3, <1>4 DEF Sheets
<1> HIDE DEF r
<1>6. /\ u \in Sheets(E) /\ u.content = s.content /\ u.fn = fn
      /\ \A i \in D : SameWatches(s, u, i)
      /\ \A j \in 1 .. Len(entry.args) : IsReference(entry.args[j]) => Contains(u.observers[entry.args[j].cell], id)
  <2>1. id \in E /\ D \subseteq E /\ \A i \in D : i # id
    OBVIOUS
  <2> HIDE DEF E
  <2>2. /\ u \in Sheets(E) /\ u.content = s.content /\ u.fn = fn
    BY <1>1, <1>5, <2>1, RegisterAllStep
  <2>3. /\ \A i \in E : i # id => SameWatches(r, u, i)
        /\ \A j \in 1 .. Len(entry.args) : IsReference(entry.args[j]) => Contains(u.observers[entry.args[j].cell], id)
    BY <1>1, <1>5, <2>1, RegisterAllWatches
  <2>4. \A i \in D : SameWatches(s, u, i)
    BY <1>5, <2>1, <2>3 DEF SameWatches
  <2> QED BY <2>2, <2>3, <2>4
<1> HIDE DEF u
<1>7. Registered(u, id)
  <2>1. u.fn[id].args = entry.args
    BY <1>1, <1>3, <1>6
  <2> QED BY <1>1, <1>6, <2>1 DEF Registered, Observed
<1>8. /\ t \in Sheets(E) /\ Keeps(u, t) /\ t.content = s.content /\ t.observers = u.observers
      /\ UpToDate(t, id) /\ Registered(t, id)
      /\ t.fn = [u.fn EXCEPT ![id] = [@ EXCEPT !.value = compute(u, u.fn[id])]]
  <2>1. id \in E
    OBVIOUS
  <2> HIDE DEF E
  <2>2. t \in Sheets(E) /\ Keeps(u, t) /\ t.content = u.content /\ t.observers = u.observers
    BY <1>6, <2>1, UpdateStep
  <2>3. t.fn = [u.fn EXCEPT ![id] = [@ EXCEPT !.value = compute(u, u.fn[id])]]
    BY <1>6, <2>1, UpdateValue
  <2>4. UpToDate(t, id) /\ \A i \in E : Registered(t, i) <=> Registered(u, i)
    BY <1>6, <2>1, UpdateCurrent
  <2> QED BY <1>6, <1>7, <2>1, <2>2, <2>3, <2>4
<1>9. t = Construct(s, entry, id)
  BY DEF Construct, t, u, r, fn, f, RegisterAll
<1> HIDE DEF t
<1>10. ASSUME NEW i \in D \cap E PROVE StaysAt(s, t, i)
  <2>1. i \in D /\ i \in E /\ i # id
    OBVIOUS
  <2>2. t.fn[i] = s.fn[i]
    BY <1>3, <1>6, <1>8, <2>1
  <2> QED BY <1>6, <1>8, <2>1, <2>2 DEF SameObject, SameWatches, StaysAt
<1>11. \A i \in E \ D : UpToDate(t, i)
  BY <1>8
<1> HIDE DEF E
<1>12. CurrentBut(t, {})
  <2>1. DOMAIN t.fn = E
    BY <1>8, SheetParts
  <2>2. Stays(s, t)
    BY <1>2, <1>8, <1>10, <1>11, <2>1 DEF Stays
  <2> QED BY <1>8, <2>2, CurrentStays
<1> QED BY <1>8, <1>9, <1>12

\* A content that is ready for a cell: a function is registered.
Ready(s, x) == IsFunction(x) => Registered(s, x.id)

LEMMA ConstructedCurrent ==
  ASSUME NEW s \in AllSheets, NEW entry, Source(entry), Current(s)
  PROVE  /\ Current(Construct(s, entry, Fresh(s)))
         /\ Ready(Construct(s, entry, Fresh(s)), Object(Fresh(s)))
<1> DEFINE id == Fresh(s)
           D == DOMAIN s.fn
           t == Construct(s, entry, id)
<1>1. s \in Sheets(D) /\ id \in Ids \ D /\ CurrentBut(s, {})
  BY AllSheetsParts, ConstructAll DEF Current
<1> HIDE DEF id, D
<1>2. CurrentBut(t, {}) /\ Registered(t, id)
  BY <1>1, ConstructCurrent
<1> QED BY <1>2, Kinds DEF Current, Ready, id

LEMMA CopyCurrent ==
  ASSUME NEW s \in AllSheets, NEW x \in ContentsOf(s), Current(s)
  PROVE  Current(copyContent(s, x).sheet) /\ Ready(copyContent(s, x).sheet, copyContent(s, x).content)
<1>1. CASE IsFunction(x)
  <2> DEFINE entry == s.fn[x.id]
  <2>1. x.id \in DOMAIN s.fn /\ entry \in Objects
    BY <1>1, FunctionContents, AllSheetsParts, SheetParts DEF ContentsOf
  <2>2. Source(entry)
    BY <2>1 DEF Objects, Source
  <2>3. /\ copyContent(s, x).sheet = Construct(s, entry, Fresh(s))
        /\ copyContent(s, x).content = Object(Fresh(s))
    BY <1>1 DEF copyContent, Made
  <2> HIDE DEF entry
  <2> QED BY <2>2, <2>3, ConstructedCurrent
<1>2. CASE ~IsFunction(x)
  BY <1>2 DEF copyContent, Made, Ready
<1> QED BY <1>1, <1>2

LEMMA ParseCurrent ==
  ASSUME NEW s \in AllSheets, NEW entry \in Entries, Current(s)
  PROVE  Current(parseContent(s, entry).sheet) /\ Ready(parseContent(s, entry).sheet, parseContent(s, entry).content)
<1>1. CASE entry \in Terms
  <2>1. parseContent(s, entry) = Made(s, entry)
    BY <1>1 DEF parseContent, Terms, Error, Number, Reference
  <2>2. ~IsFunction(entry)
    BY <1>1, Kinds DEF Plain
  <2> QED BY <2>1, <2>2 DEF Made, Ready
<1>2. CASE entry \in [kind : {"entry"}, name : {"ADD", "PRODUCT"}, args : Seq(Terms)]
  <2>1. Source(entry)
    BY <1>2 DEF Source
  <2>2. /\ parseContent(s, entry).sheet = Construct(s, entry, Fresh(s))
        /\ parseContent(s, entry).content = Object(Fresh(s))
    BY <1>2 DEF parseContent, Made
  <2> QED BY <2>1, <2>2, ConstructedCurrent
<1> QED BY <1>1, <1>2, SheetAssumption

\* A registered object that is in no cell comes into one.
LEMMA SetReady ==
  ASSUME NEW s \in AllSheets, NEW c \in Cells, NEW x \in ContentsOf(s), Current(s), Ready(s, x),
         IsFunction(x) => \A d \in Cells : s.content[d] # x
  PROVE  Current(setContent(s, c, x))
<1> DEFINE t == setContent(s, c, x)
<1>0. CurrentBut(s, {})
  BY DEF Current
<1>1. CASE ~IsFunction(x)
  BY <1>0, <1>1, SetCurrent DEF Current
<1>2. CASE IsFunction(x)
  <2> DEFINE id == x.id
  <2>1. id \in DOMAIN s.fn /\ x = Object(id) /\ Registered(s, id)
    BY <1>2, FunctionContents DEF ContentsOf, Ready
  <2> HIDE DEF id
  <2>2. CurrentBut(s, {id})
    BY <1>0 DEF CurrentBut, OwnersRegistered, OwnAt
  <2>3. /\ CurrentBut(t, {id})
        /\ \A i \in DOMAIN s.fn : s.content[c] # Object(i) /\ Registered(s, i) => Registered(t, i)
    BY <2>2, SetCurrent DEF id
  <2>4. t.content[c] = x /\ \A d \in Cells : d # c => t.content[d] = s.content[d]
    BY SetAll
  <2> HIDE DEF t
  <2>5. Registered(t, id)
    BY <1>2, <2>1, <2>3
  <2>6. \A d \in Cells : t.content[d] = x => d = c
    BY <1>2, <2>4
  <2>7. DOMAIN t.fn = DOMAIN s.fn /\ t \in AllSheets
    BY SetAll DEF t
  <2>8. ASSUME NEW d \in Cells, IsFunction(t.content[d]) PROVE OwnAt(t, d, {})
    <3> DEFINE i == t.content[d].id
    <3>1. t.content[d] = Object(i)
      BY <2>7, <2>8, AllSheetsParts, FunctionContents DEF ContentsOf
    <3>2. OwnAt(t, d, {id})
      BY <2>3, <2>8 DEF CurrentBut, OwnersRegistered
    <3>3. ASSUME i = id PROVE OwnAt(t, d, {})
      <4>1. d = c /\ t.content[d] = x
        BY <2>1, <2>6, <3>1, <3>3
      <4> QED BY <2>5, <2>6, <3>3, <4>1 DEF OwnAt
    <3>4. ASSUME i # id PROVE OwnAt(t, d, {})
      BY <3>2, <3>4 DEF OwnAt
    <3> QED BY <3>3, <3>4
  <2>9. CurrentBut(t, {})
    BY <2>3, <2>8 DEF CurrentBut, OwnersRegistered
  <2> QED BY <2>9 DEF Current, t
<1> QED BY <1>1, <1>2

LEMMA DeleteCellCurrent ==
  ASSUME NEW s \in AllSheets, NEW c \in Cells, NEW X, CurrentBut(s, X)
  PROVE  /\ CurrentBut(deleteContent(s, c), X)
         /\ \A i \in DOMAIN s.fn : s.content[c] # Object(i) /\ Registered(s, i) => Registered(deleteContent(s, c), i)
<1>1. Empty \in ContentsOf(s) /\ ~IsFunction(Empty)
  BY Kinds DEF ContentsOf
<1> QED BY <1>1, SetCurrent DEF deleteContent

LEMMA PutCurrent ==
  ASSUME NEW s \in AllSheets, NEW x \in ContentsOf(s), NEW c \in Cells, Current(s)
  PROVE  Current(Put(s, x, c))
<1> DEFINE t == copyContent(s, x).sheet
           y == copyContent(s, x).content
           u == deleteContent(t, c)
           v == setContent(u, c, y)
<1>1. Adds(s, t, y)
  BY CopyStep DEF CopyOf
<1>2. Current(t) /\ Ready(t, y)
  BY CopyCurrent
<1>3. v = Put(s, x, c)
  BY DEF Put
<1> HIDE DEF t, y
<1>4. t \in AllSheets /\ t.content = s.content /\ y \in ContentsOf(t) /\ (IsFunction(y) => y.id \notin DOMAIN s.fn)
  BY <1>1 DEF Adds
<1>5. ASSUME IsFunction(y) PROVE y = Object(y.id) /\ y.id \in DOMAIN t.fn /\ \A d \in Cells : s.content[d] # y
  <2>1. y = Object(y.id) /\ y.id \in DOMAIN t.fn
    BY <1>4, <1>5, FunctionContents DEF ContentsOf
  <2>2. ASSUME NEW d \in Cells PROVE s.content[d] # y
    <3>1. s.content[d] \in Contents(DOMAIN s.fn)
      BY AllSheetsParts DEF ContentsOf
    <3> QED BY <1>4, <1>5, <3>1, FunctionContents
  <2> QED BY <2>1, <2>2
<1>6. Empty \in ContentsOf(t) /\ ~IsFunction(Empty)
  BY Kinds DEF ContentsOf
<1>7. /\ u \in AllSheets /\ Keeps(t, u) /\ DOMAIN u.fn = DOMAIN t.fn
      /\ u.content[c] = Empty /\ \A d \in Cells : d # c => u.content[d] = t.content[d]
  BY <1>4, <1>6, SetAll DEF deleteContent
<1>8. /\ Current(u)
      /\ \A i \in DOMAIN t.fn : t.content[c] # Object(i) /\ Registered(t, i) => Registered(u, i)
  BY <1>2, <1>4, DeleteCellCurrent DEF Current
<1> HIDE DEF u
<1>9. y \in ContentsOf(u)
  BY <1>4, <1>7, ContentsGrow
<1>10. Ready(u, y) /\ (IsFunction(y) => \A d \in Cells : u.content[d] # y)
  BY <1>2, <1>4, <1>5, <1>6, <1>7, <1>8 DEF Ready
<1>11. Current(v)
  BY <1>7, <1>8, <1>9, <1>10, SetReady
<1> QED BY <1>3, <1>11

LEMMA PutAllCurrent ==
  ASSUME NEW s \in AllSheets, NEW n, NEW cells, CellList(cells, n), NEW b, NEW seq, seq = [i \in 1 .. n |-> i],
         \A i \in 1 .. n : b[i] \in ContentsOf(s), Current(s)
  PROVE  Current(PutAll(s, seq, b, cells))
<1> DEFINE S == {t \in AllSheets : Follows(s, t) /\ Current(t)}
<1>1. s \in S
  BY FollowsItself
<1>2. ASSUME NEW t \in S, NEW i \in 1 .. n PROVE Put(t, b[i], cells[i]) \in S
  <2>1. t \in AllSheets /\ Follows(s, t) /\ Keeps(s, t) /\ Current(t)
    BY DEF Follows
  <2>2. b[i] \in ContentsOf(t) /\ cells[i] \in Cells
    BY <2>1, ContentsGrow DEF CellList
  <2> DEFINE u == Put(t, b[i], cells[i])
  <2>3. Follows(t, u) /\ Current(u)
    BY <2>1, <2>2, PutStep, PutCurrent
  <2> HIDE DEF u
  <2>4. u \in AllSheets /\ Follows(s, u)
    BY <2>1, <2>3, FollowsTransitive DEF Follows
  <2> QED BY <2>3, <2>4 DEF u
<1> HIDE DEF S
<1>3. n \in Nat /\ Listed(seq, n) /\ \A i \in 1 .. n : seq[i] = i
  BY DEF CellList, Listed
<1>4. \A i \in 1 .. n, t \in S : Put(t, b[seq[i]], cells[seq[i]]) \in S
  BY <1>2, <1>3
<1>5. PICK p : PutPath(p, n, S, s, seq, b, cells)
  BY <1>1, <1>3, <1>4, PutFold
<1>6. n \in 0 .. n
  BY <1>3
<1>7. PutAll(s, seq, b, cells) \in S
  BY <1>5, <1>6 DEF PutPath
<1> QED BY <1>7 DEF S

LEMMA CopyRangeCurrent ==
  ASSUME NEW s \in AllSheets, NEW n, NEW cells, CellList(cells, n), Current(s)
  PROVE  Current(TakeAll([sheet |-> s, buffer |-> <<>>], cells).sheet)
<1> DEFINE S == {t \in Bufferings(s) : Current(t.sheet)}
           first == [sheet |-> s, buffer |-> <<>>]
<1>1. first \in S
  BY KeepsTransitive DEF Bufferings
<1> HIDE DEF first
<1>2. n \in Nat /\ Listed(cells, n) /\ \A i \in 1 .. n : cells[i] \in Cells
  BY DEF CellList
<1>3. ASSUME NEW c \in Cells, NEW t \in S PROVE Take(t, c) \in S
  <2> DEFINE x == t.sheet.content[c]
             u == Take(t, c)
  <2>1. t \in Bufferings(s) /\ t.sheet \in AllSheets /\ Current(t.sheet)
    BY DEF Bufferings
  <2>2. x \in ContentsOf(t.sheet)
    BY <2>1, AllSheetsParts
  <2>3. u.sheet = copyContent(t.sheet, x).sheet
    BY DEF Take
  <2>4. Current(u.sheet)
    BY <2>1, <2>2, <2>3, CopyCurrent
  <2>5. u \in Bufferings(s)
    BY <2>1, TakeStep
  <2> HIDE DEF u
  <2> QED BY <2>4, <2>5 DEF u
<1> HIDE DEF S
<1>4. \A i \in 1 .. n, t \in S : Take(t, cells[i]) \in S
  BY <1>2, <1>3
<1>5. PICK p : TakePath(p, n, S, first, cells)
  BY <1>1, <1>2, <1>4, TakeFold
<1>6. n \in 0 .. n
  BY <1>2
<1>7. TakeAll(first, cells) \in S
  BY <1>5, <1>6 DEF TakePath
<1> QED BY <1>7 DEF S, first

LEMMA FillCurrent ==
  ASSUME NEW s \in AllSheets, NEW n, NEW cells, CellList(cells, n), NEW x \in ContentsOf(s),
         NEW X, CurrentBut(s, X), IsFunction(x) => x.id \in X
  PROVE  CurrentBut(FillAll(s, cells, x), X)
<1> DEFINE S == {t \in AllSheets : Keeps(s, t) /\ CurrentBut(t, X)}
<1>1. s \in S
  BY KeepsTransitive
<1>2. ASSUME NEW t \in S, NEW c \in Cells PROVE setContent(t, c, x) \in S
  <2>1. t \in AllSheets /\ Keeps(s, t) /\ CurrentBut(t, X) /\ x \in ContentsOf(t)
    BY ContentsGrow
  <2> DEFINE u == setContent(t, c, x)
  <2>2. u \in AllSheets /\ Keeps(t, u) /\ CurrentBut(u, X)
    BY <2>1, SetAll, SetCurrent
  <2> HIDE DEF u
  <2>3. u \in S
    BY <2>1, <2>2, KeepsTransitive
  <2> QED BY <2>3 DEF u
<1> HIDE DEF S
<1>3. n \in Nat /\ Listed(cells, n) /\ \A i \in 1 .. n : cells[i] \in Cells
  BY DEF CellList
<1>4. \A i \in 1 .. n, t \in S : setContent(t, cells[i], x) \in S
  BY <1>2, <1>3
<1>5. PICK p : FillPath(p, n, S, s, cells, x)
  BY <1>1, <1>3, <1>4, FillFold
<1>6. n \in 0 .. n
  BY <1>3
<1>7. FillAll(s, cells, x) \in S
  BY <1>5, <1>6 DEF FillPath
<1> QED BY <1>7 DEF S

\* A list of one cell.
LEMMA FillOne ==
  ASSUME NEW s \in AllSheets, NEW cells, CellList(cells, 1), NEW x \in ContentsOf(s)
  PROVE  FillAll(s, cells, x) = setContent(s, cells[1], x)
<1> DEFINE S == {t \in AllSheets : Keeps(s, t)}
<1>1. s \in S
  BY KeepsTransitive
<1>2. ASSUME NEW t \in S, NEW c \in Cells PROVE setContent(t, c, x) \in S
  <2>1. t \in AllSheets /\ Keeps(s, t) /\ x \in ContentsOf(t)
    BY ContentsGrow
  <2> DEFINE u == setContent(t, c, x)
  <2>2. u \in AllSheets /\ Keeps(t, u)
    BY <2>1, SetAll
  <2> HIDE DEF u
  <2>3. u \in S
    BY <2>1, <2>2, KeepsTransitive
  <2> QED BY <2>3 DEF u
<1> HIDE DEF S
<1>3. Listed(cells, 1) /\ \A i \in 1 .. 1 : cells[i] \in Cells
  BY DEF CellList
<1>4. \A i \in 1 .. 1, t \in S : setContent(t, cells[i], x) \in S
  BY <1>2, <1>3
<1>5. PICK p : FillPath(p, 1, S, s, cells, x)
  BY <1>1, <1>3, <1>4, FillFold
<1>6. p[1] = setContent(p[0], cells[1], x)
  <2>1. p[1] = setContent(p[1 - 1], cells[1], x) /\ 1 - 1 = 0
    BY <1>5 DEF FillPath
  <2> QED BY <2>1
<1>7. p[0] = s /\ p[1] = FillAll(s, cells, x)
  BY <1>5 DEF FillPath
<1> QED BY <1>6, <1>7

LEMMA DeleteCurrent ==
  ASSUME NEW s \in AllSheets, NEW r \in Ranges, Current(s)
  PROVE  Current(Delete(s, r))
<1>1. CellList(getCells(r), getSize(r)) /\ Empty \in ContentsOf(s) /\ ~IsFunction(Empty)
  BY RangeCells, Kinds DEF ContentsOf
<1>2. CurrentBut(s, {})
  BY DEF Current
<1> QED BY <1>1, <1>2, FillCurrent, DeleteFills DEF Current

LEMMA CopyingCurrent ==
  ASSUME NEW s \in AllSheets, NEW r \in Ranges, Current(s)
  PROVE  Current(Copy(s, r).sheet)
<1>1. Copy(s, r) = TakeAll([sheet |-> s, buffer |-> <<>>], getCells(r))
  BY DEF Copy, TakeAll
<1>2. CellList(getCells(r), getSize(r))
  BY RangeCells
<1> QED BY <1>1, <1>2, CopyRangeCurrent

LEMMA CutCurrent ==
  ASSUME NEW s \in AllSheets, NEW r \in Ranges, Current(s)
  PROVE  Current(Cut(s, r).sheet)
<1> DEFINE t == Copy(s, r)
<1>1. Cut(s, r).sheet = Delete(t.sheet, r)
  <2>1. t \in Bufferings(s)
    BY CopyingStep
  <2> HIDE DEF t
  <2>2. [t EXCEPT !.sheet = Delete(@, r)].sheet = Delete(t.sheet, r)
    BY <2>1 DEF Bufferings
  <2> QED BY <2>2 DEF Cut, t
<1>2. t.sheet \in AllSheets /\ Current(t.sheet)
  BY CopyingStep, CopyingCurrent DEF Bufferings
<1> QED BY <1>1, <1>2, DeleteCurrent

LEMMA InsertCurrent ==
  ASSUME NEW s \in AllSheets, NEW r \in Ranges, NEW entry \in Entries, Current(s)
  PROVE  Current(Insert(s, r, entry))
<1> DEFINE cells == getCells(r)
           n == getSize(r)
           t == parseContent(s, entry).sheet
           y == parseContent(s, entry).content
           all == FillAll(t, cells, y)
           u == Insert(s, r, entry)
<1>1. CellList(cells, n) /\ n \in Nat \ {0}
  BY RangeCells
<1>2. Adds(s, t, y) /\ Current(t) /\ Ready(t, y)
  BY ParseStep, ParseCurrent
<1>3. u = IF IsFunction(y) /\ n > 1 THEN [all EXCEPT !.fn[y.id].shared = TRUE] ELSE all
  BY DEF Insert, FillAll
<1> HIDE DEF cells, n, t, y, u
<1>4. /\ t \in AllSheets /\ y \in ContentsOf(t) /\ t.content = s.content
      /\ IsFunction(y) => y.id \notin DOMAIN s.fn
  BY <1>2 DEF Adds
<1>5. /\ all \in AllSheets /\ Keeps(t, all) /\ DOMAIN all.fn = DOMAIN t.fn
  BY <1>1, <1>4, FillStep
<1>6. CASE ~IsFunction(y)
  <2>1. CurrentBut(all, {})
    BY <1>1, <1>2, <1>4, <1>6, FillCurrent DEF Current
  <2> QED BY <1>3, <1>6, <2>1 DEF Current, u
<1>7. CASE IsFunction(y) /\ n = 1
  <2>1. \A d \in Cells : t.content[d] # y
    <3>1. ASSUME NEW d \in Cells PROVE s.content[d] # y
      <4>1. s.content[d] \in Contents(DOMAIN s.fn)
        BY AllSheetsParts DEF ContentsOf
      <4> QED BY <1>4, <1>7, <4>1, FunctionContents
    <3> QED BY <1>4, <3>1
  <2>2. cells[1] \in Cells /\ CellList(cells, 1)
    BY <1>1, <1>7 DEF CellList
  <2>3. all = setContent(t, cells[1], y)
    BY <1>4, <2>2, FillOne
  <2>4. Current(all)
    BY <1>2, <1>4, <2>1, <2>2, <2>3, SetReady
  <2> QED BY <1>3, <1>7, <2>4 DEF u
<1>8. CASE IsFunction(y) /\ n > 1
  <2> DEFINE id == y.id
             D == DOMAIN all.fn
             fn == [all.fn EXCEPT ![id] = [@ EXCEPT !.shared = TRUE]]
  <2>1. CurrentBut(t, {id})
    BY <1>2 DEF Current, CurrentBut, OwnersRegistered, OwnAt
  <2>2. CurrentBut(all, {id})
    BY <1>1, <1>4, <2>1, FillCurrent
  <2>3. id \in D
    BY <1>4, <1>5, <1>8, FunctionContents DEF ContentsOf
  <2>4. all \in Sheets(D)
    BY <1>5, AllSheetsParts
  <2>5. all.fn \in [D -> Objects]
    BY <2>4, SheetParts
  <2>6. u = [all EXCEPT !.fn = fn]
    BY <1>3, <1>8
  <2> HIDE DEF id, D, all
  <2>7. /\ fn \in [D -> Objects] /\ fn[id].shared
        /\ \A i \in D : /\ fn[i].name = all.fn[i].name /\ fn[i].args = all.fn[i].args
                        /\ fn[i].value = all.fn[i].value /\ (all.fn[i].shared => fn[i].shared)
    BY <2>3, <2>5 DEF Objects
  <2> HIDE DEF fn
  <2>8. u \in Sheets(D) /\ u.fn = fn /\ u.content = all.content /\ u.observers = all.observers
    BY <2>4, <2>6, <2>7 DEF Sheets
  <2>9. DOMAIN u.fn = D /\ DOMAIN all.fn = D
    BY <2>4, <2>8, SheetParts
  <2>10. Stays(all, u)
    BY <2>7, <2>8, <2>9 DEF Stays, StaysAt, SameObject, SameWatches
  <2>11. CurrentBut(u, {id})
    BY <2>2, <2>4, <2>8, <2>10, CurrentStays
  <2>12. \A c \in Cells : OwnAt(u, c, {id}) => OwnAt(u, c, {})
    BY <2>7, <2>8 DEF OwnAt
  <2>13. CurrentBut(u, {})
    BY <2>11, <2>12 DEF CurrentBut, OwnersRegistered
  <2> QED BY <2>13 DEF Current, u
<1> QED BY <1>1, <1>6, <1>7, <1>8

LEMMA PasteIntoCurrent ==
  ASSUME NEW s \in AllSheets, NEW b, Buffered(s, b), NEW n, n <= Len(b),
         NEW cells, CellList(cells, n), DOMAIN cells = 1 .. n, Current(s)
  PROVE  Current(PasteInto(s, b, cells))
<1> DEFINE seq == [i \in DOMAIN cells |-> i]
<1>1. seq = [i \in 1 .. n |-> i]
  OBVIOUS
<1>2. \A i \in 1 .. n : b[i] \in ContentsOf(s)
  BY DEF Buffered, CellList
<1>3. PasteInto(s, b, cells) = PutAll(s, seq, b, cells)
  BY DEF PasteInto, PutAll
<1> HIDE DEF seq
<1> QED BY <1>1, <1>2, <1>3, PutAllCurrent

LEMMA PasteCurrent ==
  ASSUME NEW s \in AllSheets, NEW b, Buffered(s, b), NEW across \in BOOLEAN, NEW r \in Ranges, Current(s)
  PROVE  Current(Paste(s, b, across, r))
<1> DEFINE n == getSize(r)
           cells == getCells(r)
           m == IF Len(b) <= (IF across THEN Columns - r.from[2] + 1 ELSE Rows - r.from[1] + 1)
                THEN Len(b) ELSE IF across THEN Columns - r.from[2] + 1 ELSE Rows - r.from[1] + 1
           line == LineOf(r.from, Len(b), across)
           t == PasteInto(s, b, line)
           u == PasteInto(t, b, cells)
           v == PasteInto(s, b, cells)
<1>1. Len(b) \in Nat /\ (b # <<>> => Len(b) >= 1)
  BY DEF Buffered
<1>2. n \in Nat \ {0} /\ CellList(cells, n) /\ DOMAIN cells = 1 .. n /\ r.from \in Cells
  BY RangeCells
<1>3. CellList(line, m) /\ DOMAIN line = 1 .. m
  BY <1>1, <1>2, LineCells
<1>4. m <= Len(b)
  <2>1. m \in Nat
    BY <1>3 DEF CellList
  <2> HIDE DEF line
  <2> QED BY <1>1, <2>1
<1>5. Paste(s, b, across, r) =
        CASE b = <<>> -> s
          [] b # <<>> /\ n = 1 -> u
          [] b # <<>> /\ n > 1 /\ n = Len(b) -> v
          [] OTHER -> s
  BY DEF Paste
<1> HIDE DEF n, cells, m, line
<1>6. Follows(s, t) /\ Current(t)
  BY <1>3, <1>4, PasteIntoStep, PasteIntoCurrent DEF PastedInto
<1> HIDE DEF t
<1>7. ASSUME n = 1, b # <<>> PROVE Current(u)
  <2>1. t \in AllSheets /\ Buffered(t, b) /\ n <= Len(b)
    BY <1>1, <1>6, <1>7, BufferedKept DEF Follows
  <2> QED BY <1>2, <1>6, <2>1, PasteIntoCurrent
<1>8. ASSUME n = Len(b) PROVE Current(v)
  <2>1. n <= Len(b)
    BY <1>1, <1>8
  <2> QED BY <1>2, <2>1, PasteIntoCurrent
<1> HIDE DEF u, v
<1> QED BY <1>5, <1>7, <1>8

LEMMA CollectCurrent ==
  ASSUME NEW s \in AllSheets, NEW b \in Seq(ContentsOf(s)), Current(s)
  PROVE  Current(Collect(s, b))
<1> DEFINE t == Collect(s, b)
           D == DOMAIN s.fn
           E == DOMAIN t.fn
<1>1. /\ t \in AllSheets /\ t.content = s.content /\ t.observers = s.observers
      /\ E \subseteq D /\ \A i \in E : t.fn[i] = s.fn[i]
  BY CollectStep
<1> HIDE DEF t
<1>2. s \in Sheets(D) /\ t \in Sheets(E)
  BY <1>1, AllSheetsParts
<1>3. Stays(s, t)
  BY <1>1 DEF Stays, StaysAt, SameObject, SameWatches
<1> HIDE DEF D, E
<1>4. CurrentBut(t, {})
  BY <1>2, <1>3, CurrentStays DEF Current
<1> QED BY <1>4 DEF Current, t

\* The sheet and every file are current.
AllCurrent ==
  /\ Current(sheet)
  /\ \A n \in Names : files[n] # <<>> => Current(files[n][1].sheet)

LEMMA BecomesCurrent ==
  ASSUME NEW s, NEW b, NEW across, Document(s, b, across), Becomes(s, b, across), Current(s)
  PROVE  Current(sheet')
<1>1. sheet' = Collect(s, b) /\ s \in AllSheets /\ b \in Seq(ContentsOf(s))
  BY DEF Becomes, Document, Buffered
<1> QED BY <1>1, CollectCurrent

\* No command of the menu Edit leaves an object behind its cells.
LEMMA EditCurrent ==
  ASSUME Document(sheet, buffer, horizontal), Current(sheet), Edit
  PROVE  Current(sheet')
<1>0. sheet \in AllSheets /\ Buffered(sheet, buffer) /\ horizontal \in BOOLEAN
  BY DEF Document
<1>1. ASSUME NEW r \in Ranges, NEW entry \in Entries, insertContentInRange(r, entry) PROVE Current(sheet')
  <2> DEFINE t == Insert(sheet, r, entry)
  <2>1. Becomes(t, buffer, horizontal)
    BY <1>1 DEF insertContentInRange
  <2>2. Document(t, buffer, horizontal) /\ Current(t)
    BY <1>0, InsertDocument, InsertCurrent
  <2> HIDE DEF t
  <2> QED BY <2>1, <2>2, BecomesCurrent
<1>2. ASSUME NEW entry \in Entries, InsertNowhere(entry) PROVE Current(sheet')
  <2> DEFINE t == parseContent(sheet, entry).sheet
  <2>1. Becomes(t, buffer, horizontal)
    BY <1>2 DEF InsertNowhere
  <2>2. Document(t, buffer, horizontal) /\ Current(t)
    BY <1>0, ParseDocument, ParseCurrent
  <2> HIDE DEF t
  <2> QED BY <2>1, <2>2, BecomesCurrent
<1>3. ASSUME NEW r \in Ranges, deleteContentInRange(r) PROVE Current(sheet')
  <2> DEFINE t == Delete(sheet, r)
  <2>1. Becomes(t, buffer, horizontal)
    BY <1>3 DEF deleteContentInRange
  <2>2. Document(t, buffer, horizontal) /\ Current(t)
    BY <1>0, DeleteDocument, DeleteCurrent
  <2> HIDE DEF t
  <2> QED BY <2>1, <2>2, BecomesCurrent
<1>4. ASSUME NEW r \in Ranges, cutBufferCopy(r) PROVE Current(sheet')
  <2> DEFINE t == Copy(sheet, r)
             across == getHorizontal(r)
  <2>1. Becomes(t.sheet, t.buffer, across)
    BY <1>4 DEF cutBufferCopy
  <2>2. Document(t.sheet, t.buffer, across) /\ Current(t.sheet)
    BY <1>0, RangeCells, CopyDocument, CopyingCurrent
  <2> HIDE DEF t, across
  <2> QED BY <2>1, <2>2, BecomesCurrent
<1>5. ASSUME NEW r \in Ranges, cutBufferCut(r) PROVE Current(sheet')
  <2> DEFINE t == Cut(sheet, r)
             across == getHorizontal(r)
  <2>1. Becomes(t.sheet, t.buffer, across)
    BY <1>5 DEF cutBufferCut
  <2>2. Document(t.sheet, t.buffer, across) /\ Current(t.sheet)
    BY <1>0, RangeCells, CutDocument, CutCurrent
  <2> HIDE DEF t, across
  <2> QED BY <2>1, <2>2, BecomesCurrent
<1>6. ASSUME NEW r \in Ranges, cutBufferPaste(r) PROVE Current(sheet')
  <2> DEFINE t == Paste(sheet, buffer, horizontal, r)
  <2>1. Becomes(t, buffer, horizontal)
    BY <1>6 DEF cutBufferPaste
  <2>2. Document(t, buffer, horizontal) /\ Current(t)
    BY <1>0, PasteDocument, PasteCurrent
  <2> HIDE DEF t
  <2> QED BY <2>1, <2>2, BecomesCurrent
<1> QED BY <1>1, <1>2, <1>3, <1>4, <1>5, <1>6 DEF Edit

LEMMA InitCurrent == Init => AllCurrent
<1> SUFFICES ASSUME Init PROVE AllCurrent
  OBVIOUS
<1>1. sheet = NewSheet /\ files = [n \in Names |-> <<>>]
  BY DEF Init
<1>2. DOMAIN NewSheet.fn = {} /\ \A c \in Cells : NewSheet.content[c] = Empty
  BY DEF NewSheet
<1>3. Current(NewSheet)
  BY <1>2, Kinds DEF Current, CurrentBut, RegisteredCurrent, OwnersRegistered
<1> QED BY <1>1, <1>3 DEF AllCurrent

LEMMA NextCurrent == Documents /\ AllCurrent /\ [Next]_calculatorVars => AllCurrent'
<1> SUFFICES ASSUME Documents, AllCurrent, [Next]_calculatorVars PROVE AllCurrent'
  OBVIOUS
<1>0. Document(sheet, buffer, horizontal) /\ Current(sheet) /\ Files
  BY DEF Documents, AllCurrent
<1>1. CASE Edit /\ UNCHANGED <<filename, files>>
  BY <1>0, <1>1, EditCurrent DEF AllCurrent
<1>2. CASE Save
  <2>1. sheet' = sheet
    BY <1>2 DEF Save
  <2>2. PICK n \in Names : SaveTo(n)
    BY <1>2 DEF Save, Documents
  <2>3. files' \in {files, [files EXCEPT ![n] = <<Image>>], [files EXCEPT ![n] = <<>>]} /\ Image.sheet = sheet
    BY <2>2 DEF SaveTo, Image
  <2> HIDE DEF Image
  <2>4. ASSUME NEW m \in Names, files'[m] # <<>> PROVE files'[m] = files[m] \/ files'[m] = <<Image>>
    BY <1>0, <2>3, <2>4 DEF Files
  <2>5. ASSUME NEW m \in Names, files'[m] # <<>> PROVE Current(files'[m][1].sheet)
    <3>1. CASE files'[m] = files[m]
      BY <2>5, <3>1 DEF AllCurrent
    <3>2. CASE files'[m] = <<Image>>
      <4>1. files'[m][1] = Image
        BY <3>2
      <4> QED BY <1>0, <2>3, <4>1
    <3> QED BY <2>4, <2>5, <3>1, <3>2
  <2> QED BY <1>0, <2>1, <2>5 DEF AllCurrent
<1>3. CASE DoNew
  <2>1. sheet' = NewSheet /\ files' = files
    BY <1>3 DEF DoNew
  <2>2. Current(NewSheet)
    <3>1. DOMAIN NewSheet.fn = {} /\ \A c \in Cells : NewSheet.content[c] = Empty
      BY DEF NewSheet
    <3> QED BY <3>1, Kinds DEF Current, CurrentBut, RegisteredCurrent, OwnersRegistered
  <2> QED BY <2>1, <2>2 DEF AllCurrent
<1>4. ASSUME NEW n \in Names, DoOpen(n) PROVE AllCurrent'
  BY <1>4 DEF DoOpen, AllCurrent
<1>5. CASE UNCHANGED calculatorVars
  BY <1>5 DEF AllCurrent, calculatorVars, sheetVars
<1> QED BY <1>1, <1>2, <1>3, <1>4, <1>5 DEF Next

LEMMA CurrentAlways == Spec => [](Documents /\ AllCurrent)
<1>1. Spec => [](Documents /\ Saved)
  BY DocumentsAlways
<1> QED BY <1>1, InitCurrent, NextCurrent, PTL DEF Spec

\* A function that is in a cell and not shared shows what it computes from the
\* literals that it observes (Cell.setContent, Function.update).
THEOREM LiteralsAreCurrent == Spec => []LiteralsCurrent
<1>1. Documents /\ AllCurrent => LiteralsCurrent
  <2> SUFFICES ASSUME Documents, AllCurrent, NEW id \in Held(sheet), ~sheet.fn[id].shared, OnLiterals(sheet, id)
               PROVE  sheet.fn[id].value = compute(sheet, sheet.fn[id])
    BY DEF LiteralsCurrent, OnLiterals, LiteralAt
  <2>1. PICK c \in Cells : IsFunction(sheet.content[c]) /\ sheet.content[c].id = id
    BY DEF Held
  <2>2. id \in DOMAIN sheet.fn
    BY HeldObjects DEF Documents, Document
  <2>3. Registered(sheet, id)
    BY <2>1 DEF AllCurrent, Current, CurrentBut, OwnersRegistered, OwnAt
  <2>4. UpToDate(sheet, id)
    BY <2>2, <2>3 DEF AllCurrent, Current, CurrentBut, RegisteredCurrent
  <2> QED BY <2>4 DEF UpToDate
<1> QED BY <1>1, CurrentAlways, PTL

-----------------------------------------------------------------------------
(* Cutting a range and pasting it at once where it was.                    *)

\* The cells have what they had, or copies of it.
Restored(s, t) ==
  /\ t \in AllSheets /\ Keeps(s, t)
  /\ \A c \in Cells : t.content[c] = s.content[c] \/ Copied(s, s.content[c], t, t.content[c])

LEMMA CutAndPaste ==
  ASSUME NEW s \in AllSheets, NEW r \in Ranges
  PROVE  LET cut   == Cut(s, r)
             after == Paste(cut.sheet, cut.buffer, getHorizontal(r), r)
         IN  Restored(s, after)
<1> DEFINE n == getSize(r)
           cells == getCells(r)
           across == getHorizontal(r)
           copy == Copy(s, r)
           b == copy.buffer
           d == Delete(copy.sheet, r)
           t == PasteInto(d, b, cells)
           u == PasteInto(t, b, cells)
           after == Paste(d, b, across, r)
<1>1. /\ n \in Nat \ {0} /\ across \in BOOLEAN /\ r.from \in Cells
      /\ CellList(cells, n) /\ Once(cells, n) /\ DOMAIN cells = 1 .. n /\ cells = LineOf(r.from, n, across)
  BY RangeCells
<1>2. /\ copy \in Bufferings(s) /\ Len(b) = n
      /\ \A j \in 1 .. n : Written(copy.sheet, b[j]) = Written(s, s.content[cells[j]])
  BY CopyingStep
<1>3. Cut(s, r).sheet = d /\ Cut(s, r).buffer = b
  <2>1. copy \in [sheet : AllSheets, buffer : Seq(Contents(Ids))]
    BY <1>2 DEF Bufferings
  <2> HIDE DEF copy
  <2>2. Cut(s, r) = [copy EXCEPT !.sheet = d]
    BY DEF Cut, copy
  <2> QED BY <2>1, <2>2
<1> HIDE DEF copy, n, cells, across, b
<1>4. copy.sheet \in AllSheets /\ Keeps(s, copy.sheet) /\ copy.sheet.content = s.content
  BY <1>2 DEF Bufferings
<1>5. Buffered(copy.sheet, b)
  <2>1. across \in BOOLEAN
    BY <1>1
  <2> QED BY <1>2, <2>1, CopiesIndependent DEF Document, b
<1>6. /\ Follows(copy.sheet, d)
      /\ \A c \in Cells : d.content[c] = IF \E i \in 1 .. n : c = cells[i] THEN Empty ELSE copy.sheet.content[c]
  BY <1>4, DeleteStep DEF n, cells
<1> HIDE DEF d
<1>7. d \in AllSheets /\ Keeps(copy.sheet, d) /\ Buffered(d, b)
  BY <1>5, <1>6, BufferedKept DEF Follows
<1>8. b # <<>> /\ n <= Len(b) /\ \A i \in 1 .. n : b[i] \in ContentsOf(copy.sheet) /\ b[i] \in ContentsOf(d)
  <2>1. b \in Seq(ContentsOf(copy.sheet)) /\ b \in Seq(ContentsOf(d)) /\ Len(b) = n
    BY <1>2, <1>5, <1>7 DEF Buffered
  <2> QED BY <1>1, <2>1
<1>9. \A i \in 1 .. n : Written(d, b[i]) = Written(s, s.content[cells[i]])
  BY <1>2, <1>7, <1>8, WrittenKept
<1>10. PastedInto(d, b, n, cells, t)
  BY <1>1, <1>7, <1>8, PasteIntoStep
<1> HIDE DEF t
<1>11. t \in AllSheets /\ Keeps(d, t) /\ Buffered(t, b)
  BY <1>7, <1>10, BufferedKept DEF Follows, PastedInto
<1>12. PastedInto(t, b, n, cells, u)
  BY <1>1, <1>8, <1>11, PasteIntoStep
<1> HIDE DEF u
<1>13. after = t \/ after = u
  <2>1. LineOf(r.from, Len(b), across) = cells
    BY <1>1, <1>2
  <2>2. n = 1 => after = u
    BY <1>8, <2>1 DEF Paste, n, cells, t, u
  <2>3. n > 1 => after = t
    BY <1>2, <1>8 DEF Paste, n, cells, t
  <2> QED BY <1>1, <2>2, <2>3
<1>14. /\ \A i \in 1 .. n : Copied(d, b[i], t, t.content[cells[i]])
       /\ \A c \in Cells : (\A i \in 1 .. n : c # cells[i]) => t.content[c] = d.content[c]
  BY <1>1, <1>10 DEF PastedInto
<1>15. /\ \A i \in 1 .. n : Copied(t, b[i], u, u.content[cells[i]])
       /\ \A c \in Cells : (\A i \in 1 .. n : c # cells[i]) => u.content[c] = t.content[c]
  BY <1>1, <1>12 DEF PastedInto
<1>16. \A i \in 1 .. n : Written(t, b[i]) = Written(d, b[i])
  BY <1>8, <1>11, WrittenKept
<1>17. \A i \in 1 .. n : Copied(s, s.content[cells[i]], after, after.content[cells[i]])
  BY <1>9, <1>13, <1>14, <1>15, <1>16 DEF Copied
<1>18. ASSUME NEW c \in Cells, \A i \in 1 .. n : c # cells[i]
       PROVE  after.content[c] = s.content[c]
  BY <1>4, <1>6, <1>13, <1>14, <1>15, <1>18
<1>19. after \in AllSheets /\ Keeps(s, after)
  <2>1. Keeps(s, t) /\ Keeps(s, u) /\ t \in AllSheets /\ u \in AllSheets
    BY <1>4, <1>7, <1>11, <1>12, KeepsTransitive DEF PastedInto, Follows
  <2> QED BY <1>13, <2>1
<1> HIDE DEF after
<1>20. Restored(s, after)
  BY <1>17, <1>18, <1>19 DEF Restored
<1> QED BY <1>3, <1>20 DEF after, across

\* What was written into c is there in t as well.
SameWriting(s, t, c) ==
  LET x == s.content[c]
      y == t.content[c]
  IN  /\ IsFunction(x) <=> IsFunction(y)
      /\ ~IsFunction(x) => y = x
      /\ IsFunction(x) => /\ x.id \in DOMAIN s.fn /\ y.id \in DOMAIN t.fn
                          /\ t.fn[y.id].name = s.fn[x.id].name /\ t.fn[y.id].args = s.fn[x.id].args
                          /\ ~s.fn[x.id].shared => ~t.fn[y.id].shared

LEMMA RestoredWriting ==
  ASSUME NEW s \in AllSheets, NEW t, Restored(s, t), NEW c \in Cells
  PROVE  SameWriting(s, t, c) /\ Written(t, t.content[c]) = Written(s, s.content[c])
<1> DEFINE x == s.content[c]
           y == t.content[c]
<1>1. /\ x \in ContentsOf(s) /\ y \in ContentsOf(t) /\ Keeps(s, t)
      /\ IsFunction(x) => x.id \in DOMAIN s.fn
      /\ IsFunction(y) => y.id \in DOMAIN t.fn
  BY AllSheetsParts, FunctionContents DEF Restored, ContentsOf
<1> HIDE DEF x, y
<1>2. CASE y = x
  <2>1. Written(t, y) = Written(s, x)
    BY <1>1, <1>2, WrittenKept
  <2>2. SameWriting(s, t, c)
    BY <1>1, <1>2 DEF SameWriting, Keeps, x, y
  <2> QED BY <2>1, <2>2 DEF x, y
<1>3. CASE Copied(s, x, t, y)
  <2>1. CASE IsFunction(x)
    BY <1>1, <1>3, <2>1, WrittenKind DEF Copied, Written, SameWriting, x, y
  <2>2. CASE ~IsFunction(x)
    BY <1>1, <1>3, <2>2, WrittenKind DEF Copied, Written, SameWriting, x, y
  <2> QED BY <2>1, <2>2
<1> QED BY <1>2, <1>3 DEF Restored, x, y

\* A function of literals that no other cell shares is what it computes.
LEMMA OwnerComputes ==
  ASSUME NEW s \in AllSheets, Current(s), NEW c \in Cells, IsFunction(s.content[c]),
         ~s.fn[s.content[c].id].shared, OnLiterals(s, s.content[c].id)
  PROVE  LET f == s.fn[s.content[c].id]
         IN  f \in Objects /\ f.value = compute(s, f)
<1> DEFINE i == s.content[c].id
<1>1. i \in DOMAIN s.fn /\ s.fn[i] \in Objects
  BY AllSheetsParts, SheetParts, FunctionContents DEF ContentsOf
<1>2. Registered(s, i)
  BY DEF Current, CurrentBut, OwnersRegistered, OwnAt
<1>3. UpToDate(s, i)
  BY <1>1, <1>2 DEF Current, CurrentBut, RegisteredCurrent
<1> QED BY <1>1, <1>3 DEF UpToDate

\* A literal, or a function of literals that no other cell shares, has its value again.
LEMMA OwnRestored ==
  ASSUME NEW s \in AllSheets, NEW t, Current(s), Restored(s, t), Current(t), NEW c \in Cells,
         IsFunction(s.content[c]) => ~s.fn[s.content[c].id].shared /\ OnLiterals(s, s.content[c].id)
  PROVE  Own(t, t.content[c]) = Own(s, s.content[c])
<1> DEFINE x == s.content[c]
           y == t.content[c]
           f == s.fn[x.id]
           g == t.fn[y.id]
<1>1. t \in AllSheets /\ SameWriting(s, t, c)
  BY RestoredWriting DEF Restored
<1>2. CASE IsFunction(x)
  <2>1. IsFunction(y) /\ g.name = f.name /\ g.args = f.args /\ ~g.shared /\ ~f.shared /\ OnLiterals(s, x.id)
    BY <1>1, <1>2 DEF SameWriting
  <2>2. f \in Objects /\ f.value = compute(s, f)
    BY <1>2, <2>1, OwnerComputes
  <2>3. Observed(g) = Observed(f) /\ Observed(f) \subseteq Cells
    BY <2>1, <2>2, ObservedCells DEF Observed
  <2>4. ASSUME NEW d \in Observed(f) PROVE LiteralAt(s, d) /\ t.content[d] = s.content[d]
    <3>1. d \in Cells /\ LiteralAt(s, d)
      BY <2>1, <2>3 DEF OnLiterals
    <3>2. SameWriting(s, t, d)
      BY <3>1, RestoredWriting
    <3> QED BY <3>1, <3>2 DEF SameWriting, LiteralAt
  <2>5. OnLiterals(t, y.id)
    BY <2>3, <2>4 DEF OnLiterals, LiteralAt
  <2>6. g \in Objects /\ g.value = compute(t, g)
    BY <1>1, <2>1, <2>5, OwnerComputes
  <2>7. compute(s, f) = compute(t, g)
    <3>1. s \in Sheets(DOMAIN s.fn) /\ t \in Sheets(DOMAIN t.fn) /\ SameLiterals(s, t, f)
      BY <1>1, <2>4, AllSheetsParts DEF SameLiterals
    <3> QED BY <2>1, <2>2, <2>6, <3>1, ComputeAgrees
  <2> QED BY <1>2, <2>1, <2>2, <2>6, <2>7 DEF Own
<1>3. CASE ~IsFunction(x)
  BY <1>1, <1>3 DEF SameWriting, Own
<1> QED BY <1>2, <1>3

\* Settled contents show what they did.
LEMMA SettledRestored ==
  ASSUME NEW s \in AllSheets, NEW t, Current(s), Restored(s, t), Current(t), NEW c \in Cells,
         Settled(s, s.content[c])
  PROVE  Shown(t, t.content[c]) = Shown(s, s.content[c])
<1> DEFINE x == s.content[c]
<1>1. /\ t \in AllSheets /\ SameWriting(s, t, c) /\ Written(t, t.content[c]) = Written(s, x)
      /\ s \in Sheets(DOMAIN s.fn) /\ t \in Sheets(DOMAIN t.fn) /\ x \in Contents(DOMAIN s.fn)
  BY RestoredWriting, AllSheetsParts DEF Restored, ContentsOf
<1>2. CASE IsReference(x)
  <2> DEFINE d == x.cell
  <2>1. ~IsFunction(x) /\ t.content[c] = x /\ d \in Cells /\ x = Reference(d)
    BY <1>1, <1>2, ReferenceContents, Kinds DEF SameWriting, IsFunction, IsReference
  <2>2. ~IsReference(s.content[d]) /\ (IsFunction(s.content[d]) => ~s.fn[s.content[d].id].shared /\ OnLiterals(s, s.content[d].id))
    BY <1>2 DEF Settled
  <2>3. SameWriting(s, t, d)
    BY <2>1, RestoredWriting
  <2>4. ~IsReference(t.content[d])
    BY <2>2, <2>3 DEF SameWriting, IsFunction, IsReference
  <2>5. Own(t, t.content[d]) = Own(s, s.content[d])
    BY <2>1, <2>2, OwnRestored
  <2> HIDE DEF d
  <2>6. Value(t, Reference(d)) = Value(s, Reference(d))
    BY <1>1, <2>1, <2>2, <2>4, <2>5, ValueThere
  <2> QED BY <1>1, <2>1, <2>6 DEF Shown
<1>3. CASE ~IsReference(x)
  <2>1. IsFunction(x) => ~s.fn[x.id].shared /\ OnLiterals(s, x.id)
    BY <1>3 DEF Settled
  <2>2. Own(t, t.content[c]) = Own(s, x)
    BY <2>1, OwnRestored
  <2>3. ~IsReference(t.content[c])
    BY <1>1, <1>3 DEF SameWriting, IsFunction, IsReference
  <2> QED BY <1>1, <1>3, <2>2, <2>3 DEF Shown, Value
<1> QED BY <1>2, <1>3

\* Cutting a range and pasting it back brings every cell its contents again, and
\* changes the value of none that is settled (Spreadsheet.cutRange, pasteSameSize,
\* pasteFromCell, Cell.setContent).
THEOREM CutAndPasteRestores == Spec => []CutPasteRestores
<1>1. Documents /\ AllCurrent => CutPasteRestores
  <2> SUFFICES ASSUME Documents, AllCurrent, NEW r \in Ranges, NEW c \in Cells
               PROVE  LET cut   == Cut(sheet, r)
                          after == Paste(cut.sheet, cut.buffer, getHorizontal(r), r)
                      IN  /\ Written(after, after.content[c]) = Written(sheet, sheet.content[c])
                          /\ Settled(sheet, sheet.content[c]) => Shown(after, after.content[c]) = Shown(sheet, sheet.content[c])
    BY DEF CutPasteRestores
  <2> DEFINE cut   == Cut(sheet, r)
             across == getHorizontal(r)
             after == Paste(cut.sheet, cut.buffer, across, r)
  <2>1. sheet \in AllSheets /\ Current(sheet) /\ across \in BOOLEAN
    BY RangeCells DEF Documents, Document, AllCurrent
  <2>2. Restored(sheet, after)
    BY <2>1, CutAndPaste
  <2>3. cut.sheet \in AllSheets /\ Buffered(cut.sheet, cut.buffer) /\ Current(cut.sheet)
    BY <2>1, CutDocument, CutCurrent DEF Documents, Document
  <2>4. Current(after)
    BY <2>1, <2>3, PasteCurrent
  <2> HIDE DEF after
  <2>5. Written(after, after.content[c]) = Written(sheet, sheet.content[c])
    BY <2>1, <2>2, RestoredWriting
  <2>6. Settled(sheet, sheet.content[c]) => Shown(after, after.content[c]) = Shown(sheet, sheet.content[c])
    BY <2>1, <2>2, <2>4, SettledRestored
  <2> QED BY <2>5, <2>6 DEF after
<1> QED BY <1>1, CurrentAlways, PTL
=============================================================================
