---------------------------- MODULE Spreadsheet ----------------------------
(***************************************************************************)
(* The spreadsheet of PO: cells, functions that observe cells, and the cut *)
(* buffer (xxl/core: Spreadsheet, Data, Cell, Function and its two kinds,  *)
(* Reference, Range, CutBuffer).                                           *)
(*                                                                         *)
(* Contents are values but for functions, which are objects with a value   *)
(* of their own and a place in the lists of observers: fn maps the objects *)
(* that a cell, the buffer or a list still holds to what they are.  Of the *)
(* functions, ADD stands for the binary ones and PRODUCT for those of a    *)
(* range, whose arguments are references to its cells.  Left out: a chain  *)
(* of references that comes back to its cell, and a division by zero,      *)
(* which end the program.                                                  *)
(***************************************************************************)
EXTENDS Integers, Sequences, SequencesExt, FiniteSets

CONSTANTS
  Rows, Columns,
  Entries,       \* what users enter: literals, references and functions
  WORD,          \* integers wrap at WORD
  MaxObjects     \* bound on the function objects that are held somewhere

VARIABLES
  sheet,         \* content, observers and fn
  buffer,        \* the contents in the cut buffer
  horizontal,    \* its direction
  changed

sheetVars == <<sheet, buffer, horizontal, changed>>

Cells == (1 .. Rows) \X (1 .. Columns)

Empty        == [kind |-> "empty"]
Number(i)    == [kind |-> "integer", int |-> i]
Error        == [kind |-> "string"]   \* "#VALUE", like every string
Reference(c) == [kind |-> "reference", cell |-> c]
Object(i)    == [kind |-> "function", id |-> i]

IsFunction(x)  == x.kind = "function"
IsReference(x) == x.kind = "reference"

\* ADD(x,y), PRODUCT(range).  Entries are contents and these two.
ADD(x, y)      == [kind |-> "entry", name |-> "ADD", args |-> <<x, y>>]
PRODUCT(cells) == [kind |-> "entry", name |-> "PRODUCT", args |-> [i \in DOMAIN cells |-> Reference(cells[i])]]

\* The literals and references that users write, alone or as arguments.
Terms == {Error} \cup {Number(i) : i \in 0 .. WORD - 1} \cup {Reference(c) : c \in Cells}

ASSUME SheetAssumption ==
  /\ Rows \in Nat \ {0} /\ Columns \in Nat \ {0} /\ WORD \in Nat \ {0, 1}
  /\ Entries \subseteq Terms \cup [kind : {"entry"}, name : {"ADD", "PRODUCT"}, args : Seq(Terms)]

createRange(from, to) == [from |-> from, to |-> to]
Ranges == {r \in [from : Cells, to : Cells] :
             /\ r.from[1] <= r.to[1] /\ r.from[2] <= r.to[2]
             /\ r.from[1] = r.to[1] \/ r.from[2] = r.to[2]}
getHorizontal(r) == r.from[1] = r.to[1]

\* The cells of a line of n cells from c on, as far as the sheet goes.
LineOf(c, n, across) ==
  LET room == IF across THEN Columns - c[2] + 1 ELSE Rows - c[1] + 1
  IN  [i \in 1 .. Min({n, room}) |-> IF across THEN <<c[1], c[2] + i - 1>> ELSE <<c[1] + i - 1, c[2]>>]

getSize(r)  == IF getHorizontal(r) THEN r.to[2] - r.from[2] + 1 ELSE r.to[1] - r.from[1] + 1
Line        == [r \in Ranges |-> LineOf(r.from, getSize(r), getHorizontal(r))]
getCells(r) == Line[r]

(***************************************************************************)
(* Values and functions.                                                   *)
(***************************************************************************)
\* A reference has the value of its cell, a function the one it keeps.
Own(s, x) == IF IsFunction(x) THEN s.fn[x.id].value ELSE x
Value(s, x) ==
  LET V[n \in 0 .. Rows * Columns] ==
        [c \in Cells |-> LET y == s.content[c]
                         IN  IF IsReference(y) /\ n > 0 THEN V[n - 1][y.cell] ELSE Own(s, y)]
  IN  IF IsReference(x) THEN V[Rows * Columns][x.cell] ELSE Own(s, x)

compute(s, f) ==
  LET values == [i \in DOMAIN f.args |-> Value(s, f.args[i])]
      Combine(m, v) == IF f.name = "ADD" THEN (m + v.int) % WORD ELSE (m * v.int) % WORD
  IN  IF \A i \in DOMAIN values : values[i].kind = "integer"
      THEN Number(FoldLeft(Combine, IF f.name = "ADD" THEN 0 ELSE 1, values))
      ELSE Error

update(s, id) == [s EXCEPT !.fn[id].value = compute(s, s.fn[id])]

\* The cells a function observes.
Observed(f) == {f.args[i].cell : i \in {j \in DOMAIN f.args : IsReference(f.args[j])}}

\* The constructors of BinaryFunction and IntervalFunction go over the arguments; a
\* cell that is there twice is told of the function twice.
Register(s, x, id) == IF IsReference(x) THEN [s EXCEPT !.observers[x.cell] = Append(@, id)] ELSE s
Construct(s, entry, id) ==
  LET f == [name |-> entry.name, args |-> entry.args, value |-> Error, shared |-> FALSE]
      made == [s EXCEPT !.fn = [i \in DOMAIN s.fn \cup {id} |-> IF i = id THEN f ELSE s.fn[i]]]
  IN  update(FoldLeft(LAMBDA t, x : Register(t, x, id), made, f.args), id)

Leave(s, x, id) == IF IsReference(x) THEN [s EXCEPT !.observers[x.cell] = RemoveFirst(@, id)] ELSE s
unsubscribe(s, id) == FoldLeft(LAMBDA t, x : Leave(t, x, id), s, s.fn[id].args)

\* An independent copy: a function becomes a new object.  No object is at work
\* under a free number.
Fresh(s) == CHOOSE i \in 1 .. Cardinality(DOMAIN s.fn) + 1 :
              i \notin DOMAIN s.fn /\ \A j \in 1 .. i - 1 : j \in DOMAIN s.fn
Made(s, x) == [sheet |-> s, content |-> x]
copyContent(s, x) ==
  IF IsFunction(x) THEN Made(Construct(s, s.fn[x.id], Fresh(s)), Object(Fresh(s))) ELSE Made(s, x)

\* Parser.parseContent: a function is constructed, and so registered, at once.
parseContent(s, entry) ==
  IF entry.kind = "entry" THEN Made(Construct(s, entry, Fresh(s)), Object(Fresh(s))) ELSE Made(s, entry)

(***************************************************************************)
(* Cells.                                                                  *)
(***************************************************************************)
notifyCellObserver(s, c) == FoldLeft(update, s, s.observers[c])

\* (Faulty variant for mutation: the observers are told before the change only.)
StoreEarly(s, c, x) == [notifyCellObserver(s, c) EXCEPT !.content[c] = x]

\* addContent2Data and deleteCellFromData, with Cell.setContent: the observers
\* compute before the change and after it.
Store(s, c, x) == notifyCellObserver([notifyCellObserver(s, c) EXCEPT !.content[c] = x], c)

setContent(s, c, x) ==
  Store(IF IsFunction(s.content[c]) THEN unsubscribe(s, s.content[c].id) ELSE s, c, x)

deleteContent(s, c) == setContent(s, c, Empty)

\* What only the buffer b, a cell or a list of observers leads to is kept.
Collect(s, b) ==
  LET held == {i \in DOMAIN s.fn : \/ Contains(b, Object(i))
                                   \/ \E c \in Cells : s.content[c] = Object(i) \/ Contains(s.observers[c], i)}
  IN  [s EXCEPT !.fn = [i \in held |-> s.fn[i]]]

(***************************************************************************)
(* Ranges.                                                                 *)
(***************************************************************************)
\* One object goes into every cell of the range: shared records when that is more
\* than one.
Insert(s, r, entry) ==
  LET made == parseContent(s, entry)
      all  == FoldLeft(LAMBDA t, c : setContent(t, c, made.content), made.sheet, getCells(r))
  IN  IF IsFunction(made.content) /\ getSize(r) > 1
      THEN [all EXCEPT !.fn[made.content.id].shared = TRUE] ELSE all

Delete(s, r) == FoldLeft(deleteContent, s, getCells(r))

\* (Faulty variant for mutation: the buffer takes the contents themselves.)
CopyAlike(s, r) == [sheet |-> s, buffer |-> [i \in 1 .. getSize(r) |-> s.content[getCells(r)[i]]]]

\* copyRangeToCutBuffer.  What the buffer had stays registered.
Take(t, c) == LET copy == copyContent(t.sheet, t.sheet.content[c])
              IN  [sheet |-> copy.sheet, buffer |-> Append(t.buffer, copy.content)]
Copy(s, r) == FoldLeft(Take, [sheet |-> s, buffer |-> <<>>], getCells(r))

\* (Faulty variant for mutation: the range is cleared before it is copied.)
CutEarly(s, r) == Copy(Delete(s, r), r)

\* cutBufferCut
Cut(s, r) == LET copy == Copy(s, r) IN [copy EXCEPT !.sheet = Delete(@, r)]

\* Copies of the contents of the buffer go into the cells, one into each.
Put(s, x, c) == LET copy == copyContent(s, x)
                IN  setContent(deleteContent(copy.sheet, c), c, copy.content)
PasteInto(s, b, cells) ==
  FoldLeft(LAMBDA t, i : Put(t, b[i], cells[i]), s, [i \in DOMAIN cells |-> i])

\* cutBufferPaste: from one cell on the buffer goes its own way as far as the sheet
\* goes, and its first content then once more into the cell; otherwise the
\* sizes agree, and the range has the direction.
Paste(s, b, across, r) ==
  LET line == LineOf(r.from, Len(b), across)
  IN  CASE b = <<>> -> s
        [] b # <<>> /\ getSize(r) = 1 -> PasteInto(PasteInto(s, b, line), b, getCells(r))
        [] b # <<>> /\ getSize(r) > 1 /\ getSize(r) = Len(b) -> PasteInto(s, b, getCells(r))
        [] OTHER -> s

Pastes(b, r) == b # <<>> /\ (getSize(r) = 1 \/ getSize(r) = Len(b))

(***************************************************************************)
(* The commands of the menu Edit.                                          *)
(***************************************************************************)
NewSheet == [content |-> [c \in Cells |-> Empty], observers |-> [c \in Cells |-> <<>>], fn |-> <<>>]

\* No reference comes back to its cell.
Grounded(s) ==
  \A c \in Cells :
    LET Then[n \in Nat, d \in Cells] ==
          IF IsReference(s.content[d]) THEN n > 0 /\ Then[n - 1, s.content[d].cell] ELSE TRUE
    IN  Then[Rows * Columns, c]

Becomes(s, b, across) ==
  /\ sheet' = Collect(s, b) /\ buffer' = b /\ horizontal' = across
  /\ Grounded(s) /\ Cardinality(DOMAIN sheet'.fn) <= MaxObjects

insertContentInRange(r, entry) ==
  Becomes(Insert(sheet, r, entry), buffer, horizontal) /\ changed' = TRUE

\* The content is parsed before the range turns out to be none.
InsertNowhere(entry) ==
  Becomes(parseContent(sheet, entry).sheet, buffer, horizontal) /\ UNCHANGED changed

deleteContentInRange(r) == Becomes(Delete(sheet, r), buffer, horizontal) /\ changed' = TRUE

cutBufferCopy(r) ==
  LET copy == Copy(sheet, r)
  IN  Becomes(copy.sheet, copy.buffer, getHorizontal(r)) /\ UNCHANGED changed

cutBufferCut(r) ==
  LET cut == Cut(sheet, r)
  IN  Becomes(cut.sheet, cut.buffer, getHorizontal(r)) /\ changed' = TRUE

cutBufferPaste(r) ==
  /\ Becomes(Paste(sheet, buffer, horizontal, r), buffer, horizontal)
  /\ changed' = (changed \/ Pastes(buffer, r))

Edit == \/ \E r \in Ranges, entry \in Entries : insertContentInRange(r, entry)
        \/ \E entry \in Entries : InsertNowhere(entry)
        \/ \E r \in Ranges : deleteContentInRange(r) \/ cutBufferCopy(r) \/ cutBufferCut(r) \/ cutBufferPaste(r)

(***************************************************************************)
(* Properties.                                                             *)
(***************************************************************************)
Held(s) == {s.content[c].id : c \in {d \in Cells : IsFunction(s.content[d])}}

\* The content of c, and all that the function i observes, is a literal or empty.
LiteralAt(s, c)  == ~IsFunction(s.content[c]) /\ ~IsReference(s.content[c])
OnLiterals(s, i) == \A c \in Observed(s.fn[i]) : LiteralAt(s, c)

\* A function whose arguments are literals or empty cells shows what it computes
\* from them now, whatever was inserted, deleted, cut and pasted.  Functions that
\* one command put into several cells are left out: taking one of the cells
\* away unsubscribes the object that the others share.
LiteralsCurrent ==
  \A id \in Held(sheet) :
    ~sheet.fn[id].shared /\ OnLiterals(sheet, id) => sheet.fn[id].value = compute(sheet, sheet.fn[id])

\* The cut buffer is an independent copy: none of its functions is in a cell.
BufferIndependent == \A id \in Held(sheet) : Object(id) \notin ToSet(buffer)

\* What was written into a cell, and what a user sees of it: the value comes first
\* (toString of Reference, BinaryFunction and IntervalFunction).
Written(s, x) == IF IsFunction(x) THEN [name |-> s.fn[x.id].name, args |-> s.fn[x.id].args] ELSE x
Shown(s, x)   == [value |-> Value(s, x), content |-> Written(s, x)]

\* x, or the content that x refers to, is a literal, or a function of literals that
\* no other cell shares.
Settled(s, x) ==
  LET y == IF IsReference(x) THEN s.content[x.cell] ELSE x
  IN  ~IsReference(y) /\ (IsFunction(y) => ~s.fn[y.id].shared /\ OnLiterals(s, y.id))

\* A range that is cut and pasted at once where it was has its contents again,
\* and it and the rest of the sheet show what they did; but what is not settled,
\* like a function of functions, may show another value: nothing tells it when
\* what it observes has computed.
CutPasteRestores ==
  \A r \in Ranges :
    LET cut   == Cut(sheet, r)
        after == Paste(cut.sheet, cut.buffer, getHorizontal(r), r)
    IN  \A c \in Cells :
          /\ Written(after, after.content[c]) = Written(sheet, sheet.content[c])
          /\ Settled(sheet, sheet.content[c]) => Shown(after, after.content[c]) = Shown(sheet, sheet.content[c])
=============================================================================
