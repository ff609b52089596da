----------------------------- MODULE Calculator -----------------------------
(***************************************************************************)
(* The documents of PO: xxl/core/Calculator.java with the commands of the  *)
(* menu Main (app/main DoNew, DoOpen, DoSave) around one Spreadsheet.      *)
(***************************************************************************)
EXTENDS Spreadsheet

CONSTANTS Names,      \* names of files
          NoName

ASSUME CalculatorAssumption == NoName \notin Names

VARIABLES
  filename,           \* the name that saving goes to
  files               \* files[n]: <<the sheet and buffer saved there>>, <<>> without one

calculatorVars == <<sheetVars, filename, files>>

Init ==
  /\ sheet = NewSheet /\ buffer = <<>> /\ horizontal = FALSE /\ changed = FALSE
  /\ filename = NoName
  /\ files = [n \in Names |-> <<>>]

Image == [sheet |-> sheet, buffer |-> buffer, horizontal |-> horizontal]

\* (Faulty variant for mutation: the flag goes down before the file is written.)
SaveFlagFirst(n) ==
  /\ changed' = FALSE
  /\ files' \in {files} \union (IF changed THEN {[files EXCEPT ![n] = <<Image>>]} ELSE {})

\* save: nothing for a sheet without changes.  The file may not open, and is empty
\* once it has, until all is written.
SaveTo(n) ==
  \/ ~changed /\ UNCHANGED <<changed, files>>
  \/ changed /\ files' = [files EXCEPT ![n] = <<Image>>] /\ changed' = FALSE
  \/ changed /\ files' \in {files, [files EXCEPT ![n] = <<>>]} /\ UNCHANGED changed

\* DoSave: a sheet without a name is saved under one that the user gives.
Save ==
  /\ IF filename = NoName
     THEN \E n \in Names : filename' = n /\ SaveTo(n)
     ELSE SaveTo(filename) /\ UNCHANGED filename
  /\ UNCHANGED <<sheet, buffer, horizontal>>

\* DoNew and DoOpen ask whether to save first, and go on however that ends:
\* Save is a step before them.  A new sheet keeps the name of the last one.
DoNew ==
  /\ sheet' = NewSheet /\ buffer' = <<>> /\ horizontal' = FALSE /\ changed' = FALSE
  /\ UNCHANGED <<filename, files>>

\* A file was written with the flag up, and comes back with it.
DoOpen(n) ==
  /\ files[n] # <<>>
  /\ sheet' = files[n][1].sheet /\ buffer' = files[n][1].buffer /\ horizontal' = files[n][1].horizontal
  /\ changed' = TRUE /\ filename' = n
  /\ UNCHANGED files

Next == \/ Edit /\ UNCHANGED <<filename, files>>
        \/ Save \/ DoNew
        \/ \E n \in Names : DoOpen(n)

Spec == Init /\ [][Next]_calculatorVars

(***************************************************************************)
(* A sheet that leaves no question whether to save it before it goes is    *)
(* empty, or its cells are those of its file.                              *)
(***************************************************************************)
UnchangedIsSaved ==
  ~changed =>
    \/ \A c \in Cells : sheet.content[c] = Empty
    \/ /\ files[filename] # <<>>
       /\ LET saved == files[filename][1].sheet
          IN  \A c \in Cells : Written(saved, saved.content[c]) = Written(sheet, sheet.content[c])
=============================================================================
