------------------------ MODULE ConflictMergeProofs -------------------------
(***************************************************************************)
(* Proofs about ConflictMerge, for every number of sheets, rows, columns   *)
(* and texts: what the variables hold (ShapeInv), which conflicts the tool *)
(* has met and marked (ClashInv), and what every data cell holds at every  *)
(* moment (DataInv).                                                       *)
(***************************************************************************)
EXTENDS ConflictMerge, TLAPS

(* The choice that Merger::mergeRow was given.                             *)
Choice ==
  IF tool = "ssmerge" /\ pc \notin {"resolve", "resolved"} THEN resolve ELSE "none"

HasClash(s) == \E r \in Rows : Clashes(s, r) # {}

ConflictsInOneSheet ==
  \A s, t \in Sheets : HasClash(s) /\ HasClash(t) => s = t

(* A sheet with or without a _MERGE_ column.                               *)
SheetOf(s) ==
  [cells : [Rows -> [1 .. Width[s] -> Cell]], merge : {0}]
    \cup [cells : [Rows -> [1 .. Width[s] + 1 -> Cell]], merge : {Width[s] + 1}]

InRows(p) == p \in {"rows", "crash"}

BookOK ==
  (\A s \in Sheets : book[s] \in SheetOf(s)) /\ book = [s \in Sheets |-> book[s]]

(* What the variables hold.                                                *)
ShapeInv ==
  /\ pivot \in Books(Ancestor) /\ local \in Books(Data) /\ remote \in Books(Data)
  /\ tool \in {"ssmerge", "sspatch"}
  /\ resolve \in {"none", "ours", "theirs", "neither"}
  /\ pc \in {"sheet", "rows", "conflicted", "done", "resolve", "resolved",
            "crash"}
  /\ at \in 1 .. Len(Width) + 1
  /\ (pc \in {"sheet", "rows", "crash", "resolve"}) = (at \in Sheets)
  /\ pc \in {"resolve", "resolved"} => tool = "ssmerge" /\ resolve # "none"
  /\ rc \subseteq (IF InRows(pc) THEN mergeRow(at, Choice) ELSE {})
  /\ readyForConflicts \in BOOLEAN /\ conflicted \in BOOLEAN
  /\ conflictColumn \in Nat
  /\ BookOK

(* Merger has been over sheet s.                                           *)
Seen(s) == pc \in {"resolve", "resolved"} \/ s < at \/ (s = at /\ InRows(pc))

(* The change of row r of sheet s, if there is one, has been dealt with.   *)
Merged(s, r) ==
  \/ pc \in {"resolve", "resolved"} \/ s < at
  \/ s = at /\ InRows(pc) /\ \A change \in rc : change.row # r

(* Patcher::setConflicted was called if a conflict was met.                *)
StatusInv ==
  /\ conflicted <=> Choice = "none" /\ \E s \in Sheets : Seen(s) /\ HasClash(s)
  /\ pc = "conflicted" => tool = "ssmerge" /\ conflicted
  /\ pc = "done" /\ tool = "ssmerge" => ~conflicted

(* The column for marks is that of a sheet with conflicts, and is known    *)
(* once a row in conflict has been dealt with.                             *)
ReadyInv ==
  /\ readyForConflicts =>
       /\ tool = "ssmerge" /\ Choice = "none"
       /\ \E s \in Sheets :
            /\ HasClash(s) /\ Seen(s) /\ conflictColumn = Width[s] + 1
            /\ pc \notin {"resolve", "resolved"} => book[s].merge # 0
  /\ tool = "ssmerge" /\ Choice = "none" =>
       \A s \in Sheets, r \in Rows :
         Merged(s, r) /\ Clashes(s, r) # {} => readyForConflicts

(* Where there are _MERGE_ columns.                                        *)
ColumnInv ==
  /\ \A s \in Sheets : book[s].merge # 0 =>
       s \in Leftover \/ (tool = "ssmerge" /\ HasClash(s))
  /\ pc = "resolve" => \A s \in Sheets : s < at => book[s].merge = 0
  /\ pc = "resolved" => \A s \in Sheets : book[s].merge = 0

ClashInv == StatusInv /\ ReadyInv /\ ColumnInv

(* BookCompare::resolve has been over sheet s.                             *)
Resolved(s) == pc = "resolved" \/ (pc = "resolve" /\ s < at)
-----------------------------------------------------------------------------
(* A function on 1..n is a sequence, and a cell can be added to a row.     *)
LEMMA RowIsSeq ==
  ASSUME NEW n \in Nat, NEW S, NEW f \in [1 .. n -> S]
  PROVE  f \in Seq(S) /\ Len(f) = n
  BY SMT

LEMMA RowAppend ==
  ASSUME NEW n \in Nat, NEW S, NEW f \in [1 .. n -> S], NEW e \in S
  PROVE  /\ Append(f, e) \in [1 .. n + 1 -> S]
         /\ \A c \in 1 .. n : Append(f, e)[c] = f[c]
         /\ Append(f, e)[n + 1] = e
  <1>1. f \in Seq(S) /\ Len(f) = n
    BY Zenon, RowIsSeq
  <1>2. /\ Append(f, e) \in Seq(S)
        /\ Len(Append(f, e)) = n + 1
        /\ \A c \in 1 .. n : Append(f, e)[c] = f[c]
        /\ Append(f, e)[n + 1] = e
    BY <1>1
  <1>3. Append(f, e) \in [1 .. n + 1 -> S]
    <2> DEFINE g == Append(f, e)
    <2>1. g \in Seq(S) /\ Len(g) = n + 1
      BY <1>2
    <2> HIDE DEF g
    <2>2. g = [c \in 1 .. Len(g) |-> g[c]] /\ \A c \in 1 .. Len(g) : g[c] \in S
      BY <2>1
    <2>3. g \in [1 .. n + 1 -> S]
      BY <2>1, <2>2
    <2> QED
      BY Zenon, <2>3 DEF g
  <1> QED
    BY Zenon, <1>2, <1>3

LEMMA SheetFacts ==
  /\ Sheets = 1 .. Len(Width) /\ Len(Width) \in Nat /\ 1 \in Sheets
  /\ \A s \in Sheets : s \in Nat /\ Width[s] \in Nat
  /\ \A r \in Rows : r \in Nat
  <1>1. Width \in Seq(Nat) /\ Width # <<>> /\ Height \in Nat
    BY Zenon, ConstantsOK
  <1>2. Len(Width) \in Nat /\ Len(Width) # 0 /\ DOMAIN Width = 1 .. Len(Width)
    BY <1>1
  <1>3. \A s \in 1 .. Len(Width) : Width[s] \in Nat
    BY <1>1
  <1>4. \A r \in Rows : r \in Nat
    BY <1>1 DEF Rows
  <1>5. Sheets = 1 .. Len(Width)
    BY Zenon, <1>2 DEF Sheets
  <1> QED
    BY <1>2, <1>3, <1>4, <1>5

LEMMA BookCell ==
  ASSUME NEW D, NEW b \in Books(D), NEW s \in Sheets, NEW r \in Rows
  PROVE  b[s][r] \in [Cols(s) -> D] /\ \A c \in Cols(s) : b[s][r][c] \in D
  BY Zenon DEF Books

(* What a row change says.                                                 *)
LEMMA ChangeFacts ==
  ASSUME NEW s, NEW r, NEW choice,
         NEW change, change = RowChange(s, r, choice)
  PROVE  /\ change.row = r
         /\ DOMAIN change.val =
              {c \in Cols(s) : Novel(pivot[s][r][c], local[s][r][c],
                                     remote[s][r][c], choice)}
         /\ \A c \in DOMAIN change.val :
              change.val[c] = MergedCell(pivot[s][r][c], local[s][r][c],
                                         remote[s][r][c], choice)
         /\ DOMAIN change.conflictingVal =
              IF choice = "none" THEN Clashes(s, r) ELSE {}
         /\ DOMAIN change.conflictingParentVal = DOMAIN change.conflictingVal
         /\ \A c \in DOMAIN change.conflictingVal :
              /\ change.conflictingVal[c] = remote[s][r][c]
              /\ change.conflictingParentVal[c] = pivot[s][r][c]
         /\ change.conflicted <=> choice = "none" /\ Clashes(s, r) # {}
         /\ change.conflicted \in BOOLEAN
  BY Zenon DEF RowChange, Clashes, Novel, InConflict

LEMMA DataFacts ==
  /\ Data \subseteq Cell /\ Null \in Cell /\ Mark \in Cell
  /\ ConflictText \subseteq Cell /\ Ancestor \subseteq Data
  /\ \A d \in Data : toString(d) \in Text \cup {NullText}
  BY Zenon, ConstantsOK DEF Data, Cell, toString

LEMMA MergedCellType ==
  ASSUME NEW p \in Data, NEW l \in Data, NEW x \in Data,
         NEW choice \in {"none", "ours", "theirs", "neither"}
  PROVE  MergedCell(p, l, x, choice) \in Data
  BY Zenon DEF MergedCell, Pick

(* The values of a change, and of what emitRow makes of it, are cells of   *)
(* the sheet's data columns.                                               *)
LEMMA ChangeType ==
  ASSUME ShapeInv, NEW s \in Sheets, NEW r \in Rows,
         NEW choice \in {"none", "ours", "theirs", "neither"},
         NEW change, change = RowChange(s, r, choice)
  PROVE  /\ emitRow(change).row = r
         /\ DOMAIN emitRow(change).val = DOMAIN change.val
         /\ DOMAIN change.val \subseteq Cols(s)
         /\ DOMAIN change.conflictingVal \subseteq DOMAIN change.val
         /\ \A c \in DOMAIN change.val : change.val[c] \in Data
         /\ \A c \in DOMAIN change.conflictingVal :
              change.conflictingVal[c] \in Data /\ change.conflictingParentVal[c] \in Data
         /\ \A c \in DOMAIN change.val : emitRow(change).val[c] \in Data
  <1> DEFINE P == pivot[s][r]  L == local[s][r]  R == remote[s][r]
  <1>1. \A c \in Cols(s) : P[c] \in Data /\ L[c] \in Data /\ R[c] \in Data
    BY Zenon, BookCell, DataFacts DEF ShapeInv
  <1>2. /\ change.row = r
        /\ change.conflicted \in BOOLEAN
        /\ DOMAIN change.val = {c \in Cols(s) : Novel(P[c], L[c], R[c], choice)}
        /\ \A c \in DOMAIN change.val :
             change.val[c] = MergedCell(P[c], L[c], R[c], choice)
        /\ DOMAIN change.conflictingVal = IF choice = "none" THEN Clashes(s, r) ELSE {}
        /\ DOMAIN change.conflictingParentVal = DOMAIN change.conflictingVal
        /\ \A c \in DOMAIN change.conflictingVal :
             change.conflictingVal[c] = R[c] /\ change.conflictingParentVal[c] = P[c]
    BY ChangeFacts
  <1>3. /\ DOMAIN change.val \subseteq Cols(s)
        /\ DOMAIN change.conflictingVal \subseteq DOMAIN change.val
    BY Zenon, <1>2 DEF Clashes, Novel, InConflict
  <1>4. \A c \in DOMAIN change.val : change.val[c] \in Data
    <2>1. SUFFICES ASSUME NEW c \in DOMAIN change.val
                   PROVE  change.val[c] \in Data
      OBVIOUS
    <2>2. c \in Cols(s) /\ change.val[c] = MergedCell(P[c], L[c], R[c], choice)
      BY Zenon, <1>2, <1>3
    <2> QED
      BY <2>2, <1>1, MergedCellType
  <1>5. \A c \in DOMAIN change.conflictingVal :
          change.conflictingVal[c] \in Data /\ change.conflictingParentVal[c] \in Data
    BY Zenon, <1>1, <1>2, <1>3
  <1>6. change = [row |-> change.row, val |-> change.val,
                  conflictingVal |-> change.conflictingVal,
                  conflictingParentVal |-> change.conflictingParentVal,
                  conflicted |-> change.conflicted]
    BY Zenon DEF RowChange
  <1>7. /\ emitRow(change).row = r
        /\ DOMAIN emitRow(change).val = DOMAIN change.val
        /\ \A c \in DOMAIN change.val : emitRow(change).val[c] \in Data
    <2>1. CASE tool = "sspatch" /\ resolve # "none" /\ change.conflicted
      <3> DEFINE chosen == IF resolve = "theirs" THEN change.conflictingVal
                           ELSE change.conflictingParentVal
      <3>1. /\ emitRow(change).row = change.row
            /\ emitRow(change).val =
                 [c \in DOMAIN change.val |->
                    IF c \in DOMAIN chosen THEN chosen[c] ELSE change.val[c]]
        BY Zenon, <2>1, <1>6 DEF emitRow, Chosen
      <3>2. \A c \in DOMAIN chosen : chosen[c] \in Data
        BY Zenon, <1>2, <1>5
      <3> QED
        BY <3>1, <3>2, <1>2, <1>4
    <2>2. CASE ~(tool = "sspatch" /\ resolve # "none" /\ change.conflicted)
      BY Zenon, <2>2, <1>2, <1>4 DEF emitRow
    <2> QED
      BY Zenon, <2>1, <2>2
  <1> QED
    BY Zenon, <1>3, <1>4, <1>5, <1>7

LEMMA PlainRowShape ==
  ASSUME NEW n \in Nat, NEW row \in [1 .. n -> Cell], NEW change,
         \A c \in DOMAIN change.val : change.val[c] \in Cell
  PROVE  PlainRow(row, change) \in [1 .. n -> Cell]
  BY Zenon DEF PlainRow

LEMMA ConflictedRowShape ==
  ASSUME NEW n \in Nat, NEW row \in [1 .. n -> Cell], NEW change, NEW mark,
         DOMAIN change.conflictingVal \subseteq DOMAIN change.val,
         \A c \in DOMAIN change.val : change.val[c] \in Data,
         \A c \in DOMAIN change.conflictingVal :
           change.conflictingVal[c] \in Data /\ change.conflictingParentVal[c] \in Data
  PROVE  ConflictedRow(row, change, mark) \in [1 .. n -> Cell]
  <1> DEFINE triple(k) == [pivot |-> toString(change.conflictingParentVal[k]),
                           local |-> toString(change.val[k]),
                           remote |-> toString(change.conflictingVal[k])]
  <1>1. \A k \in DOMAIN change.conflictingVal : triple(k) \in ConflictText
    BY Zenon, DataFacts DEF ConflictText
  <1>2. \A k \in DOMAIN change.conflictingVal : triple(k) \in Cell
    BY Zenon, <1>1, DataFacts
  <1>3. ConflictedRow(row, change, mark) =
          [k \in 1 .. n |->
             IF k = mark /\ (k \in DOMAIN change.conflictingVal =>
                               \E c \in DOMAIN change.val : c > k) THEN Mark
             ELSE IF k \in DOMAIN change.conflictingVal THEN triple(k) ELSE row[k]]
    BY Zenon DEF ConflictedRow
  <1> HIDE DEF triple
  <1> QED
    BY Zenon, <1>2, <1>3, DataFacts

LEMMA ResolvedCellType ==
  ASSUME NEW cell \in Cell, NEW choice \in {"ours", "theirs", "neither"}
  PROVE  ResolvedCell(cell, choice) \in Cell
  BY Zenon DEF ResolvedCell, Cell, ConflictText, Pick

(* A sheet whose rows have a _MERGE_ column loses it.                      *)
LEMMA ResolvedShape ==
  ASSUME NEW s \in Sheets, NEW sheet \in SheetOf(s),
         NEW choice \in {"ours", "theirs", "neither"}
  PROVE  /\ ResolvedSheet(sheet, choice) \in SheetOf(s)
         /\ ResolvedSheet(sheet, choice).merge = 0
         /\ \A r \in Rows, c \in Cols(s) :
              ResolvedSheet(sheet, choice).cells[r][c] =
                IF sheet.merge # 0 /\ sheet.cells[r][sheet.merge] = Mark
                THEN ResolvedCell(sheet.cells[r][c], choice)
                ELSE sheet.cells[r][c]
  <1>1. Width[s] \in Nat
    BY Zenon, SheetFacts
  <1>2. CASE sheet.merge = 0
    BY Zenon, <1>1, <1>2 DEF ResolvedSheet, SheetOf
  <1>3. CASE sheet.merge # 0
    <2>1. /\ sheet.merge = Width[s] + 1
          /\ sheet.cells \in [Rows -> [1 .. Width[s] + 1 -> Cell]]
      BY Zenon, <1>1, <1>3 DEF SheetOf
    <2> DEFINE kept(r) == [c \in 1 .. Width[s] |-> sheet.cells[r][c]]
    <2>2. ASSUME NEW r \in Rows
          PROVE  WithoutColumn(sheet.cells[r], sheet.merge) = kept(r)
      <3>1. sheet.cells[r] \in [1 .. Width[s] + 1 -> Cell]
        BY Zenon, <2>1
      <3>2. Len(sheet.cells[r]) = Width[s] + 1
        BY <3>1, <1>1, RowIsSeq
      <3>3. WithoutColumn(sheet.cells[r], sheet.merge) =
              [c \in 1 .. Width[s] |-> IF c < Width[s] + 1 THEN sheet.cells[r][c]
                                       ELSE sheet.cells[r][c + 1]]
        BY <3>2, <2>1, <1>1 DEF WithoutColumn
      <3> QED
        BY <3>3, <1>1
    <2> DEFINE after(r) == IF sheet.cells[r][sheet.merge] = Mark
                           THEN [c \in 1 .. Width[s] |-> ResolvedCell(sheet.cells[r][c], choice)]
                           ELSE kept(r)
    <2>3. ASSUME NEW r \in Rows
          PROVE  after(r) \in [1 .. Width[s] -> Cell]
      BY <2>1, ResolvedCellType, <1>1
    <2>4. ResolvedSheet(sheet, choice) =
            [cells |-> [r \in Rows |-> after(r)], merge |-> 0]
      <3> DEFINE row(r) == sheet.cells[r]
                 left(r) == WithoutColumn(row(r), sheet.merge)
                 new(r) == IF row(r)[sheet.merge] = Mark
                           THEN [c \in DOMAIN left(r) |-> ResolvedCell(left(r)[c], choice)]
                           ELSE left(r)
      <3>1. ResolvedSheet(sheet, choice) =
              [cells |-> [r \in Rows |-> new(r)], merge |-> 0]
        BY Zenon, <1>3 DEF ResolvedSheet
      <3>2. ASSUME NEW r \in Rows
            PROVE  new(r) = after(r)
        <4>1. left(r) = kept(r)
          BY Zenon, <2>2
        <4> HIDE DEF left
        <4> QED
          BY Zenon, <4>1
      <3> HIDE DEF new, after
      <3> QED
        BY Zenon, <3>1, <3>2
    <2>5. [r \in Rows |-> after(r)] \in [Rows -> [1 .. Width[s] -> Cell]]
      BY Zenon, <2>3
    <2>6. \A r \in Rows, c \in 1 .. Width[s] :
            after(r)[c] = IF sheet.cells[r][sheet.merge] = Mark
                          THEN ResolvedCell(sheet.cells[r][c], choice)
                          ELSE sheet.cells[r][c]
      OBVIOUS
    <2> HIDE DEF after
    <2>7. /\ ResolvedSheet(sheet, choice).merge = 0
          /\ ResolvedSheet(sheet, choice).cells = [r \in Rows |-> after(r)]
          /\ ResolvedSheet(sheet, choice) \in SheetOf(s)
      BY <2>4, <2>5 DEF SheetOf
    <2> QED
      BY <2>6, <2>7, <1>3 DEF Cols
  <1> QED
    BY Zenon, <1>2, <1>3
-----------------------------------------------------------------------------
LEMMA InitShape == Init => ShapeInv
  <1>1. SUFFICES ASSUME Init PROVE ShapeInv
    OBVIOUS
  <1>2. PICK leftover \in SUBSET Leftover :
          book = [s \in Sheets |->
                    IF s \in leftover
                    THEN [cells |-> [r \in Rows |-> Append(local[s][r], Null)],
                          merge |-> Width[s] + 1]
                    ELSE [cells |-> local[s], merge |-> 0]]
    BY Zenon, <1>1 DEF Init
  <1>3. ASSUME NEW s \in Sheets
        PROVE  book[s] \in SheetOf(s)
    <2>1. Width[s] \in Nat
      BY Zenon, SheetFacts
    <2>2. local[s] \in [Rows -> [1 .. Width[s] -> Cell]]
      <3>1. \A r \in Rows : local[s][r] \in [1 .. Width[s] -> Cell]
        BY <1>1, BookCell, DataFacts DEF Init, Cols
      <3>2. local[s] = [r \in Rows |-> local[s][r]]
        BY Zenon, <1>1 DEF Init, Books
      <3> QED
        BY Zenon, <3>1, <3>2
    <2>3. \A r \in Rows : Append(local[s][r], Null) \in [1 .. Width[s] + 1 -> Cell]
      BY Zenon, <2>1, <2>2, RowAppend, DataFacts
    <2>4. CASE s \in leftover
      BY Zenon, <1>2, <2>3, <2>4 DEF SheetOf
    <2>5. CASE s \notin leftover
      BY Zenon, <1>2, <2>2, <2>5 DEF SheetOf
    <2> QED
      BY Zenon, <2>4, <2>5
  <1>4. book = [s \in Sheets |-> book[s]]
    BY Zenon, <1>2
  <1>5. at \in 1 .. Len(Width) + 1 /\ at \in Sheets
    BY <1>1, SheetFacts DEF Init
  <1>6. tool \in {"ssmerge", "sspatch"} /\ resolve \in {"none", "ours", "theirs", "neither"}
    BY Zenon, <1>1, ConstantsOK DEF Init
  <1>7. rc \subseteq (IF InRows(pc) THEN mergeRow(at, Choice) ELSE {})
    BY Zenon, <1>1 DEF Init
  <1> QED
    BY Zenon, <1>1, <1>3, <1>4, <1>5, <1>6, <1>7 DEF Init, ShapeInv, BookOK

(* Rows on the way: what a change in rc is.                                *)
LEMMA PendingChange ==
  ASSUME ShapeInv, pc = "rows", NEW change \in rc
  PROVE  /\ at \in Sheets
         /\ \E r \in Rows : change = RowChange(at, r, Choice)
         /\ DOMAIN change.val # {}
         /\ Choice \in {"none", "ours", "theirs", "neither"}
  BY Zenon DEF ShapeInv, mergeRow, InRows, Choice

LEMMA SameChanges ==
  ASSUME UNCHANGED inputs, NEW s, NEW r, NEW choice
  PROVE  RowChange(s, r, choice)' = RowChange(s, r, choice)
  BY Zenon DEF inputs, RowChange

LEMMA SameRows ==
  ASSUME UNCHANGED inputs, NEW s, NEW choice
  PROVE  mergeRow(s, choice)' = mergeRow(s, choice)
  BY Zenon, SameChanges DEF mergeRow

(* Replacing a sheet by one of the same shape.                             *)
LEMMA ReplaceSheet ==
  ASSUME BookOK, NEW s \in Sheets, NEW sheet \in SheetOf(s),
         book' = [book EXCEPT ![s] = sheet]
  PROVE  /\ BookOK'
         /\ book'[s] = sheet
         /\ \A t \in Sheets \ {s} : book'[t] = book[t]
  BY Zenon DEF BookOK

(* Patching a row without conflict.                                        *)
LEMMA PlainShape ==
  ASSUME ShapeInv, pc = "rows", NEW change \in rc,
         book' = [book EXCEPT ![at].cells[change.row] = PlainRow(@, emitRow(change))]
  PROVE  /\ BookOK'
         /\ \A t \in Sheets : book'[t].merge = book[t].merge
         /\ \A t \in Sheets, r \in Rows :
              book'[t].cells[r] = IF t = at /\ r = change.row
                                  THEN PlainRow(book[t].cells[r], emitRow(change))
                                  ELSE book[t].cells[r]
  <1>1. /\ at \in Sheets /\ change.row \in Rows
        /\ \A c \in DOMAIN emitRow(change).val : emitRow(change).val[c] \in Cell
    BY PendingChange, ChangeFacts, ChangeType, DataFacts
  <1> DEFINE row == PlainRow(book[at].cells[change.row], emitRow(change))
             sheet == [book[at] EXCEPT !.cells[change.row] = row]
  <1>2. Width[at] \in Nat /\ book[at] \in SheetOf(at)
    BY Zenon, <1>1, SheetFacts DEF ShapeInv, BookOK
  <1>3. /\ sheet \in SheetOf(at) /\ sheet.merge = book[at].merge
        /\ \A r \in Rows : sheet.cells[r] = IF r = change.row THEN row
                                             ELSE book[at].cells[r]
    <2>1. CASE book[at] \in [cells : [Rows -> [1 .. Width[at] -> Cell]], merge : {0}]
      <3>1. row \in [1 .. Width[at] -> Cell]
        BY Zenon, <1>1, <1>2, <2>1, PlainRowShape
      <3> HIDE DEF row
      <3> QED
        BY Zenon, <1>1, <2>1, <3>1 DEF SheetOf
    <2>2. CASE book[at] \in [cells : [Rows -> [1 .. Width[at] + 1 -> Cell]],
                             merge : {Width[at] + 1}]
      <3>1. row \in [1 .. Width[at] + 1 -> Cell]
        <4>1. Width[at] + 1 \in Nat
          BY <1>2
        <4>2. book[at].cells[change.row] \in [1 .. Width[at] + 1 -> Cell]
          BY Zenon, <1>1, <2>2
        <4> QED
          BY Zenon, <1>1, <4>1, <4>2, PlainRowShape
      <3> HIDE DEF row
      <3> QED
        BY Zenon, <1>1, <2>2, <3>1 DEF SheetOf
    <2> QED
      BY Zenon, <1>2, <2>1, <2>2 DEF SheetOf
  <1>4. book' = [book EXCEPT ![at] = sheet]
    OBVIOUS
  <1> HIDE DEF sheet
  <1>5. BookOK' /\ book'[at] = sheet /\ \A t \in Sheets \ {at} : book'[t] = book[t]
    BY ZenonT(30), <1>1, <1>3, <1>4, ReplaceSheet DEF ShapeInv
  <1>6. ASSUME NEW t \in Sheets
        PROVE  /\ book'[t].merge = book[t].merge
               /\ \A r \in Rows :
                    book'[t].cells[r] = IF t = at /\ r = change.row THEN row
                                        ELSE book[t].cells[r]
    <2>1. CASE t = at
      BY Zenon, <1>3, <1>5, <2>1
    <2>2. CASE t # at
      BY <1>5, <2>2
    <2> QED
      BY Zenon, <2>1, <2>2
  <1> QED
    BY <1>5, <1>6

(* handleConflicts adds a column at most.                                  *)
LEMMA ConflictSheetShape ==
  ASSUME ShapeInv, pc = "rows"
  PROVE  /\ ConflictSheet \in SheetOf(at)
         /\ ConflictSheet.merge = IF readyForConflicts \/ book[at].merge # 0
                                  THEN book[at].merge ELSE Width[at] + 1
         /\ \A r \in Rows, c \in Cols(at) :
              ConflictSheet.cells[r][c] = book[at].cells[r][c]
         /\ book[at].merge # 0 => ConflictSheet = book[at]
  <1>1. at \in Sheets
    BY Zenon DEF ShapeInv
  <1>2. Width[at] \in Nat /\ book[at] \in SheetOf(at)
    BY Zenon, <1>1, SheetFacts DEF ShapeInv, BookOK
  <1>3. CASE readyForConflicts \/ book[at].merge # 0
    BY Zenon, <1>2, <1>3 DEF ConflictSheet
  <1>4. CASE ~(readyForConflicts \/ book[at].merge # 0)
    <2>1. book[at].cells \in [Rows -> [1 .. Width[at] -> Cell]] /\ book[at].merge = 0
      BY <1>2, <1>4 DEF SheetOf
    <2> DEFINE row(r) == Append(book[at].cells[r], Null)
    <2>2. ASSUME NEW r \in Rows
          PROVE  /\ row(r) \in [1 .. Width[at] + 1 -> Cell]
                 /\ \A c \in 1 .. Width[at] : row(r)[c] = book[at].cells[r][c]
      <3> DEFINE old == book[at].cells[r]
      <3>1. old \in [1 .. Width[at] -> Cell] /\ Width[at] \in Nat
        BY Zenon, <1>2, <2>1
      <3>2. Null \in Cell
        BY Zenon, DataFacts
      <3> HIDE DEF old
      <3>3. /\ Append(old, Null) \in [1 .. Width[at] + 1 -> Cell]
            /\ \A c \in 1 .. Width[at] : Append(old, Null)[c] = old[c]
        BY <3>1, <3>2, RowAppend
      <3> QED
        BY Zenon, <3>3 DEF old
    <2>3. ConflictSheet = [cells |-> [r \in Rows |-> row(r)], merge |-> Width[at] + 1]
      BY Zenon, <1>4 DEF ConflictSheet
    <2> HIDE DEF row
    <2>4. [r \in Rows |-> row(r)] \in [Rows -> [1 .. Width[at] + 1 -> Cell]]
      BY Zenon, <2>2
    <2>5. ConflictSheet \in SheetOf(at)
      BY Zenon, <2>3, <2>4 DEF SheetOf
    <2> QED
      BY Zenon, <1>4, <2>1, <2>2, <2>3, <2>5 DEF Cols
  <1> QED
    BY Zenon, <1>3, <1>4

(* Patching a row in conflict.                                             *)
LEMMA ConflictShape ==
  ASSUME ShapeInv, pc = "rows", NEW change \in rc,
         book' = [book EXCEPT ![at] =
                    [ConflictSheet EXCEPT !.cells[change.row] =
                       ConflictedRow(@, change, ConflictColumn)]]
  PROVE  /\ BookOK'
         /\ \A t \in Sheets \ {at} : book'[t] = book[t]
         /\ book'[at].merge = ConflictSheet.merge
         /\ \A r \in Rows :
              book'[at].cells[r] =
                IF r = change.row
                THEN ConflictedRow(ConflictSheet.cells[r], change, ConflictColumn)
                ELSE ConflictSheet.cells[r]
  <1>1. PICK r \in Rows : change = RowChange(at, r, Choice)
    BY Zenon, PendingChange
  <1>2. /\ at \in Sheets /\ change.row = r
        /\ DOMAIN change.conflictingVal \subseteq DOMAIN change.val
        /\ \A c \in DOMAIN change.val : change.val[c] \in Data
        /\ \A c \in DOMAIN change.conflictingVal :
             change.conflictingVal[c] \in Data /\ change.conflictingParentVal[c] \in Data
    BY <1>1, PendingChange, ChangeFacts, ChangeType
  <1>3. Width[at] \in Nat /\ Width[at] + 1 \in Nat /\ ConflictSheet \in SheetOf(at)
    BY <1>2, SheetFacts, ConflictSheetShape
  <1> DEFINE row == ConflictedRow(ConflictSheet.cells[change.row], change, ConflictColumn)
             sheet == [ConflictSheet EXCEPT !.cells[change.row] = row]
  <1>4. /\ sheet \in SheetOf(at) /\ sheet.merge = ConflictSheet.merge
        /\ \A q \in Rows : sheet.cells[q] = IF q = change.row THEN row
                                             ELSE ConflictSheet.cells[q]
    <2>1. CASE ConflictSheet \in [cells : [Rows -> [1 .. Width[at] -> Cell]], merge : {0}]
      <3>1. ConflictSheet.cells[change.row] \in [1 .. Width[at] -> Cell]
        BY Zenon, <1>2, <2>1
      <3>2. row \in [1 .. Width[at] -> Cell]
        BY Zenon, <1>2, <1>3, <3>1, ConflictedRowShape
      <3> HIDE DEF row
      <3> QED
        BY Zenon, <1>2, <2>1, <3>2 DEF SheetOf
    <2>2. CASE ConflictSheet \in [cells : [Rows -> [1 .. Width[at] + 1 -> Cell]],
                                  merge : {Width[at] + 1}]
      <3>1. ConflictSheet.cells[change.row] \in [1 .. Width[at] + 1 -> Cell]
        BY Zenon, <1>2, <2>2
      <3>2. row \in [1 .. Width[at] + 1 -> Cell]
        BY Zenon, <1>2, <1>3, <3>1, ConflictedRowShape
      <3> HIDE DEF row
      <3> QED
        BY Zenon, <1>2, <2>2, <3>2 DEF SheetOf
    <2> QED
      BY Zenon, <1>3, <2>1, <2>2 DEF SheetOf
  <1>5. book' = [book EXCEPT ![at] = sheet]
    OBVIOUS
  <1> HIDE DEF sheet
  <1>6. BookOK' /\ book'[at] = sheet /\ \A t \in Sheets \ {at} : book'[t] = book[t]
    <2>1. BookOK /\ at \in Sheets /\ sheet \in SheetOf(at)
      BY Zenon, <1>2, <1>4 DEF ShapeInv
    <2> QED BY Zenon, <1>5, <2>1, ReplaceSheet
  <1> QED
    BY Zenon, <1>2, <1>4, <1>6

(* Every step keeps the shape of the variables.                            *)
LEMMA NextShape == ShapeInv /\ [Next]_vars => ShapeInv'
  <1>1. SUFFICES ASSUME ShapeInv, [Next]_vars PROVE ShapeInv'
    OBVIOUS
  <1> USE SheetFacts
  <1>2. CASE MergeSheet
    <2>1. Choice' = Choice /\ Choice = (IF tool = "ssmerge" THEN resolve ELSE "none")
      BY Zenon, <1>1, <1>2 DEF MergeSheet, inputs, Choice
    <2>2. rc' = mergeRow(at, Choice)
      BY Zenon, <1>2, <2>1 DEF MergeSheet
    <2>3. mergeRow(at, Choice)' = mergeRow(at, Choice)
      BY Zenon, <1>2, <2>1, SameRows DEF MergeSheet
    <2>4. BookOK'
      BY Zenon, <1>1, <1>2 DEF MergeSheet, ShapeInv, BookOK
    <2>5. conflicted' \in BOOLEAN
      BY Zenon, <1>2 DEF MergeSheet
    <2> QED
      BY Zenon, <1>1, <1>2, <2>2, <2>3, <2>4, <2>5
      DEF MergeSheet, ShapeInv, inputs, marking, InRows
  <1>3. CASE SkipRow
    <2>1. rc' \subseteq rc /\ Choice' = Choice
      BY Zenon, <1>3 DEF SkipRow, inputs, Choice
    <2>2. mergeRow(at, Choice)' = mergeRow(at, Choice)
      BY Zenon, <1>3, <2>1, SameRows DEF SkipRow
    <2>3. BookOK'
      BY Zenon, <1>1, <1>3 DEF SkipRow, ShapeInv, BookOK
    <2> QED
      BY Zenon, <1>1, <1>3, <2>1, <2>2, <2>3
      DEF SkipRow, ShapeInv, inputs, marking, InRows
  <1>4. CASE PatchRow
    <2>1. rc' \subseteq rc /\ Choice' = Choice
      BY Zenon, <1>4 DEF PatchRow, inputs, Choice
    <2>2. mergeRow(at, Choice)' = mergeRow(at, Choice)
      BY Zenon, <1>4, <2>1, SameRows DEF PatchRow
    <2>3. BookOK'
      BY Zenon, <1>1, <1>4, PlainShape DEF PatchRow, Upcoming
    <2> QED
      BY Zenon, <1>1, <1>4, <2>1, <2>2, <2>3
      DEF PatchRow, ShapeInv, inputs, marking, InRows
  <1>5. CASE PatchConflictedRow
    <2>1. rc' \subseteq rc /\ Choice' = Choice /\ pc' \in {"rows", "crash"}
      BY Zenon, <1>5 DEF PatchConflictedRow, inputs, Choice
    <2>2. mergeRow(at, Choice)' = mergeRow(at, Choice)
      BY Zenon, <1>5, <2>1, SameRows DEF PatchConflictedRow
    <2>3. BookOK'
      BY Zenon, <1>1, <1>5, ConflictShape DEF PatchConflictedRow, Upcoming
    <2>4. conflictColumn' \in Nat
      <3>1. at \in Sheets /\ book[at].merge \in Nat
        BY <1>1, <1>5 DEF PatchConflictedRow, ShapeInv, BookOK, SheetOf
      <3> QED
        BY <1>1, <1>5, <3>1 DEF PatchConflictedRow, ConflictColumn, ShapeInv
    <2> QED
      BY <1>1, <1>5, <2>1, <2>2, <2>3, <2>4
      DEF PatchConflictedRow, ShapeInv, inputs, InRows
  <1>6. CASE EndSheet
    <2>1. BookOK'
      BY Zenon, <1>1, <1>6 DEF EndSheet, ShapeInv, BookOK
    <2>2. at' = at + 1 /\ at \in Sheets
      BY Zenon, <1>1, <1>6 DEF EndSheet, ShapeInv
    <2>3. /\ pc' \in {"sheet", "conflicted", "done"}
          /\ (pc' = "sheet") = (at < Len(Width))
      BY <1>6 DEF EndSheet
    <2> QED
      BY <1>1, <1>6, <2>1, <2>2, <2>3 DEF EndSheet, ShapeInv, inputs, marking, InRows
  <1>7. CASE \E choice \in {"ours", "theirs", "neither"} : RunResolve(choice)
    <2>1. BookOK'
      BY Zenon, <1>1, <1>7 DEF RunResolve, ShapeInv, BookOK
    <2> QED
      BY <1>1, <1>7, <2>1 DEF RunResolve, ShapeInv, inputs, marking, InRows
  <1>8. CASE ResolveSheet
    <2>1. /\ at \in Sheets /\ book[at] \in SheetOf(at)
          /\ resolve \in {"ours", "theirs", "neither"}
      BY Zenon, <1>1, <1>8 DEF ResolveSheet, ShapeInv, BookOK
    <2>2. BookOK'
      BY Zenon, <1>1, <1>8, <2>1, ResolvedShape, ReplaceSheet DEF ResolveSheet, ShapeInv
    <2>3. /\ pc' \in {"resolve", "resolved"} /\ at' = at + 1
          /\ (pc' = "resolve") = (at < Len(Width))
      BY <1>8 DEF ResolveSheet
    <2> QED
      BY <1>1, <1>8, <2>1, <2>2, <2>3
      DEF ResolveSheet, ShapeInv, inputs, marking, InRows
  <1>9. CASE UNCHANGED vars
    <2>1. Choice' = Choice /\ BookOK'
      BY Zenon, <1>1, <1>9 DEF vars, inputs, Choice, ShapeInv, BookOK
    <2>2. mergeRow(at, Choice)' = mergeRow(at, Choice)
      BY Zenon, <1>9, <2>1, SameRows DEF vars
    <2> QED
      BY Zenon, <1>1, <1>9, <2>1, <2>2 DEF vars, ShapeInv, inputs, marking, InRows
  <1> QED
    BY Zenon, <1>1, <1>2, <1>3, <1>4, <1>5, <1>6, <1>7, <1>8, <1>9 DEF Next

(* TypeOK holds however many sheets there are and whichever of them have   *)
(* conflicts: adding, marking and removing the _MERGE_ column              *)
(* (SheetPatcher::handleConflicts, markChanges, BookCompare::resolve)      *)
(* leaves every row of every sheet as wide as the sheet asks for.          *)
THEOREM RowsKeepWidth == Spec => []TypeOK
  <1>1. ShapeInv => TypeOK
    <2>1. ASSUME ShapeInv, NEW s \in Sheets, NEW r \in Rows
          PROVE  /\ book[s].merge \in {0, Width[s] + 1}
                 /\ Len(book[s].cells[r]) = Width[s] + (IF book[s].merge = 0 THEN 0 ELSE 1)
                 /\ \A c \in DOMAIN book[s].cells[r] : book[s].cells[r][c] \in Cell
      <3>1. book[s] \in SheetOf(s) /\ Width[s] \in Nat
        BY Zenon, <2>1, SheetFacts DEF ShapeInv, BookOK
      <3>2. CASE book[s] \in [cells : [Rows -> [1 .. Width[s] -> Cell]], merge : {0}]
        <4>1. book[s].cells[r] \in [1 .. Width[s] -> Cell] /\ book[s].merge = 0
          BY Zenon, <3>2
        <4>2. Len(book[s].cells[r]) = Width[s]
          BY Zenon, <4>1, <3>1, RowIsSeq
        <4> QED
          BY <4>1, <4>2, <3>1
      <3>3. CASE book[s] \in [cells : [Rows -> [1 .. Width[s] + 1 -> Cell]],
                              merge : {Width[s] + 1}]
        <4>1. /\ book[s].cells[r] \in [1 .. Width[s] + 1 -> Cell]
              /\ book[s].merge = Width[s] + 1
          BY Zenon, <3>3
        <4>2. Len(book[s].cells[r]) = Width[s] + 1
          BY <4>1, <3>1, RowIsSeq
        <4> QED
          BY <4>1, <4>2, <3>1
      <3> QED
        BY Zenon, <3>1, <3>2, <3>3 DEF SheetOf
    <2> QED
      BY Zenon, <2>1 DEF TypeOK, ShapeInv
  <1> QED
    BY <1>1, InitShape, NextShape, PTL DEF Spec
-----------------------------------------------------------------------------
LEMMA SameClashes ==
  ASSUME UNCHANGED inputs
  PROVE  /\ \A s, r : Clashes(s, r)' = Clashes(s, r)
         /\ \A s : HasClash(s)' = HasClash(s)
         /\ ConflictsInOneSheet' = ConflictsInOneSheet
  <1>1. \A s, r : Clashes(s, r)' = Clashes(s, r)
    BY Zenon DEF inputs, Clashes
  <1>2. \A s : HasClash(s)' = HasClash(s)
    BY Zenon, <1>1 DEF HasClash
  <1> QED
    BY Zenon, <1>1, <1>2 DEF ConflictsInOneSheet

(* A change waits for every row of a sheet that has conflicts.             *)
LEMMA ClashHasChange ==
  ASSUME NEW s \in Sheets, NEW r \in Rows, Clashes(s, r) # {}
  PROVE  RowChange(s, r, "none") \in mergeRow(s, "none")
  <1>1. PICK c \in Clashes(s, r) : TRUE
    OBVIOUS
  <1>2. c \in DOMAIN RowChange(s, r, "none").val
    <2>1. DOMAIN RowChange(s, r, "none").val =
            {k \in Cols(s) : Novel(pivot[s][r][k], local[s][r][k],
                                   remote[s][r][k], "none")}
      BY Zenon DEF RowChange
    <2> QED
      BY Zenon, <1>1, <2>1 DEF Clashes, Novel, InConflict
  <1> QED
    BY Zenon, <1>2 DEF mergeRow

LEMMA InitClash == Init => ClashInv
  <1>1. ASSUME Init, NEW s \in Sheets, book[s].merge # 0
        PROVE  s \in Leftover
    BY <1>1 DEF Init
  <1>2. ASSUME Init, NEW s \in Sheets
        PROVE  ~Seen(s) /\ \A r \in Rows : ~Merged(s, r)
    BY <1>2, SheetFacts DEF Init, Seen, Merged, InRows
  <1> QED
    BY Zenon, <1>1, <1>2 DEF Init, ClashInv, StatusInv, ReadyInv, ColumnInv

(* Dealing with one change merges its row and no other.                    *)
LEMMA OneRowMerged ==
  ASSUME ShapeInv, pc = "rows", NEW change \in rc, rc' = rc \ {change},
         pc' \in {"rows", "crash"}, at' = at
  PROVE  /\ \A s \in Sheets, r \in Rows :
              Merged(s, r)' <=> Merged(s, r) \/ (s = at /\ r = change.row)
         /\ \A s \in Sheets : Seen(s)' <=> Seen(s)
         /\ \A s \in Sheets : ~Resolved(s) /\ ~Resolved(s)'
         /\ at \in Sheets /\ change.row \in Rows
         /\ change = RowChange(at, change.row, Choice)
  <1>1. \A other \in rc : other.row \in Rows /\ other = RowChange(at, other.row, Choice)
    BY PendingChange, ChangeFacts
  <1>2. \A other \in rc : other.row = change.row => other = change
    BY Zenon, <1>1
  <1>3. at \in Sheets
    BY Zenon DEF ShapeInv
  <1>4. ASSUME NEW s \in Sheets, NEW r \in Rows
        PROVE  Merged(s, r)' <=> Merged(s, r) \/ (s = at /\ r = change.row)
    <2>1. CASE s = at
      <3>1. Merged(s, r) <=> \A other \in rc : other.row # r
        BY <2>1, <1>3, SheetFacts DEF Merged, InRows
      <3>2. Merged(s, r)' <=> \A other \in rc \ {change} : other.row # r
        BY <2>1, <1>3, SheetFacts DEF Merged, InRows
      <3> QED
        BY Zenon, <2>1, <3>1, <3>2, <1>2
    <2>2. CASE s # at
      BY Zenon, <2>2 DEF Merged, InRows
    <2> QED
      BY Zenon, <2>1, <2>2
  <1>5. /\ \A s \in Sheets : Seen(s)' <=> Seen(s)
        /\ \A s \in Sheets : ~Resolved(s) /\ ~Resolved(s)'
    BY Zenon DEF Seen, Resolved, InRows
  <1> QED
    BY Zenon, <1>1, <1>3, <1>4, <1>5

(* The conflicts that Merger finds in the sheet at hand.                   *)
LEMMA SheetClashes ==
  ASSUME NEW s \in Sheets, NEW choice
  PROVE  (\E change \in mergeRow(s, choice) : change.conflicted)
           <=> choice = "none" /\ HasClash(s)
  <1>1. ASSUME NEW change \in mergeRow(s, choice), change.conflicted
        PROVE  choice = "none" /\ HasClash(s)
    <2>1. PICK r \in Rows : change = RowChange(s, r, choice)
      BY Zenon DEF mergeRow
    <2>2. change.conflicted => choice = "none" /\ Clashes(s, r) # {}
      BY Zenon, <2>1, ChangeFacts
    <2> QED
      BY Zenon, <1>1, <2>2 DEF HasClash
  <1>2. ASSUME choice = "none", HasClash(s)
        PROVE  \E change \in mergeRow(s, choice) : change.conflicted
    <2>1. PICK r \in Rows : Clashes(s, r) # {}
      BY Zenon, <1>2 DEF HasClash
    <2>2. RowChange(s, r, choice) \in mergeRow(s, choice)
      BY Zenon, <1>2, <2>1, ClashHasChange
    <2>3. RowChange(s, r, choice).conflicted
      BY Zenon, <1>2, <2>1, ChangeFacts
    <2> QED
      BY Zenon, <2>2, <2>3
  <1> QED
    BY Zenon, <1>1, <1>2

LEMMA MergeSheetClash ==
  ASSUME ShapeInv, ClashInv, MergeSheet
  PROVE  ClashInv'
  <1>1. at \in Sheets /\ Choice' = Choice /\ rc' = mergeRow(at, Choice)
    BY Zenon DEF MergeSheet, ShapeInv, inputs, Choice
  <1>2. /\ \A s, r : Clashes(s, r)' = Clashes(s, r)
        /\ \A s : HasClash(s)' = HasClash(s)
    BY Zenon, SameClashes DEF MergeSheet
  <1>3. \A s \in Sheets : Seen(s)' <=> Seen(s) \/ s = at
    BY Zenon, <1>1 DEF MergeSheet, Seen, InRows
  <1>4. StatusInv'
    <2>1. conflicted' <=> conflicted \/ (Choice = "none" /\ HasClash(at))
      BY Zenon, <1>1, SheetClashes DEF MergeSheet
    <2> QED
      BY Zenon, <1>1, <1>2, <1>3, <2>1 DEF ClashInv, StatusInv, MergeSheet
  <1>5. ReadyInv'
    <2>1. ASSUME NEW s \in Sheets, NEW r \in Rows, Merged(s, r)',
                 Clashes(s, r) # {}, Choice = "none"
          PROVE  Merged(s, r)
      <3>1. CASE s = at
        <4>1. RowChange(s, r, "none") \in rc'
          BY Zenon, <1>1, <2>1, <3>1, ClashHasChange
        <4>2. RowChange(s, r, "none").row = r
          BY ChangeFacts
        <4>3. \A change \in rc' : change.row # r
          BY <2>1, <3>1, <1>1, SheetFacts DEF Merged, MergeSheet, InRows
        <4> QED
          BY Zenon, <4>1, <4>2, <4>3
      <3>2. CASE s # at
        BY Zenon, <2>1, <3>2 DEF Merged, MergeSheet
      <3> QED
        BY Zenon, <3>1, <3>2
    <2>2. tool = "ssmerge" /\ Choice = "none" =>
            \A s \in Sheets, r \in Rows :
              Merged(s, r)' /\ Clashes(s, r) # {} => readyForConflicts
      BY Zenon, <2>1 DEF ClashInv, ReadyInv
    <2>3. readyForConflicts =>
            /\ tool = "ssmerge" /\ Choice = "none"
            /\ \E s \in Sheets :
                 /\ HasClash(s) /\ Seen(s)' /\ conflictColumn = Width[s] + 1
                 /\ book[s].merge # 0
      BY Zenon, <1>3 DEF ClashInv, ReadyInv, MergeSheet
    <2> QED
      BY Zenon, <1>1, <1>2, <2>2, <2>3 DEF ReadyInv, MergeSheet, inputs, marking
  <1>6. ColumnInv'
    BY Zenon, <1>2 DEF ClashInv, ColumnInv, MergeSheet, inputs
  <1> QED
    BY Zenon, <1>4, <1>5, <1>6 DEF ClashInv

LEMMA SkipRowClash ==
  ASSUME ShapeInv, ClashInv, SkipRow
  PROVE  ClashInv'
  <1>1. PICK change \in rc : rc' = rc \ {change}
    BY Zenon DEF SkipRow, Upcoming
  <1>2. tool = "sspatch" /\ Choice' = Choice
    BY Zenon DEF SkipRow, Withheld, inputs, Choice
  <1>3. \A s : HasClash(s)' = HasClash(s)
    BY Zenon, SameClashes DEF SkipRow
  <1>4. \A s \in Sheets : Seen(s)' <=> Seen(s)
    BY Zenon, <1>1, OneRowMerged DEF SkipRow
  <1> QED
    BY Zenon, <1>2, <1>3, <1>4
    DEF ClashInv, StatusInv, ReadyInv, ColumnInv, SkipRow, inputs, marking

LEMMA PatchRowClash ==
  ASSUME ShapeInv, ClashInv, PatchRow
  PROVE  ClashInv'
  <1>1. PICK change \in rc :
          /\ ~emitRow(change).conflicted /\ rc' = rc \ {change}
          /\ book' = [book EXCEPT ![at].cells[change.row] = PlainRow(@, emitRow(change))]
    BY Zenon DEF PatchRow, Upcoming
  <1>2. Choice' = Choice
    BY Zenon DEF PatchRow, inputs, Choice
  <1>3. /\ \A s, r : Clashes(s, r)' = Clashes(s, r)
        /\ \A s : HasClash(s)' = HasClash(s)
    BY Zenon, SameClashes DEF PatchRow
  <1>4. /\ \A s \in Sheets, r \in Rows :
             Merged(s, r)' <=> Merged(s, r) \/ (s = at /\ r = change.row)
        /\ \A s \in Sheets : Seen(s)' <=> Seen(s)
        /\ change = RowChange(at, change.row, Choice)
    BY Zenon, <1>1, OneRowMerged DEF PatchRow
  <1>5. \A s \in Sheets : book'[s].merge = book[s].merge
    BY Zenon, <1>1, PlainShape DEF PatchRow
  <1>6. tool = "ssmerge" /\ Choice = "none" => Clashes(at, change.row) = {}
    BY <1>1, <1>4, ChangeFacts DEF emitRow
  <1>7. StatusInv'
    BY Zenon, <1>2, <1>3, <1>4 DEF ClashInv, StatusInv, PatchRow
  <1>8. ReadyInv'
    BY Zenon, <1>2, <1>3, <1>4, <1>5, <1>6 DEF ClashInv, ReadyInv, PatchRow, inputs, marking
  <1>9. ColumnInv'
    BY Zenon, <1>3, <1>5 DEF ClashInv, ColumnInv, PatchRow, inputs
  <1> QED
    BY Zenon, <1>7, <1>8, <1>9 DEF ClashInv

LEMMA PatchConflictedRowClash ==
  ASSUME ShapeInv, ClashInv, PatchConflictedRow
  PROVE  ClashInv'
  <1>1. PICK change \in rc :
          /\ change.conflicted /\ rc' = rc \ {change}
          /\ book' = [book EXCEPT ![at] =
                        [ConflictSheet EXCEPT !.cells[change.row] =
                           ConflictedRow(@, change, ConflictColumn)]]
    BY Zenon DEF PatchConflictedRow, Upcoming
  <1>2. pc = "rows" /\ pc' \in {"rows", "crash"} /\ tool = "ssmerge" /\ at' = at
    BY Zenon DEF PatchConflictedRow
  <1>3. Choice' = Choice
    BY Zenon, <1>2 DEF PatchConflictedRow, inputs, Choice
  <1>4. /\ \A s, r : Clashes(s, r)' = Clashes(s, r)
        /\ \A s : HasClash(s)' = HasClash(s)
    BY Zenon, SameClashes DEF PatchConflictedRow
  <1>5. /\ \A s \in Sheets : Seen(s)' <=> Seen(s)
        /\ change = RowChange(at, change.row, Choice)
        /\ change.row \in Rows /\ at \in Sheets
    BY Zenon, <1>1, <1>2, OneRowMerged
  <1>6. Choice = "none" /\ HasClash(at) /\ Seen(at)
    <2>1. Choice = "none" /\ Clashes(at, change.row) # {}
      BY <1>1, <1>5, ChangeFacts
    <2> QED
      BY Zenon, <1>2, <1>5, <2>1 DEF HasClash, Seen, InRows
  <1>7. /\ \A t \in Sheets \ {at} : book'[t] = book[t]
        /\ book'[at].merge = IF readyForConflicts \/ book[at].merge # 0
                             THEN book[at].merge ELSE Width[at] + 1
    BY Zenon, <1>1, <1>2, ConflictShape, ConflictSheetShape
  <1>8. Width[at] \in Nat /\ book[at].merge \in {0, Width[at] + 1}
    BY Zenon, <1>5, SheetFacts DEF ShapeInv, BookOK, SheetOf
  <1>9. StatusInv'
    BY Zenon, <1>3, <1>4, <1>5 DEF ClashInv, StatusInv, PatchConflictedRow
  <1>10. ReadyInv'
    <2>1. readyForConflicts' /\ conflictColumn' = ConflictColumn
      BY Zenon DEF PatchConflictedRow
    <2>2. \E s \in Sheets :
             /\ HasClash(s) /\ Seen(s) /\ ConflictColumn = Width[s] + 1
             /\ book'[s].merge # 0
      <3>1. CASE readyForConflicts
        <4>1. PICK s \in Sheets :
                /\ HasClash(s) /\ Seen(s) /\ conflictColumn = Width[s] + 1
                /\ book[s].merge # 0
          BY Zenon, <3>1, <1>2 DEF ClashInv, ReadyInv
        <4>2. book'[s].merge # 0
          BY Zenon, <4>1, <1>7, <3>1
        <4> QED
          BY Zenon, <3>1, <4>1, <4>2 DEF ConflictColumn
      <3>2. CASE ~readyForConflicts
        <4>1. ConflictColumn = Width[at] + 1 /\ book'[at].merge # 0
          BY <3>2, <1>7, <1>8 DEF ConflictColumn
        <4> QED
          BY Zenon, <4>1, <1>5, <1>6
      <3> QED
        BY Zenon, <3>1, <3>2
    <2> QED
      BY Zenon, <1>2, <1>3, <1>4, <1>5, <1>6, <2>1, <2>2
      DEF ReadyInv, PatchConflictedRow, inputs
  <1>11. ColumnInv'
    <2>1. \A s \in Sheets : book'[s].merge # 0 => s \in Leftover \/ HasClash(s)
      BY Zenon, <1>6, <1>7 DEF ClashInv, ColumnInv
    <2> QED
      BY Zenon, <1>2, <1>4, <2>1 DEF ColumnInv, PatchConflictedRow, inputs
  <1> QED
    BY Zenon, <1>9, <1>10, <1>11 DEF ClashInv

(* Moving on to the next sheet, or to ssresolve, finds every sheet behind  *)
(* merged.                                                                 *)
LEMMA EndSheetMerged ==
  ASSUME ShapeInv, EndSheet
  PROVE  /\ at \in Sheets /\ at' = at + 1 /\ Choice' = Choice
         /\ pc' \in {"sheet", "conflicted", "done"}
         /\ \A s \in Sheets : Seen(s)' <=> Seen(s)
         /\ \A s \in Sheets, r \in Rows : Merged(s, r)' <=> Merged(s, r)
         /\ \A s \in Sheets : ~Resolved(s) /\ ~Resolved(s)'
  <1>1. at \in Sheets /\ at' = at + 1 /\ pc' \in {"sheet", "conflicted", "done"}
    BY Zenon DEF EndSheet, ShapeInv
  <1>2. pc = "rows" /\ rc = {} /\ rc' = {}
    BY Zenon DEF EndSheet
  <1>3. Choice' = Choice
    BY Zenon, <1>1 DEF EndSheet, Choice, inputs
  <1> QED
    BY <1>1, <1>2, <1>3, SheetFacts DEF Seen, Merged, Resolved, InRows

LEMMA EndSheetClash ==
  ASSUME ShapeInv, ClashInv, EndSheet
  PROVE  ClashInv'
  <1>1. /\ \A s, r : Clashes(s, r)' = Clashes(s, r)
        /\ \A s : HasClash(s)' = HasClash(s)
    BY Zenon, SameClashes DEF EndSheet
  <1>2. StatusInv'
    <2>1. conflicted' <=> Choice' = "none" /\ \E s \in Sheets : Seen(s)' /\ HasClash(s)'
      BY Zenon, <1>1, EndSheetMerged DEF ClashInv, StatusInv, EndSheet
    <2>2. /\ pc' = "conflicted" => tool' = "ssmerge" /\ conflicted'
          /\ pc' = "done" /\ tool' = "ssmerge" => ~conflicted'
      BY Zenon DEF EndSheet, inputs
    <2> QED
      BY Zenon, <2>1, <2>2 DEF StatusInv
  <1>3. ReadyInv'
    BY Zenon, <1>1, EndSheetMerged DEF ClashInv, ReadyInv, EndSheet, inputs, marking
  <1>4. ColumnInv'
    BY Zenon, <1>1, EndSheetMerged DEF ClashInv, ColumnInv, EndSheet, inputs
  <1> QED
    BY Zenon, <1>2, <1>3, <1>4 DEF ClashInv

LEMMA RunResolveMerged ==
  ASSUME ShapeInv, NEW choice \in {"ours", "theirs", "neither"}, RunResolve(choice)
  PROVE  /\ Choice = "none" /\ Choice' = "none"
         /\ \A s \in Sheets : Seen(s) /\ Seen(s)'
         /\ \A s \in Sheets, r \in Rows : Merged(s, r) /\ Merged(s, r)'
         /\ \A s \in Sheets : ~Resolved(s) /\ ~Resolved(s)'
  <1>1. at = Len(Width) + 1
    BY SheetFacts DEF ShapeInv, RunResolve
  <1> QED
    BY <1>1, SheetFacts DEF RunResolve, inputs, Choice, Seen, Merged, Resolved, InRows

LEMMA RunResolveClash ==
  ASSUME ShapeInv, ClashInv, NEW choice \in {"ours", "theirs", "neither"},
         RunResolve(choice)
  PROVE  ClashInv'
  <1>1. /\ \A s, r : Clashes(s, r)' = Clashes(s, r)
        /\ \A s : HasClash(s)' = HasClash(s)
    BY Zenon, SameClashes DEF RunResolve
  <1>2. StatusInv'
    BY Zenon, <1>1, RunResolveMerged DEF ClashInv, StatusInv, RunResolve
  <1>3. ReadyInv'
    BY Zenon, <1>1, RunResolveMerged DEF ClashInv, ReadyInv, RunResolve, inputs, marking
  <1>4. ColumnInv'
    BY <1>1, SheetFacts DEF ClashInv, ColumnInv, RunResolve, inputs
  <1> QED
    BY Zenon, <1>2, <1>3, <1>4 DEF ClashInv

LEMMA ResolveSheetMerged ==
  ASSUME ShapeInv, ResolveSheet
  PROVE  /\ at \in Sheets /\ pc' \in {"resolve", "resolved"}
         /\ tool = "ssmerge" /\ resolve \in {"ours", "theirs", "neither"}
         /\ Choice = "none" /\ Choice' = "none"
         /\ \A s \in Sheets : Seen(s) /\ Seen(s)'
         /\ \A s \in Sheets, r \in Rows : Merged(s, r) /\ Merged(s, r)'
         /\ \A s \in Sheets : Resolved(s)' <=> Resolved(s) \/ s = at
         /\ ~Resolved(at)
  <1>1. at \in Sheets /\ tool = "ssmerge" /\ resolve \in {"ours", "theirs", "neither"}
    BY Zenon DEF ShapeInv, ResolveSheet
  <1>2. /\ pc = "resolve" /\ at' = at + 1 /\ pc' \in {"resolve", "resolved"}
        /\ pc' = "resolved" => ~(at < Len(Width))
    BY Zenon DEF ResolveSheet
  <1>3. Choice = "none" /\ Choice' = "none"
    BY Zenon, <1>2 DEF Choice
  <1>4. \A s \in Sheets : Resolved(s)' <=> Resolved(s) \/ s = at
    BY <1>1, <1>2, SheetFacts DEF Resolved
  <1> QED
    BY <1>1, <1>2, <1>3, <1>4, SheetFacts DEF Seen, Merged, Resolved, InRows

(* ssresolve works on the sheet at hand alone.                             *)
LEMMA ResolveSheetBook ==
  ASSUME ShapeInv, ResolveSheet
  PROVE  /\ \A t \in Sheets \ {at} : book'[t] = book[t]
         /\ book'[at] = ResolvedSheet(book[at], resolve)
         /\ book'[at].merge = 0
  <1>1. /\ at \in Sheets /\ book[at] \in SheetOf(at)
        /\ resolve \in {"ours", "theirs", "neither"} /\ BookOK
    BY Zenon, ResolveSheetMerged DEF ShapeInv, BookOK
  <1>2. /\ ResolvedSheet(book[at], resolve) \in SheetOf(at)
        /\ ResolvedSheet(book[at], resolve).merge = 0
    BY <1>1, ResolvedShape
  <1> QED
    BY Zenon, <1>1, <1>2, ReplaceSheet DEF ResolveSheet

LEMMA ResolveSheetClash ==
  ASSUME ShapeInv, ClashInv, ResolveSheet
  PROVE  ClashInv'
  <1>1. /\ \A s, r : Clashes(s, r)' = Clashes(s, r)
        /\ \A s : HasClash(s)' = HasClash(s)
    BY Zenon, SameClashes DEF ResolveSheet
  <1>2. StatusInv'
    BY Zenon, <1>1, ResolveSheetMerged DEF ClashInv, StatusInv, ResolveSheet
  <1>3. ReadyInv'
    BY Zenon, <1>1, ResolveSheetMerged DEF ClashInv, ReadyInv, ResolveSheet, inputs, marking
  <1>4. ColumnInv'
    <2>1. /\ pc = "resolve" /\ at \in Sheets /\ at' = at + 1
          /\ pc' = "resolved" => ~(at < Len(Width))
      BY Zenon, ResolveSheetMerged DEF ResolveSheet
    <2>2. \A s \in Sheets : s < at + 1 => book'[s].merge = 0
      BY <2>1, ResolveSheetBook, SheetFacts DEF ClashInv, ColumnInv
    <2>3. \A s \in Sheets : book'[s].merge # 0 => book[s].merge # 0
      BY Zenon, ResolveSheetBook
    <2> QED
      BY <1>1, <2>1, <2>2, <2>3, SheetFacts
      DEF ClashInv, ColumnInv, ResolveSheet, inputs
  <1> QED
    BY Zenon, <1>2, <1>3, <1>4 DEF ClashInv

LEMMA NextClash == ShapeInv /\ ClashInv /\ [Next]_vars => ClashInv'
  <1>1. SUFFICES ASSUME ShapeInv, ClashInv, [Next]_vars PROVE ClashInv'
    OBVIOUS
  <1>2. CASE UNCHANGED vars
    <2>1. \A s : HasClash(s)' = HasClash(s)
      BY Zenon, <1>2, SameClashes DEF vars
    <2>2. \A s, r : Clashes(s, r)' = Clashes(s, r)
      BY Zenon, <1>2, SameClashes DEF vars
    <2>3. /\ Choice' = Choice /\ \A s : Seen(s)' = Seen(s)
          /\ \A s, r : Merged(s, r)' = Merged(s, r)
      BY Zenon, <1>2 DEF vars, inputs, Choice, Seen, Merged
    <2> QED
      BY Zenon, <1>1, <1>2, <2>1, <2>2, <2>3
      DEF vars, inputs, marking, ClashInv, StatusInv, ReadyInv, ColumnInv
  <1> QED
    BY Zenon, <1>1, <1>2, MergeSheetClash, SkipRowClash, PatchRowClash,
       PatchConflictedRowClash, EndSheetClash, RunResolveClash, ResolveSheetClash
    DEF Next

(* The exit status of ssmerge (Diff::apply) and the _MERGE_ column that    *)
(* ssresolve looks for tell of a conflict exactly when there is one,       *)
(* whatever the number of sheets and of conflicts.                         *)
THEOREM StatusIsRight == Spec => []StatusTellsConflict
  <1>1. ASSUME ShapeInv, ClashInv, pc \in {"conflicted", "done"}, tool = "ssmerge",
               resolve = "none"
        PROVE  LET clash == \E s \in Sheets, r \in Rows : Clashes(s, r) # {}
               IN /\ (pc = "conflicted") = clash
                  /\ clash => Unresolved
                  /\ Unresolved => clash \/ Leftover # {}
    <2> DEFINE clash == \E s \in Sheets, r \in Rows : Clashes(s, r) # {}
    <2>1. clash <=> \E s \in Sheets : HasClash(s)
      BY Zenon DEF HasClash
    <2>2. Choice = "none"
      BY Zenon, <1>1 DEF Choice
    <2>3. \A s \in Sheets : Seen(s) /\ \A r \in Rows : Merged(s, r)
      BY <1>1, SheetFacts DEF ShapeInv, Seen, Merged
    <2>4. (pc = "conflicted") = clash
      BY Zenon, <1>1, <2>1, <2>2, <2>3 DEF ClashInv, StatusInv
    <2>5. clash => Unresolved
      BY Zenon, <1>1, <2>2, <2>3 DEF ClashInv, ReadyInv, Unresolved
    <2>6. Unresolved => clash \/ Leftover # {}
      BY Zenon, <1>1, <2>1 DEF ClashInv, ColumnInv, Unresolved
    <2> QED
      BY Zenon, <2>4, <2>5, <2>6
  <1>2. ShapeInv /\ ClashInv => StatusTellsConflict
    BY Zenon, <1>1 DEF StatusTellsConflict
  <1> QED
    BY <1>2, InitShape, NextShape, InitClash, NextClash, PTL DEF Spec

-----------------------------------------------------------------------------
(***************************************************************************)
(* What every data cell holds at every moment (DataInv).  This needs that  *)
(* only one sheet of the book has conflicts, since the conflict column is  *)
(* sought once for the whole book.                                         *)
(***************************************************************************)
(* What a cell becomes by the merge, if its row has been dealt with.       *)
Outcome(s, r, c) ==
  LET p == pivot[s][r][c]  l == local[s][r][c]  x == remote[s][r][c]
  IN IF ~Novel(p, l, x, Choice) THEN l
     ELSE IF Choice # "none" \/ Clashes(s, r) = {} THEN MergedCell(p, l, x, Choice)
     ELSE IF tool = "ssmerge"
     THEN IF InConflict(p, l, x)
          THEN [pivot |-> toString(p), local |-> toString(l), remote |-> toString(x)]
          ELSE l
     ELSE IF resolve \in {"none", "ours"} THEN l
     ELSE IF InConflict(p, l, x) THEN Pick(resolve, p, l, x) ELSE x

(* What every data cell holds, and the mark of every row in conflict.      *)
DataInv ==
  \A s \in Sheets, r \in Rows :
    /\ \A c \in Cols(s) :
         book[s].cells[r][c] =
           IF ~Merged(s, r) THEN local[s][r][c]
           ELSE IF Resolved(s) THEN ResolvedCell(Outcome(s, r, c), resolve)
           ELSE Outcome(s, r, c)
    /\ tool = "ssmerge" /\ Choice = "none" /\ Merged(s, r) /\ Clashes(s, r) # {}
         /\ ~Resolved(s) =>
         /\ book[s].merge # 0
         /\ book[s].cells[r][book[s].merge] = Mark

IInv == ShapeInv /\ ClashInv /\ (ConflictsInOneSheet => DataInv)
-----------------------------------------------------------------------------
LEMMA SameOutcome ==
  ASSUME UNCHANGED inputs, Choice' = Choice, tool = "ssmerge" \/ resolve' = resolve,
         NEW s, NEW r, NEW c
  PROVE  Outcome(s, r, c)' = Outcome(s, r, c)
  BY Zenon, SameClashes DEF inputs, Outcome

LEMMA InitData == Init => DataInv
  <1>1. SUFFICES ASSUME Init, NEW s \in Sheets, NEW r \in Rows
                 PROVE  ~Merged(s, r) /\ \A c \in Cols(s) :
                          book[s].cells[r][c] = local[s][r][c]
    BY Zenon DEF DataInv
  <1>2. ~Merged(s, r)
    BY <1>1, SheetFacts DEF Init, Merged, InRows
  <1>3. PICK leftover \in SUBSET Leftover :
          book = [t \in Sheets |->
                    IF t \in leftover
                    THEN [cells |-> [q \in Rows |-> Append(local[t][q], Null)],
                          merge |-> Width[t] + 1]
                    ELSE [cells |-> local[t], merge |-> 0]]
    BY Zenon, <1>1 DEF Init
  <1>4. CASE s \in leftover
    <2>1. local[s][r] \in [1 .. Width[s] -> Cell] /\ Width[s] \in Nat /\ Null \in Cell
      BY <1>1, BookCell, DataFacts, SheetFacts DEF Init, Cols
    <2>2. \A c \in 1 .. Width[s] : Append(local[s][r], Null)[c] = local[s][r][c]
      BY <2>1, RowAppend
    <2> QED
      BY Zenon, <1>2, <1>3, <1>4, <2>2 DEF Cols
  <1>5. CASE s \notin leftover
    BY Zenon, <1>2, <1>3, <1>5
  <1> QED
    BY Zenon, <1>4, <1>5

LEMMA MergeSheetData ==
  ASSUME ShapeInv, DataInv, MergeSheet
  PROVE  DataInv'
  <1>1. /\ at \in Sheets /\ Choice' = Choice /\ rc' = mergeRow(at, Choice)
        /\ \A s \in Sheets : ~Resolved(s) /\ ~Resolved(s)'
    BY Zenon DEF MergeSheet, ShapeInv, inputs, Choice, Resolved
  <1>2. /\ \A s, r : Clashes(s, r)' = Clashes(s, r)
        /\ \A s, r, c : Outcome(s, r, c)' = Outcome(s, r, c)
    BY Zenon, <1>1, SameClashes, SameOutcome DEF MergeSheet
  <1>3. ASSUME NEW s \in Sheets, NEW r \in Rows, Merged(s, r)', ~Merged(s, r)
        PROVE  /\ Choice = "none" => Clashes(s, r) = {}
               /\ \A c \in Cols(s) : Outcome(s, r, c) = local[s][r][c]
    <2>1. s = at
      BY Zenon, <1>3 DEF Merged, MergeSheet
    <2>2. \A change \in mergeRow(at, Choice) : change.row # r
      BY Zenon, <1>1, <1>3, <2>1, SheetFacts DEF Merged, MergeSheet, InRows
    <2> DEFINE change == RowChange(at, r, Choice)
    <2>3. change.row = r
      BY ChangeFacts
    <2>4. DOMAIN change.val = {}
      BY Zenon, <2>2, <2>3 DEF mergeRow
    <2>5. \A c \in Cols(s) : ~Novel(pivot[s][r][c], local[s][r][c], remote[s][r][c], Choice)
      BY Zenon, <2>1, <2>4 DEF RowChange
    <2> QED
      BY Zenon, <2>5 DEF Outcome, Clashes, Novel, InConflict
  <1>4. \A s \in Sheets, r \in Rows : Merged(s, r) => Merged(s, r)'
    BY Zenon DEF Merged, MergeSheet, InRows
  <1> QED
    BY <1>1, <1>2, <1>3, <1>4 DEF DataInv, MergeSheet, inputs

LEMMA SkipRowData ==
  ASSUME ShapeInv, DataInv, SkipRow
  PROVE  DataInv'
  <1>1. PICK change \in rc :
          /\ Withheld(change) \/ (tool = "sspatch" /\ emitRow(change).conflicted)
          /\ rc' = rc \ {change}
    BY Zenon DEF SkipRow, Upcoming
  <1>2. tool = "sspatch" /\ Choice = "none" /\ Choice' = Choice
    BY Zenon, <1>1 DEF SkipRow, Withheld, inputs, Choice
  <1>3. /\ \A s \in Sheets, r \in Rows :
             Merged(s, r)' <=> Merged(s, r) \/ (s = at /\ r = change.row)
        /\ \A s \in Sheets : ~Resolved(s) /\ ~Resolved(s)'
        /\ at \in Sheets /\ change.row \in Rows
        /\ change = RowChange(at, change.row, Choice)
    BY Zenon, <1>1, OneRowMerged DEF SkipRow
  <1>4. \A s, r, c : Outcome(s, r, c)' = Outcome(s, r, c)
    BY Zenon, <1>2, SameOutcome DEF SkipRow
  <1>5. change.conflicted /\ resolve \in {"none", "ours"}
    <2>1. CASE Withheld(change)
      BY Zenon, <2>1 DEF Withheld
    <2>2. CASE emitRow(change).conflicted /\ ~Withheld(change)
      <3>1. ~(resolve # "none" /\ change.conflicted)
        <4>1. SUFFICES ASSUME resolve # "none", change.conflicted PROVE FALSE
          OBVIOUS
        <4>2. emitRow(change) = Chosen(change, resolve)
          BY Zenon, <1>2, <4>1 DEF emitRow
        <4>3. Chosen(change, resolve).conflicted = FALSE
          BY Zenon, <1>3 DEF Chosen, RowChange
        <4> QED
          BY Zenon, <2>2, <4>2, <4>3
      <3>2. emitRow(change) = change
        BY Zenon, <3>1 DEF emitRow
      <3> QED
        BY Zenon, <2>2, <3>1, <3>2
    <2> QED
      BY Zenon, <1>1, <2>1, <2>2
  <1>6. \A c \in Cols(at) : Outcome(at, change.row, c) = local[at][change.row][c]
    <2>1. Clashes(at, change.row) # {}
      BY <1>3, <1>5, ChangeFacts
    <2> QED
      BY Zenon, <1>2, <1>5, <2>1 DEF Outcome
  <1> QED
    BY <1>2, <1>3, <1>4, <1>6 DEF DataInv, SkipRow, inputs

(* What PatchRow writes is the outcome.                                    *)
LEMMA EmittedCells ==
  ASSUME ShapeInv, NEW s \in Sheets, NEW r \in Rows,
         NEW change, change = RowChange(s, r, Choice),
         ~Withheld(change), ~emitRow(change).conflicted, tool = "sspatch" => Choice = "none",
         NEW c \in Cols(s)
  PROVE  Outcome(s, r, c) = IF c \in DOMAIN emitRow(change).val
                            THEN emitRow(change).val[c] ELSE local[s][r][c]
  <1> DEFINE p == pivot[s][r][c]  l == local[s][r][c]  x == remote[s][r][c]
  <1>1. /\ c \in DOMAIN change.val <=> Novel(p, l, x, Choice)
        /\ c \in DOMAIN change.val => change.val[c] = MergedCell(p, l, x, Choice)
        /\ c \in DOMAIN change.conflictingVal <=>
             Choice = "none" /\ InConflict(p, l, x)
        /\ DOMAIN change.conflictingParentVal = DOMAIN change.conflictingVal
        /\ c \in DOMAIN change.conflictingVal =>
             change.conflictingVal[c] = x /\ change.conflictingParentVal[c] = p
        /\ change.conflicted <=> Choice = "none" /\ Clashes(s, r) # {}
    <2>1. /\ DOMAIN change.val =
               {k \in Cols(s) : Novel(pivot[s][r][k], local[s][r][k],
                                      remote[s][r][k], Choice)}
          /\ \A k \in DOMAIN change.val :
               change.val[k] = MergedCell(pivot[s][r][k], local[s][r][k],
                                          remote[s][r][k], Choice)
      BY ChangeFacts
    <2>2. /\ DOMAIN change.conflictingVal = IF Choice = "none" THEN Clashes(s, r) ELSE {}
          /\ DOMAIN change.conflictingParentVal = DOMAIN change.conflictingVal
          /\ \A k \in DOMAIN change.conflictingVal :
               /\ change.conflictingVal[k] = remote[s][r][k]
               /\ change.conflictingParentVal[k] = pivot[s][r][k]
          /\ change.conflicted <=> Choice = "none" /\ Clashes(s, r) # {}
      BY ChangeFacts
    <2>3. c \in Clashes(s, r) <=> InConflict(p, l, x)
      BY Zenon DEF Clashes
    <2> QED
      BY Zenon, <2>1, <2>2, <2>3
  <1>2. CASE ~change.conflicted
    <2>1. emitRow(change) = change
      BY Zenon, <1>2 DEF emitRow
    <2> QED
      BY Zenon, <1>1, <1>2, <2>1 DEF Outcome
  <1>3. CASE change.conflicted
    <2>1. tool = "sspatch" /\ resolve # "none"
      BY Zenon, <1>3 DEF emitRow
    <2>2. resolve \in {"theirs", "neither"}
      BY Zenon, <1>3, <2>1 DEF Withheld, ShapeInv
    <2>3. emitRow(change) = Chosen(change, resolve)
      BY Zenon, <1>3, <2>1 DEF emitRow
    <2> DEFINE chosen == IF resolve = "theirs" THEN change.conflictingVal
                         ELSE change.conflictingParentVal
    <2>4. emitRow(change).val =
            [k \in DOMAIN change.val |-> IF k \in DOMAIN chosen THEN chosen[k]
                                         ELSE change.val[k]]
      BY Zenon, <2>3 DEF Chosen, RowChange
    <2>5. CASE ~Novel(p, l, x, Choice)
      BY Zenon, <1>1, <2>4, <2>5 DEF Outcome
    <2>6. CASE Novel(p, l, x, Choice) /\ InConflict(p, l, x)
      <3>1. emitRow(change).val[c] = Pick(resolve, p, l, x)
        BY Zenon, <1>1, <1>3, <2>2, <2>4, <2>6 DEF Pick
      <3>2. Outcome(s, r, c) = Pick(resolve, p, l, x)
        BY Zenon, <1>1, <1>3, <2>1, <2>2, <2>6 DEF Outcome
      <3> QED
        BY Zenon, <1>1, <2>4, <2>6, <3>1, <3>2
    <2>7. CASE Novel(p, l, x, Choice) /\ ~InConflict(p, l, x)
      <3>1. emitRow(change).val[c] = MergedCell(p, l, x, Choice)
        BY Zenon, <1>1, <2>4, <2>7
      <3>2. MergedCell(p, l, x, Choice) = x
        BY Zenon, <2>7 DEF MergedCell, Novel, InConflict
      <3>3. Outcome(s, r, c) = x
        BY Zenon, <1>1, <1>3, <2>1, <2>2, <2>7 DEF Outcome
      <3> QED
        BY Zenon, <1>1, <2>4, <2>7, <3>1, <3>2, <3>3
    <2> QED
      BY Zenon, <2>5, <2>6, <2>7
  <1> QED
    BY Zenon, <1>2, <1>3

LEMMA PatchRowData ==
  ASSUME ShapeInv, DataInv, PatchRow
  PROVE  DataInv'
  <1>1. PICK change \in rc :
          /\ ~Withheld(change) /\ ~emitRow(change).conflicted /\ rc' = rc \ {change}
          /\ book' = [book EXCEPT ![at].cells[change.row] = PlainRow(@, emitRow(change))]
    BY Zenon DEF PatchRow, Upcoming
  <1>2. pc = "rows" /\ Choice' = Choice /\ (tool = "sspatch" => Choice = "none")
    BY Zenon DEF PatchRow, inputs, Choice
  <1>3. /\ \A s \in Sheets, r \in Rows :
             Merged(s, r)' <=> Merged(s, r) \/ (s = at /\ r = change.row)
        /\ \A s \in Sheets : ~Resolved(s) /\ ~Resolved(s)'
        /\ at \in Sheets /\ change.row \in Rows
        /\ change = RowChange(at, change.row, Choice)
    BY Zenon, <1>1, OneRowMerged DEF PatchRow
  <1>4. /\ \A s, r, c : Outcome(s, r, c)' = Outcome(s, r, c)
        /\ \A s, r : Clashes(s, r)' = Clashes(s, r)
    BY Zenon, <1>2, SameOutcome, SameClashes DEF PatchRow
  <1>5. /\ \A t \in Sheets : book'[t].merge = book[t].merge
        /\ \A t \in Sheets, r \in Rows :
             book'[t].cells[r] = IF t = at /\ r = change.row
                                 THEN PlainRow(book[t].cells[r], emitRow(change))
                                 ELSE book[t].cells[r]
    BY Zenon, <1>1, <1>2, PlainShape
  <1>6. ~Merged(at, change.row)
    BY <1>2, <1>3, SheetFacts DEF Merged, InRows
  <1>7. \A c \in Cols(at) : book'[at].cells[change.row][c] = Outcome(at, change.row, c)
    <2>1. SUFFICES ASSUME NEW c \in Cols(at)
                   PROVE  book'[at].cells[change.row][c] = Outcome(at, change.row, c)
      OBVIOUS
    <2> DEFINE row == book[at].cells[change.row]
    <2>2. c \in DOMAIN row
      <3>1. book[at] \in SheetOf(at) /\ Width[at] \in Nat
        BY Zenon, <1>3, SheetFacts DEF ShapeInv, BookOK
      <3> QED
        BY <1>3, <3>1 DEF SheetOf, Cols
    <2>3. row[c] = local[at][change.row][c]
      BY Zenon, <1>3, <1>6 DEF DataInv
    <2>4. book'[at].cells[change.row][c] =
            IF c \in DOMAIN emitRow(change).val THEN emitRow(change).val[c] ELSE row[c]
      <3>1. book'[at].cells[change.row] = PlainRow(row, emitRow(change))
        BY Zenon, <1>3, <1>5
      <3>2. PlainRow(row, emitRow(change))[c] =
              IF c \in DOMAIN emitRow(change).val THEN emitRow(change).val[c] ELSE row[c]
        BY Zenon, <2>2 DEF PlainRow
      <3> QED
        BY Zenon, <3>1, <3>2
    <2> QED
      BY <1>1, <1>2, <1>3, <2>3, <2>4, EmittedCells
  <1>8. tool = "ssmerge" /\ Choice = "none" => Clashes(at, change.row) = {}
    BY <1>1, <1>3, ChangeFacts DEF emitRow
  <1>9. ASSUME NEW s \in Sheets, NEW r \in Rows
        PROVE  /\ \A c \in Cols(s) :
                    book'[s].cells[r][c] = IF ~Merged(s, r)' THEN local[s][r][c]
                                           ELSE Outcome(s, r, c)
               /\ tool = "ssmerge" /\ Choice = "none" /\ Merged(s, r)'
                    /\ Clashes(s, r) # {} =>
                    book'[s].merge # 0 /\ book'[s].cells[r][book'[s].merge] = Mark
    <2>1. CASE s = at /\ r = change.row
      BY Zenon, <2>1, <1>3, <1>7, <1>8
    <2>2. CASE ~(s = at /\ r = change.row)
      BY <2>2, <1>3, <1>5 DEF DataInv
    <2> QED
      BY Zenon, <2>1, <2>2
  <1> QED
    BY ZenonT(30), <1>2, <1>3, <1>4, <1>9 DEF DataInv, PatchRow, inputs

(* With conflicts in one sheet only, the mark goes to the column added to  *)
(* the sheet at hand.                                                      *)
LEMMA MarkColumn ==
  ASSUME ShapeInv, ClashInv, ConflictsInOneSheet, pc = "rows", HasClash(at)
  PROVE  ConflictColumn = Width[at] + 1 /\ ConflictSheet.merge = Width[at] + 1
  <1>1. /\ at \in Sheets /\ Width[at] \in Nat
        /\ book[at].merge \in {0, Width[at] + 1}
    BY Zenon, SheetFacts DEF ShapeInv, BookOK, SheetOf
  <1>2. CASE readyForConflicts
    <2>1. PICK s \in Sheets : HasClash(s) /\ conflictColumn = Width[s] + 1
                              /\ book[s].merge # 0
      BY Zenon, <1>2 DEF ClashInv, ReadyInv
    <2>2. s = at
      BY Zenon, <1>1, <2>1 DEF ConflictsInOneSheet
    <2> QED
      BY Zenon, <1>1, <1>2, <2>1, <2>2 DEF ConflictColumn, ConflictSheet
  <1>3. CASE ~readyForConflicts
    BY Zenon, <1>1, <1>3, ConflictSheetShape DEF ConflictColumn
  <1> QED
    BY Zenon, <1>2, <1>3

(* What markChanges makes of a row in conflict.                            *)
LEMMA MarkedRow ==
  ASSUME ShapeInv, NEW s \in Sheets, NEW r \in Rows,
         NEW change, change = RowChange(s, r, "none"), change.conflicted,
         tool = "ssmerge", Choice = "none",
         NEW row \in [1 .. Width[s] + 1 -> Cell],
         \A c \in Cols(s) : row[c] = local[s][r][c]
  PROVE  /\ \A c \in Cols(s) :
              ConflictedRow(row, change, Width[s] + 1)[c] = Outcome(s, r, c)
         /\ ConflictedRow(row, change, Width[s] + 1)[Width[s] + 1] = Mark
  <1>1. Width[s] \in Nat
    BY Zenon, SheetFacts
  <1>2. /\ DOMAIN change.conflictingVal = Clashes(s, r)
        /\ \A k \in Clashes(s, r) : /\ change.conflictingVal[k] = remote[s][r][k]
                                    /\ change.conflictingParentVal[k] = pivot[s][r][k]
        /\ Clashes(s, r) # {}
    BY ChangeFacts
  <1>3. \A k \in Clashes(s, r) : change.val[k] = local[s][r][k]
    <2>1. /\ DOMAIN change.val =
               {k \in Cols(s) : Novel(pivot[s][r][k], local[s][r][k],
                                      remote[s][r][k], "none")}
          /\ \A k \in DOMAIN change.val :
               change.val[k] = MergedCell(pivot[s][r][k], local[s][r][k],
                                          remote[s][r][k], "none")
      BY ChangeFacts
    <2> QED
      BY Zenon, <2>1 DEF Clashes, Novel, InConflict, MergedCell
  <1>4. Clashes(s, r) \subseteq Cols(s) /\ Width[s] + 1 \notin Cols(s)
    BY <1>1 DEF Clashes, Cols
  <1>5. ASSUME NEW c \in Cols(s)
        PROVE  ConflictedRow(row, change, Width[s] + 1)[c] = Outcome(s, r, c)
    <2>1. c \in 1 .. Width[s] + 1 /\ c # Width[s] + 1
      BY <1>1, <1>4 DEF Cols
    <2>2. CASE c \in Clashes(s, r)
      <3>1. ConflictedRow(row, change, Width[s] + 1)[c] =
              [pivot |-> toString(pivot[s][r][c]), local |-> toString(local[s][r][c]),
               remote |-> toString(remote[s][r][c])]
        BY Zenon, <1>2, <1>3, <2>1, <2>2 DEF ConflictedRow
      <3>2. /\ Novel(pivot[s][r][c], local[s][r][c], remote[s][r][c], "none")
            /\ InConflict(pivot[s][r][c], local[s][r][c], remote[s][r][c])
        BY Zenon, <2>2 DEF Clashes, Novel, InConflict
      <3> QED
        BY Zenon, <1>2, <3>1, <3>2 DEF Outcome
    <2>3. CASE c \notin Clashes(s, r)
      <3>1. ConflictedRow(row, change, Width[s] + 1)[c] = row[c]
        BY Zenon, <1>2, <2>1, <2>3 DEF ConflictedRow
      <3>2. ~InConflict(pivot[s][r][c], local[s][r][c], remote[s][r][c])
        BY Zenon, <2>3 DEF Clashes
      <3> QED
        BY Zenon, <1>2, <3>1, <3>2 DEF Outcome
    <2> QED
      BY Zenon, <2>2, <2>3
  <1>6. ConflictedRow(row, change, Width[s] + 1)[Width[s] + 1] = Mark
    <2>1. Width[s] + 1 \in DOMAIN row /\ Width[s] + 1 \notin DOMAIN change.conflictingVal
      BY <1>1, <1>2, <1>4
    <2> QED
      BY Zenon, <2>1 DEF ConflictedRow
  <1> QED
    BY Zenon, <1>5, <1>6

LEMMA PatchConflictedRowData ==
  ASSUME ShapeInv, ClashInv, ConflictsInOneSheet, DataInv, PatchConflictedRow
  PROVE  DataInv'
  <1>1. PICK change \in rc :
          /\ change.conflicted /\ rc' = rc \ {change}
          /\ book' = [book EXCEPT ![at] =
                        [ConflictSheet EXCEPT !.cells[change.row] =
                           ConflictedRow(@, change, ConflictColumn)]]
    BY Zenon DEF PatchConflictedRow, Upcoming
  <1>2. /\ pc = "rows" /\ pc' \in {"rows", "crash"} /\ tool = "ssmerge" /\ at' = at
        /\ UNCHANGED <<inputs, resolve>>
    BY Zenon DEF PatchConflictedRow
  <1>3. Choice' = Choice
    BY Zenon, <1>2 DEF inputs, Choice
  <1>4. /\ \A s \in Sheets, r \in Rows :
             Merged(s, r)' <=> Merged(s, r) \/ (s = at /\ r = change.row)
        /\ \A s \in Sheets : ~Resolved(s) /\ ~Resolved(s)'
        /\ at \in Sheets /\ change.row \in Rows
        /\ change = RowChange(at, change.row, Choice)
    BY Zenon, <1>1, <1>2, OneRowMerged
  <1>5. /\ \A s, r, c : Outcome(s, r, c)' = Outcome(s, r, c)
        /\ \A s, r : Clashes(s, r)' = Clashes(s, r)
    BY Zenon, <1>2, <1>3, SameOutcome, SameClashes
  <1>6. Choice = "none" /\ Clashes(at, change.row) # {} /\ HasClash(at)
    <2>1. Choice = "none" /\ Clashes(at, change.row) # {}
      BY Zenon, <1>1, <1>4, ChangeFacts
    <2> QED
      BY Zenon, <1>4, <2>1 DEF HasClash
  <1>7. ConflictColumn = Width[at] + 1 /\ ConflictSheet.merge = Width[at] + 1
    BY Zenon, <1>2, <1>6, MarkColumn
  <1>8. /\ \A t \in Sheets \ {at} : book'[t] = book[t]
        /\ book'[at].merge = Width[at] + 1
        /\ \A r \in Rows :
             book'[at].cells[r] =
               IF r = change.row
               THEN ConflictedRow(ConflictSheet.cells[r], change, Width[at] + 1)
               ELSE ConflictSheet.cells[r]
    <2>1. /\ \A t \in Sheets \ {at} : book'[t] = book[t]
          /\ book'[at].merge = ConflictSheet.merge
          /\ \A r \in Rows :
               book'[at].cells[r] =
                 IF r = change.row
                 THEN ConflictedRow(ConflictSheet.cells[r], change, ConflictColumn)
                 ELSE ConflictSheet.cells[r]
      BY Zenon, <1>1, <1>2, ConflictShape
    <2> QED
      BY Zenon, <1>7, <2>1
  <1>9. /\ \A r \in Rows, c \in Cols(at) :
             ConflictSheet.cells[r][c] = book[at].cells[r][c]
        /\ book[at].merge # 0 => ConflictSheet = book[at]
        /\ ConflictSheet.cells \in [Rows -> [1 .. Width[at] + 1 -> Cell]]
    <2>1. ConflictSheet \in SheetOf(at) /\ Width[at] \in Nat
      BY Zenon, <1>2, <1>4, ConflictSheetShape, SheetFacts
    <2>2. ConflictSheet.cells \in [Rows -> [1 .. Width[at] + 1 -> Cell]]
      BY <2>1, <1>7 DEF SheetOf
    <2> QED
      BY Zenon, <1>2, <2>2, ConflictSheetShape
  <1>10. ~Merged(at, change.row)
    BY <1>2, <1>4, SheetFacts DEF Merged, InRows
  <1>11. /\ \A c \in Cols(at) : book'[at].cells[change.row][c] = Outcome(at, change.row, c)
         /\ book'[at].cells[change.row][Width[at] + 1] = Mark
    <2> DEFINE row == ConflictSheet.cells[change.row]
    <2>1. row \in [1 .. Width[at] + 1 -> Cell]
      BY Zenon, <1>4, <1>9
    <2>2. \A c \in Cols(at) : row[c] = local[at][change.row][c]
      BY <1>4, <1>9, <1>10 DEF DataInv
    <2>3. book'[at].cells[change.row] = ConflictedRow(row, change, Width[at] + 1)
      BY Zenon, <1>4, <1>8
    <2> HIDE DEF row
    <2>4. /\ \A c \in Cols(at) :
               ConflictedRow(row, change, Width[at] + 1)[c] = Outcome(at, change.row, c)
          /\ ConflictedRow(row, change, Width[at] + 1)[Width[at] + 1] = Mark
      BY Zenon, <1>1, <1>2, <1>4, <1>6, <2>1, <2>2, MarkedRow
    <2> QED
      BY Zenon, <2>3, <2>4
  <1>12. ASSUME NEW s \in Sheets, NEW r \in Rows
         PROVE  /\ \A c \in Cols(s) :
                     book'[s].cells[r][c] = IF ~Merged(s, r)' THEN local[s][r][c]
                                            ELSE Outcome(s, r, c)
                /\ Merged(s, r)' /\ Clashes(s, r) # {} =>
                     book'[s].merge # 0 /\ book'[s].cells[r][book'[s].merge] = Mark
    <2>1. Width[at] \in Nat
      BY Zenon, <1>4, SheetFacts
    <2>2. CASE s = at /\ r = change.row
      BY <2>1, <2>2, <1>4, <1>8, <1>11
    <2>3. CASE s = at /\ r # change.row
      <3>1. book'[s].cells[r] = ConflictSheet.cells[r] /\ book'[s].merge = Width[at] + 1
        BY Zenon, <2>3, <1>8
      <3>2. Merged(s, r)' <=> Merged(s, r)
        BY Zenon, <2>3, <1>4
      <3>3. \A c \in Cols(s) :
              book'[s].cells[r][c] = IF ~Merged(s, r)' THEN local[s][r][c]
                                     ELSE Outcome(s, r, c)
        BY SMTT(30), <2>3, <3>1, <3>2, <1>4, <1>9 DEF DataInv
      <3>4. ASSUME Merged(s, r)', Clashes(s, r) # {}
            PROVE  book'[s].merge # 0 /\ book'[s].cells[r][book'[s].merge] = Mark
        <4>1. book[s].merge # 0 /\ book[s].cells[r][book[s].merge] = Mark
          BY Zenon, <1>2, <1>4, <1>6, <3>2, <3>4 DEF DataInv
        <4>2. ConflictSheet = book[at]
          BY Zenon, <2>3, <4>1, <1>9
        <4> QED
          BY Zenon, <2>1, <2>3, <3>1, <4>1, <4>2, <1>7
      <3> QED
        BY Zenon, <3>3, <3>4
    <2>4. CASE s # at
      <3>1. book'[s] = book[s]
        BY Zenon, <2>4, <1>8
      <3>2. Merged(s, r)' <=> Merged(s, r)
        BY Zenon, <2>4, <1>4
      <3>3. \A c \in Cols(s) :
              book[s].cells[r][c] = IF ~Merged(s, r) THEN local[s][r][c]
                                    ELSE Outcome(s, r, c)
        BY SMTT(30), <1>4 DEF DataInv
      <3>4. Merged(s, r) /\ Clashes(s, r) # {} =>
              book[s].merge # 0 /\ book[s].cells[r][book[s].merge] = Mark
        BY Zenon, <1>2, <1>4, <1>6 DEF DataInv
      <3>5. \A c \in Cols(s) :
              book'[s].cells[r][c] = IF ~Merged(s, r)' THEN local[s][r][c]
                                     ELSE Outcome(s, r, c)
        BY SMTT(30), <3>1, <3>2, <3>3
      <3> QED
        BY Zenon, <3>1, <3>2, <3>4, <3>5
    <2> QED
      BY Zenon, <2>2, <2>3, <2>4
  <1> QED
    BY ZenonT(30), <1>2, <1>3, <1>4, <1>5, <1>12 DEF DataInv, inputs

LEMMA EndSheetData ==
  ASSUME ShapeInv, DataInv, EndSheet
  PROVE  DataInv'
  <1>1. /\ \A s, r, c : Outcome(s, r, c)' = Outcome(s, r, c)
        /\ \A s, r : Clashes(s, r)' = Clashes(s, r)
    BY Zenon, EndSheetMerged, SameOutcome, SameClashes DEF EndSheet
  <1> QED
    <2>1. /\ book' = book /\ UNCHANGED inputs /\ tool' = tool /\ resolve' = resolve
          /\ \A s : Cols(s)' = Cols(s)
      BY Zenon DEF EndSheet, inputs, Cols
    <2>2. local' = local
      BY Zenon, <2>1 DEF inputs
    <2>3. /\ Choice' = Choice
          /\ \A s \in Sheets, r \in Rows : Merged(s, r)' <=> Merged(s, r)
          /\ \A s \in Sheets : ~Resolved(s) /\ ~Resolved(s)'
      BY Zenon, EndSheetMerged
    <2> QED BY ZenonT(30), <1>1, <2>1, <2>2, <2>3 DEF DataInv

LEMMA RunResolveData ==
  ASSUME ShapeInv, DataInv, NEW choice \in {"ours", "theirs", "neither"},
         RunResolve(choice)
  PROVE  DataInv'
  <1>1. /\ \A s, r, c : Outcome(s, r, c)' = Outcome(s, r, c)
        /\ \A s, r : Clashes(s, r)' = Clashes(s, r)
    BY Zenon, RunResolveMerged, SameOutcome, SameClashes DEF RunResolve
  <1> QED
    BY Zenon, <1>1, RunResolveMerged DEF DataInv, RunResolve, inputs

(* A cell that is no conflict between two sides is a plain one after the   *)
(* merge.                                                                  *)
LEMMA PlainOutcome ==
  ASSUME ShapeInv, NEW s \in Sheets, NEW r \in Rows, NEW c \in Cols(s),
         Clashes(s, r) = {}
  PROVE  Outcome(s, r, c) \in Data /\ Outcome(s, r, c) \notin ConflictText
  <1>1. /\ pivot[s][r][c] \in Data /\ local[s][r][c] \in Data
        /\ remote[s][r][c] \in Data
    BY Zenon, BookCell, DataFacts DEF ShapeInv
  <1>2. Choice \in {"none", "ours", "theirs", "neither"}
    BY Zenon DEF ShapeInv, Choice
  <1>3. Outcome(s, r, c) \in Data
    BY Zenon, <1>1, <1>2, MergedCellType DEF Outcome
  <1>4. \A d \in Data : d \notin ConflictText
    BY Zenon, TextsApart, ConstantsOK DEF Data
  <1> QED
    BY Zenon, <1>3, <1>4

LEMMA ResolveSheetData ==
  ASSUME ShapeInv, DataInv, ResolveSheet
  PROVE  DataInv'
  <1>1. /\ \A s, r, c : Outcome(s, r, c)' = Outcome(s, r, c)
        /\ \A s, r : Clashes(s, r)' = Clashes(s, r)
    BY Zenon, ResolveSheetMerged, SameOutcome, SameClashes DEF ResolveSheet
  <1>2. /\ at \in Sheets /\ tool = "ssmerge" /\ resolve \in {"ours", "theirs", "neither"}
        /\ Choice = "none" /\ Choice' = "none" /\ ~Resolved(at)
        /\ \A s \in Sheets, r \in Rows : Merged(s, r) /\ Merged(s, r)'
        /\ \A s \in Sheets : Resolved(s)' <=> Resolved(s) \/ s = at
    BY Zenon, ResolveSheetMerged
  <1>3. ASSUME NEW r \in Rows, NEW c \in Cols(at)
        PROVE  book'[at].cells[r][c] = ResolvedCell(Outcome(at, r, c), resolve)
    <2>1. book[at] \in SheetOf(at)
      BY Zenon, <1>2 DEF ShapeInv, BookOK
    <2>2. book'[at].cells[r][c] =
            IF book[at].merge # 0 /\ book[at].cells[r][book[at].merge] = Mark
            THEN ResolvedCell(book[at].cells[r][c], resolve)
            ELSE book[at].cells[r][c]
      BY <1>2, <2>1, ResolvedShape, ResolveSheetBook
    <2>3. book[at].cells[r][c] = Outcome(at, r, c)
      BY Zenon, <1>2 DEF DataInv
    <2>4. CASE Clashes(at, r) # {}
      <3>1. book[at].merge # 0 /\ book[at].cells[r][book[at].merge] = Mark
        BY Zenon, <1>2, <2>4 DEF DataInv
      <3> QED
        BY Zenon, <2>2, <2>3, <3>1
    <2>5. CASE Clashes(at, r) = {}
      <3>1. ResolvedCell(Outcome(at, r, c), resolve) = Outcome(at, r, c)
        BY Zenon, <1>2, <2>5, PlainOutcome DEF ResolvedCell
      <3> QED
        BY Zenon, <2>2, <2>3, <3>1
    <2> QED
      BY Zenon, <2>4, <2>5
  <1>4. \A t \in Sheets \ {at} : book'[t] = book[t]
    BY Zenon, ResolveSheetBook
  <1>5. \A s : local'[s] = local[s] /\ Cols(s)' = Cols(s)
    BY Zenon DEF ResolveSheet, inputs, Cols
  <1>6. SUFFICES ASSUME NEW s \in Sheets, NEW r \in Rows
                 PROVE  /\ \A c \in Cols(s) :
                             book'[s].cells[r][c] =
                               IF Resolved(s)'
                               THEN ResolvedCell(Outcome(s, r, c), resolve')
                               ELSE Outcome(s, r, c)
                        /\ tool' = "ssmerge" /\ Clashes(s, r) # {} /\ ~Resolved(s)' =>
                             /\ book'[s].merge # 0
                             /\ book'[s].cells[r][book'[s].merge] = Mark
    BY Zenon, <1>1, <1>2, <1>5 DEF DataInv
  <1>7. tool' = tool /\ resolve' = resolve
    BY Zenon DEF ResolveSheet, inputs
  <1>8. CASE s = at
    BY Zenon, <1>2, <1>3, <1>7, <1>8
  <1>9. CASE s # at
    <2>1. book'[s] = book[s] /\ (Resolved(s)' <=> Resolved(s))
      BY Zenon, <1>2, <1>4, <1>9
    <2>2. /\ \A c \in Cols(s) :
               book[s].cells[r][c] =
                 IF ~Merged(s, r) THEN local[s][r][c]
                 ELSE IF Resolved(s) THEN ResolvedCell(Outcome(s, r, c), resolve)
                 ELSE Outcome(s, r, c)
          /\ tool = "ssmerge" /\ Choice = "none" /\ Merged(s, r) /\ Clashes(s, r) # {}
               /\ ~Resolved(s) =>
               book[s].merge # 0 /\ book[s].cells[r][book[s].merge] = Mark
      BY Zenon DEF DataInv
    <2>3. \A c \in Cols(s) :
            book'[s].cells[r][c] =
              IF Resolved(s)' THEN ResolvedCell(Outcome(s, r, c), resolve') ELSE Outcome(s, r, c)
      BY Zenon, <1>2, <1>7, <2>1, <2>2
    <2>4. tool' = "ssmerge" /\ Clashes(s, r) # {} /\ ~Resolved(s)' =>
            book'[s].merge # 0 /\ book'[s].cells[r][book'[s].merge] = Mark
      BY Zenon, <1>2, <1>7, <2>1, <2>2
    <2> QED
      BY Zenon, <2>3, <2>4
  <1> QED
    BY Zenon, <1>8, <1>9

(* The whole invariant is inductive.                                       *)
LEMMA InitInv == Init => IInv
  BY Zenon, InitShape, InitClash, InitData DEF IInv

LEMMA NextInv == IInv /\ [Next]_vars => IInv'
  <1>1. SUFFICES ASSUME IInv, [Next]_vars, ConflictsInOneSheet' PROVE DataInv'
    BY Zenon, NextShape, NextClash DEF IInv
  <1>2. UNCHANGED inputs
    BY Zenon, <1>1 DEF Next, vars, MergeSheet, SkipRow, PatchRow, PatchConflictedRow,
                EndSheet, RunResolve, ResolveSheet
  <1>3. ShapeInv /\ ClashInv /\ ConflictsInOneSheet /\ DataInv
    BY Zenon, <1>1, <1>2, SameClashes DEF IInv
  <1>4. CASE UNCHANGED vars
    <2>1. /\ Choice' = Choice /\ \A s : Resolved(s)' = Resolved(s)
          /\ \A s, r : Merged(s, r)' = Merged(s, r)
      BY Zenon, <1>4 DEF vars, inputs, Choice, Resolved, Merged
    <2>2. /\ \A s, r, c : Outcome(s, r, c)' = Outcome(s, r, c)
          /\ \A s, r : Clashes(s, r)' = Clashes(s, r)
      BY Zenon, <1>2, <1>4, <2>1, SameOutcome, SameClashes DEF vars
    <2> QED
      BY ZenonT(30), <1>3, <1>4, <2>1, <2>2 DEF vars, inputs, DataInv
  <1> QED
    BY Zenon, <1>1, <1>3, <1>4, MergeSheetData, SkipRowData, PatchRowData,
       PatchConflictedRowData, EndSheetData, RunResolveData, ResolveSheetData
    DEF Next
-----------------------------------------------------------------------------
(* With conflicts in one sheet of the book only, no step of ssmerge,       *)
(* sspatch or ssresolve (SheetPatcher::markChanges, MergeOutputFilter,     *)
(* BookCompare::resolve) loses a cell that only the local side changed.    *)
THEOREM LocalEditsSafe == Spec => [](ConflictsInOneSheet => LocalEditsKept)
  <1>1. ASSUME IInv, ConflictsInOneSheet, NEW s \in Sheets, NEW r \in Rows,
               NEW c \in Cols(s), pivot[s][r][c] = remote[s][r][c]
        PROVE  book[s].cells[r][c] = local[s][r][c]
    <2>1. Outcome(s, r, c) = local[s][r][c]
      BY Zenon, <1>1 DEF Outcome, Novel
    <2>2. local[s][r][c] \in Data /\ \A d \in Data : d \notin ConflictText
      BY Zenon, <1>1, BookCell, TextsApart, ConstantsOK DEF IInv, ShapeInv, Data
    <2>3. ResolvedCell(local[s][r][c], resolve) = local[s][r][c]
      BY Zenon, <2>2 DEF ResolvedCell
    <2> QED
      BY Zenon, <1>1, <2>1, <2>3 DEF IInv, DataInv
  <1>2. IInv => (ConflictsInOneSheet => LocalEditsKept)
    BY Zenon, <1>1 DEF LocalEditsKept
  <1> QED
    BY <1>2, InitInv, NextInv, PTL DEF Spec

(* When a path has ended every sheet is merged, and after ssresolve every  *)
(* sheet is resolved.                                                      *)
LEMMA EndedMerged ==
  ASSUME ShapeInv, Ended, NEW s \in Sheets
  PROVE  /\ \A r \in Rows : Merged(s, r)
         /\ Resolved(s) <=> pc = "resolved"
  BY SheetFacts DEF ShapeInv, Ended, Merged, Resolved

(* With conflicts in one sheet only, a row without conflicts ends as       *)
(* Merger::mergeRow decides, whatever markChanges and resolve do to the    *)
(* other rows of the book.                                                 *)
THEOREM RowsMerged == Spec => [](ConflictsInOneSheet => UnconflictedRowsMerged)
  <1>1. ASSUME IInv, ConflictsInOneSheet, Ended, NEW s \in Sheets, NEW r \in Rows,
               Clashes(s, r) = {}, NEW c \in Cols(s)
        PROVE  book[s].cells[r][c] =
                 IF local[s][r][c] # pivot[s][r][c] THEN local[s][r][c]
                 ELSE remote[s][r][c]
    <2> DEFINE p == pivot[s][r][c]  l == local[s][r][c]  x == remote[s][r][c]
    <2>1. ~InConflict(p, l, x)
      BY Zenon, <1>1 DEF Clashes
    <2>2. Outcome(s, r, c) = IF l # p THEN l ELSE x
      BY Zenon, <1>1, <2>1 DEF Outcome, Novel, MergedCell, InConflict
    <2>3. ResolvedCell(Outcome(s, r, c), resolve) = Outcome(s, r, c)
      BY Zenon, <1>1, PlainOutcome DEF ResolvedCell, IInv
    <2>4. book[s].cells[r][c] = Outcome(s, r, c)
      BY Zenon, <1>1, <2>3, EndedMerged DEF IInv, DataInv
    <2> QED
      BY Zenon, <2>2, <2>4
  <1>2. IInv => (ConflictsInOneSheet => UnconflictedRowsMerged)
    BY Zenon, <1>1 DEF UnconflictedRowsMerged
  <1> QED
    BY <1>2, InitInv, NextInv, PTL DEF Spec

(* With conflicts in one sheet only, a cell in conflict ends with the side *)
(* chosen, whether Merger, MergeOutputFilter or BookCompare::resolve makes *)
(* the choice.                                                             *)
THEOREM ChoiceIsMade == Spec => [](ConflictsInOneSheet => ConflictsSettled)
  <1>1. ASSUME IInv, ConflictsInOneSheet, pc \in {"done", "resolved"}, resolve # "none",
               NEW s \in Sheets, NEW r \in Rows, NEW c \in Clashes(s, r)
        PROVE  LET chosen == Pick(resolve, pivot[s][r][c], local[s][r][c],
                                  remote[s][r][c])
               IN book[s].cells[r][c] = IF pc = "resolved" THEN toString(chosen)
                                        ELSE chosen
    <2> DEFINE p == pivot[s][r][c]  l == local[s][r][c]  x == remote[s][r][c]
               triple == [pivot |-> toString(p), local |-> toString(l),
                          remote |-> toString(x)]
    <2>1. c \in Cols(s) /\ InConflict(p, l, x)
      BY Zenon DEF Clashes
    <2>2. ShapeInv /\ Ended /\ resolve \in {"ours", "theirs", "neither"}
      BY Zenon, <1>1 DEF IInv, ShapeInv, Ended
    <2>3. book[s].cells[r][c] = IF pc = "resolved"
                                THEN ResolvedCell(Outcome(s, r, c), resolve)
                                ELSE Outcome(s, r, c)
      BY Zenon, <1>1, <2>1, <2>2, EndedMerged DEF IInv, DataInv
    <2>4. CASE pc = "done"
      <3>1. CASE tool = "ssmerge"
        <4>1. Choice = resolve
          BY Zenon, <2>4, <3>1 DEF Choice
        <4>2. Outcome(s, r, c) = Pick(resolve, p, l, x)
          BY Zenon, <2>1, <2>2, <4>1 DEF Outcome, Novel, MergedCell, InConflict, Pick
        <4> QED
          BY Zenon, <2>3, <2>4, <4>2
      <3>2. CASE tool # "ssmerge"
        <4>1. Choice = "none"
          BY Zenon, <3>2 DEF Choice
        <4>2. Outcome(s, r, c) = Pick(resolve, p, l, x)
          BY Zenon, <2>1, <2>2, <3>2, <4>1 DEF Outcome, Novel, InConflict, Pick
        <4> QED
          BY Zenon, <2>3, <2>4, <4>2
      <3> QED
        BY Zenon, <3>1, <3>2
    <2>5. CASE pc = "resolved"
      <3>1. tool = "ssmerge" /\ Choice = "none"
        BY Zenon, <2>2, <2>5 DEF ShapeInv, Choice
      <3>2. Outcome(s, r, c) = triple
        BY Zenon, <2>1, <3>1 DEF Outcome, Novel, InConflict
      <3>3. p \in Data /\ l \in Data /\ x \in Data
        BY Zenon, <2>1, <2>2, BookCell, DataFacts DEF ShapeInv
      <3>4. triple \in ConflictText
        BY Zenon, <3>3, DataFacts DEF ConflictText
      <3>5. ResolvedCell(triple, resolve) =
              Pick(resolve, toString(p), toString(l), toString(x))
        BY Zenon, <3>4 DEF ResolvedCell
      <3>6. Pick(resolve, toString(p), toString(l), toString(x)) =
              toString(Pick(resolve, p, l, x))
        BY Zenon DEF Pick
      <3> QED
        BY Zenon, <2>3, <2>5, <3>2, <3>5, <3>6
    <2> QED
      BY Zenon, <1>1, <2>4, <2>5
  <1>2. IInv => (ConflictsInOneSheet => ConflictsSettled)
    BY Zenon, <1>1 DEF ConflictsSettled
  <1> QED
    BY <1>2, InitInv, NextInv, PTL DEF Spec

(* With conflicts in one sheet only, ssresolve leaves no text of a         *)
(* conflict and no _MERGE_ column.                                         *)
THEOREM ResolveIsComplete == Spec => [](ConflictsInOneSheet => NothingLeftToResolve)
  <1>1. ASSUME IInv, ConflictsInOneSheet, pc = "resolved", NEW s \in Sheets,
               NEW r \in Rows, NEW c \in Cols(s)
        PROVE  book[s].cells[r][c] \notin ConflictText
    <2>1. ShapeInv /\ Ended /\ tool = "ssmerge" /\ Choice = "none"
          /\ resolve \in {"ours", "theirs", "neither"}
      BY Zenon, <1>1 DEF IInv, ShapeInv, Ended, Choice
    <2>2. book[s].cells[r][c] = ResolvedCell(Outcome(s, r, c), resolve)
      BY Zenon, <1>1, <2>1, EndedMerged DEF IInv, DataInv
    <2>3. \A d \in Data \cup {NullText} : d \notin ConflictText
      BY Zenon, TextsApart, ConstantsOK DEF Data
    <2>4. CASE Outcome(s, r, c) \notin ConflictText
      BY Zenon, <2>2, <2>4 DEF ResolvedCell
    <2>5. CASE Outcome(s, r, c) \in ConflictText
      <3>1. ResolvedCell(Outcome(s, r, c), resolve) \in Text \cup {NullText}
        BY Zenon, <2>5 DEF ResolvedCell, ConflictText, Pick
      <3> QED
        BY Zenon, <2>2, <2>3, <3>1 DEF Data
    <2> QED
      BY Zenon, <2>4, <2>5
  <1>2. IInv => (ConflictsInOneSheet => NothingLeftToResolve)
    BY Zenon, <1>1 DEF NothingLeftToResolve, Unresolved, IInv, ClashInv, ColumnInv
  <1> QED
    BY <1>2, InitInv, NextInv, PTL DEF Spec

=============================================================================
