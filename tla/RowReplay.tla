----------------------------- MODULE RowReplay -----------------------------
(***************************************************************************)
(* From the order of the merged rows to the table that has it: Merger      *)
(* walks the match units of OrderMerge and lists row changes, and          *)
(* SheetPatcher replays them on local, with a cursor that says where the   *)
(* next row goes.  Columns are matched and unchanged, and the rows of      *)
(* local differ from each other, so that a change names one row; a cell is *)
(* either as it was in local or as the change has it.                      *)
(***************************************************************************)
EXTENDS OrderMerge, SequencesExt

CONSTANTS
  Options,    \* <<where column names are, what --act allows, indexed>>
  MaxReplayed \* bound on the rows of a side in a replay

ASSUME OptionsOK ==
  /\ Options \subseteq {"none", "row", "hidden"}
                       \X (SUBSET {"insert", "delete", "update"}) \X BOOLEAN
  /\ MaxReplayed \in Nat

VARIABLES
  header,     \* none; the first row of the sheet; a row that PolySheet hides
  acts,       \* what flags.canInsert, canDelete and canUpdate allow
  indexed,    \* changes name a row by its key only, not by all its cells
  m,          \* the members of Merger that mergeRow reads and writes
  at,         \* the number of match units mergeRow has seen
  rc,         \* row changes not replayed yet
  updated,    \* rows of local that have a new cell in the merge
  sheet,      \* the sheet being patched, at first local
  rowCursor, checkedHeader,  \* of SheetPatcher
  counted     \* whether its changeCount is above 0

options == <<header, acts, indexed>>
patcher == <<sheet, rowCursor, checkedHeader, counted>>
orderState == <<inputs, cursors, accum, canon, canon_src, round>>
rowVars == <<vars, options, m, at, rc, updated, patcher>>

(* A row of local is known by its number, one that remote inserts by its   *)
(* number there.                                                           *)
Row == [id : 0 .. 2 * MaxRows, new : BOOLEAN]
LocalRowOf(l) == [id |-> l, new |-> FALSE]
InsertedRow(r) == [id |-> MaxRows + r, new |-> FALSE]
HeaderRow == [id |-> 0, new |-> FALSE]

(* A change: the row of local it names (-1: none), the row of remote and   *)
(* whether it carries new cells.                                           *)
Change(mode, l, r, val) == [mode |-> mode, lRow |-> l, rRow |-> r, val |-> val]

Context(l) ==
  IF use_order /\ PivotRows > 0 THEN <<Change("CONTEXT", l, -1, FALSE)>> ELSE <<>>

RowInit ==
  /\ Init
  /\ header = "unknown" /\ acts = {} /\ indexed = FALSE
  /\ m = [last_local_row |-> -1, last_local_row_marked |-> -1,
          bottom_local_row |-> -1, had_row |-> FALSE, had_foreign_row |-> FALSE]
  /\ at = 0 /\ rc = <<>> /\ updated = {} /\ sheet = <<>>
  /\ rowCursor = -1 /\ checkedHeader = FALSE /\ counted = FALSE

OrderRows == Next /\ UNCHANGED <<options, m, at, rc, updated, patcher>>

Attached(h) == (IF h = "none" THEN <<>> ELSE <<HeaderRow>>)
               \o [l \in DOMAIN order_local |-> LocalRowOf(l)]

(* The sheet to be patched, and the flags, which play no part before.      *)
(* Remote is longer only below hidden names, where it has all of local's   *)
(* rows when the result is spoken of.                                      *)
AttachSheet ==
  /\ pc = "done" /\ pc' = "merge"
  /\ Len(order_local) <= MaxReplayed
  /\ \E option \in Options : /\ header' = option[1] /\ acts' = option[2]
                             /\ indexed' = option[3]
  /\ header' # "hidden" => Len(order_remote) <= MaxReplayed
  /\ sheet' = Attached(header')
  /\ UNCHANGED <<orderState, m, at, rc, updated, rowCursor, checkedHeader, counted>>
-----------------------------------------------------------------------------
(* MergeOutputFilter::changeRow: the act that a change needs, if any.      *)
ActOf == [INSERT |-> "insert", DELETE |-> "delete", UPDATE |-> "update",
          MOVE |-> "update"]
Passes(change) == change.mode \in DOMAIN ActOf => ActOf[change.mode] \in acts

(* A row that has new cells and a new place is moved with its new cells.   *)
UpdateOrMove(l, update, haveMove, novel) ==
  IF haveMove THEN <<Change("MOVE", l, -1, novel)>>
  ELSE IF update THEN <<Change("UPDATE", l, -1, TRUE)>> ELSE <<>>

(***************************************************************************)
(* Merger::mergeRow on the next unit; novel says whether the merged row    *)
(* has a cell that local does not.                                         *)
(***************************************************************************)
MergeRow(novel) ==
  /\ pc = "merge" /\ at < Len(accum)
  /\ LET unit == accum[at + 1]
         l == unit.localUnit
         last == m.last_local_row
         had_row == m.had_row \/ last # -1
         had_foreign_row == m.had_foreign_row /\ last = -1
         moved == /\ ~unit.deleted /\ l # -1
                  /\ had_row \/ had_foreign_row
                  /\ l < m.bottom_local_row \/ had_foreign_row
         haveMove == moved /\ (m.had_row \/ l # 1) /\ use_order
         context == IF last # -1 /\ m.last_local_row_marked # last
                    THEN Context(last) ELSE <<>>
         insert == l = -1 /\ "insert" \in acts
         delete == /\ l # -1 /\ unit.remoteUnit = -1
                   /\ "delete" \in acts /\ unit.pivotUnit # -1
         update == /\ l # -1 /\ unit.remoteUnit # -1
                   /\ "update" \in acts /\ novel
         first == last = -1 /\ ~(m.had_row \/ had_foreign_row)
     IN /\ novel => l # -1 /\ unit.remoteUnit # -1
        /\ rc' = rc \o SelectSeq(
             (IF insert THEN (IF first THEN Context(-1) ELSE context)
                             \o <<Change("INSERT", -1, unit.remoteUnit, TRUE)>>
              ELSE (IF moved THEN context ELSE <<>>)
                   \o UpdateOrMove(l, update, haveMove, novel)
                   \o (IF delete THEN <<Change("DELETE", l, -1, FALSE)>> ELSE <<>>)),
             Passes)
        /\ m' = [last_local_row |-> l,
                 last_local_row_marked |->
                   IF insert THEN -1
                   ELSE IF moved \/ delete \/ update THEN l
                   ELSE m.last_local_row_marked,
                 bottom_local_row |-> IF l >= m.bottom_local_row
                                      THEN l ELSE m.bottom_local_row,
                 had_row |-> had_row,
                 had_foreign_row |-> had_foreign_row \/ (insert /\ last = -1)]
        /\ updated' = IF novel THEN updated \cup {l} ELSE updated
  /\ at' = at + 1
  /\ UNCHANGED <<vars, options, patcher>>

Replay ==
  /\ pc = "merge" /\ at = Len(accum)
  /\ pc' = "replay"
  /\ UNCHANGED <<orderState, options, m, at, rc, updated, patcher>>
-----------------------------------------------------------------------------
(***************************************************************************)
(* SheetPatcher::changeRow, one action per mode.  PolySheet hides as many  *)
(* rows as its offset says.  A change is counted when `result` is true,    *)
(* which INSERT and MOVE leave false.                                      *)
(***************************************************************************)
dh == IF header = "hidden" THEN 1 ELSE 0
height == Len(sheet) - dh

(* Mutant: the last row is never reached.                                  *)
matchRowShort(l) ==
  LET hits == {y \in 1 .. height - 1 : /\ sheet[y + dh].id = l
                                       /\ indexed \/ ~sheet[y + dh].new}
  IN IF hits = {} THEN -1 ELSE CHOOSE y \in hits : \A z \in hits : y <= z

(* The first row that has the cells the change names, or -1.               *)
matchRow(l) ==
  LET hits == {y \in 1 .. height : /\ sheet[y + dh].id = l
                                   /\ indexed \/ ~sheet[y + dh].new}
  IN IF hits = {} THEN -1 ELSE CHOOSE y \in hits : \A z \in hits : y <= z

(* Mutant: the cursor stays on the row that was changed.                   *)
AfterSame(y, h) == IF y > h THEN -1 ELSE y

(* The cursor after row y of h rows.                                       *)
After(y, h) == IF y + 1 > h THEN -1 ELSE y + 1

(* Mutant: changes are not counted.                                        *)
CountNothing(y) == UNCHANGED counted

Count(y) == counted' = (counted \/ y # -1)

Changing(mode) ==
  /\ pc = "replay" /\ rc # <<>> /\ Head(rc).mode = mode
  /\ rc' = Tail(rc)
  /\ UNCHANGED <<orderState, options, m, at, updated>>

InsertRow ==
  /\ Changing("INSERT") /\ rowCursor <= height
  /\ LET y == IF rowCursor = -1 THEN height + 1 ELSE rowCursor
     IN /\ sheet' = InsertAt(sheet, y + dh, InsertedRow(Head(rc).rRow))
        /\ rowCursor' = After(y, height + 1)
  /\ UNCHANGED <<pc, checkedHeader, counted>>

(* A cursor beyond the last row: TypedSheet::insertRow adds none, and the  *)
(* cells go to row -1, which ends the program or is not noticed.           *)
InsertRowNowhere ==
  /\ Changing("INSERT") /\ rowCursor > height
  /\ pc' \in {"replay", "crash"}
  /\ rowCursor' = IF height = 0 THEN -1 ELSE 1
  /\ UNCHANGED <<sheet, checkedHeader, counted>>

(* Mutant: the row is crossed out, as in descriptive mode, and kept.       *)
DeleteRowKept ==
  /\ Changing("DELETE")
  /\ LET y == matchRow(Head(rc).lRow)
     IN /\ rowCursor' = IF y = -1 THEN rowCursor ELSE After(y - 1, height)
        /\ Count(y)
  /\ UNCHANGED <<pc, sheet, checkedHeader>>

DeleteRow ==
  /\ Changing("DELETE")
  /\ LET y == matchRow(Head(rc).lRow)
     IN IF y = -1 THEN UNCHANGED <<sheet, rowCursor, counted>>
        ELSE /\ sheet' = RemoveAt(sheet, y + dh)
             /\ rowCursor' = After(y - 1, height - 1)
             /\ Count(y)
  /\ UNCHANGED <<pc, checkedHeader>>

(* Mutant: the column names are below the top of the sheet.                *)
TopOfAll == 1

Top == IF header = "row" /\ ~checkedHeader THEN 2 ELSE 1

(* A context without a row is the top of the sheet, below the column names *)
(* if they are its first row.                                              *)
ContextRow ==
  /\ Changing("CONTEXT")
  /\ LET l == Head(rc).lRow
         y == matchRow(l)
     IN IF l = -1
        THEN /\ rowCursor' = Top
             /\ checkedHeader' = TRUE /\ Count(Top)
        ELSE /\ rowCursor' = IF y = -1 THEN rowCursor ELSE After(y, height)
             /\ Count(y)
             /\ UNCHANGED checkedHeader
  /\ UNCHANGED <<pc, sheet>>

(* TypedSheet::moveRow: the row of s comes before the one of b, or last.   *)
Moved(s, b) ==
  IF b = -1 THEN Append(RemoveAt(sheet, s), sheet[s])
  ELSE RemoveAt(InsertAt(sheet, b, sheet[s]), IF b < s THEN s + 1 ELSE s)

MovedTo(s, b) == IF b = -1 THEN Len(sheet) ELSE IF b > s THEN b - 1 ELSE b

(* PolySheet::moveRow takes the offset into account for the place the row  *)
(* goes to, not for the row.                                               *)
MoveRow ==
  /\ Changing("MOVE")
  /\ LET y == matchRow(Head(rc).lRow)
         b == IF rowCursor = -1 THEN -1 ELSE rowCursor + dh
         at2 == MovedTo(y, b)
     IN IF y = -1 THEN UNCHANGED <<sheet, rowCursor>>
        ELSE /\ sheet' = [Moved(y, b) EXCEPT ![at2].new = @ \/ Head(rc).val]
             /\ rowCursor' = After(at2 - dh, height)
  /\ UNCHANGED <<pc, checkedHeader, counted>>

UpdateRow ==
  /\ Changing("UPDATE")
  /\ LET y == matchRow(Head(rc).lRow)
     IN IF y = -1 THEN rowCursor' = -1 /\ UNCHANGED <<sheet, counted>>
        ELSE /\ sheet' = [sheet EXCEPT ![y + dh].new = TRUE]
             /\ rowCursor' = After(y, height)
             /\ Count(y)
  /\ UNCHANGED <<pc, checkedHeader>>

EndReplay ==
  /\ pc = "replay" /\ rc = <<>>
  /\ pc' = "end"
  /\ UNCHANGED <<orderState, options, m, at, rc, updated, patcher>>

RowNext ==
  \/ OrderRows \/ AttachSheet \/ \E novel \in BOOLEAN : MergeRow(novel)
  \/ Replay \/ InsertRow \/ InsertRowNowhere \/ DeleteRow \/ ContextRow
  \/ MoveRow \/ UpdateRow \/ EndReplay

RowSpec == RowInit /\ [][RowNext]_rowVars
-----------------------------------------------------------------------------
(* The rows are rows of local or remote, and the cursor of SheetPatcher is *)
(* -1 or at most one past the last row.                                    *)
RowTypeOK ==
  /\ OrderTypeOK
  /\ pc \in {"process", "order", "start", "draw", "path", "accept", "collect",
             "done", "merge", "replay", "end", "crash"}
  /\ sheet \in Seq(Row)
  /\ rowCursor \in {-1} \cup 1 .. Len(sheet) + 1
  /\ at \in 0 .. Len(accum)

Everything == {"insert", "delete", "update"}

MergedRow(unit) ==
  IF unit.localUnit = -1 THEN InsertedRow(unit.remoteUnit)
  ELSE [LocalRowOf(unit.localUnit) EXCEPT !.new = unit.localUnit \in updated]

MergedRows ==
  LET kept == Kept(accum) IN [i \in DOMAIN kept |-> MergedRow(kept[i])]

Result == (IF header = "none" THEN <<>> ELSE <<HeaderRow>>) \o MergedRows

(* mergeRow takes the first row of local to be in place although another   *)
(* row of local now precedes it, or takes it for the row last changed      *)
(* although rows inserted before it were, and then a row is inserted.      *)
FirstRowMistaken ==
  \E i \in 2 .. Len(accum) :
    /\ accum[i].localUnit = 1 /\ \A j \in 1 .. i - 2 : accum[j].localUnit = -1
    /\ accum[i - 1].localUnit # -1
       \/ (i < Len(accum) /\ accum[i + 1].localUnit = -1)

(* Local lost the rows that pivot has: INSERT finds no row to go before.   *)
LocalEmptied == use_order /\ PivotRows > 0 /\ order_local = <<>>

(* Nothing is moved: remote has all rows of local, in their order, and no  *)
(* two new ones together, which make mergeRow move the row that follows.   *)
OnlyInserts ==
  /\ Same(order_local) /\ Same(SelectSeq(order_remote, LAMBDA p : p # -1))
  /\ \A r \in 2 .. Len(order_remote) :
        order_remote[r] = -1 => order_remote[r - 1] # -1

(* The changes replayed on local give, row by row, the merge that Merger   *)
(* had in mind, in its order, however rows were moved, inserted, dropped   *)
(* and updated on the two sides: unless local lost all its rows, or its    *)
(* first row is mistaken, or a row is moved below column names that        *)
(* PolySheet hides.                                                        *)
ReplayGivesMerge ==
  pc = "end" /\ use_order /\ acts = Everything /\ ~LocalEmptied
    /\ ~FirstRowMistaken /\ (header = "hidden" => OnlyInserts) => sheet = Result

(* README.md:68 says "Respects row order for table representations for     *)
(* which row order is meaningful": a diff of two tables that have the same *)
(* rows, applied to the first, gives the rows in the order of the second.  *)
RowOrderRespected ==
  pc = "end" /\ use_order /\ Same(order_local) /\ acts = Everything
    /\ ToSet(order_remote) = ToSet(order_local) => sheet = Result

(* With or without order, and whatever --act lets through, the sheet ends  *)
(* with each row once: those of local that were not dropped, with the new  *)
(* cells only where updates are allowed, and those of remote if they may   *)
(* be inserted.                                                            *)
RowsAsAllowed ==
  pc = "end" /\ ~LocalEmptied /\ header # "hidden" =>
    /\ IsInjective(sheet)
    /\ ToSet(sheet) \ {HeaderRow} =
         {LET row == MergedRow(unit)
          IN [row EXCEPT !.new = @ /\ "update" \in acts] :
            unit \in {u \in ToSet(accum) :
                       /\ u.deleted => "delete" \notin acts
                       /\ u.localUnit = -1 => "insert" \in acts}}

(* Diff.cpp and mergeToLocal write local back only if the patcher counted  *)
(* a change.  Insertions and moves are not counted, but the contexts that  *)
(* come before them are: if rows may be inserted, have an order, and pivot *)
(* has rows, no change of the sheet is left unwritten; without an order    *)
(* only insertions are.                                                    *)
ChangesAreSaved ==
  pc = "end" /\ ~counted /\ "insert" \in acts =>
    \/ sheet = Attached(header)
    \/ /\ ~use_order \/ PivotRows = 0
       /\ IsPrefix(Attached(header), sheet)

(* Every change finds the row it names, although rows before it were       *)
(* moved and changed.                                                      *)
ChangesFindRows ==
  pc = "replay" /\ rc # <<>> /\ Head(rc).lRow # -1 /\ header # "hidden" =>
    matchRow(Head(rc).lRow) # -1
=============================================================================
