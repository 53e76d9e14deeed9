--------------------------- MODULE ConflictMerge ---------------------------
(***************************************************************************)
(* Cells in conflict, from the merge that finds them to the tool that      *)
(* settles them.  Three command lines lead from a common ancestor (pivot)  *)
(* and two descendants (local, remote) to one table:                       *)
(*                                                                         *)
(*   ssmerge --X pivot local remote          Merger decides each conflict  *)
(*   ssmerge pivot local remote              SheetPatcher writes "((( p    *)
(*     then ssresolve --X                    ))) l /// r" into the cell,   *)
(*                                           BookCompare::resolve reads it *)
(*   ssdiff --parent pivot local remote      the patch carries l, r and p, *)
(*     then sspatch --X local                MergeOutputFilter chooses     *)
(*                                                                         *)
(* Rows and columns are matched already and present on the three sides:    *)
(* only what happens to their cells is at stake here.  A sheet is a record *)
(* of its cells, row by row, and of the place of its "_MERGE_" column,     *)
(* which is 0 as long as it has none.                                      *)
(***************************************************************************)
EXTENDS Integers, Sequences

CONSTANTS
  Width,      \* the data columns of each sheet, in the order of sheet names
  Height,     \* the number of rows of each sheet
  Text,       \* the texts a cell may hold
  Null,       \* the escaped cell, SQL's NULL
  Nulls,      \* {Null} if the tables may hold it, otherwise {}
  Ancestor,   \* the cells that pivot may hold
  NullText,   \* "{NULL}", what SheetCell::toString makes of it
  Mark,       \* "CONFLICT"
  Leftover,   \* sheets whose local side may still have a _MERGE_ column
  Tools,      \* the command lines under study: "ssmerge", "sspatch"
  Choices     \* the options --ours, --theirs, --neither, "none" when empty

Sheets == DOMAIN Width
Rows == 1 .. Height

ASSUME ConstantsOK ==
  /\ Width \in Seq(Nat) /\ Width # <<>>
  /\ Height \in Nat /\ Leftover \subseteq Sheets
  /\ Ancestor \subseteq Text \cup Nulls
  /\ Nulls \subseteq {Null} /\ Null \notin Text /\ NullText \notin Text /\ Mark \notin Text
  /\ Null # NullText /\ Null # Mark /\ NullText # Mark
  /\ Tools \subseteq {"ssmerge", "sspatch"}
  /\ Choices \subseteq {"none", "ours", "theirs", "neither"}

VARIABLES
  pivot, local, remote,   \* the three books compared
  book,       \* the book being written, at first a copy of local
  tool, resolve,          \* the command line: its name, flags.resolve
  pc,
  at,         \* the sheet being worked on
  rc,         \* row changes of that sheet not applied yet
  readyForConflicts, conflictColumn,   \* of SheetPatcher
  conflicted  \* Patcher::setConflicted was called

inputs == <<pivot, local, remote, tool>>
marking == <<readyForConflicts, conflictColumn>>
vars == <<inputs, book, resolve, pc, at, rc, marking, conflicted>>

Cols(s) == 1 .. Width[s]
Data == Text \cup Nulls
ConflictText == [pivot : Text \cup {NullText}, local : Text \cup {NullText},
                 remote : Text \cup {NullText}]
Cell == Text \cup {Null, NullText, Mark} \cup ConflictText

(* The text of a cell never parses as a conflict.                          *)
ASSUME TextsApart ==
  \A text \in Text \cup {Null, NullText, Mark} : text \notin ConflictText

(***************************************************************************)
(* The cells of two assertions, as Merger::mergeRow compares them.         *)
(***************************************************************************)
InConflict(p, l, r) == l # r /\ p # l /\ p # r

Pick(choice, p, l, r) ==
  IF choice = "ours" THEN l ELSE IF choice = "theirs" THEN r ELSE p

(* Mutant: a cell changed on one side keeps the local value.               *)
MergedCellLocal(p, l, r, choice) ==
  IF p = l \/ choice = "none" THEN l ELSE Pick(choice, p, l, r)

(* The cell mergeRow settles on and whether it is worth a change: a novel  *)
(* cell is written to the change's values.                                 *)
Novel(p, l, r, choice) ==
  l # r /\ p # r /\ (p # l => choice # "ours")

MergedCell(p, l, r, choice) ==
  IF ~InConflict(p, l, r) THEN (IF p = l THEN r ELSE l)
  ELSE IF choice = "none" THEN l ELSE Pick(choice, p, l, r)

(***************************************************************************)
(* RowChange: the cells to write, and for those in conflict the value of   *)
(* the other side and of the ancestor.  Merger keeps a row if it has any.  *)
(***************************************************************************)
(* Mutant: the remote cell is taken whenever the two sides differ.         *)
RowChangeRemote(s, r, choice) ==
  LET novel == {c \in Cols(s) : local[s][r][c] # remote[s][r][c]}
  IN [row |-> r, val |-> [c \in novel |-> remote[s][r][c]],
      conflictingVal |-> <<>>, conflictingParentVal |-> <<>>,
      conflicted |-> FALSE]

RowChange(s, r, choice) ==
  LET P == pivot[s][r]  L == local[s][r]  R == remote[s][r]
      novel == {c \in Cols(s) : Novel(P[c], L[c], R[c], choice)}
      clash == {c \in novel : choice = "none" /\ InConflict(P[c], L[c], R[c])}
  IN [row |-> r,
      val |-> [c \in novel |-> MergedCell(P[c], L[c], R[c], choice)],
      conflictingVal |-> [c \in clash |-> R[c]],
      conflictingParentVal |-> [c \in clash |-> P[c]],
      conflicted |-> clash # {}]

mergeRow(s, choice) ==
  {change \in {RowChange(s, r, choice) : r \in Rows} : DOMAIN change.val # {}}

(* Changes are emitted in the order of their rows.                         *)
Upcoming == {change \in rc : \A other \in rc : change.row <= other.row}

(* MergeOutputFilter::emitRow: a choice made for a patch turns the         *)
(* conflicted change into a plain one.                                     *)
Chosen(change, choice) ==
  LET chosen == IF choice = "theirs" THEN change.conflictingVal
                ELSE change.conflictingParentVal
  IN [change EXCEPT !.val = [c \in DOMAIN @ |-> IF c \in DOMAIN chosen
                                                THEN chosen[c] ELSE @[c]],
                    !.conflictingVal = <<>>, !.conflictingParentVal = <<>>,
                    !.conflicted = FALSE]

emitRow(change) ==
  IF tool = "sspatch" /\ resolve # "none" /\ change.conflicted
  THEN Chosen(change, resolve) ELSE change

(* "ours" leaves the whole change out.                                     *)
Withheld(change) == tool = "sspatch" /\ resolve = "ours" /\ change.conflicted

(***************************************************************************)
(* SheetPatcher.                                                           *)
(***************************************************************************)
toString(cell) == IF cell = Null THEN NullText ELSE cell

(* Mutant: no column is added to the sheet.                                *)
ConflictSheetAsIs == book[at]

(* handleConflicts: the column for the mark, and the sheet that has it.    *)
(* The column is sought once for the whole book.                           *)
ConflictColumn ==
  IF readyForConflicts THEN conflictColumn
  ELSE IF book[at].merge # 0 THEN book[at].merge ELSE Width[at] + 1

ConflictSheet ==
  IF readyForConflicts \/ book[at].merge # 0 THEN book[at]
  ELSE [cells |-> [r \in Rows |-> Append(book[at].cells[r], Null)],
        merge |-> Width[at] + 1]

(* markChanges on one row.  Column by column, a conflicted change writes   *)
(* the mark, then the three values if the two sides differ; a column it    *)
(* names on which they agree is left as it is.                             *)
ConflictedRow(row, change, mark) ==
  [k \in DOMAIN row |->
     LET clash == k \in DOMAIN change.conflictingVal
     IN IF k = mark /\ (clash => \E c \in DOMAIN change.val : c > k) THEN Mark
        ELSE IF clash THEN [pivot |-> toString(change.conflictingParentVal[k]),
                            local |-> toString(change.val[k]),
                            remote |-> toString(change.conflictingVal[k])]
        ELSE row[k]]

PlainRow(row, change) ==
  [k \in DOMAIN row |-> IF k \in DOMAIN change.val THEN change.val[k] ELSE row[k]]

(* Mutant: the sides are read in the wrong order.                          *)
ResolvedCellSwapped(cell, choice) ==
  IF cell \in ConflictText THEN Pick(choice, cell.pivot, cell.remote, cell.local)
  ELSE cell

(***************************************************************************)
(* BookCompare::resolve on one sheet: the rows marked CONFLICT get, in     *)
(* every cell that parses, the text of the side chosen; the column goes.   *)
(***************************************************************************)
ResolvedCell(cell, choice) ==
  IF cell \in ConflictText THEN Pick(choice, cell.pivot, cell.local, cell.remote)
  ELSE cell

(* Mutants: the column's cells stay; the column stays.                     *)
WithoutColumnNamed(row, k) == row

WithoutColumn(row, k) ==
  [c \in 1 .. Len(row) - 1 |-> IF c < k THEN row[c] ELSE row[c + 1]]

ResolvedSheetMarked(sheet, choice) ==
  [sheet EXCEPT !.cells = [r \in Rows |->
     [c \in DOMAIN @[r] |-> ResolvedCell(@[r][c], choice)]]]

ResolvedSheet(sheet, choice) ==
  IF sheet.merge = 0 THEN sheet
  ELSE [cells |-> [r \in Rows |->
          LET row == sheet.cells[r]
              kept == WithoutColumn(row, sheet.merge)
          IN IF row[sheet.merge] = Mark
             THEN [c \in DOMAIN kept |-> ResolvedCell(kept[c], choice)]
             ELSE kept],
        merge |-> 0]
-----------------------------------------------------------------------------
Books(data) ==
  {b \in [Sheets -> [Rows -> UNION {[Cols(s) -> data] : s \in Sheets}]] :
     \A s \in Sheets, r \in Rows : b[s][r] \in [Cols(s) -> data]}

Init ==
  /\ pivot \in Books(Ancestor) /\ local \in Books(Data) /\ remote \in Books(Data)
  /\ tool \in Tools /\ resolve \in Choices
  /\ \E leftover \in SUBSET Leftover :
       book = [s \in Sheets |->
                 IF s \in leftover
                 THEN [cells |-> [r \in Rows |-> Append(local[s][r], Null)],
                       merge |-> Width[s] + 1]
                 ELSE [cells |-> local[s], merge |-> 0]]
  /\ pc = "sheet" /\ at = 1 /\ rc = {}
  /\ readyForConflicts = FALSE /\ conflictColumn = 0 /\ conflicted = FALSE

(* Merger::merge on the sheet at hand, for ssmerge or ssdiff.              *)
MergeSheet ==
  /\ pc = "sheet"
  /\ rc' = mergeRow(at, IF tool = "ssmerge" THEN resolve ELSE "none")
  /\ conflicted' = (conflicted \/ \E change \in rc' : change.conflicted)
  /\ pc' = "rows"
  /\ UNCHANGED <<inputs, book, resolve, at, marking>>

(* A change that the filter withholds, or that SheetPatcher, which only    *)
(* ssmerge creates for merging, cannot mark.                               *)
SkipRow ==
  /\ pc = "rows"
  /\ \E change \in Upcoming :
       /\ Withheld(change) \/ (tool = "sspatch" /\ emitRow(change).conflicted)
       /\ rc' = rc \ {change}
  /\ UNCHANGED <<inputs, book, resolve, pc, at, marking, conflicted>>

PatchRow ==
  /\ pc = "rows"
  /\ \E change \in Upcoming :
       /\ ~Withheld(change) /\ ~emitRow(change).conflicted
       /\ book' = [book EXCEPT ![at].cells[change.row] =
                     PlainRow(@, emitRow(change))]
       /\ rc' = rc \ {change}
  /\ UNCHANGED <<inputs, resolve, pc, at, marking, conflicted>>

(* A mark beyond the last column of the sheet is an undefined write: it    *)
(* reaches no cell, or ends the program.                                   *)
PatchConflictedRow ==
  /\ pc = "rows" /\ tool = "ssmerge"
  /\ \E change \in Upcoming :
       /\ change.conflicted
       /\ book' = [book EXCEPT ![at] =
                    [ConflictSheet EXCEPT !.cells[change.row] =
                       ConflictedRow(@, change, ConflictColumn)]]
       /\ pc' \in {"rows"} \cup
            (IF ConflictColumn \in DOMAIN ConflictSheet.cells[change.row]
             THEN {} ELSE {"crash"})
       /\ rc' = rc \ {change}
  /\ readyForConflicts' = TRUE /\ conflictColumn' = ConflictColumn
  /\ UNCHANGED <<inputs, resolve, at, conflicted>>

(* mergeDone, and after the last sheet the exit status of Diff::apply.     *)
EndSheet ==
  /\ pc = "rows" /\ rc = {}
  /\ at' = at + 1
  /\ pc' = IF at < Len(Width) THEN "sheet"
           ELSE IF tool = "ssmerge" /\ conflicted THEN "conflicted" ELSE "done"
  /\ UNCHANGED <<inputs, book, resolve, rc, marking, conflicted>>

(* The user turns to ssresolve with a choice.                              *)
RunResolve(choice) ==
  /\ pc \in {"conflicted", "done"} /\ tool = "ssmerge" /\ resolve = "none"
  /\ resolve' = choice
  /\ pc' = "resolve" /\ at' = 1
  /\ UNCHANGED <<inputs, book, rc, marking, conflicted>>

ResolveSheet ==
  /\ pc = "resolve"
  /\ book' = [book EXCEPT ![at] = ResolvedSheet(@, resolve)]
  /\ at' = at + 1
  /\ pc' = IF at < Len(Width) THEN "resolve" ELSE "resolved"
  /\ UNCHANGED <<inputs, resolve, rc, marking, conflicted>>

Next ==
  \/ MergeSheet \/ SkipRow \/ PatchRow \/ PatchConflictedRow \/ EndSheet
  \/ \E choice \in {"ours", "theirs", "neither"} : RunResolve(choice)
  \/ ResolveSheet

Spec == Init /\ [][Next]_vars
-----------------------------------------------------------------------------
(* The rows of a sheet stay as wide as its data columns and its _MERGE_    *)
(* column, if it has one, ask for (SheetPatcher::handleConflicts adds it,  *)
(* BookCompare::resolve removes it).                                       *)
TypeOK ==
  /\ pc \in {"sheet", "rows", "conflicted", "done", "resolve", "resolved",
            "crash"}
  /\ at \in 1 .. Len(Width) + 1
  /\ \A s \in Sheets, r \in Rows :
       /\ book[s].merge \in {0, Width[s] + 1}
       /\ Len(book[s].cells[r]) = Width[s] + (IF book[s].merge = 0 THEN 0 ELSE 1)
       /\ \A c \in DOMAIN book[s].cells[r] : book[s].cells[r][c] \in Cell

Clashes(s, r) ==
  {c \in Cols(s) : InConflict(pivot[s][r][c], local[s][r][c], remote[s][r][c])}

Ended == pc \in {"conflicted", "done", "resolved"}

(* Whichever tool makes the choice (Merger, MergeOutputFilter::emitRow or  *)
(* BookCompare::resolve), in the end a cell in conflict holds the value of *)
(* the side chosen; through the text of a conflict NULL comes back as      *)
(* "{NULL}".                                                               *)
ConflictsSettled ==
  pc \in {"done", "resolved"} /\ resolve # "none" =>
    \A s \in Sheets, r \in Rows : \A c \in Clashes(s, r) :
      LET chosen == Pick(resolve, pivot[s][r][c], local[s][r][c], remote[s][r][c])
      IN book[s].cells[r][c] = IF pc = "resolved" THEN toString(chosen) ELSE chosen

(* A row without conflicts ends with, in every cell, the value of the side *)
(* that changed it, on every path, whatever happens to the other rows.     *)
UnconflictedRowsMerged ==
  Ended => \A s \in Sheets, r \in Rows : Clashes(s, r) = {} =>
    \A c \in Cols(s) : book[s].cells[r][c] =
      IF local[s][r][c] # pivot[s][r][c] THEN local[s][r][c] ELSE remote[s][r][c]

(* No step of any path loses a cell that only the local side changed.      *)
LocalEditsKept ==
  \A s \in Sheets, r \in Rows : \A c \in Cols(s) :
    pivot[s][r][c] = remote[s][r][c] => book[s].cells[r][c] = local[s][r][c]

(* What ssresolve without a choice reports (Diff::apply): some sheet has a *)
(* _MERGE_ column.                                                         *)
Unresolved == \E s \in Sheets : book[s].merge # 0

(* ssmerge without a choice fails exactly when two sides changed a cell    *)
(* differently, and then ssresolve finds the file unresolved.              *)
StatusTellsConflict ==
  pc \in {"conflicted", "done"} /\ tool = "ssmerge" /\ resolve = "none" =>
    LET clash == \E s \in Sheets, r \in Rows : Clashes(s, r) # {}
    IN /\ (pc = "conflicted") = clash
       /\ clash => Unresolved
       /\ Unresolved => clash \/ Leftover # {}

(* After ssresolve no cell holds a conflict and no column its mark.        *)
NothingLeftToResolve ==
  pc = "resolved" =>
    /\ ~Unresolved
    /\ \A s \in Sheets, r \in Rows : \A c \in Cols(s) :
         book[s].cells[r][c] \notin ConflictText

(* doc/tutorial_coopy_conflict.dox:29 says of a merge with a conflict:     *)
(* "Compatible changes would get merged".  A cell that only the remote     *)
(* side changed holds the remote value once ssmerge has ended.             *)
CompatibleMerged ==
  Ended => \A s \in Sheets, r \in Rows : \A c \in Cols(s) :
    pivot[s][r][c] = local[s][r][c] => book[s].cells[r][c] = remote[s][r][c]

(* doc/tutorial_git.dox:377 says of a merge with a conflict: "There's a    *)
(* new column marking where conflicts occurred."                           *)
ConflictsMarked ==
  pc = "conflicted" => \A s \in Sheets, r \in Rows : Clashes(s, r) # {} =>
    book[s].merge # 0 /\ book[s].cells[r][book[s].merge] = Mark

=============================================================================
