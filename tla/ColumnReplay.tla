---------------------------- MODULE ColumnReplay ----------------------------
(***************************************************************************)
(* From the order of the merged columns to the sheet that has them: Merger *)
(* makes four passes over the match units of OrderMerge, here units of     *)
(* columns, and lists deletions, moves, insertions and renames;            *)
(* SheetPatcher replays them on local, where it finds a column by name.    *)
(*                                                                         *)
(* Names of columns are numbers: column l of local is named l.             *)
(***************************************************************************)
EXTENDS OrderMerge, SequencesExt, Mover

CONSTANTS
  Locals,      \* what local may have done to the columns of pivot
  MaxRenames   \* bound on the columns of remote with a name of their own

ASSUME RenamesOK == MaxRenames \in Nat

VARIABLES
  remote_names,   \* names of the columns of remote
  columns,        \* local_cols and local_col_names of Merger
  move_order,     \* what Mover answered
  cc,             \* the column changes
  replayed,       \* how many of them SheetPatcher has seen
  sheet           \* the columns of the sheet being patched, at first local

merger == <<columns, move_order, cc>>
orderState == <<inputs, cursors, accum, canon, canon_src, round>>
columnVars == <<vars, remote_names, merger, replayed, sheet>>

Column(id, name) == [id |-> id, name |-> name]
Change(mode, id, before, after) ==
  [mode |-> mode, subject |-> id, before |-> before, after |-> after]

Names == 1 .. 2 * MaxRows

(* The place of a column, and the first place of a name; 0 if there is     *)
(* none.                                                                   *)
IndexOf(cols, id) == SelectInSeq(cols, LAMBDA c : c.id = id)
IndexOfName(cols, name) == SelectInSeq(cols, LAMBDA c : c.name = name)

(* The name column r of remote has if nobody renamed it.                   *)
Inherited(r) ==
  LET l == a2b(order_local, order_remote[r]) IN IF l = -1 THEN MaxRows + r ELSE l

RemoteNames ==
  LET given == {R \in SUBSET DOMAIN order_remote : Cardinality(R) <= MaxRenames}
  IN {n \in UNION {{[r \in DOMAIN order_remote |->
                        IF r \in R THEN f[r] ELSE Inherited(r)] : f \in [R -> Names]}
                   : R \in given} : IsInjective(n)}

ColumnInit ==
  /\ order_local \in Locals /\ use_order = TRUE /\ Init
  /\ remote_names = <<>>
  /\ columns = [l \in DOMAIN order_local |-> Column(l, l)]
  /\ sheet = columns
  /\ move_order = <<>> /\ cc = <<>> /\ replayed = 0

OrderColumns == Next /\ UNCHANGED <<remote_names, merger, replayed, sheet>>

SniffNames ==
  /\ pc = "done"
  /\ remote_names' \in RemoteNames
  /\ pc' = "deletions"
  /\ UNCHANGED <<orderState, merger, replayed, sheet>>
-----------------------------------------------------------------------------
(***************************************************************************)
(* Merger::merge, from a list of units to a list of changes.  A pass is a  *)
(* fold over units; acc holds the columns and the changes.                 *)
(***************************************************************************)
Listed(acc, mode, id, after) ==
  [acc EXCEPT !.columns = after,
              !.cc = Append(acc.cc, Change(mode, id, acc.columns, after))]

Acc == [columns |-> columns, cc |-> cc, at |-> 0]
Pass(acc, next) ==
  /\ columns' = acc.columns /\ cc' = acc.cc /\ pc' = next
  /\ UNCHANGED <<orderState, remote_names, replayed, sheet>>

Stop(why) ==
  /\ pc' = why
  /\ UNCHANGED <<orderState, remote_names, merger, replayed, sheet>>

(* Pass 1 takes the number a column has in pivot for its number in local.  *)
Deletions ==
  {accum[k].pivotUnit :
     k \in {k \in DOMAIN accum : accum[k].deleted /\ accum[k].pivotUnit # -1}}

Deleted(acc, unit) ==
  IF ~unit.deleted \/ unit.pivotUnit = -1 THEN acc
  ELSE Listed(acc, "DELETE", unit.pivotUnit,
              RemoveAt(acc.columns, IndexOf(acc.columns, unit.pivotUnit)))

DeleteColumns ==
  /\ pc = "deletions"
  /\ IF \E p \in Deletions : IndexOf(columns, p) = 0 THEN Stop("exit")
     ELSE /\ Pass(FoldLeft(Deleted, Acc, accum), "moves")
          /\ UNCHANGED move_order

(* Pass 2 puts each column that Mover names at the place it has in the     *)
(* end, whatever is still to be moved.                                     *)
shuffled_cols ==
  LET kept == SelectSeq(accum, LAMBDA u : u.localUnit # -1 /\ ~u.deleted)
  IN [k \in DOMAIN kept |-> kept[k].localUnit]

MovedColumn(acc, id) ==
  LET from == IndexOf(acc.columns, id)
      after == InsertAt(RemoveAt(acc.columns, from),
                        Position(shuffled_cols, id), acc.columns[from])
  IN IF after = acc.columns THEN acc ELSE Listed(acc, "MOVE", id, after)

local_cols == [k \in DOMAIN columns |-> columns[k].id]

(* Given columns to arrange that are not the ones there are, Mover erases  *)
(* at the end of a vector, which is undefined.                             *)
MoveColumns ==
  /\ pc = "moves"
  /\ IF Len(columns) # Len(shuffled_cols) THEN Stop("exit")
     ELSE IF ToSet(local_cols) # ToSet(shuffled_cols) THEN Stop("undefined")
     ELSE /\ move_order' = move(local_cols, shuffled_cols)
          /\ Pass(FoldLeft(MovedColumn, Acc, move_order'), "insertions")
-----------------------------------------------------------------------------
(* Pass 3.  A name that is taken gets an underscore, or several.           *)
Unused(name, cols) ==
  LET suffixed == {name + k * 2 * MaxRows : k \in 0 .. Len(cols)}
      free == {n \in suffixed : IndexOfName(cols, n) = 0}
  IN CHOOSE n \in free : \A o \in free : n <= o

(* Mutant: the columns that local added are not counted.                   *)
CountedMatched(unit) == ~unit.deleted /\ unit.localUnit # -1 /\ unit.remoteUnit # -1

(* A unit that has a column at this stage.                                 *)
Counted(unit) == ~unit.deleted /\ unit.localUnit # -1

(* acc.at is the number of columns before the place of the unit.           *)
Inserted(acc, unit) ==
  LET r == unit.remoteUnit
      column == Column(-r, Unused(remote_names[r], acc.columns))
      insert == unit.pivotUnit = -1 /\ r # -1 /\ ~unit.deleted
      seen == IF Counted(unit) THEN 1 ELSE 0
  IN IF ~insert THEN [acc EXCEPT !.at = acc.at + seen]
     ELSE [Listed(acc, "INSERT", -r, InsertAt(acc.columns, acc.at + 1, column))
             EXCEPT !.at = acc.at + 1 + seen]

InsertColumns ==
  /\ pc = "insertions"
  /\ Pass(FoldLeft(Inserted, Acc, accum), "renames")
  /\ UNCHANGED move_order

(* Pass 4 looks for the old name, here too by the number in pivot, among   *)
(* the names as changed so far.                                            *)
Matched(unit) == ~unit.deleted /\ unit.pivotUnit # -1 /\ unit.remoteUnit # -1

Renamed(acc, unit) ==
  LET lName == unit.pivotUnit
      rName == remote_names[unit.remoteUnit]
      k == IndexOfName(acc.columns, lName)
  IN IF ~Matched(unit) THEN acc
     ELSE IF lName = rName \/ k = 0 THEN acc
     ELSE Listed(acc, "RENAME", acc.columns[k].id,
                 [acc.columns EXCEPT ![k].name = rName])

(* A number that no column of local has is out of the bounds of the names. *)
RenameColumns ==
  /\ pc = "renames"
  /\ IF \E k \in DOMAIN accum :
          Matched(accum[k]) /\ accum[k].pivotUnit \notin DOMAIN order_local
     THEN Stop("undefined")
     ELSE /\ Pass(FoldLeft(Renamed, Acc, accum), "change")
          /\ UNCHANGED move_order
-----------------------------------------------------------------------------
(***************************************************************************)
(* SheetPatcher::changeColumn, one action per mode.  matchCol ends the     *)
(* program if no column has the name.                                      *)
(***************************************************************************)
change == cc[replayed + 1]
Changing(mode) == pc = "change" /\ replayed < Len(cc) /\ change.mode = mode

matchCol(name) == IndexOfName(sheet, name)
NameBefore == change.before[IndexOf(change.before, change.subject)].name
toSheet == IndexOf(change.after, change.subject)
NameAfter == change.after[toSheet].name

(* Mutant: the place of the column itself.                                 *)
BeforeColSelf ==
  IF toSheet = Len(change.after) THEN Len(sheet) + 1 ELSE matchCol(NameAfter)

(* The place that comes after the column in the sheet: that of the column  *)
(* it is put before, or the end.                                           *)
BeforeCol ==
  IF toSheet = Len(change.after) THEN Len(sheet) + 1
  ELSE matchCol(change.after[toSheet + 1].name)

(* TypedSheet::moveColumn: from, before to.                                *)
MovedBefore(cols, from, to) ==
  InsertAt(RemoveAt(cols, from), IF to <= from THEN to ELSE to - 1, cols[from])

Patched(found, cols) ==
  IF 0 \in found THEN Stop("exit")
  ELSE /\ sheet' = cols /\ replayed' = replayed + 1
       /\ UNCHANGED <<orderState, pc, remote_names, merger>>

DeleteColumn ==
  /\ Changing("DELETE")
  /\ LET idx == matchCol(NameBefore) IN Patched({idx}, RemoveAt(sheet, idx))

InsertColumn ==
  /\ Changing("INSERT")
  /\ Patched({BeforeCol},
             InsertAt(sheet, BeforeCol, Column(change.subject, NameAfter)))

MoveColumn ==
  /\ Changing("MOVE")
  /\ LET idx == matchCol(NameAfter)
     IN Patched({idx, BeforeCol}, MovedBefore(sheet, idx, BeforeCol))

RenameColumn ==
  /\ Changing("RENAME")
  /\ LET idx == matchCol(NameBefore)
     IN Patched({idx}, [sheet EXCEPT ![idx].name = NameAfter])

(* declareNames, the last time: each name is brought to its place.         *)
DeclaredName(cols, i) ==
  LET name == columns[i].name
  IN IF cols[i].name = name THEN cols
     ELSE MovedBefore(cols, IndexOfName(cols, name), IndexOfName(cols, cols[i].name))

DeclareNames ==
  /\ pc = "change" /\ replayed = Len(cc)
  /\ IF Len(columns) = Len(sheet)
     THEN IF \E c \in ToSet(columns) : matchCol(c.name) = 0
          THEN pc' = "exit" /\ UNCHANGED sheet
          ELSE pc' = "end" /\ sheet' = FoldLeftDomain(DeclaredName, sheet, columns)
     ELSE pc' = "end" /\ UNCHANGED sheet
  /\ UNCHANGED <<orderState, remote_names, merger, replayed>>

ColumnNext == \/ OrderColumns \/ SniffNames
              \/ DeleteColumns \/ MoveColumns \/ InsertColumns \/ RenameColumns
              \/ DeleteColumn \/ InsertColumn \/ MoveColumn \/ RenameColumn
              \/ DeclareNames

ColumnSpec == ColumnInit /\ [][ColumnNext]_columnVars
-----------------------------------------------------------------------------
(* The merged columns: those of local that remote did not drop, and those  *)
(* that remote added, with the names that remote gave them.                *)
MergedColumn(unit) ==
  Column(IF unit.localUnit = -1 THEN -unit.remoteUnit ELSE unit.localUnit,
         IF unit.remoteUnit = -1 THEN unit.localUnit ELSE remote_names[unit.remoteUnit])

Merged ==
  LET kept == Kept(accum) IN [k \in DOMAIN kept |-> MergedColumn(kept[k])]

(* The columns that local took over from pivot are where they were.        *)
PivotInPlace == \A l \in DOMAIN order_local : order_local[l] \in {l, -1}

(* No column of remote has the name of another column that is kept.        *)
NamesClear ==
  \A k, j \in DOMAIN accum :
    /\ k # j /\ ~accum[k].deleted /\ ~accum[j].deleted
    /\ accum[k].remoteUnit # -1 /\ accum[j].localUnit # -1
    => remote_names[accum[k].remoteUnit] # accum[j].localUnit

(* The moves that Mover answers bring the columns into the order asked     *)
(* for, and no fewer moves would: the columns that stay are a longest run  *)
(* of columns already in that order.                                       *)
MovesFewest ==
  pc = "insertions" =>
    LET start == SelectSeq([l \in DOMAIN order_local |-> l],
                           LAMBDA l : Contains(shuffled_cols, l))
        arranged == FoldLeft(LAMBDA cols, x :
                      Placed(cols, shuffled_cols, Position(shuffled_cols, x)),
                      start, move_order)
        inOrder(S) == \A x, y \in S :
          x < y => Position(shuffled_cols, x) < Position(shuffled_cols, y)
    IN /\ arranged = shuffled_cols
       /\ \A S \in SUBSET ToSet(start) :
            inOrder(S) => Len(move_order) + Cardinality(S) <= Len(start)

(* SheetPatcher, which knows columns by name, follows Merger: after every  *)
(* change the sheet has the columns that Merger had when it listed it.     *)
ReplayFollowsMerger ==
  pc \in {"change", "end"} /\ replayed > 0 /\ NamesClear =>
    sheet = cc[replayed].after

(* Nothing fails, and the sheet gets the merged columns with their names;  *)
(* if at most one of them has moved, in their order.                       *)
ColumnsMerged ==
  PivotInPlace /\ pc \in {"end", "exit", "undefined"} /\ NamesClear =>
    /\ pc = "end"
    /\ ToSet(sheet) = ToSet(Merged) /\ Len(sheet) = Len(Merged)
    /\ Len(move_order) <= 1 => sheet = Merged

(* A diff of two tables, applied to the first, gives it the columns of the *)
(* second: the round trip that the permutation tests are about.            *)
RoundTrip ==
  pc = "end" /\ Same(order_local) =>
    /\ DOMAIN sheet = DOMAIN order_remote
    /\ \A r \in DOMAIN sheet :
         sheet[r] = Column(IF order_remote[r] = -1 THEN -r ELSE order_remote[r],
                           remote_names[r])
=============================================================================
