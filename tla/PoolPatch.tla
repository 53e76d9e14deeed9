----------------------------- MODULE PoolPatch -----------------------------
(***************************************************************************)
(* Applying a patch to a database whose tables refer to each other by id.  *)
(*                                                                         *)
(* MergeOutputFilter buffers the row changes of a patch, announces in the  *)
(* pool every id the patch is about to create, and only then releases the  *)
(* rows to SheetPatcher.  SheetPatcher lets the target table invent a new  *)
(* id for an inserted row, records in the pool which id of the source it   *)
(* stands for, translates the references of inserted rows through the      *)
(* pool, and puts aside the rows whose references it cannot translate yet. *)
(* SheetPatcher::mergeDone retries those rows until none is left or a      *)
(* whole pass makes no progress.  The pool is saved when the program ends  *)
(* and loaded by the next one, so that later patches may refer to the same *)
(* source ids.                                                             *)
(*                                                                         *)
(* The pool of a table has the table's name (SheetPatcher::updatePool), so *)
(* a pool is identified with its table here.                               *)
(***************************************************************************)
EXTENDS Integers, Sequences, FiniteSets

CONSTANTS
  Tables,         \* the tables named by patches
  Present,        \* those that the target book has
  Inventors,      \* tables with an auto-incremented id, which SheetPatcher
                  \* never copies but lets the table invent
  RefersTo,       \* RefersTo[t]: the tables that foreign keys of t refer to
  OrderedTables,  \* the --table options, in order; <<>> when there is none
  SharedTop,      \* ids 1 .. SharedTop are of rows source and target share
  BaseTop,        \* the target's tables start with ids 1 .. BaseTop
  MaxId,          \* bound: the source's ids are 1 .. MaxId
  MaxRows,        \* bound: row changes per patch
  MaxPatches,     \* bound: patches applied one after the other
  NoSheet,        \* no sheet attached, no sheet name
  Absent,         \* no record in the pool
  Blank           \* the empty SheetCell of a pool placeholder

ASSUME ConstantsOK ==
  /\ Present \subseteq Tables
  /\ Inventors \subseteq Tables
  /\ RefersTo \in [Tables -> SUBSET Tables]
  /\ OrderedTables \in Seq(Tables)
  /\ SharedTop \in Nat /\ BaseTop \in Nat /\ SharedTop <= BaseTop
  /\ MaxId \in Nat /\ MaxRows \in Nat /\ MaxPatches \in Nat
  /\ NoSheet \notin Tables
  /\ Blank \notin Nat
  /\ Absent \notin Nat \cup {Blank}
  /\ Absent \notin [cell : Nat \cup {Blank}, linked : BOOLEAN]

Ids == 1 .. MaxId

(* A row change of a patch.  For an INSERT, key is the source's id of the  *)
(* new row (meaningful when the table is an inventor); for an UPDATE it is *)
(* the id in the row's condition.  refs are its foreign key cells.         *)
RowChange ==
  UNION {[mode : {"INSERT", "UPDATE"}, table : {t}, key : Ids,
          refs : [RefersTo[t] -> Ids]] : t \in Tables}

(* A record of PoolSlice::item.  Only linked records have a usable cell.   *)
PoolRecord == [cell : Nat \cup {Blank}, linked : BOOLEAN]

VARIABLES
  rows,       \* rows of every patch so far, each with the patch it is of
  first,      \* the index in rows of the current patch's first row
  patch,      \* how many patches have been started
  units,      \* keys of MergeOutputFilter::sheet_units
  pc,         \* where the program is
  pass, at,   \* the loop counters of MergeOutputFilter::mergeAllDone
  lastSheet,  \* MergeOutputFilter::last_sheet_name
  sheet,      \* the sheet attached to SheetPatcher, NoSheet if invalid
  sheetName,  \* SheetPatcher::sheetName
  deferred,   \* SheetPatcher::deferred_rows
  cp,         \* what is left of the copy that mergeDone iterates over
  len,        \* locals of SheetPatcher::mergeDone
  prevLen,
  pool,       \* PoolImpl::pool
  stored,     \* the pool file
  top,        \* the highest id in each table of the target
  written     \* rows written to the target: which row change, where, as what

vars == <<rows, first, patch, units, pc, pass, at, lastSheet, sheet, sheetName,
          deferred, cp, len, prevLen, pool, stored, top, written>>

patchVars  == <<rows, first, patch, units>>
emitVars   == <<pass, at, lastSheet>>
deferVars  == <<cp, len, prevLen>>
sheetVars  == <<sheet, sheetName>>
targetVars == <<deferred, pool, top, written>>

(* What the row change at index i is: a member of RowChange.               *)
Change(i) == rows[i].change

Current == first .. Len(rows)

(* MergeOutputFilter::mergeStart fills desired_sheets.                     *)
Desired == {OrderedTables[k] : k \in DOMAIN OrderedTables}

IsActiveTable(t) == Desired = {} \/ t \in Desired

(* The loops of mergeAllDone: one over all rows if fewer than two tables   *)
(* are asked for, or one for each name given on the command line, over the *)
(* rows of that table.                                                     *)
Passes ==
  IF \A t, u \in Desired : t = u
  THEN <<Tables>>
  ELSE [k \in DOMAIN OrderedTables |-> {OrderedTables[k]}]

EmptyPool == [t \in Tables |-> [o \in Ids |-> Absent]]

(* PoolImpl::save writes every record, linked or not; PoolImpl::load takes *)
(* every stored record for a linked one.                                   *)
Save(p) == [t \in Tables |-> [o \in Ids |->
              IF p[t][o] = Absent THEN Absent ELSE p[t][o].cell]]

Load(s) == [t \in Tables |-> [o \in Ids |->
              IF s[t][o] = Absent THEN Absent
              ELSE [cell |-> s[t][o], linked |-> TRUE]]]

Init ==
  /\ rows = <<>> /\ first = 1 /\ patch = 1 /\ units = {}
  /\ pc = "buffer"
  /\ pass = 1 /\ at = 1 /\ lastSheet = NoSheet
  /\ sheet = NoSheet /\ sheetName = NoSheet
  /\ deferred = <<>> /\ cp = <<>> /\ len = -1 /\ prevLen = -2
  /\ pool = EmptyPool /\ stored = EmptyPool
  /\ top = [t \in Tables |-> BaseTop]
  /\ written = {}

-----------------------------------------------------------------------------
(* MergeOutputFilter receives the patch.                                   *)

(* setSheet: a sheet of the patch, with or without row changes to come.    *)
FilterSetSheet(t) ==
  /\ pc = "buffer"
  /\ t \notin units
  /\ units' = units \cup {t}
  /\ UNCHANGED <<rows, first, patch, pc, emitVars, deferVars, sheetVars,
                 targetVars, stored>>

(* changeRow: rows of tables that were not asked for are dropped.  The ids *)
(* of the rows inserted in one table of the source are distinct, since the *)
(* inventor column is its auto-incremented key, and none is the id of a    *)
(* shared row; an update is conditioned on the id of a shared row.         *)
FilterChangeRow(c) ==
  /\ pc = "buffer"
  /\ Cardinality(Current) < MaxRows
  /\ c.table \in units
  /\ IsActiveTable(c.table)
  /\ (c.mode = "UPDATE") = (c.key <= SharedTop)
  /\ c.mode = "INSERT" =>
       \A i \in Current : ~ (/\ Change(i).mode = "INSERT"
                             /\ Change(i).table = c.table
                             /\ Change(i).key = c.key)
  /\ rows' = Append(rows, [patch |-> patch, change |-> c])
  /\ UNCHANGED <<first, patch, units, pc, emitVars, deferVars, sheetVars,
                 targetVars, stored>>

(* Row i inserts the row that the source knows as id o of table t.         *)
Coins(i, t, o) ==
  /\ t \in Inventors
  /\ Change(i).mode = "INSERT" /\ Change(i).table = t /\ Change(i).key = o

(* mergeAllDone, the prescan: a placeholder for each id the patch creates. *)
(* Links exist only for the columns of sheets that the target has.         *)
Prescan ==
  /\ pc = "buffer"
  /\ pool' = [t \in Tables |-> [o \in Ids |->
                IF t \in Present /\ \E i \in Current : Coins(i, t, o)
                THEN [cell |-> Blank, linked |-> FALSE]
                ELSE pool[t][o]]]
  /\ units' = units \ {Change(i).table : i \in Current}
  /\ pc' = "emit"
  /\ UNCHANGED <<rows, first, patch, emitVars, deferVars, sheetVars,
                 deferred, top, written, stored>>

-----------------------------------------------------------------------------
(* SheetPatcher.                                                           *)

(* Mutant: the name of the sheet attached is not kept.                     *)
NameAfterStale(t, n) == n

(* setSheet(t) called with the current name n: the sheet it attaches and   *)
(* the name it keeps.  A failed call detaches the old sheet all the same.  *)
SheetAfter(t) == IF t \in Present THEN t ELSE NoSheet
NameAfter(t, n) == IF t \in Present THEN t ELSE n

(* Mutant: PoolRecord::linked is not looked at.                            *)
TranslatableAnyRecord(t, o) == TRUE

(* The lookup of a reference of an inserted row.  Once the pool has been   *)
(* prescanned, an id without a record stands for itself.                   *)
Translatable(t, o) == pool[t][o] = Absent \/ pool[t][o].linked
Translation(t, o) == IF pool[t][o] = Absent THEN o ELSE pool[t][o].cell

(* Mutant: the invented id is not put in the pool.                         *)
PutNothing(t, o, d) == pool

(* PoolSlice::put                                                          *)
Put(t, o, d) == [pool EXCEPT ![t][o] = [cell |-> d, linked |-> TRUE]]

(* changeRow for row i, INSERT, with sheet s attached under the name n.    *)
(* Deferring the row undoes the insertion.                                 *)
InsertRow(i, s, n) ==
  LET c == Change(i) IN
  IF \A t \in RefersTo[s] : Translatable(t, c.refs[t])
  THEN LET id == top[s] + 1 IN
       /\ written' = written \cup
            {[row |-> i, table |-> s, id |-> id,
              refs |-> [t \in RefersTo[s] |-> Translation(t, c.refs[t])]]}
       /\ top' = [top EXCEPT ![s] = id]
       /\ pool' = IF s \in Inventors THEN Put(s, c.key, id) ELSE pool
       /\ UNCHANGED deferred
  ELSE /\ deferred' = Append(deferred, [sheet |-> n, row |-> i])
       /\ UNCHANGED <<written, top, pool>>

(* Mutant: an updated row is added to the table under a new id.            *)
UpdateRowAdded(i, s) ==
  /\ written' = written \cup {[row |-> i, table |-> s, id |-> top[s] + 1,
                               refs |-> Change(i).refs]}
  /\ UNCHANGED <<deferred, top, pool>>

(* changeRow for row i, UPDATE: markChanges writes the cells as they are.  *)
UpdateRow(i, s) ==
  /\ written' = written \cup {[row |-> i, table |-> s, id |-> Change(i).key,
                               refs |-> Change(i).refs]}
  /\ UNCHANGED <<deferred, top, pool>>

(* changeRow; without a sheet it complains and drops the row.              *)
ChangeRow(i, s, n) ==
  \/ s = NoSheet /\ UNCHANGED targetVars
  \/ s # NoSheet /\ Change(i).mode = "INSERT" /\ InsertRow(i, s, n)
  \/ s # NoSheet /\ Change(i).mode = "UPDATE" /\ UpdateRow(i, s)

-----------------------------------------------------------------------------
(* MergeOutputFilter::mergeAllDone, releasing the rows.                    *)

Emitting == pc = "emit" /\ pass <= Len(Passes)

(* emitRow, after emitPreamble if the row is of another sheet than the     *)
(* previous one.                                                           *)
EmitRow ==
  /\ Emitting /\ at <= Len(rows)
  /\ Change(at).table \in Passes[pass]
  /\ at' = at + 1
  /\ lastSheet' = Change(at).table
  /\ sheet' = IF Change(at).table = lastSheet
              THEN sheet ELSE SheetAfter(Change(at).table)
  /\ sheetName' = IF Change(at).table = lastSheet
                  THEN sheetName ELSE NameAfter(Change(at).table, sheetName)
  /\ ChangeRow(at, sheet', sheetName')
  /\ UNCHANGED <<patchVars, pc, pass, deferVars, stored>>

SkipRow ==
  /\ Emitting /\ at <= Len(rows)
  /\ Change(at).table \notin Passes[pass]
  /\ at' = at + 1
  /\ UNCHANGED <<patchVars, pc, pass, lastSheet, deferVars, sheetVars,
                 targetVars, stored>>

(* emitPreambleIfNeeded for a sheet t without rows.                        *)
EmitPreamble(t) ==
  /\ Emitting /\ at > Len(rows)
  /\ t \in units \cap Passes[pass]
  /\ units' = units \ {t}
  /\ lastSheet' = t
  /\ sheet' = SheetAfter(t)
  /\ sheetName' = NameAfter(t, sheetName)
  /\ UNCHANGED <<rows, first, patch, pc, pass, at, deferVars, targetVars, stored>>

NextPass ==
  /\ Emitting /\ at > Len(rows)
  /\ units \cap Passes[pass] = {}
  /\ pass' = pass + 1
  /\ at' = first
  /\ pc' = IF pass = Len(Passes) THEN "pass" ELSE "emit"
  /\ UNCHANGED <<patchVars, lastSheet, deferVars, sheetVars, targetVars, stored>>

-----------------------------------------------------------------------------
(* SheetPatcher::mergeDone, retrying the deferred rows.                    *)

(* Mutant: deferred_rows is not cleared after it has been copied.          *)
StartPassUncleared ==
  /\ pc = "pass"
  /\ prevLen' = len
  /\ len' = Len(deferred)
  /\ cp' = deferred
  /\ pc' = "replay"
  /\ UNCHANGED <<patchVars, emitVars, sheetVars, targetVars, stored>>

StartPass ==
  /\ pc = "pass"
  /\ prevLen' = len
  /\ len' = Len(deferred)
  /\ cp' = deferred
  /\ deferred' = <<>>
  /\ pc' = "replay"
  /\ UNCHANGED <<patchVars, emitVars, sheetVars, pool, top, written, stored>>

ReplayRow ==
  /\ pc = "replay" /\ cp # <<>>
  /\ cp' = Tail(cp)
  /\ sheet' = IF Head(cp).sheet = sheetName
              THEN sheet ELSE SheetAfter(Head(cp).sheet)
  /\ sheetName' = IF Head(cp).sheet = sheetName
                  THEN sheetName ELSE NameAfter(Head(cp).sheet, sheetName)
  /\ ChangeRow(Head(cp).row, sheet', sheetName')
  /\ UNCHANGED <<patchVars, pc, emitVars, len, prevLen, stored>>

(* Mutant: passes for as long as rows are deferred.                        *)
EndPassForever ==
  /\ pc = "replay" /\ cp = <<>>
  /\ pc' = IF len > 0 THEN "pass" ELSE "save"
  /\ UNCHANGED <<patchVars, emitVars, deferVars, sheetVars, targetVars, stored>>

EndPass ==
  /\ pc = "replay" /\ cp = <<>>
  /\ \/ len > 0 /\ len # prevLen /\ pc' = "pass"
     \/ len > 0 /\ len = prevLen /\ pc' = "exit"   \* Cyclic dependency
     \/ len <= 0 /\ pc' = "save"
  /\ UNCHANGED <<patchVars, emitVars, deferVars, sheetVars, targetVars, stored>>

(* Diff::apply saves the pool at its end.                                  *)
SavePool ==
  /\ pc = "save"
  /\ stored' = Save(pool)
  /\ pc' = "done"
  /\ UNCHANGED <<patchVars, emitVars, deferVars, sheetVars, targetVars>>

(* A new run of the program, on the next patch, with the same pool file.   *)
NextPatch ==
  /\ pc = "done" /\ patch < MaxPatches
  /\ first' = Len(rows) + 1 /\ patch' = patch + 1 /\ units' = {}
  /\ pc' = "buffer"
  /\ pass' = 1 /\ at' = Len(rows) + 1 /\ lastSheet' = NoSheet
  /\ sheet' = NoSheet /\ sheetName' = NoSheet
  /\ deferred' = <<>> /\ cp' = <<>> /\ len' = -1 /\ prevLen' = -2
  /\ pool' = Load(stored)
  /\ UNCHANGED <<rows, stored, top, written>>

Running == \/ Prescan
           \/ EmitRow \/ SkipRow \/ NextPass
           \/ \E t \in Tables : EmitPreamble(t)
           \/ StartPass \/ ReplayRow \/ EndPass
           \/ SavePool

Next == \/ \E t \in Tables : FilterSetSheet(t)
        \/ \E c \in RowChange : FilterChangeRow(c)
        \/ Running
        \/ NextPatch

Spec == Init /\ [][Next]_vars

(* A started program runs to its end; whether another patch arrives is not *)
(* up to it.                                                               *)
FairSpec == Spec /\ WF_vars(Running)
-----------------------------------------------------------------------------
Row == [patch : Nat, change : RowChange]
DeferredRow == [sheet : Tables \cup {NoSheet}, row : Nat]
WrittenRow(t) == [row : Nat, table : {t}, id : Nat,
                  refs : [RefersTo[t] -> Nat \cup {Blank}]]

WrittenOK == \A w \in written : \E t \in Tables : w \in WrittenRow(t)

(* The variables hold what their C++ counterparts can hold.                *)
TypeOK ==
  /\ rows \in Seq(Row) /\ first \in Nat \ {0} /\ patch \in Nat
  /\ units \subseteq Tables
  /\ pc \in {"buffer", "emit", "pass", "replay", "exit", "save", "done"}
  /\ pass \in Nat \ {0} /\ at \in Nat \ {0}
  /\ lastSheet \in Tables \cup {NoSheet}
  /\ sheet \in Present \cup {NoSheet} /\ sheetName \in Tables \cup {NoSheet}
  /\ deferred \in Seq(DeferredRow) /\ cp \in Seq(DeferredRow)
  /\ len \in Int /\ prevLen \in Int
  /\ pool \in [Tables -> [Ids -> PoolRecord \cup {Absent}]]
  /\ stored \in [Tables -> [Ids -> Nat \cup {Blank, Absent}]]
  /\ top \in [Tables -> Nat]
  /\ WrittenOK

(* The rows that may have created what row i calls id o of table t: those  *)
(* of its own patch and of the patches applied before it.                  *)
Coiners(i, t, o) ==
  {j \in 1 .. Len(rows) : Coins(j, t, o) /\ rows[j].patch <= rows[i].patch}

(* Reference t of the written row w denotes, in the target, what it        *)
(* denoted in the source: the row inserted by the latest patch, up to its  *)
(* own, that created the id; or the shared row with that very id when no   *)
(* patch created it.                                                       *)
Denotes(w, t) ==
  LET o == Change(w.row).refs[t]
      C == Coiners(w.row, t, o)
  IN  IF C = {}
      THEN w.refs[t] = o
      ELSE \E v \in written : /\ v.row \in C /\ v.table = t
                              /\ \A j \in C : rows[j].patch <= rows[v.row].patch
                              /\ w.refs[t] = v.id

(* Every row is written to the table it is of, which the target has, also  *)
(* when the patch names tables that the target does not have: neither the  *)
(* switching between sheets nor a failed setSheet misdirects a row.        *)
WrittenInPlace ==
  \A w \in written : w.table = Change(w.row).table /\ w.table \in Present

(* Every reference of an inserted row is translated to the id its table    *)
(* invented for the row referred to, whatever the order of the rows and    *)
(* tables in the patch, and in a later patch too (SheetPatcher::changeRow, *)
(* MergeOutputFilter::mergeAllDone, PoolImpl::save and load).              *)
RefsTranslated ==
  \A w \in written : Change(w.row).mode = "INSERT" =>
    \A t \in RefersTo[w.table] : Denotes(w, t)

(* The same of updated rows as well: at the end, no foreign key holds an   *)
(* id slavishly copied from the source when a patch gave that row another. *)
UpdatesTranslated ==
  pc = "done" => \A w \in written : \A t \in RefersTo[w.table] : Denotes(w, t)

(* No placeholder of the prescan reaches the pool file, from which the     *)
(* next run would load it as the translation of an id.                     *)
NoPlaceholderStored ==
  \A t \in Tables, o \in Ids : stored[t][o] # Blank

(* The retry loop of mergeDone ends: once a patch has been read, the       *)
(* program saves the pool or reports a cycle.                              *)
PatchTerminates == pc = "emit" ~> pc \in {"done", "exit"}
=============================================================================
