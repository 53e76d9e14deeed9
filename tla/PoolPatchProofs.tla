-------------------------- MODULE PoolPatchProofs ---------------------------
(***************************************************************************)
(* Proofs about PoolPatch, for any tables, references, options and bounds: *)
(* rows are written to the tables they are of; and if the target has every *)
(* table of the patches, references are translated rightly.                *)
(***************************************************************************)
EXTENDS PoolPromise, TLAPS

(* The rows waiting in d are rows of the patch, under their table's name.  *)
Waiting(d) ==
  \A k \in 1 .. Len(d) : /\ d[k].row \in 1 .. Len(rows)
                         /\ d[k].sheet = Change(d[k].row).table

(* What SheetPatcher and MergeOutputFilter believe about the sheet that is *)
(* attached.  sheetName may be stale, but only while no sheet is attached. *)
SheetInv ==
  /\ sheet # NoSheet => sheet = sheetName
  /\ pc = "buffer" => lastSheet = NoSheet
  /\ pc = "emit" /\ lastSheet # NoSheet => sheet = SheetAfter(lastSheet)

(* What holds of the variables that ChangeRow may change.                  *)
TargetInv ==
  /\ deferred \in Seq(DeferredRow) /\ Waiting(deferred)
  /\ pool \in [Tables -> [Ids -> PoolRecord \cup {Absent}]]
  /\ top \in [Tables -> Nat]
  /\ WrittenOK
  /\ \A w \in written : w.row \in 1 .. Len(rows)
  /\ WrittenInPlace

TypeInv == TypeOK /\ SheetInv /\ TargetInv /\ Waiting(cp)

(* The two halves of TypeOK: control, and the data it acts on.             *)
ControlOK ==
  /\ first \in Nat \ {0} /\ patch \in Nat /\ units \subseteq Tables
  /\ pc \in {"buffer", "emit", "pass", "replay", "exit", "save", "done"}
  /\ pass \in Nat \ {0} /\ at \in Nat \ {0}
  /\ lastSheet \in Tables \cup {NoSheet}
  /\ sheet \in Present \cup {NoSheet} /\ sheetName \in Tables \cup {NoSheet}
  /\ len \in Int /\ prevLen \in Int

DataOK ==
  /\ rows \in Seq(Row)
  /\ deferred \in Seq(DeferredRow) /\ cp \in Seq(DeferredRow)
  /\ pool \in [Tables -> [Ids -> PoolRecord \cup {Absent}]]
  /\ stored \in [Tables -> [Ids -> Nat \cup {Blank, Absent}]]
  /\ top \in [Tables -> Nat]
  /\ WrittenOK
-----------------------------------------------------------------------------
(* TypeOK is its two halves.                                               *)
LEMMA TypeHalves == (TypeOK <=> ControlOK /\ DataOK) /\ (TypeOK <=> ControlOK /\ DataOK)'
  BY Zenon DEF TypeOK, ControlOK, DataOK

(* What a row change is made of.                                           *)
LEMMA ChangeType ==
  ASSUME NEW c \in RowChange
  PROVE  /\ c.table \in Tables /\ c.key \in Ids
         /\ c.mode \in {"INSERT", "UPDATE"}
         /\ c.refs \in [RefersTo[c.table] -> Ids]
  BY DEF RowChange

(* Every row of the patches is a row change.                               *)
LEMMA RowType ==
  ASSUME TypeOK, NEW i \in 1 .. Len(rows)
  PROVE  Change(i) \in RowChange
  <1>1. rows \in Seq(Row)
    BY Zenon DEF TypeOK
  <1>2. rows[i] \in Row
    BY <1>1
  <1> QED BY Zenon, <1>2 DEF Change, Row

(* What PoolImpl::load makes of a pool file is a pool.                     *)
LEMMA LoadType ==
  ASSUME NEW s \in [Tables -> [Ids -> Nat \cup {Blank, Absent}]]
  PROVE  Load(s) \in [Tables -> [Ids -> PoolRecord \cup {Absent}]]
  <1> DEFINE L(t, o) == IF s[t][o] = Absent THEN Absent
                        ELSE [cell |-> s[t][o], linked |-> TRUE]
  <1>1. ASSUME NEW t \in Tables, NEW o \in Ids
        PROVE  L(t, o) \in PoolRecord \cup {Absent}
    <2>1. s[t][o] \in Nat \cup {Blank, Absent}
      OBVIOUS
    <2> QED BY Zenon, <2>1 DEF PoolRecord
  <1> HIDE DEF L
  <1>2. [t \in Tables |-> [o \in Ids |-> L(t, o)]]
          \in [Tables -> [Ids -> PoolRecord \cup {Absent}]]
    BY Zenon, <1>1
  <1> QED BY Zenon, <1>2 DEF Load, L

(* What PoolImpl::save makes of a pool is a pool file.                     *)
LEMMA SaveType ==
  ASSUME NEW p \in [Tables -> [Ids -> PoolRecord \cup {Absent}]]
  PROVE  Save(p) \in [Tables -> [Ids -> Nat \cup {Blank, Absent}]]
  <1> DEFINE S(t, o) == IF p[t][o] = Absent THEN Absent ELSE p[t][o].cell
  <1>1. ASSUME NEW t \in Tables, NEW o \in Ids
        PROVE  S(t, o) \in Nat \cup {Blank, Absent}
    <2>1. p[t][o] \in PoolRecord \cup {Absent}
      OBVIOUS
    <2> QED BY Zenon, <2>1 DEF PoolRecord
  <1> HIDE DEF S
  <1>2. [t \in Tables |-> [o \in Ids |-> S(t, o)]]
          \in [Tables -> [Ids -> Nat \cup {Blank, Absent}]]
    BY Zenon, <1>1
  <1> QED BY Zenon, <1>2 DEF Save, S

(* The invariant holds at first.                                           *)
LEMMA InitTypeInv == Init => TypeInv
  <1> SUFFICES ASSUME Init PROVE TypeInv
    OBVIOUS
  <1>1. TypeOK
    BY ConstantsOK DEF Init, TypeOK, EmptyPool, WrittenOK
  <1>2. SheetInv /\ TargetInv /\ Waiting(cp)
    BY <1>1 DEF Init, TypeOK, SheetInv, TargetInv, Waiting, WrittenInPlace
  <1> QED BY Zenon, <1>1, <1>2 DEF TypeInv

(* A step that leaves the target and the rows alone keeps what holds of    *)
(* them.                                                                   *)
LEMMA TargetStutter ==
  ASSUME TargetInv, Waiting(cp), UNCHANGED <<rows, cp, targetVars>>
  PROVE  TargetInv' /\ Waiting(cp)'
  BY Zenon DEF TargetInv, Waiting, WrittenInPlace, WrittenOK, Change, WrittenRow, targetVars

(* SheetPatcher::changeRow keeps what holds of the target, whether it      *)
(* writes the row, defers it or has no sheet to write to, provided that an *)
(* attached sheet is the one of the row's table.                           *)
LEMMA ChangeRowTarget ==
  ASSUME TypeInv, UNCHANGED rows,
         NEW i \in 1 .. Len(rows), NEW s, NEW n,
         s # NoSheet => s \in Present /\ s = Change(i).table /\ n = s,
         ChangeRow(i, s, n)
  PROVE  TargetInv'
  <1> DEFINE c == Change(i)
  <1>a. c \in RowChange
    BY Zenon, RowType DEF TypeInv
  <1>b. c.table \in Tables /\ c.key \in Ids /\ c.refs \in [RefersTo[c.table] -> Ids]
    BY Zenon, <1>a, ChangeType
  <1>c. TargetInv
    BY Zenon DEF TypeInv
  <1>d. Ids \subseteq Nat
    BY DEF Ids
  <1>e. RefersTo[c.table] \subseteq Tables
    BY Zenon, <1>b, ConstantsOK
  <1> HIDE DEF c
  <1>1. CASE s = NoSheet
    BY Zenon, <1>1, <1>c DEF ChangeRow, TargetInv, targetVars, Waiting, WrittenInPlace, WrittenOK,
       WrittenRow, Change, InsertRow, UpdateRow
  <1>2. CASE s # NoSheet /\ UpdateRow(i, s)
    <2>1. UNCHANGED <<deferred, top, pool>>
      BY Zenon, <1>2 DEF UpdateRow
    <2> DEFINE w == [row |-> i, table |-> s, id |-> c.key, refs |-> c.refs]
    <2>2. written' = written \cup {w}
      BY Zenon, <1>2 DEF UpdateRow, c
    <2>3. w \in WrittenRow(s)
      <3>1. s = c.table
        BY Zenon, <1>2 DEF c
      <3>2. c.key \in Nat /\ c.refs \in [RefersTo[s] -> Nat \cup {Blank}]
        BY Zenon, <3>1, <1>b, <1>d
      <3> QED BY <3>2 DEF WrittenRow
    <2>4. w.row \in 1 .. Len(rows) /\ w.table = Change(w.row).table /\ w.table \in Present
      BY Zenon, <1>2
    <2>5. s \in Tables
      BY Zenon, <1>2, ConstantsOK
    <2> HIDE DEF w
    <2>6. Waiting(deferred)'
      BY Zenon, <2>1, <1>c DEF TargetInv, Waiting, Change
    <2>7. WrittenOK'
      BY Zenon, <2>2, <2>3, <2>5, <1>c DEF TargetInv, WrittenOK, WrittenRow
    <2>8. (\A v \in written : v.row \in 1 .. Len(rows))' /\ WrittenInPlace'
      BY Zenon, <2>2, <2>4, <1>c DEF TargetInv, WrittenInPlace, Change
    <2> QED BY Zenon, <2>1, <2>6, <2>7, <2>8, <1>c DEF TargetInv
  <1>3. CASE s # NoSheet /\ InsertRow(i, s, n)
                         /\ \A t \in RefersTo[s] : Translatable(t, c.refs[t])
    <2> DEFINE id == top[s] + 1
               w == [row |-> i, table |-> s, id |-> id,
                     refs |-> [t \in RefersTo[s] |-> Translation(t, c.refs[t])]]
    <2>1. s \in Tables /\ s = c.table /\ id \in Nat
      BY <1>3, <1>c, ConstantsOK DEF TargetInv, c
    <2>2. /\ written' = written \cup {w}
          /\ top' = [top EXCEPT ![s] = id]
          /\ pool' = IF s \in Inventors THEN Put(s, c.key, id) ELSE pool
          /\ UNCHANGED deferred
      BY Zenon, <1>3 DEF InsertRow, c
    <2>3. \A t \in RefersTo[s] : Translation(t, c.refs[t]) \in Nat \cup {Blank}
      <3> TAKE t \in RefersTo[s]
      <3>1. t \in Tables /\ c.refs[t] \in Ids
        BY Zenon, <2>1, <1>b, <1>e
      <3>2. pool[t][c.refs[t]] \in PoolRecord \cup {Absent}
        BY Zenon, <3>1, <1>c DEF TargetInv
      <3> QED BY Zenon, <3>1, <3>2, <1>d DEF Translation, PoolRecord
    <2>4. w \in WrittenRow(s)
      BY <2>1, <2>3 DEF WrittenRow
    <2>5. w.row \in 1 .. Len(rows) /\ w.table = Change(w.row).table /\ w.table \in Present
      BY Zenon, <1>3
    <2>6. pool' \in [Tables -> [Ids -> PoolRecord \cup {Absent}]]
      <3>1. [cell |-> id, linked |-> TRUE] \in PoolRecord
        BY Zenon, <2>1 DEF PoolRecord
      <3> QED BY Zenon, <3>1, <2>1, <2>2, <1>b, <1>c DEF TargetInv, Put
    <2>7. top' \in [Tables -> Nat]
      BY Zenon, <2>1, <2>2, <1>c DEF TargetInv
    <2> HIDE DEF w, id
    <2>8. Waiting(deferred)'
      BY Zenon, <2>2, <1>c DEF TargetInv, Waiting, Change
    <2>9. WrittenOK'
      BY Zenon, <2>1, <2>2, <2>4, <1>c DEF TargetInv, WrittenOK, WrittenRow
    <2>10. (\A v \in written : v.row \in 1 .. Len(rows))' /\ WrittenInPlace'
      BY Zenon, <2>2, <2>5, <1>c DEF TargetInv, WrittenInPlace, Change
    <2> QED BY Zenon, <2>2, <2>6, <2>7, <2>8, <2>9, <2>10, <1>c DEF TargetInv
  <1>4. CASE s # NoSheet /\ InsertRow(i, s, n)
                         /\ ~ \A t \in RefersTo[s] : Translatable(t, c.refs[t])
    <2> DEFINE d == [sheet |-> n, row |-> i]
    <2>1. deferred' = Append(deferred, d) /\ UNCHANGED <<written, top, pool>>
      BY Zenon, <1>4 DEF InsertRow, c
    <2>2. d \in DeferredRow
      BY <1>4, ConstantsOK DEF DeferredRow
    <2>3. d.row \in 1 .. Len(rows) /\ d.sheet = Change(d.row).table
      BY Zenon, <1>4
    <2> HIDE DEF d
    <2>4. deferred \in Seq(DeferredRow) /\ Waiting(deferred)
      BY Zenon, <1>c DEF TargetInv
    <2>5. deferred' \in Seq(DeferredRow) /\ Len(deferred') = Len(deferred) + 1
          /\ deferred'[Len(deferred) + 1] = d
          /\ \A k \in 1 .. Len(deferred) : deferred'[k] = deferred[k]
      BY <2>1, <2>2, <2>4
    <2>6. Waiting(deferred)'
      <3> SUFFICES ASSUME NEW k \in 1 .. Len(deferred')
                   PROVE  /\ deferred'[k].row \in 1 .. Len(rows)
                          /\ deferred'[k].sheet = Change(deferred'[k].row).table
        BY Zenon DEF Waiting, Change
      <3>1. Len(deferred) \in Nat
        BY <2>4
      <3>2. CASE k = Len(deferred) + 1
        BY Zenon, <3>2, <2>3, <2>5
      <3>3. CASE k \in 1 .. Len(deferred)
        BY Zenon, <3>3, <2>4, <2>5 DEF Waiting
      <3> QED BY <3>1, <3>2, <3>3, <2>5
    <2>7. WrittenOK' /\ WrittenInPlace' /\ (\A w \in written : w.row \in 1 .. Len(rows))'
      BY Zenon, <2>1, <1>c DEF TargetInv, WrittenOK, WrittenRow, WrittenInPlace, Change
    <2> QED BY Zenon, <2>1, <2>5, <2>6, <2>7, <1>c DEF TargetInv
  <1> QED BY Zenon, <1>1, <1>2, <1>3, <1>4 DEF ChangeRow, c

(* When MergeOutputFilter emits a row, the sheet attached, if any, is the  *)
(* one of the row's table.                                                 *)
LEMMA EmitRowSheets ==
  ASSUME TypeInv, EmitRow
  PROVE  /\ at \in 1 .. Len(rows)
         /\ sheet' \in Present \cup {NoSheet} /\ sheetName' \in Tables \cup {NoSheet}
         /\ sheet' = SheetAfter(Change(at).table)
         /\ sheet' # NoSheet => sheet' = Change(at).table /\ sheetName' = sheet'
         /\ Change(at).table \in Tables
  <1>1. at \in 1 .. Len(rows)
    BY DEF TypeInv, TypeOK, EmitRow
  <1>2. Change(at).table \in Tables
    BY Zenon, <1>1, RowType, ChangeType DEF TypeInv
  <1>3. Change(at).table # NoSheet
    BY Zenon, <1>2, ConstantsOK
  <1>4. CASE Change(at).table = lastSheet
    BY Zenon, <1>1, <1>2, <1>3, <1>4, ConstantsOK
       DEF TypeInv, TypeOK, SheetInv, EmitRow, Emitting, SheetAfter
  <1>5. CASE Change(at).table # lastSheet
    BY Zenon, <1>1, <1>2, <1>3, <1>5, ConstantsOK
       DEF TypeInv, TypeOK, EmitRow, SheetAfter, NameAfter
  <1> QED BY Zenon, <1>1, <1>2, <1>4, <1>5

(* So it is when mergeDone replays a deferred row.                         *)
LEMMA ReplayRowSheets ==
  ASSUME TypeInv, ReplayRow
  PROVE  /\ Head(cp).row \in 1 .. Len(rows)
         /\ sheet' \in Present \cup {NoSheet} /\ sheetName' \in Tables \cup {NoSheet}
         /\ sheet' # NoSheet => sheet' = Change(Head(cp).row).table /\ sheetName' = sheet'
         /\ cp' \in Seq(DeferredRow) /\ Waiting(cp)'
  <1>1. cp \in Seq(DeferredRow) /\ cp # <<>>
    BY Zenon DEF TypeInv, TypeOK, ReplayRow
  <1>2. /\ Head(cp) = cp[1] /\ 1 \in 1 .. Len(cp)
        /\ cp' \in Seq(DeferredRow) /\ Len(cp') = Len(cp) - 1
        /\ \A k \in 1 .. Len(cp') : cp'[k] = cp[k + 1] /\ k + 1 \in 1 .. Len(cp)
    BY <1>1 DEF ReplayRow
  <1>3. Head(cp).row \in 1 .. Len(rows) /\ Head(cp).sheet = Change(Head(cp).row).table
    BY Zenon, <1>2 DEF TypeInv, Waiting
  <1>4. Change(Head(cp).row).table \in Tables
    BY Zenon, <1>3, RowType, ChangeType DEF TypeInv
  <1>5. Waiting(cp)'
    BY Zenon, <1>2 DEF TypeInv, Waiting, ReplayRow, patchVars, Change
  <1>6. CASE Head(cp).sheet = sheetName
    BY Zenon, <1>2, <1>3, <1>4, <1>5, <1>6 DEF TypeInv, TypeOK, SheetInv, ReplayRow
  <1>7. CASE Head(cp).sheet # sheetName
    BY Zenon, <1>2, <1>3, <1>4, <1>5, <1>7, ConstantsOK DEF TypeInv, TypeOK, ReplayRow, SheetAfter, NameAfter
  <1> QED BY Zenon, <1>2, <1>3, <1>5, <1>6, <1>7

(* Every step keeps the invariant.                                         *)
LEMMA NextTypeInv == TypeInv /\ [Next]_vars => TypeInv'
  <1> SUFFICES ASSUME TypeOK, SheetInv, TargetInv, Waiting(cp), [Next]_vars
               PROVE  TypeOK' /\ SheetInv' /\ TargetInv' /\ Waiting(cp)'
    BY Zenon DEF TypeInv
  <1>t. TypeInv
    BY Zenon DEF TypeInv
  <1>1. ASSUME NEW t \in Tables, FilterSetSheet(t) PROVE TypeInv'
    <2>1. SheetInv'
      BY Zenon, <1>1 DEF SheetInv, FilterSetSheet, emitVars, sheetVars
    <2>2. TargetInv' /\ Waiting(cp)'
      BY Zenon, <1>1, TargetStutter DEF FilterSetSheet, deferVars
    <2>3. TypeOK'
      BY Zenon, <1>1, <2>2 DEF TypeOK, TargetInv, FilterSetSheet, emitVars, deferVars, sheetVars
    <2> QED BY Zenon, <2>3, <2>1, <2>2 DEF TypeInv
  <1>2. ASSUME NEW c \in RowChange, FilterChangeRow(c) PROVE TypeInv'
    <2> DEFINE r == [patch |-> patch, change |-> c]
    <2>1. r \in Row
      BY Zenon DEF TypeOK, Row
    <2>2. rows' = Append(rows, r)
      BY Zenon, <1>2 DEF FilterChangeRow
    <2> HIDE DEF r
    <2>3. /\ rows' \in Seq(Row) /\ Len(rows) \in Nat /\ Len(rows') = Len(rows) + 1
          /\ \A i \in 1 .. Len(rows) : i \in 1 .. Len(rows') /\ rows'[i] = rows[i]
      BY <2>1, <2>2 DEF TypeOK
    <2>4. UNCHANGED <<cp, sheet, sheetName, lastSheet, pc, targetVars>>
      BY Zenon, <1>2 DEF FilterChangeRow, emitVars, deferVars, sheetVars
    <2>5. SheetInv'
      BY Zenon, <2>4 DEF SheetInv
    <2>6. Waiting(cp)' /\ Waiting(deferred)'
      BY Zenon, <2>3, <2>4 DEF TargetInv, Waiting, Change, targetVars
    <2>7. TargetInv'
      BY Zenon, <2>3, <2>4, <2>6 DEF TargetInv, WrittenInPlace, WrittenOK, Change, WrittenRow, targetVars
    <2>8. TypeOK'
      BY Zenon, <1>2, <2>3, <2>4, <2>7
         DEF TypeOK, TargetInv, FilterChangeRow, emitVars, deferVars
    <2> QED BY Zenon, <2>8, <2>5, <2>6, <2>7 DEF TypeInv
  <1>3. CASE Prescan
    <2>1. pool' \in [Tables -> [Ids -> PoolRecord \cup {Absent}]]
      <3>1. [cell |-> Blank, linked |-> FALSE] \in PoolRecord
        BY Zenon DEF PoolRecord
      <3> QED BY Zenon, <1>3, <3>1 DEF Prescan, TypeOK
    <2>2. SheetInv'
      BY Zenon, <1>3 DEF SheetInv, Prescan, emitVars, sheetVars
    <2>3. UNCHANGED <<rows, deferred, cp, top, written>>
      BY Zenon, <1>3 DEF Prescan, deferVars
    <2>4. TargetInv' /\ Waiting(cp)'
      BY Zenon, <2>1, <2>3 DEF TargetInv, Waiting, WrittenInPlace, WrittenOK, Change, WrittenRow
    <2>5. TypeOK'
      BY Zenon, <1>3, <2>1, <2>4 DEF TypeOK, TargetInv, Prescan, emitVars, deferVars, sheetVars
    <2> QED BY Zenon, <2>5, <2>2, <2>4 DEF TypeInv
  <1>4. CASE EmitRow
    <2>1. /\ at \in 1 .. Len(rows)
          /\ sheet' \in Present \cup {NoSheet} /\ sheetName' \in Tables \cup {NoSheet}
          /\ sheet' = SheetAfter(Change(at).table)
          /\ sheet' # NoSheet => sheet' = Change(at).table /\ sheetName' = sheet'
          /\ Change(at).table \in Tables
      BY Zenon, <1>4, <1>t, EmitRowSheets
    <2>2. /\ ChangeRow(at, sheet', sheetName')
          /\ pc = "emit" /\ at' = at + 1 /\ lastSheet' = Change(at).table
          /\ UNCHANGED <<rows, first, patch, units, pc, pass, cp, len, prevLen, stored>>
      BY Zenon, <1>4 DEF EmitRow, Emitting, patchVars, deferVars
    <2>3. TargetInv'
      BY Zenon, <1>t, <2>1, <2>2, ChangeRowTarget
    <2>4. TypeOK'
      BY <2>1, <2>2, <2>3, SMTT(30) DEF TypeOK, TargetInv
    <2>5. SheetInv'
      BY Zenon, <2>1, <2>2 DEF SheetInv, SheetAfter
    <2>6. Waiting(cp)'
      BY Zenon, <2>2 DEF Waiting, Change
    <2> QED BY Zenon, <2>3, <2>4, <2>5, <2>6 DEF TypeInv
  <1>5. CASE SkipRow
    <2>1. SheetInv'
      BY Zenon, <1>5 DEF SheetInv, SkipRow, SheetAfter, sheetVars
    <2>2. TargetInv' /\ Waiting(cp)'
      BY Zenon, <1>5, TargetStutter DEF SkipRow, patchVars, deferVars
    <2>3. TypeOK'
      <3>1. ControlOK /\ DataOK
        BY Zenon, TypeHalves
      <3>2. ControlOK'
        BY <3>1, <1>5 DEF ControlOK, SkipRow, patchVars, deferVars, sheetVars
      <3>3. DataOK'
        BY Zenon, <3>1, <1>5, <2>2 DEF DataOK, TargetInv, SkipRow, patchVars, deferVars
      <3> QED BY Zenon, <3>2, <3>3, TypeHalves
    <2> QED BY Zenon, <2>3, <2>1, <2>2 DEF TypeInv
  <1>6. ASSUME NEW t \in Tables, EmitPreamble(t) PROVE TypeInv'
    <2>1. sheet' \in Present \cup {NoSheet} /\ sheetName' \in Tables \cup {NoSheet}
      BY Zenon, <1>6 DEF TypeOK, EmitPreamble, SheetAfter, NameAfter
    <2>2. SheetInv'
      <3>1. /\ pc = "emit" /\ pc' = "emit" /\ sheetName' = NameAfter(t, sheetName) /\ sheet' = SheetAfter(t)
            /\ lastSheet' = t
        BY Zenon, <1>6 DEF EmitPreamble, Emitting
      <3> QED BY Zenon, <3>1, ConstantsOK DEF SheetInv, SheetAfter, NameAfter
    <2>3. TargetInv' /\ Waiting(cp)'
      BY Zenon, <1>6, TargetStutter DEF EmitPreamble, deferVars
    <2>4. TypeOK'
      BY Zenon, <1>6, <2>1, <2>3 DEF TypeOK, TargetInv, EmitPreamble, deferVars
    <2> QED BY Zenon, <2>4, <2>2, <2>3 DEF TypeInv
  <1>7. CASE NextPass
    <2>1. SheetInv'
      BY Zenon, <1>7 DEF SheetInv, NextPass, Emitting, SheetAfter, sheetVars
    <2>2. TargetInv' /\ Waiting(cp)'
      BY Zenon, <1>7, TargetStutter DEF NextPass, patchVars, deferVars
    <2>3. TypeOK'
      <3>1. ControlOK /\ DataOK
        BY Zenon, TypeHalves
      <3>2. ControlOK'
        BY <3>1, <1>7 DEF ControlOK, NextPass, Emitting, patchVars, deferVars, sheetVars
      <3>3. DataOK'
        BY Zenon, <3>1, <1>7, <2>2 DEF DataOK, TargetInv, NextPass, patchVars, deferVars
      <3> QED BY Zenon, <3>2, <3>3, TypeHalves
    <2> QED BY Zenon, <2>3, <2>1, <2>2 DEF TypeInv
  <1>8. CASE StartPass
    <2>1. deferred' = <<>> /\ cp' = deferred /\ UNCHANGED <<rows, pool, top, written>>
      BY Zenon, <1>8 DEF StartPass, patchVars
    <2>2. SheetInv'
      BY Zenon, <1>8 DEF SheetInv, StartPass, sheetVars
    <2>3. Waiting(cp)' /\ Waiting(deferred)'
      <3>1. cp' = deferred /\ deferred' = <<>> /\ rows' = rows /\ Waiting(deferred)
        BY Zenon, <2>1 DEF TargetInv
      <3> QED BY <3>1 DEF Waiting, Change
    <2>4. TargetInv'
      <3>1. deferred' \in Seq(DeferredRow)
        BY <2>1
      <3>2. WrittenOK'
        BY Zenon, <2>1 DEF TargetInv, WrittenOK, WrittenRow
      <3>3. WrittenInPlace'
        BY Zenon, <2>1 DEF TargetInv, WrittenInPlace, Change
      <3>4. /\ pool' \in [Tables -> [Ids -> PoolRecord \cup {Absent}]]
            /\ top' \in [Tables -> Nat]
            /\ \A w \in written' : w.row \in 1 .. Len(rows')
        BY Zenon, <2>1 DEF TargetInv
      <3> QED BY Zenon, <2>3, <3>1, <3>2, <3>3, <3>4 DEF TargetInv
    <2>5. TypeOK'
      <3>1. ControlOK /\ DataOK
        BY Zenon, TypeHalves
      <3>2. ControlOK'
        BY <3>1, <1>8 DEF ControlOK, DataOK, StartPass, patchVars, emitVars, sheetVars
      <3>3. DataOK'
        BY Zenon, <3>1, <1>8, <2>1, <2>4 DEF DataOK, TargetInv, StartPass
      <3> QED BY Zenon, <3>2, <3>3, TypeHalves
    <2> QED BY Zenon, <2>5, <2>2, <2>3, <2>4 DEF TypeInv
  <1>9. CASE ReplayRow
    <2>1. /\ Head(cp).row \in 1 .. Len(rows)
          /\ sheet' \in Present \cup {NoSheet} /\ sheetName' \in Tables \cup {NoSheet}
          /\ sheet' # NoSheet => sheet' = Change(Head(cp).row).table /\ sheetName' = sheet'
          /\ cp' \in Seq(DeferredRow) /\ Waiting(cp)'
      BY Zenon, <1>9, <1>t, ReplayRowSheets
    <2>2. /\ ChangeRow(Head(cp).row, sheet', sheetName')
          /\ pc = "replay"
          /\ UNCHANGED <<rows, first, patch, units, pc, pass, at, lastSheet, len, prevLen,
                         stored>>
      BY Zenon, <1>9 DEF ReplayRow, patchVars, emitVars
    <2>3. TargetInv'
      BY Zenon, <1>t, <2>1, <2>2, ChangeRowTarget
    <2>4. TypeOK'
      <3>1. ControlOK /\ DataOK
        BY Zenon, TypeHalves
      <3>2. ControlOK'
        BY Zenon, <3>1, <2>1, <2>2 DEF ControlOK
      <3>3. DataOK'
        BY Zenon, <3>1, <2>1, <2>2, <2>3 DEF DataOK, TargetInv
      <3> QED BY Zenon, <3>2, <3>3, TypeHalves
    <2>5. SheetInv'
      BY Zenon, <2>1, <2>2 DEF SheetInv
    <2> QED BY Zenon, <2>1, <2>3, <2>4, <2>5 DEF TypeInv
  <1>10. CASE EndPass
    <2>1. pc' \in {"pass", "exit", "save"}
      BY Zenon, <1>10 DEF EndPass
    <2>2. SheetInv'
      BY Zenon, <1>10, <2>1 DEF SheetInv, EndPass, sheetVars
    <2>3. TargetInv' /\ Waiting(cp)'
      BY Zenon, <1>10, TargetStutter DEF EndPass, patchVars, deferVars
    <2>4. TypeOK'
      BY Zenon, <1>10, <2>1, <2>3 DEF TypeOK, TargetInv, EndPass, patchVars, emitVars, deferVars, sheetVars
    <2> QED BY Zenon, <2>4, <2>2, <2>3 DEF TypeInv
  <1>11. CASE SavePool
    <2>1. stored' \in [Tables -> [Ids -> Nat \cup {Blank, Absent}]]
      <3>1. stored' = Save(pool)
        BY Zenon, <1>11 DEF SavePool
      <3>2. pool \in [Tables -> [Ids -> PoolRecord \cup {Absent}]]
        BY Zenon DEF TypeOK
      <3> QED BY Zenon, <3>1, <3>2, SaveType
    <2>2. SheetInv'
      BY Zenon, <1>11 DEF SheetInv, SavePool, sheetVars
    <2>3. TargetInv' /\ Waiting(cp)'
      BY Zenon, <1>11, TargetStutter DEF SavePool, patchVars, deferVars
    <2>4. TypeOK'
      BY Zenon, <1>11, <2>1, <2>3 DEF TypeOK, TargetInv, SavePool, patchVars, emitVars, deferVars, sheetVars
    <2> QED BY Zenon, <2>4, <2>2, <2>3 DEF TypeInv
  <1>12. CASE NextPatch
    <2>1. pool' \in [Tables -> [Ids -> PoolRecord \cup {Absent}]]
      <3>1. pool' = Load(stored)
        BY Zenon, <1>12 DEF NextPatch
      <3>2. stored \in [Tables -> [Ids -> Nat \cup {Blank, Absent}]]
        BY Zenon DEF TypeOK
      <3> QED BY Zenon, <3>1, <3>2, LoadType
    <2>2. SheetInv'
      BY Zenon, <1>12 DEF SheetInv, NextPatch
    <2>3. UNCHANGED <<rows, top, written>> /\ deferred' = <<>> /\ cp' = <<>>
      BY Zenon, <1>12 DEF NextPatch
    <2>4. TargetInv' /\ Waiting(cp)'
      <3>1. deferred' \in Seq(DeferredRow) /\ Waiting(deferred)' /\ Waiting(cp)'
        BY <2>3 DEF Waiting
      <3>2. WrittenOK'
        BY Zenon, <2>3 DEF TargetInv, WrittenOK, WrittenRow
      <3>3. WrittenInPlace'
        BY Zenon, <2>3 DEF TargetInv, WrittenInPlace, Change
      <3>4. top' \in [Tables -> Nat] /\ \A w \in written' : w.row \in 1 .. Len(rows')
        BY Zenon, <2>3 DEF TargetInv
      <3> QED BY Zenon, <2>1, <3>1, <3>2, <3>3, <3>4 DEF TargetInv
    <2>5. TypeOK'
      <3>1. /\ rows' = rows /\ patch' = patch + 1 /\ units' = {} /\ pc' = "buffer"
            /\ pass' = 1 /\ lastSheet' = NoSheet /\ sheet' = NoSheet
            /\ sheetName' = NoSheet /\ len' = -1 /\ prevLen' = -2 /\ stored' = stored
        BY Zenon, <1>12 DEF NextPatch
      <3>2. first' \in Nat \ {0} /\ at' \in Nat \ {0}
        <4>1. first' = Len(rows) + 1 /\ at' = Len(rows) + 1
          BY Zenon, <1>12 DEF NextPatch
        <4>2. Len(rows) \in Nat
          BY DEF TypeOK
        <4> QED BY <4>1, <4>2
      <3>3. /\ deferred' \in Seq(DeferredRow) /\ cp' \in Seq(DeferredRow)
            /\ top' \in [Tables -> Nat] /\ WrittenOK'
        BY Zenon, <2>3, <2>4 DEF TargetInv
      <3> QED BY <2>1, <3>1, <3>2, <3>3, SMTT(30) DEF TypeOK
    <2> QED BY Zenon, <2>5, <2>2, <2>4 DEF TypeInv
  <1>13. CASE UNCHANGED vars
    <2>1. TargetInv' /\ Waiting(cp)'
      BY Zenon, <1>13, TargetStutter DEF vars, targetVars
    <2>2. TypeOK' /\ SheetInv'
      BY Zenon, <1>13, <2>1 DEF TypeOK, SheetInv, TargetInv, vars
    <2> QED BY Zenon, <2>1, <2>2 DEF TypeInv
  <1> QED BY Zenon, <1>1, <1>2, <1>3, <1>4, <1>5, <1>6, <1>7, <1>8, <1>9, <1>10, <1>11,
             <1>12, <1>13 DEF Next, Running, TypeInv

(* In every run of the program, for any tables, any of which the target    *)
(* may lack, and any patches: the variables keep their types, and every    *)
(* row is written to the table it is of.                                   *)
THEOREM RowsWrittenInPlace == Spec => [](TypeOK /\ WrittenInPlace)
  <1>1. TypeInv => TypeOK /\ WrittenInPlace
    BY Zenon DEF TypeInv, TargetInv
  <1> QED BY <1>1, InitTypeInv, NextTypeInv, PTL DEF Spec

-----------------------------------------------------------------------------
(***************************************************************************)
(* For a target that has every table of the patches: what a record of the  *)
(* pool, or its absence, says of the rows, and that references are         *)
(* therefore translated rightly.                                           *)
(***************************************************************************)
AllPresent == Present = Tables

(* The rows waiting in d, a value of deferred_rows or of mergeDone's copy. *)
RowsOf(d) == {d[k].row : k \in 1 .. Len(d)}

(* The rows that mergeAllDone has still to emit, in this loop or in a      *)
(* later one.                                                              *)
ToEmit ==
  {i \in Current : /\ pc = "emit"
                   /\ \E p \in pass .. Len(Passes) :
                        /\ Change(i).table \in Passes[p]
                        /\ p = pass => at <= i}

Pending == ToEmit \cup RowsOf(deferred) \cup RowsOf(cp)

(* The rows that the pool has been told of.                                *)
Known == IF pc = "buffer" THEN 1 .. first - 1 ELSE 1 .. Len(rows)

(* Row i is of the current patch if and only if it comes from first on.    *)
PatchInv ==
  /\ first <= Len(rows) + 1 /\ first <= at
  /\ \A i \in 1 .. Len(rows) : /\ rows[i].patch <= patch
                               /\ rows[i].patch = patch <=> first <= i
  /\ \A i \in Current : IsActiveTable(Change(i).table)
  /\ RowsOf(deferred) \subseteq Current /\ RowsOf(cp) \subseteq Current

(* Where the loops of mergeAllDone and mergeDone are.                      *)
LoopInv ==
  /\ sheet = sheetName
  /\ pc = "buffer" => at = first /\ pass = 1 /\ \A w \in written : w.row < first
  /\ pc \in {"buffer", "save", "done"} => deferred = <<>>
  /\ pc # "replay" => cp = <<>>
  /\ pc = "replay" => Len(cp) + Len(deferred) <= len

(* A linked record: the id given to the row that the latest patch created. *)
LinkedTo(t, o, v) ==
  /\ Coins(v.row, t, o) /\ v.table = t /\ v.id = pool[t][o].cell
  /\ \A i \in Known : Coins(i, t, o) => rows[i].patch <= rows[v.row].patch

(* What the pool says of id o of table t.                                  *)
RecordOK(t, o) ==
  IF pool[t][o] = Absent THEN \A i \in Known : ~Coins(i, t, o)
  ELSE IF pool[t][o].linked THEN \E v \in written : LinkedTo(t, o, v)
  ELSE \E i \in Pending : Coins(i, t, o)

PoolInv == \A t \in Tables, o \in Ids : RecordOK(t, o)

(* The pool file is the pool, and has no placeholder.                      *)
FileInv == NoPlaceholderStored /\ (pc = "done" => stored = Save(pool))

RefsInv == PatchInv /\ LoopInv /\ PoolInv /\ FileInv /\ RefsTranslated
-----------------------------------------------------------------------------
(* The loops of mergeAllDone come by every table that was asked for.       *)
LEMMA PassesCover ==
  /\ Len(Passes) \in Nat \ {0}
  /\ \A t \in Tables : IsActiveTable(t) => \E p \in 1 .. Len(Passes) : t \in Passes[p]
  <1>1. CASE \A t, u \in Desired : t = u
    <2>1. Passes = <<Tables>>
      BY Zenon, <1>1 DEF Passes
    <2>2. Len(Passes) = 1 /\ Passes[1] = Tables
      BY Zenon, <2>1
    <2> QED
      BY <2>2
  <1>2. CASE ~(\A t, u \in Desired : t = u)
    <2>1. Desired # {}
      BY Zenon, <1>2
    <2>2. Passes = [k \in DOMAIN OrderedTables |-> {OrderedTables[k]}]
      BY Zenon, <1>2 DEF Passes
    <2>3. OrderedTables \in Seq(Tables)
      BY Zenon, ConstantsOK
    <2>4. Len(OrderedTables) \in Nat /\ DOMAIN OrderedTables = 1 .. Len(OrderedTables)
      BY <2>3
    <2>5. Len(Passes) = Len(OrderedTables)
      BY <2>2, <2>4
    <2>6. Len(OrderedTables) # 0
      BY <2>1, <2>4 DEF Desired
    <2>7. ASSUME NEW t \in Tables, IsActiveTable(t)
          PROVE  \E p \in 1 .. Len(Passes) : t \in Passes[p]
      <3>1. PICK k \in DOMAIN OrderedTables : t = OrderedTables[k]
        BY Zenon, <2>1, <2>7 DEF IsActiveTable, Desired
      <3> QED
        BY Zenon, <2>2, <2>4, <2>5, <3>1
    <2> QED
      BY Zenon, <2>4, <2>5, <2>6, <2>7
  <1> QED
    BY Zenon, <1>1, <1>2

(* Which ids a row creates depends on the row only.                        *)
LEMMA SameCoins ==
  ASSUME UNCHANGED rows, NEW i, NEW t, NEW o
  PROVE  Coins(i, t, o)' <=> Coins(i, t, o)
  BY Zenon DEF Coins, Change

(* A step that keeps a record keeps what it says, if a row that a          *)
(* placeholder waits for stays pending.                                    *)
LEMMA RecordKept ==
  ASSUME NEW t \in Tables, NEW o \in Ids, RecordOK(t, o),
         UNCHANGED rows, Known' = Known, written \subseteq written',
         pool'[t][o] = pool[t][o],
         \A i \in Pending : Coins(i, t, o) => i \in Pending'
  PROVE  RecordOK(t, o)'
  <1>1. CASE pool[t][o] = Absent
    BY Zenon, <1>1, SameCoins DEF RecordOK
  <1>2. CASE pool[t][o] # Absent /\ pool[t][o].linked
    <2>1. PICK v \in written : LinkedTo(t, o, v)
      BY Zenon, <1>2 DEF RecordOK
    <2>2. LinkedTo(t, o, v)'
      BY Zenon, <2>1, SameCoins DEF LinkedTo
    <2> QED
      BY Zenon, <1>2, <2>2 DEF RecordOK
  <1>3. CASE pool[t][o] # Absent /\ ~pool[t][o].linked
    BY Zenon, <1>3, SameCoins DEF RecordOK
  <1> QED
    BY Zenon, <1>1, <1>2, <1>3

(* What a reference denotes does not change when more rows are written.    *)
LEMMA DenotesKept ==
  ASSUME UNCHANGED rows, written \subseteq written', NEW w, NEW t, Denotes(w, t)
  PROVE  Denotes(w, t)'
  <1>1. \A i, o : Coiners(i, t, o)' = Coiners(i, t, o)
    BY Zenon, SameCoins DEF Coiners
  <1>2. \A i : Change(i)' = Change(i) /\ rows'[i] = rows[i]
    BY Zenon DEF Change
  <1> QED
    BY <1>1, <1>2 DEF Denotes

(* changeRow puts no row that was deferred off the list, and the row it    *)
(* defers on it.                                                           *)
LEMMA DeferredGrows ==
  ASSUME TypeOK, NEW i, NEW s, NEW n, ChangeRow(i, s, n)
  PROVE  /\ RowsOf(deferred) \subseteq RowsOf(deferred)'
         /\ RowsOf(deferred)' \subseteq RowsOf(deferred) \cup {i}
         /\ deferred' # deferred =>
              Len(deferred') = Len(deferred) + 1 /\ i \in RowsOf(deferred)'
  <1>1. deferred' = deferred \/ deferred' = Append(deferred, [sheet |-> n, row |-> i])
    BY Zenon DEF ChangeRow, InsertRow, UpdateRow, targetVars
  <1>2. CASE deferred' = deferred
    BY Zenon, <1>2 DEF RowsOf
  <1>3. CASE deferred' # deferred
    <2> DEFINE d == [sheet |-> n, row |-> i]
    <2>1. deferred' = Append(deferred, d) /\ d.row = i
      BY Zenon, <1>1, <1>3
    <2> HIDE DEF d
    <2>2. deferred \in Seq(DeferredRow)
      BY Zenon DEF TypeOK
    <2>3. /\ Len(deferred) \in Nat /\ Len(deferred') = Len(deferred) + 1
          /\ deferred'[Len(deferred) + 1] = d
          /\ \A k \in 1 .. Len(deferred) : deferred'[k] = deferred[k]
      BY <2>1, <2>2
    <2> QED
      BY <2>1, <2>3 DEF RowsOf
  <1> QED
    BY Zenon, <1>2, <1>3

(* A reference that the pool can translate is translated to what it        *)
(* denotes.                                                                *)
LEMMA TranslationDenotes ==
  ASSUME TypeInv, PatchInv, PoolInv, pc # "buffer", UNCHANGED rows,
         written \subseteq written',
         NEW w, w.row \in Current,
         NEW t \in Tables, Change(w.row).refs[t] \in Ids,
         Translatable(t, Change(w.row).refs[t]),
         w.refs[t] = Translation(t, Change(w.row).refs[t])
  PROVE  Denotes(w, t)'
  <1> DEFINE o == Change(w.row).refs[t]
             C == Coiners(w.row, t, o)
  <1>1. RecordOK(t, o)
    BY Zenon DEF PoolInv
  <1>2. Known = 1 .. Len(rows)
    BY Zenon DEF Known
  <1>3. w.row \in 1 .. Len(rows) /\ rows[w.row].patch = patch
    BY DEF TypeInv, TypeOK, PatchInv, Current
  <1> SUFFICES Denotes(w, t)
    BY Zenon, DenotesKept
  <1>4. CASE pool[t][o] = Absent
    <2>1. C = {}
      BY Zenon, <1>1, <1>2, <1>4 DEF RecordOK, Coiners
    <2>2. w.refs[t] = o
      BY Zenon, <1>4 DEF Translation
    <2> QED
      BY Zenon, <2>1, <2>2 DEF Denotes
  <1>5. CASE pool[t][o] # Absent
    <2>1. pool[t][o].linked
      BY Zenon, <1>5 DEF Translatable
    <2>2. PICK v \in written : LinkedTo(t, o, v)
      BY Zenon, <1>1, <1>5, <2>1 DEF RecordOK
    <2>3. v.row \in 1 .. Len(rows)
      BY Zenon DEF TypeInv, TargetInv
    <2>4. v.row \in C
      BY Zenon, <1>3, <2>2, <2>3 DEF LinkedTo, Coiners, PatchInv
    <2>5. \A j \in C : rows[j].patch <= rows[v.row].patch
      BY Zenon, <1>2, <2>2 DEF LinkedTo, Coiners
    <2>6. w.refs[t] = v.id /\ v.table = t
      BY Zenon, <1>5, <2>2 DEF Translation, LinkedTo
    <2> QED
      BY Zenon, <2>4, <2>5, <2>6 DEF Denotes
  <1> QED
    BY Zenon, <1>4, <1>5

(* changeRow, given the sheet of the row's table, keeps what the pool says *)
(* and translates the references of the row it writes.                     *)
LEMMA RowHandled ==
  ASSUME AllPresent, TypeInv, PatchInv, PoolInv, RefsTranslated, pc # "buffer",
         UNCHANGED <<rows, first, patch, pc>>,
         NEW i \in Current, ChangeRow(i, Change(i).table, Change(i).table),
         Pending \ {i} \subseteq Pending', RowsOf(deferred)' \subseteq Pending'
  PROVE  PoolInv' /\ RefsTranslated'
  <1> DEFINE c == Change(i)
             s == Change(i).table
  <1>1. i \in 1 .. Len(rows) /\ rows[i].patch = patch
    BY DEF TypeInv, TypeOK, PatchInv, Current
  <1>2. c \in RowChange
    BY Zenon, <1>1, RowType DEF TypeInv
  <1>3. s \in Tables /\ c.key \in Ids /\ c.refs \in [RefersTo[s] -> Ids]
    BY Zenon, <1>2, ChangeType
  <1>4. s # NoSheet /\ RefersTo[s] \subseteq Tables
    BY Zenon, <1>3, ConstantsOK
  <1>5. Known' = Known /\ Known = 1 .. Len(rows)
    BY Zenon DEF Known
  <1>6. \A w : Change(w.row)' = Change(w.row)
    BY Zenon DEF Change
  <1>7. CASE UpdateRow(i, s) /\ c.mode = "UPDATE"
    <2> DEFINE w == [row |-> i, table |-> s, id |-> c.key, refs |-> c.refs]
    <2>1. written' = written \cup {w} /\ pool' = pool
      BY Zenon, <1>7 DEF UpdateRow
    <2>2. \A t, o : ~Coins(i, t, o)
      BY Zenon, <1>7 DEF Coins
    <2>3. PoolInv'
      BY Zenon, <1>5, <2>1, <2>2, RecordKept DEF PoolInv
    <2>4. Change(w.row).mode = "UPDATE"
      BY Zenon, <1>7
    <2> HIDE DEF w, c, s
    <2>5. RefsTranslated'
      BY Zenon, <1>6, <2>1, <2>4, DenotesKept DEF RefsTranslated
    <2> QED
      BY Zenon, <2>3, <2>5
  <1>8. CASE /\ InsertRow(i, s, s) /\ c.mode = "INSERT"
             /\ \A t \in RefersTo[s] : Translatable(t, c.refs[t])
    <2> DEFINE id == top[s] + 1
    <2>0. PICK w : w = [row |-> i, table |-> s, id |-> id,
                        refs |-> [t \in RefersTo[s] |-> Translation(t, c.refs[t])]]
      BY Zenon
    <2>1. /\ written' = written \cup {w}
          /\ pool' = IF s \in Inventors THEN Put(s, c.key, id) ELSE pool
      BY Zenon, <1>8, <2>0 DEF InsertRow
    <2>2. ASSUME NEW t \in RefersTo[s]
          PROVE  Denotes(w, t)'
      <3>1. t \in Tables /\ c.refs[t] \in Ids /\ Translatable(t, c.refs[t])
        BY Zenon, <1>3, <1>4, <1>8
      <3>2. w.row \in Current /\ Change(w.row) = c
            /\ w.refs[t] = Translation(t, c.refs[t])
        BY Zenon, <2>0
      <3> QED
        BY Zenon, <2>1, <3>1, <3>2, TranslationDenotes
    <2>3. w.table = s /\ w.id = id /\ w.row = i
      BY Zenon, <2>0
    <2>4. pool \in [Tables -> [Ids -> PoolRecord \cup {Absent}]]
      BY Zenon DEF TypeInv, TypeOK
    <2>5. top[s] \in Nat
      BY Zenon, <1>3 DEF TypeInv, TypeOK
    <2>6. RefsTranslated'
      BY Zenon, <1>6, <2>1, <2>2, <2>3, DenotesKept DEF RefsTranslated
    <2>7. ASSUME NEW t \in Tables, NEW o \in Ids, Coins(i, t, o)
          PROVE  RecordOK(t, o)'
      <3>1. t = s /\ o = c.key /\ s \in Inventors
        BY Zenon, <2>7 DEF Coins
      <3>2. pool'[t][o] = [cell |-> id, linked |-> TRUE]
        BY Zenon, <2>1, <2>4, <3>1 DEF Put
      <3>3. pool'[t][o] # Absent /\ pool'[t][o].linked /\ pool'[t][o].cell = w.id
        <4>1. id \in Nat
          BY <2>5
        <4> HIDE DEF id
        <4>2. [cell |-> id, linked |-> TRUE] \in [cell : Nat \cup {Blank}, linked : BOOLEAN]
          BY Zenon, <4>1
        <4>3. [cell |-> id, linked |-> TRUE] # Absent
          BY Zenon, <4>2, ConstantsOK
        <4> QED
          BY <2>3, <3>2, <4>3
      <3>4. \A j \in Known : rows[j].patch <= rows[w.row].patch
        BY Zenon, <1>1, <1>5, <2>3 DEF PatchInv
      <3>5. LinkedTo(t, o, w)'
        BY Zenon, <1>5, <2>3, <2>7, <3>1, <3>3, <3>4, SameCoins DEF LinkedTo
      <3> QED
        BY Zenon, <2>1, <3>3, <3>5 DEF RecordOK
    <2>8. ASSUME NEW t \in Tables, NEW o \in Ids, ~Coins(i, t, o)
          PROVE  RecordOK(t, o)'
      <3>1. pool'[t][o] = pool[t][o]
        BY Zenon, <1>3, <1>8, <2>1, <2>4, <2>8 DEF Coins, Put
      <3> QED
        BY Zenon, <1>5, <2>1, <2>8, <3>1, RecordKept DEF PoolInv
    <2> QED
      BY Zenon, <2>6, <2>7, <2>8 DEF PoolInv
  <1>9. CASE /\ InsertRow(i, s, s) /\ c.mode = "INSERT"
             /\ ~ \A t \in RefersTo[s] : Translatable(t, c.refs[t])
    <2>1. /\ deferred' = Append(deferred, [sheet |-> s, row |-> i])
          /\ UNCHANGED <<written, top, pool>>
      BY Zenon, <1>9 DEF InsertRow
    <2>2. i \in RowsOf(deferred)'
      <3>1. deferred \in Seq(DeferredRow)
        BY Zenon DEF TypeInv, TypeOK
      <3>2. deferred' # deferred
        BY <2>1, <3>1
      <3> QED
        BY Zenon, <3>2, DeferredGrows DEF TypeInv
    <2>3. PoolInv'
      BY Zenon, <1>5, <2>1, <2>2, RecordKept DEF PoolInv
    <2>4. RefsTranslated'
      BY Zenon, <1>6, <2>1, DenotesKept DEF RefsTranslated
    <2> QED
      BY Zenon, <2>3, <2>4
  <1> QED
    BY Zenon, <1>4, <1>7, <1>8, <1>9 DEF ChangeRow

(* Emitting a row: changeRow is called for a row of the patch with the     *)
(* sheet of its table, and every other pending row stays pending.          *)
LEMMA EmitRowStep ==
  ASSUME AllPresent, TypeInv, PatchInv, EmitRow
  PROVE  /\ at \in Current /\ pc = "emit" /\ at' = at + 1
         /\ UNCHANGED <<rows, first, patch, units, pc, pass, cp, len, prevLen, stored>>
         /\ sheet' = sheetName' /\ sheet' = Change(at).table
         /\ ChangeRow(at, Change(at).table, Change(at).table)
         /\ at \in ToEmit /\ ToEmit \ {at} \subseteq ToEmit'
  <1>1. /\ pc = "emit" /\ pass <= Len(Passes) /\ at <= Len(rows) /\ at' = at + 1
        /\ Change(at).table \in Passes[pass]
        /\ UNCHANGED <<rows, first, patch, units, pc, pass, cp, len, prevLen, stored>>
        /\ ChangeRow(at, sheet', sheetName')
    BY Zenon DEF EmitRow, Emitting, patchVars, deferVars
  <1>2. /\ sheet' = SheetAfter(Change(at).table) /\ Change(at).table \in Tables
        /\ sheet' # NoSheet => sheet' = Change(at).table /\ sheetName' = sheet'
    BY Zenon, EmitRowSheets
  <1>3. sheet' = Change(at).table /\ sheetName' = sheet'
    BY Zenon, <1>2, ConstantsOK DEF AllPresent, SheetAfter
  <1>4. /\ at \in Nat /\ first \in Nat /\ Len(rows) \in Nat /\ pass \in Nat
        /\ first <= at /\ Len(Passes) \in Nat
    BY PassesCover DEF TypeInv, TypeOK, PatchInv
  <1>5. at \in Current
    BY <1>1, <1>4 DEF Current
  <1>6. at \in ToEmit
    BY <1>1, <1>4, <1>5 DEF ToEmit
  <1>7. ASSUME NEW j \in ToEmit, j # at
        PROVE  j \in ToEmit'
    <2>1. j \in Nat /\ j \in Current'
      BY <1>1, <1>4 DEF ToEmit, Current
    <2>2. PICK p \in pass .. Len(Passes) : Change(j).table \in Passes[p] /\ (p = pass => at <= j)
      BY Zenon DEF ToEmit
    <2>3. p = pass' => at' <= j
      BY <1>1, <1>4, <1>7, <2>1, <2>2
    <2>4. Change(j)' = Change(j)
      BY Zenon, <1>1 DEF Change
    <2> QED
      BY Zenon, <1>1, <2>1, <2>2, <2>3, <2>4 DEF ToEmit, Passes, Desired
  <1> QED
    BY Zenon, <1>1, <1>3, <1>5, <1>6, <1>7

(* So it is when a deferred row is replayed.                               *)
LEMMA ReplayRowStep ==
  ASSUME AllPresent, TypeInv, PatchInv, LoopInv, ReplayRow, NEW i, i = Head(cp).row
  PROVE  /\ i \in Current /\ pc = "replay"
         /\ UNCHANGED <<rows, first, patch, units, pc, pass, at, len, prevLen, stored>>
         /\ sheet' = sheetName' /\ sheet' = Change(i).table
         /\ ChangeRow(i, Change(i).table, Change(i).table)
         /\ cp \in Seq(DeferredRow) /\ cp # <<>> /\ cp' = Tail(cp)
         /\ Len(cp) \in Nat /\ Len(cp') = Len(cp) - 1
         /\ i = cp[1].row /\ 1 \in 1 .. Len(cp)
         /\ \A k \in 1 .. Len(cp') : cp'[k] = cp[k + 1] /\ k + 1 \in 1 .. Len(cp)
         /\ RowsOf(cp) = RowsOf(cp)' \cup {i}
  <1>1. /\ pc = "replay" /\ cp # <<>> /\ cp' = Tail(cp)
        /\ UNCHANGED <<rows, first, patch, units, pc, pass, at, len, prevLen, stored>>
        /\ ChangeRow(i, sheet', sheetName')
    BY Zenon DEF ReplayRow, patchVars, emitVars
  <1>2. cp \in Seq(DeferredRow)
    BY Zenon DEF TypeInv, TypeOK
  <1>3. /\ Len(cp) \in Nat /\ Len(cp') = Len(cp) - 1 /\ Head(cp) = cp[1] /\ 1 \in 1 .. Len(cp)
        /\ \A k \in 1 .. Len(cp') : cp'[k] = cp[k + 1] /\ k + 1 \in 1 .. Len(cp)
    BY <1>1, <1>2
  <1>4. i \in RowsOf(cp)
    BY Zenon, <1>3 DEF RowsOf
  <1>5. i \in Current
    BY Zenon, <1>4 DEF PatchInv
  <1>6. Head(cp).sheet = Change(i).table
    BY Zenon, <1>3 DEF TypeInv, Waiting
  <1>7. Change(i).table \in Tables
    <2>1. i \in 1 .. Len(rows)
      BY Zenon, <1>3 DEF TypeInv, Waiting
    <2> QED
      BY Zenon, <2>1, RowType, ChangeType DEF TypeInv
  <1>8. sheet' = Change(i).table /\ sheetName' = Change(i).table
    BY Zenon, <1>6, <1>7 DEF ReplayRow, AllPresent, SheetAfter, NameAfter, LoopInv
  <1>9. RowsOf(cp) = RowsOf(cp)' \cup {i}
    <2>1. RowsOf(cp)' \subseteq RowsOf(cp)
      BY Zenon, <1>3 DEF RowsOf
    <2>2. ASSUME NEW k \in 1 .. Len(cp)
          PROVE  cp[k].row \in RowsOf(cp)' \cup {i}
      <3>1. CASE k = 1
        BY Zenon, <1>3, <3>1
      <3>2. CASE k # 1
        <4>1. k - 1 \in 1 .. Len(cp') /\ (k - 1) + 1 = k
          BY <1>3, <3>2
        <4>2. cp'[k - 1] = cp[k]
          BY Zenon, <1>3, <4>1
        <4> QED
          BY Zenon, <4>1, <4>2 DEF RowsOf
      <3> QED
        BY Zenon, <3>1, <3>2
    <2> QED
      BY Zenon, <1>4, <2>1, <2>2 DEF RowsOf
  <1> QED
    BY Zenon, <1>1, <1>2, <1>3, <1>5, <1>8, <1>9

LEMMA EmitRowRefs ==
  ASSUME AllPresent, TypeInv, RefsInv, EmitRow
  PROVE  RefsInv'
  <1>1. PatchInv /\ LoopInv /\ PoolInv /\ FileInv /\ RefsTranslated
    BY Zenon DEF RefsInv
  <1>2. /\ at \in Current /\ pc = "emit" /\ at' = at + 1
        /\ UNCHANGED <<rows, first, patch, units, pc, pass, cp, len, prevLen, stored>>
        /\ sheet' = sheetName'
        /\ ChangeRow(at, Change(at).table, Change(at).table)
        /\ ToEmit \ {at} \subseteq ToEmit'
    BY Zenon, <1>1, EmitRowStep
  <1>3. /\ RowsOf(deferred) \subseteq RowsOf(deferred)'
        /\ RowsOf(deferred)' \subseteq RowsOf(deferred) \cup {at}
    BY Zenon, <1>2, DeferredGrows DEF TypeInv
  <1>4. RowsOf(cp)' = RowsOf(cp)
    BY Zenon, <1>2 DEF RowsOf
  <1>5. PoolInv' /\ RefsTranslated'
    <2>1. Pending \ {at} \subseteq Pending' /\ RowsOf(deferred)' \subseteq Pending'
      BY Zenon, <1>2, <1>3, <1>4 DEF Pending
    <2> QED
      BY Zenon, <1>1, <1>2, <2>1, RowHandled
  <1>6. PatchInv'
    <2>1. Current' = Current /\ \A i : Change(i)' = Change(i)
      BY Zenon, <1>2 DEF Current, Change
    <2>2. first' <= at'
      BY <1>1, <1>2 DEF PatchInv, TypeInv, TypeOK
    <2> QED
      BY Zenon, <1>1, <1>2, <1>3, <1>4, <2>1, <2>2 DEF PatchInv, IsActiveTable, Desired
  <1>7. LoopInv'
    BY Zenon, <1>1, <1>2 DEF LoopInv
  <1>8. FileInv'
    BY Zenon, <1>1, <1>2 DEF FileInv, NoPlaceholderStored
  <1> QED
    BY Zenon, <1>5, <1>6, <1>7, <1>8 DEF RefsInv

LEMMA ReplayRowRefs ==
  ASSUME AllPresent, TypeInv, RefsInv, ReplayRow
  PROVE  RefsInv'
  <1>1. PatchInv /\ LoopInv /\ PoolInv /\ FileInv /\ RefsTranslated
    BY Zenon DEF RefsInv
  <1> PICK i : i = Head(cp).row
    OBVIOUS
  <1>2. /\ i \in Current /\ pc = "replay"
        /\ UNCHANGED <<rows, first, patch, units, pc, pass, at, len, prevLen, stored>>
        /\ sheet' = sheetName'
        /\ ChangeRow(i, Change(i).table, Change(i).table)
        /\ Len(cp) \in Nat /\ Len(cp') = Len(cp) - 1
        /\ RowsOf(cp) = RowsOf(cp)' \cup {i}
    BY Zenon, <1>1, ReplayRowStep
  <1>3. /\ RowsOf(deferred) \subseteq RowsOf(deferred)'
        /\ RowsOf(deferred)' \subseteq RowsOf(deferred) \cup {i}
        /\ deferred' # deferred => Len(deferred') = Len(deferred) + 1
    BY Zenon, <1>2, DeferredGrows DEF TypeInv
  <1>4. PoolInv' /\ RefsTranslated'
    <2>1. ToEmit = {}
      BY Zenon, <1>2 DEF ToEmit
    <2>2. Pending \ {i} \subseteq Pending' /\ RowsOf(deferred)' \subseteq Pending'
      BY Zenon, <1>2, <1>3, <2>1 DEF Pending
    <2> QED
      BY Zenon, <1>1, <1>2, <2>2, RowHandled
  <1>5. PatchInv'
    <2>1. Current' = Current /\ \A j : Change(j)' = Change(j)
      BY Zenon, <1>2 DEF Current, Change
    <2> QED
      BY Zenon, <1>1, <1>2, <1>3, <2>1 DEF PatchInv, IsActiveTable, Desired
  <1>6. LoopInv'
    <2>1. Len(deferred) \in Nat /\ len \in Int
      BY DEF TypeInv, TypeOK
    <2> QED
      BY <1>1, <1>2, <1>3, <2>1 DEF LoopInv
  <1>7. FileInv'
    BY Zenon, <1>1, <1>2 DEF FileInv, NoPlaceholderStored
  <1> QED
    BY Zenon, <1>4, <1>5, <1>6, <1>7 DEF RefsInv

(* A step that touches neither rows nor pool nor target keeps what the     *)
(* pool says, if no row is forgotten.                                      *)
LEMMA QuietRefs ==
  ASSUME PoolInv, RefsTranslated, UNCHANGED <<rows, pool, written>>,
         Known' = Known, Pending \subseteq Pending'
  PROVE  PoolInv' /\ RefsTranslated'
  <1>1. PoolInv'
    BY Zenon, RecordKept DEF PoolInv
  <1>2. \A w : Change(w.row)' = Change(w.row)
    BY Zenon DEF Change
  <1>3. RefsTranslated'
    BY Zenon, <1>2, DenotesKept DEF RefsTranslated
  <1> QED
    BY Zenon, <1>1, <1>3

(* And what is known of the patch, if the deferred rows stay where they    *)
(* are or are moved to the copy.                                           *)
LEMMA QuietPatch ==
  ASSUME TypeInv, PatchInv, UNCHANGED <<rows, first, patch>>, first <= at',
         RowsOf(deferred)' \subseteq RowsOf(deferred),
         RowsOf(cp)' \subseteq RowsOf(deferred) \cup RowsOf(cp)
  PROVE  PatchInv'
  <1>1. Current' = Current /\ \A i : Change(i)' = Change(i)
    BY Zenon DEF Current, Change
  <1> QED
    BY Zenon, <1>1 DEF PatchInv, IsActiveTable, Desired

(* A row of another table than the loop's is left to a later loop.         *)
LEMMA SkipRowStep ==
  ASSUME TypeInv, SkipRow
  PROVE  /\ at' = at + 1 /\ pc = "emit" /\ ToEmit' = ToEmit
         /\ UNCHANGED <<rows, first, patch, units, pc, pass, cp, len, prevLen,
                        sheet, sheetName, deferred, pool, top, written, stored>>
  <1>1. /\ pc = "emit" /\ at' = at + 1 /\ Change(at).table \notin Passes[pass]
        /\ UNCHANGED <<rows, first, patch, units, pc, pass, cp, len, prevLen,
                       sheet, sheetName, deferred, pool, top, written, stored>>
    BY Zenon DEF SkipRow, Emitting, patchVars, deferVars, sheetVars, targetVars
  <1>2. at \in Nat /\ first \in Nat /\ Len(rows) \in Nat /\ pass \in Nat /\ Len(Passes) \in Nat
    BY PassesCover DEF TypeInv, TypeOK
  <1>3. Current' = Current /\ (\A j : Change(j)' = Change(j)) /\ Current \subseteq Nat
    BY <1>1, <1>2 DEF Current, Change
  <1>4. ASSUME NEW j \in ToEmit
        PROVE  j \in ToEmit'
    <2>1. PICK p \in pass .. Len(Passes) :
            Change(j).table \in Passes[p] /\ (p = pass => at <= j)
      BY Zenon DEF ToEmit
    <2>2. j \in Current /\ j \in Nat
      BY Zenon, <1>3 DEF ToEmit
    <2>3. p = pass => at + 1 <= j
      BY <1>1, <1>2, <2>1, <2>2
    <2> QED
      BY Zenon, <1>1, <1>3, <2>1, <2>2, <2>3 DEF ToEmit, Passes, Desired
  <1>5. ASSUME NEW j \in ToEmit'
        PROVE  j \in ToEmit
    <2>1. PICK p \in pass .. Len(Passes) :
            Change(j).table \in Passes[p] /\ (p = pass => at + 1 <= j)
      BY Zenon, <1>1, <1>3 DEF ToEmit, Passes, Desired
    <2>2. j \in Current /\ j \in Nat
      BY Zenon, <1>3 DEF ToEmit
    <2>3. p = pass => at <= j
      BY <1>2, <2>1, <2>2
    <2> QED
      BY Zenon, <1>1, <2>1, <2>2, <2>3 DEF ToEmit
  <1> QED
    BY Zenon, <1>1, <1>4, <1>5

LEMMA SkipRowRefs ==
  ASSUME TypeInv, RefsInv, SkipRow
  PROVE  RefsInv'
  <1>1. PatchInv /\ LoopInv /\ PoolInv /\ FileInv /\ RefsTranslated
    BY Zenon DEF RefsInv
  <1>2. /\ at' = at + 1 /\ pc = "emit" /\ ToEmit' = ToEmit
        /\ UNCHANGED <<rows, first, patch, units, pc, pass, cp, len, prevLen,
                       sheet, sheetName, deferred, pool, top, written, stored>>
    BY Zenon, SkipRowStep
  <1>3. PoolInv' /\ RefsTranslated'
    BY Zenon, <1>1, <1>2, QuietRefs DEF Known, Pending, RowsOf
  <1>4. PatchInv'
    <2>1. first <= at'
      BY <1>1, <1>2 DEF PatchInv, TypeInv, TypeOK
    <2> QED
      BY Zenon, <1>1, <1>2, <2>1, QuietPatch DEF RowsOf
  <1>5. LoopInv' /\ FileInv'
    BY Zenon, <1>1, <1>2 DEF LoopInv, FileInv, NoPlaceholderStored
  <1> QED
    BY Zenon, <1>3, <1>4, <1>5 DEF RefsInv

(* At the end of a loop, what is left to emit is left to later loops.      *)
LEMMA NextPassStep ==
  ASSUME TypeInv, PatchInv, NextPass
  PROVE  /\ pc = "emit" /\ pc' \in {"emit", "pass"} /\ at' = first /\ ToEmit' = ToEmit
         /\ UNCHANGED <<rows, first, patch, units, cp, len, prevLen,
                        sheet, sheetName, deferred, pool, top, written, stored>>
  <1>1. /\ pc = "emit" /\ at > Len(rows) /\ pass <= Len(Passes)
        /\ pass' = pass + 1 /\ at' = first
        /\ pc' = IF pass = Len(Passes) THEN "pass" ELSE "emit"
        /\ UNCHANGED <<rows, first, patch, units, cp, len, prevLen,
                       sheet, sheetName, deferred, pool, top, written, stored>>
    BY Zenon DEF NextPass, Emitting, patchVars, deferVars, sheetVars, targetVars
  <1>2. at \in Nat /\ first \in Nat /\ Len(rows) \in Nat /\ pass \in Nat /\ Len(Passes) \in Nat
    BY PassesCover DEF TypeInv, TypeOK
  <1>3. Current' = Current /\ (\A j : Change(j)' = Change(j)) /\ Current \subseteq Nat
    BY <1>1, <1>2 DEF Current, Change
  <1>4. ASSUME NEW j \in ToEmit
        PROVE  j \in ToEmit'
    <2>1. PICK p \in pass .. Len(Passes) :
            Change(j).table \in Passes[p] /\ (p = pass => at <= j)
      BY Zenon DEF ToEmit
    <2>2. j \in Current /\ j \in Nat /\ j <= Len(rows) /\ first <= j
      BY <1>2, <1>3 DEF ToEmit, Current
    <2>3. p \in pass' .. Len(Passes) /\ at' <= j /\ pc' = "emit"
      BY <1>1, <1>2, <2>1, <2>2
    <2> QED
      BY Zenon, <1>3, <2>1, <2>2, <2>3 DEF ToEmit, Passes, Desired
  <1>5. ASSUME NEW j \in ToEmit'
        PROVE  j \in ToEmit
    <2>1. PICK p \in pass + 1 .. Len(Passes) : Change(j).table \in Passes[p]
      BY Zenon, <1>1, <1>3 DEF ToEmit, Passes, Desired
    <2>2. p \in pass .. Len(Passes) /\ p # pass /\ j \in Current
      BY <1>2, <1>3 DEF ToEmit
    <2> QED
      BY Zenon, <1>1, <2>1, <2>2 DEF ToEmit
  <1> QED
    BY Zenon, <1>1, <1>4, <1>5

LEMMA NextPassRefs ==
  ASSUME TypeInv, RefsInv, NextPass
  PROVE  RefsInv'
  <1>1. PatchInv /\ LoopInv /\ PoolInv /\ FileInv /\ RefsTranslated
    BY Zenon DEF RefsInv
  <1>2. /\ pc = "emit" /\ pc' \in {"emit", "pass"} /\ at' = first /\ ToEmit' = ToEmit
        /\ UNCHANGED <<rows, first, patch, units, cp, len, prevLen,
                       sheet, sheetName, deferred, pool, top, written, stored>>
    BY Zenon, <1>1, NextPassStep
  <1>3. PoolInv' /\ RefsTranslated'
    BY Zenon, <1>1, <1>2, QuietRefs DEF Known, Pending, RowsOf
  <1>4. PatchInv'
    <2>1. first <= at'
      BY <1>2 DEF TypeInv, TypeOK
    <2> QED
      BY Zenon, <1>1, <1>2, <2>1, QuietPatch DEF RowsOf
  <1>5. LoopInv' /\ FileInv'
    BY Zenon, <1>1, <1>2 DEF LoopInv, FileInv, NoPlaceholderStored
  <1> QED
    BY Zenon, <1>3, <1>4, <1>5 DEF RefsInv

LEMMA StartPassRefs ==
  ASSUME TypeInv, RefsInv, StartPass
  PROVE  RefsInv'
  <1>1. PatchInv /\ LoopInv /\ PoolInv /\ FileInv /\ RefsTranslated
    BY Zenon DEF RefsInv
  <1>2. /\ pc = "pass" /\ pc' = "replay" /\ len' = Len(deferred)
        /\ cp' = deferred /\ deferred' = <<>>
        /\ UNCHANGED <<rows, first, patch, at, sheet, sheetName, pool, written, stored>>
    BY Zenon DEF StartPass, patchVars, emitVars, sheetVars
  <1>3. cp = <<>> /\ Len(deferred) \in Nat
    BY <1>1, <1>2 DEF LoopInv, TypeInv, TypeOK
  <1>4. RowsOf(deferred)' = {} /\ RowsOf(cp)' = RowsOf(deferred) /\ RowsOf(cp) = {}
    BY <1>2, <1>3 DEF RowsOf
  <1>5. PoolInv' /\ RefsTranslated'
    BY Zenon, <1>1, <1>2, <1>4, QuietRefs DEF Known, Pending, ToEmit
  <1>6. PatchInv'
    BY Zenon, <1>1, <1>2, <1>4, QuietPatch DEF PatchInv
  <1>7. LoopInv' /\ FileInv'
    BY <1>1, <1>2, <1>3 DEF LoopInv, FileInv, NoPlaceholderStored
  <1> QED
    BY Zenon, <1>5, <1>6, <1>7 DEF RefsInv

(* mergeDone ends its loop with rows left only if it gives up.             *)
LEMMA EndPassRefs ==
  ASSUME TypeInv, RefsInv, EndPass
  PROVE  RefsInv'
  <1>1. PatchInv /\ LoopInv /\ PoolInv /\ FileInv /\ RefsTranslated
    BY Zenon DEF RefsInv
  <1>2. /\ pc = "replay" /\ cp = <<>> /\ pc' \in {"pass", "exit", "save"}
        /\ pc' = "save" => len <= 0
        /\ UNCHANGED <<rows, first, patch, pass, at, sheet, sheetName, cp, len, deferred,
                       pool, written, stored>>
    BY Zenon DEF EndPass, patchVars, emitVars, deferVars, sheetVars, targetVars
  <1>3. pc' = "save" => deferred = <<>>
    <2>1. deferred \in Seq(DeferredRow) /\ len \in Int /\ Len(cp) = 0
      BY Zenon, <1>2 DEF TypeInv, TypeOK
    <2> QED
      BY <1>1, <1>2, <2>1 DEF LoopInv
  <1>4. Pending \subseteq Pending'
    BY Zenon, <1>2 DEF Pending, ToEmit, RowsOf
  <1>5. PoolInv' /\ RefsTranslated'
    BY Zenon, <1>1, <1>2, <1>4, QuietRefs DEF Known
  <1>6. PatchInv'
    BY Zenon, <1>1, <1>2, QuietPatch DEF PatchInv, RowsOf
  <1>7. LoopInv' /\ FileInv'
    BY Zenon, <1>1, <1>2, <1>3 DEF LoopInv, FileInv, NoPlaceholderStored
  <1> QED
    BY Zenon, <1>5, <1>6, <1>7 DEF RefsInv

(* Once the loop has ended, no placeholder is left in the pool, so that    *)
(* saving and loading it gives it back.                                    *)
LEMMA NoPlaceholderLeft ==
  ASSUME TypeInv, RefsInv, pc \in {"save", "done"}
  PROVE  /\ \A t \in Tables, o \in Ids :
              pool[t][o] # Absent => pool[t][o].linked /\ pool[t][o].cell \in Nat
         /\ Load(Save(pool)) = pool
         /\ \A t \in Tables, o \in Ids : Save(pool)[t][o] # Blank
  <1>1. Pending = {}
    BY DEF RefsInv, LoopInv, Pending, ToEmit, RowsOf
  <1>2. ASSUME NEW t \in Tables, NEW o \in Ids, pool[t][o] # Absent
        PROVE  pool[t][o].linked /\ pool[t][o].cell \in Nat
    <2>1. RecordOK(t, o)
      BY Zenon DEF RefsInv, PoolInv
    <2>2. pool[t][o].linked
      BY Zenon, <1>1, <1>2, <2>1 DEF RecordOK
    <2>3. PICK v \in written : LinkedTo(t, o, v)
      BY Zenon, <1>2, <2>1, <2>2 DEF RecordOK
    <2>4. v.id \in Nat
      BY Zenon DEF TypeInv, TypeOK, WrittenOK, WrittenRow
    <2> QED
      BY Zenon, <2>2, <2>3, <2>4 DEF LinkedTo
  <1>3. pool \in [Tables -> [Ids -> PoolRecord \cup {Absent}]]
    BY Zenon DEF TypeInv, TypeOK
  <1>4. Absent \notin Nat /\ Blank \notin Nat /\ Absent # Blank
    BY Zenon, ConstantsOK
  <1>5. ASSUME NEW t \in Tables, NEW o \in Ids
        PROVE  /\ Save(pool)[t][o] # Blank
               /\ Load(Save(pool))[t][o] = pool[t][o]
    <2>1. CASE pool[t][o] = Absent
      BY Zenon, <1>4, <2>1 DEF Save, Load
    <2>2. CASE pool[t][o] # Absent
      <3>1. pool[t][o] \in PoolRecord /\ pool[t][o].linked /\ pool[t][o].cell \in Nat
        BY Zenon, <1>2, <1>3, <2>2
      <3>2. pool[t][o] = [cell |-> pool[t][o].cell, linked |-> TRUE]
        BY Zenon, <3>1 DEF PoolRecord
      <3>3. Save(pool)[t][o] = pool[t][o].cell
        BY Zenon, <2>2 DEF Save
      <3>4. Load(Save(pool))[t][o] = [cell |-> pool[t][o].cell, linked |-> TRUE]
        BY Zenon, <1>4, <3>1, <3>3 DEF Load
      <3> QED
        BY Zenon, <1>4, <3>1, <3>2, <3>3, <3>4
    <2> QED
      BY Zenon, <2>1, <2>2
  <1>6. Load(Save(pool)) \in [Tables -> [Ids -> PoolRecord \cup {Absent}]]
    BY Zenon, <1>3, SaveType, LoadType
  <1>7. \A t \in Tables : Load(Save(pool))[t] = pool[t]
    BY <1>3, <1>5, <1>6
  <1>8. Load(Save(pool)) = pool
    BY <1>3, <1>6, <1>7
  <1> QED
    BY Zenon, <1>2, <1>5, <1>8

LEMMA SavePoolRefs ==
  ASSUME TypeInv, RefsInv, SavePool
  PROVE  RefsInv'
  <1>1. PatchInv /\ LoopInv /\ PoolInv /\ FileInv /\ RefsTranslated
    BY Zenon DEF RefsInv
  <1>2. /\ pc = "save" /\ pc' = "done" /\ stored' = Save(pool)
        /\ UNCHANGED <<rows, first, patch, pass, at, sheet, sheetName, cp, len, deferred,
                       pool, written>>
    BY Zenon DEF SavePool, patchVars, emitVars, deferVars, sheetVars, targetVars
  <1>3. PoolInv' /\ RefsTranslated'
    BY Zenon, <1>1, <1>2, QuietRefs DEF Known, Pending, ToEmit, RowsOf
  <1>4. PatchInv'
    BY Zenon, <1>1, <1>2, QuietPatch DEF PatchInv, RowsOf
  <1>5. LoopInv'
    BY Zenon, <1>1, <1>2 DEF LoopInv
  <1>6. FileInv'
    <2>1. \A t \in Tables, o \in Ids : Save(pool)[t][o] # Blank
      BY Zenon, <1>2, NoPlaceholderLeft
    <2> QED
      BY Zenon, <1>2, <2>1 DEF FileInv, NoPlaceholderStored
  <1> QED
    BY Zenon, <1>3, <1>4, <1>5, <1>6 DEF RefsInv

LEMMA NextPatchRefs ==
  ASSUME TypeInv, RefsInv, NextPatch
  PROVE  RefsInv'
  <1>1. PatchInv /\ LoopInv /\ PoolInv /\ FileInv /\ RefsTranslated
    BY Zenon DEF RefsInv
  <1>2. /\ pc = "done" /\ pc' = "buffer" /\ first' = Len(rows) + 1 /\ at' = Len(rows) + 1
        /\ patch' = patch + 1 /\ pass' = 1 /\ deferred' = <<>> /\ cp' = <<>>
        /\ sheet' = NoSheet /\ sheetName' = NoSheet /\ pool' = Load(stored)
        /\ UNCHANGED <<rows, stored, written>>
    BY Zenon DEF NextPatch
  <1>3. pool' = pool
    BY Zenon, <1>1, <1>2, NoPlaceholderLeft DEF FileInv
  <1>4. Len(rows) \in Nat /\ patch \in Nat /\ rows \in Seq(Row)
    BY DEF TypeInv, TypeOK
  <1>5. Known' = Known
    BY <1>2, <1>4 DEF Known
  <1>6. Pending = {}
    BY <1>1, <1>2 DEF LoopInv, Pending, ToEmit, RowsOf
  <1>7. PoolInv' /\ RefsTranslated'
    BY Zenon, <1>1, <1>2, <1>3, <1>5, <1>6, QuietRefs
  <1>8. PatchInv'
    <2>1. Current' = {} /\ RowsOf(deferred)' = {} /\ RowsOf(cp)' = {}
      BY <1>2, <1>4 DEF Current, RowsOf
    <2>2. ASSUME NEW i \in 1 .. Len(rows)
          PROVE  rows[i].patch <= patch' /\ (rows[i].patch = patch' <=> first' <= i)
      <3>1. rows[i].patch \in Nat /\ rows[i].patch <= patch
        <4>1. rows[i] \in Row
          BY <1>4
        <4> QED
          BY Zenon, <1>1, <4>1 DEF PatchInv, Row
      <3> QED
        BY <1>2, <1>4, <3>1
    <2> QED
      BY <1>2, <1>4, <2>1, <2>2 DEF PatchInv
  <1>9. LoopInv'
    <2>1. \A w \in written : w.row < first'
      BY <1>2, <1>4 DEF TypeInv, TargetInv
    <2> QED
      BY Zenon, <1>2, <2>1 DEF LoopInv
  <1>10. FileInv'
    BY Zenon, <1>1, <1>2 DEF FileInv, NoPlaceholderStored
  <1> QED
    BY Zenon, <1>7, <1>8, <1>9, <1>10 DEF RefsInv

(* After the prescan every row of the patch is to be emitted.              *)
LEMMA PrescanStep ==
  ASSUME TypeInv, PatchInv, LoopInv, Prescan
  PROVE  Current \subseteq ToEmit'
  <1>1. pc = "buffer" /\ pc' = "emit" /\ UNCHANGED <<rows, first, pass, at>>
    BY Zenon DEF Prescan, emitVars
  <1>2. Len(rows) \in Nat /\ first \in Nat \ {0} /\ pass = 1 /\ at = first
    BY <1>1 DEF LoopInv, TypeInv, TypeOK
  <1>3. SUFFICES ASSUME NEW i \in Current PROVE i \in ToEmit'
    OBVIOUS
  <1>4. i \in 1 .. Len(rows)
    BY <1>2 DEF Current
  <1>5. Change(i).table \in Tables /\ IsActiveTable(Change(i).table)
    BY Zenon, <1>4, RowType, ChangeType DEF PatchInv, TypeInv
  <1>6. PICK p \in 1 .. Len(Passes) : Change(i).table \in Passes[p]
    BY Zenon, <1>5, PassesCover
  <1>7. p \in pass' .. Len(Passes) /\ at' <= i /\ i \in Current'
    BY <1>1, <1>2 DEF Current
  <1>8. Change(i)' = Change(i)
    BY Zenon, <1>1 DEF Change
  <1> QED
    BY Zenon, <1>1, <1>6, <1>7, <1>8 DEF ToEmit, Passes, Desired

(* The prescan leaves a placeholder only where a row to be emitted will    *)
(* replace it.                                                             *)
LEMMA PrescanRefs ==
  ASSUME AllPresent, TypeInv, RefsInv, Prescan
  PROVE  RefsInv'
  <1>1. PatchInv /\ LoopInv /\ PoolInv /\ FileInv /\ RefsTranslated
    BY Zenon DEF RefsInv
  <1>2. /\ pc = "buffer" /\ pc' = "emit"
        /\ UNCHANGED <<rows, first, patch, pass, at, lastSheet, cp, len, prevLen,
                       sheet, sheetName, deferred, top, written, stored>>
    BY Zenon DEF Prescan, emitVars, deferVars, sheetVars
  <1>3. /\ Len(rows) \in Nat /\ first \in Nat \ {0} /\ pass = 1 /\ at = first
        /\ first <= Len(rows) + 1
    BY <1>1, <1>2 DEF LoopInv, PatchInv, TypeInv, TypeOK
  <1>4. Known = 1 .. first - 1 /\ Known' = 1 .. Len(rows)
    BY Zenon, <1>2 DEF Known
  <1>5. 1 .. Len(rows) = Known \cup Current
    BY <1>3, <1>4 DEF Current
  <1>6. Current \subseteq ToEmit'
    BY Zenon, <1>1, PrescanStep
  <1>7. PoolInv'
    <2>1. ASSUME NEW t \in Tables, NEW o \in Ids, \E i \in Current : Coins(i, t, o)
          PROVE  RecordOK(t, o)'
      <3>1. pool'[t][o] = [cell |-> Blank, linked |-> FALSE]
        BY Zenon, <2>1 DEF Prescan, AllPresent
      <3>2. pool'[t][o] # Absent
        <4>1. [cell |-> Blank, linked |-> FALSE] \in [cell : Nat \cup {Blank}, linked : BOOLEAN]
          OBVIOUS
        <4>2. [cell |-> Blank, linked |-> FALSE] # Absent
          BY Zenon, <4>1, ConstantsOK
        <4> QED
          BY Zenon, <3>1, <4>2
      <3>3. \E i \in Pending' : Coins(i, t, o)'
        BY Zenon, <1>2, <1>6, <2>1, SameCoins DEF Pending
      <3>4. ~pool'[t][o].linked
        BY SMTT(30), <3>1
      <3> QED
        BY Zenon, <3>2, <3>3, <3>4 DEF RecordOK
    <2>2. ASSUME NEW t \in Tables, NEW o \in Ids, \A i \in Current : ~Coins(i, t, o)
          PROVE  RecordOK(t, o)'
      <3>1. pool'[t][o] = pool[t][o]
        BY Zenon, <2>2 DEF Prescan
      <3>2. RecordOK(t, o)
        BY Zenon, <1>1 DEF PoolInv
      <3>3. CASE pool[t][o] = Absent
        BY Zenon, <1>2, <1>4, <1>5, <2>2, <3>1, <3>2, <3>3, SameCoins DEF RecordOK
      <3>4. CASE pool[t][o] # Absent /\ pool[t][o].linked
        <4>1. PICK v \in written : LinkedTo(t, o, v)
          BY Zenon, <3>2, <3>4 DEF RecordOK
        <4>2. LinkedTo(t, o, v)'
          BY Zenon, <1>2, <1>4, <1>5, <2>2, <3>1, <4>1, SameCoins DEF LinkedTo
        <4> QED
          BY Zenon, <1>2, <3>1, <3>4, <4>2 DEF RecordOK
      <3>5. CASE pool[t][o] # Absent /\ ~pool[t][o].linked
        <4>1. Pending = {}
          BY <1>1, <1>2 DEF LoopInv, Pending, ToEmit, RowsOf
        <4> QED
          BY Zenon, <3>2, <3>5, <4>1 DEF RecordOK
      <3> QED
        BY Zenon, <3>3, <3>4, <3>5
    <2> QED
      BY Zenon, <2>1, <2>2 DEF PoolInv
  <1>8. RefsTranslated'
    <2>1. \A w : Change(w.row)' = Change(w.row)
      BY Zenon, <1>2 DEF Change
    <2> QED
      BY Zenon, <1>1, <1>2, <2>1, DenotesKept DEF RefsTranslated
  <1>9. PatchInv'
    BY Zenon, <1>1, <1>2, QuietPatch DEF PatchInv, RowsOf
  <1>10. LoopInv' /\ FileInv'
    BY Zenon, <1>1, <1>2 DEF LoopInv, FileInv, NoPlaceholderStored
  <1> QED
    BY Zenon, <1>7, <1>8, <1>9, <1>10 DEF RefsInv

(* A row read into the buffer is not known to the pool yet, and no row of  *)
(* its patch has been written.                                             *)
LEMMA FilterChangeRowRefs ==
  ASSUME TypeInv, RefsInv, NEW c \in RowChange, FilterChangeRow(c)
  PROVE  RefsInv'
  <1>1. PatchInv /\ LoopInv /\ PoolInv /\ FileInv /\ RefsTranslated
    BY Zenon DEF RefsInv
  <1> DEFINE r == [patch |-> patch, change |-> c]
  <1>2. /\ pc = "buffer" /\ IsActiveTable(c.table) /\ rows' = Append(rows, r)
        /\ UNCHANGED <<first, patch, pc, pass, at, sheet, sheetName, cp, len, deferred,
                       pool, written, stored>>
    BY Zenon DEF FilterChangeRow, emitVars, deferVars, sheetVars, targetVars
  <1>3. /\ rows \in Seq(Row) /\ first \in Nat \ {0} /\ patch \in Nat /\ Len(rows) \in Nat
        /\ first <= Len(rows) + 1
    BY <1>1 DEF TypeInv, TypeOK, PatchInv
  <1>4. r \in Row /\ r.patch = patch /\ r.change = c
    BY Zenon, <1>3 DEF Row
  <1> HIDE DEF r
  <1>5. /\ Len(rows') = Len(rows) + 1 /\ rows'[Len(rows) + 1] = r
        /\ \A i \in 1 .. Len(rows) : rows'[i] = rows[i]
    BY <1>2, <1>3, <1>4
  <1>6. \A i \in 1 .. Len(rows) : \A t, o : Coins(i, t, o)' <=> Coins(i, t, o)
    BY Zenon, <1>5 DEF Coins, Change
  <1>7. Known' = Known /\ Known \subseteq 1 .. Len(rows)
    BY <1>2, <1>3 DEF Known
  <1>8. Pending = {}
    BY <1>1, <1>2 DEF LoopInv, Pending, ToEmit, RowsOf
  <1>9. PoolInv'
    <2>1. ASSUME NEW t \in Tables, NEW o \in Ids
          PROVE  RecordOK(t, o)'
      <3>1. RecordOK(t, o)
        BY Zenon, <1>1 DEF PoolInv
      <3>2. CASE pool[t][o] = Absent
        BY Zenon, <1>2, <1>6, <1>7, <3>1, <3>2 DEF RecordOK
      <3>3. CASE pool[t][o] # Absent
        <4>1. PICK v \in written : pool[t][o].linked /\ LinkedTo(t, o, v)
          BY Zenon, <1>8, <3>1, <3>3 DEF RecordOK
        <4>2. v.row \in 1 .. Len(rows)
          BY Zenon DEF TypeInv, TargetInv
        <4>3. LinkedTo(t, o, v)'
          BY Zenon, <1>2, <1>5, <1>6, <1>7, <4>1, <4>2 DEF LinkedTo
        <4> QED
          BY Zenon, <1>2, <3>3, <4>1, <4>3 DEF RecordOK
      <3> QED
        BY Zenon, <3>2, <3>3
    <2> QED
      BY Zenon, <2>1 DEF PoolInv
  <1>10. RefsTranslated'
    <2>1. ASSUME NEW w \in written, NEW t
          PROVE  Denotes(w, t) => Denotes(w, t)'
      <3>1. w.row \in 1 .. Len(rows) /\ w.row < first
        BY Zenon, <1>1, <1>2 DEF TypeInv, TargetInv, LoopInv
      <3>2. rows'[w.row] = rows[w.row] /\ Change(w.row)' = Change(w.row)
        BY Zenon, <1>5, <3>1 DEF Change
      <3>3. rows[w.row].patch < patch /\ rows[w.row].patch \in Nat
        <4>1. rows[w.row] \in Row
          BY <1>3, <3>1
        <4>2. rows[w.row].patch \in Nat
          BY Zenon, <4>1 DEF Row
        <4> QED
          BY <1>1, <1>3, <3>1, <4>2 DEF PatchInv
      <3>4. ASSUME NEW o
            PROVE  /\ Coiners(w.row, t, o)' = Coiners(w.row, t, o)
                   /\ \A j \in Coiners(w.row, t, o) : rows'[j] = rows[j]
        <4>1. /\ \A j \in 1 .. Len(rows') : j \in 1 .. Len(rows) \/ j = Len(rows) + 1
              /\ \A j \in 1 .. Len(rows) : j \in 1 .. Len(rows')
          BY <1>3, <1>5
        <4>2. ~(rows'[Len(rows) + 1].patch <= rows'[w.row].patch)
          BY <1>3, <1>4, <1>5, <3>2, <3>3
        <4> QED
          BY Zenon, <1>5, <1>6, <3>2, <4>1, <4>2 DEF Coiners
      <3> SUFFICES ASSUME Denotes(w, t) PROVE Denotes(w, t)'
        OBVIOUS
      <3> DEFINE o == Change(w.row).refs[t]
                 C == Coiners(w.row, t, o)
      <3>5. Coiners(w.row, t, Change(w.row).refs[t])' = C
        BY Zenon, <3>2, <3>4
      <3>6. CASE C = {}
        BY Zenon, <3>2, <3>5, <3>6 DEF Denotes
      <3>7. CASE C # {}
        <4>1. PICK v \in written : /\ v.row \in C /\ v.table = t
                                   /\ \A j \in C : rows[j].patch <= rows[v.row].patch
                                   /\ w.refs[t] = v.id
          BY Zenon, <3>7 DEF Denotes
        <4>2. \A j \in C : rows'[j].patch <= rows'[v.row].patch
          BY Zenon, <3>4, <4>1
        <4> HIDE DEF C
        <4> QED
          BY Zenon, <1>2, <3>5, <3>7, <4>1, <4>2 DEF Denotes
      <3> QED
        BY Zenon, <3>6, <3>7
    <2>2. \A w \in written : Change(w.row)' = Change(w.row)
      BY Zenon, <1>5 DEF TypeInv, TargetInv, Change
    <2> QED
      BY Zenon, <1>1, <1>2, <2>1, <2>2 DEF RefsTranslated
  <1>11. PatchInv'
    <2>1. RowsOf(deferred)' = {} /\ RowsOf(cp)' = {}
      BY <1>1, <1>2 DEF LoopInv, RowsOf
    <2>2. ASSUME NEW i \in 1 .. Len(rows')
          PROVE  rows'[i].patch <= patch /\ (rows'[i].patch = patch <=> first <= i)
      BY <1>1, <1>3, <1>4, <1>5 DEF PatchInv
    <2>3. ASSUME NEW i \in Current'
          PROVE  IsActiveTable(Change(i)'.table)
      <3>1. i = Len(rows) + 1 \/ i \in Current
        BY <1>2, <1>3, <1>5 DEF Current
      <3>2. i \in Current => i \in 1 .. Len(rows)
        BY <1>3 DEF Current
      <3> QED
        BY Zenon, <1>1, <1>2, <1>4, <1>5, <3>1, <3>2 DEF PatchInv, Change
    <2>4. first' <= Len(rows') + 1 /\ first' <= at'
      BY <1>1, <1>2, <1>3, <1>5 DEF PatchInv
    <2> QED
      BY Zenon, <1>2, <2>1, <2>2, <2>3, <2>4 DEF PatchInv, IsActiveTable, Desired
  <1>12. LoopInv' /\ FileInv'
    BY Zenon, <1>1, <1>2 DEF LoopInv, FileInv, NoPlaceholderStored
  <1> QED
    BY Zenon, <1>9, <1>10, <1>11, <1>12 DEF RefsInv

(* The other steps only set sheets up, or do nothing.                      *)
LEMMA SetSheetRefs ==
  ASSUME RefsInv, TypeInv, sheet' = sheetName',
         UNCHANGED <<rows, first, patch, pc, pass, at, cp, len, deferred, pool, written, stored>>
  PROVE  RefsInv'
  <1>1. PatchInv /\ LoopInv /\ PoolInv /\ FileInv /\ RefsTranslated
    BY Zenon DEF RefsInv
  <1>2. Pending' = Pending
    <2>1. ToEmit' = ToEmit
      BY Zenon DEF ToEmit, Current, Change, Passes, Desired
    <2> QED
      BY Zenon, <2>1 DEF Pending, RowsOf
  <1>3. PoolInv' /\ RefsTranslated'
    BY Zenon, <1>1, <1>2, QuietRefs DEF Known
  <1>4. PatchInv'
    BY Zenon, <1>1, QuietPatch DEF PatchInv, RowsOf
  <1>5. LoopInv' /\ FileInv'
    BY Zenon, <1>1 DEF LoopInv, FileInv, NoPlaceholderStored
  <1> QED
    BY Zenon, <1>3, <1>4, <1>5 DEF RefsInv

LEMMA InitRefs == Init => RefsInv
  <1> SUFFICES ASSUME Init PROVE RefsInv
    OBVIOUS
  <1>1. /\ rows = <<>> /\ first = 1 /\ patch = 1 /\ pc = "buffer" /\ pass = 1 /\ at = 1
        /\ sheet = NoSheet /\ sheetName = NoSheet /\ deferred = <<>> /\ cp = <<>>
        /\ pool = EmptyPool /\ stored = EmptyPool /\ written = {}
    BY Zenon DEF Init
  <1>2. Len(rows) = 0 /\ Current = {} /\ Known = {}
    BY <1>1 DEF Current, Known
  <1>3. RowsOf(deferred) = {} /\ RowsOf(cp) = {}
    BY <1>1 DEF RowsOf
  <1>4. PatchInv
    BY <1>1, <1>2, <1>3 DEF PatchInv
  <1>5. LoopInv
    BY Zenon, <1>1 DEF LoopInv
  <1>6. PoolInv
    BY Zenon, <1>1, <1>2 DEF PoolInv, RecordOK, EmptyPool
  <1>7. FileInv
    BY Zenon, <1>1, ConstantsOK DEF FileInv, NoPlaceholderStored, EmptyPool
  <1>8. RefsTranslated
    BY Zenon, <1>1 DEF RefsTranslated
  <1> QED
    BY Zenon, <1>4, <1>5, <1>6, <1>7, <1>8 DEF RefsInv

(* Every step keeps the invariant.                                         *)
LEMMA NextRefs ==
  ASSUME AllPresent, TypeInv, RefsInv, [Next]_vars
  PROVE  RefsInv'
  <1>1. sheet = sheetName
    BY Zenon DEF RefsInv, LoopInv
  <1>2. ASSUME NEW t \in Tables, FilterSetSheet(t) PROVE RefsInv'
    BY Zenon, <1>1, <1>2, SetSheetRefs DEF FilterSetSheet, emitVars, deferVars, sheetVars, targetVars
  <1>3. ASSUME NEW c \in RowChange, FilterChangeRow(c) PROVE RefsInv'
    BY Zenon, <1>3, FilterChangeRowRefs
  <1>4. CASE Prescan
    BY Zenon, <1>4, PrescanRefs
  <1>5. CASE EmitRow
    BY Zenon, <1>5, EmitRowRefs
  <1>6. CASE SkipRow
    BY Zenon, <1>6, SkipRowRefs
  <1>7. ASSUME NEW t \in Tables, EmitPreamble(t) PROVE RefsInv'
    <2>1. sheet' = sheetName'
      BY Zenon, <1>7 DEF EmitPreamble, SheetAfter, NameAfter, AllPresent
    <2> QED
      BY Zenon, <1>7, <2>1, SetSheetRefs DEF EmitPreamble, deferVars, targetVars
  <1>8. CASE NextPass
    BY Zenon, <1>8, NextPassRefs
  <1>9. CASE StartPass
    BY Zenon, <1>9, StartPassRefs
  <1>10. CASE ReplayRow
    BY Zenon, <1>10, ReplayRowRefs
  <1>11. CASE EndPass
    BY Zenon, <1>11, EndPassRefs
  <1>12. CASE SavePool
    BY Zenon, <1>12, SavePoolRefs
  <1>13. CASE NextPatch
    BY Zenon, <1>13, NextPatchRefs
  <1>14. CASE UNCHANGED vars
    BY Zenon, <1>1, <1>14, SetSheetRefs DEF vars
  <1> QED
    BY Zenon, <1>2, <1>3, <1>4, <1>5, <1>6, <1>7, <1>8, <1>9, <1>10, <1>11, <1>12, <1>13, <1>14
       DEF Next, Running

(* For any patches, applied one after the other to a target that has their *)
(* tables: every reference of an inserted row is translated to the id that *)
(* the row referred to was given, in whatever order rows are emitted,      *)
(* deferred and replayed, and across the pool file.                        *)
THEOREM ReferencesTranslated ==
  ASSUME AllPresent
  PROVE  Spec => []RefsTranslated
  <1>1. TypeInv /\ RefsInv => RefsTranslated
    BY Zenon DEF RefsInv
  <1>2. Init => TypeInv /\ RefsInv
    BY Zenon, InitTypeInv, InitRefs
  <1>3. TypeInv /\ RefsInv /\ [Next]_vars => (TypeInv /\ RefsInv)'
    BY Zenon, NextTypeInv, NextRefs
  <1> QED
    BY <1>1, <1>2, <1>3, PTL DEF Spec

(* And no placeholder of the prescan gets into the pool file: mergeDone    *)
(* gives up before the pool would be saved with one.                       *)
THEOREM PlaceholdersNotSaved ==
  ASSUME AllPresent
  PROVE  Spec => []NoPlaceholderStored
  <1>1. TypeInv /\ RefsInv => NoPlaceholderStored
    BY Zenon DEF RefsInv, FileInv
  <1>2. Init => TypeInv /\ RefsInv
    BY Zenon, InitTypeInv, InitRefs
  <1>3. TypeInv /\ RefsInv /\ [Next]_vars => (TypeInv /\ RefsInv)'
    BY Zenon, NextTypeInv, NextRefs
  <1> QED
    BY <1>1, <1>2, <1>3, PTL DEF Spec

-----------------------------------------------------------------------------
(***************************************************************************)
(* PoolPatch implements DependencyApply, for a target that has every table *)
(* of the patches and --table options that name no table twice: each row   *)
(* is written once, with the references that the promise asks for, and the *)
(* retry loop of mergeDone gives up only when every row left waits for one *)
(* that is not written.                                                    *)
(***************************************************************************)
NoTableTwice ==
  \A k, l \in DOMAIN OrderedTables : OrderedTables[k] = OrderedTables[l] => k = l

Distinct(d) == \A k, l \in 1 .. Len(d) : d[k].row = d[l].row => k = l

(* Two rows of a patch create different ids.                               *)
KeysApart ==
  \A i, j \in 1 .. Len(rows) :
    /\ rows[i].patch = rows[j].patch
    /\ Change(i).mode = "INSERT" /\ Change(j).mode = "INSERT"
    /\ Change(i).table = Change(j).table /\ Change(i).key = Change(j).key
    => i = j

(* A row of the patch is either written, once, or pending in one place.    *)
OnceInv ==
  /\ \A v, w \in written : v.row = w.row => v = w
  /\ \A w \in written : w.row \notin Pending
  /\ pc # "buffer" => \A i \in Current : i \in Pending \/ \E w \in written : w.row = i
  /\ Distinct(deferred) /\ Distinct(cp)
  /\ RowsOf(deferred) \cap RowsOf(cp) = {}
  /\ RowsOf(deferred) \cap ToEmit = {}

(* Row i cannot be inserted now.                                           *)
Stuck(i) ==
  /\ Change(i).mode = "INSERT"
  /\ \E t \in RefersTo[Change(i).table] : ~Translatable(t, Change(i).refs[t])

(* If no row has been written since a pass of mergeDone began, the rows    *)
(* deferred in it are stuck.  So if the pass before it has not written a   *)
(* row either, then all rows are.                                          *)
ProgressInv ==
  /\ pc \in {"buffer", "emit"} => len = -1
  /\ pc \in {"pass", "replay"} /\ Len(cp) + Len(deferred) = len =>
       \A i \in RowsOf(deferred) : Stuck(i)
  /\ pc = "replay" /\ len = prevLen =>
       /\ Len(cp) + Len(deferred) = len
       /\ \A i \in RowsOf(deferred) \cup RowsOf(cp) : Stuck(i)

InsertedIn(t) == {w \in written : w.table = t /\ Change(w.row).mode = "INSERT"}

(* The highest id of a table is that of a row inserted in it, if any.      *)
IdsOf(t) == {BaseTop} \cup {w.id : w \in InsertedIn(t)}

TopInv == \A t \in Tables : top[t] \in IdsOf(t) /\ \A n \in IdsOf(t) : n <= top[t]

PromiseInv == TypeInv /\ RefsInv /\ KeysApart /\ OnceInv /\ ProgressInv /\ TopInv
-----------------------------------------------------------------------------
(* What changeRow does with row i, given the sheet of its table.           *)
Inserts(i) ==
  LET c == Change(i)  s == Change(i).table
  IN /\ c.mode = "INSERT"
     /\ \A t \in RefersTo[s] : Translatable(t, c.refs[t])
     /\ written' = written \cup
          {[row |-> i, table |-> s, id |-> top[s] + 1,
            refs |-> [t \in RefersTo[s] |-> Translation(t, c.refs[t])]]}
     /\ top' = [top EXCEPT ![s] = top[s] + 1]
     /\ deferred' = deferred

Updates(i) ==
  /\ Change(i).mode = "UPDATE"
  /\ written' = written \cup {[row |-> i, table |-> Change(i).table,
                               id |-> Change(i).key, refs |-> Change(i).refs]}
  /\ UNCHANGED <<deferred, top, pool>>

Defers(i) ==
  /\ Stuck(i)
  /\ deferred' = Append(deferred, [sheet |-> Change(i).table, row |-> i])
  /\ UNCHANGED <<written, top, pool>>

LEMMA ChangeRowOutcome ==
  ASSUME TypeInv, NEW i \in Current, ChangeRow(i, Change(i).table, Change(i).table)
  PROVE  Inserts(i) \/ Updates(i) \/ Defers(i)
  <1>1. i \in 1 .. Len(rows)
    BY DEF TypeInv, TypeOK, Current
  <1>2. Change(i).table \in Tables
    BY Zenon, <1>1, RowType, ChangeType DEF TypeInv
  <1>3. Change(i).table # NoSheet
    BY Zenon, <1>2, ConstantsOK
  <1>4. CASE Change(i).mode = "UPDATE" /\ UpdateRow(i, Change(i).table)
    BY Zenon, <1>4 DEF UpdateRow, Updates
  <1>5. CASE Change(i).mode = "INSERT" /\ InsertRow(i, Change(i).table, Change(i).table)
    <2>1. CASE \A t \in RefersTo[Change(i).table] : Translatable(t, Change(i).refs[t])
      BY Zenon, <1>5, <2>1 DEF InsertRow, Inserts
    <2>2. CASE ~ \A t \in RefersTo[Change(i).table] : Translatable(t, Change(i).refs[t])
      BY Zenon, <1>5, <2>2 DEF InsertRow, Defers, Stuck
    <2> QED
      BY Zenon, <2>1, <2>2
  <1> QED
    BY Zenon, <1>3, <1>4, <1>5 DEF ChangeRow

(* A table is in one loop of mergeAllDone only.                            *)
LEMMA PassesApart ==
  ASSUME NoTableTwice, NEW p \in 1 .. Len(Passes), NEW q \in 1 .. Len(Passes),
         NEW t, t \in Passes[p], t \in Passes[q]
  PROVE  p = q
  <1>1. CASE \A a, b \in Desired : a = b
    <2>1. Passes = <<Tables>>
      BY Zenon, <1>1 DEF Passes
    <2>2. Len(Passes) = 1
      BY Zenon, <2>1
    <2> QED
      BY <2>2
  <1>2. CASE ~(\A a, b \in Desired : a = b)
    <2>1. Passes = [k \in DOMAIN OrderedTables |-> {OrderedTables[k]}]
      BY Zenon, <1>2 DEF Passes
    <2>2. OrderedTables \in Seq(Tables)
      BY Zenon, ConstantsOK
    <2>3. Len(OrderedTables) \in Nat /\ DOMAIN OrderedTables = 1 .. Len(OrderedTables)
      BY <2>2
    <2>4. Len(Passes) = Len(OrderedTables)
      BY <2>1, <2>3
    <2> QED
      BY Zenon, <2>1, <2>3, <2>4 DEF NoTableTwice
  <1> QED
    BY Zenon, <1>1, <1>2

(* A row that has been emitted is not emitted again.                       *)
LEMMA EmitRowOnce ==
  ASSUME NoTableTwice, TypeInv, PatchInv, EmitRow
  PROVE  ToEmit' \subseteq ToEmit \ {at}
  <1>1. /\ pc = "emit" /\ pass <= Len(Passes) /\ at <= Len(rows) /\ at' = at + 1
        /\ Change(at).table \in Passes[pass]
        /\ UNCHANGED <<rows, first, pc, pass>>
    BY Zenon DEF EmitRow, Emitting, patchVars
  <1>2. /\ at \in Nat /\ first \in Nat /\ Len(rows) \in Nat /\ pass \in Nat \ {0}
        /\ Len(Passes) \in Nat
    BY PassesCover DEF TypeInv, TypeOK
  <1>3. SUFFICES ASSUME NEW j \in ToEmit'
                 PROVE  j \in ToEmit /\ j # at
    OBVIOUS
  <1>4. Change(j)' = Change(j) /\ j \in Current /\ j \in Nat
    BY <1>1, <1>2 DEF Change, ToEmit, Current
  <1>5. PICK p \in pass .. Len(Passes) : Change(j).table \in Passes[p] /\ (p = pass => at + 1 <= j)
    BY Zenon, <1>1, <1>4 DEF ToEmit, Passes, Desired
  <1>6. p = pass => at <= j
    BY <1>2, <1>4, <1>5
  <1>7. j \in ToEmit
    BY Zenon, <1>1, <1>4, <1>5, <1>6 DEF ToEmit
  <1>8. j # at
    <2>1. SUFFICES ASSUME j = at PROVE FALSE
      OBVIOUS
    <2>2. p # pass
      BY <1>2, <1>5, <2>1
    <2>3. p \in 1 .. Len(Passes) /\ pass \in 1 .. Len(Passes)
      BY <1>1, <1>2
    <2> QED
      BY Zenon, <1>1, <1>5, <2>1, <2>2, <2>3, PassesApart
  <1> QED
    BY Zenon, <1>7, <1>8

(* Deferring a row that was not deferred.                                  *)
LEMMA DeferredOnce ==
  ASSUME TypeInv, NEW i, i \notin RowsOf(deferred), Distinct(deferred), Defers(i)
  PROVE  /\ RowsOf(deferred)' = RowsOf(deferred) \cup {i} /\ Distinct(deferred)'
         /\ Len(deferred) \in Nat /\ Len(deferred') = Len(deferred) + 1
  <1> DEFINE d == [sheet |-> Change(i).table, row |-> i]
  <1>1. deferred' = Append(deferred, d) /\ d.row = i
    BY Zenon DEF Defers
  <1> HIDE DEF d
  <1>2. deferred \in Seq(DeferredRow)
    BY Zenon DEF TypeInv, TypeOK
  <1>3. /\ Len(deferred) \in Nat /\ Len(deferred') = Len(deferred) + 1
        /\ deferred'[Len(deferred) + 1] = d
        /\ \A k \in 1 .. Len(deferred) : deferred'[k] = deferred[k]
    BY <1>1, <1>2
  <1>4. RowsOf(deferred)' = RowsOf(deferred) \cup {i}
    BY <1>1, <1>3 DEF RowsOf
  <1>5. Distinct(deferred)'
    <2>1. SUFFICES ASSUME NEW k \in 1 .. Len(deferred'), NEW l \in 1 .. Len(deferred'),
                          deferred'[k].row = deferred'[l].row
                   PROVE  k = l
      BY Zenon DEF Distinct
    <2>2. \A m \in 1 .. Len(deferred) : deferred[m].row # i
      BY Zenon DEF RowsOf
    <2>3. /\ k \in 1 .. Len(deferred) \/ k = Len(deferred) + 1
          /\ l \in 1 .. Len(deferred) \/ l = Len(deferred) + 1
      BY <1>3
    <2> QED
      BY Zenon, <1>1, <1>3, <2>1, <2>2, <2>3 DEF Distinct
  <1> QED
    BY Zenon, <1>3, <1>4, <1>5

(* A row that is handled leaves the places where it was pending, and is    *)
(* then either written or deferred.                                        *)
LEMMA HandledOnce ==
  ASSUME TypeInv, OnceInv, pc # "buffer", UNCHANGED <<rows, first, pc>>,
         NEW i \in Current, Inserts(i) \/ Updates(i) \/ Defers(i),
         NEW R, R = ToEmit' \cup RowsOf(cp)', i \notin R, i \notin RowsOf(deferred),
         R \cap RowsOf(deferred) = {}, Pending = R \cup RowsOf(deferred) \cup {i},
         Distinct(cp)'
  PROVE  OnceInv'
  <1>1. Current' = Current
    BY Zenon DEF Current
  <1>2. Pending' = R \cup RowsOf(deferred)'
    BY Zenon DEF Pending
  <1>3. CASE Inserts(i) \/ Updates(i)
    <2>1. PICK w : written' = written \cup {w} /\ w.row = i /\ deferred' = deferred
      <3>1. CASE Inserts(i)
        <4> DEFINE x == [row |-> i, table |-> Change(i).table, id |-> top[Change(i).table] + 1,
                         refs |-> [t \in RefersTo[Change(i).table] |->
                                     Translation(t, Change(i).refs[t])]]
        <4>1. written' = written \cup {x} /\ deferred' = deferred /\ x.row = i
          BY Zenon, <3>1 DEF Inserts
        <4> HIDE DEF x
        <4> QED
          BY Zenon, <4>1
      <3>2. CASE Updates(i)
        <4> DEFINE x == [row |-> i, table |-> Change(i).table,
                         id |-> Change(i).key, refs |-> Change(i).refs]
        <4>1. written' = written \cup {x} /\ deferred' = deferred /\ x.row = i
          BY Zenon, <3>2 DEF Updates
        <4> HIDE DEF x
        <4> QED
          BY Zenon, <4>1
      <3> QED
        BY Zenon, <1>3, <3>1, <3>2
    <2>2. RowsOf(deferred)' = RowsOf(deferred) /\ Distinct(deferred)'
      BY <2>1 DEF RowsOf, Distinct, OnceInv
    <2>3. \A v \in written : v.row # i
      BY Zenon DEF OnceInv
    <2>4. /\ \A v, x \in written' : v.row = x.row => v = x
          /\ \A v \in written' : v.row \notin Pending'
      BY Zenon, <1>2, <2>1, <2>2, <2>3 DEF OnceInv
    <2>5. \A j \in Current : j \in Pending' \/ \E v \in written' : v.row = j
      BY Zenon, <1>2, <2>1, <2>2 DEF OnceInv
    <2> QED
      BY Zenon, <1>1, <2>2, <2>4, <2>5 DEF OnceInv
  <1>4. CASE Defers(i)
    <2>1. written' = written
      BY Zenon, <1>4 DEF Defers
    <2>2. RowsOf(deferred)' = RowsOf(deferred) \cup {i} /\ Distinct(deferred)'
      BY Zenon, <1>4, DeferredOnce DEF OnceInv
    <2>3. Pending' = Pending
      BY Zenon, <1>2, <2>2
    <2>4. RowsOf(deferred)' \cap R = {}
      BY Zenon, <2>2
    <2> QED
      BY Zenon, <1>1, <2>1, <2>2, <2>3, <2>4 DEF OnceInv
  <1> QED
    BY Zenon, <1>3, <1>4

(* A row that is inserted gets the id after the highest.                   *)
LEMMA HandledTop ==
  ASSUME TypeInv, TopInv, UNCHANGED rows, NEW i \in Current,
         Inserts(i) \/ Updates(i) \/ Defers(i)
  PROVE  TopInv'
  <1>1. i \in 1 .. Len(rows)
    BY DEF TypeInv, TypeOK, Current
  <1>2. top \in [Tables -> Nat] /\ BaseTop \in Nat
    BY Zenon, ConstantsOK DEF TypeInv, TypeOK
  <1>3. Change(i).table \in Tables /\ \A w : Change(w.row)' = Change(w.row)
    BY Zenon, <1>1, RowType, ChangeType DEF TypeInv, Change
  <1>4. ASSUME NEW t, NEW n \in IdsOf(t) PROVE n \in Nat
    BY <1>2 DEF IdsOf, InsertedIn, TypeInv, TypeOK, WrittenOK, WrittenRow
  <1>5. CASE Inserts(i)
    <2>1. PICK w : /\ w.row = i /\ w.table = Change(i).table /\ w.id = top[w.table] + 1
                   /\ written' = written \cup {w} /\ Change(i).mode = "INSERT"
                   /\ top' = [top EXCEPT ![w.table] = w.id]
      <3> DEFINE s == Change(i).table
                 x == [row |-> i, table |-> s, id |-> top[s] + 1,
                       refs |-> [t \in RefersTo[s] |-> Translation(t, Change(i).refs[t])]]
      <3>1. x.row = i /\ x.table = s /\ x.id = top[s] + 1
        BY Zenon
      <3>2. /\ written' = written \cup {x} /\ Change(i).mode = "INSERT"
            /\ top' = [top EXCEPT ![s] = top[s] + 1]
        BY Zenon, <1>5 DEF Inserts
      <3> HIDE DEF x
      <3> QED
        BY Zenon, <3>1, <3>2
    <2>2. SUFFICES ASSUME NEW t \in Tables
                   PROVE  top'[t] \in IdsOf(t)' /\ \A n \in IdsOf(t)' : n <= top'[t]
      BY Zenon DEF TopInv
    <2>3. CASE t = w.table
      <3>1. InsertedIn(t)' = InsertedIn(t) \cup {w}
        <4>1. ASSUME NEW v
              PROVE  v \in InsertedIn(t)' <=> v \in InsertedIn(t) \/ v = w
          BY Zenon, <1>3, <2>1, <2>3 DEF InsertedIn
        <4> QED
          BY Zenon, <4>1
      <3>2. IdsOf(t)' = IdsOf(t) \cup {w.id}
        BY Zenon, <3>1 DEF IdsOf
      <3>3. top'[t] = w.id /\ w.id = top[t] + 1 /\ top[t] \in Nat
        BY Zenon, <1>2, <1>3, <2>1, <2>3
      <3>4. \A n \in IdsOf(t) : n <= w.id
        BY <1>4, <3>3 DEF TopInv
      <3> QED
        BY <3>2, <3>3, <3>4
    <2>4. CASE t # w.table
      <3>1. InsertedIn(t)' = InsertedIn(t)
        BY Zenon, <1>3, <2>1, <2>4 DEF InsertedIn
      <3>2. IdsOf(t)' = IdsOf(t) /\ top'[t] = top[t]
        BY Zenon, <1>2, <2>1, <2>4, <3>1 DEF IdsOf
      <3> QED
        BY Zenon, <3>2 DEF TopInv
    <2> QED
      BY Zenon, <2>3, <2>4
  <1>6. CASE Updates(i)
    <2>1. PICK w : /\ w.row = i /\ written' = written \cup {w}
                   /\ Change(i).mode = "UPDATE" /\ top' = top
      BY Zenon, <1>6 DEF Updates
    <2>2. \A t : InsertedIn(t)' = InsertedIn(t)
      BY Zenon, <1>3, <2>1 DEF InsertedIn
    <2>3. \A t : IdsOf(t)' = IdsOf(t)
      BY Zenon, <2>2 DEF IdsOf
    <2> QED
      BY Zenon, <2>1, <2>3 DEF TopInv
  <1>7. CASE Defers(i)
    <2>1. written' = written /\ top' = top
      BY Zenon, <1>7 DEF Defers
    <2>2. ASSUME NEW t PROVE InsertedIn(t)' = InsertedIn(t)
      <3>1. \A w \in written : Change(w.row)'.mode = Change(w.row).mode
        BY Zenon, <1>3
      <3> QED
        BY <2>1, <3>1 DEF InsertedIn
    <2>3. \A t : IdsOf(t)' = IdsOf(t)
      BY Zenon, <2>2 DEF IdsOf
    <2> QED
      BY Zenon, <2>1, <2>3 DEF TopInv
  <1> QED
    BY Zenon, <1>5, <1>6, <1>7

-----------------------------------------------------------------------------
(* The promise speaks of the same rows.                                    *)
LEMMA PromiseCreators ==
  ASSUME AllPresent, TypeInv, NEW i, NEW t \in Tables
  PROVE  Promise!Creators(i, t) = Coiners(i, t, Change(i).refs[t])
  <1>1. DOMAIN rows = 1 .. Len(rows)
    BY DEF TypeInv, TypeOK
  <1> QED
    BY Zenon, <1>1 DEF AllPresent, Promise!Creators, Promise!Change, Coiners, Coins, Change

(* The creator of an id is the one row of the latest patch that creates    *)
(* it.                                                                     *)
LEMMA PromiseCreator ==
  ASSUME AllPresent, TypeInv, KeysApart, NEW i, NEW t \in Tables,
         NEW j \in Coiners(i, t, Change(i).refs[t]),
         \A k \in Coiners(i, t, Change(i).refs[t]) : rows[k].patch <= rows[j].patch
  PROVE  Promise!Creator(i, t) = j
  <1> DEFINE C == Coiners(i, t, Change(i).refs[t])
  <1>1. Promise!Creators(i, t) = C
    BY Zenon, PromiseCreators
  <1>2. ASSUME NEW k \in C, \A l \in C : rows[l].patch <= rows[k].patch
        PROVE  k = j
    <2>1. k \in 1 .. Len(rows) /\ j \in 1 .. Len(rows) /\ rows \in Seq(Row)
      BY Zenon DEF Coiners, TypeInv, TypeOK
    <2>2. rows[k] \in Row /\ rows[j] \in Row
      BY <2>1
    <2>3. rows[k].patch \in Nat /\ rows[j].patch \in Nat
      BY Zenon, <2>2 DEF Row
    <2>4. rows[k].patch <= rows[j].patch /\ rows[j].patch <= rows[k].patch
      BY Zenon, <1>2
    <2>5. rows[k].patch = rows[j].patch
      BY <2>3, <2>4
    <2> QED
      BY Zenon, <2>1, <2>5 DEF KeysApart, Coiners, Coins
  <1> HIDE DEF C
  <1>3. j \in C /\ \A k \in C : rows[k].patch <= rows[j].patch
    BY Zenon DEF C
  <1> QED
    BY Zenon, <1>1, <1>2, <1>3 DEF Promise!Creator

(* A reference is ready, in the terms of the promise, exactly when the     *)
(* pool can translate it, and the pool then has the id that is promised.   *)
LEMMA ReadyIsTranslatable ==
  ASSUME AllPresent, TypeInv, PatchInv, PoolInv, KeysApart, OnceInv, pc # "buffer",
         Pending \subseteq Current,
         NEW i \in Current, NEW t \in Tables, Change(i).refs[t] \in Ids
  PROVE  /\ Promise!Ready(i, t) <=> Translatable(t, Change(i).refs[t])
         /\ Translatable(t, Change(i).refs[t]) =>
              Promise!Reference(i, t) = Translation(t, Change(i).refs[t])
  <1> DEFINE o == Change(i).refs[t]
             C == Coiners(i, t, o)
  <1>1. Promise!Creators(i, t) = C
    BY Zenon, PromiseCreators
  <1>2. RecordOK(t, o)
    BY Zenon DEF PoolInv
  <1>3. Known = 1 .. Len(rows)
    BY Zenon DEF Known
  <1>4. i \in 1 .. Len(rows) /\ rows[i].patch = patch
    BY DEF TypeInv, TypeOK, PatchInv, Current
  <1>5. CASE pool[t][o] = Absent
    <2>1. C = {}
      BY Zenon, <1>2, <1>3, <1>5 DEF RecordOK, Coiners
    <2>2. Promise!Change(i).refs[t] = o
      BY Zenon DEF Promise!Change, Change
    <2> QED
      BY Zenon, <1>1, <1>5, <2>1, <2>2 DEF Promise!Ready, Promise!Reference, Translatable, Translation
  <1>6. CASE pool[t][o] # Absent /\ pool[t][o].linked
    <2>1. PICK v \in written : LinkedTo(t, o, v)
      BY Zenon, <1>2, <1>6 DEF RecordOK
    <2>2. v.row \in 1 .. Len(rows)
      BY Zenon DEF TypeInv, TargetInv
    <2>3. v.row \in C
      BY Zenon, <1>4, <2>1, <2>2 DEF LinkedTo, Coiners, PatchInv
    <2>4. \A k \in C : rows[k].patch <= rows[v.row].patch
      BY Zenon, <1>3, <2>1 DEF LinkedTo, Coiners
    <2>5. Promise!Creator(i, t) = v.row
      BY Zenon, <2>3, <2>4, PromiseCreator
    <2>6. Promise!Ready(i, t)
      BY Zenon, <2>5 DEF Promise!Ready, Promise!IsWritten
    <2>7. (CHOOSE w \in written : w.row = v.row) = v
      BY Zenon DEF OnceInv
    <2>8. Promise!Reference(i, t) = v.id
      BY Zenon, <1>1, <2>3, <2>5, <2>7 DEF Promise!Reference
    <2> QED
      BY Zenon, <1>6, <2>1, <2>6, <2>8 DEF Translatable, Translation, LinkedTo
  <1>7. CASE pool[t][o] # Absent /\ ~pool[t][o].linked
    <2>1. PICK j \in Pending : Coins(j, t, o)
      BY Zenon, <1>2, <1>7 DEF RecordOK
    <2>2. j \in 1 .. Len(rows) /\ rows[j].patch = patch
      BY DEF TypeInv, TypeOK, PatchInv, Current
    <2>3. \A k \in 1 .. Len(rows) : rows[k].patch <= rows[j].patch
      BY Zenon, <2>2 DEF PatchInv
    <2>4. j \in C
      BY Zenon, <1>4, <2>1, <2>2, <2>3 DEF Coiners
    <2>5. Promise!Creator(i, t) = j
      BY Zenon, <2>3, <2>4, PromiseCreator DEF Coiners
    <2>6. ~Promise!IsWritten(j)
      BY Zenon DEF Promise!IsWritten, OnceInv
    <2>7. ~Promise!Ready(i, t)
      BY Zenon, <1>1, <2>4, <2>5, <2>6 DEF Promise!Ready
    <2> QED
      BY Zenon, <1>7, <2>7 DEF Translatable
  <1> QED
    BY Zenon, <1>5, <1>6, <1>7

(* The promise has a row left exactly when the program has it pending.     *)
LEMMA LeftIsPending ==
  ASSUME AllPresent, TypeInv, PatchInv, OnceInv, pc # "buffer", Pending \subseteq Current
  PROVE  Promise!Left = Pending
  <1>1. DOMAIN rows = 1 .. Len(rows) /\ Len(rows) \in Nat /\ first \in Nat \ {0}
    BY DEF TypeInv, TypeOK
  <1>2. \A i \in 1 .. Len(rows) : Promise!Change(i).table \in Present
    <2>1. \A i \in 1 .. Len(rows) : Change(i).table \in Tables
      BY Zenon, RowType, ChangeType DEF TypeInv
    <2> QED
      BY Zenon, <2>1 DEF AllPresent, Promise!Change, Change
  <1>3. \A i \in 1 .. Len(rows) : rows[i].patch = patch <=> i \in Current
    BY <1>1 DEF PatchInv, Current
  <1>4. Current \subseteq 1 .. Len(rows)
    BY <1>1 DEF Current
  <1>5. \A i \in Current : Promise!IsWritten(i) <=> i \notin Pending
    BY Zenon DEF Promise!IsWritten, OnceInv
  <1> QED
    BY Zenon, <1>1, <1>2, <1>3, <1>4, <1>5 DEF Promise!Left

LEMMA PendingCurrent ==
  ASSUME PatchInv
  PROVE  Pending \subseteq Current
  BY Zenon DEF PatchInv, Pending, ToEmit

(* Writing a row is a step of the promise; deferring one is none.          *)
LEMMA HandledAsPromised ==
  ASSUME AllPresent, PromiseInv, pc \in {"emit", "replay"}, UNCHANGED <<rows, patch, pc>>,
         NEW i \in Pending, Inserts(i) \/ Updates(i) \/ Defers(i)
  PROVE  [Promise!Next]_(Promise!vars)
  <1>1. TypeInv /\ RefsInv /\ PatchInv /\ PoolInv /\ KeysApart /\ OnceInv /\ TopInv
    BY Zenon DEF PromiseInv, RefsInv
  <1>2. Pending \subseteq Current /\ i \in Current
    BY Zenon, <1>1, PendingCurrent
  <1>3. i \in Promise!Left
    BY Zenon, <1>1, <1>2, LeftIsPending
  <1>4. Status = "applying" /\ Status' = "applying"
    BY Zenon DEF Status
  <1>5. i \in 1 .. Len(rows)
    BY <1>1, <1>2 DEF TypeInv, TypeOK, Current
  <1> DEFINE c == Change(i)
             s == Change(i).table
  <1>6. /\ s \in Tables /\ c.refs \in [RefersTo[s] -> Ids]
    BY Zenon, <1>1, <1>5, RowType, ChangeType DEF TypeInv
  <1>7. Promise!Change(i) = c
    BY Zenon DEF Promise!Change, Change
  <1>8. CASE Updates(i)
    <2>1. Promise!Update(i)
      BY Zenon, <1>4, <1>7, <1>8 DEF Updates, Promise!Update, Promise!Write
    <2> QED
      BY Zenon, <1>3, <2>1 DEF Promise!Next
  <1>9. CASE Inserts(i)
    <2>1. RefersTo[s] \subseteq Tables
      BY Zenon, <1>6, ConstantsOK
    <2>2. ASSUME NEW t \in RefersTo[s]
          PROVE  Promise!Ready(i, t) /\ Promise!Reference(i, t) = Translation(t, c.refs[t])
      <3>1. t \in Tables /\ c.refs[t] \in Ids /\ Translatable(t, c.refs[t])
        BY Zenon, <1>6, <1>9, <2>1 DEF Inserts
      <3> QED
        BY Zenon, <1>1, <1>2, <3>1, ReadyIsTranslatable
    <2>3. Promise!NextId(s) = top[s] + 1
      <3>1. Promise!Given(s) = IdsOf(s)
        BY Zenon DEF Promise!Given, IdsOf, InsertedIn, Promise!Change, Change
      <3>2. top[s] \in IdsOf(s) /\ \A n \in IdsOf(s) : n <= top[s]
        BY Zenon, <1>1, <1>6 DEF TopInv
      <3>3. \A n \in IdsOf(s) : n \in Nat
        BY <1>1, ConstantsOK DEF IdsOf, InsertedIn, TypeInv, TypeOK, WrittenOK, WrittenRow
      <3>4. ASSUME NEW n \in IdsOf(s), \A m \in IdsOf(s) : m <= n
            PROVE  n = top[s]
        BY SMTT(30), <3>2, <3>3, <3>4
      <3>5. (CHOOSE n \in IdsOf(s) : \A m \in IdsOf(s) : m <= n) = top[s]
        BY Zenon, <3>2, <3>4
      <3> QED
        BY Zenon, <3>1, <3>5 DEF Promise!NextId
    <2>4. [t \in RefersTo[s] |-> Promise!Reference(i, t)]
            = [t \in RefersTo[s] |-> Translation(t, c.refs[t])]
      BY Zenon, <2>2
    <2>5. written' = written \cup
            {[row |-> i, table |-> s, id |-> Promise!NextId(s),
              refs |-> [t \in RefersTo[s] |-> Promise!Reference(i, t)]]}
      BY Zenon, <1>9, <2>3, <2>4 DEF Inserts
    <2>6. Promise!Write(i, Promise!NextId(s), [t \in RefersTo[s] |-> Promise!Reference(i, t)])
      BY Zenon, <1>4, <1>7, <2>5 DEF Promise!Write
    <2>7. Promise!Insert(i)
      BY Zenon, <1>7, <1>9, <2>2, <2>6 DEF Inserts, Promise!Insert
    <2> QED
      BY Zenon, <1>3, <2>7 DEF Promise!Next
  <1>10. CASE Defers(i)
    BY Zenon, <1>4, <1>10 DEF Defers, Promise!vars
  <1> QED
    BY Zenon, <1>8, <1>9, <1>10

LEMMA EmitRowPromise ==
  ASSUME AllPresent, NoTableTwice, PromiseInv, EmitRow
  PROVE  /\ KeysApart' /\ OnceInv' /\ ProgressInv' /\ TopInv'
         /\ [Promise!Next]_(Promise!vars)
  <1>1. TypeInv /\ PatchInv /\ LoopInv /\ KeysApart /\ OnceInv /\ ProgressInv /\ TopInv
    BY Zenon DEF PromiseInv, RefsInv
  <1>2. /\ at \in Current /\ pc = "emit"
        /\ UNCHANGED <<rows, first, patch, units, pc, pass, cp, len, prevLen, stored>>
        /\ ChangeRow(at, Change(at).table, Change(at).table)
        /\ at \in ToEmit /\ ToEmit \ {at} \subseteq ToEmit'
    BY Zenon, <1>1, EmitRowStep
  <1>3. ToEmit' = ToEmit \ {at}
    BY Zenon, <1>1, <1>2, EmitRowOnce
  <1>4. PICK i : i = at
    OBVIOUS
  <1>5. Inserts(i) \/ Updates(i) \/ Defers(i)
    BY Zenon, <1>1, <1>2, <1>4, ChangeRowOutcome
  <1>6. i \in Pending /\ \A w \in written : w.row # i
    BY Zenon, <1>1, <1>2, <1>4 DEF Pending, OnceInv
  <1>7. RowsOf(cp) = {} /\ RowsOf(cp)' = {} /\ Distinct(cp)'
    BY <1>1, <1>2 DEF LoopInv, RowsOf, Distinct
  <1>8. OnceInv'
    <2>1. /\ i \notin RowsOf(deferred) /\ ToEmit' \cap RowsOf(deferred) = {}
          /\ Pending = ToEmit' \cup RowsOf(deferred) \cup {i}
      BY <1>1, <1>2, <1>3, <1>4, <1>7 DEF OnceInv, Pending
    <2>2. i \notin ToEmit' /\ ToEmit' = ToEmit' \cup RowsOf(cp)'
      BY Zenon, <1>3, <1>4, <1>7
    <2> QED
      BY Zenon, <1>1, <1>2, <1>4, <1>5, <1>7, <2>1, <2>2, HandledOnce
  <1>9. TopInv'
    BY Zenon, <1>1, <1>2, <1>4, <1>5, HandledTop
  <1>10. KeysApart' /\ ProgressInv'
    BY Zenon, <1>1, <1>2 DEF KeysApart, Change, ProgressInv
  <1>11. [Promise!Next]_(Promise!vars)
    BY Zenon, <1>2, <1>5, <1>6, HandledAsPromised
  <1> QED
    BY Zenon, <1>8, <1>9, <1>10, <1>11

(* A pass of mergeDone in which no row has been written so far.            *)
LEMMA ReplayProgress ==
  ASSUME TypeInv, LoopInv, OnceInv, ProgressInv, pc = "replay",
         UNCHANGED <<rows, pc, len, prevLen>>,
         NEW i, Inserts(i) \/ Updates(i) \/ Defers(i),
         i \in RowsOf(cp), i \notin RowsOf(deferred),
         RowsOf(cp)' \subseteq RowsOf(cp), Len(cp) \in Nat, Len(cp') = Len(cp) - 1
  PROVE  ProgressInv'
  <1>1. Len(deferred) \in Nat /\ len \in Int
    BY DEF TypeInv, TypeOK
  <1>2. CASE Inserts(i) \/ Updates(i)
    <2>1. deferred' = deferred
      BY Zenon, <1>2 DEF Inserts, Updates
    <2>2. Len(cp') + Len(deferred') # len
      BY <1>1, <2>1 DEF LoopInv
    <2>3. ~Stuck(i)
      BY Zenon, <1>2 DEF Inserts, Updates, Stuck
    <2>4. len # prevLen
      BY Zenon, <2>3 DEF ProgressInv
    <2> QED
      BY Zenon, <2>2, <2>4 DEF ProgressInv
  <1>3. CASE Defers(i)
    <2>1. /\ RowsOf(deferred)' = RowsOf(deferred) \cup {i}
          /\ Len(deferred') = Len(deferred) + 1
      BY Zenon, <1>3, DeferredOnce DEF OnceInv
    <2>2. Len(cp') + Len(deferred') = Len(cp) + Len(deferred)
      BY <1>1, <2>1
    <2>3. \A j : Stuck(j)' <=> Stuck(j)
      BY Zenon, <1>3 DEF Defers, Stuck, Change, Translatable
    <2>4. Stuck(i)
      BY Zenon, <1>3 DEF Defers
    <2> QED
      BY Zenon, <2>1, <2>2, <2>3, <2>4 DEF ProgressInv
  <1> QED
    BY Zenon, <1>2, <1>3

LEMMA ReplayRowPromise ==
  ASSUME AllPresent, PromiseInv, ReplayRow
  PROVE  /\ KeysApart' /\ OnceInv' /\ ProgressInv' /\ TopInv'
         /\ [Promise!Next]_(Promise!vars)
  <1>1. TypeInv /\ PatchInv /\ LoopInv /\ KeysApart /\ OnceInv /\ ProgressInv /\ TopInv
    BY Zenon DEF PromiseInv, RefsInv
  <1> PICK i : i = Head(cp).row
    OBVIOUS
  <1>2. /\ i \in Current /\ pc = "replay"
        /\ UNCHANGED <<rows, first, patch, units, pc, pass, at, len, prevLen, stored>>
        /\ ChangeRow(i, Change(i).table, Change(i).table)
        /\ Len(cp) \in Nat /\ Len(cp') = Len(cp) - 1
        /\ i = cp[1].row /\ 1 \in 1 .. Len(cp)
        /\ \A k \in 1 .. Len(cp') : cp'[k] = cp[k + 1] /\ k + 1 \in 1 .. Len(cp)
        /\ RowsOf(cp) = RowsOf(cp)' \cup {i}
    BY Zenon, <1>1, ReplayRowStep
  <1>3. Inserts(i) \/ Updates(i) \/ Defers(i)
    BY Zenon, <1>1, <1>2, ChangeRowOutcome
  <1>4. i \in Pending /\ \A w \in written : w.row # i
    BY Zenon, <1>1, <1>2 DEF Pending, OnceInv
  <1>5. Distinct(cp)' /\ i \notin RowsOf(cp)'
    <2>1. ASSUME NEW k \in 1 .. Len(cp'), NEW l \in 1 .. Len(cp'), cp'[k].row = cp'[l].row
          PROVE  k = l
      <3>1. k + 1 = l + 1
        BY <1>1, <1>2, <2>1 DEF OnceInv, Distinct
      <3> QED
        BY <3>1
    <2>2. ASSUME NEW k \in 1 .. Len(cp')
          PROVE  cp'[k].row # i
      <3>1. k + 1 # 1
        OBVIOUS
      <3> QED
        BY Zenon, <1>1, <1>2, <3>1 DEF OnceInv, Distinct
    <2> QED
      BY Zenon, <2>1, <2>2 DEF Distinct, RowsOf
  <1>6. ToEmit = {} /\ ToEmit' = {}
    BY Zenon, <1>2 DEF ToEmit
  <1>7. /\ i \notin RowsOf(deferred) /\ RowsOf(cp)' \cap RowsOf(deferred) = {}
        /\ Pending = RowsOf(cp)' \cup RowsOf(deferred) \cup {i}
    BY Zenon, <1>1, <1>2, <1>6 DEF OnceInv, Pending
  <1>8. OnceInv'
    <2>1. RowsOf(cp)' = ToEmit' \cup RowsOf(cp)'
      BY Zenon, <1>6
    <2> QED
      BY Zenon, <1>1, <1>2, <1>3, <1>5, <1>7, <2>1, HandledOnce
  <1>9. TopInv'
    BY Zenon, <1>1, <1>2, <1>3, <1>4, HandledTop
  <1>10. KeysApart'
    BY Zenon, <1>1, <1>2 DEF KeysApart, Change
  <1>11. ProgressInv'
    BY Zenon, <1>1, <1>2, <1>3, <1>7, ReplayProgress
  <1>12. [Promise!Next]_(Promise!vars)
    BY Zenon, <1>2, <1>3, <1>4, HandledAsPromised
  <1> QED
    BY Zenon, <1>8, <1>9, <1>10, <1>11, <1>12

(* Steps that move no row.                                                 *)
LEMMA QuietPromise ==
  ASSUME KeysApart, OnceInv, TopInv,
         UNCHANGED <<rows, first, top, written, deferred, cp>>, ToEmit' = ToEmit,
         pc = "buffer" <=> pc' = "buffer"
  PROVE  KeysApart' /\ OnceInv' /\ TopInv'
  <1>1. KeysApart'
    BY Zenon DEF KeysApart, Change
  <1>2. TopInv'
    BY Zenon DEF TopInv, IdsOf, InsertedIn, Change
  <1>3. Pending' = Pending /\ Current' = Current
    BY Zenon DEF Pending, RowsOf, Current
  <1>4. OnceInv'
    <2>1. /\ RowsOf(deferred)' = RowsOf(deferred) /\ RowsOf(cp)' = RowsOf(cp)
          /\ Distinct(deferred)' = Distinct(deferred) /\ Distinct(cp)' = Distinct(cp)
      BY Zenon DEF Distinct, RowsOf
    <2> QED
      BY Zenon, <1>3, <2>1 DEF OnceInv
  <1> QED
    BY Zenon, <1>1, <1>2, <1>4

LEMMA NextPassPromise ==
  ASSUME PromiseInv, NextPass
  PROVE  /\ KeysApart' /\ OnceInv' /\ ProgressInv' /\ TopInv'
         /\ [Promise!Next]_(Promise!vars)
  <1>1. TypeInv /\ PatchInv /\ KeysApart /\ OnceInv /\ ProgressInv /\ TopInv
    BY Zenon DEF PromiseInv, RefsInv
  <1>2. /\ pc = "emit" /\ pc' \in {"emit", "pass"} /\ ToEmit' = ToEmit
        /\ UNCHANGED <<rows, first, patch, units, cp, len, prevLen,
                       sheet, sheetName, deferred, pool, top, written, stored>>
    BY Zenon, <1>1, NextPassStep
  <1>3. KeysApart' /\ OnceInv' /\ TopInv'
    BY Zenon, <1>1, <1>2, QuietPromise
  <1>4. ProgressInv'
    <2>1. Len(cp) \in Nat /\ Len(deferred) \in Nat
      BY <1>1 DEF TypeInv, TypeOK
    <2>2. len' = -1 /\ Len(cp') + Len(deferred') # len'
      BY <1>1, <1>2, <2>1 DEF ProgressInv
    <2> QED
      BY Zenon, <1>2, <2>2 DEF ProgressInv
  <1>5. UNCHANGED Promise!vars
    BY Zenon, <1>2 DEF Promise!vars, Status
  <1> QED
    BY Zenon, <1>3, <1>4, <1>5

LEMMA StartPassPromise ==
  ASSUME PromiseInv, StartPass
  PROVE  /\ KeysApart' /\ OnceInv' /\ ProgressInv' /\ TopInv'
         /\ [Promise!Next]_(Promise!vars)
  <1>1. TypeInv /\ LoopInv /\ KeysApart /\ OnceInv /\ ProgressInv /\ TopInv
    BY Zenon DEF PromiseInv, RefsInv
  <1>2. /\ pc = "pass" /\ pc' = "replay" /\ len' = Len(deferred) /\ prevLen' = len
        /\ cp' = deferred /\ deferred' = <<>>
        /\ UNCHANGED <<rows, first, patch, top, pool, written>>
    BY Zenon DEF StartPass, patchVars
  <1>3. cp = <<>> /\ Len(deferred) \in Nat /\ Len(cp) = 0 /\ Len(deferred') = 0
    BY <1>1, <1>2 DEF LoopInv, TypeInv, TypeOK
  <1>4. /\ RowsOf(deferred)' = {} /\ RowsOf(cp)' = RowsOf(deferred) /\ RowsOf(cp) = {}
        /\ ToEmit = {} /\ ToEmit' = {}
    BY <1>2, <1>3 DEF RowsOf, ToEmit
  <1>5. OnceInv'
    <2>1. Distinct(deferred)' /\ Distinct(cp)'
      BY Zenon, <1>1, <1>2, <1>3 DEF OnceInv, Distinct
    <2>2. Pending' = Pending /\ Current' = Current
      BY Zenon, <1>2, <1>4 DEF Pending, Current
    <2> QED
      BY Zenon, <1>1, <1>2, <1>4, <2>1, <2>2 DEF OnceInv
  <1>6. ProgressInv'
    <2>1. \A i : Stuck(i)' <=> Stuck(i)
      BY Zenon, <1>2 DEF Stuck, Change, Translatable
    <2>2. Len(cp') + Len(deferred') = len'
      BY <1>2, <1>3
    <2>3. len' = prevLen' => \A i \in RowsOf(deferred) : Stuck(i)
      BY <1>1, <1>2, <1>3 DEF ProgressInv
    <2> QED
      BY Zenon, <1>2, <1>4, <2>1, <2>2, <2>3 DEF ProgressInv
  <1>7. KeysApart' /\ TopInv'
    BY Zenon, <1>1, <1>2 DEF KeysApart, TopInv, IdsOf, InsertedIn, Change
  <1>8. UNCHANGED Promise!vars
    BY Zenon, <1>2 DEF Promise!vars, Status
  <1> QED
    BY Zenon, <1>5, <1>6, <1>7, <1>8

(* mergeDone goes on, gives up on rows that all wait for another, or has   *)
(* nothing left to do.                                                     *)
LEMMA EndPassPromise ==
  ASSUME AllPresent, PromiseInv, EndPass
  PROVE  /\ KeysApart' /\ OnceInv' /\ ProgressInv' /\ TopInv'
         /\ [Promise!Next]_(Promise!vars)
  <1>1. /\ TypeInv /\ PatchInv /\ LoopInv /\ PoolInv
        /\ KeysApart /\ OnceInv /\ ProgressInv /\ TopInv
    BY Zenon DEF PromiseInv, RefsInv
  <1>2. /\ pc = "replay" /\ cp = <<>>
        /\ \/ pc' = "pass"
           \/ len > 0 /\ len = prevLen /\ pc' = "exit"
           \/ len <= 0 /\ pc' = "save"
        /\ UNCHANGED <<rows, first, patch, cp, len, prevLen, deferred, pool, top, written>>
    BY Zenon DEF EndPass, patchVars, deferVars, targetVars
  <1>3. ToEmit = {} /\ ToEmit' = {} /\ RowsOf(cp) = {} /\ Len(cp) = 0
    BY <1>2 DEF ToEmit, RowsOf
  <1>4. Pending = RowsOf(deferred)
    BY Zenon, <1>3 DEF Pending
  <1>5. deferred \in Seq(DeferredRow) /\ Len(deferred) \in Nat /\ len \in Int
    BY <1>1 DEF TypeInv, TypeOK
  <1>6. KeysApart' /\ OnceInv' /\ TopInv'
    BY Zenon, <1>1, <1>2, <1>3, QuietPromise
  <1>7. ProgressInv'
    <2>1. \A i : Stuck(i)' <=> Stuck(i)
      BY Zenon, <1>2 DEF Stuck, Change, Translatable
    <2> QED
      BY Zenon, <1>1, <1>2, <2>1 DEF ProgressInv, RowsOf
  <1> SUFFICES [Promise!Next]_(Promise!vars)
    BY Zenon, <1>6, <1>7
  <1>8. Pending \subseteq Current
    BY Zenon, <1>1, PendingCurrent
  <1>9. Promise!Left = Pending
    BY Zenon, <1>1, <1>2, <1>8, LeftIsPending
  <1>10. CASE pc' = "pass"
    BY Zenon, <1>2, <1>10 DEF Promise!vars, Status
  <1>11. CASE len > 0 /\ len = prevLen /\ pc' = "exit"
    <2>1. Status = "applying" /\ Status' = "stuck"
      BY Zenon, <1>2, <1>11 DEF Status
    <2>2. Len(deferred) = len /\ \A i \in Pending : Stuck(i)
      BY <1>1, <1>2, <1>3, <1>4, <1>5, <1>11 DEF ProgressInv
    <2>3. Pending # {}
      <3>1. 1 \in 1 .. Len(deferred)
        BY <1>5, <1>11, <2>2
      <3> QED
        BY Zenon, <1>4, <3>1 DEF RowsOf
    <2>4. ASSUME NEW i \in Pending
          PROVE  /\ Promise!Change(i).mode = "INSERT"
                 /\ \E t \in RefersTo[Promise!Change(i).table] : ~Promise!Ready(i, t)
      <3>1. Promise!Change(i) = Change(i)
        BY Zenon DEF Promise!Change, Change
      <3>2. Change(i).mode = "INSERT"
        BY Zenon, <2>2 DEF Stuck
      <3>3. PICK t \in RefersTo[Change(i).table] : ~Translatable(t, Change(i).refs[t])
        BY Zenon, <2>2 DEF Stuck
      <3>4. i \in 1 .. Len(rows) /\ i \in Current
        BY <1>1, <1>8 DEF Current, TypeInv, TypeOK
      <3>5. /\ Change(i).table \in Tables
            /\ Change(i).refs \in [RefersTo[Change(i).table] -> Ids]
        BY Zenon, <1>1, <3>4, RowType, ChangeType DEF TypeInv
      <3>6. RefersTo[Change(i).table] \subseteq Tables
        BY Zenon, <3>5, ConstantsOK
      <3>7. t \in Tables /\ Change(i).refs[t] \in Ids
        BY Zenon, <3>5, <3>6
      <3>8. ~Promise!Ready(i, t)
        BY Zenon, <1>1, <1>2, <1>8, <3>3, <3>4, <3>7, ReadyIsTranslatable
      <3> QED
        BY Zenon, <3>1, <3>2, <3>8
    <2>5. Promise!GiveUp
      BY Zenon, <1>2, <1>9, <2>1, <2>3, <2>4 DEF Promise!GiveUp
    <2> QED
      BY Zenon, <2>5 DEF Promise!Next
  <1>12. CASE len <= 0 /\ pc' = "save"
    <2>1. Status = "applying" /\ Status' = "done"
      BY Zenon, <1>2, <1>12 DEF Status
    <2>2. deferred = <<>>
      BY <1>1, <1>2, <1>3, <1>5, <1>12 DEF LoopInv
    <2>3. Pending = {}
      BY <1>4, <2>2 DEF RowsOf
    <2>4. Promise!Finish
      BY Zenon, <1>2, <1>9, <2>1, <2>3 DEF Promise!Finish
    <2> QED
      BY Zenon, <2>4 DEF Promise!Next
  <1> QED
    BY Zenon, <1>2, <1>10, <1>11, <1>12

LEMMA PrescanPromise ==
  ASSUME PromiseInv, Prescan
  PROVE  /\ KeysApart' /\ OnceInv' /\ ProgressInv' /\ TopInv'
         /\ [Promise!Next]_(Promise!vars)
  <1>1. TypeInv /\ PatchInv /\ LoopInv /\ KeysApart /\ OnceInv /\ ProgressInv /\ TopInv
    BY Zenon DEF PromiseInv, RefsInv
  <1>2. /\ pc = "buffer" /\ pc' = "emit"
        /\ UNCHANGED <<rows, first, patch, cp, len, prevLen, deferred, top, written>>
    BY Zenon DEF Prescan, deferVars
  <1>3. Current \subseteq ToEmit'
    BY Zenon, <1>1, PrescanStep
  <1>4. /\ cp' = <<>> /\ deferred' = <<>> /\ RowsOf(cp)' = {} /\ RowsOf(deferred)' = {}
        /\ \A w \in written : w.row < first
    BY <1>1, <1>2 DEF LoopInv, RowsOf
  <1>5. Current' = Current /\ Pending' = Current
    BY Zenon, <1>2, <1>3, <1>4 DEF Current, Pending, ToEmit
  <1>6. \A w \in written : w.row \notin Current
    BY <1>1, <1>4 DEF Current, TypeInv, TypeOK, TargetInv
  <1>7. OnceInv'
    BY <1>1, <1>2, <1>4, <1>5, <1>6 DEF OnceInv, Distinct
  <1>8. KeysApart' /\ ProgressInv' /\ TopInv'
    BY Zenon, <1>1, <1>2 DEF KeysApart, ProgressInv, TopInv, IdsOf, InsertedIn, Change
  <1>9. Promise!Begin
    BY Zenon, <1>2 DEF Promise!Begin, Status
  <1> QED
    BY Zenon, <1>7, <1>8, <1>9 DEF Promise!Next

LEMMA FilterChangeRowPromise ==
  ASSUME PromiseInv, NEW c \in RowChange, FilterChangeRow(c)
  PROVE  /\ KeysApart' /\ OnceInv' /\ ProgressInv' /\ TopInv'
         /\ [Promise!Next]_(Promise!vars)
  <1>1. TypeInv /\ PatchInv /\ LoopInv /\ KeysApart /\ OnceInv /\ ProgressInv /\ TopInv
    BY Zenon DEF PromiseInv, RefsInv
  <1> DEFINE r == [patch |-> patch, change |-> c]
  <1>2. /\ pc = "buffer" /\ rows' = Append(rows, r)
        /\ c.mode = "INSERT" =>
             \A i \in Current : ~ (/\ Change(i).mode = "INSERT"
                                   /\ Change(i).table = c.table
                                   /\ Change(i).key = c.key)
        /\ UNCHANGED <<first, patch, pc, cp, len, prevLen, deferred, top, written>>
    BY Zenon DEF FilterChangeRow, deferVars, targetVars
  <1>3. rows \in Seq(Row) /\ first \in Nat \ {0} /\ patch \in Nat /\ Len(rows) \in Nat
    BY <1>1 DEF TypeInv, TypeOK
  <1>4. r \in Row /\ r.patch = patch /\ r.change = c
    BY Zenon, <1>3 DEF Row
  <1>5. Promise!Read(c)
    BY Zenon, <1>2 DEF Promise!Read, Status
  <1> HIDE DEF r
  <1>6. /\ Len(rows') = Len(rows) + 1 /\ rows'[Len(rows) + 1] = r
        /\ \A i \in 1 .. Len(rows) : rows'[i] = rows[i]
    BY <1>2, <1>3, <1>4
  <1>7. KeysApart'
    <2>0. PICK n : n = Len(rows) + 1
      OBVIOUS
    <2>1. \A i \in 1 .. Len(rows) : Change(i)' = Change(i)
      BY Zenon, <1>6 DEF Change
    <2>2. Change(n)' = c /\ rows'[n].patch = patch
      BY Zenon, <1>4, <1>6, <2>0 DEF Change
    <2>3. ASSUME NEW i \in 1 .. Len(rows), rows'[i].patch = patch,
                 Change(i)'.mode = "INSERT", c.mode = "INSERT",
                 Change(i)'.table = c.table, Change(i)'.key = c.key
          PROVE  FALSE
      <3>1. rows[i].patch = patch /\ Change(i)' = Change(i)
        BY Zenon, <1>6, <2>1, <2>3
      <3>2. i \in Current
        BY <1>1, <1>3, <3>1 DEF PatchInv, Current
      <3> QED
        BY Zenon, <1>2, <2>3, <3>1, <3>2
    <2>4. \A i \in 1 .. Len(rows') : i \in 1 .. Len(rows) \/ i = n
      BY <1>3, <1>6, <2>0
    <2>5. SUFFICES ASSUME NEW i \in 1 .. Len(rows'), NEW j \in 1 .. Len(rows'),
                          rows'[i].patch = rows'[j].patch,
                          Change(i)'.mode = "INSERT", Change(j)'.mode = "INSERT",
                          Change(i)'.table = Change(j)'.table, Change(i)'.key = Change(j)'.key
                   PROVE  i = j
      BY Zenon DEF KeysApart
    <2>6. CASE i \in 1 .. Len(rows) /\ j \in 1 .. Len(rows)
      BY Zenon, <1>1, <1>6, <2>1, <2>5, <2>6 DEF KeysApart
    <2>7. CASE i = n /\ j \in 1 .. Len(rows)
      BY Zenon, <2>2, <2>3, <2>5, <2>7
    <2>8. CASE j = n /\ i \in 1 .. Len(rows)
      BY Zenon, <2>2, <2>3, <2>5, <2>8
    <2> QED
      BY Zenon, <2>4, <2>6, <2>7, <2>8
  <1>8. /\ RowsOf(cp)' = {} /\ RowsOf(deferred)' = {} /\ ToEmit' = {}
        /\ cp' = <<>> /\ deferred' = <<>>
    BY <1>1, <1>2 DEF LoopInv, RowsOf, ToEmit
  <1>9. OnceInv'
    <2>1. Pending' = {}
      BY Zenon, <1>8 DEF Pending
    <2>2. Distinct(deferred)' /\ Distinct(cp)'
      BY <1>8 DEF Distinct
    <2>3. pc' = "buffer" /\ written' = written
      BY Zenon, <1>2
    <2> QED
      BY Zenon, <1>1, <1>8, <2>1, <2>2, <2>3 DEF OnceInv
  <1>10. ProgressInv'
    BY Zenon, <1>1, <1>2 DEF ProgressInv
  <1>11. TopInv'
    <2>1. \A w \in written : Change(w.row)' = Change(w.row)
      BY Zenon, <1>1, <1>6 DEF TypeInv, TargetInv, Change
    <2>2. \A t : InsertedIn(t)' = InsertedIn(t)
      BY Zenon, <1>2, <2>1 DEF InsertedIn
    <2> QED
      BY Zenon, <1>1, <1>2, <2>2 DEF TopInv, IdsOf
  <1> QED
    BY Zenon, <1>5, <1>7, <1>9, <1>10, <1>11 DEF Promise!Next

LEMMA NextPatchPromise ==
  ASSUME PromiseInv, NextPatch
  PROVE  /\ KeysApart' /\ OnceInv' /\ ProgressInv' /\ TopInv'
         /\ [Promise!Next]_(Promise!vars)
  <1>1. TypeInv /\ KeysApart /\ OnceInv /\ TopInv
    BY Zenon DEF PromiseInv
  <1>2. /\ pc = "done" /\ pc' = "buffer" /\ patch' = patch + 1
        /\ deferred' = <<>> /\ cp' = <<>> /\ len' = -1
        /\ UNCHANGED <<rows, top, written>>
    BY Zenon DEF NextPatch
  <1>3. RowsOf(cp)' = {} /\ RowsOf(deferred)' = {} /\ ToEmit' = {}
    BY <1>2 DEF RowsOf, ToEmit
  <1>4. OnceInv'
    BY <1>1, <1>2, <1>3 DEF OnceInv, Distinct, Pending
  <1>5. KeysApart' /\ ProgressInv' /\ TopInv'
    BY Zenon, <1>1, <1>2 DEF KeysApart, ProgressInv, TopInv, IdsOf, InsertedIn, Change
  <1>6. Promise!NextPatch
    BY Zenon, <1>2 DEF Promise!NextPatch, Status
  <1> QED
    BY Zenon, <1>4, <1>5, <1>6 DEF Promise!Next

(* The other steps are none of the promise.                                *)
LEMMA StutterPromise ==
  ASSUME PromiseInv, ToEmit' = ToEmit, Status' = Status, pc' = pc \/ (pc = "save" /\ pc' = "done"),
         UNCHANGED <<rows, first, patch, cp, len, prevLen, deferred, pool, top, written>>
  PROVE  /\ KeysApart' /\ OnceInv' /\ ProgressInv' /\ TopInv'
         /\ [Promise!Next]_(Promise!vars)
  <1>1. KeysApart /\ OnceInv /\ ProgressInv /\ TopInv
    BY Zenon DEF PromiseInv
  <1>2. pc = "buffer" <=> pc' = "buffer"
    OBVIOUS
  <1>3. KeysApart' /\ OnceInv' /\ TopInv'
    BY Zenon, <1>1, <1>2, QuietPromise
  <1>4. ProgressInv'
    <2>1. \A i : Stuck(i)' <=> Stuck(i)
      BY Zenon DEF Stuck, Change, Translatable
    <2> QED
      BY Zenon, <1>1, <2>1 DEF ProgressInv, RowsOf
  <1>5. UNCHANGED Promise!vars
    BY Zenon DEF Promise!vars
  <1> QED
    BY Zenon, <1>3, <1>4, <1>5

LEMMA InitPromise == Init => PromiseInv /\ Promise!Init
  <1> SUFFICES ASSUME Init PROVE PromiseInv /\ Promise!Init
    OBVIOUS
  <1>1. /\ rows = <<>> /\ patch = 1 /\ pc = "buffer" /\ deferred = <<>> /\ cp = <<>>
        /\ len = -1 /\ top = [t \in Tables |-> BaseTop] /\ written = {}
    BY Zenon DEF Init
  <1>2. TypeInv /\ RefsInv
    BY Zenon, InitTypeInv, InitRefs
  <1>3. KeysApart /\ OnceInv /\ ProgressInv
    BY <1>1 DEF KeysApart, OnceInv, ProgressInv, Distinct, Pending, RowsOf, ToEmit
  <1>4. TopInv
    <2>1. \A t : InsertedIn(t) = {}
      BY Zenon, <1>1 DEF InsertedIn
    <2>2. BaseTop \in Nat
      BY Zenon, ConstantsOK
    <2>3. \A t : IdsOf(t) = {BaseTop}
      BY Zenon, <2>1 DEF IdsOf
    <2> QED
      BY <1>1, <2>2, <2>3 DEF TopInv
  <1>5. Promise!Init
    BY Zenon, <1>1 DEF Promise!Init, Status
  <1> QED
    BY Zenon, <1>2, <1>3, <1>4, <1>5 DEF PromiseInv

(* Every step keeps the invariant, and is a step of the promise or none.   *)
LEMMA NextPromise ==
  ASSUME AllPresent, NoTableTwice, PromiseInv, [Next]_vars
  PROVE  PromiseInv' /\ [Promise!Next]_(Promise!vars)
  <1>1. TypeInv /\ RefsInv
    BY Zenon DEF PromiseInv
  <1>2. TypeInv' /\ RefsInv'
    BY Zenon, <1>1, NextTypeInv, NextRefs
  <1> DEFINE Goal == /\ KeysApart' /\ OnceInv' /\ ProgressInv' /\ TopInv'
                     /\ [Promise!Next]_(Promise!vars)
  <1>3. SUFFICES Goal
    BY Zenon, <1>2 DEF PromiseInv
  <1>4. ASSUME NEW t \in Tables, FilterSetSheet(t) PROVE Goal
    <2>1. UNCHANGED <<rows, first, patch, pc, pass, at, cp, len, prevLen, deferred, pool, top, written>>
      BY Zenon, <1>4 DEF FilterSetSheet, emitVars, deferVars, targetVars
    <2>2. ToEmit' = ToEmit /\ Status' = Status
      BY Zenon, <2>1 DEF ToEmit, Current, Change, Passes, Desired, Status
    <2> QED
      BY Zenon, <2>1, <2>2, StutterPromise
  <1>5. ASSUME NEW c \in RowChange, FilterChangeRow(c) PROVE Goal
    BY Zenon, <1>5, FilterChangeRowPromise
  <1>6. CASE Prescan
    BY Zenon, <1>6, PrescanPromise
  <1>7. CASE EmitRow
    BY Zenon, <1>7, EmitRowPromise
  <1>8. CASE SkipRow
    <2>1. /\ ToEmit' = ToEmit
          /\ UNCHANGED <<rows, first, patch, units, pc, pass, cp, len, prevLen,
                         sheet, sheetName, deferred, pool, top, written, stored>>
      BY Zenon, <1>1, <1>8, SkipRowStep
    <2> QED
      BY Zenon, <2>1, StutterPromise DEF Status
  <1>9. ASSUME NEW t \in Tables, EmitPreamble(t) PROVE Goal
    <2>1. UNCHANGED <<rows, first, patch, pc, pass, at, cp, len, prevLen, deferred, pool, top, written>>
      BY Zenon, <1>9 DEF EmitPreamble, deferVars, targetVars
    <2>2. ToEmit' = ToEmit /\ Status' = Status
      BY Zenon, <2>1 DEF ToEmit, Current, Change, Passes, Desired, Status
    <2> QED
      BY Zenon, <2>1, <2>2, StutterPromise
  <1>10. CASE NextPass
    BY Zenon, <1>10, NextPassPromise
  <1>11. CASE StartPass
    BY Zenon, <1>11, StartPassPromise
  <1>12. CASE ReplayRow
    BY Zenon, <1>12, ReplayRowPromise
  <1>13. CASE EndPass
    BY Zenon, <1>13, EndPassPromise
  <1>14. CASE SavePool
    <2>1. /\ pc = "save" /\ pc' = "done"
          /\ UNCHANGED <<rows, first, patch, cp, len, prevLen, deferred, pool, top, written>>
      BY Zenon, <1>14 DEF SavePool, patchVars, deferVars, targetVars
    <2>2. ToEmit' = ToEmit /\ Status' = Status
      BY Zenon, <2>1 DEF ToEmit, Status
    <2> QED
      BY Zenon, <2>1, <2>2, StutterPromise
  <1>15. CASE NextPatch
    BY Zenon, <1>15, NextPatchPromise
  <1>16. CASE UNCHANGED vars
    <2>1. UNCHANGED <<rows, first, patch, pc, pass, at, cp, len, prevLen, deferred, pool, top, written>>
      BY Zenon, <1>16 DEF vars
    <2>2. ToEmit' = ToEmit /\ Status' = Status
      BY Zenon, <2>1 DEF ToEmit, Current, Change, Passes, Desired, Status
    <2> QED
      BY Zenon, <2>1, <2>2, StutterPromise
  <1> QED
    BY Zenon, <1>4, <1>5, <1>6, <1>7, <1>8, <1>9, <1>10, <1>11, <1>12, <1>13, <1>14, <1>15, <1>16
       DEF Next, Running

(* The filter, the pool with its placeholders, the deferred rows and the   *)
(* retry loop implement DependencyApply, for any number of patches, rows   *)
(* and tables: each row is written once, after the rows it refers to and   *)
(* with the ids that they were given, and mergeDone ends with nothing left *)
(* or gives up when every row left waits for one that is not written.      *)
THEOREM PromiseIsKept ==
  ASSUME AllPresent, NoTableTwice
  PROVE  Spec => KeepsPromise
  <1>1. Init => PromiseInv /\ Promise!Init
    BY Zenon, InitPromise
  <1>2. PromiseInv /\ [Next]_vars => PromiseInv' /\ [Promise!Next]_(Promise!vars)
    BY Zenon, NextPromise
  <1> QED
    BY <1>1, <1>2, PTL DEF Spec, KeepsPromise, Promise!Spec
=============================================================================
