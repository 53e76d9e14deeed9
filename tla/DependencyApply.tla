-------------------------- MODULE DependencyApply --------------------------
(***************************************************************************)
(* What a user is promised of a patch whose rows refer to each other,      *)
(* without pools, placeholders, sheets and deferred rows: the rows are     *)
(* written one by one, in any order in which a row comes after the rows it *)
(* refers to, and a reference to a new row is the id that the target gave  *)
(* that row.  The program ends when all rows are written, or gives up when *)
(* each row left waits for another.                                        *)
(***************************************************************************)
EXTENDS Integers, Sequences

CONSTANTS
  Present,    \* the tables that the target has
  Inventors,  \* the tables that give their rows ids
  RefersTo,   \* RefersTo[t]: the tables that foreign keys of t refer to
  BaseTop,    \* the highest id in the target's tables at first
  RowChange   \* the changes a patch may have

VARIABLES
  rows,       \* the row changes of all patches so far, with their patch
  patch,      \* the number of the current patch
  written,    \* rows written: which change, where, as what
  status      \* "reading", "applying", "done" or "stuck"

vars == <<rows, patch, written, status>>

Change(i) == rows[i].change
IsWritten(i) == \E w \in written : w.row = i

(* The rows of the current patch that are still to be written.  Rows of a  *)
(* table that the target does not have never are.                          *)
Left == {i \in DOMAIN rows : /\ rows[i].patch = patch
                             /\ Change(i).table \in Present /\ ~IsWritten(i)}

(* The rows that create what row i refers to in table t, in its patch or   *)
(* before, and the one of the latest patch.                                *)
Creators(i, t) ==
  {j \in DOMAIN rows : /\ t \in Inventors \cap Present
                       /\ Change(j).mode = "INSERT" /\ Change(j).table = t
                       /\ Change(j).key = Change(i).refs[t]
                       /\ rows[j].patch <= rows[i].patch}

Creator(i, t) ==
  CHOOSE j \in Creators(i, t) :
    \A k \in Creators(i, t) : rows[k].patch <= rows[j].patch

Ready(i, t) == Creators(i, t) = {} \/ IsWritten(Creator(i, t))

Reference(i, t) ==
  IF Creators(i, t) = {} THEN Change(i).refs[t]
  ELSE (CHOOSE w \in written : w.row = Creator(i, t)).id

(* A table gives a new row the id after the highest that it has.           *)
Given(t) ==
  {BaseTop} \cup {w.id : w \in {v \in written : /\ v.table = t
                                               /\ Change(v.row).mode = "INSERT"}}

NextId(t) == (CHOOSE n \in Given(t) : \A m \in Given(t) : m <= n) + 1

Init == rows = <<>> /\ patch = 1 /\ written = {} /\ status = "reading"

Read(c) ==
  /\ status = "reading"
  /\ rows' = Append(rows, [patch |-> patch, change |-> c])
  /\ UNCHANGED <<patch, written, status>>

Begin ==
  /\ status = "reading" /\ status' = "applying"
  /\ UNCHANGED <<rows, patch, written>>

Write(i, id, refs) ==
  /\ status = "applying"
  /\ written' = written \cup {[row |-> i, table |-> Change(i).table,
                               id |-> id, refs |-> refs]}
  /\ UNCHANGED <<rows, patch, status>>

Insert(i) ==
  LET t == Change(i).table
  IN /\ Change(i).mode = "INSERT"
     /\ \A u \in RefersTo[t] : Ready(i, u)
     /\ Write(i, NextId(t), [u \in RefersTo[t] |-> Reference(i, u)])

(* An update is not translated.                                            *)
Update(i) == Change(i).mode = "UPDATE" /\ Write(i, Change(i).key, Change(i).refs)

Finish ==
  /\ status = "applying" /\ Left = {} /\ status' = "done"
  /\ UNCHANGED <<rows, patch, written>>

GiveUp ==
  /\ status = "applying" /\ Left # {} /\ status' = "stuck"
  /\ \A i \in Left : /\ Change(i).mode = "INSERT"
                     /\ \E u \in RefersTo[Change(i).table] : ~Ready(i, u)
  /\ UNCHANGED <<rows, patch, written>>

NextPatch ==
  /\ status = "done" /\ status' = "reading" /\ patch' = patch + 1
  /\ UNCHANGED <<rows, written>>

Next == \/ \E c \in RowChange : Read(c)
        \/ Begin \/ Finish \/ GiveUp \/ NextPatch
        \/ \E i \in Left : Insert(i) \/ Update(i)

Spec == Init /\ [][Next]_vars
=============================================================================
