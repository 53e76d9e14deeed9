------------------------------ MODULE SqlDiff ------------------------------
(***************************************************************************)
(* The difference of two tables of one database as a script: SqlCompare    *)
(* finds the rows to insert, to update and to delete with three queries,   *)
(* MergeOutputSqlDiff writes a statement for each, and the Sqlite shell    *)
(* runs the script on the local table, one statement at a time, going on   *)
(* after an error.  A row is a key and a datum; the key is TEXT PRIMARY    *)
(* KEY, so it may be NULL in any number of rows.                           *)
(***************************************************************************)
EXTENDS SqlCells, Selection, Functions

VARIABLES
    unique,          \* whether the datum is UNIQUE as well
    local, remote,   \* the two tables, in the order of their ROWIDs
    table,           \* the local table, while the script runs
    script           \* the statements still to run

diffVars == <<unique, local, remote, table, script>>

Row == (Values \cup {Null}) \X (Values \cup {Null})

DiffTables == UNION {[1 .. n -> Row] : n \in 0 .. MaxRows}

(* No two rows have the same key, or the same unique datum; NULLs differ.  *)
Allowed(rows) ==
    \A x \in IF unique THEN {1, 2} ELSE {1} : \A i, j \in DOMAIN rows :
        i # j /\ rows[i][x] # Null => rows[i][x] # rows[j][x]
-----------------------------------------------------------------------------
(* SqlCompare::apply.  Keys are compared with IS, for which NULLs are      *)
(* equal; the condition of an update or deletion has every column.         *)

InsertOf(row) == [mode |-> "INSERT", cond |-> row, val |-> row]

(* Mutant: an update looks for the new row and writes the old one.         *)
UpdateOfSwapped(row, new) == [mode |-> "UPDATE", cond |-> new, val |-> row]

UpdateOf(row, new) == [mode |-> "UPDATE", cond |-> row, val |-> new]

DeleteOf(row) == [mode |-> "DELETE", cond |-> row, val |-> row]

Unmatched(rows, others) ==
    Only(rows, {r \in Range(rows) : \A o \in Range(others) : o[1] # r[1]})

Mapped(rows, Op(_)) == [i \in DOMAIN rows |-> Op(rows[i])]

(* The pairs of an inner join on the key whose data differ.                *)
Mismatched(rows, others) ==
    LET differ(r) ==
          Only(others, {o \in Range(others) : o[1] = r[1] /\ o[2] # r[2]})
        updates(r) == Mapped(differ(r), LAMBDA o : UpdateOf(r, o))
        joined[i \in 0 .. Len(rows)] ==
          IF i = 0 THEN <<>> ELSE joined[i - 1] \o updates(rows[i])
    IN  joined[Len(rows)]

Statements ==
    Mapped(Unmatched(remote, local), InsertOf)
      \o Mismatched(local, remote)
      \o Mapped(Unmatched(local, remote), DeleteOf)
-----------------------------------------------------------------------------
(* The script run: conditions are written with =, even for NULL, which     *)
(* then selects nothing.                                                   *)

(* Mutant: the condition leaves the key out.                               *)
SelectsDatum(cond, row) == Null \notin {cond[1], cond[2]} /\ row[2] = cond[2]

Selects(cond, row) == Null \notin {cond[1], cond[2]} /\ row = cond

Run(st, rows) ==
    IF st.mode = "INSERT" THEN Append(rows, st.val)
    ELSE IF st.mode = "UPDATE"
    THEN Mapped(rows, LAMBDA r : IF Selects(st.cond, r) THEN st.val ELSE r)
    ELSE Only(rows, {r \in Range(rows) : ~Selects(st.cond, r)})

DiffInit ==
    /\ unique \in BOOLEAN
    /\ local \in DiffTables /\ Allowed(local)
    /\ remote \in DiffTables /\ Allowed(remote)
    /\ table = local
    /\ script = Statements

(* A statement that breaks a constraint changes nothing.                   *)
Execute ==
    LET rows == Run(Head(script), table)
    IN  /\ script # <<>>
        /\ script' = Tail(script)
        /\ table' = IF Allowed(rows) THEN rows ELSE table
        /\ UNCHANGED <<unique, local, remote>>

Ended == script = <<>> /\ UNCHANGED diffVars

DiffNext == Execute \/ Ended

DiffSpec == DiffInit /\ [][DiffNext]_diffVars
-----------------------------------------------------------------------------
(* Once run, the script of SqlCompare and MergeOutputSqlDiff has made the  *)
(* local table the remote one, when every row has a key, no row to update  *)
(* or delete has a NULL, and no datum must be unique.                      *)
ScriptGivesRemote ==
    (/\ script = <<>> /\ ~unique
     /\ \A row \in Range(local) \cup Range(remote) : row[1] # Null
     /\ \A row \in Range(local) \ Range(remote) : row[2] # Null) =>
      Range(table) = Range(remote) /\ Len(table) = Len(remote)

(* However far the script has run, and whatever statement of it failed or  *)
(* selected nothing, every row is a row of one of the two tables, and the  *)
(* rows that they share are there (MergeOutputSqlDiff::getText).           *)
RowsOfEither ==
    /\ Range(table) \subseteq Range(local) \cup Range(remote)
    /\ Range(local) \cap Range(remote) \subseteq Range(table)
=============================================================================
