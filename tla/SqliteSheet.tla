---------------------------- MODULE SqliteSheet ----------------------------
(***************************************************************************)
(* A patch applied to a table of a Sqlite database: SqliteSheet, which     *)
(* shows a table as a sheet of numbered rows and columns, and the part of  *)
(* SheetPatcher that changes it.  The sheet knows a row by its ROWID       *)
(* (row2sql), a column by its name (col2sql), and keeps the cells it has   *)
(* read (cache).  A row change is one statement or one per cell, each      *)
(* committed by itself; a column change, except an addition at the end,    *)
(* copies the table aside, drops it, creates it anew and copies the rows   *)
(* back, in one transaction that an error leaves open.                     *)
(*                                                                         *)
(* The members of the sheet and its database are one record, s:            *)
(*   table    the table as this connection sees it, NoTable if dropped     *)
(*   undo     the table a rollback returns to; NoTable when no transaction *)
(*            is open                                                      *)
(*   strayed  some ROWID changed and row2sql did not (history)             *)
(*   refused  some row statement failed (history)                          *)
(*   misread  a cell was read that showed another cell's value (history)   *)
(* The cache numbers its cells by the width the table had at first         *)
(* (stride): in a sheet that became wider, the last cells of a row have    *)
(* the numbers of the first cells of the next.                             *)
(* A column name is a sequence of letters, because insertColumn compares   *)
(* prefixes.                                                               *)
(***************************************************************************)
EXTENDS SqlCells, Sequences, SequencesExt, FiniteSets

CONSTANTS
    K, D,              \* the columns at first: the primary key, and another
    NewNames,          \* the names a patch gives to columns
    Underscore,        \* the letter that insertColumn appends
    Missing,           \* what reading a row that is not there shows
    NoTable,
    MaxRowId,          \* ROWIDs at first are at most this
    MaxChanges         \* changes in the patch

VARIABLES
    kind,        \* "alias": K INTEGER PRIMARY KEY; "text": K TEXT PRIMARY KEY;
                 \* "unique": so too, with UNIQUE(D) after the columns
    s,           \* the sheet and its database
    activeCol,   \* SheetPatcher: the columns as the patcher believes them
    pc,          \* "columns", "rename", "rows"; "exit" when the program ended
    renamed,     \* the column being renamed, its rows copied so far
    changes,     \* changes applied so far
    linked,      \* the identifiers put in the pool for inserted rows
    want,        \* history: the rows as the patch asks for them
    clashed,     \* history: a new name began the name of another column
    gaps         \* history: the ROWIDs at first were not 1, 2, 3...

vars == <<kind, s, activeCol, pc, renamed, changes, linked, want,
          clashed, gaps>>
-----------------------------------------------------------------------------
(* The database engine. *)

Cells == Values \cup {Null}

InOrder(ids) ==
    [y \in 1..Cardinality(ids) |->
       CHOOSE i \in ids : Cardinality({j \in ids : j < i}) = y - 1]

Has(t, c) == t # NoTable /\ c \in ToSet(t.cols)

Position(c, t) == SelectInSeq(t.cols, LAMBDA n : n = c)

(* Whether c stands for the ROWID itself. *)
IsAlias(t, c) == kind = "alias" /\ c = K /\ Has(t, c)

Unique(t) == {c \in {K} \cup IF kind = "unique" THEN {D} ELSE {} : Has(t, c)}

(* The uniqueness constraints hold; NULLs are never equal. *)
Fits(t) ==
    \A c \in Unique(t) : \A i, j \in DOMAIN t.rows :
        LET x == Position(c, t)
        IN  i # j /\ t.rows[i][x] # Null => t.rows[i][x] # t.rows[j][x]

NextRowId(t) ==
    IF DOMAIN t.rows = {} THEN 1
    ELSE 1 + CHOOSE i \in DOMAIN t.rows : \A j \in DOMAIN t.rows : j <= i
-----------------------------------------------------------------------------
(* SqliteSheet: cells and rows. *)

height(t) == Len(t.row2sql)

(* SparseSheet keeps the cell in column x of row y under this number.      *)
Slot(t, x, y) == (y - 1) * t.stride + x

(* Two SparseSheets, cache and cacheFlag, filled in the order of the       *)
(* ROWIDs: of the cells with one number the last is kept, except that a    *)
(* flag once set for a NULL stays, and is looked at first.                 *)
Filled(t) ==
    LET ids     == InOrder(DOMAIN t.table.rows)
        places  == (1..t.w) \X DOMAIN ids
        read(p) == t.table.rows[ids[p[2]]][p[1]]
        at(n)   == {p \in places : Slot(t, p[1], p[2]) = n}
        last(n) == CHOOSE p \in at(n) : \A q \in at(n) : q[2] <= p[2]
    IN  [n \in {Slot(t, p[1], p[2]) : p \in places} |->
           IF \E p \in at(n) : read(p) = Null THEN Null ELSE read(last(n))]

(* The cells are all read when the first one is wanted, and not again;     *)
(* clearCache forgets them for good.                                       *)
check(t) ==
    IF ~t.pending_load THEN t
    ELSE [t EXCEPT !.pending_load = FALSE,
                   !.cache = IF t.table = NoTable THEN <<>> ELSE Filled(t)]

cellString(t, x, y) ==
    LET c == check(t)
        n == Slot(c, x, y)
    IN  IF n \in DOMAIN c.cache THEN c.cache[n]
        ELSE IF c.table = NoTable THEN Missing
        ELSE IF c.row2sql[y] \notin DOMAIN c.table.rows THEN Missing
        ELSE c.table.rows[c.row2sql[y]][x]

(* A NULL sets the flag and another value removes it.                      *)
Cached(t, x, y, v) == [t EXCEPT !.cache = (Slot(t, x, y) :> v) @@ @]

(* UPDATE ... SET column x = v WHERE ROWID = row2sql[y]: the cache changes *)
(* first, whatever becomes of the statement.                               *)
setCell(t, x, y, v) ==
    LET c     == Cached(check(t), x, y, v)
        rid   == c.row2sql[y]
        col   == c.col2sql[x]
        n     == Position(col, c.table)
        rows  == [c.table.rows EXCEPT ![rid][n] = v]
        alias == IsAlias(c.table, col)
        moved == [i \in (DOMAIN rows \ {rid}) \cup {v} |->
                    IF i = v THEN rows[rid] ELSE rows[i]]
        new   == [c.table EXCEPT !.rows = IF alias THEN moved ELSE rows]
        taken == alias /\ (v = Null \/ v \in DOMAIN rows \ {rid})
    IN  IF ~Has(c.table, col) THEN [c EXCEPT !.refused = TRUE]
        ELSE IF rid \notin DOMAIN c.table.rows THEN c
        ELSE IF taken \/ ~Fits(new) THEN [c EXCEPT !.refused = TRUE]
        ELSE [c EXCEPT !.table = new, !.strayed = @ \/ (alias /\ v # rid)]

(* Mutant: the cache is kept.                                              *)
deleteRowCached(t, y) ==
    IF t.table = NoTable THEN [t EXCEPT !.refused = TRUE]
    ELSE [t EXCEPT !.table.rows =
                     [i \in DOMAIN @ \ {t.row2sql[y]} |-> @[i]],
                   !.row2sql = RemoveAt(@, y)]

deleteRow(t, y) ==
    LET c == [t EXCEPT !.cache = <<>>]
    IN  IF c.table = NoTable THEN [c EXCEPT !.refused = TRUE]
        ELSE [c EXCEPT !.table.rows =
                         [i \in DOMAIN @ \ {c.row2sql[y]} |-> @[i]],
                       !.row2sql = RemoveAt(@, y)]

(* INSERT with the given cells (NULL where none is); an invented cell is   *)
(* left to the database, and the ROWID that it chose is cached there.      *)
(* With nothing given, insertRow makes the row and forgets the cache.      *)
applyRowCache(t, cells, invented) ==
    LET c     == check(t)
        keys  == {x \in 1..t.w \ invented : IsAlias(c.table, c.col2sql[x])
                                              /\ cells[x] # Null}
        rid   == IF keys = {} THEN NextRowId(c.table)
                 ELSE cells[CHOOSE x \in keys : TRUE]
        given == [n \in DOMAIN c.table.cols |->
                    {x \in 1..t.w \ invented : c.col2sql[x] = c.table.cols[n]}]
        row   == [n \in DOMAIN c.table.cols |->
                    IF IsAlias(c.table, c.table.cols[n]) THEN rid
                    ELSE IF given[n] = {} THEN Null
                    ELSE cells[CHOOSE x \in given[n] : TRUE]]
        new   == [c.table EXCEPT !.rows = (rid :> row) @@ @]
        put   == IF invented = 1..t.w THEN <<>>
                 ELSE [n \in {Slot(c, x, height(c) + 1) : x \in invented} |-> rid]
                        @@ c.cache
    IN  IF c.table = NoTable THEN [c EXCEPT !.refused = TRUE]
        ELSE IF rid \in DOMAIN c.table.rows \/ ~Fits(new)
        THEN [c EXCEPT !.refused = TRUE]
        ELSE [c EXCEPT !.table = new, !.cache = put,
                       !.row2sql = Append(@, rid)]

deleteData(t) ==
    LET c == [check(t) EXCEPT !.cache = <<>>]
    IN  IF c.table = NoTable THEN c
        ELSE [c EXCEPT !.table.rows = <<>>, !.row2sql = <<>>]
-----------------------------------------------------------------------------
(* SqliteSheet and SqliteSchema: columns.  from[n] is the position that    *)
(* column n has now, 0 for a new one.                                      *)

Picked(row, from) ==
    [n \in DOMAIN from |-> IF from[n] = 0 THEN Null ELSE row[from[n]]]

Same(t) == [x \in 1..t.w |-> x]

(* CREATE TABLE is refused when UNIQUE(D) names no column or a column      *)
(* definition follows it.                                                  *)
CanCreate(cols, atEnd) == kind = "unique" => D \in ToSet(cols) /\ ~atEnd

(* Mutant: the rows copied back are numbered from 0.                       *)
CopiedFromZero(t, from) ==
    LET ids == InOrder(DOMAIN t.table.rows)
    IN  [cols |-> t.col2sql,
         rows |-> [i \in 0..(Len(ids) - 1) |->
                     Picked(t.table.rows[ids[i + 1]], from)]]

(* The rows copied back get their ROWIDs anew, unless a column holds them. *)
Copied(t, from) ==
    LET cols == t.col2sql
        ids  == InOrder(DOMAIN t.table.rows)
        kept == kind = "alias" /\ K \in ToSet(cols)
    IN  [cols |-> cols,
         rows |-> [i \in IF kept THEN ToSet(ids) ELSE DOMAIN ids |->
                     Picked(t.table.rows[IF kept THEN i ELSE ids[i]], from)]]

(* Mutant: no transaction, so that a failure after DROP cannot be undone.  *)
applyCommitting(t, from, atEnd) ==
    IF from = <<>> THEN t
    ELSE IF ~CanCreate(t.col2sql, atEnd) THEN [t EXCEPT !.table = NoTable]
    ELSE [t EXCEPT !.table = Copied(t, from)]

(* SqliteSchema::apply.  BEGIN fails in an open transaction; the copy      *)
(* cannot be made without columns; a failure after DROP leaves no table.   *)
apply(t, from, atEnd) ==
    IF t.undo # NoTable THEN t
    ELSE IF from = <<>> THEN [t EXCEPT !.undo = t.table]
    ELSE IF ~CanCreate(t.col2sql, atEnd)
    THEN [t EXCEPT !.undo = t.table, !.table = NoTable]
    ELSE LET new == Copied(t, from)
         IN  [t EXCEPT !.table = new,
                       !.strayed = @ \/ DOMAIN new.rows # DOMAIN t.table.rows]

deleteColumn(t, x) ==
    apply([t EXCEPT !.cache = <<>>, !.col2sql = RemoveAt(@, x), !.w = @ - 1],
          RemoveAt(Same(t), x), FALSE)

MovedTo(seq, x, b) ==
    LET at == IF b = 0 THEN Len(seq) ELSE IF b > x THEN b - 1 ELSE b
    IN  InsertAt(RemoveAt(seq, x), at, seq[x])

moveColumn(t, x, b) ==
    apply([t EXCEPT !.cache = <<>>, !.col2sql = MovedTo(@, x, b)],
          MovedTo(Same(t), x, b), b = 0)

(* Mutant: an underscore is appended whether the name is taken or not.     *)
SuggestedAnew(cols, name) == Append(name, Underscore)

(* The wanted name, or, when columns begin with it, the last of the        *)
(* longest of them with an underscore.                                     *)
Suggested(cols, name) ==
    LET begin == {x \in DOMAIN cols : IsPrefix(name, cols[x])}
        best  == CHOOSE x \in begin : \A z \in begin :
                   \/ Len(cols[z]) < Len(cols[x])
                   \/ Len(cols[z]) = Len(cols[x]) /\ z <= x
    IN  IF begin = {} THEN name ELSE Append(cols[best], Underscore)

(* At the end (b = 0) with ALTER TABLE, else with a copy of the table.     *)
insertColumn(t, b, name) ==
    LET c     == [t EXCEPT !.cache = <<>>]
        col   == Suggested(c.col2sql, name)
        added == [cols |-> Append(c.table.cols, col),
                  rows |-> [i \in DOMAIN c.table.rows |->
                              Append(c.table.rows[i], Null)]]
        done  == apply([c EXCEPT !.col2sql = InsertAt(@, b, col)],
                       InsertAt(Same(c), b, 0), FALSE)
    IN  IF b = 0
        THEN IF c.table = NoTable THEN c
             ELSE [c EXCEPT !.table = added, !.w = @ + 1,
                            !.col2sql = Append(@, col)]
        ELSE IF done.undo # NoTable THEN done
        ELSE [done EXCEPT !.w = @ + 1]
-----------------------------------------------------------------------------
(* SheetPatcher: column changes first, then row changes. *)

connect(t) ==
    [table |-> t, undo |-> NoTable, col2sql |-> t.cols, w |-> Len(t.cols),
     row2sql |-> InOrder(DOMAIN t.rows), cache |-> <<>>, stride |-> Len(t.cols),
     pending_load |-> TRUE, strayed |-> FALSE, refused |-> FALSE,
     misread |-> FALSE]

(* The file, as another program reads it when this one is gone.            *)
OnDisk(t) == IF t.undo # NoTable THEN t.undo ELSE t.table

NotRenaming == [at |-> 0, name |-> <<>>, rows |-> 0]

Tables(ids) ==
    {t \in [cols : {<<K, D>>}, rows : [ids -> {<<k, d>> : k, d \in Values}]] :
        /\ Fits(t)
        /\ kind = "alias" => \A i \in ids : t.rows[i][1] = i}

(* The patcher reads the table anew (setSheet), whoever read it before.    *)
Init ==
    /\ kind \in {"alias", "text", "unique"}
    /\ \E ids \in SUBSET (1..MaxRowId) : \E t \in Tables(ids) :
          /\ Cardinality(ids) <= MaxRows /\ s = connect(t)
          /\ gaps = (ids # 1..Cardinality(ids))
    /\ want = [y \in DOMAIN s.row2sql |-> s.table.rows[s.row2sql[y]]]
    /\ activeCol = s.col2sql
    /\ pc = "columns" /\ changes = 0 /\ linked = <<>> /\ clashed = FALSE
    /\ renamed = NotRenaming

(* The program is gone, and the file is opened again: what it had not      *)
(* committed is rolled back.                                               *)
Reopened(t) ==
    [connect(OnDisk(t)) EXCEPT !.strayed = t.strayed, !.refused = t.refused,
                               !.misread = t.misread]

(* updateCols ends the program when the widths differ.                     *)
updateCols(t, cols, now) ==
    /\ s' = IF Len(cols) # t.w THEN Reopened(t) ELSE t
    /\ activeCol' = cols
    /\ pc' = IF Len(cols) # t.w THEN "exit" ELSE now

(* What the patch asks for, until a copy of the table fails.               *)
Ask(t, from) ==
    want' = IF t.undo # NoTable THEN want
            ELSE [y \in DOMAIN want |-> Picked(want[y], from)]

Clash(name) ==
    clashed' = (clashed \/ \E x \in DOMAIN s.col2sql : IsPrefix(name, s.col2sql[x]))

ColumnChange ==
    /\ pc = "columns" /\ changes < MaxChanges
    /\ changes' = changes + 1
    /\ UNCHANGED <<kind, linked, gaps>>

DeleteColumn(x) ==
    LET t == deleteColumn(s, x)
    IN  /\ ColumnChange
        /\ updateCols(IF t.w = 0 THEN deleteData(t) ELSE t,
                      RemoveAt(activeCol, x), "columns")
        /\ Ask(t, RemoveAt(Same(s), x))
        /\ UNCHANGED <<renamed, clashed>>

InsertColumn(b, name) ==
    LET t  == insertColumn(s, b, name)
        at == IF b = 0 THEN Len(activeCol) + 1 ELSE b
    IN  /\ ColumnChange
        /\ updateCols(t, InsertAt(activeCol, at, name), "columns")
        /\ Ask(t, InsertAt(Same(s), at, 0))
        /\ Clash(name)
        /\ UNCHANGED renamed

MoveColumn(x, b) ==
    LET t == moveColumn(s, x, b)
    IN  /\ ColumnChange
        /\ updateCols(t, MovedTo(activeCol, x, b), "columns")
        /\ Ask(t, MovedTo(Same(s), x, b))
        /\ UNCHANGED <<renamed, clashed>>

(* modifyColumn: a new column before the old one, the cells copied one by  *)
(* one, then the old column deleted; if the first step fails, the patcher  *)
(* takes the column as renamed.                                            *)
RenameColumn(x, name) ==
    LET t == insertColumn(s, x, name)
    IN  /\ ColumnChange
        /\ Clash(name)
        /\ UNCHANGED want
        /\ IF t.undo # NoTable
           THEN /\ updateCols(t, ReplaceAt(activeCol, x, name), "columns")
                /\ UNCHANGED renamed
           ELSE /\ s' = t /\ pc' = "rename"
                /\ renamed' = [at |-> x, name |-> name, rows |-> 0]
                /\ UNCHANGED activeCol

(* The cells that show something else than the table holds.                *)
Misshown(t) ==
    LET held(y) == t.table # NoTable /\ t.row2sql[y] \in DOMAIN t.table.rows
    IN  {p \in (1..t.w) \X {y \in DOMAIN t.row2sql : held(y)} :
           cellString(t, p[1], p[2]) # t.table.rows[t.row2sql[p[2]]][p[1]]}

CopyCell ==
    LET t == check(s)
        y == renamed.rows + 1
        v == cellString(t, renamed.at + 1, y)
    IN  /\ pc = "rename" /\ y <= height(s)
        /\ s' = [setCell(t, renamed.at, y, IF v = Missing THEN Null ELSE v)
                  EXCEPT !.misread = @ \/ <<renamed.at + 1, y>> \in Misshown(t)]
        /\ renamed' = [renamed EXCEPT !.rows = y]
        /\ UNCHANGED <<kind, activeCol, pc, changes, linked, want, clashed, gaps>>

(* Mutant: the last row is not copied.                                    *)
CopiedButLast == renamed.rows >= height(s) - 1

CopiedAll == renamed.rows = height(s)

EndRename ==
    LET t == deleteColumn(s, renamed.at + 1)
    IN  /\ pc = "rename" /\ CopiedAll
        /\ updateCols(t, ReplaceAt(activeCol, renamed.at, renamed.name),
                      "columns")
        /\ renamed' = IF t.undo # NoTable THEN renamed ELSE NotRenaming
        /\ UNCHANGED <<kind, changes, linked, want, clashed, gaps>>

(* What the program remembered is lost with it.                            *)
Exit ==
    /\ pc' = "exit" /\ s' = Reopened(s)
    /\ activeCol' = <<>> /\ linked' = <<>> /\ changes' = 0
    /\ UNCHANGED <<kind, renamed, want, clashed, gaps>>

(* With the table gone SqliteSchema has no parts, and to take or move one  *)
(* is undefined: the program may go on, as above, or end.                  *)
NoParts == pc = "columns" /\ s.table = NoTable /\ changes < MaxChanges /\ Exit

(* The program comes to its end, or is killed.                             *)
Done == pc = "rows" /\ Exit
Kill == pc \in {"columns", "rename"} /\ Exit

ToRows ==
    /\ pc = "columns"
    /\ pc' = "rows"
    /\ UNCHANGED <<kind, s, activeCol, renamed, changes, linked, want, clashed, gaps>>

matchRow(t, cond) ==
    LET match == {y \in 1..height(t) :
                    \A x \in DOMAIN cond : cellString(t, x, y) = cond[x]}
    IN  IF match = {} THEN 0 ELSE CHOOSE y \in match : \A z \in match : y <= z

(* The sheet when its cells have been read to match a row.                 *)
Searched(t) ==
    LET c == check(t)
    IN  [c EXCEPT !.misread = @ \/ Misshown(c) # {}]

(* Mutant: the identifier is read one row too early.                      *)
ToldOfPrevious(t, x, known) ==
    {cellString(t, x, IF height(t) > 1 THEN height(t) - 1 ELSE height(t))}

(* What the pool is told of an inserted row: its identifier read from the  *)
(* row the sheet reports.  A refused row, or one with nothing but its      *)
(* identifier, is reported as -1, and row2sql[-1] may be any ROWID.        *)
Told(t, x, known) ==
    IF known THEN {cellString(t, x, height(t))}
    ELSE IF t.table = NoTable THEN {Missing}
    ELSE {Missing} \cup {t.table.rows[i][x] : i \in DOMAIN t.table.rows}

RowChange ==
    /\ pc = "rows" /\ changes < MaxChanges
    /\ changes' = changes + 1
    /\ UNCHANGED <<kind, activeCol, pc, renamed, clashed, gaps>>

InsertRow(cells, invented) ==
    LET t     == applyRowCache(s, cells, invented)
        known == height(t) > height(s) /\ invented # 1..s.w
        row   == [x \in 1..s.w |->
                    IF IsAlias(s.table, s.col2sql[x]) THEN Last(t.row2sql)
                    ELSE cells[x]]
    IN  /\ RowChange
        /\ s' = t
        /\ want' = IF height(t) > height(s) /\ t.undo = NoTable
                   THEN Append(want, row) ELSE want
        /\ IF invented = {} THEN UNCHANGED linked
           ELSE \E x \in invented : \E id \in Told(t, x, known) :
                  linked' = Append(linked, id)

DeleteRow(row) ==
    LET t == Searched(s)
        y == matchRow(t, row)
    IN  /\ RowChange
        /\ UNCHANGED linked
        /\ s' = IF y = 0 THEN t ELSE deleteRow(t, y)
        /\ want' = IF s.undo # NoTable THEN want
                   ELSE RemoveFirst(want, row)

(* The cells are written one by one, in the order of the columns.          *)
UpdateRow(row, xs, v) ==
    LET t         == Searched(s)
        y         == matchRow(t, row)
        Set(u, x) == IF x \in xs THEN setCell(u, x, y, v) ELSE u
        asked     == [x \in DOMAIN row |-> IF x \in xs THEN v ELSE row[x]]
    IN  /\ RowChange
        /\ UNCHANGED linked
        /\ s' = IF y = 0 THEN t ELSE FoldLeft(Set, t, Same(s))
        /\ want' = IF s.undo # NoTable THEN want
                   ELSE ReplaceAt(want, SelectInSeq(want, LAMBDA r : r = row),
                                  asked)

(* A row that a patch inserts: one value in every column but the key.      *)
NewRows ==
    {[x \in DOMAIN activeCol |-> IF activeCol[x] = K THEN k ELSE v] :
        k, v \in Cells}

(* The pool invents the key when the database does.                        *)
Inventable ==
    {{}} \cup {{x} : x \in {z \in DOMAIN activeCol :
                              kind = "alias" /\ activeCol[z] = K}}

Stop == pc = "exit" /\ UNCHANGED vars

Next ==
    \/ \E x \in DOMAIN activeCol : DeleteColumn(x)
    \/ \E b \in 0..Len(activeCol), n \in NewNames \ ToSet(activeCol) :
          InsertColumn(b, n)
    \/ \E x \in DOMAIN activeCol : \E b \in 0..Len(activeCol) \ {x} :
          MoveColumn(x, b)
    \/ \E x \in DOMAIN activeCol, n \in NewNames \ ToSet(activeCol) :
          RenameColumn(x, n)
    \/ CopyCell \/ EndRename \/ NoParts \/ Kill \/ ToRows
    \/ \E cells \in NewRows, invented \in Inventable : InsertRow(cells, invented)
    \/ \E row \in ToSet(want) : DeleteRow(row)
    \/ \E row \in ToSet(want), xs \in SUBSET DOMAIN activeCol, v \in Cells :
          xs # {} /\ UpdateRow(row, xs, v)
    \/ Done \/ Stop

Spec == Init /\ [][Next]_vars
-----------------------------------------------------------------------------
(* No statement failed, and no ROWID changed under the sheet.              *)
Sound == s.undo = NoTable /\ ~s.strayed /\ ~s.refused

(* Every row has a cell for each column of its table and the cache holds   *)
(* nothing but cells.  Unless a rebuild of the table failed and left its   *)
(* transaction open, there is a table, with the columns that col2sql names *)
(* and w counts (SqliteSchema::apply, insertColumn, deleteColumn).         *)
TypeOK ==
    /\ kind \in {"alias", "text", "unique"}
    /\ pc \in {"columns", "rename", "rows", "exit"}
    /\ changes \in 0..MaxChanges
    /\ s.table # NoTable => \A i \in DOMAIN s.table.rows :
          s.table.rows[i] \in [DOMAIN s.table.cols -> Cells \cup Nat]
    /\ \A n \in DOMAIN s.cache : s.cache[n] \in Cells \cup Nat
    /\ s.undo = NoTable =>
          /\ s.table # NoTable
          /\ s.col2sql = s.table.cols /\ s.w = Len(s.table.cols)

(* The cell in column x of row y has its number in the cache for itself.   *)
Alone(x, y) ==
    \A u \in DOMAIN s.row2sql \ {y} : x + (y - u) * s.stride \notin 1..s.w

(* What the sheet shows is what the table holds: row2sql names every row   *)
(* once, and a cell read through the cache is the cell of the database,    *)
(* unless the sheet is wider than it was and another of its cells has the  *)
(* same number in the cache (SqliteSheet::cellString, SparseSheet::cell).  *)
SheetIsTable ==
    Sound => LET t == check(s) IN
      /\ Len(s.row2sql) = Cardinality(DOMAIN s.table.rows)
      /\ ToSet(s.row2sql) = DOMAIN s.table.rows
      /\ \A y \in DOMAIN s.row2sql : \A x \in 1..s.w : Alone(x, y) =>
            cellString(t, x, y) = s.table.rows[s.row2sql[y]][x]

(* The file holds the rows the patch asked for: all of them at the end;    *)
(* all those up to a column change that failed, whatever followed it; and  *)
(* when killed while a column is renamed, the old values, in the column    *)
(* beside the new one (SqliteSchema::apply, SqliteSheet::modifyColumn).    *)
(* It is so until a cell is read that shows another's value.               *)
DiskAsAsked ==
    LET kept(row) == IF renamed = NotRenaming THEN row
                     ELSE RemoveAt(row, renamed.at)
        disk == OnDisk(s).rows
        rows == [i \in DOMAIN disk |-> kept(disk[i])]
    IN  ~s.strayed /\ ~s.refused /\ ~s.misread =>
          \A row \in ToSet(want) \cup {rows[i] : i \in DOMAIN rows} :
             Cardinality({i \in DOMAIN rows : rows[i] = row})
               = Cardinality({y \in DOMAIN want : want[y] = row})

(* row2sql loses its rows only in a table whose ROWIDs had gaps, or when   *)
(* the patch writes the column that stands for the ROWID (SqliteSheet.cpp, *)
(* cellString and SqliteSchema::apply).                                    *)
StraysOnlySo == s.strayed => gaps \/ (kind = "alias" /\ pc # "columns")

(* When the rows begin, the columns have the names the patch gave them, if *)
(* no new name was the beginning of another column's (insertColumn).       *)
ColumnsAsNamed ==
    pc = "rows" /\ Sound /\ ~clashed => s.table.cols = activeCol

(* The identifier that the pool learns for a new row is the one that the   *)
(* database gave it, when the row was accepted and has another cell        *)
(* (SheetPatcher::changeRow after inserter->flush()).                      *)
PoolLearnsIds ==
    [][Len(linked') > Len(linked) /\ height(s') > height(s) /\ s.w > 1
         => Last(linked') = Last(s'.row2sql)]_vars
=============================================================================
