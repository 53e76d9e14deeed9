# TLA+ models of coopy

coopy compares, patches and merges tables: CSV files, spreadsheets and
databases. This directory holds TLA+ models of its core, the configurations that
check them with TLC, and proofs that TLAPS checks. Paths below are relative to
the repository's `src/` directory of C++ code (`PROJECT.json` spells them from
the root, and maps every definition to its lines).

## The system

    pivot, local, remote --> SheetCompare (which rows and columns correspond)
                              |
                         OrderMerge (in which order the merged ones come)
                              |        uses Viterbi
                           Merger (list of column changes, then of row changes)
                              |        uses Mover
                         a patch: written to a file and read back by PatchParser,
                         or handed over directly
                              |
                     MergeOutputFilter (buffers, filters, chooses a side)
                              |        uses Pool
                        SheetPatcher (replays the changes on a book)
                              |
                 TypedSheet behind PolySheet, SqliteSheet, ...

    two tables of one database --> SqlCompare --> MergeOutputSqlDiff --> a script
                                                       for the Sqlite shell

    the user's file <-- merge -- working copy <-- update -- fossil <--> server
                    -- import -->             -- commit -->
                    (the coopy program, with a pivot and a mark per file)

### Components, state and operations

| Part | State | Operations | What makes it hard |
|---|---|---|---|
| `SheetCompare`, `MeasureMan` | the assignments `asel`, `bsel`, scores | passes that assign rows to rows and columns to columns | a wrong pair stays; keys joined to text |
| `OrderMerge` | the match units, those placed, the cursors | `process`, `merge` in rounds | two orders and one result; rounds must neither lose nor repeat a unit |
| `Viterbi` | layers of costs and origins | `addTransition`, `beginTransitions`, `endTransitions`, `getPath` | relaxation in any order |
| `Merger` | local columns and names, the last rows seen | four column passes, `mergeRow`, `merge` | changes are relative to a table that earlier changes have altered |
| `Mover` | the best list of moves so far | `move` | search with a limit |
| `MergeOutputFilter` | buffered rows, `sheet_units`, `last_sheet_name` | `setSheet`, `changeRow`, `mergeAllDone` | order of tables, filters, choices |
| `SheetPatcher` | attached sheet and its name, row cursor, column names, deferred rows, conflict column | `setSheet`, `changeColumn`, `changeRow`, `declareNames`, `mergeDone` | deferral and retry; places by cursor, rows by contents, columns by name |
| `Pool`, `PoolImpl` | source id to target id, linked or not; the pool file | `put`, `lookup`, `save`, `load` | ids invented at insertion; one patch after another |
| `BookCompare` | sheets of three books | `compare`, `resolve` | conflicts written as text and read back |
| `Diff` | files, flags, exit status | `apply` | which file is written after what; status told to git |
| `SqlCompare`, `MergeOutputSqlDiff` | two keyed tables, a script | three queries, a statement for each row found | statements in an order; NULL; a statement that fails |
| `PatchParser` | names before and after | reads patches, infers column changes | many formats |
| `SqliteSheet` | `row2sql`, `col2sql`, cell cache, an open transaction | edits as statements, columns by rebuilding the table | failure of a statement; ROWIDs that change |
| `FoldTool` | linked tables | fold, unfold | cycles of links |
| coopy GUI, `WideSheetManager`, ssfossil hooks | local file, checked-out sheet, pivot, mark file | pull, push, revert | a second process, failure between two steps, times of files |

`PROJECT.json` lists every part, with those that are not modelled and why. It
also lists the hazards, each at the line where it bites and with the properties
that would notice. There are no threads in the core: what is hard is the order
of changes, state that outlives the thing it described, positions that shift,
retries, and what happens after a step that fails. Concurrency is between the
users of a repository, and between a user who edits and the fossil process that
the coopy program has started.

## The modules

| Module | Models |
|---|---|
| `PoolPatch` | a patch applied to a database: buffering, id pools, deferred rows, the pool file |
| `DependencyApply` | what applying patches promises: a row is written once, and after what it refers to |
| `PoolPromise` | that `PoolPatch` implements `DependencyApply` |
| `ConflictMerge` | conflicts from the merge to their resolution, along three command lines |
| `Viterbi`, `ViterbiSearch` | the search as operators, and a caller that builds any small lattice |
| `OrderMerge` | the order of the merged rows or columns |
| `RowReplay` | `Merger::mergeRow`, then the replay of row changes; extends `OrderMerge` |
| `Mover` | the search for a short list of column moves |
| `ColumnReplay` | the column passes of `Merger`, then their replay; extends `OrderMerge` and `Mover` |
| `SqliteSheet` | a patch applied to a Sqlite table: statements, cache, rebuilt tables, failures |
| `SqlDiff` | the difference of two tables as a script of statements, and the script run |
| `SqlCells` | the values of cells, for `SqliteSheet` and `SqlDiff` |
| `Sync` | users who edit, pull and push a shared table, with failures and crashes |
| `Selection` | the part of a sequence that is in a set, as a recursive function, so that proofs can follow it |
| `PoolPatchProofs`, `ConflictMergeProofs`, `ViterbiSearchProofs`, `OrderMergeProofs`, `SqlDiffProofs`, `SyncProofs`, `SyncOwnProofs` | the theorems about the module each is named after (`SyncOwnProofs` continues `SyncProofs`) |
| `HelperProofs` | lemmas about the shared operators, and the principles of induction |
| `MC...` | values of the constants for TLC; `MCRows` puts the search beside the order and replay of rows, `MCSqlite` the patch beside the script |

Every module that has properties also holds, before some definitions, a variant
of the definition that a plausible slip would make, introduced by "Mutant".
They are used by no specification: each shows that a property notices the slip.

### PoolPatch

A patch is a list of INSERTs and UPDATEs on tables that refer to each other. The
source's ids mean nothing in the target: the target's tables invent ids, and the
pool says which id stands for which.

| Variable | Code |
|---|---|
| `rows`, `first`, `patch` | `MergeOutputFilter::rows`; rows of earlier patches are kept for the properties |
| `units`, `lastSheet`, `pass`, `at` | `sheet_units`, `last_sheet_name`, loop counters of `mergeAllDone` |
| `sheet`, `sheetName` | the sheet attached to `SheetPatcher` and `sheetName`, which differ after a failed `setSheet` |
| `deferred`, `cp`, `len`, `prevLen` | `deferred_rows` and the locals of `mergeDone` |
| `pool`, `stored` | `PoolImpl::pool` and the pool file |
| `top`, `written` | the target |

`FilterSetSheet` and `FilterChangeRow` receive a patch, `Prescan` announces ids,
`EmitRow`, `SkipRow`, `EmitPreamble` and `NextPass` are the loops of
`mergeAllDone`; `StartPass`, `ReplayRow` and `EndPass` those of `mergeDone`;
`SavePool` and `NextPatch` end one run of the program and start another.
`ChangeRow` is `SheetPatcher::changeRow`. A row of the source is reduced to its
id and its foreign keys. A pool is identified with its table, as
`SheetPatcher::updatePool` names it. Abstracted: cells that are not ids, creation
of missing tables, pools over several columns, deletions (they translate
nothing).

`DependencyApply` says the same without pools, placeholders, sheets and passes:
rows are written one at a time, each once, after the rows it refers to and with
the ids these were given, and the program ends when nothing is left, or gives up
when each row left waits for another. `KeepsPromise` is its specification with
`status` read off `pc`: the buffer is being read, rows are being applied, the
patch is done, or the program has given up. All of `PoolPatch`'s other steps are
stutters of it. Updates are not translated in it, as they are not in the code
(`pool_update`).

### ConflictMerge

Three ways from three tables to one: `ssmerge --X`; `ssmerge` and then
`ssresolve --X`; `ssdiff` and then `sspatch --X`. Rows and columns are matched.
`MergeSheet` is `Merger` on a sheet; `PatchRow`, `PatchConflictedRow` and
`SkipRow` are `MergeOutputFilter::emitRow` followed by
`SheetPatcher::markChanges`; `EndSheet` gives the exit status; `RunResolve` and
`ResolveSheet` are `BookCompare::resolve`. The text of a conflict is a record of
three texts, with NULL turned into `{NULL}` as `SheetCell::toString` does. A
write beyond the last column is undefined: the model lets it have no effect or
end the program.

### Viterbi and OrderMerge

`Viterbi` has a layer of costs and origins per transition step; costs are
natural numbers. `OrderMerge` gives it 0 and 1. The other callers, `MeasureMan`
(scores) and `MergeOutputTdiff` (whether to repeat a header), give it fractions,
where rounding may decide between paths: their searches are outside the model.

`OrderMerge` has one action per step of `process` and of a round of `merge`. The
flags `head_trimmed` and `tail_trimmed`, off unless asked for, are left out: they
mark the unmatched rows at an end of both orders as rows to be ignored. Inputs
are all pairs of a local and a remote order: each row of a descendant comes from
a row of the pivot, which no other row of it comes from, or is new. `OrderMerge`
draws a whole layer at once, with the costs and ties that calls of
`addTransition` in the order of the origins would leave; `ViterbiSearch` checks
`addTransition` itself, call by call.

### RowReplay and ColumnReplay

`RowReplay` has `AttachSheet` for the sheet and the flags, which are chosen when
they first matter, `MergeRow` for `Merger::mergeRow` on one unit, then one action
per kind of row change, with the row cursor and the sheet. A row of local is its
number and whether it got its new cells. The column names can be in no row, in
the first row (CSV) or in a row that `PolySheet` hides (CSVS). A change names
its row by all cells or by its key alone (`indexed`).

`ColumnReplay` has one action per pass of `Merger::merge` (each a fold over the
units) and one per kind of column change. Names are numbers, and adding k
underscores to a name adds a multiple of the number of names. Erasing at the end
of a vector in `Mover` and reading names out of bounds in pass 4 are undefined
and end the model in `"undefined"`. Left out: `fixed_columns`, a table without
header (`assume_header` is true), names quoted because they are digits, column
synonyms, descriptive mode.

`changeCount` decides whether the result is saved (`Diff.cpp`, `mergeToLocal`);
`counted` says whether it is positive.

### SqliteSheet and SqlDiff

`SqliteSheet` applies a patch, columns first and then rows, to one table with a
primary key. The record `s` is the sheet and its database:

| Field | Code |
|---|---|
| `col2sql`, `row2sql`, `w`, `pending_load` | the members of `SqliteSheet` (the height is the length of `row2sql`) |
| `cache`, `stride` | the cache, a `SparseSheet`: its cells by number, and the width that numbers them |
| `table` | the table as this connection sees it; its rows by ROWID |
| `undo` | the table as the file has it while `SqliteSchema::apply` has left a transaction open |
| `strayed`, `refused`, `misread` | history: a ROWID changed and `row2sql` did not; a row statement failed; the patch acted on a cell that the cache showed wrongly |

`kind` is the table's declaration: a key that is the ROWID (`INTEGER PRIMARY
KEY`), a key of text, and one with `UNIQUE` on the other column, written after
the columns, where an added column definition makes `CREATE TABLE` fail. The
actions are the changes of `SheetPatcher` with all statements they cause, except
`modifyColumn`, whose steps are committed one by one and are actions of their own
(`RenameColumn`, `CopyCell`, `EndRename`). `Done` ends the program
after any row change, the last or not, and `Kill` before or between the column
changes; either way what is left is the file, without the transaction that was
open, and the sheet of the next program that reads it (`Exit`). `Init` starts from a sheet whose cells have
not been read: the patcher opens the table anew.

The cache numbers the cell in column x and row y with y times the width that the
table had when it was opened, plus x (`SparseSheet`, resized once by
`SqliteSheet::connect`). Once a column was added, the last cell of a row has the
number of the first cell of the next (`Slot`), and the row written later is the
one that is seen.

`activeCol` is what the patcher believes the columns are; `want` is the
table that the patch asks for. Reading `row2sql[-1]` and taking a part of a table
that is gone are undefined: any ROWID, and going on or ending. The engine is
reduced to the choice of ROWIDs, uniqueness (NULLs are never equal), and one
transaction. A name is a sequence of letters, because `insertColumn` compares
beginnings.

`SqlDiff` has the three queries of `SqlCompare::apply` as operators on two tables
and a step per statement of the script. Keys are compared with `IS`, but written
with `=`. A statement that breaks a constraint changes nothing and the shell goes
on. A row is a key and a datum.

### Sync

Each user has four files for the table, and the members of `CoopyFrame`:

| Variable | Code |
|---|---|
| `local`, `remote`, `pivot` | the user's file, the `.csvs` file that fossil has checked out, its `.pivot` |
| `time` | modification times of `local`, `remote` and `.mark`, up to their order |
| `gui` | `next`, `updateCache`, `writeWouldFork`, and the fossil process started last |
| `versions`, `repo`, `vid`, `server` | the check-ins; those of the clone and the one checked out; those of the server |

A table is the bag of its rows; the merge is what `RowReplay` gives for rows,
without the order. Fossil merges lines of text when a check-in and the working
copy have both changed, and hands edits that overlap to `csv_merge`, which is
coopy's own merge of rows; the model takes both for the merge of rows. The marks
that fossil leaves where `csv_merge` fails are left out, and so is a textual
merge that tears rows or the header. The working copy differs from its version
only after a push that was broken off. The user edits `local` at any time (`InsertRow`, `DeleteRow`).
`OnSync` and `OnCommit` are the buttons, up to the process they start; `Update`,
`Commit` and `PushRepository` are that process, with autosync; `MergeListing`,
`PushEnded` and `OperationFailed` are `OnTerminate` when it has ended. Faults:
`FossilFails`, `MergeFails`, `MergeUnread` (a file that cannot be read counts as
merged), a failed import and a cancelled dialog in `OnCommit`, `Crash` at any
time while something runs, and `CrashInMerge` between the merged file and the
pivot. `deleted`, `behind`, `broken` and `raced` are history: who deleted what by
hand; whether a merge failed or was not saved, so that what was pulled is not in
`local`; whether a push or the program was broken off; whether a file was edited
during a push.

## What is checked

| Run | Instance | Properties | States |
|---|---|---|---|
| `pool_one_patch` | 2 tables with a self reference, 3 rows, 1 patch | `RefsTranslated`, `PatchTerminates`, `KeepsPromise` | 290,860 |
| `pool_two_patches` | 3 tables, one missing in the target, `--table` three times, 2 patches of 2 rows | `WrittenInPlace`, `NoPlaceholderStored`, `KeepsPromise` | 1,782,440 |
| `conflict_settle` | 2 rows of 2 cells, 2 texts and NULL, all choices | `TypeOK`, `UnconflictedRowsMerged`, `LocalEditsKept`, `ConflictsSettled`, `StatusTellsConflict`, `NothingLeftToResolve` | 488,761 |
| `rows` | pivot of 3 rows, sides of up to 4 (to be replayed, 3; a remote side of 4 under a hidden header), headers and acts; lattices of 2 states, 3 layers, 2 transitions a layer | `PathIsCheapest`, `ReachedIsReachable`, `EveryRowOnce`, `RemoteOrderKept`, `LocalOrderKept`, `RowTypeOK`, `ReplayGivesMerge`, `RowsAsAllowed`, `ChangesFindRows`, `ChangesAreSaved`, `MergeEnds` | 1,266,581 |
| `columns` | pivot of 4 columns, sides of up to 4, 1 rename | `MovesFewest`, `ReplayFollowsMerger`, `ColumnsMerged` | 516,499 |
| `sqlite` | tables of up to 2 rows with ROWIDs up to 3, 2 values and NULL, 3 changes; scripts between tables of up to 2 rows | `TypeOK`, `SheetIsTable`, `StraysOnlySo`, `DiskAsAsked`, `ColumnsAsNamed`, `PoolLearnsIds`, `ScriptGivesRemote`, `RowsOfEither` | 693,716 |
| `sync` | 2 users, 3 versions, 1 row inserted and 1 deleted, 1 fault | `CommitsKeepRows`, `RowsOnce`, `DroppedStays`, `TimesTell`, `LocalRowsKept`, `SuccessIsShared` | 1,254,278 |

Five more runs end in a counterexample: they state what the repository's
documentation or tests say, and the code does otherwise. Each is a finding in
`PROJECT.json`, with the quotation.

| Run | Property | What happens |
|---|---|---|
| `pool_update` | `UpdatesTranslated` | an UPDATE pointing at a row that the patch inserts copies the source's id |
| `conflict_compatible` | `CompatibleMerged` | in a row with a conflict, cells that only remote changed stay as they were |
| `conflict_sheets` | `ConflictsMarked` | only the first sheet with conflicts gets a `_MERGE_` column |
| `replay_swap` | `RowOrderRespected` | the swap of the first two rows is not listed |
| `columns_order` | `RoundTrip` | columns 1 2 3 4 to be 2 4 3 1: two moves, replayed in another order |

### Where the code departs

A property that holds only in part has the part as a named premise, so that the
limits are in the open.

- `KeepsPromise` says, among the rest, that every row is written once and that
  the program gives up only on a cycle. For patches of three rows it is checked
  with all tables present, and never with a table given twice to `--table`. With
  a missing table a deferred row can be dropped, since a failed `setSheet`
  detaches the sheet but keeps its name; a repeated table is applied twice.
- `ConflictsSettled` is about cells in conflict. `sspatch --ours` drops the whole
  change of a conflicted row, with its other cells.
- `RemoteOrderKept` and `LocalOrderKept` hold for a diff of two tables, and for
  merges in which no side reorders and only one inserts (`SimpleEdits`).
- `ReplayGivesMerge` leaves out a local table that lost all its rows
  (`LocalEmptied`), the first row taken for one in place (`FirstRowMistaken`),
  and, under a hidden header, moves and rows inserted together (`OnlyInserts`).
  Two rows inserted together make `mergeRow` move the row that follows them, and
  `PolySheet::moveRow` shifts the destination by the hidden row but not the
  origin.
- `ColumnsMerged` asks that the columns local took over from the pivot are where
  they were (`PivotInPlace`), that no column is given another's name
  (`NamesClear`), and speaks of the order only after at most one move.
- `ChangesAreSaved` is for sheets with an order, a pivot with rows, and
  insertions allowed. Only the context of an insertion counts, so rows inserted
  without an order or into an empty pivot are not saved unless something else
  changed; with `--act update` a move whose context was dropped is not either.
- `SheetIsTable` asks that no statement failed and no ROWID changed (`Sound`),
  and speaks of the cells that share their number in the cache with no other cell
  (`Alone`). In a table of two rows or more, the cells do share numbers once a
  column was added. What the sheet shows is then another cell: an added column
  hides the first cell of the next row, so that later row changes do not find
  their row, and a rename, which reads the old column while the new one is there,
  copies values of the wrong rows or columns.
  Rebuilding a table whose ROWIDs have gaps renumbers them, and so does writing
  an `INTEGER PRIMARY KEY`; `row2sql` then names other rows, or none.
  `StraysOnlySo` says that nothing else does that. After a refused UPDATE the
  cache shows the value that was refused.
- `DiskAsAsked` asks that no ROWID changed, no row was refused and the patch
  acted on no cell shown wrongly in this way (`misread`). Tables of one row, patches without column
  changes, patches that only drop columns, and all the wider tables whose wrong
  cells happen to be equal or not to be looked at, remain. It also holds after a column change that failed: its transaction
  stays open, so the file keeps the state before it, and all later changes are
  lost, rows included. A killed rename leaves both columns, the old one whole.
- `ColumnsAsNamed` leaves out new names that begin the name of another column:
  `insertColumn` then adds an underscore and the patcher does not know.
- `PoolLearnsIds` leaves out rows that the database refuses and rows with nothing
  but their id: the id learnt for them is read at row -1.
- `ScriptGivesRemote` asks for keys, for no NULL in a row to be updated or
  deleted (`= NULL` selects nothing), and for no `UNIQUE` beside the key (an
  insertion may come before the deletion that makes room). `RowsOfEither` holds
  without all this: such a script does too little, and never harms another row.
- `CommitsKeepRows`, `DroppedStays` and `LocalRowsKept` leave out versions made
  after a merge that failed, or was not saved, although its pivot moved
  (`behind`): these drop the rows of others. `LocalRowsKept` asks for a pivot: the
  user who added the file has none until the first push, and a pull before that
  discards their edits.
- `RowsOnce`, `DroppedStays` and `LocalRowsKept` are for users who broke nothing
  off (`broken`). A cancelled push leaves the imported file in the working copy;
  a program killed between merge and pivot, or during a push, leaves an old
  pivot; in both cases the next pull inserts rows again.
- `TimesTell` is for users who did not edit during a push (`raced`): the end of
  the push makes the mark younger than the edit.
- `SuccessIsShared` speaks of the version checked out. If the pull at the start
  of a commit fails and the user then gives a password, the retry is a bare push,
  which succeeds and reports so, although the changes have been reverted; they
  are still in `local`, and go with the next push.

### Bounds

Three rows are the least with a row that waits for one that waits for another;
two tables with a self reference give cycles within a table and chains across
them; two patches are the least with a pool read back. Ids go to 3, so that the
shared ids, the target's own ids and the new ones overlap. Three rows and four
columns are the least for which rounds, contexts and two pending moves interact.
`Mover`'s limit of a hundred solutions is not reached with four columns. No
bound hides a case that a property is about, except where said above.
`MaxRenames` is 1 because chains of renames are outside `NamesClear`.

Two rows with ROWIDs up to 3 give tables with and without gaps; three changes are
the least for a column change that fails, another that goes by it, and a row
change after them. Two users with three versions are the least in which one
pushes what the other's next push could drop or bring back; more copies of a row
than two are counted as two. One fault at a time: every fault is met at every
point, and pairs of faults are not. The times of files are never equal, whereas
file systems may keep seconds only. The symmetry of the users is sound, since no
action names one.

The run `sqlite` checks for deadlock, its programs stutter when they have ended.
The others set `CHECK_DEADLOCK FALSE`: the programs end, and users may stop.

### Fairness

`PatchTerminates` and `MergeEnds` assume weak fairness of the program's own
steps: the code is sequential and a started program goes on. Whether another
row or patch arrives is not assumed. In `PoolPatch`, `Prescan` is among the fair
steps: a patch file ends.

## What is proved

Twenty-three theorems, checked by TLAPS, hold for every value of the constants:
any number of tables, rows, columns, sheets, users, versions and faults. Their
only assumptions are those on the constants (`ConstantsOK`, `TextsApart`,
`SearchBounds`, `BoundsOK`, `CellsOK`, `SyncBounds`, `NoFileIsNone`), which TLC
evaluates in the runs, and the ones the table names.

| Module | Theorem | Shows | Under |
|---|---|---|---|
| `PoolPatchProofs` | `RowsWrittenInPlace` | `TypeOK`, `WrittenInPlace` | |
| | `ReferencesTranslated` | `RefsTranslated` | `AllPresent` |
| | `PlaceholdersNotSaved` | `NoPlaceholderStored` | `AllPresent` |
| | `PromiseIsKept` | `KeepsPromise`, the refinement | `AllPresent`, `NoTableTwice` |
| `ConflictMergeProofs` | `RowsKeepWidth` | `TypeOK` | |
| | `StatusIsRight` | `StatusTellsConflict` | |
| | `LocalEditsSafe` | `LocalEditsKept` | `ConflictsInOneSheet` |
| | `RowsMerged` | `UnconflictedRowsMerged` | `ConflictsInOneSheet` |
| | `ChoiceIsMade` | `ConflictsSettled` | `ConflictsInOneSheet` |
| | `ResolveIsComplete` | `NothingLeftToResolve` | `ConflictsInOneSheet` |
| `ViterbiSearchProofs` | `CheapestPath` | `PathIsCheapest` | |
| | `ReachedRightly` | `ReachedIsReachable` | |
| `OrderMergeProofs` | `RowsComeOnce` | `EveryRowOnce` | |
| | `RemoteOrderStays` | `RemoteOrderKept` | |
| | `LocalOrderStays` | `LocalOrderKept` | |
| `SqlDiffProofs` | `ScriptIsHarmless` | `RowsOfEither` | |
| | `ScriptIsComplete` | `ScriptGivesRemote` | |
| `SyncProofs` | `PushIsShared` | `SuccessIsShared` | |
| | `PushesKeepRows` | `CommitsKeepRows` | |
| | `PullsKeepRows` | `LocalRowsKept` | |
| `SyncOwnProofs` | `DroppedRowsStay` | `DroppedStays` | |
| | `RowsStaySingle` | `RowsOnce` | |
| | `TimesAreRight` | `TimesTell` | |

`AllPresent` says that the target has every table of the patches, `NoTableTwice`
that `--table` names none twice, `ConflictsInOneSheet` that no two sheets have
conflicts. A missing or a repeated table breaks `KeepsPromise` (see "Where the
code departs"), and a second sheet with conflicts gets no `_MERGE_` column
(`conflict_sheets`), which `ssresolve` would need.

None of the properties is inductive as it stands. The strengthenings say why:

- `PoolPatchProofs`. A row is written to whatever sheet is attached; `TypeInv`
  says which it is: the one called `sheetName` unless none is attached, while
  rows are released what `setSheet` makes of the table of the row before, and for
  a deferred row the table whose name it has with it. `RefsInv` relates the pool
  to the target: what the pool links is the id that the row was given, and a
  placeholder stands for a row of this patch that is still to be written.
  `PromiseInv` adds that each row is in one place, to be emitted, deferred or
  written (`OnceInv`), that the rows deferred in a pass that has written none
  all wait for one not written (`ProgressInv`), that rows of a patch create
  different ids (`KeysApart`), and what the highest id is (`TopInv`).
- `ConflictMergeProofs`. `ShapeInv` has the width of the rows at each point,
  `ClashInv` which conflicts have been met, reported and marked, `DataInv` what
  each data cell holds before, during and after merge and resolution (`Outcome`).
- `ViterbiSearchProofs`. `SearchInv`: each state of each layer has the least of
  the costs offered to it so far, and the origin of one that offered it. That the
  path read backwards is cheapest follows by induction over the layers.
- `OrderMergeProofs`. `OrderInv`: the units called for that are not placed are
  those still to be placed, each once, and the lattice of a round has a state for
  each of them and one, for none, that is always reached. For the order, `WayInv`: a merge in which one side has the say
  (`Follows`) has one way on from each unit, so that the first round places all.
- `SqlDiffProofs`. `DiffInv`: a remote row that is missing still has its INSERT
  or UPDATE to come, and a row that remote lacks its DELETE or UPDATE.
- `SyncProofs`, `SyncOwnProofs`. `ProgramInv` ties the process that runs to the
  versions and the working copy. `SyncInv` adds that only rows the user deleted
  are missing between the files of a user who has missed no merge (`FilesInv`),
  and that the working copy is the version checked out unless something was
  broken off (`QuietInv`). `OwnInv`: what `local` has beyond what it was last
  merged with is in no version and with no other user. `OnceInv`: files and
  versions have rows once. `TimesInv`: files have different times, and if `local`
  and `remote` are older than the mark they are the same.

Induction over sequences and layers is done with least elements of sets of
numbers (`LeastNumber` and `AllNumbers` of `HelperProofs`), as the provers do not
instantiate the library's induction theorems.

Only model-checked:

- `PatchTerminates` and `MergeEnds`, which are liveness and beyond the prover;
- `MovesFewest`, `ReplayFollowsMerger` and `ColumnsMerged`: `Mover`, which
  `ColumnReplay` extends, is a recursive operator, out of the prover's reach;
- the replay of rows (`RowTypeOK`, `ReplayGivesMerge`, `RowsAsAllowed`,
  `ChangesFindRows`, `ChangesAreSaved`) and the patched Sqlite table (`TypeOK`,
  `SheetIsTable`, `StraysOnlySo`, `DiskAsAsked`, `ColumnsAsNamed`,
  `PoolLearnsIds`): not out of reach, but without a proof.

## What is not modelled, and the plan

In this order:

1. Matching: the passes of `SheetCompare` and `MeasureMan` over an arbitrary
   table of scores, keys and equal rows; its result composed with `RowReplay`.
2. `MergeOutputFilter`'s preamble and the creation of tables; `PatchParser`'s
   inference of column changes, composed with `ColumnReplay`.
3. `FoldTool` and CSV quoting as pure algorithms with reference definitions.

Left out of `Sync`: creation and cloning of repositories, the choices of `repush`
that fork or create one, buttons pressed while a process runs, edits between the
reading and the writing of a merge, files of equal time, removed files. Left out
of `SqliteSheet`: composite keys, foreign keys, creation of tables, hashes, other
connections to the database. Left out of `SqlDiff`: the statements for columns
and the other dialects of SQL.

Not planned: reading and writing of spreadsheet formats, rendering of diffs,
statistics of cells, user interface. They are input, output or heuristics, and
the models take their answers as given.
