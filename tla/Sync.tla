-------------------------------- MODULE Sync --------------------------------
(***************************************************************************)
(* The coopy program on the computers of several users who share a table.  *)
(* Each has the table in a file of their own (local), the copy that fossil *)
(* keeps (remote), the common ancestor of the two (pivot) and an empty     *)
(* file (mark) whose time says when the two last agreed.  Pushing imports  *)
(* local into remote and commits it; pulling updates remote and merges it  *)
(* into local.  fossil runs in the background, and OnTerminate goes on     *)
(* when it ends; meanwhile the user edits, and so do the others.           *)
(*                                                                         *)
(* A table is the bag of its rows.  A row is made once, by one user, so    *)
(* that there is a second copy of it only if the program makes one.        *)
(***************************************************************************)
EXTENDS Integers, Sequences, FiniteSets, FiniteSetsExt, Functions

CONSTANTS
  Users,
  MaxRows,      \* bound on the rows that are ever made, the first included
  MaxVersions,  \* bound on the versions of the table
  MaxDeleted,   \* bound on the rows that are deleted by hand
  MaxFaults,    \* bound on failures of fossil and of merges, and on crashes and
                \* pushes that the user breaks off
  NoFile

ASSUME SyncBounds ==
  /\ MaxRows \in Nat \ {0} /\ MaxVersions \in Nat \ {0}
  /\ MaxDeleted \in Nat /\ MaxFaults \in Nat

VARIABLES
  versions,   \* the check-ins, each with its parent and its table
  server,     \* the check-ins that the shared repository has
  repo, vid,  \* by user: the check-ins of the clone, the one checked out
  local, remote, pivot,  \* by user: the files, NoFile if there is none
  time,       \* by user: the times of local, remote and mark
  gui,        \* by user: members of CoopyFrame, and the fossil process
  made,       \* the number of rows made so far
  deleted,    \* by user: rows deleted by hand
  behind,     \* by user: has what was pulled reached local, and pivot with it?
  broken,     \* by user: was a push ever broken off, or the program?
  raced,      \* by user: was local ever edited during a push?
  faults

fossil == <<versions, server, repo, vid>>
files == <<local, remote, pivot, time>>
ghosts == <<made, deleted, behind, broken, raced>>
vars == <<fossil, files, gui, ghosts, faults>>

Rows == 1 .. MaxRows
Copies == 2                       \* two copies of a row stand for any more
FirstTable == [r \in Rows |-> IF r = 1 THEN 1 ELSE 0]
ASSUME NoFileIsNone == NoFile \notin [Rows -> 0 .. Copies]

Has(table) == {r \in Rows : table[r] > 0}
Never == 0                        \* the time of a file that is not there
NoParent == 0

(* Times matter up to their order: the files that are there count from 1,  *)
(* the latest last, and a file written now becomes the latest.             *)
TimedFiles == {"local", "remote", "mark"}
NoTimes == [f \in TimedFiles |-> Never]

Written(t, f) ==
  [g \in TimedFiles |->
     IF g = f THEN Max(Range(t)) + (IF t[f] = Never THEN 1 ELSE 0)
     ELSE IF t[f] # Never /\ t[g] > t[f] THEN t[g] - 1 ELSE t[g]]

IsEarlier(t, f, g) == t[f] < t[g]

(* The members of CoopyFrame at the start of the program; proc stands for  *)
(* the fossil process, which has ended or failed before OnTerminate is     *)
(* called.                                                                 *)
Started == [proc |-> "none", next |-> "nothing", updateCache |-> FALSE,
            writeWouldFork |-> FALSE]

(* One user, the adder, has just added the table (createFile) and pushed   *)
(* it; the others have the first version in their clones.                  *)
Init ==
  /\ \E adder \in Users :
       /\ versions = <<[parent |-> NoParent, table |-> FirstTable,
                        by |-> adder, behind |-> "no"]>>
       /\ local = [u \in Users |-> IF u = adder THEN FirstTable ELSE NoFile]
       /\ time = [u \in Users |->
                    Written(IF u = adder THEN Written(NoTimes, "local") ELSE NoTimes,
                            "remote")]
  /\ server = {1} /\ repo = [u \in Users |-> {1}] /\ vid = [u \in Users |-> 1]
  /\ remote = [u \in Users |-> FirstTable]
  /\ pivot = [u \in Users |-> NoFile]
  /\ gui = [u \in Users |-> Started]
  /\ made = 1 /\ deleted = [u \in Users |-> {}]
  /\ behind = [u \in Users |-> "no"] /\ broken = [u \in Users |-> FALSE]
  /\ raced = [u \in Users |-> FALSE]
  /\ faults = 0

Fault == faults < MaxFaults /\ faults' = faults + 1
-----------------------------------------------------------------------------
(* The merge of remote into local, row by row: a row of pivot that remote  *)
(* dropped is dropped, a row that pivot lacks is inserted, whether local   *)
(* has inserted it too or not.                                             *)
Min2(m, n) == IF m < n THEN m ELSE n

(* Mutant: rows that remote dropped are kept.                              *)
DroppedNever(p, l, x) == 0

Dropped(p, l, x) == Max({0, Min2(p, l) - Min2(p, x)})
Inserted(p, x) == x - Min2(p, x)

Merge(p, l, x) ==
  [r \in Rows |-> Min2(Copies, l[r] - Dropped(p[r], l[r], x[r])
                               + Inserted(p[r], x[r]))]

(* getChangeCount: rows dropped count, and the context of rows inserted,   *)
(* which is given only if pivot has any row.                               *)
Counted(p, l, x) ==
  \/ \E r \in Rows : Dropped(p[r], l[r], x[r]) > 0
  \/ Has(p) # {} /\ \E r \in Rows : Inserted(p[r], x[r]) > 0

(* Mutant: the pivot is copied before the merge.                           *)
PivotOfCopied(u) == remote[u]

(* mergeToLocal: the table that local has afterwards.  Without a pivot     *)
(* local is taken for it.                                                  *)
PivotOf(u) == IF pivot[u] = NoFile THEN local[u] ELSE pivot[u]
Merged(u) ==
  IF Counted(PivotOf(u), local[u], remote[u])
  THEN Merge(PivotOf(u), local[u], remote[u]) ELSE local[u]
-----------------------------------------------------------------------------
(* fossil.                                                                 *)
TableOf(v) == versions[v].table
Children(v, known) == {c \in known : versions[c].parent = v}

(* What every set has that v is in and that has the parents of its members. *)
Ancestors(v) ==
  {a \in 1 .. v - 1 : \A S \in SUBSET (1 .. v) :
     v \in S /\ (\A w \in S : versions[w].parent \in S \cup {NoParent}) => a \in S}

(* The check-ins of known that v is or leads to and that have no child.    *)
compute_leaves(v, known) ==
  {c \in known : v \in Ancestors(c) \cup {c} /\ Children(c, known) = {}}

Running(u, proc) == gui[u].proc = proc
Exits(u, status) == gui' = [gui EXCEPT ![u].proc = status]

(* The table of tid takes the place of that of vid in the working copy,    *)
(* and is merged with it if the working copy differs, as a push broken off *)
(* leaves it.  Fossil then merges the lines of the text, and the rows, by  *)
(* csv_merge, where edits overlap: both are the merge of the rows here.    *)
Bring(u, tid) ==
  /\ remote' = [remote EXCEPT ![u] =
                  IF @ = TableOf(vid[u]) THEN TableOf(tid)
                  ELSE Merge(TableOf(vid[u]), @, TableOf(tid))]
  /\ time' = [time EXCEPT ![u] = Written(@, "remote")]
  /\ behind' = [behind EXCEPT ![u] =
                  IF local[u] # NoFile /\ @ = "no" THEN "unmerged" ELSE @]
  /\ UNCHANGED <<local, pivot>>

(* update: pull, then go to the only leaf that vid leads to.               *)
Update(u) ==
  /\ Running(u, "update")
  /\ LET known == repo[u] \cup server
         leaves == compute_leaves(vid[u], known)
     IN /\ repo' = [repo EXCEPT ![u] = known]
        /\ IF Cardinality(leaves) > 1
           THEN Exits(u, "failed") /\ UNCHANGED <<vid, files, behind>>
           ELSE \E tid \in leaves :
                  /\ vid' = [vid EXCEPT ![u] = tid]
                  /\ Exits(u, "ended")
                  /\ IF TableOf(tid) = TableOf(vid[u])
                     THEN UNCHANGED <<files, behind>> ELSE Bring(u, tid)
  /\ UNCHANGED <<versions, server, made, deleted, broken, raced, faults>>

(* commit: pull, refuse to fork, make a new version of the check-out; the  *)
(* push that follows is a step of its own.                                 *)
Commit(u) ==
  /\ Running(u, "commit") /\ Len(versions) < MaxVersions
  /\ LET known == repo[u] \cup server
         nvid == Len(versions) + 1
     IN IF Children(vid[u], known) # {}
        THEN /\ gui' = [gui EXCEPT ![u].proc = "failed", ![u].writeWouldFork = TRUE]
             /\ repo' = [repo EXCEPT ![u] = known]
             /\ UNCHANGED <<versions, vid>>
        ELSE /\ versions' = Append(versions, [parent |-> vid[u], table |-> remote[u],
                                              by |-> u, behind |-> behind[u]])
             /\ repo' = [repo EXCEPT ![u] = known \cup {nvid}]
             /\ vid' = [vid EXCEPT ![u] = nvid]
             /\ Exits(u, "push")
  /\ UNCHANGED <<server, files, ghosts, faults>>

(* Mutant: only what the server has already is pushed.                     *)
PushNothing(u) ==
  /\ Running(u, "push")
  /\ Exits(u, "ended")
  /\ UNCHANGED <<fossil, files, ghosts, faults>>

(* What the push after a commit also pulls makes no difference here: every *)
(* command that looks for other check-ins pulls first.                     *)
PushRepository(u) ==
  /\ Running(u, "push")
  /\ server' = server \cup repo[u]
  /\ Exits(u, "ended")
  /\ UNCHANGED <<versions, repo, vid, files, ghosts, faults>>

(* The network, or the server's refusal, ends any of them.                 *)
FossilFails(u) ==
  /\ gui[u].proc \in {"update", "commit", "push"}
  /\ Fault
  /\ Exits(u, "failed")
  /\ UNCHANGED <<fossil, files, ghosts>>
-----------------------------------------------------------------------------
(* The user edits local, in any program, at any time.                      *)
Saves(u, table) ==
  /\ local' = [local EXCEPT ![u] = table]
  /\ time' = [time EXCEPT ![u] = Written(@, "local")]
  /\ raced' = [raced EXCEPT ![u] = @ \/ gui[u].next = "revertable"]
  /\ UNCHANGED <<fossil, remote, pivot, gui, behind, broken, faults>>

InsertRow(u) ==
  /\ local[u] # NoFile /\ made < MaxRows
  /\ made' = made + 1
  /\ Saves(u, [local[u] EXCEPT ![made + 1] = 1])
  /\ UNCHANGED deleted

DeleteRow(u, r) ==
  /\ local[u] # NoFile /\ r \in Has(local[u])
  /\ deleted' = [deleted EXCEPT ![u] = @ \cup {r}]
  /\ Cardinality(UNION {deleted'[w] : w \in Users}) <= MaxDeleted
  /\ Saves(u, [local[u] EXCEPT ![r] = 0])
  /\ UNCHANGED made
-----------------------------------------------------------------------------
(* CoopyFrame.  What has not been merged never will be once pivot has      *)
(* moved, or remote was written over.                                      *)
Unmergeable(u) ==
  behind' = [behind EXCEPT ![u] = IF @ = "unmerged" THEN "lost" ELSE @]

(* updatePivots(success) when remote has table: nothing is done unless the *)
(* file was imported, and mark is touched only after a success.            *)
(* Mutant: mark is touched whatever happened.                              *)
TouchedAlways(u, t, success) == IF gui[u].updateCache THEN Written(t, "mark") ELSE t

updatePivots(u, table) ==
  IF gui[u].updateCache
  THEN pivot' = [pivot EXCEPT ![u] = table] /\ Unmergeable(u)
  ELSE UNCHANGED <<pivot, behind>>

Touched(u, t, success) ==
  IF gui[u].updateCache /\ success THEN Written(t, "mark") ELSE t

(* openFile, for a table that the user has no file of yet.                 *)
OpenFile(u) ==
  /\ local[u] = NoFile /\ Running(u, "none")
  /\ local' = [local EXCEPT ![u] = remote[u]]
  /\ pivot' = [pivot EXCEPT ![u] = remote[u]]
  /\ time' = [time EXCEPT ![u] = Written(Written(@, "local"), "mark")]
  /\ gui' = [gui EXCEPT ![u].updateCache = TRUE]
  /\ UNCHANGED <<fossil, remote, ghosts, faults>>

(* OnSync, Sync and OnOpenRepo, for a clone that is there and open.        *)
Syncing(u, g) ==
  gui' = [gui EXCEPT ![u] = [g EXCEPT !.proc = "update", !.next = "view_sync"]]

OnSync(u) ==
  /\ Running(u, "none")
  /\ Syncing(u, gui[u])
  /\ UNCHANGED <<fossil, files, ghosts, faults>>

(* pushListing(false): is local newer than the last agreement?             *)
ToBeImported(u) ==
  LET t == time[u]
  IN local[u] # NoFile /\ IF t["mark"] # Never THEN IsEarlier(t, "mark", "local")
                          ELSE IsEarlier(t, "remote", "local")

(* OnCommit up to the dialog that asks for a description of the changes,   *)
(* which the user may cancel.  import says whether importSheet succeeds.   *)
OnCommit(u, import, describe) ==
  /\ Running(u, "none")
  /\ import => ToBeImported(u)
  /\ IF describe /\ import = ToBeImported(u) THEN UNCHANGED faults ELSE Fault
  /\ IF import
     THEN /\ remote' = [remote EXCEPT ![u] = local[u]]
          /\ time' = [time EXCEPT ![u] = Written(@, "remote")]
          /\ Unmergeable(u)
     ELSE UNCHANGED <<remote, time, behind>>
  /\ LET changes == remote'[u] # TableOf(vid[u])
     IN /\ changes \/ describe
        /\ gui' = [gui EXCEPT ![u] =
                     [proc |-> IF ~describe THEN "none"
                               ELSE IF changes THEN "commit" ELSE "push",
                      next |-> IF describe THEN "revertable" ELSE gui[u].next,
                      updateCache |-> import, writeWouldFork |-> FALSE]]
        /\ broken' = [broken EXCEPT ![u] = @ \/ ~describe]
  /\ UNCHANGED <<fossil, local, pivot, made, deleted, raced>>

(* pushListing(true): has remote changed since the last agreement?         *)
ToBeMerged(u) ==
  LET t == time[u]
  IN local[u] # NoFile /\ IF t["mark"] # Never THEN IsEarlier(t, "mark", "remote")
                          ELSE IsEarlier(t, "local", "remote")

(* OnTerminate, after a pull.  mergeToLocal may fail, or fail to read      *)
(* remote, which it takes for a success.                                   *)
Idle(u, g) == gui' = [gui EXCEPT ![u] = [g EXCEPT !.proc = "none", !.next = "nothing"]]
Pulled(u) == gui[u].proc = "ended" /\ gui[u].next = "view_sync"
AfterPull(u) ==
  /\ Idle(u, [gui[u] EXCEPT !.updateCache = FALSE])
  /\ UNCHANGED <<fossil, remote, made, deleted, broken, raced>>

(* Mutant: the pivot is not copied after a merge.                          *)
PivotNotCopied(u) == PivotOf(u)

PivotAfterMerge(u) == remote[u]

MergeListing(u) ==
  /\ Pulled(u)
  /\ IF ToBeMerged(u)
     THEN /\ local' = [local EXCEPT ![u] = Merged(u)]
          /\ IF Counted(PivotOf(u), local[u], remote[u])
             THEN time' = [time EXCEPT ![u] = Written(@, "local")]
             ELSE UNCHANGED time
          /\ pivot' = [pivot EXCEPT ![u] = PivotAfterMerge(u)]
          /\ behind' = [behind EXCEPT ![u] =
               IF local'[u] # Merge(PivotOf(u), local[u], remote[u]) THEN "lost"
               ELSE IF @ = "unmerged" THEN "no" ELSE @]
     ELSE UNCHANGED <<local, time, pivot, behind>>
  /\ AfterPull(u)
  /\ UNCHANGED faults

MergeFails(u) ==
  /\ Pulled(u) /\ ToBeMerged(u) /\ Fault
  /\ AfterPull(u)
  /\ UNCHANGED <<local, time, pivot, behind>>

MergeUnread(u) ==
  /\ Pulled(u) /\ ToBeMerged(u) /\ Fault
  /\ pivot' = [pivot EXCEPT ![u] = remote[u]]
  /\ Unmergeable(u)
  /\ AfterPull(u)
  /\ UNCHANGED <<local, time>>

(* OnTerminate, after a push: updatePivots(true).                          *)
PushEnded(u) ==
  /\ gui[u].proc = "ended" /\ gui[u].next = "revertable"
  /\ updatePivots(u, remote[u])
  /\ time' = [time EXCEPT ![u] = Touched(u, @, TRUE)]
  /\ Idle(u, gui[u])
  /\ UNCHANGED <<fossil, local, remote, made, deleted, broken, raced, faults>>

(* OnTerminate, after a failure: revert, updatePivots(false), and repush   *)
(* with the user's choice, unless the push would have forked.              *)
Reverted(u) == TableOf(vid[u])

(* Mutant: the pivots are updated before the files are reverted.           *)
PivotBeforeRevert(u) == remote[u]

PivotAfterRevert(u) == Reverted(u)

(* What retry has become by the time a process fails: it is never empty,   *)
(* so that a failed push is retryable, not revertable.                     *)
Retry(u) == IF gui[u].next = "view_sync" THEN "clone" ELSE "push"

OperationFailed(u, choice) ==
  /\ gui[u].proc = "failed"
  /\ gui[u].writeWouldFork => choice = "cancel"
  /\ remote' = [remote EXCEPT ![u] = Reverted(u)]
  /\ updatePivots(u, PivotAfterRevert(u))
  /\ time' = [time EXCEPT ![u] = Touched(u,
       IF remote[u] = Reverted(u) THEN @ ELSE Written(@, "remote"), FALSE)]
  /\ \/ choice = "cancel" /\ Idle(u, gui[u])
     \/ choice = "connect" /\ Syncing(u, gui[u])
     \/ choice = "username" /\ Retry(u) = "clone" /\ Syncing(u, gui[u])
     \/ choice = "username" /\ Retry(u) = "push" /\ Exits(u, "push")
  /\ UNCHANGED <<fossil, local, made, deleted, broken, raced, faults>>

(* The user leaves the program; or it ends before its work is done, and    *)
(* with it the process it started: at any time, or after mergeToLocal and  *)
(* before the pivot is copied.  Then it is started again.                  *)
Restart(u) == gui' = [gui EXCEPT ![u] = Started]

Leave(u) ==
  /\ Running(u, "none")
  /\ Restart(u)
  /\ UNCHANGED <<fossil, files, ghosts, faults>>

Crash(u) ==
  /\ ~Running(u, "none")
  /\ Restart(u)
  /\ broken' = [broken EXCEPT ![u] = TRUE]
  /\ Fault
  /\ UNCHANGED <<fossil, files, made, deleted, raced, behind>>

CrashInMerge(u) ==
  /\ Pulled(u) /\ ToBeMerged(u) /\ Merged(u) # local[u]
  /\ local' = [local EXCEPT ![u] = Merged(u)]
  /\ time' = [time EXCEPT ![u] = Written(@, "local")]
  /\ behind' = [behind EXCEPT ![u] = "lost"]
  /\ Restart(u)
  /\ broken' = [broken EXCEPT ![u] = TRUE]
  /\ Fault
  /\ UNCHANGED <<fossil, remote, pivot, made, deleted, raced>>

RepushChoices == {"cancel", "connect", "username"}

UserNext(u) ==
  \/ InsertRow(u) \/ (\E r \in Rows : DeleteRow(u, r)) \/ OpenFile(u) \/ OnSync(u)
  \/ \E import, describe \in BOOLEAN : OnCommit(u, import, describe)
  \/ Leave(u) \/ Crash(u) \/ CrashInMerge(u)

ProgramNext(u) ==
  \/ Update(u) \/ Commit(u) \/ PushRepository(u) \/ FossilFails(u)
  \/ MergeListing(u) \/ MergeFails(u) \/ MergeUnread(u) \/ PushEnded(u)
  \/ \E choice \in RepushChoices : OperationFailed(u, choice)

Next == \E u \in Users : UserNext(u) \/ ProgramNext(u)

Spec == Init /\ [][Next]_vars
-----------------------------------------------------------------------------
(* A version drops a row of its parent only if its author deleted it: the  *)
(* pull that precedes a push has brought everybody's rows to local.  This  *)
(* needs the merges to have succeeded and to have been saved.              *)
CommitsKeepRows ==
  \A v \in DOMAIN versions :
    versions[v].parent # NoParent /\ versions[v].behind = "no" =>
      Has(TableOf(versions[v].parent)) \ Has(TableOf(v)) \subseteq deleted[versions[v].by]

(* Unless someone broke off a push or a program ended too early, and as    *)
(* long as nobody pushed after a failed merge, no row is ever there twice. *)
RowsOnce ==
  (\A u \in Users : ~broken[u]) /\ (\A v \in DOMAIN versions : versions[v].behind = "no") =>
    \A v \in DOMAIN versions : \A r \in Rows : TableOf(v)[r] <= 1

(* A pull takes a row from local only if somebody deleted it, or a push    *)
(* dropped it that came after a failed merge; given a pivot.               *)
LocalRowsKept ==
  [][\A u \in Users : local[u] # NoFile /\ pivot[u] # NoFile /\ ~broken[u] =>
       \A r \in Has(local[u]) \ Has(local'[u]) :
         \/ \E w \in Users : r \in deleted'[w]
         \/ \E v \in DOMAIN versions : versions[v].behind # "no"]_vars

(* When a push reports success the version checked out is on the server,   *)
(* and is the pivot of the next merge if local was imported.               *)
SuccessIsShared ==
  [][\A u \in Users : gui[u].proc = "ended" /\ PushEnded(u) =>
       /\ vid[u] \in server
       /\ gui[u].updateCache => pivot'[u] = TableOf(vid[u])]_vars

(* A row that was dropped does not come back: no version has a row that    *)
(* its parent lacks and an earlier ancestor had.  This needs the merges to *)
(* have succeeded, and nothing to have been broken off.                    *)
DroppedStays ==
  (\A u \in Users : ~broken[u]) =>
    \A v \in DOMAIN versions : versions[v].parent # NoParent /\ versions[v].behind = "no" =>
      \A r \in Has(TableOf(v)) \ Has(TableOf(versions[v].parent)) :
        \A a \in Ancestors(v) : r \notin Has(TableOf(a))

(* The times tell what is to be done: if by them there is nothing to be    *)
(* imported and nothing to be merged, local is what fossil has checked     *)
(* out.  This holds unless the file was edited during a push, whose end    *)
(* then hides the edit, and as long as nothing failed.                     *)
TimesTell ==
  \A u \in Users :
    /\ faults = 0 /\ ~raced[u] /\ gui[u].proc = "none"
    /\ local[u] # NoFile /\ ~ToBeImported(u) /\ ~ToBeMerged(u)
    => local[u] = TableOf(vid[u]) /\ remote[u] = local[u]
=============================================================================
