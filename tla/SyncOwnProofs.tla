--------------------------- MODULE SyncOwnProofs ----------------------------
(***************************************************************************)
(* Sync: a row that was dropped stays dropped, no row comes twice, and the *)
(* times of the files tell what there is to import and to merge.           *)
(***************************************************************************)
EXTENDS SyncProofs

(* The rows of the versions, and of a user's files.  Those that were never *)
(* made are nowhere.                                                       *)
Known == UNION {Has(TableOf(v)) : v \in DOMAIN versions}
Holds(u) == Has(remote[u]) \cup (IF local[u] = NoFile THEN {} ELSE Has(local[u]))

MadeInv ==
  /\ \A r \in Known : r <= made
  /\ \A u \in Users : \A r \in Holds(u) : r <= made

(* What local has beyond what it was last merged with is the user's own:   *)
(* no version has it yet, and no other user.                               *)
Private(u, r) == r \notin Known /\ \A w \in Users \ {u} : r \notin Holds(w)
Extra(table, base) == {r \in Rows : table[r] > base[r]}

LocalIsOwn(u) ==
  /\ behind[u] = "no" => \A r \in Extra(local[u], CheckedOut(u)) : Private(u, r)
  /\ behind[u] = "no" /\ gui[u].proc = "commit" =>
       /\ \A r \in Extra(local[u], remote[u]) : Private(u, r) /\ remote[u][r] = 0
       /\ \A r \in Extra(remote[u], CheckedOut(u)) : Private(u, r)
  /\ behind[u] = "unmerged" /\ pivot[u] # NoFile =>
       \A r \in Extra(local[u], pivot[u]) : Private(u, r)
  /\ behind[u] = "no" /\ pivot[u] # NoFile
       /\ (gui[u].next # "revertable" \/ ~gui[u].updateCache) =>
         pivot[u] = CheckedOut(u)

OwnOK(u) ==
  ~broken[u] => /\ gui[u].proc = "commit" => gui[u].updateCache /\ behind[u] # "unmerged"
                /\ local[u] # NoFile => LocalIsOwn(u)

(* A version brings no row that an earlier one had and its parent dropped. *)
RowsAreNew ==
  (\A u \in Users : ~broken[u]) =>
    \A v \in DOMAIN versions : versions[v].parent # NoParent /\ versions[v].behind = "no" =>
      \A r \in Has(TableOf(v)) \ Has(TableOf(versions[v].parent)) :
        \A a \in 1 .. v - 1 : r \notin Has(TableOf(a))

OwnInv == MadeInv /\ RowsAreNew /\ \A u \in Users : OwnOK(u)

Single(table) == \A r \in Rows : table[r] <= 1

OnceOK(u) ==
  behind[u] # "lost" => Single(remote[u]) /\ (local[u] # NoFile => Single(local[u]))

OnceInv ==
  (\A u \in Users : ~broken[u]) /\ AllMerged =>
    (\A v \in DOMAIN versions : Single(TableOf(v))) /\ \A u \in Users : OnceOK(u)
-----------------------------------------------------------------------------
(* Where the rows of a step come from.                                     *)
LEMMA MergeHas ==
  ASSUME NEW p \in Table, NEW l \in Table, NEW x \in Table
  PROVE  Has(Merge(p, l, x)) \subseteq Has(l) \cup Has(x)
  BY Zenon, MergeCell DEF Has

LEMMA SameKnown ==
  ASSUME versions' = versions
  PROVE  Known' = Known
  BY Zenon DEF Known, TableOf

LEMMA KnownGain ==
  ASSUME SyncType, NEW u \in Users, Commit(u)
  PROVE  Known' \subseteq Known \cup Has(remote[u])
  <1>1. CASE KeepsFiles
    BY Zenon, <1>1, SameKnown DEF KeepsFiles
  <1>2. CASE Adds(u)
    <2>1. /\ DOMAIN versions' = (DOMAIN versions) \cup {Len(versions) + 1}
          /\ versions'[Len(versions) + 1].table = remote[u]
      BY <1>2 DEF Adds
    <2>2. \A v \in DOMAIN versions : versions'[v] = versions[v]
      BY Zenon, CommitDoes DEF Grows
    <2> QED
      BY Zenon, <2>1, <2>2 DEF Known, TableOf
  <1> QED
    BY Zenon, <1>1, <1>2, CommitDoes

LEMMA CheckedOutKnown ==
  ASSUME SyncType, NEW u \in Users
  PROVE  Has(CheckedOut(u)) \subseteq Known
  BY Zenon, FilesType DEF Known, CheckedOut

(* Nothing new reaches the files of u but what a version has, or what u    *)
(* has made.                                                               *)
RowsFlow(u) ==
  /\ made' = made \/ made' = made + 1
  /\ Known' \subseteq Known \cup Holds(u)
  /\ \A r \in Holds(u)' : r \in Holds(u) \/ r \in Known \/ (made' = made + 1 /\ r = made + 1)

LEMMA SameFlow ==
  ASSUME NEW u \in Users, versions' = versions, made' = made,
         Has(remote'[u]) \subseteq Holds(u) \cup Known,
         local'[u] # NoFile => Has(local'[u]) \subseteq Holds(u) \cup Known
  PROVE  RowsFlow(u)
  <1>1. Known' = Known
    BY Zenon, SameKnown
  <1>2. \A r \in Holds(u)' : r \in Holds(u) \/ r \in Known
    BY Zenon DEF Holds, Has
  <1> QED
    BY Zenon, <1>1, <1>2 DEF RowsFlow

LEMMA KeepsFlow ==
  ASSUME NEW u \in Users, KeepsFiles
  PROVE  RowsFlow(u)
  BY Zenon, SameFlow DEF KeepsFiles, Holds

LEMMA MergedHas ==
  ASSUME SyncType, NEW u \in Users, local[u] # NoFile
  PROVE  Has(Merged(u)) \subseteq Holds(u)
  <1>1. PivotOf(u) \in Table /\ local[u] \in Table /\ remote[u] \in Table
    BY Zenon, PivotType, FilesType
  <1>2. Has(Merge(PivotOf(u), local[u], remote[u])) \subseteq Holds(u)
    BY Zenon, <1>1, MergeHas DEF Holds
  <1> QED
    BY Zenon, <1>2 DEF Merged, Holds

LEMMA InsertFlow ==
  ASSUME SyncType, NEW u \in Users, InsertRow(u)
  PROVE  RowsFlow(u)
  <1>1. /\ versions' = versions /\ remote' = remote /\ made' = made + 1
        /\ local[u] # NoFile /\ local'[u] = [local[u] EXCEPT ![made + 1] = 1]
    BY Zenon, InsertRowDoes
  <1>2. local[u] \in Table
    BY Zenon, <1>1, FilesType
  <1>3. ASSUME NEW r \in Has(local'[u]) PROVE r \in Has(local[u]) \/ r = made + 1
    BY Zenon, <1>1, <1>2, <1>3 DEF Has, Table
  <1>4. Known' = Known
    BY Zenon, <1>1, SameKnown
  <1>5. \A r \in Holds(u)' : r \in Holds(u) \/ r = made + 1
    BY Zenon, <1>1, <1>3 DEF Holds, Has
  <1> QED
    BY Zenon, <1>1, <1>4, <1>5 DEF RowsFlow

LEMMA UpdateFlow ==
  ASSUME SyncType, NEW u \in Users, Update(u)
  PROVE  RowsFlow(u)
  <1>1. UNCHANGED <<versions, local, made>>
    BY Zenon, UpdateDoes
  <1>2. CASE KeepsFiles
    BY Zenon, <1>2, KeepsFlow
  <1>3. ASSUME NEW tid \in DOMAIN versions, MovesTo(u, tid) PROVE RowsFlow(u)
    <2>1. \/ remote' = remote \/ remote'[u] = TableOf(tid)
          \/ remote'[u] = Merge(CheckedOut(u), remote[u], TableOf(tid))
      BY Zenon, <1>3 DEF MovesTo
    <2>2. TableOf(tid) \in Table /\ CheckedOut(u) \in Table /\ remote[u] \in Table
      BY Zenon, FilesType
    <2>3. Has(TableOf(tid)) \subseteq Known
      BY Zenon DEF Known
    <2>4. Has(Merge(CheckedOut(u), remote[u], TableOf(tid))) \subseteq Holds(u) \cup Known
      BY Zenon, <2>2, <2>3, MergeHas DEF Holds
    <2>5. Has(remote'[u]) \subseteq Holds(u) \cup Known
      BY Zenon, <2>1, <2>3, <2>4 DEF Holds
    <2>6. local'[u] # NoFile => Has(local'[u]) \subseteq Holds(u)
      BY Zenon, <1>1 DEF Holds
    <2> QED
      BY Zenon, <1>1, <2>5, <2>6, SameFlow
  <1> QED
    BY Zenon, <1>2, <1>3, UpdateDoes

LEMMA NextFlow ==
  ASSUME SyncType, NEW u \in Users, UserNext(u) \/ ProgramNext(u)
  PROVE  RowsFlow(u)
  <1>1. Has(remote[u]) \subseteq Holds(u) /\ (local[u] # NoFile => Has(local[u]) \subseteq Holds(u))
    BY Zenon DEF Holds
  <1>2. CASE InsertRow(u)
    BY Zenon, <1>2, InsertFlow
  <1>3. ASSUME NEW r \in Rows, DeleteRow(u, r) PROVE RowsFlow(u)
    <2>1. /\ UNCHANGED <<versions, remote, made>>
          /\ local[u] # NoFile /\ local'[u] = [local[u] EXCEPT ![r] = 0]
      BY Zenon, <1>3, DeleteRowDoes
    <2>2. local[u] \in Table
      BY Zenon, <2>1, FilesType
    <2>3. Has(local'[u]) \subseteq Has(local[u])
      BY <2>1, <2>2 DEF Has, Table
    <2> QED
      BY Zenon, <1>1, <2>1, <2>3, SameFlow
  <1>4. CASE OpenFile(u)
    <2>1. UNCHANGED <<versions, remote, made>> /\ local'[u] = remote[u]
      BY Zenon, <1>4, OpenFileDoes
    <2> QED
      BY Zenon, <1>1, <2>1, SameFlow
  <1>5. ASSUME NEW import \in BOOLEAN, NEW describe \in BOOLEAN, OnCommit(u, import, describe)
        PROVE  RowsFlow(u)
    <2>1. /\ UNCHANGED <<versions, local, made>> /\ (import => local[u] # NoFile)
          /\ remote'[u] = IF import THEN local[u] ELSE remote[u]
      BY Zenon, <1>5, OnCommitDoes
    <2> QED
      BY Zenon, <1>1, <2>1, SameFlow
  <1>6. CASE CrashInMerge(u) \/ MergeListing(u) \/ MergeFails(u)
    <2>1. /\ UNCHANGED <<versions, remote, made>>
          /\ KeepsFiles \/ (local[u] # NoFile /\ local'[u] = Merged(u))
      BY Zenon, <1>6, CrashInMergeDoes, MergeListingDoes
    <2> QED
      BY Zenon, <1>1, <2>1, MergedHas, SameFlow, KeepsFlow
  <1>7. CASE MergeUnread(u) \/ PushEnded(u)
    <2>1. UNCHANGED <<versions, local, remote, made>>
      BY Zenon, <1>7, MergeUnreadDoes, PushEndedDoes
    <2> QED
      BY Zenon, <1>1, <2>1, SameFlow
  <1>8. CASE Update(u)
    BY Zenon, <1>8, UpdateFlow
  <1>9. CASE Commit(u)
    <2>1. UNCHANGED <<local, remote, made>>
      BY Zenon, <1>9, CommitDoes
    <2>2. Holds(u)' = Holds(u) /\ Known' \subseteq Known \cup Holds(u)
      BY Zenon, <1>1, <1>9, <2>1, KnownGain DEF Holds
    <2> QED
      BY Zenon, <2>1, <2>2 DEF RowsFlow
  <1>10. ASSUME NEW choice \in RepushChoices, OperationFailed(u, choice) PROVE RowsFlow(u)
    <2>1. UNCHANGED <<versions, local, made>> /\ remote'[u] = CheckedOut(u)
      BY Zenon, <1>10, OperationFailedDoes
    <2> QED
      BY Zenon, <1>1, <2>1, CheckedOutKnown, SameFlow
  <1>11. CASE OnSync(u) \/ Leave(u) \/ Crash(u) \/ PushRepository(u) \/ FossilFails(u)
    BY Zenon, <1>11, OnSyncDoes, RestartDoes, PushRepositoryDoes, FossilFailsDoes, KeepsFlow
  <1> QED
    BY Zenon, <1>2, <1>3, <1>4, <1>5, <1>6, <1>7, <1>8, <1>9, <1>10, <1>11
       DEF UserNext, ProgramNext

(* A row that is not made yet is nowhere.                                  *)
LEMMA NextMade ==
  ASSUME SyncType, MadeInv, NEW u \in Users, Others(u), RowsFlow(u)
  PROVE  MadeInv'
  <1>1. made \in Nat
    BY Zenon DEF SyncType
  <1>2. \A r \in Rows : r <= made => r <= made'
    BY <1>1 DEF RowsFlow, Rows
  <1>3. /\ \A r \in Known : r \in Rows /\ r <= made
        /\ \A w \in Users : \A r \in Holds(w) : r \in Rows /\ r <= made
    BY Zenon DEF MadeInv, Known, Holds, Has
  <1>4. \A r \in Known' : r <= made'
    BY Zenon, <1>2, <1>3 DEF RowsFlow
  <1>5. \A r \in Holds(u)' : r <= made'
    <2>1. made' = made + 1 => made + 1 <= made'
      BY <1>1
    <2> QED
      BY Zenon, <1>2, <1>3, <2>1 DEF RowsFlow
  <1>6. \A w \in Users \ {u} : Holds(w)' = Holds(w)
    BY Zenon DEF Others, Holds, Has
  <1>7. \A w \in Users : \A r \in Holds(w)' : r <= made'
    BY Zenon, <1>2, <1>3, <1>5, <1>6
  <1> QED
    BY Zenon, <1>4, <1>7 DEF MadeInv

LEMMA NewIsPrivate ==
  ASSUME SyncType, MadeInv, NEW u \in Users
  PROVE  /\ Private(u, made + 1)
         /\ made + 1 \in Rows => remote[u][made + 1] = 0
  <1>1. made \in Nat /\ ~(made + 1 <= made)
    BY DEF SyncType
  <1>2. Private(u, made + 1)
    BY Zenon, <1>1 DEF Private, MadeInv
  <1>3. made + 1 \notin Has(remote[u])
    BY Zenon, <1>1 DEF MadeInv, Holds
  <1>4. remote[u] \in [Rows -> 0 .. 2]
    BY Zenon DEF SyncType, Table, Copies
  <1>5. ASSUME made + 1 \in Rows PROVE remote[u][made + 1] = 0
    BY <1>3, <1>4, <1>5 DEF Has
  <1> QED
    BY Zenon, <1>2, <1>5

(* What is one's own stays so unless one commits it oneself.               *)
LEMMA PrivateToOthers ==
  ASSUME SyncType, MadeInv, NEW u \in Users, Others(u), RowsFlow(u),
         NEW w \in Users \ {u}, NEW r \in Holds(w), Private(w, r)
  PROVE  Private(w, r)'
  <1>1. made \in Nat /\ ~(made + 1 <= made)
    BY DEF SyncType
  <1>2. r # made + 1
    BY Zenon, <1>1 DEF MadeInv
  <1>3. r \notin Known /\ r \notin Holds(u)
    BY Zenon DEF Private
  <1>4. r \notin Known' /\ r \notin Holds(u)'
    BY Zenon, <1>2, <1>3 DEF RowsFlow
  <1>5. ASSUME NEW x \in Users \ {w}, x # u PROVE r \notin Holds(x)'
    BY Zenon, <1>5 DEF Others, Holds, Private, Has
  <1> QED
    BY Zenon, <1>4, <1>5 DEF Private

LEMMA PrivateStays ==
  ASSUME NEW u \in Users, Others(u), NEW r, Private(u, r), r \notin Known'
  PROVE  Private(u, r)'
  BY Zenon DEF Private, Others, Holds, Has

LEMMA BrokenStays ==
  ASSUME SyncType, NEW u \in Users, UserNext(u) \/ ProgramNext(u)
  PROVE  \A w \in Users : ~broken'[w] => ~broken[w]
  <1>1. Others(u)
    BY Zenon, NextDoes
  <1>2. SUFFICES ~broken'[u] => ~broken[u]
    BY Zenon, <1>1 DEF Others
  <1>3. CASE UserNext(u)
    <2>1. InsertRow(u) \/ (\E r \in Rows : DeleteRow(u, r)) \/ OpenFile(u) \/ OnSync(u) =>
            broken' = broken
      BY Zenon, InsertRowDoes, DeleteRowDoes, OpenFileDoes, OnSyncDoes
    <2>2. ASSUME NEW import \in BOOLEAN, NEW describe \in BOOLEAN, OnCommit(u, import, describe)
          PROVE  broken'[u] = broken[u] \/ broken'[u]
      BY Zenon, <2>2, OnCommitDoes
    <2>3. Leave(u) \/ Crash(u) => broken'[u] \/ broken' = broken
      BY Zenon, RestartDoes
    <2>4. CrashInMerge(u) => broken'[u]
      BY Zenon, CrashInMergeDoes
    <2> QED
      BY Zenon, <1>3, <2>1, <2>2, <2>3, <2>4 DEF UserNext
  <1>4. CASE ProgramNext(u)
    <2>1. broken' = broken
      BY Zenon, <1>4, UpdateDoes, CommitDoes, PushRepositoryDoes, FossilFailsDoes,
         MergeListingDoes, MergeUnreadDoes, PushEndedDoes, OperationFailedDoes DEF ProgramNext
    <2> QED
      BY Zenon, <2>1
  <1> QED
    BY Zenon, <1>3, <1>4

LEMMA OthersOwn ==
  ASSUME SyncType, MadeInv, NEW u \in Users, Others(u), Grows, RowsFlow(u),
         NEW w \in Users \ {u}, OwnOK(w)
  PROVE  OwnOK(w)'
  <1>1. /\ CheckedOut(w)' = CheckedOut(w) /\ local'[w] = local[w] /\ remote'[w] = remote[w]
        /\ pivot'[w] = pivot[w] /\ gui'[w] = gui[w] /\ behind'[w] = behind[w]
        /\ broken'[w] = broken[w]
    BY Zenon, OthersKeep
  <1>2. SUFFICES ASSUME ~broken[w], local[w] # NoFile PROVE LocalIsOwn(w)'
    BY Zenon, <1>1 DEF OwnOK
  <1>3. LocalIsOwn(w)
    BY Zenon, <1>2 DEF OwnOK
  <1>4. /\ local[w] \in [Rows -> 0 .. 2] /\ remote[w] \in [Rows -> 0 .. 2]
        /\ CheckedOut(w) \in [Rows -> 0 .. 2]
        /\ pivot[w] # NoFile => pivot[w] \in [Rows -> 0 .. 2]
    BY Zenon, <1>2, FilesType DEF Table, Copies
  <1>5. /\ Extra(local[w], CheckedOut(w)) \subseteq Holds(w)
        /\ Extra(local[w], remote[w]) \subseteq Holds(w)
        /\ Extra(remote[w], CheckedOut(w)) \subseteq Holds(w)
        /\ pivot[w] # NoFile => Extra(local[w], pivot[w]) \subseteq Holds(w)
    BY <1>2, <1>4 DEF Extra, Holds, Has
  <1>6. \A r \in Holds(w) : Private(w, r) => Private(w, r)'
    BY Zenon, PrivateToOthers
  <1> QED
    BY Zenon, <1>1, <1>3, <1>5, <1>6 DEF LocalIsOwn, Extra

-----------------------------------------------------------------------------
(* local and pivot stay as they are, and so do the versions.               *)
LEMMA SameOwn ==
  ASSUME SyncType, NEW u \in Users, OwnOK(u), Others(u), ~broken'[u] => ~broken[u],
         UNCHANGED <<versions, vid, local, pivot, behind>>, gui'[u].proc # "commit",
         gui'[u].next # "revertable" \/ ~gui'[u].updateCache =>
           gui[u].next # "revertable" \/ ~gui[u].updateCache
  PROVE  OwnOK(u)'
  <1>1. SUFFICES ASSUME ~broken[u], local[u] # NoFile PROVE LocalIsOwn(u)'
    BY Zenon DEF OwnOK
  <1>2. LocalIsOwn(u)
    BY Zenon, <1>1 DEF OwnOK
  <1>3. CheckedOut(u)' = CheckedOut(u)
    BY Zenon DEF CheckedOut, TableOf
  <1>4. \A r : Private(u, r) => Private(u, r)'
    BY Zenon, SameKnown, PrivateStays DEF Private
  <1> QED
    BY Zenon, <1>2, <1>3, <1>4 DEF LocalIsOwn, Extra

(* The pivot becomes the version checked out.                              *)
LEMMA PivotOwn ==
  ASSUME SyncType, NEW u \in Users, OwnOK(u), Others(u), broken' = broken,
         UNCHANGED <<versions, vid, local>>, gui'[u].proc # "commit",
         ~broken[u] => PivotMoves(u, CheckedOut(u))
  PROVE  OwnOK(u)'
  <1>1. SUFFICES ASSUME ~broken[u], local[u] # NoFile PROVE LocalIsOwn(u)'
    BY Zenon DEF OwnOK
  <1>2. LocalIsOwn(u) /\ PivotMoves(u, CheckedOut(u))
    BY Zenon, <1>1 DEF OwnOK
  <1>3. CheckedOut(u)' = CheckedOut(u)
    BY Zenon DEF CheckedOut, TableOf
  <1>4. \A r : Private(u, r) => Private(u, r)'
    BY Zenon, SameKnown, PrivateStays DEF Private
  <1>5. behind'[u] # "unmerged" /\ (behind'[u] = "no" => behind[u] = "no")
    BY Zenon, <1>2 DEF PivotMoves
  <1> QED
    BY Zenon, <1>2, <1>3, <1>4, <1>5 DEF LocalIsOwn, Extra, PivotMoves

(* local changes, but has no more copies of a row than before unless it is *)
(* the user's own.                                                         *)
LEMMA EditOwn ==
  ASSUME SyncType, NEW u \in Users, OwnOK(u), Others(u),
         UNCHANGED <<versions, vid, remote, pivot, behind, gui, broken>>,
         local[u] # NoFile,
         \A r \in Rows : \/ ~(local'[u][r] > local[u][r])
                         \/ Private(u, r) /\ remote[u][r] = 0,
         local'[u] \in Table
  PROVE  OwnOK(u)'
  <1>1. SUFFICES ASSUME ~broken[u] PROVE LocalIsOwn(u)'
    BY Zenon DEF OwnOK
  <1>2. LocalIsOwn(u)
    BY Zenon, <1>1 DEF OwnOK
  <1>3. CheckedOut(u)' = CheckedOut(u)
    BY Zenon DEF CheckedOut, TableOf
  <1>4. \A r : Private(u, r) => Private(u, r)'
    BY Zenon, SameKnown, PrivateStays DEF Private
  <1>5. local[u] \in [Rows -> 0 .. 2] /\ local'[u] \in [Rows -> 0 .. 2]
    BY Zenon, FilesType DEF Table, Copies
  <1>6. ASSUME NEW base \in [Rows -> 0 .. 2], NEW r \in Extra(local'[u], base)
        PROVE  r \in Extra(local[u], base) \/ (Private(u, r) /\ remote[u][r] = 0)
    BY <1>5 DEF Extra
  <1>7. /\ CheckedOut(u) \in [Rows -> 0 .. 2] /\ remote[u] \in [Rows -> 0 .. 2]
        /\ pivot[u] # NoFile => pivot[u] \in [Rows -> 0 .. 2]
    BY Zenon, FilesType DEF Table, Copies
  <1>8. /\ \A r \in Extra(local'[u], CheckedOut(u)) :
             r \in Extra(local[u], CheckedOut(u)) \/ Private(u, r)
        /\ \A r \in Extra(local'[u], remote[u]) :
             r \in Extra(local[u], remote[u]) \/ (Private(u, r) /\ remote[u][r] = 0)
        /\ pivot[u] # NoFile => \A r \in Extra(local'[u], pivot[u]) :
             r \in Extra(local[u], pivot[u]) \/ Private(u, r)
    BY Zenon, <1>6, <1>7
  <1> QED
    BY Zenon, <1>2, <1>3, <1>4, <1>8 DEF LocalIsOwn, Extra

LEMMA OpenFileOwn ==
  ASSUME SyncType, NEW u \in Users, QuietOK(u), OwnOK(u), OpenFile(u)
  PROVE  OwnOK(u)'
  <1>1. /\ UNCHANGED <<versions, vid, remote, broken>> /\ gui[u].proc = "none"
        /\ local'[u] = remote[u] /\ pivot'[u] = remote[u] /\ gui'[u].proc = "none"
    BY Zenon, OpenFileDoes DEF ProgramIs
  <1>2. SUFFICES ASSUME ~broken[u] PROVE LocalIsOwn(u)'
    BY Zenon, <1>1 DEF OwnOK
  <1>3. gui[u].proc \notin {"commit", "failed"}
    BY Zenon, <1>1
  <1>4. CheckedOut(u)' = remote[u]
    BY Zenon, <1>1, <1>2, <1>3 DEF QuietOK, CheckedOut, TableOf
  <1>5. remote[u] \in [Rows -> 0 .. 2]
    BY Zenon, FilesType DEF Table, Copies
  <1>6. Extra(remote[u], remote[u]) = {}
    BY <1>5 DEF Extra
  <1> QED
    BY Zenon, <1>1, <1>4, <1>6 DEF LocalIsOwn, Extra

LEMMA OnCommitOwn ==
  ASSUME SyncType, NEW u \in Users, ProcOK(u), QuietOK(u), OwnOK(u),
         NEW import \in BOOLEAN, NEW describe \in BOOLEAN, OnCommit(u, import, describe)
  PROVE  OwnOK(u)'
  <1>1. /\ Others(u) /\ UNCHANGED <<versions, vid, local, pivot>>
        /\ gui[u].proc = "none" /\ (import => local[u] # NoFile)
        /\ remote'[u] = IF import THEN local[u] ELSE remote[u]
        /\ behind'[u] = IF import /\ behind[u] = "unmerged" THEN "lost" ELSE behind[u]
        /\ gui'[u].updateCache = import
    BY Zenon, OnCommitDoes
  <1>2. /\ describe => /\ gui'[u].next = "revertable" /\ broken'[u] = broken[u]
                       /\ gui'[u].proc = IF remote'[u] # CheckedOut(u) THEN "commit" ELSE "push"
        /\ ~describe => broken'[u]
    BY Zenon, OnCommitDoes
  <1>3. SUFFICES ASSUME ~broken'[u] PROVE OwnOK(u)'
    BY Zenon DEF OwnOK
  <1>4. /\ ~broken[u] /\ gui'[u].next = "revertable"
        /\ gui'[u].proc = IF remote'[u] # CheckedOut(u) THEN "commit" ELSE "push"
    BY Zenon, <1>2, <1>3
  <1>5. gui[u].proc \notin {"commit", "failed"} /\ gui[u].next = "nothing"
    BY Zenon, <1>1 DEF ProcOK
  <1>6. remote[u] = CheckedOut(u)
    BY Zenon, <1>4, <1>5 DEF QuietOK
  <1>7. gui'[u].proc = "commit" => import
    BY Zenon, <1>1, <1>4, <1>6
  <1>8. /\ import => behind'[u] # "unmerged"
        /\ behind'[u] = "no" => behind[u] = "no"
        /\ behind'[u] = "unmerged" => behind[u] = "unmerged"
    BY Zenon, <1>1
  <1>9. SUFFICES ASSUME local[u] # NoFile PROVE LocalIsOwn(u)'
    BY Zenon, <1>1, <1>7, <1>8 DEF OwnOK
  <1>10. LocalIsOwn(u)
    BY Zenon, <1>4, <1>9 DEF OwnOK
  <1>11. CheckedOut(u)' = CheckedOut(u)
    BY Zenon, <1>1 DEF CheckedOut, TableOf
  <1>12. \A r : Private(u, r) => Private(u, r)'
    BY Zenon, <1>1, SameKnown, PrivateStays DEF Private
  <1>13. local[u] \in [Rows -> 0 .. 2]
    BY Zenon, <1>9, FilesType DEF Table, Copies
  <1>14. Extra(local[u], local[u]) = {}
    BY <1>13 DEF Extra
  <1>15. gui[u].next # "revertable"
    BY Zenon, <1>5
  <1>16. import => remote'[u] = local[u]
    BY Zenon, <1>1
  <1>17. local' = local /\ pivot' = pivot /\ gui'[u].updateCache = import
    BY Zenon, <1>1
  <1> QED
    BY Zenon, <1>4, <1>7, <1>8, <1>10, <1>11, <1>12, <1>14, <1>15, <1>16, <1>17
       DEF LocalIsOwn, Extra

LEMMA UpdateOwn ==
  ASSUME SyncType, NEW u \in Users, ProcOK(u), QuietOK(u), OwnOK(u), Update(u)
  PROVE  OwnOK(u)'
  <1>1. /\ Others(u) /\ UNCHANGED <<versions, local, pivot, broken>> /\ gui[u].proc = "update"
        /\ gui[u].next = "view_sync"
    BY Zenon, UpdateDoes DEF ProcOK
  <1>2. CASE KeepsFiles /\ ProgramIs(u, "failed", gui[u].next, gui[u].updateCache)
    <2>1. UNCHANGED <<versions, vid, local, pivot, behind>>
      BY Zenon, <1>2 DEF KeepsFiles
    <2>2. gui'[u].proc # "commit" /\ gui[u].next # "revertable"
      BY Zenon, <1>1, <1>2 DEF ProgramIs
    <2> QED
      BY Zenon, <1>1, <2>1, <2>2, SameOwn
  <1>3. ASSUME NEW tid \in DOMAIN versions, MovesTo(u, tid) PROVE OwnOK(u)'
    <2>1. gui'[u].proc = "ended" /\ CheckedOut(u)' = TableOf(tid)
      BY Zenon, <1>1, <1>3 DEF MovesTo, ProgramIs, CheckedOut, TableOf
    <2>2. SUFFICES ASSUME ~broken[u], local[u] # NoFile PROVE LocalIsOwn(u)'
      BY Zenon, <1>1, <2>1 DEF OwnOK
    <2>3. LocalIsOwn(u) /\ gui'[u].proc # "commit" /\ gui[u].next # "revertable"
      BY Zenon, <1>1, <2>1, <2>2 DEF OwnOK
    <2>4. \A r : Private(u, r) => Private(u, r)'
      BY Zenon, <1>1, SameKnown, PrivateStays DEF Private
    <2>5. CASE TableOf(tid) = CheckedOut(u) /\ UNCHANGED <<remote, behind>>
      BY Zenon, <1>1, <2>1, <2>3, <2>4, <2>5 DEF LocalIsOwn, Extra
    <2>6. CASE behind'[u] = IF local[u] # NoFile /\ behind[u] = "no" THEN "unmerged" ELSE behind[u]
      <3>1. behind'[u] # "no" /\ (behind'[u] = "unmerged" => behind[u] \in {"no", "unmerged"})
        BY Zenon, <2>2, <2>6
      <3>2. behind[u] = "no" /\ pivot[u] # NoFile => pivot[u] = CheckedOut(u)
        BY Zenon, <2>3 DEF LocalIsOwn
      <3>3. behind[u] \in {"no", "unmerged"} /\ pivot[u] # NoFile =>
              \A r \in Extra(local[u], pivot[u]) : Private(u, r)
        BY Zenon, <2>3, <3>2 DEF LocalIsOwn
      <3> QED
        BY Zenon, <1>1, <2>3, <2>4, <3>1, <3>3 DEF LocalIsOwn, Extra
    <2> QED
      BY Zenon, <1>3, <2>5, <2>6 DEF MovesTo
  <1> QED
    BY Zenon, <1>2, <1>3, UpdateDoes

LEMMA CommitOwn ==
  ASSUME SyncType, NEW u \in Users, ProcOK(u), OwnOK(u), Commit(u)
  PROVE  OwnOK(u)'
  <1>1. /\ Others(u) /\ UNCHANGED <<local, remote, pivot, behind, broken>> /\ gui[u].proc = "commit"
        /\ gui[u].next = "revertable"
    BY Zenon, CommitDoes DEF ProcOK
  <1>2. CASE KeepsFiles /\ ProgramIs(u, "failed", gui[u].next, gui[u].updateCache)
    <2>1. UNCHANGED <<versions, vid, local, pivot, behind>>
      BY Zenon, <1>2 DEF KeepsFiles
    <2>2. gui'[u].proc # "commit" /\ gui'[u].next = gui[u].next
          /\ gui'[u].updateCache = gui[u].updateCache
      BY Zenon, <1>2 DEF ProgramIs
    <2> QED
      BY Zenon, <1>1, <2>1, <2>2, SameOwn
  <1>3. CASE Adds(u)
    <2>1. /\ gui'[u].proc = "push" /\ gui'[u].next = "revertable"
          /\ gui'[u].updateCache = gui[u].updateCache
      BY Zenon, <1>1, <1>3 DEF Adds, ProgramIs
    <2>2. CheckedOut(u)' = remote[u]
      BY <1>3 DEF Adds, CheckedOut, TableOf
    <2>3. SUFFICES ASSUME ~broken[u], local[u] # NoFile PROVE LocalIsOwn(u)'
      BY Zenon, <1>1, <2>1 DEF OwnOK
    <2>4. LocalIsOwn(u) /\ gui[u].updateCache /\ behind[u] # "unmerged"
      BY Zenon, <1>1, <2>3 DEF OwnOK
    <2>5. ASSUME behind[u] = "no", NEW r \in Extra(local[u], remote[u]) PROVE Private(u, r)'
      <3>1. Private(u, r) /\ remote[u][r] = 0 /\ ~(0 > 0)
        BY <1>1, <2>4, <2>5 DEF LocalIsOwn
      <3>2. r \notin Known /\ r \notin Has(remote[u])
        BY Zenon, <3>1 DEF Private, Has
      <3> QED
        BY Zenon, <1>1, <3>1, <3>2, KnownGain, PrivateStays
    <2> QED
      BY Zenon, <1>1, <2>1, <2>2, <2>4, <2>5 DEF LocalIsOwn, Extra
  <1> QED
    BY Zenon, <1>2, <1>3, CommitDoes

(* A row that is to be merged from the version checked out is the user's   *)
(* own where local has more of it than the pivot.                          *)
LEMMA MoreIsOwn ==
  ASSUME NEW u \in Users, OwnOK(u), ~broken[u], local[u] # NoFile, behind[u] # "lost", SyncType,
         gui[u].next = "view_sync", NEW r \in Rows, local[u][r] > PivotOf(u)[r]
  PROVE  Private(u, r)
  <1>1. LocalIsOwn(u) /\ behind[u] \in {"no", "unmerged"} /\ gui[u].next # "revertable"
    BY Zenon DEF OwnOK, SyncType
  <1>2. local[u] \in [Rows -> 0 .. 2]
    BY Zenon, FilesType DEF Table, Copies
  <1>3. ~(local[u][r] > local[u][r])
    BY <1>2
  <1>4. pivot[u] # NoFile /\ PivotOf(u) = pivot[u]
    BY Zenon, <1>3 DEF PivotOf
  <1>5. r \in Extra(local[u], pivot[u])
    BY Zenon, <1>4 DEF Extra
  <1>6. CASE behind[u] = "no"
    <2>1. pivot[u] = CheckedOut(u)
      BY Zenon, <1>1, <1>4, <1>6 DEF LocalIsOwn
    <2> QED
      BY Zenon, <1>1, <1>5, <1>6, <2>1 DEF LocalIsOwn
  <1>7. CASE behind[u] = "unmerged"
    BY Zenon, <1>1, <1>4, <1>5, <1>7 DEF LocalIsOwn
  <1> QED
    BY Zenon, <1>1, <1>6, <1>7

LEMMA MergeOwn ==
  ASSUME SyncType, NEW u \in Users, QuietOK(u), OwnOK(u), MergeListing(u) \/ MergeFails(u)
  PROVE  OwnOK(u)'
  <1>1. /\ Others(u) /\ UNCHANGED <<versions, vid, remote, broken>>
        /\ gui[u].proc = "ended" /\ gui[u].next = "view_sync"
        /\ ProgramIs(u, "none", "nothing", FALSE)
    BY Zenon, MergeListingDoes
  <1>2. gui'[u].proc # "commit" /\ gui[u].next # "revertable"
    BY Zenon, <1>1 DEF ProgramIs
  <1>3. CASE KeepsFiles
    <2>1. UNCHANGED <<versions, vid, local, pivot, behind>>
      BY Zenon, <1>3 DEF KeepsFiles
    <2> QED
      BY Zenon, <1>1, <1>2, <2>1, SameOwn
  <1>4. CASE /\ local[u] # NoFile /\ local'[u] = Merged(u) /\ pivot'[u] = remote[u]
             /\ behind'[u] = IF local'[u] # Merge(PivotOf(u), local[u], remote[u]) THEN "lost"
                             ELSE IF behind[u] = "unmerged" THEN "no" ELSE behind[u]
    <2>1. SUFFICES ASSUME ~broken[u] PROVE LocalIsOwn(u)'
      BY Zenon, <1>1, <1>2 DEF OwnOK
    <2>2. gui[u].proc \notin {"commit", "failed"}
      BY Zenon, <1>1
    <2>3. CheckedOut(u)' = remote[u]
      BY Zenon, <1>1, <2>1, <2>2 DEF QuietOK, CheckedOut, TableOf
    <2>4. /\ behind'[u] # "unmerged"
          /\ behind'[u] = "no" => /\ local'[u] = Merge(PivotOf(u), local[u], remote[u])
                                  /\ behind[u] # "lost"
      BY Zenon, <1>4
    <2>5. PivotOf(u) \in Table /\ local[u] \in Table /\ remote[u] \in Table
      BY Zenon, <1>4, PivotType, FilesType
    <2>6. ASSUME behind'[u] = "no", NEW r \in Extra(local'[u], remote[u]) PROVE Private(u, r)'
      <3>1. r \in Rows /\ Merge(PivotOf(u), local[u], remote[u])[r] > remote[u][r]
        BY Zenon, <2>4, <2>6 DEF Extra
      <3>2. local[u][r] > PivotOf(u)[r]
        BY Zenon, <2>5, <3>1, MergeCell
      <3>3. Private(u, r)
        BY Zenon, <1>1, <1>4, <2>1, <2>4, <2>6, <3>1, <3>2, MoreIsOwn
      <3> QED
        BY Zenon, <1>1, <3>3, SameKnown, PrivateStays DEF Private
    <2> QED
      BY Zenon, <1>2, <1>4, <2>3, <2>4, <2>6 DEF LocalIsOwn, Extra
  <1> QED
    BY Zenon, <1>3, <1>4, MergeListingDoes

LEMMA NextOwn ==
  ASSUME SyncInv, MadeInv, \A w \in Users : OwnOK(w), NEW u \in Users, UserNext(u) \/ ProgramNext(u)
  PROVE  \A w \in Users : OwnOK(w)'
  <1>1. SyncType /\ ProcOK(u) /\ QuietOK(u) /\ OwnOK(u)
    BY Zenon DEF SyncInv, ProcInv, QuietInv
  <1>2. Others(u) /\ Grows /\ RowsFlow(u) /\ (~broken'[u] => ~broken[u])
    BY Zenon, <1>1, NextDoes, NextFlow, BrokenStays
  <1>3. SUFFICES OwnOK(u)'
    BY Zenon, <1>1, <1>2, OthersOwn
  <1>4. CASE InsertRow(u)
    <2>1. /\ UNCHANGED <<versions, vid, remote, pivot, behind, gui, broken>>
          /\ local[u] # NoFile /\ local'[u] = [local[u] EXCEPT ![made + 1] = 1]
          /\ local'[u] \in Table /\ made + 1 \in Rows
      BY Zenon, <1>1, <1>4, InsertRowDoes
    <2>2. local[u] \in [Rows -> 0 .. 2]
      BY Zenon, <1>1, <2>1, FilesType DEF Table, Copies
    <2>3. \A r \in Rows : ~(local'[u][r] > local[u][r]) \/ r = made + 1
      BY <2>1, <2>2
    <2>4. \A r \in Rows : ~(local'[u][r] > local[u][r]) \/ (Private(u, r) /\ remote[u][r] = 0)
      BY Zenon, <1>1, <2>1, <2>3, NewIsPrivate
    <2> QED
      BY Zenon, <1>1, <1>2, <2>1, <2>4, EditOwn
  <1>5. ASSUME NEW r \in Rows, DeleteRow(u, r) PROVE OwnOK(u)'
    <2>1. /\ UNCHANGED <<versions, vid, remote, pivot, behind, gui, broken>>
          /\ local[u] # NoFile /\ local'[u] = [local[u] EXCEPT ![r] = 0]
          /\ local'[u] \in Table
      BY Zenon, <1>1, <1>5, DeleteRowDoes
    <2>2. local[u] \in [Rows -> 0 .. 2]
      BY Zenon, <1>1, <2>1, FilesType DEF Table, Copies
    <2>3. \A q \in Rows : ~(local'[u][q] > local[u][q])
      BY <2>1, <2>2
    <2> QED
      BY Zenon, <1>1, <1>2, <2>1, <2>3, EditOwn
  <1>6. CASE OpenFile(u)
    BY Zenon, <1>1, <1>6, OpenFileOwn
  <1>7. CASE OnSync(u)
    <2>1. /\ UNCHANGED <<versions, vid, local, pivot, behind>>
          /\ gui[u].proc = "none" /\ gui'[u].proc # "commit"
      BY Zenon, <1>1, <1>7, OnSyncDoes DEF KeepsFiles, ProgramIs
    <2>2. gui[u].next # "revertable"
      BY Zenon, <1>1, <2>1 DEF ProcOK
    <2> QED
      BY Zenon, <1>1, <1>2, <2>1, <2>2, SameOwn
  <1>8. ASSUME NEW import \in BOOLEAN, NEW describe \in BOOLEAN, OnCommit(u, import, describe)
        PROVE  OwnOK(u)'
    BY Zenon, <1>1, <1>8, OnCommitOwn
  <1>9. CASE Leave(u) \/ Crash(u)
    <2>1. /\ UNCHANGED <<versions, vid, local, pivot, behind>>
          /\ gui'[u].proc # "commit"
          /\ broken'[u] \/ gui[u].proc = "none"
      BY Zenon, <1>1, <1>9, RestartDoes DEF KeepsFiles, ProgramIs
    <2>2. broken'[u] \/ gui[u].next # "revertable"
      BY Zenon, <1>1, <2>1 DEF ProcOK
    <2>3. CASE broken'[u]
      BY Zenon, <2>3 DEF OwnOK
    <2> QED
      BY Zenon, <1>1, <1>2, <2>1, <2>2, <2>3, SameOwn
  <1>10. CASE CrashInMerge(u)
    BY Zenon, <1>1, <1>10, CrashInMergeDoes DEF OwnOK
  <1>11. CASE Update(u)
    BY Zenon, <1>1, <1>11, UpdateOwn
  <1>12. CASE Commit(u)
    BY Zenon, <1>1, <1>12, CommitOwn
  <1>13. CASE PushRepository(u) \/ FossilFails(u)
    <2>1. /\ UNCHANGED <<versions, vid, local, pivot, behind>> /\ gui'[u].proc # "commit"
          /\ gui'[u].next = gui[u].next /\ gui'[u].updateCache = gui[u].updateCache
      BY Zenon, <1>1, <1>13, PushRepositoryDoes, FossilFailsDoes DEF KeepsFiles, ProgramIs
    <2> QED
      BY Zenon, <1>1, <1>2, <2>1, SameOwn
  <1>14. CASE MergeListing(u) \/ MergeFails(u)
    BY Zenon, <1>1, <1>14, MergeOwn
  <1>15. CASE MergeUnread(u)
    <2>1. /\ UNCHANGED <<versions, vid, local, broken>> /\ PivotMoves(u, remote[u])
          /\ gui[u].proc = "ended" /\ gui'[u].proc # "commit"
      BY Zenon, <1>1, <1>15, MergeUnreadDoes DEF ProgramIs
    <2>2. ~broken[u] => remote[u] = CheckedOut(u)
      <3>1. gui[u].proc \notin {"commit", "failed"}
        BY Zenon, <2>1
      <3> QED
        BY Zenon, <1>1, <3>1 DEF QuietOK
    <2> QED
      BY Zenon, <1>1, <1>2, <2>1, <2>2, PivotOwn
  <1>16. CASE PushEnded(u)
    <2>1. /\ UNCHANGED <<versions, vid, local, remote, broken>> /\ gui'[u].proc # "commit"
          /\ gui[u].proc \in {"push", "ended"} /\ gui[u].next = "revertable"
          /\ IF gui[u].updateCache THEN PivotMoves(u, remote[u]) ELSE UNCHANGED <<pivot, behind>>
      BY Zenon, <1>1, <1>16, PushEndedDoes DEF ProgramIs
    <2>2. remote[u] = CheckedOut(u)
      BY Zenon, <1>1, <2>1 DEF ProcOK
    <2> QED
      BY Zenon, <1>1, <1>2, <2>1, <2>2, PivotOwn, SameOwn
  <1>17. ASSUME NEW choice \in RepushChoices, OperationFailed(u, choice) PROVE OwnOK(u)'
    <2>1. /\ UNCHANGED <<versions, vid, local, broken>> /\ gui'[u].proc # "commit"
          /\ IF gui[u].updateCache THEN PivotMoves(u, CheckedOut(u))
             ELSE UNCHANGED <<pivot, behind>>
          /\ remote'[u] = CheckedOut(u)
      BY Zenon, <1>1, <1>17, OperationFailedDoes DEF ProgramIs
    <2> QED
      BY Zenon, <1>1, <1>2, <2>1, PivotOwn, SameOwn
  <1> QED
    BY Zenon, <1>4, <1>5, <1>6, <1>7, <1>8, <1>9, <1>10, <1>11, <1>12, <1>13, <1>14, <1>15, <1>16,
       <1>17 DEF UserNext, ProgramNext

-----------------------------------------------------------------------------
(* The rows that a commit brings are the user's own.                       *)
LEMMA CommitIsOwn ==
  ASSUME SyncInv, NEW u \in Users, OwnOK(u), ~broken[u], behind[u] = "no", Commit(u)
  PROVE  \A r \in Has(remote[u]) \ Has(CheckedOut(u)) : r \notin Known
  <1>1. SyncType /\ FilesOK(u) /\ gui[u].proc = "commit"
    BY Zenon, CommitDoes DEF SyncInv, FilesInv
  <1>2. gui[u].updateCache
    BY Zenon, <1>1 DEF OwnOK
  <1>3. local[u] # NoFile
    BY Zenon, <1>1, <1>2 DEF FilesOK
  <1>4. LocalIsOwn(u)
    BY Zenon, <1>3 DEF OwnOK
  <1>5. \A r \in Extra(remote[u], CheckedOut(u)) : r \notin Known
    BY Zenon, <1>1, <1>4 DEF LocalIsOwn, Private
  <1>6. remote[u] \in [Rows -> 0 .. 2] /\ CheckedOut(u) \in [Rows -> 0 .. 2]
    BY Zenon, <1>1, FilesType DEF Table, Copies
  <1>7. Has(remote[u]) \ Has(CheckedOut(u)) \subseteq Extra(remote[u], CheckedOut(u))
    BY <1>6 DEF Has, Extra
  <1> QED
    BY Zenon, <1>5, <1>7

LEMMA NextNew ==
  ASSUME SyncInv, OwnInv, NEW u \in Users, UserNext(u) \/ ProgramNext(u)
  PROVE  RowsAreNew'
  <1>1. SyncType /\ Grows /\ \A w \in Users : ~broken'[w] => ~broken[w]
    BY Zenon, NextDoes, BrokenStays DEF SyncInv
  <1>2. SUFFICES ASSUME \A w \in Users : ~broken[w],
                        NEW v \in DOMAIN versions', versions'[v].parent # NoParent,
                        versions'[v].behind = "no",
                        NEW r \in Has(versions'[v].table) \ Has(versions'[versions'[v].parent].table),
                        NEW a \in 1 .. v - 1
                 PROVE  r \notin Has(versions'[a].table)
    BY Zenon, <1>1 DEF RowsAreNew, TableOf
  <1>3. DOMAIN versions = 1 .. Len(versions) /\ Len(versions) \in Nat
    BY <1>1 DEF SyncType
  <1>4. CASE v \in DOMAIN versions
    <2>1. a \in DOMAIN versions
      BY <1>3, <1>4
    <2>2. versions'[v] = versions[v] /\ versions'[a] = versions[a]
      BY Zenon, <1>1, <1>4, <2>1 DEF Grows
    <2>3. versions[v].parent \in DOMAIN versions
      BY Zenon, <1>1, <1>2, <1>4, <2>2, VersionType
    <2>4. versions'[versions[v].parent] = versions[versions[v].parent]
      BY Zenon, <1>1, <2>3 DEF Grows
    <2> QED
      BY Zenon, <1>2, <1>4, <2>2, <2>4 DEF OwnInv, RowsAreNew, TableOf
  <1>5. CASE v \notin DOMAIN versions
    <2>1. Commit(u)
      <3>1. versions' # versions
        BY Zenon, <1>5
      <3> QED
        BY Zenon, <3>1 DEF UserNext, ProgramNext, InsertRow, DeleteRow, Saves, OpenFile, OnSync,
           OnCommit, Leave, Crash, CrashInMerge, Update, PushRepository, FossilFails, MergeListing,
           MergeFails, MergeUnread, AfterPull, PushEnded, OperationFailed, fossil
    <2>2. Adds(u)
      BY Zenon, <1>1, <1>5, <2>1, CommitDoes DEF KeepsFiles
    <2>3. /\ v = Len(versions) + 1
          /\ versions'[v] = [parent |-> vid[u], table |-> remote[u], by |-> u, behind |-> behind[u]]
      BY Zenon, <1>5, <2>2 DEF Adds
    <2>4. /\ versions'[v].parent = vid[u] /\ versions'[v].table = remote[u] /\ behind[u] = "no"
      BY <1>2, <2>3
    <2>5. a \in DOMAIN versions
      BY <1>3, <2>3
    <2>6. vid[u] \in DOMAIN versions
      BY Zenon, <1>1 DEF SyncType
    <2>7. versions'[a] = versions[a] /\ versions'[vid[u]] = versions[vid[u]]
      BY Zenon, <1>1, <2>5, <2>6 DEF Grows
    <2>8. r \in Has(remote[u]) \ Has(CheckedOut(u))
      BY Zenon, <1>2, <2>4, <2>7 DEF CheckedOut, TableOf
    <2>9. r \notin Known
      BY Zenon, <1>2, <2>1, <2>4, <2>8, CommitIsOwn DEF OwnInv
    <2> QED
      BY Zenon, <2>5, <2>7, <2>9 DEF Known, TableOf
  <1> QED
    BY Zenon, <1>4, <1>5

LEMMA InitOwn == Init => OwnInv
  <1> SUFFICES ASSUME Init PROVE OwnInv
    OBVIOUS
  <1>1. PICK adder \in Users :
          /\ versions = <<[parent |-> NoParent, table |-> FirstTable,
                           by |-> adder, behind |-> "no"]>>
          /\ local = [u \in Users |-> IF u = adder THEN FirstTable ELSE NoFile]
    BY Zenon DEF Init
  <1>2. DOMAIN versions = {1} /\ versions[1].parent = NoParent /\ versions[1].table = FirstTable
    BY <1>1
  <1>3. ASSUME NEW u \in Users
        PROVE  /\ pivot[u] = NoFile /\ gui[u].proc = "none" /\ CheckedOut(u) = FirstTable
               /\ remote[u] = FirstTable /\ (local[u] # NoFile => local[u] = FirstTable)
               /\ made = 1 /\ behind[u] = "no"
    BY Zenon, <1>1, <1>2 DEF Init, CheckedOut, TableOf, Started
  <1>4. Has(FirstTable) \subseteq {1} /\ Extra(FirstTable, FirstTable) = {}
    BY SyncBounds DEF Has, Extra, FirstTable, Rows
  <1>5. MadeInv
    <2>1. Known \subseteq {1} /\ \A u \in Users : Holds(u) \subseteq {1}
      BY Zenon, <1>2, <1>3, <1>4 DEF Known, Holds, TableOf
    <2>2. made = 1 /\ 1 <= 1
      BY DEF Init
    <2> QED
      BY Zenon, <2>1, <2>2 DEF MadeInv
  <1>6. RowsAreNew
    BY Zenon, <1>2 DEF RowsAreNew
  <1>7. ASSUME NEW u \in Users PROVE OwnOK(u)
    <2>1. gui[u].proc # "commit" /\ behind[u] # "unmerged"
      BY Zenon, <1>3
    <2> QED
      BY Zenon, <1>3, <1>4, <2>1 DEF OwnOK, LocalIsOwn
  <1> QED
    BY Zenon, <1>5, <1>6, <1>7 DEF OwnInv

LEMMA NextOwnInv ==
  ASSUME SyncInv, OwnInv, [Next]_vars
  PROVE  OwnInv'
  <1>1. ASSUME NEW u \in Users, UserNext(u) \/ ProgramNext(u) PROVE OwnInv'
    <2>1. SyncType /\ Others(u) /\ RowsFlow(u)
      BY Zenon, <1>1, NextDoes, NextFlow DEF SyncInv
    <2> QED
      BY Zenon, <1>1, <2>1, NextMade, NextNew, NextOwn DEF OwnInv
  <1>2. CASE UNCHANGED vars
    <2>1. UNCHANGED <<versions, vid, local, remote, pivot, gui, made, behind, broken>>
      BY Zenon, <1>2 DEF vars, fossil, files, ghosts
    <2>2. Known' = Known /\ \A u : Holds(u)' = Holds(u) /\ CheckedOut(u)' = CheckedOut(u)
      BY Zenon, <2>1, SameKnown DEF Holds, CheckedOut, TableOf
    <2>3. MadeInv' /\ RowsAreNew'
      BY Zenon, <2>1, <2>2 DEF OwnInv, MadeInv, RowsAreNew, TableOf
    <2>4. ASSUME NEW u \in Users PROVE OwnOK(u)'
      BY Zenon, <2>1, <2>2 DEF OwnInv, OwnOK, LocalIsOwn, Private, Extra
    <2> QED
      BY Zenon, <2>3, <2>4 DEF OwnInv
  <1> QED
    BY Zenon, <1>1, <1>2 DEF Next

LEMMA OwnInvariant == Spec => []OwnInv
  BY InitOwn, NextOwnInv, SyncInvariant, PTL DEF Spec

(* A row that was dropped does not come back: unless something was broken  *)
(* off, a version that was made after successful merges has no row that    *)
(* its parent lacks and an earlier ancestor had.                           *)
THEOREM DroppedRowsStay == Spec => []DroppedStays
  <1>1. OwnInv => DroppedStays
    BY Zenon DEF OwnInv, RowsAreNew, DroppedStays, Ancestors
  <1> QED
    BY <1>1, OwnInvariant, PTL

-----------------------------------------------------------------------------
(* Rows that are there once are merged into rows that are there once.      *)
LEMMA MergeOnce ==
  ASSUME SyncType, NEW u \in Users, QuietOK(u), OwnOK(u), OnceOK(u), ~broken[u],
         local[u] # NoFile, behind[u] # "lost", gui[u].proc = "ended", gui[u].next = "view_sync"
  PROVE  Single(Merge(PivotOf(u), local[u], remote[u]))
  <1> SUFFICES ASSUME NEW r \in Rows PROVE Merge(PivotOf(u), local[u], remote[u])[r] <= 1
    BY Zenon DEF Single
  <1>1. PivotOf(u) \in Table /\ local[u] \in Table /\ remote[u] \in Table
    BY Zenon, PivotType, FilesType
  <1>2. /\ Merge(PivotOf(u), local[u], remote[u])[r] \in 0 .. 2
        /\ local[u][r] \in 0 .. 2 /\ remote[u][r] \in 0 .. 2
    BY <1>1, MergeCell DEF Table, Copies
  <1>3. local[u][r] <= 1 /\ remote[u][r] <= 1
    BY Zenon DEF OnceOK, Single
  <1>4. CASE local[u][r] > PivotOf(u)[r]
    <2>1. Private(u, r)
      BY Zenon, <1>4, MoreIsOwn
    <2>2. gui[u].proc \notin {"commit", "failed"}
      OBVIOUS
    <2>3. remote[u] = CheckedOut(u)
      BY Zenon, <2>2 DEF QuietOK
    <2>4. ~(remote[u][r] > 0)
      BY Zenon, <2>1, <2>3, CheckedOutKnown DEF Private, Has
    <2>5. Merge(PivotOf(u), local[u], remote[u])[r] <= local[u][r]
      BY <1>1, <2>4, MergeCell
    <2> QED
      BY <1>2, <1>3, <2>5
  <1>5. CASE ~(local[u][r] > PivotOf(u)[r])
    <2>1. ~(Merge(PivotOf(u), local[u], remote[u])[r] > remote[u][r])
      BY <1>1, <1>5, MergeCell
    <2> QED
      BY <1>2, <1>3, <2>1
  <1> QED
    BY Zenon, <1>4, <1>5

(* The files of the user who takes a step.                                 *)
LEMMA StepOnce ==
  ASSUME SyncType, NEW u \in Users, QuietOK(u), OwnOK(u), OnceOK(u), ~broken'[u], ~broken[u],
         \A v \in DOMAIN versions : Single(TableOf(v)), UserNext(u) \/ ProgramNext(u)
  PROVE  OnceOK(u)'
  <1>1. ASSUME UNCHANGED <<local, remote, behind>> PROVE OnceOK(u)'
    BY Zenon, <1>1 DEF OnceOK
  <1>2. CASE InsertRow(u)
    <2>1. /\ UNCHANGED <<remote, behind>> /\ local[u] # NoFile
          /\ local'[u] = [local[u] EXCEPT ![made + 1] = 1]
      BY Zenon, <1>2, InsertRowDoes
    <2>2. local[u] \in Table
      BY Zenon, <2>1, FilesType
    <2>3. Single(local[u]) => Single(local'[u])
      BY <2>1, <2>2 DEF Single, Table
    <2> QED
      BY Zenon, <2>1, <2>3 DEF OnceOK
  <1>3. ASSUME NEW r \in Rows, DeleteRow(u, r) PROVE OnceOK(u)'
    <2>1. /\ UNCHANGED <<remote, behind>> /\ local[u] # NoFile
          /\ local'[u] = [local[u] EXCEPT ![r] = 0]
      BY Zenon, <1>3, DeleteRowDoes
    <2>2. local[u] \in Table
      BY Zenon, <2>1, FilesType
    <2>3. Single(local[u]) => Single(local'[u])
      BY <2>1, <2>2 DEF Single, Table
    <2> QED
      BY Zenon, <2>1, <2>3 DEF OnceOK
  <1>4. CASE OpenFile(u)
    BY Zenon, <1>4, OpenFileDoes DEF OnceOK, Single
  <1>5. ASSUME NEW import \in BOOLEAN, NEW describe \in BOOLEAN, OnCommit(u, import, describe)
        PROVE  OnceOK(u)'
    <2>1. /\ local' = local /\ (import => local[u] # NoFile)
          /\ remote'[u] = IF import THEN local[u] ELSE remote[u]
          /\ behind'[u] = IF import /\ behind[u] = "unmerged" THEN "lost" ELSE behind[u]
      BY Zenon, <1>5, OnCommitDoes
    <2> QED
      BY Zenon, <2>1 DEF OnceOK, Single
  <1>6. CASE CrashInMerge(u)
    BY Zenon, <1>6, CrashInMergeDoes
  <1>7. CASE Update(u)
    <2>1. local' = local /\ gui[u].proc = "update"
      BY Zenon, <1>7, UpdateDoes
    <2>2. gui[u].proc \notin {"commit", "failed"}
      BY Zenon, <2>1
    <2>3. remote[u] = CheckedOut(u)
      BY Zenon, <2>2 DEF QuietOK
    <2>4. CASE KeepsFiles
      BY Zenon, <1>1, <2>4 DEF KeepsFiles
    <2>5. ASSUME NEW tid \in DOMAIN versions, MovesTo(u, tid) PROVE OnceOK(u)'
      <3>1. \/ UNCHANGED <<remote, behind>>
            \/ remote'[u] = TableOf(tid) /\ (behind'[u] # "lost" => behind[u] # "lost")
        BY Zenon, <2>3, <2>5 DEF MovesTo
      <3> QED
        BY Zenon, <2>1, <3>1 DEF OnceOK, Single
    <2> QED
      BY Zenon, <1>7, <2>4, <2>5, UpdateDoes
  <1>8. CASE MergeListing(u) \/ MergeFails(u)
    <2>1. /\ remote' = remote /\ gui[u].proc = "ended" /\ gui[u].next = "view_sync"
          /\ \/ KeepsFiles
             \/ /\ local[u] # NoFile /\ local'[u] = Merged(u)
                /\ behind'[u] = IF local'[u] # Merge(PivotOf(u), local[u], remote[u]) THEN "lost"
                                ELSE IF behind[u] = "unmerged" THEN "no" ELSE behind[u]
      BY Zenon, <1>8, MergeListingDoes
    <2>2. \/ UNCHANGED <<local, remote, behind>>
          \/ local[u] # NoFile /\ (behind'[u] # "lost" =>
               behind[u] # "lost" /\ local'[u] = Merge(PivotOf(u), local[u], remote[u]))
      BY Zenon, <2>1 DEF KeepsFiles
    <2>3. ASSUME behind'[u] # "lost", local[u] # NoFile, behind[u] # "lost",
                 local'[u] = Merge(PivotOf(u), local[u], remote[u])
          PROVE  OnceOK(u)'
      <3>1. Single(Merge(PivotOf(u), local[u], remote[u]))
        BY Zenon, <2>1, <2>3, MergeOnce
      <3> QED
        BY Zenon, <2>1, <2>3, <3>1 DEF OnceOK, Single
    <2> QED
      BY Zenon, <1>1, <2>2, <2>3 DEF OnceOK
  <1>9. CASE MergeUnread(u)
    <2>1. UNCHANGED <<local, remote>> /\ (behind'[u] # "lost" => behind[u] # "lost")
      BY Zenon, <1>9, MergeUnreadDoes DEF PivotMoves
    <2> QED
      BY Zenon, <2>1 DEF OnceOK
  <1>10. CASE PushEnded(u)
    <2>1. UNCHANGED <<local, remote>> /\ (behind'[u] # "lost" => behind[u] # "lost")
      BY Zenon, <1>10, PushEndedDoes DEF PivotMoves
    <2> QED
      BY Zenon, <2>1 DEF OnceOK
  <1>11. ASSUME NEW choice \in RepushChoices, OperationFailed(u, choice) PROVE OnceOK(u)'
    <2>1. /\ local' = local /\ remote'[u] = TableOf(vid[u])
          /\ (behind'[u] # "lost" => behind[u] # "lost")
      BY Zenon, <1>11, OperationFailedDoes DEF PivotMoves, CheckedOut
    <2>2. vid[u] \in DOMAIN versions
      BY Zenon DEF SyncType
    <2> QED
      BY Zenon, <2>1, <2>2 DEF OnceOK, Single
  <1>12. CASE Commit(u)
    BY Zenon, <1>1, <1>12, CommitDoes
  <1>13. CASE OnSync(u) \/ Leave(u) \/ Crash(u) \/ PushRepository(u) \/ FossilFails(u)
    <2>1. KeepsFiles
      BY Zenon, <1>13, OnSyncDoes, RestartDoes, PushRepositoryDoes, FossilFailsDoes
    <2> QED
      BY Zenon, <1>1, <2>1 DEF KeepsFiles
  <1> QED
    BY Zenon, <1>2, <1>3, <1>4, <1>5, <1>6, <1>7, <1>8, <1>9, <1>10, <1>11, <1>12, <1>13
       DEF UserNext, ProgramNext

LEMMA VersionsOnce ==
  ASSUME SyncType, NEW u \in Users, OnceOK(u), AllMerged', UserNext(u) \/ ProgramNext(u),
         \A v \in DOMAIN versions : Single(TableOf(v))
  PROVE  \A v \in DOMAIN versions' : Single(versions'[v].table)
  <1>1. CASE Commit(u)
    <2>1. Grows /\ (KeepsFiles \/ Adds(u))
      BY Zenon, <1>1, CommitDoes
    <2>2. CASE KeepsFiles
      BY Zenon, <2>2 DEF KeepsFiles, TableOf
    <2>3. CASE Adds(u)
      <3>1. /\ DOMAIN versions' = (DOMAIN versions) \cup {Len(versions) + 1}
            /\ versions'[Len(versions) + 1].table = remote[u]
            /\ versions'[Len(versions) + 1].behind = behind[u]
        BY <2>3 DEF Adds
      <3>2. behind[u] = "no"
        BY Zenon, <3>1 DEF AllMerged
      <3>3. Single(remote[u])
        BY Zenon, <3>2 DEF OnceOK
      <3> QED
        BY Zenon, <2>1, <3>1, <3>3 DEF Grows, TableOf
    <2> QED
      BY Zenon, <2>1, <2>2, <2>3
  <1>2. CASE ~Commit(u)
    <2>1. versions' = versions
      BY Zenon, <1>2 DEF UserNext, ProgramNext, InsertRow, DeleteRow, Saves, OpenFile, OnSync,
         OnCommit, Leave, Crash, CrashInMerge, Update, PushRepository, FossilFails, MergeListing,
         MergeFails, MergeUnread, AfterPull, PushEnded, OperationFailed, fossil
    <2> QED
      BY Zenon, <2>1 DEF TableOf
  <1> QED
    BY Zenon, <1>1, <1>2

LEMMA NextOnce ==
  ASSUME SyncInv, OwnInv, OnceInv, [Next]_vars
  PROVE  OnceInv'
  <1>1. ASSUME NEW u \in Users, UserNext(u) \/ ProgramNext(u) PROVE OnceInv'
    <2>1. /\ SyncType /\ Others(u) /\ Grows /\ QuietOK(u) /\ OwnOK(u)
          /\ \A w \in Users : ~broken'[w] => ~broken[w]
      BY Zenon, <1>1, NextDoes, BrokenStays DEF SyncInv, QuietInv, OwnInv
    <2>2. SUFFICES ASSUME \A w \in Users : ~broken'[w], AllMerged'
                   PROVE  /\ \A v \in DOMAIN versions' : Single(versions'[v].table)
                          /\ \A w \in Users : OnceOK(w)'
      BY Zenon DEF OnceInv, TableOf, Single
    <2>3. (\A v \in DOMAIN versions : Single(TableOf(v))) /\ \A w \in Users : OnceOK(w)
      BY Zenon, <2>1, <2>2, MergedBefore DEF OnceInv
    <2>4. \A v \in DOMAIN versions' : Single(versions'[v].table)
      BY Zenon, <1>1, <2>1, <2>2, <2>3, VersionsOnce
    <2>5. OnceOK(u)'
      BY Zenon, <1>1, <2>1, <2>2, <2>3, StepOnce
    <2>6. ASSUME NEW w \in Users \ {u} PROVE OnceOK(w)'
      BY Zenon, <2>1, <2>3 DEF Others, OnceOK, Single
    <2> QED
      BY Zenon, <2>4, <2>5, <2>6
  <1>2. CASE UNCHANGED vars
    <2>1. UNCHANGED <<versions, local, remote, behind, broken>>
      BY Zenon, <1>2 DEF vars, fossil, files, ghosts
    <2> QED
      BY Zenon, <2>1 DEF OnceInv, OnceOK, AllMerged, TableOf, Single
  <1> QED
    BY Zenon, <1>1, <1>2 DEF Next

LEMMA InitOnce == Init => OnceInv
  <1> SUFFICES ASSUME Init PROVE OnceInv
    OBVIOUS
  <1>1. PICK adder \in Users :
          /\ versions = <<[parent |-> NoParent, table |-> FirstTable,
                           by |-> adder, behind |-> "no"]>>
          /\ local = [u \in Users |-> IF u = adder THEN FirstTable ELSE NoFile]
    BY Zenon DEF Init
  <1>2. DOMAIN versions = {1} /\ versions[1].table = FirstTable
    BY <1>1
  <1>3. Single(FirstTable)
    BY DEF Single, FirstTable
  <1>4. \A u \in Users : remote[u] = FirstTable /\ (local[u] # NoFile => local[u] = FirstTable)
    BY Zenon, <1>1 DEF Init
  <1> QED
    BY Zenon, <1>2, <1>3, <1>4 DEF OnceInv, OnceOK, TableOf

(* Rows do not multiply: unless something was broken off, and as long as   *)
(* nobody pushed after a failed merge, no version has a row twice, however *)
(* the users' pushes, pulls and edits interleave.                          *)
THEOREM RowsStaySingle == Spec => []RowsOnce
  <1>1. Spec => []OnceInv
    BY InitOnce, NextOnce, SyncInvariant, OwnInvariant, PTL DEF Spec
  <1>2. OnceInv => RowsOnce
    BY Zenon DEF OnceInv, RowsOnce, AllMerged, Single
  <1> QED
    BY <1>1, <1>2, PTL
-----------------------------------------------------------------------------
(***************************************************************************)
(* Sync: the times of the files tell what there is to import and to merge. *)
(***************************************************************************)
(* Files that are there have different times.                              *)
Times == [TimedFiles -> Nat]
Apart(t) == \A f, g \in TimedFiles : f # g /\ t[f] # Never => t[f] # t[g]

(* Before anything fails, a push that imported local and that no edit met  *)
(* has remote as local; and if both are older than mark they are the same. *)
InStep(u) ==
  /\ gui[u].next = "revertable" /\ gui[u].updateCache => local[u] = remote[u]
  /\ time[u]["local"] < time[u]["mark"] /\ time[u]["remote"] < time[u]["mark"] =>
       local[u] = remote[u]

TimesOK(u) ==
  /\ Apart(time[u]) /\ time[u]["remote"] # Never
  /\ local[u] # NoFile => time[u]["local"] # Never
  /\ faults = 0 =>
       /\ ~broken[u]
       /\ gui[u].proc = "failed" /\ gui[u].next = "revertable" => gui[u].writeWouldFork
       /\ ~raced[u] /\ local[u] # NoFile => InStep(u)

TimesType == time \in [Users -> Times] /\ raced \in [Users -> BOOLEAN] /\ faults \in Nat
TimesInv == TimesType /\ \A u \in Users : TimesOK(u)
-----------------------------------------------------------------------------
LEMMA Latest ==
  ASSUME NEW t \in Times
  PROVE  Max(Range(t)) \in Nat /\ \A g \in TimedFiles : t[g] <= Max(Range(t))
  <1>1. Range(t) = {t["local"], t["remote"], t["mark"]}
    BY Zenon DEF Times, TimedFiles, Range
  <1>2. t["local"] \in Nat /\ t["remote"] \in Nat /\ t["mark"] \in Nat
    BY Zenon DEF Times, TimedFiles
  <1>3. \E x \in Range(t) : \A y \in Range(t) : x >= y
    <2>1. CASE t["local"] >= t["remote"] /\ t["local"] >= t["mark"]
      BY <1>1, <1>2, <2>1
    <2>2. CASE t["remote"] >= t["local"] /\ t["remote"] >= t["mark"]
      BY <1>1, <1>2, <2>2
    <2>3. CASE t["mark"] >= t["remote"] /\ t["mark"] >= t["local"]
      BY <1>1, <1>2, <2>3
    <2> QED
      BY <1>2, <2>1, <2>2, <2>3
  <1>4. Max(Range(t)) \in Range(t) /\ \A y \in Range(t) : Max(Range(t)) >= y
    BY Zenon, <1>3 DEF Max
  <1>5. Max(Range(t)) \in Nat
    BY Zenon, <1>1, <1>2, <1>4
  <1> QED
    BY <1>1, <1>2, <1>4, <1>5 DEF TimedFiles

(* A file that is written becomes the latest, and the others keep their    *)
(* order.                                                                  *)
LEMMA WrittenIs ==
  ASSUME NEW t \in Times, Apart(t), NEW f \in TimedFiles
  PROVE  /\ Written(t, f) \in Times /\ Apart(Written(t, f)) /\ Written(t, f)[f] # Never
         /\ \A g \in TimedFiles : g # f =>
              /\ Written(t, f)[g] < Written(t, f)[f]
              /\ Written(t, f)[g] = Never <=> t[g] = Never
         /\ \A g, h \in TimedFiles : g # f /\ h # f =>
              (Written(t, f)[g] < Written(t, f)[h] <=> t[g] < t[h])
  <1> DEFINE m == Max(Range(t))
  <1>1. m \in Nat /\ \A g \in TimedFiles : t[g] <= m
    BY Zenon, Latest
  <1>2. /\ Written(t, f) = [g \in TimedFiles |-> Written(t, f)[g]]
        /\ Written(t, f)[f] = m + (IF t[f] = Never THEN 1 ELSE 0)
        /\ \A g \in TimedFiles : g # f =>
             Written(t, f)[g] = IF t[f] # Never /\ t[g] > t[f] THEN t[g] - 1 ELSE t[g]
    BY DEF Written
  <1> HIDE DEF m
  <1>3. \A g \in TimedFiles : t[g] \in Nat
    BY Zenon DEF Times
  <1>4. \A g \in TimedFiles : g # f /\ t[f] # Never => t[f] # t[g]
    BY Zenon DEF Apart
  <1>5. Written(t, f)[f] \in Nat /\ Written(t, f)[f] # Never
    BY <1>1, <1>2, <1>3 DEF Never
  <1>6. ASSUME NEW g \in TimedFiles, g # f
        PROVE  /\ Written(t, f)[g] \in Nat /\ Written(t, f)[g] < Written(t, f)[f]
               /\ Written(t, f)[g] = Never <=> t[g] = Never
    BY <1>1, <1>2, <1>3, <1>4, <1>6 DEF Never
  <1>7. ASSUME NEW g \in TimedFiles, NEW h \in TimedFiles, g # f, h # f
        PROVE  Written(t, f)[g] < Written(t, f)[h] <=> t[g] < t[h]
    BY <1>2, <1>3, <1>4, <1>7 DEF Never
  <1>8. Written(t, f) \in Times
    BY Zenon, <1>2, <1>5, <1>6 DEF Times
  <1>9. Apart(Written(t, f))
    <2> SUFFICES ASSUME NEW g \in TimedFiles, NEW h \in TimedFiles, g # h, Written(t, f)[g] # Never
                 PROVE  Written(t, f)[g] # Written(t, f)[h]
      BY Zenon DEF Apart
    <2>1. CASE g = f
      <3>1. Written(t, f)[h] < Written(t, f)[f] /\ Written(t, f)[h] \in Nat
        BY Zenon, <1>6, <2>1
      <3> QED
        BY <1>5, <2>1, <3>1
    <2>2. CASE h = f
      <3>1. Written(t, f)[g] < Written(t, f)[f] /\ Written(t, f)[g] \in Nat
        BY Zenon, <1>6, <2>2
      <3> QED
        BY <1>5, <2>2, <3>1
    <2>3. CASE g # f /\ h # f
      <3>1. t[g] # Never /\ t[g] # t[h] /\ t[g] \in Nat /\ t[h] \in Nat
        BY Zenon, <1>3, <1>6, <2>3 DEF Apart
      <3>2. Written(t, f)[g] < Written(t, f)[h] \/ Written(t, f)[h] < Written(t, f)[g]
        BY <1>7, <2>3, <3>1
      <3>3. Written(t, f)[g] \in Nat /\ Written(t, f)[h] \in Nat
        BY Zenon, <1>6, <2>3
      <3> QED
        BY <3>2, <3>3
    <2> QED
      BY Zenon, <2>1, <2>2, <2>3
  <1> QED
    BY Zenon, <1>5, <1>6, <1>7, <1>8, <1>9

LEMMA InitTimes == Init => TimesInv
  <1> SUFFICES ASSUME Init PROVE TimesInv
    OBVIOUS
  <1>1. NoTimes \in Times /\ Apart(NoTimes) /\ \A f \in TimedFiles : NoTimes[f] = Never
    BY Zenon DEF NoTimes, Times, Apart, Never
  <1>2. "local" \in TimedFiles /\ "remote" \in TimedFiles /\ "mark" \in TimedFiles
    BY Zenon DEF TimedFiles
  <1>3. PICK adder \in Users :
          /\ local = [u \in Users |-> IF u = adder THEN FirstTable ELSE NoFile]
          /\ time = [u \in Users |->
                       Written(IF u = adder THEN Written(NoTimes, "local") ELSE NoTimes, "remote")]
    BY Zenon DEF Init
  <1>4. ASSUME NEW u \in Users
        PROVE  \E t \in Times : /\ Apart(t) /\ time[u] = Written(t, "remote") /\ t["mark"] = Never
                                /\ local[u] # NoFile => t["local"] # Never
    <2>1. CASE u = adder
      <3>1. Written(NoTimes, "local") \in Times /\ Apart(Written(NoTimes, "local"))
        BY Zenon, <1>1, <1>2, WrittenIs
      <3>2. Written(NoTimes, "local")["mark"] = Never /\ Written(NoTimes, "local")["local"] # Never
        BY <1>1, <1>2, WrittenIs
      <3>3. time[u] = Written(Written(NoTimes, "local"), "remote")
        BY Zenon, <1>3, <2>1
      <3> QED
        BY Zenon, <3>1, <3>2, <3>3
    <2>2. CASE u # adder
      <3>1. time[u] = Written(NoTimes, "remote") /\ local[u] = NoFile
        BY Zenon, <1>3, <2>2
      <3> QED
        BY Zenon, <1>1, <1>2, <3>1
    <2> QED
      BY Zenon, <2>1, <2>2
  <1>5. ASSUME NEW u \in Users PROVE time[u] \in Times /\ TimesOK(u)
    <2>1. PICK t \in Times : /\ Apart(t) /\ time[u] = Written(t, "remote") /\ t["mark"] = Never
                             /\ local[u] # NoFile => t["local"] # Never
      BY Zenon, <1>4
    <2>2. Written(t, "remote") \in Times /\ Apart(Written(t, "remote"))
      BY Zenon, <1>2, <2>1, WrittenIs
    <2>3. /\ Written(t, "remote")["remote"] # Never /\ Written(t, "remote")["mark"] = Never
          /\ local[u] # NoFile => Written(t, "remote")["local"] # Never
      BY <1>2, <2>1, WrittenIs
    <2>4. /\ time[u] \in Times /\ Apart(time[u]) /\ time[u]["remote"] # Never
          /\ time[u]["mark"] = Never /\ (local[u] # NoFile => time[u]["local"] # Never)
      BY Zenon, <2>1, <2>2, <2>3
    <2>5. gui[u].proc = "none" /\ gui[u].next = "nothing" /\ ~broken[u]
      BY Zenon DEF Init, Started
    <2>6. gui[u].proc # "failed" /\ gui[u].next # "revertable"
      BY Zenon, <2>5
    <2>7. time[u]["local"] \in Nat
      BY Zenon, <1>2, <2>4 DEF Times
    <2>8. ~(time[u]["local"] < time[u]["mark"])
      BY <2>4, <2>7 DEF Never
    <2> QED
      BY Zenon, <2>4, <2>5, <2>6, <2>8 DEF TimesOK, InStep
  <1>6. time \in [Users -> Times]
    <2>1. \A u \in Users : time[u] \in Times
      BY Zenon, <1>5
    <2> QED
      BY Zenon, <1>3, <2>1
  <1>7. raced \in [Users -> BOOLEAN] /\ faults \in Nat
    BY Zenon DEF Init
  <1> QED
    BY Zenon, <1>5, <1>6, <1>7 DEF TimesInv, TimesType
-----------------------------------------------------------------------------
(* A step of u leaves the times of the others, and faults are not undone.  *)
TimesStep(u) ==
  /\ TimesType' /\ (faults' = 0 => faults = 0)
  /\ \A w \in Users \ {u} : time'[w] = time[w] /\ raced'[w] = raced[w]

LEMMA TimesStepIs ==
  ASSUME TimesInv, NEW u \in Users, faults' = faults \/ Fault,
         time' = time \/ (\E t \in Times : time' = [time EXCEPT ![u] = t]),
         raced' = raced \/ (\E b \in BOOLEAN : raced' = [raced EXCEPT ![u] = b])
  PROVE  TimesStep(u)
  <1>1. TimesType
    BY Zenon DEF TimesInv
  <1>2. time' \in [Users -> Times] /\ \A w \in Users \ {u} : time'[w] = time[w]
    BY Zenon, <1>1 DEF TimesType
  <1>3. raced' \in [Users -> BOOLEAN] /\ \A w \in Users \ {u} : raced'[w] = raced[w]
    BY Zenon, <1>1 DEF TimesType
  <1>4. faults' \in Nat /\ (faults' = 0 => faults = 0)
    BY <1>1 DEF TimesType, Fault
  <1> QED
    BY Zenon, <1>2, <1>3, <1>4 DEF TimesStep, TimesType

LEMMA FaultSeen ==
  ASSUME TimesInv, Fault
  PROVE  faults' # 0
  BY DEF TimesInv, TimesType, Fault

(* The files and their times stay as they are.                             *)
LEMMA KeptTimes ==
  ASSUME TimesInv, NEW u \in Users, TimesStep(u), time'[u] = time[u], raced'[u] = raced[u],
         local'[u] = local[u], remote'[u] = remote[u], faults' = 0 => broken'[u] = broken[u],
         faults' = 0 /\ gui'[u].proc = "failed" /\ gui'[u].next = "revertable" =>
           gui'[u].writeWouldFork,
         faults' = 0 /\ gui'[u].next = "revertable" /\ gui'[u].updateCache =>
           gui[u].next = "revertable" /\ gui[u].updateCache
  PROVE  TimesOK(u)'
  <1>1. TimesOK(u)
    BY Zenon DEF TimesInv
  <1>2. Apart(time[u])'
    BY Zenon, <1>1 DEF TimesOK, Apart
  <1>3. ASSUME faults' = 0, ~raced[u], local[u] # NoFile PROVE InStep(u)'
    <2>1. InStep(u)
      BY Zenon, <1>1, <1>3 DEF TimesOK, TimesStep
    <2> QED
      BY Zenon, <1>3, <2>1 DEF InStep
  <1> QED
    BY Zenon, <1>1, <1>2, <1>3 DEF TimesOK, TimesStep

(* local or remote is written, and is newer than mark.                     *)
LEMMA WroteTimes ==
  ASSUME TimesInv, NEW u \in Users, TimesStep(u), NEW f \in {"local", "remote"},
         time'[u] = Written(time[u], f), local'[u] # NoFile => local[u] # NoFile,
         faults' = 0 => broken'[u] = broken[u],
         faults' = 0 /\ gui'[u].proc = "failed" /\ gui'[u].next = "revertable" =>
           gui'[u].writeWouldFork,
         faults' = 0 /\ ~raced'[u] /\ gui'[u].next = "revertable" /\ gui'[u].updateCache =>
           local'[u] = remote'[u]
  PROVE  TimesOK(u)'
  <1>1. TimesOK(u) /\ time[u] \in Times
    BY Zenon DEF TimesInv, TimesType
  <1>2. "local" \in TimedFiles /\ "remote" \in TimedFiles /\ "mark" \in TimedFiles
        /\ f \in TimedFiles /\ f # "mark"
    BY Zenon DEF TimedFiles
  <1>3. Apart(time[u])
    BY Zenon, <1>1 DEF TimesOK
  <1> DEFINE t == Written(time[u], f)
  <1>4. /\ t \in Times /\ Apart(t) /\ t[f] # Never /\ t["mark"] < t[f]
        /\ \A g \in TimedFiles : g # f => (t[g] = Never <=> time[u][g] = Never)
    BY Zenon, <1>1, <1>2, <1>3, WrittenIs
  <1>5. time'[u] = t
    OBVIOUS
  <1> HIDE DEF t
  <1>6. t["remote"] # Never /\ (local'[u] # NoFile => t["local"] # Never)
    BY Zenon, <1>1, <1>2, <1>4 DEF TimesOK
  <1>7. ~(t[f] < t["mark"])
    <2>1. t[f] \in Nat /\ t["mark"] \in Nat
      BY Zenon, <1>2, <1>4 DEF Times
    <2> QED
      BY <1>4, <2>1
  <1>8. ~(t["local"] < t["mark"] /\ t["remote"] < t["mark"])
    BY Zenon, <1>7
  <1>9. Apart(time[u])'
    BY Zenon, <1>4, <1>5 DEF Apart
  <1>10. faults' = 0 => ~broken'[u]
    BY Zenon, <1>1 DEF TimesOK, TimesStep
  <1>11. ASSUME faults' = 0, ~raced'[u] PROVE InStep(u)'
    <2>1. ~(/\ time'[u]["local"] < time'[u]["mark"]
            /\ time'[u]["remote"] < time'[u]["mark"])
      BY Zenon, <1>8, <1>5
    <2> QED
      BY Zenon, <1>11, <2>1 DEF InStep
  <1> QED
    BY Zenon, <1>5, <1>6, <1>9, <1>10, <1>11 DEF TimesOK

(* Both files are the same afterwards.                                     *)
LEMMA EqualTimes ==
  ASSUME NEW u \in Users, Apart(time'[u]), time'[u]["remote"] # Never, time'[u]["local"] # Never,
         faults' = 0 => ~broken'[u], gui'[u].proc # "failed",
         faults' = 0 /\ ~raced'[u] /\ local'[u] # NoFile => local'[u] = remote'[u]
  PROVE  TimesOK(u)'
  <1>1. Apart(time[u])'
    BY Zenon DEF Apart
  <1> QED
    BY Zenon, <1>1 DEF TimesOK, InStep

LEMMA WrittenType ==
  ASSUME TimesInv, NEW u \in Users, NEW f \in TimedFiles
  PROVE  /\ Written(time[u], f) \in Times /\ Apart(Written(time[u], f))
         /\ time[u] \in Times /\ Apart(time[u])
  BY Zenon, WrittenIs DEF TimesInv, TimesType, TimesOK

LEMMA NextTimesStep ==
  ASSUME TimesInv, NEW u \in Users, UserNext(u) \/ ProgramNext(u)
  PROVE  TimesStep(u)
  <1>1. faults' = faults \/ Fault
    <2>1. UserNext(u) => faults' = faults \/ Fault
      BY Zenon DEF UserNext, InsertRow, DeleteRow, Saves, OpenFile, OnSync, OnCommit, Leave, Crash,
         CrashInMerge
    <2>2. ProgramNext(u) => faults' = faults \/ Fault
      BY Zenon DEF ProgramNext, Update, Commit, PushRepository, FossilFails, MergeListing,
         MergeFails, MergeUnread, PushEnded, OperationFailed
    <2> QED
      BY Zenon, <2>1, <2>2
  <1>2. raced' = raced \/ (\E b \in BOOLEAN : raced' = [raced EXCEPT ![u] = b])
    <2>1. UserNext(u) =>
            raced' = raced \/ raced' = [raced EXCEPT ![u] = raced[u] \/ gui[u].next = "revertable"]
      BY Zenon DEF UserNext, InsertRow, DeleteRow, Saves, OpenFile, OnSync, OnCommit, Leave, Crash,
         CrashInMerge, ghosts
    <2>2. ProgramNext(u) => raced' = raced
      BY Zenon DEF ProgramNext, Update, Commit, PushRepository, FossilFails, MergeListing,
         MergeFails, MergeUnread, AfterPull, PushEnded, OperationFailed, ghosts
    <2>3. (raced[u] \/ gui[u].next = "revertable") \in BOOLEAN
      BY Zenon
    <2> QED
      BY Zenon, <2>1, <2>2, <2>3
  <1>3. "local" \in TimedFiles /\ "remote" \in TimedFiles /\ "mark" \in TimedFiles
    BY Zenon DEF TimedFiles
  <1>4. time' = time \/ (\E t \in Times : time' = [time EXCEPT ![u] = t])
    <2>1. Written(Written(time[u], "local"), "mark") \in Times
      BY Zenon, <1>3, WrittenType, WrittenIs
    <2>2. UserNext(u) =>
            \/ time' = time
            \/ \E f \in TimedFiles : time' = [time EXCEPT ![u] = Written(time[u], f)]
            \/ time' = [time EXCEPT ![u] = Written(Written(time[u], "local"), "mark")]
      BY Zenon, <1>3 DEF UserNext, InsertRow, DeleteRow, Saves, OpenFile, OnSync, OnCommit, Leave,
         Crash, CrashInMerge, files
    <2>3. ProgramNext(u) =>
            \/ time' = time
            \/ time' = [time EXCEPT ![u] = time[u]]
            \/ \E f \in TimedFiles : time' = [time EXCEPT ![u] = Written(time[u], f)]
      BY Zenon, <1>3 DEF ProgramNext, Update, Bring, Commit, PushRepository, FossilFails,
         MergeListing, MergeFails, MergeUnread, PushEnded, OperationFailed, Touched, files
    <2>4. time[u] \in Times /\ \A f \in TimedFiles : Written(time[u], f) \in Times
      BY Zenon, <1>3, WrittenType
    <2> QED
      BY Zenon, <2>1, <2>2, <2>3, <2>4
  <1> QED
    BY Zenon, <1>1, <1>2, <1>4, TimesStepIs

LEMMA EditTimes ==
  ASSUME SyncType, TimesInv, NEW u \in Users, TimesStep(u), NEW table, Saves(u, table),
         local[u] # NoFile
  PROVE  TimesOK(u)'
  <1>1. TimesOK(u) /\ time \in [Users -> Times] /\ raced \in [Users -> BOOLEAN]
    BY Zenon DEF TimesInv, TimesType
  <1>2. /\ UNCHANGED <<gui, broken, faults>>
        /\ time' = [time EXCEPT ![u] = Written(time[u], "local")]
        /\ raced' = [raced EXCEPT ![u] = raced[u] \/ gui[u].next = "revertable"]
    BY Zenon DEF Saves
  <1>3. time'[u] = Written(time[u], "local") /\ (~raced'[u] => gui[u].next # "revertable")
    BY Zenon, <1>1, <1>2
  <1>4. faults = 0 /\ gui[u].proc = "failed" /\ gui[u].next = "revertable" => gui[u].writeWouldFork
    BY Zenon, <1>1 DEF TimesOK
  <1>5. "local" \in {"local", "remote"}
    OBVIOUS
  <1> QED
    BY Zenon, <1>2, <1>3, <1>4, <1>5, WroteTimes

LEMMA OpenFileTimes ==
  ASSUME SyncType, TimesInv, NEW u \in Users, TimesStep(u), OpenFile(u)
  PROVE  TimesOK(u)'
  <1>1. TimesOK(u) /\ time \in [Users -> Times]
    BY Zenon DEF TimesInv, TimesType
  <1>2. "local" \in TimedFiles /\ "remote" \in TimedFiles /\ "mark" \in TimedFiles
    BY Zenon DEF TimedFiles
  <1>3. /\ UNCHANGED <<remote, broken>> /\ local'[u] = remote[u] /\ gui'[u].proc = "none"
    BY Zenon, OpenFileDoes DEF ProgramIs
  <1>4. faults' = faults /\ time' = [time EXCEPT ![u] = Written(Written(time[u], "local"), "mark")]
    BY Zenon DEF OpenFile
  <1> DEFINE t == Written(time[u], "local")
  <1>5. t \in Times /\ Apart(t)
    BY Zenon, <1>2, WrittenType
  <1>6. t["local"] # Never /\ t["remote"] # Never
    <2>1. time[u] \in Times /\ Apart(time[u]) /\ time[u]["remote"] # Never
      BY Zenon, <1>1 DEF TimesOK
    <2> QED
      BY <1>2, <2>1, WrittenIs
  <1> HIDE DEF t
  <1>7. Apart(Written(t, "mark"))
    BY Zenon, <1>2, <1>5, WrittenIs
  <1>8. Written(t, "mark")["local"] # Never /\ Written(t, "mark")["remote"] # Never
    BY <1>2, <1>5, <1>6, WrittenIs
  <1>9. time'[u] = Written(t, "mark")
    BY Zenon, <1>1, <1>4 DEF t
  <1>10. /\ Apart(time'[u]) /\ time'[u]["local"] # Never /\ time'[u]["remote"] # Never
         /\ gui'[u].proc # "failed"
    BY Zenon, <1>3, <1>7, <1>8, <1>9
  <1>11. faults' = 0 => ~broken'[u]
    BY Zenon, <1>1, <1>3, <1>4 DEF TimesOK
  <1> QED
    BY Zenon, <1>3, <1>10, <1>11, EqualTimes

LEMMA OnCommitTimes ==
  ASSUME SyncType, TimesInv, NEW u \in Users, TimesStep(u),
         NEW import \in BOOLEAN, NEW describe \in BOOLEAN, OnCommit(u, import, describe)
  PROVE  TimesOK(u)'
  <1>1. TimesOK(u) /\ time \in [Users -> Times]
    BY Zenon DEF TimesInv, TimesType
  <1>2. /\ local' = local /\ remote'[u] = IF import THEN local[u] ELSE remote[u]
        /\ gui'[u].updateCache = import
    BY Zenon, OnCommitDoes
  <1>3. describe => /\ broken'[u] = broken[u]
                    /\ gui'[u].proc = IF remote'[u] # CheckedOut(u) THEN "commit" ELSE "push"
    BY Zenon, OnCommitDoes
  <1>4. ~describe => faults' # 0
    BY Zenon, FaultSeen DEF OnCommit
  <1>5. /\ raced' = raced /\ (~import => time' = time)
        /\ import => time' = [time EXCEPT ![u] = Written(time[u], "remote")]
    BY Zenon DEF OnCommit
  <1>6. faults' = 0 => broken'[u] = broken[u] /\ gui'[u].proc # "failed"
    BY Zenon, <1>3, <1>4
  <1>7. CASE import
    <2>1. time'[u] = Written(time[u], "remote") /\ "remote" \in {"local", "remote"}
      BY Zenon, <1>1, <1>5, <1>7
    <2> QED
      BY Zenon, <1>2, <1>6, <1>7, <2>1, WroteTimes
  <1>8. CASE ~import
    BY Zenon, <1>2, <1>5, <1>6, <1>8, KeptTimes
  <1> QED
    BY Zenon, <1>7, <1>8

LEMMA UpdateTimes ==
  ASSUME SyncType, ProcInv, TimesInv, NEW u \in Users, TimesStep(u), Update(u)
  PROVE  TimesOK(u)'
  <1>1. TimesOK(u) /\ time \in [Users -> Times]
    BY Zenon DEF TimesInv, TimesType
  <1>2. /\ UNCHANGED <<local, broken>> /\ gui'[u].next = gui[u].next
        /\ gui[u].proc = "update"
    BY Zenon, UpdateDoes DEF MovesTo, ProgramIs
  <1>3. gui'[u].next # "revertable"
    BY Zenon, <1>2 DEF ProcInv, ProcOK
  <1>4. raced' = raced
    BY Zenon DEF Update
  <1>5. \/ UNCHANGED <<remote, time>>
        \/ time' = [time EXCEPT ![u] = Written(time[u], "remote")]
    BY Zenon DEF Update, Bring, files
  <1>6. CASE UNCHANGED <<remote, time>>
    BY Zenon, <1>2, <1>3, <1>4, <1>6, KeptTimes
  <1>7. CASE time' = [time EXCEPT ![u] = Written(time[u], "remote")]
    <2>1. time'[u] = Written(time[u], "remote") /\ "remote" \in {"local", "remote"}
      BY Zenon, <1>1, <1>7
    <2> QED
      BY Zenon, <1>2, <1>3, <2>1, WroteTimes
  <1> QED
    BY Zenon, <1>5, <1>6, <1>7

LEMMA CommitTimes ==
  ASSUME SyncType, TimesInv, NEW u \in Users, TimesStep(u), Commit(u)
  PROVE  TimesOK(u)'
  <1>1. UNCHANGED <<local, remote, time, raced, broken>>
    BY Zenon DEF Commit, files, ghosts
  <1>2. gui'[u].next = gui[u].next /\ gui'[u].updateCache = gui[u].updateCache
    BY Zenon, CommitDoes DEF Adds, ProgramIs
  <1>3. gui'[u].proc = "failed" => gui'[u].writeWouldFork
    <2>1. gui \in [Users -> Gui] /\ gui[u] \in Gui
      BY Zenon DEF SyncType
    <2>2. CASE gui' = [gui EXCEPT ![u].proc = "failed", ![u].writeWouldFork = TRUE]
      BY <2>1, <2>2 DEF Gui
    <2>3. CASE Exits(u, "push")
      BY <2>1, <2>3 DEF Exits, Gui
    <2> QED
      BY Zenon, <2>2, <2>3 DEF Commit
  <1> QED
    BY Zenon, <1>1, <1>2, <1>3, KeptTimes

LEMMA MergeTimes ==
  ASSUME SyncType, TimesInv, NEW u \in Users, TimesStep(u),
         MergeListing(u) \/ MergeFails(u) \/ MergeUnread(u)
  PROVE  TimesOK(u)'
  <1>1. TimesOK(u) /\ time \in [Users -> Times]
    BY Zenon DEF TimesInv, TimesType
  <1>2. UNCHANGED <<remote, raced, broken>>
    BY Zenon DEF MergeListing, MergeFails, MergeUnread, AfterPull
  <1>3. gui'[u].proc = "none" /\ gui'[u].next = "nothing"
    BY Zenon, MergeListingDoes, MergeUnreadDoes DEF ProgramIs
  <1>4. gui'[u].proc # "failed" /\ gui'[u].next # "revertable"
    BY Zenon, <1>3
  <1>5. \/ UNCHANGED <<local, time>>
        \/ time' = time /\ local' = [local EXCEPT ![u] = local[u]]
        \/ local[u] # NoFile /\ time' = [time EXCEPT ![u] = Written(time[u], "local")]
    BY Zenon DEF MergeListing, MergeFails, MergeUnread, ToBeMerged, Merged
  <1>6. CASE time' = time /\ (local' = local \/ local' = [local EXCEPT ![u] = local[u]])
    <2>1. local'[u] = local[u]
      BY Zenon, <1>6 DEF SyncType
    <2> QED
      BY Zenon, <1>2, <1>4, <1>6, <2>1, KeptTimes
  <1>7. CASE local[u] # NoFile /\ time' = [time EXCEPT ![u] = Written(time[u], "local")]
    <2>1. time'[u] = Written(time[u], "local") /\ "local" \in {"local", "remote"}
      BY Zenon, <1>1, <1>7
    <2> QED
      BY Zenon, <1>2, <1>4, <1>7, <2>1, WroteTimes
  <1> QED
    BY Zenon, <1>5, <1>6, <1>7

LEMMA PushEndedTimes ==
  ASSUME SyncType, TimesInv, FilesInv, NEW u \in Users, TimesStep(u), PushEnded(u)
  PROVE  TimesOK(u)'
  <1>1. TimesOK(u) /\ time \in [Users -> Times]
    BY Zenon DEF TimesInv, TimesType
  <1>2. UNCHANGED <<local, remote, raced, broken, faults>>
    BY Zenon DEF PushEnded
  <1>3. gui[u].next = "revertable" /\ gui'[u].proc = "none" /\ gui'[u].next = "nothing"
    BY Zenon, PushEndedDoes DEF ProgramIs
  <1>4. gui'[u].proc # "failed" /\ gui'[u].next # "revertable"
    BY Zenon, <1>3
  <1>5. time'[u] = IF gui[u].updateCache THEN Written(time[u], "mark") ELSE time[u]
    BY Zenon, <1>1 DEF PushEnded, Touched
  <1>6. CASE ~gui[u].updateCache
    BY Zenon, <1>2, <1>4, <1>5, <1>6, KeptTimes
  <1>7. CASE gui[u].updateCache
    <2>1. local[u] # NoFile
      BY Zenon, <1>7 DEF FilesInv, FilesOK
    <2>2. "local" \in TimedFiles /\ "remote" \in TimedFiles /\ "mark" \in TimedFiles
      BY Zenon DEF TimedFiles
    <2>3. /\ time[u] \in Times /\ Apart(time[u]) /\ time[u]["remote"] # Never
          /\ time[u]["local"] # Never /\ (faults = 0 => ~broken[u])
      BY Zenon, <1>1, <2>1 DEF TimesOK
    <2>4. Apart(Written(time[u], "mark"))
      BY Zenon, <2>2, <2>3, WrittenIs
    <2>5. Written(time[u], "mark")["local"] # Never /\ Written(time[u], "mark")["remote"] # Never
      <3>1. \A g \in TimedFiles : g # "mark" =>
              (Written(time[u], "mark")[g] = Never <=> time[u][g] = Never)
        BY Zenon, <2>2, <2>3, WrittenIs
      <3>2. "local" # "mark" /\ "remote" # "mark"
        OBVIOUS
      <3> QED
        BY Zenon, <2>2, <2>3, <3>1, <3>2
    <2>6. time'[u] = Written(time[u], "mark")
      BY Zenon, <1>5, <1>7
    <2>7. Apart(time'[u]) /\ time'[u]["local"] # Never /\ time'[u]["remote"] # Never
      BY Zenon, <2>4, <2>5, <2>6
    <2>8. faults = 0 /\ ~raced[u] => local[u] = remote[u]
      BY Zenon, <1>1, <1>3, <1>7, <2>1 DEF TimesOK, InStep
    <2> QED
      BY Zenon, <1>2, <1>4, <2>3, <2>7, <2>8, EqualTimes
  <1> QED
    BY Zenon, <1>6, <1>7

LEMMA FailedTimes ==
  ASSUME SyncType, ProcInv, TimesInv, NEW u \in Users, TimesStep(u),
         NEW choice \in RepushChoices, OperationFailed(u, choice)
  PROVE  TimesOK(u)'
  <1>1. TimesOK(u) /\ time \in [Users -> Times]
    BY Zenon DEF TimesInv, TimesType
  <1>2. UNCHANGED <<local, raced, broken, faults>>
    BY Zenon DEF OperationFailed
  <1>3. gui[u].proc = "failed" /\ remote'[u] = CheckedOut(u)
    BY Zenon, OperationFailedDoes
  <1>4. time'[u] = IF remote[u] = CheckedOut(u) THEN time[u] ELSE Written(time[u], "remote")
    BY Zenon, <1>1 DEF OperationFailed, Touched, Reverted, CheckedOut
  <1>5. gui[u].next \in {"view_sync", "revertable"}
    BY Zenon, <1>3 DEF ProcInv, ProcOK
  <1>6. faults = 0 => gui'[u].proc # "failed" /\ gui'[u].next # "revertable"
    <2> SUFFICES ASSUME faults = 0 PROVE gui'[u].proc # "failed" /\ gui'[u].next # "revertable"
      OBVIOUS
    <2>1. CASE gui[u].next = "revertable"
      <3>1. choice = "cancel"
        BY Zenon, <1>1, <1>3, <2>1 DEF OperationFailed, TimesOK
      <3>2. Idle(u, gui[u])
        BY Zenon, <3>1 DEF OperationFailed
      <3>3. gui'[u].proc = "none" /\ gui'[u].next = "nothing"
        BY Zenon, <3>2, GuiSteps DEF ProgramIs
      <3> QED
        BY Zenon, <3>3
    <2>2. CASE gui[u].next = "view_sync"
      <3>1. \/ gui'[u].proc = "none" /\ gui'[u].next = "nothing"
            \/ gui'[u].proc = "update" /\ gui'[u].next = "view_sync"
        BY Zenon, <2>2, OperationFailedDoes DEF ProgramIs
      <3> QED
        BY Zenon, <3>1
    <2> QED
      BY Zenon, <1>5, <2>1, <2>2
  <1>7. CASE remote[u] = CheckedOut(u)
    <2>1. time'[u] = time[u] /\ remote'[u] = remote[u]
      BY Zenon, <1>3, <1>4, <1>7
    <2> QED
      BY Zenon, <1>2, <1>6, <2>1, KeptTimes
  <1>8. CASE remote[u] # CheckedOut(u)
    <2>1. time'[u] = Written(time[u], "remote") /\ "remote" \in {"local", "remote"}
      BY Zenon, <1>4, <1>8
    <2> QED
      BY Zenon, <1>2, <1>6, <2>1, WroteTimes
  <1> QED
    BY Zenon, <1>7, <1>8

(* Only the program's own members change.                                  *)
LEMMA ProgramTimes ==
  ASSUME SyncType, TimesInv, NEW u \in Users, TimesStep(u),
         OnSync(u) \/ Leave(u) \/ Crash(u) \/ PushRepository(u) \/ FossilFails(u)
  PROVE  TimesOK(u)'
  <1>1. UNCHANGED <<local, remote, time, raced>>
    BY Zenon DEF OnSync, Leave, Crash, PushRepository, FossilFails, files, ghosts
  <1>2. faults' # 0 \/ broken' = broken
    BY Zenon, FaultSeen DEF OnSync, Leave, Crash, PushRepository, FossilFails, ghosts
  <1>3. \/ faults' # 0
        \/ ProgramIs(u, "update", "view_sync", gui[u].updateCache)
        \/ ProgramIs(u, "none", "nothing", FALSE)
        \/ ProgramIs(u, "ended", gui[u].next, gui[u].updateCache)
    <2>1. FossilFails(u) => faults' # 0
      BY Zenon, FaultSeen DEF FossilFails
    <2> QED
      BY Zenon, <2>1, OnSyncDoes, RestartDoes, PushRepositoryDoes
  <1>4. faults' = 0 => /\ gui'[u].proc # "failed"
                       /\ gui'[u].next = "revertable" /\ gui'[u].updateCache =>
                            gui[u].next = "revertable" /\ gui[u].updateCache
    BY Zenon, <1>3 DEF ProgramIs
  <1> QED
    BY Zenon, <1>1, <1>2, <1>4, KeptTimes

LEMMA CrashInMergeTimes ==
  ASSUME SyncType, TimesInv, NEW u \in Users, TimesStep(u), CrashInMerge(u)
  PROVE  TimesOK(u)'
  <1>1. TimesOK(u) /\ time \in [Users -> Times]
    BY Zenon DEF TimesInv, TimesType
  <1>2. faults' # 0 /\ local[u] # NoFile /\ time' = [time EXCEPT ![u] = Written(time[u], "local")]
    BY Zenon, FaultSeen DEF CrashInMerge, ToBeMerged
  <1>3. time'[u] = Written(time[u], "local") /\ "local" \in {"local", "remote"}
    BY Zenon, <1>1, <1>2
  <1> QED
    BY Zenon, <1>2, <1>3, WroteTimes

LEMMA OthersTimes ==
  ASSUME SyncType, TimesInv, NEW u \in Users, TimesStep(u), Others(u), Grows,
         NEW w \in Users \ {u}
  PROVE  TimesOK(w)'
  <1>1. TimesOK(w)
    BY Zenon DEF TimesInv
  <1>2. /\ time'[w] = time[w] /\ raced'[w] = raced[w] /\ (faults' = 0 => faults = 0)
        /\ local'[w] = local[w] /\ remote'[w] = remote[w] /\ gui'[w] = gui[w]
        /\ broken'[w] = broken[w]
    BY Zenon DEF TimesStep, Others
  <1>3. Apart(time[w])'
    BY Zenon, <1>1, <1>2 DEF TimesOK, Apart
  <1>4. InStep(w) => InStep(w)'
    BY Zenon, <1>2 DEF InStep
  <1> QED
    BY Zenon, <1>1, <1>2, <1>3, <1>4 DEF TimesOK

LEMMA NextTimes ==
  ASSUME SyncInv, TimesInv, NEW u \in Users, UserNext(u) \/ ProgramNext(u)
  PROVE  TimesInv'
  <1>1. SyncType /\ ProcInv /\ FilesInv
    BY Zenon DEF SyncInv
  <1>2. TimesStep(u) /\ Others(u) /\ Grows
    BY Zenon, <1>1, NextTimesStep, NextDoes
  <1>3. \A w \in Users \ {u} : TimesOK(w)'
    BY Zenon, <1>1, <1>2, OthersTimes
  <1>4. SUFFICES TimesOK(u)'
    BY Zenon, <1>2, <1>3 DEF TimesInv, TimesStep
  <1>5. CASE InsertRow(u) \/ (\E r \in Rows : DeleteRow(u, r))
    <2>1. local[u] # NoFile /\ \E table : Saves(u, table)
      BY Zenon, <1>5 DEF InsertRow, DeleteRow
    <2> QED
      BY Zenon, <1>1, <1>2, <2>1, EditTimes
  <1>6. CASE OpenFile(u)
    BY Zenon, <1>1, <1>2, <1>6, OpenFileTimes
  <1>7. CASE \E import, describe \in BOOLEAN : OnCommit(u, import, describe)
    BY Zenon, <1>1, <1>2, <1>7, OnCommitTimes
  <1>8. CASE OnSync(u) \/ Leave(u) \/ Crash(u) \/ PushRepository(u) \/ FossilFails(u)
    BY Zenon, <1>1, <1>2, <1>8, ProgramTimes
  <1>9. CASE CrashInMerge(u)
    BY Zenon, <1>1, <1>2, <1>9, CrashInMergeTimes
  <1>10. CASE Update(u)
    BY Zenon, <1>1, <1>2, <1>10, UpdateTimes
  <1>11. CASE Commit(u)
    BY Zenon, <1>1, <1>2, <1>11, CommitTimes
  <1>12. CASE MergeListing(u) \/ MergeFails(u) \/ MergeUnread(u)
    BY Zenon, <1>1, <1>2, <1>12, MergeTimes
  <1>13. CASE PushEnded(u)
    BY Zenon, <1>1, <1>2, <1>13, PushEndedTimes
  <1>14. CASE \E choice \in RepushChoices : OperationFailed(u, choice)
    BY Zenon, <1>1, <1>2, <1>14, FailedTimes
  <1> QED
    BY Zenon, <1>5, <1>6, <1>7, <1>8, <1>9, <1>10, <1>11, <1>12, <1>13, <1>14
       DEF UserNext, ProgramNext

LEMMA TimesInvariant == Spec => []TimesInv
  <1>1. ASSUME SyncInv, TimesInv, [Next]_vars PROVE TimesInv'
    <2>1. CASE UNCHANGED vars
      <3>1. UNCHANGED <<local, remote, time, gui, raced, broken, faults>>
        BY Zenon, <2>1 DEF vars, files, ghosts
      <3>2. TimesType'
        BY Zenon, <1>1, <3>1 DEF TimesInv, TimesType
      <3>3. ASSUME NEW u \in Users PROVE TimesOK(u)'
        <4>1. TimesOK(u)
          BY Zenon, <1>1 DEF TimesInv
        <4>2. Apart(time[u])' <=> Apart(time[u])
          BY Zenon, <3>1 DEF Apart
        <4>3. InStep(u)' <=> InStep(u)
          BY Zenon, <3>1 DEF InStep
        <4> QED
          BY Zenon, <3>1, <4>1, <4>2, <4>3 DEF TimesOK
      <3> QED
        BY Zenon, <3>2, <3>3 DEF TimesInv
    <2> QED
      BY Zenon, <1>1, <2>1, NextTimes DEF Next
  <1> QED
    BY <1>1, InitTimes, SyncInvariant, PTL DEF Spec

(* pushListing goes by the times of local, remote and mark alone.  As long *)
(* as nothing failed and no edit met a push, they are not wrong: when they *)
(* say that nothing is to be imported or merged, local is what fossil has  *)
(* checked out.                                                            *)
THEOREM TimesAreRight == Spec => []TimesTell
  <1>1. SyncInv /\ TimesInv => TimesTell
    <2> SUFFICES ASSUME SyncInv, TimesInv, NEW u \in Users, faults = 0, ~raced[u],
                        gui[u].proc = "none", local[u] # NoFile, ~ToBeImported(u), ~ToBeMerged(u)
                 PROVE  local[u] = TableOf(vid[u]) /\ remote[u] = local[u]
      BY Zenon DEF TimesTell
    <2>1. TimesOK(u) /\ QuietOK(u) /\ time[u] \in Times
      BY Zenon DEF TimesInv, TimesType, SyncInv, QuietInv
    <2>2. "local" \in TimedFiles /\ "remote" \in TimedFiles /\ "mark" \in TimedFiles
      BY Zenon DEF TimedFiles
    <2>3. ~broken[u] /\ InStep(u) /\ Apart(time[u]) /\ time[u]["local"] # Never
          /\ time[u]["remote"] # Never
      BY Zenon, <2>1 DEF TimesOK
    <2>4. remote[u] = TableOf(vid[u])
      <3>1. gui[u].proc \notin {"commit", "failed"}
        OBVIOUS
      <3> QED
        BY Zenon, <2>1, <2>3, <3>1 DEF QuietOK, CheckedOut
    <2>5. time[u]["local"] \in Nat /\ time[u]["remote"] \in Nat /\ time[u]["mark"] \in Nat
      BY Zenon, <2>1, <2>2 DEF Times
    <2>6. time[u]["local"] # time[u]["remote"] /\ time[u]["local"] # time[u]["mark"]
          /\ time[u]["remote"] # time[u]["mark"]
      <3>1. "local" # "remote" /\ "local" # "mark" /\ "remote" # "mark"
        OBVIOUS
      <3> QED
        BY Zenon, <2>2, <2>3, <3>1 DEF Apart
    <2>7. /\ IF time[u]["mark"] # Never THEN ~(time[u]["mark"] < time[u]["local"])
             ELSE ~(time[u]["remote"] < time[u]["local"])
          /\ IF time[u]["mark"] # Never THEN ~(time[u]["mark"] < time[u]["remote"])
             ELSE ~(time[u]["local"] < time[u]["remote"])
      BY Zenon DEF ToBeImported, ToBeMerged, IsEarlier
    <2>8. time[u]["local"] < time[u]["mark"] /\ time[u]["remote"] < time[u]["mark"]
      BY <2>5, <2>6, <2>7
    <2>9. local[u] = remote[u]
      BY Zenon, <2>3, <2>8 DEF InStep
    <2> QED
      BY Zenon, <2>4, <2>9
  <1> QED
    BY <1>1, SyncInvariant, TimesInvariant, PTL
=============================================================================
