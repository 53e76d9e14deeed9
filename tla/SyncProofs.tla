----------------------------- MODULE SyncProofs -----------------------------
(***************************************************************************)
(* Proofs about Sync, for any number of users, rows, versions and faults:  *)
(* what a successful push means, and that no row is lost in a push or a    *)
(* pull.                                                                   *)
(***************************************************************************)
EXTENDS Sync, TLAPS

Table == [Rows -> 0 .. Copies]
Version == [parent : Nat, table : Table, by : Users,
            behind : {"no", "unmerged", "lost"}]
Gui == [proc : {"none", "update", "commit", "push", "ended", "failed"},
        next : {"nothing", "view_sync", "revertable"},
        updateCache : BOOLEAN, writeWouldFork : BOOLEAN]

SyncType ==
  /\ versions \in Seq(Version)
  /\ \A v \in DOMAIN versions : versions[v].parent < v
  /\ server \in SUBSET (DOMAIN versions)
  /\ repo \in [Users -> SUBSET (DOMAIN versions)]
  /\ vid \in [Users -> DOMAIN versions]
  /\ local \in [Users -> Table \cup {NoFile}]
  /\ remote \in [Users -> Table]
  /\ pivot \in [Users -> Table \cup {NoFile}]
  /\ gui \in [Users -> Gui]
  /\ made \in Nat
  /\ deleted \in [Users -> SUBSET Rows]
  /\ behind \in [Users -> {"no", "unmerged", "lost"}]
  /\ broken \in [Users -> BOOLEAN]

CheckedOut(u) == TableOf(vid[u])

(* What the process that fossil runs stands for.  Once a commit is made    *)
(* the working copy is the version checked out, and a push that has ended  *)
(* has shared it.                                                          *)
ProcOK(u) ==
  /\ gui[u].proc = "update" => gui[u].next = "view_sync"
  /\ gui[u].proc \in {"commit", "push"} => gui[u].next = "revertable"
  /\ gui[u].proc \in {"ended", "failed"} => gui[u].next \in {"view_sync", "revertable"}
  /\ gui[u].proc = "none" => gui[u].next = "nothing"
  /\ vid[u] \in repo[u]
  /\ gui[u].proc \in {"push", "ended"} /\ gui[u].next = "revertable" =>
       remote[u] = CheckedOut(u)
  /\ gui[u].proc = "ended" /\ gui[u].next = "revertable" => vid[u] \in server

ProcInv == \A u \in Users : ProcOK(u)

-----------------------------------------------------------------------------
(* The merge, cell by cell.                                                *)
LEMMA DroppedIs ==
  ASSUME NEW p \in 0 .. 2, NEW l \in 0 .. 2, NEW x \in 0 .. 2
  PROVE  Dropped(p, l, x) = IF Min2(p, l) > Min2(p, x) THEN Min2(p, l) - Min2(p, x) ELSE 0
  <1> DEFINE k == Min2(p, l) - Min2(p, x)
  <1>1. k \in Int
    BY DEF Min2
  <1> HIDE DEF k
  <1>2. ASSUME NEW n \in {0, k}, \A y \in {0, k} : n >= y
        PROVE  n = IF k > 0 THEN k ELSE 0
    BY <1>1, <1>2
  <1>3. \E n \in {0, k} : \A y \in {0, k} : n >= y
    BY <1>1
  <1>4. Max({0, k}) = IF k > 0 THEN k ELSE 0
    BY Zenon, <1>2, <1>3 DEF Max
  <1> QED
    BY <1>4 DEF Dropped, k, Min2

LEMMA MergeCell ==
  ASSUME NEW p \in Table, NEW l \in Table, NEW x \in Table, NEW r \in Rows
  PROVE  /\ Merge(p, l, x)[r] \in 0 .. Copies
         /\ Merge(p, l, x)[r] > 0 => l[r] > 0 \/ x[r] > 0
         /\ x[r] > 0 /\ ~(Merge(p, l, x)[r] > 0) => p[r] > 0 /\ ~(l[r] > 0)
         /\ l[r] > 0 /\ ~(Merge(p, l, x)[r] > 0) => p[r] > 0 /\ ~(x[r] > 0)
         /\ ~(l[r] > p[r]) => ~(Merge(p, l, x)[r] > x[r])
         /\ ~(x[r] > 0) => Merge(p, l, x)[r] <= l[r]
  <1>1. p[r] \in 0 .. 2 /\ l[r] \in 0 .. 2 /\ x[r] \in 0 .. 2
    BY Zenon DEF Table, Copies
  <1>2. Merge(p, l, x)[r] = Min2(Copies, l[r] - Dropped(p[r], l[r], x[r]) + Inserted(p[r], x[r]))
    BY Zenon DEF Merge
  <1>3. Dropped(p[r], l[r], x[r]) =
          IF Min2(p[r], l[r]) > Min2(p[r], x[r]) THEN Min2(p[r], l[r]) - Min2(p[r], x[r]) ELSE 0
    BY Zenon, <1>1, DroppedIs
  <1> QED
    BY <1>1, <1>2, <1>3 DEF Inserted, Min2, Copies

LEMMA MergeType ==
  ASSUME NEW p \in Table, NEW l \in Table, NEW x \in Table
  PROVE  Merge(p, l, x) \in Table
  BY Zenon, MergeCell DEF Merge, Table

-----------------------------------------------------------------------------
LEMMA InitType == Init => SyncType
  <1> SUFFICES ASSUME Init PROVE SyncType
    OBVIOUS
  <1>1. FirstTable \in Table
    BY SyncBounds DEF FirstTable, Table, Copies
  <1>2. Started \in Gui
    BY Zenon DEF Started, Gui
  <1>3. PICK adder \in Users :
          /\ versions = <<[parent |-> NoParent, table |-> FirstTable,
                           by |-> adder, behind |-> "no"]>>
          /\ local = [u \in Users |-> IF u = adder THEN FirstTable ELSE NoFile]
    BY Zenon DEF Init
  <1>4. [parent |-> NoParent, table |-> FirstTable, by |-> adder, behind |-> "no"] \in Version
    BY Zenon, <1>1 DEF Version, NoParent
  <1>5. versions \in Seq(Version) /\ DOMAIN versions = {1} /\ versions[1].parent = 0
    BY <1>3, <1>4 DEF NoParent
  <1> QED
    BY <1>1, <1>2, <1>3, <1>5 DEF Init, SyncType

LEMMA VersionType ==
  ASSUME SyncType, NEW v \in DOMAIN versions
  PROVE  /\ versions[v].parent \in Nat /\ versions[v].parent < v /\ versions[v].by \in Users
         /\ versions[v].table \in Table /\ DOMAIN versions = 1 .. Len(versions)
         /\ versions[v].parent # NoParent => versions[v].parent \in DOMAIN versions
  <1>1. versions \in Seq(Version) /\ DOMAIN versions = 1 .. Len(versions)
    BY DEF SyncType
  <1>2. versions[v] \in Version
    BY <1>1
  <1>3. /\ versions[v].parent \in Nat /\ versions[v].by \in Users /\ versions[v].table \in Table
        /\ v \in 1 .. Len(versions) /\ versions[v].parent < v
    BY Zenon, <1>1, <1>2 DEF Version, SyncType
  <1> QED
    BY <1>1, <1>3 DEF NoParent

LEMMA FilesType ==
  ASSUME SyncType, NEW u \in Users
  PROVE  /\ remote[u] \in Table /\ CheckedOut(u) \in Table
         /\ local[u] # NoFile => local[u] \in Table
         /\ pivot[u] # NoFile => pivot[u] \in Table
         /\ vid[u] \in DOMAIN versions /\ DOMAIN versions = 1 .. Len(versions)
         /\ \A v \in DOMAIN versions : TableOf(v) \in Table /\ versions[v] \in Version
  <1>1. versions \in Seq(Version) /\ DOMAIN versions = 1 .. Len(versions)
    BY DEF SyncType
  <1>2. \A v \in DOMAIN versions : versions[v] \in Version
    BY <1>1
  <1>3. \A v \in DOMAIN versions : TableOf(v) \in Table
    BY Zenon, <1>2 DEF TableOf, Version
  <1>4. vid[u] \in DOMAIN versions
    BY Zenon DEF SyncType
  <1>5. CheckedOut(u) \in Table
    BY Zenon, <1>3, <1>4 DEF CheckedOut
  <1>6. remote[u] \in Table /\ local[u] \in Table \cup {NoFile} /\ pivot[u] \in Table \cup {NoFile}
    BY Zenon DEF SyncType
  <1> QED
    BY Zenon, <1>1, <1>2, <1>3, <1>4, <1>5, <1>6

LEMMA PivotType ==
  ASSUME SyncType, NEW u \in Users, local[u] # NoFile
  PROVE  PivotOf(u) \in Table /\ Merged(u) \in Table
  BY Zenon, FilesType, MergeType DEF PivotOf, Merged

(* A step of u leaves the others alone and takes no version away.          *)
Others(u) ==
  \A w \in Users \ {u} :
    /\ vid'[w] = vid[w] /\ repo'[w] = repo[w] /\ local'[w] = local[w]
    /\ remote'[w] = remote[w] /\ pivot'[w] = pivot[w] /\ gui'[w] = gui[w]
    /\ deleted'[w] = deleted[w] /\ behind'[w] = behind[w] /\ broken'[w] = broken[w]

Grows ==
  /\ Len(versions) <= Len(versions') /\ server \subseteq server'
  /\ \A v \in DOMAIN versions : v \in DOMAIN versions' /\ versions'[v] = versions[v]

(* Nothing but the program's own members, times and faults have changed.   *)
KeepsFiles == UNCHANGED <<versions, vid, local, remote, pivot, made, deleted, behind>>

LEMMA KeepsFilesType ==
  ASSUME SyncType, NEW u \in Users, KeepsFiles,
         repo' = repo \/ (\E known \in SUBSET (DOMAIN versions) : repo' = [repo EXCEPT ![u] = known]),
         server' = server \/ server' = server \cup repo[u],
         broken' = broken \/ (\E b \in BOOLEAN : broken' = [broken EXCEPT ![u] = b]),
         gui' \in [Users -> Gui], \A w \in Users \ {u} : gui'[w] = gui[w]
  PROVE  SyncType' /\ Others(u) /\ Grows
  <1>1. repo' \in [Users -> SUBSET (DOMAIN versions)] /\ \A w \in Users \ {u} : repo'[w] = repo[w]
    <2>1. repo \in [Users -> SUBSET (DOMAIN versions)]
      BY Zenon DEF SyncType
    <2>2. CASE repo' = repo
      BY Zenon, <2>1, <2>2
    <2>3. CASE \E known \in SUBSET (DOMAIN versions) : repo' = [repo EXCEPT ![u] = known]
      BY Zenon, <2>1, <2>3
    <2> QED
      BY Zenon, <2>2, <2>3
  <1>2. server' \in SUBSET (DOMAIN versions) /\ server \subseteq server'
    BY Zenon DEF SyncType
  <1>3. broken' \in [Users -> BOOLEAN] /\ \A w \in Users \ {u} : broken'[w] = broken[w]
    BY DEF SyncType
  <1>4. SyncType'
    BY Zenon, <1>1, <1>2, <1>3 DEF SyncType, KeepsFiles
  <1>5. Others(u)
    BY Zenon, <1>1, <1>3 DEF Others, KeepsFiles
  <1>6. Len(versions) \in Nat
    BY DEF SyncType
  <1>7. Grows
    BY <1>2, <1>6 DEF Grows, KeepsFiles
  <1> QED
    BY Zenon, <1>4, <1>5, <1>7

(* What each step does to the user who takes it.                           *)
ProgramIs(u, proc, next, cache) ==
  gui'[u].proc = proc /\ gui'[u].next = next /\ gui'[u].updateCache = cache

LEMMA GuiSteps ==
  ASSUME SyncType, NEW u \in Users
  PROVE  /\ \A status \in {"push", "ended", "failed"} : Exits(u, status) =>
              /\ gui' \in [Users -> Gui] /\ \A w \in Users \ {u} : gui'[w] = gui[w]
              /\ ProgramIs(u, status, gui[u].next, gui[u].updateCache)
         /\ Syncing(u, gui[u]) =>
              /\ gui' \in [Users -> Gui] /\ \A w \in Users \ {u} : gui'[w] = gui[w]
              /\ ProgramIs(u, "update", "view_sync", gui[u].updateCache)
         /\ Idle(u, gui[u]) =>
              /\ gui' \in [Users -> Gui] /\ \A w \in Users \ {u} : gui'[w] = gui[w]
              /\ ProgramIs(u, "none", "nothing", gui[u].updateCache)
         /\ Idle(u, [gui[u] EXCEPT !.updateCache = FALSE]) =>
              /\ gui' \in [Users -> Gui] /\ \A w \in Users \ {u} : gui'[w] = gui[w]
              /\ ProgramIs(u, "none", "nothing", FALSE)
         /\ Restart(u) =>
              /\ gui' \in [Users -> Gui] /\ \A w \in Users \ {u} : gui'[w] = gui[w]
              /\ ProgramIs(u, "none", "nothing", FALSE)
  <1>1. gui \in [Users -> Gui] /\ gui[u] \in Gui
    BY Zenon DEF SyncType
  <1>2. ASSUME NEW status \in {"push", "ended", "failed"}, Exits(u, status)
        PROVE  /\ gui' \in [Users -> Gui] /\ \A w \in Users \ {u} : gui'[w] = gui[w]
               /\ ProgramIs(u, status, gui[u].next, gui[u].updateCache)
    BY Zenon, <1>1, <1>2 DEF Exits, Gui, ProgramIs
  <1>3. ASSUME Syncing(u, gui[u])
        PROVE  /\ gui' \in [Users -> Gui] /\ \A w \in Users \ {u} : gui'[w] = gui[w]
               /\ ProgramIs(u, "update", "view_sync", gui[u].updateCache)
    BY Zenon, <1>1, <1>3 DEF Syncing, Gui, ProgramIs
  <1>4. ASSUME Idle(u, gui[u])
        PROVE  /\ gui' \in [Users -> Gui] /\ \A w \in Users \ {u} : gui'[w] = gui[w]
               /\ ProgramIs(u, "none", "nothing", gui[u].updateCache)
    BY Zenon, <1>1, <1>4 DEF Idle, Gui, ProgramIs
  <1>5. ASSUME Idle(u, [gui[u] EXCEPT !.updateCache = FALSE])
        PROVE  /\ gui' \in [Users -> Gui] /\ \A w \in Users \ {u} : gui'[w] = gui[w]
               /\ ProgramIs(u, "none", "nothing", FALSE)
    BY Zenon, <1>1, <1>5 DEF Idle, Gui, ProgramIs
  <1>6. ASSUME Restart(u)
        PROVE  /\ gui' \in [Users -> Gui] /\ \A w \in Users \ {u} : gui'[w] = gui[w]
               /\ ProgramIs(u, "none", "nothing", FALSE)
    BY Zenon, <1>1, <1>6 DEF Restart, Started, Gui, ProgramIs
  <1> QED
    BY Zenon, <1>2, <1>3, <1>4, <1>5, <1>6

LEMMA OnSyncDoes ==
  ASSUME SyncType, NEW u \in Users, OnSync(u)
  PROVE  /\ SyncType' /\ Others(u) /\ Grows /\ KeepsFiles /\ UNCHANGED <<server, repo, broken>>
         /\ ProgramIs(u, "update", "view_sync", gui[u].updateCache) /\ gui[u].proc = "none"
  <1>1. /\ Syncing(u, gui[u]) /\ KeepsFiles /\ UNCHANGED <<server, repo, broken>>
        /\ gui[u].proc = "none"
    BY Zenon DEF OnSync, Running, KeepsFiles, fossil, files, ghosts
  <1> QED
    BY Zenon, <1>1, GuiSteps, KeepsFilesType

LEMMA FossilFailsDoes ==
  ASSUME SyncType, NEW u \in Users, FossilFails(u)
  PROVE  /\ SyncType' /\ Others(u) /\ Grows /\ KeepsFiles /\ UNCHANGED <<server, repo, broken>>
         /\ ProgramIs(u, "failed", gui[u].next, gui[u].updateCache)
         /\ gui[u].proc \in {"update", "commit", "push"}
  <1>1. /\ Exits(u, "failed") /\ KeepsFiles /\ UNCHANGED <<server, repo, broken>>
        /\ gui[u].proc \in {"update", "commit", "push"}
    BY Zenon DEF FossilFails, KeepsFiles, fossil, files, ghosts
  <1>2. "failed" \in {"push", "ended", "failed"}
    OBVIOUS
  <1> QED
    BY Zenon, <1>1, <1>2, GuiSteps, KeepsFilesType

LEMMA PushRepositoryDoes ==
  ASSUME SyncType, NEW u \in Users, PushRepository(u)
  PROVE  /\ SyncType' /\ Others(u) /\ Grows /\ KeepsFiles /\ UNCHANGED <<repo, broken>>
         /\ server' = server \cup repo[u] /\ gui[u].proc = "push"
         /\ ProgramIs(u, "ended", gui[u].next, gui[u].updateCache)
  <1>1. /\ Exits(u, "ended") /\ KeepsFiles /\ UNCHANGED <<repo, broken>>
        /\ server' = server \cup repo[u] /\ gui[u].proc = "push"
    BY Zenon DEF PushRepository, Running, KeepsFiles, files, ghosts
  <1>2. "ended" \in {"push", "ended", "failed"}
    OBVIOUS
  <1> QED
    BY Zenon, <1>1, <1>2, GuiSteps, KeepsFilesType

(* Leaving the program, or its end.                                        *)
LEMMA RestartDoes ==
  ASSUME SyncType, NEW u \in Users, Leave(u) \/ Crash(u)
  PROVE  /\ SyncType' /\ Others(u) /\ Grows /\ KeepsFiles /\ UNCHANGED <<server, repo>>
         /\ ProgramIs(u, "none", "nothing", FALSE)
         /\ broken'[u] \/ (gui[u].proc = "none" /\ broken' = broken)
  <1>1. /\ Restart(u) /\ KeepsFiles /\ UNCHANGED <<server, repo>>
    BY Zenon DEF Leave, Crash, KeepsFiles, fossil, files, ghosts
  <1>2. \/ gui[u].proc = "none" /\ broken' = broken
        \/ broken' = [broken EXCEPT ![u] = TRUE]
    BY Zenon DEF Leave, Crash, Running, ghosts
  <1>3. broken'[u] \/ (gui[u].proc = "none" /\ broken' = broken)
    BY Zenon, <1>2 DEF SyncType
  <1>4. SyncType' /\ Others(u) /\ Grows
    BY Zenon, <1>1, <1>2, GuiSteps, KeepsFilesType
  <1> QED
    BY Zenon, <1>1, <1>3, <1>4, GuiSteps

(* A step that makes no version and changes at most the files of u.        *)
LEMMA FilesStepType ==
  ASSUME SyncType, NEW u \in Users, versions' = versions, server' = server,
         repo' \in [Users -> SUBSET (DOMAIN versions)], vid' \in [Users -> DOMAIN versions],
         local' \in [Users -> Table \cup {NoFile}], remote' \in [Users -> Table],
         pivot' \in [Users -> Table \cup {NoFile}], gui' \in [Users -> Gui],
         made' \in Nat, deleted' \in [Users -> SUBSET Rows],
         behind' \in [Users -> {"no", "unmerged", "lost"}], broken' \in [Users -> BOOLEAN],
         \A w \in Users \ {u} : vid'[w] = vid[w] /\ repo'[w] = repo[w],
         \A w \in Users \ {u} : local'[w] = local[w] /\ remote'[w] = remote[w],
         \A w \in Users \ {u} : pivot'[w] = pivot[w] /\ gui'[w] = gui[w],
         \A w \in Users \ {u} : deleted'[w] = deleted[w] /\ behind'[w] = behind[w],
         \A w \in Users \ {u} : broken'[w] = broken[w]
  PROVE  SyncType' /\ Others(u) /\ Grows
  <1>1. SyncType'
    BY Zenon DEF SyncType
  <1>2. Others(u)
    BY Zenon DEF Others
  <1>3. Len(versions) \in Nat
    BY DEF SyncType
  <1>4. Grows
    BY <1>3 DEF Grows
  <1> QED
    BY Zenon, <1>1, <1>2, <1>4

(* The same, in two halves.                                                *)
FilesTyped ==
  /\ versions' = versions /\ server' = server
  /\ repo' \in [Users -> SUBSET (DOMAIN versions)] /\ vid' \in [Users -> DOMAIN versions]
  /\ local' \in [Users -> Table \cup {NoFile}] /\ remote' \in [Users -> Table]
  /\ pivot' \in [Users -> Table \cup {NoFile}] /\ gui' \in [Users -> Gui]
  /\ made' \in Nat /\ deleted' \in [Users -> SUBSET Rows]
  /\ behind' \in [Users -> {"no", "unmerged", "lost"}] /\ broken' \in [Users -> BOOLEAN]

OthersSame(u) ==
  \A w \in Users \ {u} :
    /\ vid'[w] = vid[w] /\ repo'[w] = repo[w]
    /\ local'[w] = local[w] /\ remote'[w] = remote[w]
    /\ pivot'[w] = pivot[w] /\ gui'[w] = gui[w]
    /\ deleted'[w] = deleted[w] /\ behind'[w] = behind[w]
    /\ broken'[w] = broken[w]

LEMMA FilesStep ==
  ASSUME SyncType, NEW u \in Users, FilesTyped, OthersSame(u)
  PROVE  SyncType' /\ Others(u) /\ Grows
  <1>1. SyncType'
    BY Zenon DEF SyncType, FilesTyped
  <1>2. Others(u)
    BY Zenon DEF Others, OthersSame
  <1>3. Len(versions) \in Nat
    BY DEF SyncType
  <1>4. Grows
    BY <1>3 DEF Grows, FilesTyped
  <1> QED
    BY Zenon, <1>1, <1>2, <1>4

LEMMA InsertRowDoes ==
  ASSUME SyncType, NEW u \in Users, InsertRow(u)
  PROVE  /\ SyncType' /\ Others(u) /\ Grows
         /\ UNCHANGED <<versions, server, repo, vid, remote, pivot, gui, deleted, behind, broken>>
         /\ local[u] # NoFile /\ made + 1 \in Rows /\ made' = made + 1
         /\ local'[u] = [local[u] EXCEPT ![made + 1] = 1] /\ local'[u] \in Table
  <1>1. /\ UNCHANGED <<versions, server, repo, vid, remote, pivot, gui, deleted, behind, broken>>
        /\ local[u] # NoFile /\ made < MaxRows /\ made' = made + 1
        /\ local' = [local EXCEPT ![u] = [local[u] EXCEPT ![made + 1] = 1]]
    BY Zenon DEF InsertRow, Saves, fossil
  <1>2. made \in Nat /\ made' \in Nat /\ made + 1 \in Rows
    BY <1>1, SyncBounds DEF SyncType, Rows
  <1>3. local[u] \in Table
    BY Zenon, <1>1, FilesType
  <1>4. [local[u] EXCEPT ![made + 1] = 1] \in Table
    BY <1>2, <1>3 DEF Table, Copies
  <1>5. /\ local' \in [Users -> Table \cup {NoFile}] /\ \A w \in Users \ {u} : local'[w] = local[w]
        /\ local'[u] = [local[u] EXCEPT ![made + 1] = 1]
    BY Zenon, <1>1, <1>4 DEF SyncType
  <1>6. SyncType' /\ Others(u) /\ Grows
    BY Zenon, <1>1, <1>2, <1>5, FilesStepType DEF SyncType
  <1> QED
    BY Zenon, <1>1, <1>2, <1>4, <1>5, <1>6

LEMMA DeleteRowDoes ==
  ASSUME SyncType, NEW u \in Users, NEW r \in Rows, DeleteRow(u, r)
  PROVE  /\ SyncType' /\ Others(u) /\ Grows
         /\ UNCHANGED <<versions, server, repo, vid, remote, pivot, gui, made, behind, broken>>
         /\ local[u] # NoFile /\ deleted'[u] = deleted[u] \cup {r}
         /\ local'[u] = [local[u] EXCEPT ![r] = 0] /\ local'[u] \in Table
  <1>1. /\ UNCHANGED <<versions, server, repo, vid, remote, pivot, gui, made, behind, broken>>
        /\ local[u] # NoFile /\ deleted' = [deleted EXCEPT ![u] = @ \cup {r}]
        /\ local' = [local EXCEPT ![u] = [local[u] EXCEPT ![r] = 0]]
    BY Zenon DEF DeleteRow, Saves, fossil
  <1>2. local[u] \in Table
    BY Zenon, <1>1, FilesType
  <1>3. [local[u] EXCEPT ![r] = 0] \in Table
    BY <1>2 DEF Table, Copies
  <1>4. /\ local' \in [Users -> Table \cup {NoFile}] /\ \A w \in Users \ {u} : local'[w] = local[w]
        /\ local'[u] = [local[u] EXCEPT ![r] = 0]
    BY Zenon, <1>1, <1>3 DEF SyncType
  <1>5. /\ deleted' \in [Users -> SUBSET Rows] /\ \A w \in Users \ {u} : deleted'[w] = deleted[w]
        /\ deleted'[u] = deleted[u] \cup {r}
    BY Zenon, <1>1 DEF SyncType
  <1>6. SyncType' /\ Others(u) /\ Grows
    BY Zenon, <1>1, <1>4, <1>5, FilesStepType DEF SyncType
  <1> QED
    BY Zenon, <1>1, <1>3, <1>4, <1>5, <1>6

LEMMA OpenFileDoes ==
  ASSUME SyncType, NEW u \in Users, OpenFile(u)
  PROVE  /\ SyncType' /\ Others(u) /\ Grows
         /\ UNCHANGED <<versions, server, repo, vid, remote, made, deleted, behind, broken>>
         /\ local[u] = NoFile /\ local'[u] = remote[u] /\ pivot'[u] = remote[u]
         /\ gui[u].proc = "none" /\ ProgramIs(u, "none", gui[u].next, TRUE)
  <1>1. /\ UNCHANGED <<versions, server, repo, vid, remote, made, deleted, behind, broken>>
        /\ local[u] = NoFile /\ local' = [local EXCEPT ![u] = remote[u]]
        /\ pivot' = [pivot EXCEPT ![u] = remote[u]] /\ gui[u].proc = "none"
        /\ gui' = [gui EXCEPT ![u].updateCache = TRUE]
    BY Zenon DEF OpenFile, Running, fossil, ghosts
  <1>2. remote[u] \in Table
    BY Zenon, FilesType
  <1>3. /\ local' \in [Users -> Table \cup {NoFile}] /\ \A w \in Users \ {u} : local'[w] = local[w]
        /\ local'[u] = remote[u]
    BY Zenon, <1>1, <1>2 DEF SyncType
  <1>4. /\ pivot' \in [Users -> Table \cup {NoFile}] /\ \A w \in Users \ {u} : pivot'[w] = pivot[w]
        /\ pivot'[u] = remote[u]
    BY Zenon, <1>1, <1>2 DEF SyncType
  <1>5. /\ gui' \in [Users -> Gui] /\ \A w \in Users \ {u} : gui'[w] = gui[w]
        /\ ProgramIs(u, "none", gui[u].next, TRUE)
    <2>0. gui \in [Users -> Gui] /\ gui[u] \in Gui
      BY Zenon DEF SyncType
    <2>1. gui \in [Users -> Gui] /\ [gui[u] EXCEPT !.updateCache = TRUE] \in Gui
      BY Zenon, <2>0 DEF Gui
    <2>2. gui' = [gui EXCEPT ![u] = [gui[u] EXCEPT !.updateCache = TRUE]]
      BY <1>1, <2>1
    <2>3. PICK g \in Gui : g = [gui[u] EXCEPT !.updateCache = TRUE]
      BY Zenon, <2>1
    <2>4. gui[u] \in Gui /\ gui' = [gui EXCEPT ![u] = g] /\ gui'[u] = g
      BY Zenon, <2>1, <2>2, <2>3
    <2>5. g.proc = gui[u].proc /\ g.next = gui[u].next /\ g.updateCache = TRUE
      BY <2>3, <2>4 DEF Gui
    <2> QED
      BY Zenon, <1>1, <2>1, <2>4, <2>5 DEF ProgramIs
  <1>6. SyncType' /\ Others(u) /\ Grows
    <2>11. FilesTyped
      BY Zenon, <1>1, <1>3, <1>4, <1>5 DEF FilesTyped, SyncType
    <2>12. OthersSame(u)
      BY Zenon, <1>1, <1>3, <1>4, <1>5 DEF OthersSame
    <2> QED BY Zenon, <2>11, <2>12, FilesStep
  <1> QED
    BY Zenon, <1>1, <1>3, <1>4, <1>5, <1>6

LEMMA OnCommitDoes ==
  ASSUME SyncType, NEW u \in Users, NEW import \in BOOLEAN, NEW describe \in BOOLEAN,
         OnCommit(u, import, describe)
  PROVE  /\ SyncType' /\ Others(u) /\ Grows
         /\ UNCHANGED <<versions, server, repo, vid, local, pivot, made, deleted>>
         /\ gui[u].proc = "none" /\ (import => local[u] # NoFile)
         /\ remote'[u] = IF import THEN local[u] ELSE remote[u]
         /\ behind'[u] = IF import /\ behind[u] = "unmerged" THEN "lost" ELSE behind[u]
         /\ gui'[u].updateCache = import
         /\ describe => /\ gui'[u].next = "revertable" /\ broken'[u] = broken[u]
                        /\ gui'[u].proc = IF remote'[u] # CheckedOut(u) THEN "commit" ELSE "push"
         /\ ~describe => gui'[u].next = gui[u].next /\ gui'[u].proc = "none" /\ broken'[u]
  <1> DEFINE changes == remote'[u] # TableOf(vid[u])
  <1>1. /\ UNCHANGED <<versions, server, repo, vid, local, pivot, made, deleted>>
        /\ gui[u].proc = "none" /\ (import => local[u] # NoFile)
        /\ remote' = IF import THEN [remote EXCEPT ![u] = local[u]] ELSE remote
        /\ behind' = IF import THEN [behind EXCEPT ![u] = IF @ = "unmerged" THEN "lost" ELSE @]
                     ELSE behind
        /\ broken' = [broken EXCEPT ![u] = @ \/ ~describe]
    BY Zenon DEF OnCommit, ToBeImported, Unmergeable, Running, fossil
  <1>2. PICK p, n :
          /\ p = IF ~describe THEN "none" ELSE IF changes THEN "commit" ELSE "push"
          /\ n = IF describe THEN "revertable" ELSE gui[u].next
          /\ gui' = [gui EXCEPT ![u] = [proc |-> p, next |-> n, updateCache |-> import,
                                        writeWouldFork |-> FALSE]]
    BY Zenon DEF OnCommit
  <1>3. import => local[u] \in Table
    BY Zenon, <1>1, FilesType
  <1>4. /\ remote' \in [Users -> Table] /\ \A w \in Users \ {u} : remote'[w] = remote[w]
        /\ remote'[u] = IF import THEN local[u] ELSE remote[u]
    BY Zenon, <1>1, <1>3 DEF SyncType
  <1>5. /\ behind' \in [Users -> {"no", "unmerged", "lost"}]
        /\ \A w \in Users \ {u} : behind'[w] = behind[w]
        /\ behind'[u] = IF import /\ behind[u] = "unmerged" THEN "lost" ELSE behind[u]
    BY Zenon, <1>1 DEF SyncType
  <1>6. /\ broken' \in [Users -> BOOLEAN] /\ \A w \in Users \ {u} : broken'[w] = broken[w]
        /\ (describe => broken'[u] = broken[u]) /\ (~describe => broken'[u])
    BY Zenon, <1>1 DEF SyncType
  <1>7. p \in {"none", "commit", "push"} /\ n \in {"nothing", "view_sync", "revertable"}
    BY Zenon, <1>2 DEF SyncType, Gui
  <1>8. /\ gui' \in [Users -> Gui] /\ \A w \in Users \ {u} : gui'[w] = gui[w]
        /\ ProgramIs(u, p, n, import)
    BY Zenon, <1>2, <1>7 DEF SyncType, Gui, ProgramIs
  <1>9. SyncType' /\ Others(u) /\ Grows
    <2>11. FilesTyped
      BY Zenon, <1>1, <1>4, <1>5, <1>6, <1>8 DEF FilesTyped, SyncType
    <2>12. OthersSame(u)
      BY Zenon, <1>1, <1>4, <1>5, <1>6, <1>8 DEF OthersSame
    <2> QED BY Zenon, <2>11, <2>12, FilesStep
  <1> QED
    BY Zenon, <1>1, <1>2, <1>4, <1>5, <1>6, <1>8, <1>9 DEF ProgramIs, CheckedOut

(* update fails, or finds the version tid and moves to it.                 *)
MovesTo(u, tid) ==
  /\ tid \in DOMAIN versions /\ tid \in repo'[u]
  /\ vid[u] \in Ancestors(tid) \cup {tid} /\ vid'[u] = tid
  /\ ProgramIs(u, "ended", gui[u].next, gui[u].updateCache)
  /\ \/ TableOf(tid) = CheckedOut(u) /\ UNCHANGED <<remote, behind>>
     \/ /\ remote'[u] = IF remote[u] = CheckedOut(u) THEN TableOf(tid)
                        ELSE Merge(CheckedOut(u), remote[u], TableOf(tid))
        /\ behind'[u] = IF local[u] # NoFile /\ behind[u] = "no" THEN "unmerged" ELSE behind[u]

LEMMA UpdateDoes ==
  ASSUME SyncType, NEW u \in Users, Update(u)
  PROVE  /\ SyncType' /\ Others(u) /\ Grows /\ repo[u] \subseteq repo'[u]
         /\ UNCHANGED <<versions, server, local, pivot, made, deleted, broken>>
         /\ gui[u].proc = "update"
         /\ \/ /\ KeepsFiles
               /\ ProgramIs(u, "failed", gui[u].next, gui[u].updateCache)
            \/ \E tid \in DOMAIN versions : MovesTo(u, tid)
  <1> DEFINE known == repo[u] \cup server
             leaves == compute_leaves(vid[u], known)
  <1>1. /\ UNCHANGED <<versions, server, made, deleted, broken>>
        /\ gui[u].proc = "update" /\ repo' = [repo EXCEPT ![u] = known]
    BY Zenon DEF Update, Running
  <1>2. /\ repo' \in [Users -> SUBSET (DOMAIN versions)] /\ repo'[u] = known
        /\ \A w \in Users \ {u} : repo'[w] = repo[w]
    BY Zenon, <1>1 DEF SyncType
  <1>3. known \subseteq DOMAIN versions
    BY Zenon DEF SyncType
  <1>4. \/ Exits(u, "failed") /\ UNCHANGED <<vid, files, behind>>
        \/ \E tid \in leaves :
             /\ vid' = [vid EXCEPT ![u] = tid] /\ Exits(u, "ended")
             /\ IF TableOf(tid) = TableOf(vid[u]) THEN UNCHANGED <<files, behind>>
                ELSE Bring(u, tid)
    BY Zenon DEF Update
  <1>5. CASE Exits(u, "failed") /\ UNCHANGED <<vid, files, behind>>
    <2>1. KeepsFiles /\ UNCHANGED <<local, pivot>>
      BY Zenon, <1>1, <1>5 DEF KeepsFiles, files
    <2>2. "failed" \in {"push", "ended", "failed"}
      OBVIOUS
    <2> QED
      BY Zenon, <1>1, <1>2, <1>3, <1>5, <2>1, <2>2, GuiSteps, KeepsFilesType
  <1>6. ASSUME NEW tid \in leaves,
               vid' = [vid EXCEPT ![u] = tid], Exits(u, "ended"),
               IF TableOf(tid) = TableOf(vid[u]) THEN UNCHANGED <<files, behind>>
               ELSE Bring(u, tid)
        PROVE  SyncType' /\ Others(u) /\ Grows /\ UNCHANGED <<local, pivot>> /\ MovesTo(u, tid)
    <2>1. tid \in known /\ vid[u] \in Ancestors(tid) \cup {tid}
      BY Zenon, <1>6 DEF compute_leaves
    <2>2. /\ vid' \in [Users -> DOMAIN versions] /\ vid'[u] = tid
          /\ \A w \in Users \ {u} : vid'[w] = vid[w]
      BY Zenon, <1>3, <1>6, <2>1 DEF SyncType
    <2>3. "ended" \in {"push", "ended", "failed"}
      OBVIOUS
    <2>4. /\ gui' \in [Users -> Gui] /\ \A w \in Users \ {u} : gui'[w] = gui[w]
          /\ ProgramIs(u, "ended", gui[u].next, gui[u].updateCache)
      BY Zenon, <1>6, <2>3, GuiSteps
    <2>5. TableOf(tid) \in Table /\ remote[u] \in Table /\ CheckedOut(u) \in Table
      BY Zenon, <1>3, <2>1, FilesType
    <2>6. Merge(CheckedOut(u), remote[u], TableOf(tid)) \in Table
      BY Zenon, <2>5, MergeType
    <2>7. UNCHANGED <<local, pivot>>
      BY Zenon, <1>6 DEF Bring, files
    <2>8. /\ remote' \in [Users -> Table] /\ behind' \in [Users -> {"no", "unmerged", "lost"}]
          /\ \A w \in Users \ {u} : remote'[w] = remote[w] /\ behind'[w] = behind[w]
          /\ \/ TableOf(tid) = CheckedOut(u) /\ UNCHANGED <<remote, behind>>
             \/ /\ remote'[u] = IF remote[u] = CheckedOut(u) THEN TableOf(tid)
                                ELSE Merge(CheckedOut(u), remote[u], TableOf(tid))
                /\ behind'[u] = IF local[u] # NoFile /\ behind[u] = "no" THEN "unmerged"
                                ELSE behind[u]
      <3>1. CASE TableOf(tid) = TableOf(vid[u])
        BY Zenon, <1>6, <3>1 DEF files, CheckedOut, SyncType
      <3>2. CASE TableOf(tid) # TableOf(vid[u])
        <4>1. /\ remote' = [remote EXCEPT ![u] =
                              IF @ = CheckedOut(u) THEN TableOf(tid)
                              ELSE Merge(CheckedOut(u), @, TableOf(tid))]
              /\ behind' = [behind EXCEPT ![u] =
                              IF local[u] # NoFile /\ @ = "no" THEN "unmerged" ELSE @]
          BY Zenon, <1>6, <3>2 DEF Bring, CheckedOut
        <4> QED
          BY Zenon, <2>5, <2>6, <4>1 DEF SyncType
      <3> QED
        BY Zenon, <3>1, <3>2
    <2>9. SyncType' /\ Others(u) /\ Grows
      <3>1. /\ local' \in [Users -> Table \cup {NoFile}] /\ pivot' \in [Users -> Table \cup {NoFile}]
            /\ made' \in Nat /\ deleted' \in [Users -> SUBSET Rows] /\ broken' \in [Users -> BOOLEAN]
        BY Zenon, <1>1, <2>7 DEF SyncType
      <3>2. \A w \in Users \ {u} : /\ local'[w] = local[w] /\ pivot'[w] = pivot[w]
                                  /\ deleted'[w] = deleted[w] /\ broken'[w] = broken[w]
        BY Zenon, <1>1, <2>7
      <3>11. FilesTyped
        BY Zenon, <1>1, <1>2, <2>2, <2>4, <2>8, <3>1 DEF FilesTyped
      <3>12. OthersSame(u)
        BY Zenon, <1>1, <1>2, <2>2, <2>4, <2>8, <3>2 DEF OthersSame
      <3> QED BY Zenon, <3>11, <3>12, FilesStep
    <2>10. MovesTo(u, tid)
      BY Zenon, <1>2, <1>3, <2>1, <2>2, <2>4, <2>8 DEF MovesTo
    <2> QED
      BY Zenon, <2>7, <2>9, <2>10
  <1>7. leaves \subseteq DOMAIN versions
    BY Zenon, <1>3 DEF compute_leaves
  <1> HIDE DEF leaves
  <1> QED
    BY Zenon, <1>1, <1>2, <1>4, <1>5, <1>6, <1>7

(* commit fails, or adds the working copy to the versions.                 *)
Adds(u) ==
  /\ vid'[u] = Len(versions) + 1 /\ vid'[u] \in repo'[u]
  /\ DOMAIN versions' = (DOMAIN versions) \cup {Len(versions) + 1}
  /\ versions'[Len(versions) + 1] =
       [parent |-> vid[u], table |-> remote[u], by |-> u, behind |-> behind[u]]
  /\ ProgramIs(u, "push", gui[u].next, gui[u].updateCache)

LEMMA CommitDoes ==
  ASSUME SyncType, NEW u \in Users, Commit(u)
  PROVE  /\ SyncType' /\ Others(u) /\ Grows /\ repo[u] \subseteq repo'[u]
         /\ UNCHANGED <<server, local, remote, pivot, made, deleted, behind, broken>>
         /\ gui[u].proc = "commit"
         /\ \/ KeepsFiles /\ ProgramIs(u, "failed", gui[u].next, gui[u].updateCache)
            \/ Adds(u)
  <1> DEFINE known == repo[u] \cup server
             nvid == Len(versions) + 1
             version == [parent |-> vid[u], table |-> remote[u], by |-> u, behind |-> behind[u]]
  <1>1. /\ UNCHANGED <<server, local, remote, pivot, made, deleted, behind, broken>>
        /\ gui[u].proc = "commit"
        /\ \/ /\ gui' = [gui EXCEPT ![u].proc = "failed", ![u].writeWouldFork = TRUE]
              /\ repo' = [repo EXCEPT ![u] = known]
              /\ UNCHANGED <<versions, vid>>
           \/ /\ versions' = Append(versions, version)
              /\ repo' = [repo EXCEPT ![u] = known \cup {nvid}]
              /\ vid' = [vid EXCEPT ![u] = nvid]
              /\ Exits(u, "push")
    BY Zenon DEF Commit, Running, files, ghosts
  <1>2. known \subseteq DOMAIN versions /\ gui[u] \in Gui /\ gui \in [Users -> Gui]
    BY Zenon DEF SyncType
  <1>3. ASSUME gui' = [gui EXCEPT ![u].proc = "failed", ![u].writeWouldFork = TRUE],
               repo' = [repo EXCEPT ![u] = known], UNCHANGED <<versions, vid>>
        PROVE  /\ SyncType' /\ Others(u) /\ Grows /\ repo[u] \subseteq repo'[u] /\ KeepsFiles
               /\ ProgramIs(u, "failed", gui[u].next, gui[u].updateCache)
    <2>1. /\ gui' \in [Users -> Gui] /\ \A w \in Users \ {u} : gui'[w] = gui[w]
          /\ ProgramIs(u, "failed", gui[u].next, gui[u].updateCache)
      BY Zenon, <1>2, <1>3 DEF Gui, ProgramIs
    <2>2. repo[u] \subseteq repo'[u]
      BY Zenon, <1>3 DEF SyncType
    <2>3. KeepsFiles
      BY Zenon, <1>1, <1>3 DEF KeepsFiles
    <2> QED
      BY Zenon, <1>1, <1>2, <1>3, <2>1, <2>2, <2>3, KeepsFilesType
  <1>4. ASSUME versions' = Append(versions, version), repo' = [repo EXCEPT ![u] = known \cup {nvid}],
               vid' = [vid EXCEPT ![u] = nvid], Exits(u, "push")
        PROVE  SyncType' /\ Others(u) /\ Grows /\ repo[u] \subseteq repo'[u] /\ Adds(u)
    <2>1. versions \in Seq(Version) /\ Len(versions) \in Nat /\ DOMAIN versions = 1 .. Len(versions)
      BY DEF SyncType
    <2>2. vid[u] \in 1 .. Len(versions) /\ remote[u] \in Table
          /\ behind[u] \in {"no", "unmerged", "lost"}
      BY Zenon, <2>1 DEF SyncType
    <2>3. version \in Version
      BY <2>1, <2>2 DEF Version
    <2>4. /\ versions' \in Seq(Version) /\ Len(versions') = nvid /\ versions'[nvid] = version
          /\ DOMAIN versions' = 1 .. nvid
          /\ \A v \in 1 .. Len(versions) : versions'[v] = versions[v]
      <3> HIDE DEF version
      <3> QED
        BY <1>4, <2>1, <2>3
    <2>5. DOMAIN versions' = (DOMAIN versions) \cup {nvid} /\ DOMAIN versions \subseteq DOMAIN versions'
      BY <2>1, <2>4
    <2>6. \A v \in DOMAIN versions' : versions'[v].parent < v
      <3>1. version.parent = vid[u]
        OBVIOUS
      <3>2. \A v \in DOMAIN versions : versions[v].parent < v
        BY Zenon DEF SyncType
      <3> HIDE DEF version
      <3> QED
        BY <2>1, <2>2, <2>4, <3>1, <3>2
    <2>7. /\ repo' \in [Users -> SUBSET (DOMAIN versions')] /\ repo'[u] = known \cup {nvid}
          /\ \A w \in Users \ {u} : repo'[w] = repo[w]
      <3>1. repo \in [Users -> SUBSET (DOMAIN versions')] /\ known \cup {nvid} \in SUBSET (DOMAIN versions')
        BY Zenon, <1>2, <2>5 DEF SyncType
      <3> QED
        BY Zenon, <1>4, <3>1
    <2>8. /\ vid' \in [Users -> DOMAIN versions'] /\ vid'[u] = nvid
          /\ \A w \in Users \ {u} : vid'[w] = vid[w]
      <3>1. vid \in [Users -> DOMAIN versions'] /\ nvid \in DOMAIN versions'
        BY Zenon, <2>5 DEF SyncType
      <3> QED
        BY Zenon, <1>4, <3>1
    <2>9. "push" \in {"push", "ended", "failed"}
      OBVIOUS
    <2>10. /\ gui' \in [Users -> Gui] /\ \A w \in Users \ {u} : gui'[w] = gui[w]
           /\ ProgramIs(u, "push", gui[u].next, gui[u].updateCache)
      BY Zenon, <1>4, <2>9, GuiSteps
    <2>11. server' \in SUBSET (DOMAIN versions')
      BY Zenon, <1>1, <2>5 DEF SyncType
    <2>12. SyncType'
      BY Zenon, <1>1, <2>4, <2>6, <2>7, <2>8, <2>10, <2>11 DEF SyncType
    <2>13. Others(u)
      BY Zenon, <1>1, <2>7, <2>8, <2>10 DEF Others
    <2>14. Grows
      BY <1>1, <2>1, <2>4 DEF Grows
    <2>15. Adds(u)
      BY Zenon, <2>4, <2>5, <2>7, <2>8, <2>10 DEF Adds
    <2> QED
      BY Zenon, <2>7, <2>12, <2>13, <2>14, <2>15
  <1> QED
    BY Zenon, <1>1, <1>3, <1>4

LEMMA MergeListingDoes ==
  ASSUME SyncType, NEW u \in Users, MergeListing(u) \/ MergeFails(u)
  PROVE  /\ SyncType' /\ Others(u) /\ Grows
         /\ UNCHANGED <<versions, server, repo, vid, remote, made, deleted, broken>>
         /\ gui[u].proc = "ended" /\ gui[u].next = "view_sync"
         /\ ProgramIs(u, "none", "nothing", FALSE)
         /\ \/ KeepsFiles
            \/ /\ local[u] # NoFile /\ local'[u] = Merged(u) /\ pivot'[u] = remote[u]
               /\ behind'[u] = IF local'[u] # Merge(PivotOf(u), local[u], remote[u]) THEN "lost"
                               ELSE IF behind[u] = "unmerged" THEN "no" ELSE behind[u]
  <1>1. /\ UNCHANGED <<versions, server, repo, vid, remote, made, deleted, broken>>
        /\ gui[u].proc = "ended" /\ gui[u].next = "view_sync"
        /\ Idle(u, [gui[u] EXCEPT !.updateCache = FALSE])
    BY Zenon DEF MergeListing, MergeFails, Pulled, AfterPull, fossil
  <1>2. /\ gui' \in [Users -> Gui] /\ \A w \in Users \ {u} : gui'[w] = gui[w]
        /\ ProgramIs(u, "none", "nothing", FALSE)
    BY Zenon, <1>1, GuiSteps
  <1>3. \/ UNCHANGED <<local, pivot, behind>>
        \/ /\ local[u] # NoFile /\ local' = [local EXCEPT ![u] = Merged(u)]
           /\ pivot' = [pivot EXCEPT ![u] = remote[u]]
           /\ behind' = [behind EXCEPT ![u] =
                IF local'[u] # Merge(PivotOf(u), local[u], remote[u]) THEN "lost"
                ELSE IF @ = "unmerged" THEN "no" ELSE @]
    BY Zenon DEF MergeListing, MergeFails, ToBeMerged, PivotAfterMerge
  <1>4. CASE UNCHANGED <<local, pivot, behind>>
    <2>1. KeepsFiles
      BY Zenon, <1>1, <1>4 DEF KeepsFiles
    <2> QED
      BY Zenon, <1>1, <1>2, <2>1, KeepsFilesType
  <1>5. CASE /\ local[u] # NoFile /\ local' = [local EXCEPT ![u] = Merged(u)]
             /\ pivot' = [pivot EXCEPT ![u] = remote[u]]
             /\ behind' = [behind EXCEPT ![u] =
                  IF local'[u] # Merge(PivotOf(u), local[u], remote[u]) THEN "lost"
                  ELSE IF @ = "unmerged" THEN "no" ELSE @]
    <2>1. Merged(u) \in Table /\ remote[u] \in Table
      BY Zenon, <1>5, PivotType, FilesType
    <2>2. /\ local' \in [Users -> Table \cup {NoFile}] /\ local'[u] = Merged(u)
          /\ \A w \in Users \ {u} : local'[w] = local[w]
      BY Zenon, <1>5, <2>1 DEF SyncType
    <2>3. /\ pivot' \in [Users -> Table \cup {NoFile}] /\ pivot'[u] = remote[u]
          /\ \A w \in Users \ {u} : pivot'[w] = pivot[w]
      BY Zenon, <1>5, <2>1 DEF SyncType
    <2>4. /\ behind' \in [Users -> {"no", "unmerged", "lost"}]
          /\ \A w \in Users \ {u} : behind'[w] = behind[w]
          /\ behind'[u] = IF local'[u] # Merge(PivotOf(u), local[u], remote[u]) THEN "lost"
                          ELSE IF behind[u] = "unmerged" THEN "no" ELSE behind[u]
      BY Zenon, <1>5 DEF SyncType
    <2>5. SyncType' /\ Others(u) /\ Grows
      <3>11. FilesTyped
        BY Zenon, <1>1, <1>2, <2>2, <2>3, <2>4 DEF FilesTyped, SyncType
      <3>12. OthersSame(u)
        BY Zenon, <1>1, <1>2, <2>2, <2>3, <2>4 DEF OthersSame
      <3> QED BY Zenon, <3>11, <3>12, FilesStep
    <2> QED
      BY Zenon, <1>1, <1>2, <1>5, <2>2, <2>3, <2>4, <2>5
  <1> QED
    BY Zenon, <1>3, <1>4, <1>5

(* The pivot becomes table, and what was not merged by then never will be. *)
PivotMoves(u, table) ==
  /\ pivot'[u] = table
  /\ behind'[u] = IF behind[u] = "unmerged" THEN "lost" ELSE behind[u]

LEMMA PivotMovesType ==
  ASSUME SyncType, NEW u \in Users, NEW table \in Table,
         pivot' = [pivot EXCEPT ![u] = table], Unmergeable(u)
  PROVE  /\ pivot' \in [Users -> Table \cup {NoFile}]
         /\ behind' \in [Users -> {"no", "unmerged", "lost"}]
         /\ \A w \in Users \ {u} : pivot'[w] = pivot[w] /\ behind'[w] = behind[w]
         /\ PivotMoves(u, table)
  BY Zenon DEF SyncType, Unmergeable, PivotMoves

LEMMA MergeUnreadDoes ==
  ASSUME SyncType, NEW u \in Users, MergeUnread(u)
  PROVE  /\ SyncType' /\ Others(u) /\ Grows
         /\ UNCHANGED <<versions, server, repo, vid, local, remote, made, deleted, broken>>
         /\ gui[u].proc = "ended" /\ gui[u].next = "view_sync" /\ local[u] # NoFile
         /\ ProgramIs(u, "none", "nothing", FALSE) /\ PivotMoves(u, remote[u])
  <1>1. /\ UNCHANGED <<versions, server, repo, vid, local, remote, made, deleted, broken>>
        /\ gui[u].proc = "ended" /\ gui[u].next = "view_sync" /\ local[u] # NoFile
        /\ Idle(u, [gui[u] EXCEPT !.updateCache = FALSE])
        /\ pivot' = [pivot EXCEPT ![u] = remote[u]] /\ Unmergeable(u)
    BY Zenon DEF MergeUnread, Pulled, ToBeMerged, AfterPull, fossil
  <1>2. /\ gui' \in [Users -> Gui] /\ \A w \in Users \ {u} : gui'[w] = gui[w]
        /\ ProgramIs(u, "none", "nothing", FALSE)
    BY Zenon, <1>1, GuiSteps
  <1>3. remote[u] \in Table
    BY Zenon, FilesType
  <1>4. SyncType' /\ Others(u) /\ Grows
    BY Zenon, <1>1, <1>2, <1>3, PivotMovesType, FilesStepType DEF SyncType
  <1> QED
    BY Zenon, <1>1, <1>2, <1>3, <1>4, PivotMovesType

LEMMA PushEndedDoes ==
  ASSUME SyncType, NEW u \in Users, PushEnded(u)
  PROVE  /\ SyncType' /\ Others(u) /\ Grows
         /\ UNCHANGED <<versions, server, repo, vid, local, remote, made, deleted, broken>>
         /\ gui[u].proc = "ended" /\ gui[u].next = "revertable"
         /\ ProgramIs(u, "none", "nothing", gui[u].updateCache)
         /\ IF gui[u].updateCache THEN PivotMoves(u, remote[u]) ELSE UNCHANGED <<pivot, behind>>
  <1>1. /\ UNCHANGED <<versions, server, repo, vid, local, remote, made, deleted, broken>>
        /\ gui[u].proc = "ended" /\ gui[u].next = "revertable" /\ Idle(u, gui[u])
        /\ IF gui[u].updateCache
           THEN pivot' = [pivot EXCEPT ![u] = remote[u]] /\ Unmergeable(u)
           ELSE UNCHANGED <<pivot, behind>>
    BY Zenon DEF PushEnded, updatePivots, fossil
  <1>2. /\ gui' \in [Users -> Gui] /\ \A w \in Users \ {u} : gui'[w] = gui[w]
        /\ ProgramIs(u, "none", "nothing", gui[u].updateCache)
    BY Zenon, <1>1, GuiSteps
  <1>3. remote[u] \in Table
    BY Zenon, FilesType
  <1>4. CASE gui[u].updateCache
    <2>1. /\ pivot' \in [Users -> Table \cup {NoFile}]
          /\ behind' \in [Users -> {"no", "unmerged", "lost"}]
          /\ \A w \in Users \ {u} : pivot'[w] = pivot[w] /\ behind'[w] = behind[w]
          /\ PivotMoves(u, remote[u])
      BY Zenon, <1>1, <1>3, <1>4, PivotMovesType
    <2>2. SyncType' /\ Others(u) /\ Grows
      BY Zenon, <1>1, <1>2, <1>4, <2>1, FilesStepType DEF SyncType
    <2> QED
      BY Zenon, <1>1, <1>2, <1>4, <2>1, <2>2
  <1>5. CASE ~gui[u].updateCache
    BY Zenon, <1>1, <1>2, <1>5, FilesStepType DEF SyncType
  <1> QED
    BY Zenon, <1>4, <1>5

LEMMA OperationFailedDoes ==
  ASSUME SyncType, NEW u \in Users, NEW choice \in RepushChoices, OperationFailed(u, choice)
  PROVE  /\ SyncType' /\ Others(u) /\ Grows
         /\ UNCHANGED <<versions, server, repo, vid, local, made, deleted, broken>>
         /\ gui[u].proc = "failed" /\ remote'[u] = CheckedOut(u)
         /\ \/ ProgramIs(u, "none", "nothing", gui[u].updateCache)
            \/ ProgramIs(u, "update", "view_sync", gui[u].updateCache)
            \/ ProgramIs(u, "push", gui[u].next, gui[u].updateCache) /\ gui[u].next # "view_sync"
         /\ IF gui[u].updateCache THEN PivotMoves(u, CheckedOut(u)) ELSE UNCHANGED <<pivot, behind>>
  <1>1. /\ UNCHANGED <<versions, server, repo, vid, local, made, deleted, broken>>
        /\ gui[u].proc = "failed" /\ remote' = [remote EXCEPT ![u] = CheckedOut(u)]
        /\ IF gui[u].updateCache
           THEN pivot' = [pivot EXCEPT ![u] = CheckedOut(u)] /\ Unmergeable(u)
           ELSE UNCHANGED <<pivot, behind>>
    BY Zenon DEF OperationFailed, updatePivots, PivotAfterRevert, Reverted, CheckedOut, fossil
  <1>2. \/ Idle(u, gui[u])
        \/ Syncing(u, gui[u])
        \/ Exits(u, "push") /\ Retry(u) = "push"
    BY Zenon DEF OperationFailed
  <1>3. Retry(u) = "push" => gui[u].next # "view_sync"
    BY Zenon DEF Retry
  <1>4. "push" \in {"push", "ended", "failed"}
    OBVIOUS
  <1>5. /\ gui' \in [Users -> Gui] /\ \A w \in Users \ {u} : gui'[w] = gui[w]
        /\ \/ ProgramIs(u, "none", "nothing", gui[u].updateCache)
           \/ ProgramIs(u, "update", "view_sync", gui[u].updateCache)
           \/ ProgramIs(u, "push", gui[u].next, gui[u].updateCache) /\ gui[u].next # "view_sync"
    BY Zenon, <1>2, <1>3, <1>4, GuiSteps
  <1>6. CheckedOut(u) \in Table
    BY Zenon, FilesType
  <1>7. /\ remote' \in [Users -> Table] /\ remote'[u] = CheckedOut(u)
        /\ \A w \in Users \ {u} : remote'[w] = remote[w]
    BY Zenon, <1>1, <1>6 DEF SyncType
  <1>8. CASE gui[u].updateCache
    <2>1. /\ pivot' \in [Users -> Table \cup {NoFile}]
          /\ behind' \in [Users -> {"no", "unmerged", "lost"}]
          /\ \A w \in Users \ {u} : pivot'[w] = pivot[w] /\ behind'[w] = behind[w]
          /\ PivotMoves(u, CheckedOut(u))
      BY Zenon, <1>1, <1>6, <1>8, PivotMovesType
    <2>2. /\ UNCHANGED <<versions, server, repo, vid, local, made, deleted, broken>>
          /\ gui' \in [Users -> Gui] /\ \A w \in Users \ {u} : gui'[w] = gui[w]
      BY Zenon, <1>1, <1>5
    <2>3. SyncType' /\ Others(u) /\ Grows
      BY Zenon, <1>7, <2>1, <2>2, FilesStepType DEF SyncType
    <2> QED
      BY Zenon, <1>1, <1>5, <1>7, <1>8, <2>1, <2>3
  <1>9. CASE ~gui[u].updateCache
    <2>1. UNCHANGED <<versions, server, repo, vid, local, made, deleted, broken, pivot, behind>>
      BY Zenon, <1>1, <1>9
    <2>2. FilesTyped
      BY Zenon, <1>5, <1>7, <2>1 DEF FilesTyped, SyncType
    <2>3. OthersSame(u)
      BY Zenon, <1>5, <1>7, <2>1 DEF OthersSame
    <2>4. SyncType' /\ Others(u) /\ Grows
      BY Zenon, <2>2, <2>3, FilesStep
    <2> QED
      BY Zenon, <1>1, <1>5, <1>7, <1>9, <2>1, <2>4
  <1> QED
    BY Zenon, <1>8, <1>9

LEMMA CrashInMergeDoes ==
  ASSUME SyncType, NEW u \in Users, CrashInMerge(u)
  PROVE  /\ SyncType' /\ Others(u) /\ Grows
         /\ UNCHANGED <<versions, server, repo, vid, remote, pivot, made, deleted>>
         /\ gui[u].proc = "ended" /\ gui[u].next = "view_sync"
         /\ ProgramIs(u, "none", "nothing", FALSE) /\ broken'[u] /\ behind'[u] = "lost"
         /\ local[u] # NoFile /\ local'[u] = Merged(u)
  <1>1. /\ UNCHANGED <<versions, server, repo, vid, remote, pivot, made, deleted>>
        /\ gui[u].proc = "ended" /\ gui[u].next = "view_sync" /\ Restart(u)
        /\ broken' = [broken EXCEPT ![u] = TRUE] /\ behind' = [behind EXCEPT ![u] = "lost"]
        /\ local[u] # NoFile /\ local' = [local EXCEPT ![u] = Merged(u)]
    BY Zenon DEF CrashInMerge, Pulled, ToBeMerged, fossil
  <1>2. /\ gui' \in [Users -> Gui] /\ \A w \in Users \ {u} : gui'[w] = gui[w]
        /\ ProgramIs(u, "none", "nothing", FALSE)
    BY Zenon, <1>1, GuiSteps
  <1>3. Merged(u) \in Table
    BY Zenon, <1>1, PivotType
  <1>4. /\ local' \in [Users -> Table \cup {NoFile}] /\ local'[u] = Merged(u)
        /\ \A w \in Users \ {u} : local'[w] = local[w]
    BY Zenon, <1>1, <1>3 DEF SyncType
  <1>5. /\ broken' \in [Users -> BOOLEAN] /\ broken'[u] /\ \A w \in Users \ {u} : broken'[w] = broken[w]
    BY Zenon, <1>1 DEF SyncType
  <1>6. /\ behind' \in [Users -> {"no", "unmerged", "lost"}] /\ behind'[u] = "lost"
        /\ \A w \in Users \ {u} : behind'[w] = behind[w]
    BY Zenon, <1>1 DEF SyncType
  <1>7. SyncType' /\ Others(u) /\ Grows
    <2>11. FilesTyped
      BY Zenon, <1>1, <1>2, <1>4, <1>5, <1>6 DEF FilesTyped, SyncType
    <2>12. OthersSame(u)
      BY Zenon, <1>1, <1>2, <1>4, <1>5, <1>6 DEF OthersSame
    <2> QED BY Zenon, <2>11, <2>12, FilesStep
  <1> QED
    BY Zenon, <1>1, <1>2, <1>4, <1>5, <1>6, <1>7

LEMMA NextDoes ==
  ASSUME SyncType, NEW u \in Users, UserNext(u) \/ ProgramNext(u)
  PROVE  SyncType' /\ Others(u) /\ Grows
  <1>1. CASE InsertRow(u)
    BY Zenon, <1>1, InsertRowDoes
  <1>2. ASSUME NEW r \in Rows, DeleteRow(u, r) PROVE SyncType' /\ Others(u) /\ Grows
    BY Zenon, <1>2, DeleteRowDoes
  <1>3. CASE OpenFile(u)
    BY Zenon, <1>3, OpenFileDoes
  <1>4. CASE OnSync(u)
    BY Zenon, <1>4, OnSyncDoes
  <1>5. ASSUME NEW import \in BOOLEAN, NEW describe \in BOOLEAN, OnCommit(u, import, describe)
        PROVE  SyncType' /\ Others(u) /\ Grows
    BY Zenon, <1>5, OnCommitDoes
  <1>6. CASE Leave(u) \/ Crash(u)
    BY Zenon, <1>6, RestartDoes
  <1>7. CASE CrashInMerge(u)
    BY Zenon, <1>7, CrashInMergeDoes
  <1>8. CASE Update(u)
    BY Zenon, <1>8, UpdateDoes
  <1>9. CASE Commit(u)
    BY Zenon, <1>9, CommitDoes
  <1>10. CASE PushRepository(u)
    BY Zenon, <1>10, PushRepositoryDoes
  <1>11. CASE FossilFails(u)
    BY Zenon, <1>11, FossilFailsDoes
  <1>12. CASE MergeListing(u) \/ MergeFails(u)
    BY Zenon, <1>12, MergeListingDoes
  <1>13. CASE MergeUnread(u)
    BY Zenon, <1>13, MergeUnreadDoes
  <1>14. CASE PushEnded(u)
    BY Zenon, <1>14, PushEndedDoes
  <1>15. ASSUME NEW choice \in RepushChoices, OperationFailed(u, choice)
         PROVE  SyncType' /\ Others(u) /\ Grows
    BY Zenon, <1>15, OperationFailedDoes
  <1> QED
    BY Zenon, <1>1, <1>2, <1>3, <1>4, <1>5, <1>6, <1>7, <1>8, <1>9, <1>10, <1>11, <1>12, <1>13,
       <1>14, <1>15 DEF UserNext, ProgramNext

LEMMA OthersKeep ==
  ASSUME SyncType, NEW u \in Users, Others(u), Grows, NEW w \in Users \ {u}
  PROVE  /\ CheckedOut(w)' = CheckedOut(w) /\ vid'[w] = vid[w] /\ repo'[w] = repo[w]
         /\ local'[w] = local[w] /\ remote'[w] = remote[w] /\ pivot'[w] = pivot[w]
         /\ gui'[w] = gui[w] /\ deleted'[w] = deleted[w] /\ behind'[w] = behind[w]
         /\ broken'[w] = broken[w]
  <1>1. vid[w] \in DOMAIN versions
    BY Zenon DEF SyncType
  <1> QED
    BY Zenon, <1>1 DEF Others, Grows, CheckedOut, TableOf
-----------------------------------------------------------------------------
LEMMA InitProc == Init => ProcInv
  <1> SUFFICES ASSUME Init, NEW u \in Users PROVE ProcOK(u)
    BY Zenon DEF ProcInv
  <1>1. gui[u] = Started /\ vid[u] = 1 /\ repo[u] = {1}
    BY Zenon DEF Init
  <1> QED
    BY <1>1 DEF ProcOK, Started

LEMMA NextProc ==
  ASSUME SyncType, ProcInv, NEW u \in Users, UserNext(u) \/ ProgramNext(u)
  PROVE  ProcInv'
  <1>1. SyncType' /\ Others(u) /\ Grows
    BY Zenon, NextDoes
  <1>2. ASSUME NEW w \in Users \ {u} PROVE ProcOK(w)'
    <2>1. ProcOK(w)
      BY Zenon DEF ProcInv
    <2>2. server \subseteq server'
      BY Zenon, <1>1 DEF Grows
    <2> QED
      BY Zenon, <1>1, <2>1, <2>2, OthersKeep DEF ProcOK
  <1>3. SUFFICES ProcOK(u)'
    BY Zenon, <1>2 DEF ProcInv
  <1>4. ProcOK(u)
    BY Zenon DEF ProcInv
  <1>5. UNCHANGED <<versions, vid>> => CheckedOut(u)' = CheckedOut(u)
    BY Zenon DEF CheckedOut, TableOf
  <1>6. CASE InsertRow(u)
    <2>1. UNCHANGED <<versions, server, repo, vid, remote, gui>>
      BY Zenon, <1>6, InsertRowDoes
    <2> QED
      BY Zenon, <1>4, <1>5, <2>1 DEF ProcOK
  <1>7. ASSUME NEW r \in Rows, DeleteRow(u, r) PROVE ProcOK(u)'
    <2>1. UNCHANGED <<versions, server, repo, vid, remote, gui>>
      BY Zenon, <1>7, DeleteRowDoes
    <2> QED
      BY Zenon, <1>4, <1>5, <2>1 DEF ProcOK
  <1>8. CASE OpenFile(u)
    BY Zenon, <1>4, <1>5, <1>8, OpenFileDoes DEF ProcOK, ProgramIs
  <1>9. CASE OnSync(u)
    BY Zenon, <1>4, <1>5, <1>9, OnSyncDoes DEF ProcOK, ProgramIs, KeepsFiles
  <1>10. ASSUME NEW import \in BOOLEAN, NEW describe \in BOOLEAN, OnCommit(u, import, describe)
         PROVE  ProcOK(u)'
    BY Zenon, <1>4, <1>5, <1>10, OnCommitDoes DEF ProcOK
  <1>11. CASE Leave(u) \/ Crash(u)
    BY Zenon, <1>4, <1>5, <1>11, RestartDoes DEF ProcOK, ProgramIs, KeepsFiles
  <1>12. CASE CrashInMerge(u)
    BY Zenon, <1>4, <1>5, <1>12, CrashInMergeDoes DEF ProcOK, ProgramIs
  <1>13. CASE Update(u)
    <2>1. gui[u].proc = "update" /\ gui[u].next = "view_sync" /\ vid[u] \in repo'[u]
      BY Zenon, <1>4, <1>13, UpdateDoes DEF ProcOK
    <2>2. /\ gui'[u].proc \in {"failed", "ended"} /\ gui'[u].next = "view_sync"
          /\ vid'[u] \in repo'[u]
      BY Zenon, <1>13, <2>1, UpdateDoes DEF ProgramIs, KeepsFiles, MovesTo
    <2> QED
      BY Zenon, <2>2 DEF ProcOK
  <1>14. CASE Commit(u)
    <2>1. gui[u].proc = "commit" /\ gui[u].next = "revertable" /\ vid[u] \in repo'[u]
          /\ remote' = remote
      BY Zenon, <1>4, <1>14, CommitDoes DEF ProcOK
    <2>2. CASE KeepsFiles /\ ProgramIs(u, "failed", gui[u].next, gui[u].updateCache)
      BY Zenon, <2>1, <2>2 DEF ProcOK, ProgramIs, KeepsFiles
    <2>3. CASE Adds(u)
      <3>1. CheckedOut(u)' = remote[u]
        BY <2>3 DEF Adds, CheckedOut, TableOf
      <3>2. gui'[u].proc = "push" /\ gui'[u].next = "revertable" /\ vid'[u] \in repo'[u]
        BY Zenon, <2>1, <2>3 DEF Adds, ProgramIs
      <3> QED
        BY Zenon, <2>1, <3>1, <3>2 DEF ProcOK
    <2> QED
      BY Zenon, <1>14, <2>2, <2>3, CommitDoes
  <1>15. CASE PushRepository(u)
    BY Zenon, <1>4, <1>5, <1>15, PushRepositoryDoes DEF ProcOK, ProgramIs, KeepsFiles
  <1>16. CASE FossilFails(u)
    BY Zenon, <1>4, <1>5, <1>16, FossilFailsDoes DEF ProcOK, ProgramIs, KeepsFiles
  <1>17. CASE MergeListing(u) \/ MergeFails(u)
    BY Zenon, <1>4, <1>5, <1>17, MergeListingDoes DEF ProcOK, ProgramIs
  <1>18. CASE MergeUnread(u)
    BY Zenon, <1>4, <1>5, <1>18, MergeUnreadDoes DEF ProcOK, ProgramIs
  <1>19. CASE PushEnded(u)
    BY Zenon, <1>4, <1>5, <1>19, PushEndedDoes DEF ProcOK, ProgramIs
  <1>20. ASSUME NEW choice \in RepushChoices, OperationFailed(u, choice) PROVE ProcOK(u)'
    BY Zenon, <1>4, <1>5, <1>20, OperationFailedDoes DEF ProcOK, ProgramIs
  <1> QED
    BY Zenon, <1>6, <1>7, <1>8, <1>9, <1>10, <1>11, <1>12, <1>13, <1>14, <1>15, <1>16, <1>17,
       <1>18, <1>19, <1>20 DEF UserNext, ProgramNext

-----------------------------------------------------------------------------
ProgramInv == SyncType /\ ProcInv

LEMMA ProgramInvariant == Spec => []ProgramInv
  <1>1. Init => ProgramInv
    BY Zenon, InitType, InitProc DEF ProgramInv
  <1>2. ProgramInv /\ [Next]_vars => ProgramInv'
    <2>1. ASSUME ProgramInv, NEW u \in Users, UserNext(u) \/ ProgramNext(u) PROVE ProgramInv'
      BY Zenon, <2>1, NextDoes, NextProc DEF ProgramInv
    <2>2. ASSUME ProgramInv, UNCHANGED vars PROVE ProgramInv'
      <3>1. UNCHANGED <<versions, server, repo, vid, local, remote, pivot, gui, made, deleted,
                        behind, broken>>
        BY Zenon, <2>2 DEF vars, fossil, files, ghosts
      <3>2. SyncType'
        BY Zenon, <2>2, <3>1 DEF ProgramInv, SyncType
      <3>3. ProcInv'
        BY Zenon, <2>2, <3>1 DEF ProgramInv, ProcInv, ProcOK, CheckedOut, TableOf
      <3> QED
        BY Zenon, <3>2, <3>3 DEF ProgramInv
    <2> QED
      BY Zenon, <2>1, <2>2 DEF Next
  <1> QED
    BY <1>1, <1>2, PTL DEF Spec

(* When OnTerminate reports that a push has ended, the version checked out *)
(* is on the server, and it becomes the pivot if local was imported.       *)
THEOREM PushIsShared == Spec => SuccessIsShared
  <1>1. ASSUME ProgramInv, [Next]_vars
        PROVE  [\A u \in Users : gui[u].proc = "ended" /\ PushEnded(u) =>
                  /\ vid[u] \in server
                  /\ gui[u].updateCache => pivot'[u] = TableOf(vid[u])]_vars
    <2> SUFFICES ASSUME NEW u \in Users, PushEnded(u)
                 PROVE  vid[u] \in server /\ (gui[u].updateCache => pivot'[u] = TableOf(vid[u]))
      BY Zenon
    <2>1. SyncType /\ ProcOK(u)
      BY Zenon, <1>1 DEF ProgramInv, ProcInv
    <2>2. /\ gui[u].proc = "ended" /\ gui[u].next = "revertable"
          /\ gui[u].updateCache => pivot'[u] = remote[u]
      BY Zenon, <2>1, PushEndedDoes DEF PivotMoves
    <2>3. gui[u].proc \in {"push", "ended"}
      BY Zenon, <2>2
    <2> QED
      BY Zenon, <2>1, <2>2, <2>3 DEF ProcOK, CheckedOut
  <1> QED
    BY <1>1, ProgramInvariant, PTL DEF Spec, SuccessIsShared

-----------------------------------------------------------------------------
(***************************************************************************)
(* No row is lost in a push or a pull.                                     *)
(***************************************************************************)
(* Between the files of a user who has missed no merge only rows that the  *)
(* user deleted are missing.                                               *)
Misses(u, from, to) == Has(from) \ Has(to) \subseteq deleted[u]

FilesOK(u) ==
  /\ pivot[u] # NoFile \/ gui[u].updateCache => local[u] # NoFile
  /\ behind[u] # "lost" => Misses(u, CheckedOut(u), remote[u])
  /\ behind[u] = "no" /\ local[u] # NoFile =>
       Misses(u, CheckedOut(u), local[u]) /\ Misses(u, remote[u], local[u])
  /\ behind[u] # "lost" /\ pivot[u] # NoFile => Misses(u, pivot[u], local[u])

FilesInv == CommitsKeepRows /\ \A u \in Users : FilesOK(u)

(* Unless something was broken off the working copy is the version checked *)
(* out, but for an import that is being committed; and what this version   *)
(* lacks of the pivot was deleted by someone.                              *)
AllMerged == \A v \in DOMAIN versions : versions[v].behind = "no"
Deleted == UNION {deleted[w] : w \in Users}

QuietOK(u) ==
  ~broken[u] =>
    /\ gui[u].proc \notin {"commit", "failed"} => remote[u] = CheckedOut(u)
    /\ AllMerged /\ pivot[u] # NoFile => Has(pivot[u]) \ Has(CheckedOut(u)) \subseteq Deleted

QuietInv == \A u \in Users : QuietOK(u)

-----------------------------------------------------------------------------
(* What a merge leaves out of the table that it merges was in the pivot    *)
(* and not in local.                                                       *)
LEMMA MergeMisses ==
  ASSUME NEW p \in Table, NEW l \in Table, NEW x \in Table, NEW D, Has(p) \ Has(l) \subseteq D
  PROVE  Has(x) \ Has(Merge(p, l, x)) \subseteq D
  <1> SUFFICES ASSUME NEW r \in Rows, x[r] > 0, ~(Merge(p, l, x)[r] > 0)
               PROVE  r \in D
    BY Zenon DEF Has
  <1>1. p[r] > 0 /\ ~(l[r] > 0)
    BY Zenon, MergeCell
  <1> QED
    BY Zenon, <1>1 DEF Has

LEMMA InitFiles == Init => FilesInv
  <1> SUFFICES ASSUME Init PROVE FilesInv
    OBVIOUS
  <1>1. PICK adder \in Users :
          /\ versions = <<[parent |-> NoParent, table |-> FirstTable,
                           by |-> adder, behind |-> "no"]>>
          /\ local = [u \in Users |-> IF u = adder THEN FirstTable ELSE NoFile]
    BY Zenon DEF Init
  <1>2. DOMAIN versions = {1} /\ versions[1].parent = NoParent /\ versions[1].table = FirstTable
    BY <1>1
  <1>3. CommitsKeepRows
    BY Zenon, <1>2 DEF CommitsKeepRows
  <1>4. ASSUME NEW u \in Users PROVE FilesOK(u)
    <2>1. /\ pivot[u] = NoFile /\ ~gui[u].updateCache /\ CheckedOut(u) = FirstTable
          /\ remote[u] = FirstTable /\ (local[u] # NoFile => local[u] = FirstTable)
      BY Zenon, <1>1, <1>2 DEF Init, CheckedOut, TableOf, Started
    <2> QED
      BY Zenon, <2>1 DEF FilesOK, Misses
  <1> QED
    BY Zenon, <1>3, <1>4 DEF FilesInv

(* The versions stay as they should if none is made.                       *)
LEMMA SameVersions ==
  ASSUME SyncType, CommitsKeepRows, versions' = versions,
         \A w \in Users : deleted[w] \subseteq deleted'[w]
  PROVE  CommitsKeepRows'
  <1> SUFFICES ASSUME NEW v \in DOMAIN versions, versions[v].parent # NoParent,
                      versions[v].behind = "no"
               PROVE  Has(TableOf(versions[v].parent)) \ Has(TableOf(v))
                        \subseteq deleted'[versions[v].by]
    BY Zenon DEF CommitsKeepRows, TableOf
  <1>1. versions[v].by \in Users
    BY Zenon, VersionType
  <1> QED
    BY Zenon, <1>1 DEF CommitsKeepRows

LEMMA NewVersion ==
  ASSUME SyncType, CommitsKeepRows, NEW u \in Users, Grows, Adds(u), deleted' = deleted,
         behind[u] # "lost" => Misses(u, CheckedOut(u), remote[u])
  PROVE  CommitsKeepRows'
  <1> DEFINE nvid == Len(versions) + 1
  <1> SUFFICES ASSUME NEW v \in DOMAIN versions', versions'[v].parent # NoParent,
                      versions'[v].behind = "no"
               PROVE  Has(versions'[versions'[v].parent].table) \ Has(versions'[v].table)
                        \subseteq deleted[versions'[v].by]
    BY Zenon DEF CommitsKeepRows, TableOf, Has
  <1>1. \A w \in DOMAIN versions : versions'[w] = versions[w]
    BY Zenon DEF Grows
  <1>2. CASE v \in DOMAIN versions
    <2>1. versions[v].parent \in DOMAIN versions
      BY Zenon, <1>1, <1>2, VersionType
    <2> QED
      BY Zenon, <1>1, <1>2, <2>1 DEF CommitsKeepRows, TableOf
  <1>3. CASE v = nvid
    <2>1. /\ versions'[v].parent = vid[u] /\ versions'[v].table = remote[u]
          /\ versions'[v].by = u /\ versions'[v].behind = behind[u]
      BY <1>3 DEF Adds
    <2>2. vid[u] \in DOMAIN versions
      BY Zenon, FilesType
    <2>3. versions'[vid[u]].table = CheckedOut(u)
      BY Zenon, <1>1, <2>2 DEF CheckedOut, TableOf
    <2>4. behind[u] # "lost"
      BY Zenon, <2>1
    <2> QED
      BY Zenon, <2>1, <2>3, <2>4 DEF Misses
  <1>4. DOMAIN versions' = (DOMAIN versions) \cup {nvid}
    BY Zenon DEF Adds
  <1> QED
    BY Zenon, <1>2, <1>3, <1>4

LEMMA OthersFiles ==
  ASSUME SyncType, FilesInv, NEW u \in Users, Others(u), Grows, NEW w \in Users \ {u}
  PROVE  FilesOK(w)'
  <1>1. FilesOK(w)
    BY Zenon DEF FilesInv
  <1>2. /\ CheckedOut(w)' = CheckedOut(w) /\ local'[w] = local[w] /\ remote'[w] = remote[w]
        /\ pivot'[w] = pivot[w] /\ gui'[w] = gui[w] /\ deleted'[w] = deleted[w]
        /\ behind'[w] = behind[w]
    BY Zenon, OthersKeep
  <1> QED
    BY Zenon, <1>1, <1>2 DEF FilesOK, Misses, Has

(* No version is made and the files are the same: only updateCache counts. *)
LEMMA SameFiles ==
  ASSUME FilesInv, NEW u \in Users, KeepsFiles, gui'[u].updateCache => local[u] # NoFile
  PROVE  FilesOK(u)'
  <1>1. FilesOK(u)
    BY Zenon DEF FilesInv
  <1>2. CheckedOut(u)' = CheckedOut(u)
    BY Zenon DEF KeepsFiles, CheckedOut, TableOf
  <1> QED
    BY Zenon, <1>1, <1>2 DEF FilesOK, Misses, Has, KeepsFiles

LEMMA EditFiles ==
  ASSUME SyncType, FilesInv, NEW u \in Users, UNCHANGED <<versions, vid, remote, pivot, gui, behind>>,
         local[u] # NoFile, local'[u] \in Table, deleted[u] \subseteq deleted'[u],
         Has(local[u]) \ Has(local'[u]) \subseteq deleted'[u]
  PROVE  FilesOK(u)'
  <1>1. FilesOK(u)
    BY Zenon DEF FilesInv
  <1>2. CheckedOut(u)' = CheckedOut(u)
    BY Zenon DEF CheckedOut, TableOf
  <1>3. local'[u] # NoFile
    BY Zenon, NoFileIsNone DEF Table
  <1>4. /\ behind[u] # "lost" => Has(CheckedOut(u)) \ Has(remote[u]) \subseteq deleted'[u]
        /\ behind[u] = "no" => /\ Has(CheckedOut(u)) \ Has(local'[u]) \subseteq deleted'[u]
                               /\ Has(remote[u]) \ Has(local'[u]) \subseteq deleted'[u]
        /\ behind[u] # "lost" /\ pivot[u] # NoFile =>
             Has(pivot[u]) \ Has(local'[u]) \subseteq deleted'[u]
    BY Zenon, <1>1 DEF FilesOK, Misses
  <1> QED
    BY Zenon, <1>2, <1>3, <1>4 DEF FilesOK, Misses, Has

LEMMA PivotFiles ==
  ASSUME SyncType, FilesInv, NEW u \in Users, UNCHANGED <<versions, vid, local, deleted>>,
         remote'[u] = remote[u] \/ remote'[u] = CheckedOut(u),
         gui'[u].updateCache => local[u] # NoFile, local[u] # NoFile,
         PivotMoves(u, remote[u]) \/ PivotMoves(u, CheckedOut(u))
  PROVE  FilesOK(u)'
  <1>1. FilesOK(u)
    BY Zenon DEF FilesInv
  <1>2. CheckedOut(u)' = CheckedOut(u)
    BY Zenon DEF CheckedOut, TableOf
  <1>3. behind'[u] # "lost" => behind'[u] = behind[u] /\ behind[u] = "no"
    BY Zenon DEF PivotMoves, SyncType
  <1>4. pivot'[u] = remote[u] \/ pivot'[u] = CheckedOut(u)
    BY Zenon DEF PivotMoves
  <1> QED
    BY Zenon, <1>1, <1>2, <1>3, <1>4 DEF FilesOK, Misses, Has

LEMMA UpdateFiles ==
  ASSUME SyncType, FilesInv, NEW u \in Users, Update(u)
  PROVE  FilesOK(u)'
  <1>1. FilesOK(u)
    BY Zenon DEF FilesInv
  <1>2. UNCHANGED <<versions, local, pivot, deleted>>
    BY Zenon, UpdateDoes
  <1>3. CASE KeepsFiles /\ ProgramIs(u, "failed", gui[u].next, gui[u].updateCache)
    <2>1. gui'[u].updateCache => local[u] # NoFile
      BY Zenon, <1>1, <1>3 DEF FilesOK, ProgramIs
    <2> QED
      BY Zenon, <1>3, <2>1, SameFiles
  <1>4. ASSUME NEW tid \in DOMAIN versions, MovesTo(u, tid) PROVE FilesOK(u)'
    <2>1. CheckedOut(u)' = TableOf(tid) /\ gui'[u].updateCache = gui[u].updateCache
      BY Zenon, <1>2, <1>4 DEF MovesTo, CheckedOut, TableOf, ProgramIs
    <2>2. CASE TableOf(tid) = CheckedOut(u) /\ UNCHANGED <<remote, behind>>
      BY Zenon, <1>1, <1>2, <2>1, <2>2 DEF FilesOK, Misses, Has
    <2>3. CASE /\ remote'[u] = IF remote[u] = CheckedOut(u) THEN TableOf(tid)
                               ELSE Merge(CheckedOut(u), remote[u], TableOf(tid))
               /\ behind'[u] = IF local[u] # NoFile /\ behind[u] = "no" THEN "unmerged" ELSE behind[u]
      <3>1. remote[u] \in Table /\ CheckedOut(u) \in Table /\ TableOf(tid) \in Table
        BY Zenon, FilesType
      <3>2. behind'[u] # "lost" => behind[u] # "lost"
        BY Zenon, <2>3 DEF SyncType
      <3>3. behind[u] # "lost" => Has(TableOf(tid)) \ Has(remote'[u]) \subseteq deleted[u]
        <4>1. CASE remote[u] = CheckedOut(u)
          BY Zenon, <2>3, <4>1
        <4>2. CASE remote[u] # CheckedOut(u)
          <5> SUFFICES ASSUME behind[u] # "lost"
                       PROVE  Has(TableOf(tid)) \ Has(remote'[u]) \subseteq deleted[u]
            OBVIOUS
          <5>1. Has(CheckedOut(u)) \ Has(remote[u]) \subseteq deleted[u]
            BY Zenon, <1>1 DEF FilesOK, Misses
          <5> QED
            BY Zenon, <2>3, <3>1, <4>2, <5>1, MergeMisses
        <4> QED
          BY Zenon, <4>1, <4>2
      <3>4. behind'[u] = "no" => local[u] = NoFile
        BY Zenon, <2>3
      <3> QED
        BY Zenon, <1>1, <1>2, <2>1, <3>2, <3>3, <3>4 DEF FilesOK, Misses, Has
    <2> QED
      BY Zenon, <1>4, <2>2, <2>3 DEF MovesTo
  <1> QED
    BY Zenon, <1>3, <1>4, UpdateDoes

LEMMA MergeFiles ==
  ASSUME SyncType, FilesInv, NEW u \in Users, MergeListing(u) \/ MergeFails(u)
  PROVE  FilesOK(u)'
  <1>1. FilesOK(u)
    BY Zenon DEF FilesInv
  <1>2. /\ UNCHANGED <<versions, vid, remote, deleted>> /\ ~gui'[u].updateCache
    BY Zenon, MergeListingDoes DEF ProgramIs
  <1>3. CASE KeepsFiles
    BY Zenon, <1>2, <1>3, SameFiles
  <1>4. CASE /\ local[u] # NoFile /\ local'[u] = Merged(u) /\ pivot'[u] = remote[u]
             /\ behind'[u] = IF local'[u] # Merge(PivotOf(u), local[u], remote[u]) THEN "lost"
                             ELSE IF behind[u] = "unmerged" THEN "no" ELSE behind[u]
    <2>1. /\ local[u] \in Table /\ remote[u] \in Table /\ PivotOf(u) \in Table
          /\ Merged(u) \in Table /\ Merged(u) # NoFile
      BY Zenon, <1>4, FilesType, PivotType, NoFileIsNone DEF Table
    <2>2. CheckedOut(u)' = CheckedOut(u)
      BY Zenon, <1>2 DEF CheckedOut, TableOf
    <2>3. CASE behind'[u] = "lost"
      BY Zenon, <1>4, <2>1, <2>2, <2>3 DEF FilesOK
    <2>4. CASE behind'[u] # "lost"
      <3>1. behind[u] # "lost" /\ local'[u] = Merge(PivotOf(u), local[u], remote[u])
        BY Zenon, <1>4, <2>4
      <3>2. Has(PivotOf(u)) \ Has(local[u]) \subseteq deleted[u]
        BY Zenon, <1>1, <3>1 DEF FilesOK, Misses, PivotOf
      <3>3. Has(remote[u]) \ Has(local'[u]) \subseteq deleted[u]
        BY Zenon, <2>1, <3>1, <3>2, MergeMisses
      <3>4. Has(CheckedOut(u)) \ Has(remote[u]) \subseteq deleted[u]
        BY Zenon, <1>1, <3>1 DEF FilesOK, Misses
      <3>5. Has(CheckedOut(u)) \ Has(local'[u]) \subseteq deleted[u]
        BY Zenon, <3>3, <3>4
      <3> QED
        BY Zenon, <1>2, <1>4, <2>1, <2>2, <3>3, <3>4, <3>5 DEF FilesOK, Misses, Has
    <2> QED
      BY Zenon, <2>3, <2>4
  <1> QED
    BY Zenon, <1>3, <1>4, MergeListingDoes

LEMMA OnCommitFiles ==
  ASSUME SyncType, FilesInv, NEW u \in Users, NEW import \in BOOLEAN, NEW describe \in BOOLEAN,
         OnCommit(u, import, describe)
  PROVE  FilesOK(u)'
  <1>1. FilesOK(u)
    BY Zenon DEF FilesInv
  <1>2. /\ UNCHANGED <<versions, vid, local, pivot, deleted>> /\ (import => local[u] # NoFile)
        /\ remote'[u] = IF import THEN local[u] ELSE remote[u]
        /\ behind'[u] = IF import /\ behind[u] = "unmerged" THEN "lost" ELSE behind[u]
        /\ gui'[u].updateCache = import
    BY Zenon, OnCommitDoes
  <1>3. CheckedOut(u)' = CheckedOut(u)
    BY Zenon, <1>2 DEF CheckedOut, TableOf
  <1>4. CASE import
    <2>1. behind'[u] # "lost" => behind'[u] = "no" /\ behind[u] = "no"
      BY Zenon, <1>2, <1>4 DEF SyncType
    <2> QED
      BY Zenon, <1>1, <1>2, <1>3, <1>4, <2>1 DEF FilesOK, Misses, Has
  <1>5. CASE ~import
    BY Zenon, <1>1, <1>2, <1>3, <1>5 DEF FilesOK, Misses, Has
  <1> QED
    BY Zenon, <1>4, <1>5

LEMMA NextFiles ==
  ASSUME SyncType, FilesInv, NEW u \in Users, UserNext(u) \/ ProgramNext(u)
  PROVE  FilesInv'
  <1>1. Others(u) /\ Grows
    BY Zenon, NextDoes
  <1>2. \A w \in Users \ {u} : FilesOK(w)'
    BY Zenon, <1>1, OthersFiles
  <1>3. SUFFICES CommitsKeepRows' /\ FilesOK(u)'
    BY Zenon, <1>2 DEF FilesInv
  <1>4. FilesOK(u) /\ CommitsKeepRows
    BY Zenon DEF FilesInv
  <1>5. versions' = versions /\ deleted' = deleted => CommitsKeepRows'
    BY Zenon, <1>4, SameVersions
  <1>6. gui'[u].updateCache = gui[u].updateCache => (gui'[u].updateCache => local[u] # NoFile)
    BY Zenon, <1>4 DEF FilesOK
  <1>7. CASE InsertRow(u)
    <2>1. /\ UNCHANGED <<versions, vid, remote, pivot, gui, behind, deleted>>
          /\ local[u] # NoFile /\ local'[u] \in Table /\ made + 1 \in Rows
          /\ local'[u] = [local[u] EXCEPT ![made + 1] = 1]
      BY Zenon, <1>7, InsertRowDoes
    <2>2. local[u] \in Table
      BY Zenon, <2>1, FilesType
    <2>3. Has(local[u]) \ Has(local'[u]) \subseteq deleted'[u]
      BY <2>1, <2>2 DEF Has, Table
    <2> QED
      BY Zenon, <1>5, <2>1, <2>3, EditFiles
  <1>8. ASSUME NEW r \in Rows, DeleteRow(u, r) PROVE CommitsKeepRows' /\ FilesOK(u)'
    <2>1. /\ UNCHANGED <<versions, vid, remote, pivot, gui, behind>>
          /\ local[u] # NoFile /\ local'[u] \in Table /\ deleted'[u] = deleted[u] \cup {r}
          /\ local'[u] = [local[u] EXCEPT ![r] = 0]
      BY Zenon, <1>8, DeleteRowDoes
    <2>2. local[u] \in Table
      BY Zenon, <2>1, FilesType
    <2>3. Has(local[u]) \ Has(local'[u]) \subseteq deleted'[u] /\ deleted[u] \subseteq deleted'[u]
      BY Zenon, <2>1, <2>2 DEF Has, Table
    <2>4. \A w \in Users : deleted[w] \subseteq deleted'[w]
      BY Zenon, <1>1, <2>3 DEF Others
    <2>5. CommitsKeepRows'
      BY Zenon, <1>4, <2>1, <2>4, SameVersions
    <2> QED
      BY Zenon, <2>1, <2>3, <2>5, EditFiles
  <1>9. CASE OpenFile(u)
    <2>1. /\ UNCHANGED <<versions, vid, remote, deleted, behind>>
          /\ local'[u] = remote[u] /\ pivot'[u] = remote[u]
      BY Zenon, <1>9, OpenFileDoes
    <2>2. remote[u] # NoFile
      BY Zenon, FilesType, NoFileIsNone DEF Table
    <2>3. CheckedOut(u)' = CheckedOut(u)
      BY Zenon, <2>1 DEF CheckedOut, TableOf
    <2>4. FilesOK(u)'
      BY Zenon, <1>4, <2>1, <2>2, <2>3 DEF FilesOK, Misses, Has
    <2> QED
      BY Zenon, <1>5, <2>1, <2>4
  <1>10. CASE OnSync(u)
    <2>1. KeepsFiles /\ gui'[u].updateCache = gui[u].updateCache
      BY Zenon, <1>10, OnSyncDoes DEF ProgramIs
    <2> QED
      BY Zenon, <1>5, <1>6, <2>1, SameFiles DEF KeepsFiles
  <1>11. ASSUME NEW import \in BOOLEAN, NEW describe \in BOOLEAN, OnCommit(u, import, describe)
         PROVE  CommitsKeepRows' /\ FilesOK(u)'
    <2>1. UNCHANGED <<versions, deleted>>
      BY Zenon, <1>11, OnCommitDoes
    <2> QED
      BY Zenon, <1>5, <1>11, <2>1, OnCommitFiles
  <1>12. CASE Leave(u) \/ Crash(u)
    <2>1. KeepsFiles /\ ~gui'[u].updateCache
      BY Zenon, <1>12, RestartDoes DEF ProgramIs
    <2> QED
      BY Zenon, <1>5, <2>1, SameFiles DEF KeepsFiles
  <1>13. CASE CrashInMerge(u)
    <2>1. /\ UNCHANGED <<versions, deleted>> /\ behind'[u] = "lost" /\ ~gui'[u].updateCache
          /\ local[u] # NoFile /\ local'[u] = Merged(u)
      BY Zenon, <1>13, CrashInMergeDoes DEF ProgramIs
    <2>2. Merged(u) # NoFile
      BY Zenon, <2>1, PivotType, NoFileIsNone DEF Table
    <2>3. FilesOK(u)'
      BY Zenon, <2>1, <2>2 DEF FilesOK
    <2> QED
      BY Zenon, <1>5, <2>1, <2>3
  <1>14. CASE Update(u)
    <2>1. UNCHANGED <<versions, deleted>>
      BY Zenon, <1>14, UpdateDoes
    <2> QED
      BY Zenon, <1>5, <1>14, <2>1, UpdateFiles
  <1>15. CASE Commit(u)
    <2>1. UNCHANGED <<local, remote, pivot, deleted, behind>>
      BY Zenon, <1>15, CommitDoes
    <2>2. CASE KeepsFiles /\ ProgramIs(u, "failed", gui[u].next, gui[u].updateCache)
      BY Zenon, <1>5, <1>6, <2>2, SameFiles DEF KeepsFiles, ProgramIs
    <2>3. CASE Adds(u)
      <3>1. CommitsKeepRows'
        BY Zenon, <1>1, <1>4, <2>1, <2>3, NewVersion DEF FilesOK
      <3>2. CheckedOut(u)' = remote[u] /\ gui'[u].updateCache = gui[u].updateCache
        BY <2>3 DEF Adds, CheckedOut, TableOf, ProgramIs
      <3>3. FilesOK(u)'
        BY Zenon, <1>4, <2>1, <3>2 DEF FilesOK, Misses, Has
      <3> QED
        BY Zenon, <3>1, <3>3
    <2> QED
      BY Zenon, <1>15, <2>2, <2>3, CommitDoes
  <1>16. CASE PushRepository(u)
    <2>1. KeepsFiles /\ gui'[u].updateCache = gui[u].updateCache
      BY Zenon, <1>16, PushRepositoryDoes DEF ProgramIs
    <2> QED
      BY Zenon, <1>5, <1>6, <2>1, SameFiles DEF KeepsFiles
  <1>17. CASE FossilFails(u)
    <2>1. KeepsFiles /\ gui'[u].updateCache = gui[u].updateCache
      BY Zenon, <1>17, FossilFailsDoes DEF ProgramIs
    <2> QED
      BY Zenon, <1>5, <1>6, <2>1, SameFiles DEF KeepsFiles
  <1>18. CASE MergeListing(u) \/ MergeFails(u)
    <2>1. UNCHANGED <<versions, deleted>>
      BY Zenon, <1>18, MergeListingDoes
    <2> QED
      BY Zenon, <1>5, <1>18, <2>1, MergeFiles
  <1>19. CASE MergeUnread(u)
    <2>1. /\ UNCHANGED <<versions, vid, local, remote, deleted>> /\ local[u] # NoFile
          /\ PivotMoves(u, remote[u])
      BY Zenon, <1>19, MergeUnreadDoes
    <2> QED
      BY Zenon, <1>5, <2>1, PivotFiles
  <1>20. CASE PushEnded(u)
    <2>1. /\ UNCHANGED <<versions, vid, local, remote, made, deleted>>
          /\ gui'[u].updateCache = gui[u].updateCache
          /\ IF gui[u].updateCache THEN PivotMoves(u, remote[u]) ELSE UNCHANGED <<pivot, behind>>
      BY Zenon, <1>20, PushEndedDoes DEF ProgramIs
    <2>2. CASE gui[u].updateCache
      BY Zenon, <1>4, <1>5, <2>1, <2>2, PivotFiles DEF FilesOK
    <2>3. CASE ~gui[u].updateCache
      BY Zenon, <1>5, <2>1, <2>3, SameFiles DEF KeepsFiles
    <2> QED
      BY Zenon, <2>2, <2>3
  <1>21. ASSUME NEW choice \in RepushChoices, OperationFailed(u, choice)
         PROVE  CommitsKeepRows' /\ FilesOK(u)'
    <2>1. /\ UNCHANGED <<versions, vid, local, deleted>> /\ remote'[u] = CheckedOut(u)
          /\ gui'[u].updateCache = gui[u].updateCache
          /\ IF gui[u].updateCache THEN PivotMoves(u, CheckedOut(u)) ELSE UNCHANGED <<pivot, behind>>
      BY Zenon, <1>21, OperationFailedDoes DEF ProgramIs
    <2>2. CASE gui[u].updateCache
      BY Zenon, <1>4, <1>5, <2>1, <2>2, PivotFiles DEF FilesOK
    <2>3. CASE ~gui[u].updateCache
      <3>1. CheckedOut(u)' = CheckedOut(u)
        BY Zenon, <2>1 DEF CheckedOut, TableOf
      <3>2. FilesOK(u)'
        BY Zenon, <1>4, <2>1, <2>3, <3>1 DEF FilesOK, Misses, Has
      <3> QED
        BY Zenon, <1>5, <2>1, <3>2
    <2> QED
      BY Zenon, <2>2, <2>3
  <1> QED
    BY Zenon, <1>7, <1>8, <1>9, <1>10, <1>11, <1>12, <1>13, <1>14, <1>15, <1>16, <1>17,
       <1>18, <1>19, <1>20, <1>21 DEF UserNext, ProgramNext

-----------------------------------------------------------------------------
(* Along the versions nothing gets lost but what someone deleted: the      *)
(* versions without a row r that nobody deleted have no parent with it.    *)
LEMMA AncestorsKeep ==
  ASSUME SyncType, CommitsKeepRows, AllMerged,
         NEW tid \in DOMAIN versions, NEW a \in Ancestors(tid) \cup {tid}
  PROVE  Has(TableOf(a)) \ Has(TableOf(tid)) \subseteq Deleted
  <1> SUFFICES ASSUME NEW r \in Has(TableOf(a)), r \notin Has(TableOf(tid)), r \notin Deleted
               PROVE  FALSE
    BY Zenon
  <1> DEFINE S == {w \in 1 .. tid : r \notin Has(TableOf(w))}
  <1>1. DOMAIN versions = 1 .. Len(versions) /\ tid \in 1 .. Len(versions) /\ Len(versions) \in Nat
    BY DEF SyncType
  <1>2. S \in SUBSET (1 .. tid) /\ tid \in S
    BY <1>1
  <1>3. ASSUME NEW w \in S PROVE versions[w].parent \in S \cup {NoParent}
    <2>1. w \in DOMAIN versions /\ w \in 1 .. tid /\ r \notin Has(TableOf(w))
      BY <1>1
    <2>2. SUFFICES ASSUME versions[w].parent # NoParent PROVE versions[w].parent \in S
      BY Zenon
    <2>3. /\ versions[w].parent \in Nat /\ versions[w].parent < w /\ versions[w].by \in Users
          /\ versions[w].parent \in DOMAIN versions
      BY Zenon, <2>1, <2>2, VersionType
    <2>4. versions[w].parent \in 1 .. tid
      BY <1>1, <2>1, <2>3
    <2>5. Has(TableOf(versions[w].parent)) \ Has(TableOf(w)) \subseteq deleted[versions[w].by]
      BY Zenon, <2>1, <2>2 DEF CommitsKeepRows, AllMerged
    <2>6. r \notin deleted[versions[w].by]
      BY Zenon, <2>3 DEF Deleted
    <2> QED
      BY Zenon, <2>1, <2>4, <2>5, <2>6
  <1> HIDE DEF S
  <1>4. a \in S
    BY Zenon, <1>2, <1>3 DEF Ancestors
  <1> QED
    BY Zenon, <1>4 DEF S

LEMMA DeletedStays ==
  ASSUME SyncType, NEW u \in Users, UserNext(u) \/ ProgramNext(u)
  PROVE  Deleted \subseteq Deleted'
  <1>1. ASSUME NEW r \in Rows, DeleteRow(u, r) PROVE Deleted \subseteq Deleted'
    <2>1. Others(u) /\ deleted'[u] = deleted[u] \cup {r}
      BY Zenon, <1>1, DeleteRowDoes
    <2>2. \A w \in Users : deleted[w] \subseteq deleted'[w]
      BY Zenon, <2>1 DEF Others
    <2> QED
      BY Zenon, <2>2 DEF Deleted
  <1>2. CASE \A r \in Rows : ~DeleteRow(u, r)
    <2>1. UserNext(u) => deleted' = deleted
      BY Zenon, <1>2 DEF UserNext, InsertRow, OpenFile, OnSync, OnCommit, Leave, Crash,
         CrashInMerge, ghosts
    <2>2. ProgramNext(u) => deleted' = deleted
      BY Zenon DEF ProgramNext, Update, Commit, PushRepository, FossilFails, MergeListing,
         MergeFails, MergeUnread, AfterPull, PushEnded, OperationFailed, ghosts
    <2> QED
      BY Zenon, <2>1, <2>2 DEF Deleted
  <1> QED
    BY Zenon, <1>1, <1>2

LEMMA MergedBefore ==
  ASSUME Grows, AllMerged'
  PROVE  AllMerged
  BY Zenon DEF Grows, AllMerged

LEMMA InitQuiet == Init => QuietInv
  <1> SUFFICES ASSUME Init, NEW u \in Users PROVE QuietOK(u)
    BY Zenon DEF QuietInv
  <1>1. versions[1].table = FirstTable
    BY DEF Init
  <1>2. pivot[u] = NoFile /\ remote[u] = FirstTable /\ vid[u] = 1
    BY Zenon DEF Init
  <1> QED
    BY Zenon, <1>1, <1>2 DEF QuietOK, CheckedOut, TableOf

LEMMA OthersQuiet ==
  ASSUME SyncType, QuietInv, NEW u \in Users, Others(u), Grows, NEW w \in Users \ {u},
         Deleted \subseteq Deleted'
  PROVE  QuietOK(w)'
  <1>1. QuietOK(w)
    BY Zenon DEF QuietInv
  <1>2. /\ CheckedOut(w)' = CheckedOut(w) /\ remote'[w] = remote[w] /\ pivot'[w] = pivot[w]
        /\ gui'[w] = gui[w] /\ broken'[w] = broken[w]
    BY Zenon, OthersKeep
  <1>3. AllMerged' => AllMerged
    BY Zenon, MergedBefore
  <1>4. ASSUME ~broken[w], AllMerged', pivot[w] # NoFile
        PROVE  Has(pivot[w]) \ Has(CheckedOut(w)) \subseteq Deleted'
    BY Zenon, <1>1, <1>3, <1>4 DEF QuietOK
  <1> QED
    BY Zenon, <1>1, <1>2, <1>4 DEF QuietOK, Has

(* The pivot is the version checked out, or it and the version are the     *)
(* same as before.                                                         *)
LEMMA QuietStep ==
  ASSUME QuietInv, NEW u \in Users, Grows, Deleted \subseteq Deleted',
         ~broken'[u] => ~broken[u],
         ~broken'[u] /\ gui'[u].proc \notin {"commit", "failed"} => remote'[u] = CheckedOut(u)',
         ~broken'[u] => \/ pivot'[u] = CheckedOut(u)'
                        \/ pivot'[u] = pivot[u] /\ CheckedOut(u)' = CheckedOut(u)
  PROVE  QuietOK(u)'
  <1>1. QuietOK(u)
    BY Zenon DEF QuietInv
  <1>2. AllMerged' => AllMerged
    BY Zenon, MergedBefore
  <1>3. ASSUME ~broken'[u], AllMerged', pivot'[u] # NoFile
        PROVE  Has(pivot'[u]) \ Has(CheckedOut(u)') \subseteq Deleted'
    BY Zenon, <1>1, <1>2, <1>3 DEF QuietOK
  <1> QED
    BY Zenon, <1>3 DEF QuietOK, Has

LEMMA UpdateQuiet ==
  ASSUME SyncType, CommitsKeepRows, QuietInv, NEW u \in Users, Update(u), Deleted \subseteq Deleted'
  PROVE  QuietOK(u)'
  <1>1. QuietOK(u)
    BY Zenon DEF QuietInv
  <1>2. Grows /\ UNCHANGED <<versions, pivot, broken>> /\ gui[u].proc = "update"
    BY Zenon, UpdateDoes
  <1>3. CASE KeepsFiles /\ ProgramIs(u, "failed", gui[u].next, gui[u].updateCache)
    <2>1. CheckedOut(u)' = CheckedOut(u)
      BY Zenon, <1>3 DEF KeepsFiles, CheckedOut, TableOf
    <2>2. gui'[u].proc \in {"commit", "failed"}
      BY Zenon, <1>3 DEF ProgramIs
    <2> QED
      BY Zenon, <1>2, <2>1, <2>2, QuietStep
  <1>4. ASSUME NEW tid \in DOMAIN versions, MovesTo(u, tid) PROVE QuietOK(u)'
    <2>1. CheckedOut(u)' = TableOf(tid) /\ vid[u] \in Ancestors(tid) \cup {tid}
      BY Zenon, <1>2, <1>4 DEF MovesTo, CheckedOut, TableOf
    <2>2. ~broken[u] => remote[u] = CheckedOut(u)
      BY Zenon, <1>1, <1>2 DEF QuietOK
    <2>3. ~broken[u] => remote'[u] = TableOf(tid)
      BY Zenon, <1>4, <2>2 DEF MovesTo
    <2>4. AllMerged' => AllMerged
      BY Zenon, <1>2, MergedBefore
    <2>5. ASSUME ~broken[u], AllMerged', pivot[u] # NoFile
          PROVE  Has(pivot[u]) \ Has(TableOf(tid)) \subseteq Deleted'
      <3>1. Has(pivot[u]) \ Has(CheckedOut(u)) \subseteq Deleted
        BY Zenon, <1>1, <2>4, <2>5 DEF QuietOK
      <3>2. Has(CheckedOut(u)) \ Has(TableOf(tid)) \subseteq Deleted
        BY Zenon, <2>1, <2>4, <2>5, AncestorsKeep DEF CheckedOut
      <3> QED
        BY Zenon, <3>1, <3>2
    <2> QED
      BY Zenon, <1>2, <2>1, <2>3, <2>5 DEF QuietOK, Has
  <1> QED
    BY Zenon, <1>3, <1>4, UpdateDoes

LEMMA CommitQuiet ==
  ASSUME SyncType, FilesInv, QuietInv, NEW u \in Users, Commit(u), Deleted \subseteq Deleted'
  PROVE  QuietOK(u)'
  <1>1. QuietOK(u) /\ FilesOK(u)
    BY Zenon DEF QuietInv, FilesInv
  <1>2. Grows /\ UNCHANGED <<remote, pivot, behind, broken, deleted>> /\ gui[u].proc = "commit"
    BY Zenon, CommitDoes
  <1>3. CASE KeepsFiles /\ ProgramIs(u, "failed", gui[u].next, gui[u].updateCache)
    <2>1. CheckedOut(u)' = CheckedOut(u)
      BY Zenon, <1>3 DEF KeepsFiles, CheckedOut, TableOf
    <2>2. gui'[u].proc \in {"commit", "failed"}
      BY Zenon, <1>3 DEF ProgramIs
    <2> QED
      BY Zenon, <1>2, <2>1, <2>2, QuietStep
  <1>4. CASE Adds(u)
    <2>1. CheckedOut(u)' = remote[u]
      BY <1>4 DEF Adds, CheckedOut, TableOf
    <2>2. AllMerged' => AllMerged
      BY Zenon, <1>2, MergedBefore
    <2>3. AllMerged' => behind[u] = "no"
      BY <1>4 DEF Adds, AllMerged
    <2>4. ASSUME ~broken[u], AllMerged', pivot[u] # NoFile
          PROVE  Has(pivot[u]) \ Has(remote[u]) \subseteq Deleted'
      <3>1. Has(pivot[u]) \ Has(CheckedOut(u)) \subseteq Deleted
        BY Zenon, <1>1, <2>2, <2>4 DEF QuietOK
      <3>2. behind[u] # "lost"
        BY Zenon, <2>3, <2>4
      <3>3. Has(CheckedOut(u)) \ Has(remote[u]) \subseteq deleted[u]
        BY Zenon, <1>1, <3>2 DEF FilesOK, Misses
      <3>4. deleted[u] \subseteq Deleted
        BY Zenon DEF Deleted
      <3> QED
        BY Zenon, <3>1, <3>3, <3>4
    <2> QED
      BY Zenon, <1>2, <2>1, <2>4 DEF QuietOK, Has
  <1> QED
    BY Zenon, <1>3, <1>4, CommitDoes

LEMMA NextQuiet ==
  ASSUME SyncType, ProcInv, FilesInv, QuietInv, NEW u \in Users, UserNext(u) \/ ProgramNext(u)
  PROVE  QuietInv'
  <1>1. Others(u) /\ Grows /\ Deleted \subseteq Deleted'
    BY Zenon, NextDoes, DeletedStays
  <1>2. \A w \in Users \ {u} : QuietOK(w)'
    BY Zenon, <1>1, OthersQuiet
  <1>3. SUFFICES QuietOK(u)'
    BY Zenon, <1>2 DEF QuietInv
  <1>4. QuietOK(u) /\ ProcOK(u)
    BY Zenon DEF QuietInv, ProcInv
  <1>5. UNCHANGED <<versions, vid>> => CheckedOut(u)' = CheckedOut(u)
    BY Zenon DEF CheckedOut, TableOf
  <1>6. ~broken[u] /\ gui[u].proc \notin {"commit", "failed"} => remote[u] = CheckedOut(u)
    BY Zenon, <1>4 DEF QuietOK
  (* Nothing changes that matters, but for the process.                    *)
  <1>7. ASSUME UNCHANGED <<versions, vid, remote, pivot>>, ~broken'[u] => ~broken[u],
               \/ broken'[u]
               \/ gui[u].proc \notin {"commit", "failed"}
               \/ gui'[u].proc \in {"commit", "failed"}
        PROVE  QuietOK(u)'
    BY Zenon, <1>1, <1>5, <1>6, <1>7, QuietStep
  <1>8. CASE InsertRow(u)
    <2>1. UNCHANGED <<versions, vid, remote, pivot, gui, broken>>
      BY Zenon, <1>8, InsertRowDoes
    <2> QED
      BY Zenon, <1>7, <2>1
  <1>9. ASSUME NEW r \in Rows, DeleteRow(u, r) PROVE QuietOK(u)'
    <2>1. UNCHANGED <<versions, vid, remote, pivot, gui, broken>>
      BY Zenon, <1>9, DeleteRowDoes
    <2> QED
      BY Zenon, <1>7, <2>1
  <1>10. CASE OpenFile(u)
    <2>1. /\ UNCHANGED <<versions, vid, remote, broken>> /\ pivot'[u] = remote[u]
          /\ gui[u].proc = "none"
      BY Zenon, <1>10, OpenFileDoes
    <2>2. gui[u].proc \notin {"commit", "failed"}
      BY Zenon, <2>1
    <2> QED
      BY Zenon, <1>1, <1>5, <1>6, <2>1, <2>2, QuietStep
  <1>11. CASE OnSync(u)
    <2>1. UNCHANGED <<versions, vid, remote, pivot, broken>> /\ gui[u].proc = "none"
      BY Zenon, <1>11, OnSyncDoes DEF KeepsFiles
    <2>2. gui[u].proc \notin {"commit", "failed"}
      BY Zenon, <2>1
    <2> QED
      BY Zenon, <1>7, <2>1, <2>2
  <1>12. ASSUME NEW import \in BOOLEAN, NEW describe \in BOOLEAN, OnCommit(u, import, describe)
         PROVE  QuietOK(u)'
    <2>1. /\ UNCHANGED <<versions, vid, pivot>>
          /\ describe => /\ broken'[u] = broken[u]
                         /\ gui'[u].proc = IF remote'[u] # CheckedOut(u) THEN "commit" ELSE "push"
          /\ ~describe => broken'[u]
      BY Zenon, <1>12, OnCommitDoes
    <2>2. ~broken'[u] => ~broken[u] /\ (gui'[u].proc \notin {"commit", "failed"} =>
                                          remote'[u] = CheckedOut(u)')
      BY Zenon, <1>5, <2>1
    <2> QED
      BY Zenon, <1>1, <1>5, <2>1, <2>2, QuietStep
  <1>13. CASE Leave(u) \/ Crash(u)
    <2>1. UNCHANGED <<versions, vid, remote, pivot>>
      BY Zenon, <1>13, RestartDoes DEF KeepsFiles
    <2>2. broken'[u] \/ (gui[u].proc = "none" /\ broken' = broken)
      BY Zenon, <1>13, RestartDoes
    <2>3. /\ broken'[u] \/ gui[u].proc \notin {"commit", "failed"}
          /\ ~broken'[u] => ~broken[u]
      BY Zenon, <2>2
    <2> QED
      BY Zenon, <1>7, <2>1, <2>3
  <1>14. CASE CrashInMerge(u)
    <2>1. broken'[u]
      BY Zenon, <1>14, CrashInMergeDoes
    <2> QED
      BY Zenon, <2>1 DEF QuietOK
  <1>15. CASE Update(u)
    BY Zenon, <1>1, <1>15, UpdateQuiet DEF FilesInv
  <1>16. CASE Commit(u)
    BY Zenon, <1>1, <1>16, CommitQuiet
  <1>17. CASE PushRepository(u)
    <2>1. UNCHANGED <<versions, vid, remote, pivot, broken>> /\ gui[u].proc = "push"
      BY Zenon, <1>17, PushRepositoryDoes DEF KeepsFiles
    <2>2. gui[u].proc \notin {"commit", "failed"}
      BY Zenon, <2>1
    <2> QED
      BY Zenon, <1>7, <2>1, <2>2
  <1>18. CASE FossilFails(u)
    <2>1. UNCHANGED <<versions, vid, remote, pivot, broken>> /\ gui'[u].proc = "failed"
      BY Zenon, <1>18, FossilFailsDoes DEF KeepsFiles, ProgramIs
    <2>2. gui'[u].proc \in {"commit", "failed"}
      BY Zenon, <2>1
    <2> QED
      BY Zenon, <1>7, <2>1, <2>2
  <1>19. CASE MergeListing(u) \/ MergeFails(u)
    <2>1. /\ UNCHANGED <<versions, vid, remote, broken>> /\ gui[u].proc = "ended"
          /\ pivot' = pivot \/ pivot'[u] = remote[u]
      BY Zenon, <1>19, MergeListingDoes DEF KeepsFiles
    <2>2. gui[u].proc \notin {"commit", "failed"}
      BY Zenon, <2>1
    <2> QED
      BY Zenon, <1>1, <1>5, <1>6, <2>1, <2>2, QuietStep
  <1>20. CASE MergeUnread(u)
    <2>1. /\ UNCHANGED <<versions, vid, remote, broken>> /\ gui[u].proc = "ended"
          /\ pivot'[u] = remote[u]
      BY Zenon, <1>20, MergeUnreadDoes DEF PivotMoves
    <2>2. gui[u].proc \notin {"commit", "failed"}
      BY Zenon, <2>1
    <2> QED
      BY Zenon, <1>1, <1>5, <1>6, <2>1, <2>2, QuietStep
  <1>21. CASE PushEnded(u)
    <2>1. /\ UNCHANGED <<versions, vid, remote, broken>> /\ gui[u].proc = "ended"
          /\ pivot' = pivot \/ pivot'[u] = remote[u]
      BY Zenon, <1>21, PushEndedDoes DEF PivotMoves
    <2>2. gui[u].proc \notin {"commit", "failed"}
      BY Zenon, <2>1
    <2> QED
      BY Zenon, <1>1, <1>5, <1>6, <2>1, <2>2, QuietStep
  <1>22. ASSUME NEW choice \in RepushChoices, OperationFailed(u, choice) PROVE QuietOK(u)'
    <2>1. /\ UNCHANGED <<versions, vid, broken>> /\ remote'[u] = CheckedOut(u)
          /\ pivot' = pivot \/ pivot'[u] = CheckedOut(u)
      BY Zenon, <1>22, OperationFailedDoes DEF PivotMoves
    <2> QED
      BY Zenon, <1>1, <1>5, <2>1, QuietStep
  <1> QED
    BY Zenon, <1>8, <1>9, <1>10, <1>11, <1>12, <1>13, <1>14, <1>15, <1>16, <1>17,
       <1>18, <1>19, <1>20, <1>21, <1>22 DEF UserNext, ProgramNext

-----------------------------------------------------------------------------
SyncInv == SyncType /\ ProcInv /\ FilesInv /\ QuietInv

LEMMA InitSync == Init => SyncInv
  BY Zenon, InitType, InitProc, InitFiles, InitQuiet DEF SyncInv

LEMMA NextSync ==
  ASSUME SyncInv, [Next]_vars
  PROVE  SyncInv'
  <1>1. ASSUME NEW u \in Users, UserNext(u) \/ ProgramNext(u) PROVE SyncInv'
    BY Zenon, <1>1, NextDoes, NextProc, NextFiles, NextQuiet DEF SyncInv
  <1>2. CASE UNCHANGED vars
    <2>1. UNCHANGED <<versions, server, repo, vid, local, remote, pivot, gui, made, deleted,
                      behind, broken>>
      BY Zenon, <1>2 DEF vars, fossil, files, ghosts
    <2>2. SyncType'
      BY Zenon, <2>1 DEF SyncInv, SyncType
    <2>3. ProcInv'
      BY Zenon, <2>1 DEF SyncInv, ProcInv, ProcOK, CheckedOut, TableOf
    <2>4. FilesInv'
      BY Zenon, <2>1 DEF SyncInv, FilesInv, CommitsKeepRows, FilesOK, Misses, CheckedOut, TableOf
    <2>5. QuietInv'
      <3>1. (AllMerged' <=> AllMerged) /\ Deleted' = Deleted
        BY Zenon, <2>1 DEF AllMerged, Deleted
      <3>2. \A u : CheckedOut(u)' = CheckedOut(u)
        BY Zenon, <2>1 DEF CheckedOut, TableOf
      <3> QED
        BY Zenon, <2>1, <3>1, <3>2 DEF SyncInv, QuietInv, QuietOK
    <2> QED
      BY Zenon, <2>2, <2>3, <2>4, <2>5 DEF SyncInv
  <1> QED
    BY Zenon, <1>1, <1>2 DEF Next

(* The invariant holds in every state.                                     *)
LEMMA SyncInvariant == Spec => []SyncInv
  BY InitSync, NextSync, PTL DEF Spec

(* Pushing takes no row from the others: a version that mergeToLocal and   *)
(* importSheet made after successful merges drops a row of its parent only *)
(* if its author deleted it.                                               *)
THEOREM PushesKeepRows == Spec => []CommitsKeepRows
  <1>1. SyncInv => CommitsKeepRows
    BY Zenon DEF SyncInv, FilesInv
  <1> QED
    BY <1>1, SyncInvariant, PTL

(* What a merge takes from local is in the pivot and not checked out.      *)
LEMMA MergeTakes ==
  ASSUME SyncInv, NEW u \in Users, local[u] # NoFile, pivot[u] # NoFile, ~broken[u],
         gui[u].proc = "ended", AllMerged, NEW r \in Has(local[u]) \ Has(Merged(u))
  PROVE  r \in Deleted
  <1>1. SyncType /\ QuietOK(u)
    BY Zenon DEF SyncInv, QuietInv
  <1>2. local[u] \in Table /\ pivot[u] \in Table /\ remote[u] \in Table
    BY Zenon, <1>1, FilesType
  <1>3. Merged(u) = Merge(pivot[u], local[u], remote[u]) /\ r \in Rows
    BY Zenon DEF Merged, PivotOf, Has
  <1>4. local[u][r] > 0 /\ ~(Merge(pivot[u], local[u], remote[u])[r] > 0)
    BY Zenon, <1>3 DEF Has
  <1>5. pivot[u][r] > 0 /\ ~(remote[u][r] > 0)
    BY <1>2, <1>3, <1>4, MergeCell
  <1>6. r \in Has(pivot[u]) \ Has(remote[u])
    BY Zenon, <1>3, <1>5 DEF Has
  <1>7. gui[u].proc \notin {"commit", "failed"}
    OBVIOUS
  <1> QED
    BY Zenon, <1>1, <1>6, <1>7 DEF QuietOK

(* A pull takes a row from local only if somebody deleted it, or a push    *)
(* that came after a failed merge dropped it, whatever the others do       *)
(* meanwhile and whatever fails.                                           *)
THEOREM PullsKeepRows == Spec => LocalRowsKept
  <1> DEFINE Taken(u, r) == \/ \E w \in Users : r \in deleted'[w]
                            \/ \E v \in DOMAIN versions : versions[v].behind # "no"
  <1>1. ASSUME SyncInv, NEW a \in Users, UserNext(a) \/ ProgramNext(a), NEW u \in Users,
               local[u] # NoFile, pivot[u] # NoFile, ~broken[u],
               NEW r \in Has(local[u]) \ Has(local'[u])
        PROVE  Taken(u, r)
    <2>1. SyncType /\ Others(a) /\ Deleted \subseteq Deleted'
      BY Zenon, <1>1, NextDoes, DeletedStays DEF SyncInv
    <2>2. u = a /\ local' # local
      BY Zenon, <1>1, <2>1 DEF Others
    <2>3. SUFFICES ASSUME AllMerged PROVE r \in Deleted'
      BY Zenon DEF AllMerged, Deleted
    <2>4. local[u] \in Table
      BY Zenon, <1>1, <2>1, FilesType
    <2>5. CASE InsertRow(u)
      <3>1. made + 1 \in Rows /\ local'[u] = [local[u] EXCEPT ![made + 1] = 1]
        BY Zenon, <2>1, <2>5, InsertRowDoes
      <3> QED
        BY <1>1, <2>4, <3>1 DEF Has, Table
    <2>6. ASSUME NEW q \in Rows, DeleteRow(u, q) PROVE r \in Deleted'
      <3>1. local'[u] = [local[u] EXCEPT ![q] = 0] /\ deleted'[u] = deleted[u] \cup {q}
        BY Zenon, <2>1, <2>6, DeleteRowDoes
      <3>2. r = q
        BY Zenon, <1>1, <2>4, <3>1 DEF Has, Table
      <3>3. r \in deleted'[u]
        BY Zenon, <3>1, <3>2
      <3> QED
        BY Zenon, <3>3 DEF Deleted
    <2>7. CASE CrashInMerge(u) \/ MergeListing(u) \/ MergeFails(u)
      <3>1. gui[u].proc = "ended" /\ (local' = local \/ local'[u] = Merged(u))
        BY Zenon, <2>1, <2>7, CrashInMergeDoes, MergeListingDoes DEF KeepsFiles
      <3>2. r \in Deleted
        BY Zenon, <1>1, <2>2, <2>3, <3>1, MergeTakes
      <3> QED
        BY Zenon, <2>1, <3>2
    <2>8. CASE OpenFile(u)
      BY Zenon, <1>1, <2>8 DEF OpenFile
    <2>9. \/ InsertRow(u) \/ (\E q \in Rows : DeleteRow(u, q)) \/ CrashInMerge(u)
          \/ MergeListing(u) \/ MergeFails(u) \/ OpenFile(u)
      <3>1. UserNext(u) => \/ InsertRow(u) \/ (\E q \in Rows : DeleteRow(u, q))
                           \/ CrashInMerge(u) \/ OpenFile(u) \/ local' = local
        BY Zenon DEF UserNext, OnSync, OnCommit, Leave, Crash, files
      <3>2. ProgramNext(u) => MergeListing(u) \/ local' = local
        BY Zenon DEF ProgramNext, Update, Bring, Commit, PushRepository, FossilFails, MergeFails,
           MergeUnread, PushEnded, OperationFailed, files
      <3> QED
        BY Zenon, <1>1, <2>2, <3>1, <3>2
    <2> QED
      BY Zenon, <2>5, <2>6, <2>7, <2>8, <2>9
  <1>2. ASSUME SyncInv, [Next]_vars
        PROVE  [\A u \in Users : local[u] # NoFile /\ pivot[u] # NoFile /\ ~broken[u] =>
                  \A r \in Has(local[u]) \ Has(local'[u]) : Taken(u, r)]_vars
    BY Zenon, <1>1, <1>2 DEF Next
  <1> QED
    BY <1>2, SyncInvariant, PTL DEF Spec, LocalRowsKept

=============================================================================
