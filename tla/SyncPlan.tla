------------------------------- MODULE SyncPlan -------------------------------
(***************************************************************************)
(* What a cycle decides, as functions of what it has read: the planner's    *)
(* table over local, cloud and baseline (src/src/sync/planner.rs), the      *)
(* repair of the baselines before it and the recognition of renames after   *)
(* it (engine/reconciliation.rs), and the filters a plan goes through       *)
(* (engine/action_filters.rs).                                             *)
(*                                                                         *)
(* A path is a sequence of names.  Whether it is a directory is fixed.  A   *)
(* content is a number, 0 for a placeholder, and stands for the size and    *)
(* the modification time as well; a cloud version is the content and the    *)
(* number of moves since, which is what editedTime tells apart.             *)
(***************************************************************************)
EXTENDS Naturals, FiniteSets, Sequences, SequencesExt

CONSTANTS
    Name,       \* names of files and directories
    Path,       \* the paths there can be, sequences of names
    Dirs,       \* those that are directories
    Id,         \* fileIds the cloud gives out
    NoId        \* no fileId: an absent extended attribute, a missing file

-----------------------------------------------------------------------------
(* Data *)

Under(p, root) == IsPrefix(root, p)
StrictlyUnder(p, root) == Under(p, root) /\ p # root
Overlap(p, q) == Under(p, q) \/ Under(q, p)
ParentOf(p) == Front(p)
(* p with the part above it renamed from old to new. *)
Rebase(p, old, new) == new \o SubSeq(p, Len(old) + 1, Len(p))

(* What is above a path is a directory.  What can be in a directory can be in *)
(* any other, and moving it does not change what it is.                      *)
ASSUME SyncPlanAssumption ==
    /\ Path \subseteq Seq(Name) \ {<<>>} /\ Dirs \subseteq Path /\ NoId \notin Id
    /\ \A p \in Path : \A n \in 1 .. Len(p) - 1 : SubSeq(p, 1, n) \in Dirs
    /\ \A p \in Path, d, e \in Dirs : Under(p, d) =>
        /\ ~Under(e, d) => Rebase(p, d, e) \in Path
        /\ Rebase(p, d, e) \in Path => (Rebase(p, d, e) \in Dirs <=> p \in Dirs)

Version == (Nat \X Nat)
NoVersion == <<0, 0>>

(* What is on the disk, in the cloud tree, in the baseline at a path. *)
Absent == [kind |-> "none", data |-> 0, id |-> NoId]
Directory(id) == [kind |-> "dir", data |-> 0, id |-> id]
File(data, id) == [kind |-> "file", data |-> data, id |-> id]
Here(n) == n.kind # "none"
IsPlaceholder(n) == n.kind = "file" /\ n.data = 0
HasContent(n) == Here(n) /\ ~IsPlaceholder(n)

NoEntry == [id |-> NoId, ver |-> NoVersion]
There(c) == c.id # NoId

(* madeup: a ghost, the version was taken over without its content. *)
Row(p, id, seen, ver, status) ==
    [path |-> p, id |-> id, seen |-> seen, ver |-> ver, status |-> status, madeup |-> FALSE]
NoRow == [path |-> <<>>]

(* Ghost: with this version a row speaks of a content it never had. *)
MadeUp(r, ver) == IF r.ver = NoVersion THEN r.seen \notin {0, ver[1]} ELSE r.ver[1] # ver[1]

(* One action of a plan.  ver is the version of the cloud_file it carries,   *)
(* NoVersion if it carries none.                                            *)
Act(op, p, id, ver) == [op |-> op, path |-> p, id |-> id, ver |-> ver]
CarriesFile(a) == a.ver # NoVersion

-----------------------------------------------------------------------------
(* The planner: SyncPlanner::plan.  A snapshot s holds local, cloud, db (one *)
(* row per path), startup, trusted, and touched, the directories whose       *)
(* modification time is not the one of their row.                            *)

LocalChanged(p, s) ==
    IF s.local[p].kind = "dir" THEN p \in s.touched ELSE s.local[p].data # s.db[p].seen
CloudChanged(p, s) == s.cloud[p].ver # s.db[p].ver
Tombstone(p, s) == s.startup /\ s.db[p].status = "deleted"

(* In the cloud, not here: deleted by the user while the engine watched, or  *)
(* not materialised yet. *)
DecideMissing(p, s) ==
    LET c == s.cloud[p] IN
    IF s.db[p] # NoRow /\ ~s.startup THEN {Act("DeleteFromCloud", p, c.id, NoVersion)}
    ELSE IF s.db[p] # NoRow /\ Tombstone(p, s) THEN {}
    ELSE {Act(IF p \in Dirs THEN "CreateFolder" ELSE "CreatePlaceholder", p, c.id, c.ver)}

DecideBoth_NoConflict(p, s) ==
    LET c == s.cloud[p] IN
    IF LocalChanged(p, s) THEN {Act("Upload", p, c.id, c.ver)}
    ELSE IF CloudChanged(p, s) THEN {Act("Download", p, c.id, c.ver)}
    ELSE {}
DecideBoth(p, s) ==
    LET c == s.cloud[p] IN
    IF LocalChanged(p, s) /\ CloudChanged(p, s) THEN {Act("CreateConflictCopy", p, c.id, c.ver)}
    ELSE IF LocalChanged(p, s) THEN {Act("Upload", p, c.id, c.ver)}
    ELSE IF CloudChanged(p, s) THEN {Act("Download", p, c.id, c.ver)}
    ELSE {}

(* Here, not in the cloud, with a baseline: deleted in the cloud. *)
DecideGone(p, s) ==
    IF s.startup /\ ~LocalChanged(p, s) THEN {}
    ELSE IF p \notin Dirs /\ HasContent(s.local[p]) /\ LocalChanged(p, s) THEN
            {Act("BackupBeforeCloudDelete", p, s.db[p].id, NoVersion)}
    ELSE {Act("DeleteFromLocal", p, s.db[p].id, NoVersion)}

(* Here, not in the cloud, without a baseline: new. *)
DecideNew(p, s) ==
    IF IsPlaceholder(s.local[p]) THEN {Act("DeleteFromLocal", p, NoId, NoVersion)}
    ELSE IF p \in Dirs THEN {Act("CreateFolder", p, NoId, NoVersion)}
    ELSE {Act("Upload", p, NoId, NoVersion)}

Decide(p, s) ==
    LET here == Here(s.local[p])  there == There(s.cloud[p])  known == s.db[p] # NoRow IN
    IF there /\ ~here THEN DecideMissing(p, s)
    ELSE IF there /\ p \notin Dirs /\ HasContent(s.local[p]) /\ known THEN DecideBoth(p, s)
    ELSE IF here /\ ~there /\ known THEN DecideGone(p, s)
    ELSE IF here /\ ~there /\ ~known THEN DecideNew(p, s)
    ELSE {}

Plan(s) ==
    {a \in UNION {Decide(p, s) : p \in Path} :
        s.trusted \/ a.op \notin {"DeleteFromLocal", "DeleteFromCloud"}}

-----------------------------------------------------------------------------
(* The filters of a plan, in the order run_sync_cycle_inner applies them *)

RowsOf(rows, id) == {r \in rows : r.id = id}
OfOp(acts, op) == {a \in acts : a.op = op}
PathsOf(acts) == {a.path : a \in acts}

(* A task that owns a path or an identity keeps plans off it. *)
WithoutActive(acts, rows, tasks) ==
    {a \in acts : \A t \in tasks :
        /\ a.id = NoId \/ a.id # t.id
        /\ ~Overlap(a.path, t.path)
        /\ a.id # NoId => \A r \in RowsOf(rows, a.id) : ~Overlap(r.path, t.path)}

WithoutRecent(acts, recent) ==
    {a \in acts : a.path \notin recent \/ a.op = "DeleteFromCloud"}

(* Folders deleted in the cloud under which something is to be put. *)
Rescued(acts, s, recent) ==
    LET needy == {a \in acts :
            \/ a.op \in {"Upload", "MoveInCloud", "BackupBeforeCloudDelete", "CreateConflictCopy"}
            \/ a.op = "CreateFolder" /\ ~CarriesFile(a)}
        lost == {f \in Dirs \ (PathsOf(acts) \cup recent) :
            /\ \E a \in needy : StrictlyUnder(a.path, f)
            /\ Here(s.local[f]) /\ ~There(s.cloud[f]) /\ s.db[f] # NoRow}
    IN  acts \cup {Act("CreateFolder", f, NoId, NoVersion) : f \in lost}

IsBlocked(p, id, blocked) ==
    \E b \in blocked :
        \/ id # NoId /\ b.id = id
        \/ Overlap(p, b.old) \/ Overlap(p, b.new)
WithoutBlocked(acts, blocked) ==
    LET roots == {a.path : a \in {a \in OfOp(acts, "CreateFolder") : IsBlocked(a.path, a.id, blocked)}}
    IN  {a \in acts : /\ ~IsBlocked(a.path, a.id, blocked)
                      /\ \A f \in roots : ~Under(a.path, f)}

(* validate_delete_from_cloud: the path is looked at once more. *)
StillGone(acts, disk) ==
    {a \in acts : a.op = "DeleteFromCloud" => ~HasContent(disk[a.path])}

WithoutCovered(acts, op, roots) ==
    {a \in acts : a.op = op => \A f \in roots : ~StrictlyUnder(a.path, f)}
DedupeCloudDeletes(acts, tree) ==
    WithoutCovered(acts, "DeleteFromCloud",
        {p \in PathsOf(OfOp(acts, "DeleteFromCloud")) : p \in Dirs /\ There(tree[p])})
DedupeLocalDeletes(acts) ==
    WithoutCovered(acts, "DeleteFromLocal", PathsOf(OfOp(acts, "DeleteFromLocal")))
KeepBackupDirs(acts) ==
    {a \in acts : a.op = "DeleteFromLocal" =>
        \A b \in PathsOf(OfOp(acts, "BackupBeforeCloudDelete")) : ~StrictlyUnder(b, a.path)}

-----------------------------------------------------------------------------
(* Renames: detect_renames *)

(* The tree's path of an identity; an identity is at one path at most. *)
TreePaths(tree, id) == {q \in Path : tree[q].id = id}
(* Put at a path and at no other; moved with all that is under it. *)
TreePut_KeepOld(tree, id, p, ver) == [tree EXCEPT ![p] = [id |-> id, ver |-> ver]]
TreePut(tree, id, p, ver) ==
    [q \in Path |-> IF q = p THEN [id |-> id, ver |-> ver]
                    ELSE IF tree[q].id = id THEN NoEntry ELSE tree[q]]
TreeRekeyed(tree, old, new) ==
    [q \in Path |->
        IF Under(q, new) /\ Rebase(q, new, old) \in Path /\ There(tree[Rebase(q, new, old)])
        THEN tree[Rebase(q, new, old)]
        ELSE IF Under(q, old) THEN NoEntry ELSE tree[q]]

(* A new file, a new folder or an orphan placeholder that carries the        *)
(* identity of one baseline row of another path, still in the cloud. *)
Carried(a, rows, disk, tree) ==
    LET id == disk[a.path].id IN
    /\ a.id = NoId
    /\ a.op \in {"Upload", "DeleteFromLocal"} \/ (a.op = "CreateFolder" /\ ~CarriesFile(a))
    /\ Here(disk[a.path]) /\ id # NoId
    /\ Cardinality(RowsOf(rows, id)) = 1
    /\ \A r \in RowsOf(rows, id) : r.path # a.path /\ (r.path \in Dirs <=> a.path \in Dirs)
    /\ \E q \in TreePaths(tree, id) : q \in Dirs <=> a.path \in Dirs
(* The old path still carries it: a copy, not a move. *)
IsCopy(a, rows, disk) ==
    \E r \in RowsOf(rows, disk[a.path].id) :
        Here(disk[r.path]) /\ disk[r.path].id = disk[a.path].id
IntoItself(a, disk, tree) ==
    a.path \in Dirs /\ \E q \in TreePaths(tree, disk[a.path].id) : StrictlyUnder(a.path, q)

Renamed(acts, rows, disk, tree) ==
    {a \in acts : /\ Carried(a, rows, disk, tree)
                  /\ ~IsCopy(a, rows, disk) /\ ~IntoItself(a, disk, tree)}
(* The copies, whose inherited identity is taken off them. *)
CopiesOf(acts, rows, disk, tree) ==
    {a.path : a \in {a \in acts : Carried(a, rows, disk, tree) /\ IsCopy(a, rows, disk)}}

(* The moves in place of the new files, without what the old paths, and the  *)
(* folders above them, would otherwise do to the identities that moved.      *)
DetectRenames_DeleteParents(acts, rows, disk, tree) ==
    LET renamed == Renamed(acts, rows, disk, tree)
        MoveOf(a) == LET id == disk[a.path].id IN
            Act("MoveInCloud", a.path, id, tree[CHOOSE q \in TreePaths(tree, id) : TRUE].ver)
        moves == {MoveOf(a) : a \in renamed}
        source(m) == (CHOOSE r \in RowsOf(rows, m.id) : TRUE).path
    IN  moves \cup {a \in acts \ renamed : \A m \in moves :
            /\ ~(a.id = m.id /\ a.path = source(m))
            /\ ~(a.op = "CreatePlaceholder" /\ a.id = m.id)}
DetectRenames(acts, rows, disk, tree) ==
    LET renamed == Renamed(acts, rows, disk, tree)
        MoveOf(a) == LET id == disk[a.path].id IN
            Act("MoveInCloud", a.path, id, tree[CHOOSE q \in TreePaths(tree, id) : TRUE].ver)
        moves == {MoveOf(a) : a \in renamed}
        source(m) == (CHOOSE r \in RowsOf(rows, m.id) : TRUE).path
        folder == {m \in moves : m.path \in Dirs}
        kept(a) ==
            /\ \A m \in folder : a # m =>
                    ~Under(a.path, source(m)) /\ ~Under(a.path, m.path)
            /\ \A m \in moves :
                /\ Here(disk[source(m)]) => ~(a.path = source(m) /\ a.id = m.id)
                /\ ~(a.op = "CreatePlaceholder" /\ a.id = m.id /\ a.path # m.path)
                /\ a.op = "DeleteFromCloud" =>
                    /\ ~(a.path = source(m) /\ a.id = m.id)
                    /\ ~StrictlyUnder(source(m), a.path)
    IN  {a \in moves \cup (acts \ renamed) : kept(a)}

-----------------------------------------------------------------------------
(* The baselines before the plan *)

(* heal_duplicate_path_baselines: one row per path is kept, the tree's        *)
(* identity before any other, a tombstone last. *)
KeptRows(rows, p, tree) ==
    LET group == {r \in rows : r.path = p}
        right == {r \in group : There(tree[p]) /\ r.id = tree[p].id}
        live == {r \in group : r.status # "deleted"}
    IN  IF right # {} THEN right ELSE IF live # {} THEN live ELSE group
Healed(rows, tree) ==
    LET twice == {r \in rows : \E s \in rows : s # r /\ s.path = r.path}
    IN  (rows \ twice) \cup {CHOOSE r \in KeptRows(rows, p, tree) : TRUE : p \in {r.path : r \in twice}}
ByPath(rows) ==
    [p \in Path |-> IF \E r \in rows : r.path = p THEN CHOOSE r \in rows : r.path = p ELSE NoRow]

(* ensure_folder_with_file_id: the directory has this identity or none yet. *)
Binds(n, id) == n.kind = "dir" /\ n.id \in {NoId, id}
Status(n) == IF IsPlaceholder(n) THEN "cloud_only" ELSE "synced"

(* A directory whose row, whose cloud folder and whose attribute disagree     *)
(* ends the cycle. *)
FoldersAgree(local, disk, rows, tree, blocked) ==
    \A p \in Dirs : Here(local[p]) /\ ~IsBlocked(p, NoId, blocked) =>
        LET r == ByPath(rows)[p] IN
        IF r # NoRow THEN Binds(disk[p], r.id) /\ (There(tree[p]) => tree[p].id = r.id)
        ELSE There(tree[p]) => Binds(disk[p], tree[p].id)

(* The row of a file whose identity is the cloud's: that of its old path, if  *)
(* the file is gone from there, with the content of the last sync and the     *)
(* version of now; a first one otherwise.                                     *)
AdoptFile(p, local, disk, rows, tree, blocked) ==
    LET id == disk[p].id
        old == RowsOf(rows, id)
    IN  IF id = NoId \/ tree[p].id # id \/ IsBlocked(p, id, blocked) THEN {}
        ELSE IF old = {}
             THEN {[Row(p, id, local[p].data, NoVersion, Status(local[p])) EXCEPT !.madeup =
                        local[p].data \notin {0, tree[p].ver[1]}]}
        ELSE LET r == CHOOSE r \in old : TRUE IN
             IF Here(disk[r.path]) THEN {}
             ELSE {[r EXCEPT !.path = p, !.ver = tree[p].ver, !.madeup = @ \/ MadeUp(r, tree[p].ver)]}

(* reconcile_db_records *)
Reconciled(local, disk, rows, tree, blocked) ==
    LET seen == {p \in Path : Here(local[p]) /\ ~IsBlocked(p, NoId, blocked)}
        db == ByPath(rows)
        revived == {r \in rows : r.status = "deleted" /\ r.path \in seen}
        new == {p \in seen : db[p] = NoRow}
        folders == {Row(p, tree[p].id, 0, tree[p].ver, "synced") : p \in {q \in new \cap Dirs : There(tree[q])}}
        files == UNION {AdoptFile(p, local, disk, rows, tree, blocked) : p \in new \ Dirs}
    IN  {r \in rows \ revived : ~\E f \in files : f.id = r.id}
        \cup {[r EXCEPT !.status = Status(local[r.path])] : r \in {r \in revived : ~\E f \in files : f.id = r.id}}
        \cup folders \cup files

(* reconcile_resolved_conflicts and the repair of failed rows: both sides are *)
(* what the row says. *)
Settles(r, local, tree) ==
    /\ Here(local[r.path]) /\ There(tree[r.path]) /\ tree[r.path].id = r.id
    /\ r.path \notin Dirs => /\ ~IsPlaceholder(local[r.path])
                             /\ local[r.path].data = r.seen
                             /\ tree[r.path].ver = r.ver /\ r.ver # NoVersion
(* Rows of nothing are dropped; a task that is not over keeps its path's. *)
Purged(rows, local, tree, blocked, busy) ==
    LET apart(r) == ~IsBlocked(r.path, r.id, blocked)
        stale == {r \in rows : /\ apart(r) /\ r.path \notin busy
                               /\ ~Here(local[r.path]) /\ ~There(tree[r.path])}
        fixed == {r \in rows : /\ r.status = "conflict" \/ (r.status = "failed" /\ apart(r))
                               /\ r.path \notin busy /\ Settles(r, local, tree)}
    IN  (rows \ (stale \cup fixed))
        \cup {[r EXCEPT !.status = "synced",
                        !.ver = IF r.path \in Dirs THEN tree[r.path].ver ELSE @] : r \in fixed}
=============================================================================
