---------------------------- MODULE Reconciliation ----------------------------
(***************************************************************************)
(* The synchronisation cycle between a directory, a baseline database and a  *)
(* cloud that others change too: recovery of remote moves                    *)
(* (src/src/sync/path_recovery.rs), scan, plan and filters (SyncPlan),       *)
(* execution (src/src/sync/executor), the checkpoint and the settlement of   *)
(* the results (engine/cycle.rs, engine/results.rs), with the user, the      *)
(* commands of the application's window (src/src/commands/drive.rs), other   *)
(* clients, failing calls and crashes in between.                            *)
(*                                                                         *)
(* Transfers are tasks begun by a cycle that may outlive it; TaskRunner      *)
(* models their life.  A conflict copy is a content beside the tree.         *)
(***************************************************************************)
EXTENDS SyncPlan

CONSTANTS
    Torn,       \* a scan reads the paths one by one
    MaxOps,     \* bound: what the user and the other clients do
    MaxFaults   \* bound: failing calls and crashes

ASSUME ReconciliationAssumption ==
    Torn \in BOOLEAN /\ MaxOps \in Nat /\ MaxFaults \in Nat /\ Cardinality(Id) >= 2

VARIABLES
    disk,       \* what is at each path
    touched,    \* directories modified since their row was written
    copies,     \* contents of the published conflict and backup copies
    remote,     \* the cloud: what each fileId is
    rows,       \* sync_items
    tree,       \* the engine's cloud tree
    trusted,    \* the tree may be planned from
    startup,    \* no cycle has ended since the start of the process
    recent,     \* recently_deleted_paths
    tasks,      \* transfers that are not over
    cyc,        \* the running cycle
    cmd,        \* the running command of the application's window
    written,    \* ghost: what anybody wrote and nobody replaced or deleted since
    lapsed,     \* ghost: what was replaced on the word of a stale or made-up baseline,
                \* or by a conflict's upload that nobody checked or heard back of
    removed,    \* ghost: identities the user deleted, others moved, edited or deleted
    astray,     \* ghost: identities a command put at a path of the tree where they never
                \* were, or whose local file was deleted in the place of another's
    ops, faults

local == <<disk, touched, copies>>
engine == <<rows, tree, trusted, startup, recent>>
ghosts == <<written, lapsed, removed, astray>>
vars == <<local, remote, engine, tasks, cyc, cmd, ghosts, ops, faults>>

-----------------------------------------------------------------------------
(* Data *)

Unused == [path |-> <<>>, data |-> 0, k |-> 0, folder |-> FALSE]
Live(i) == remote[i].path # <<>>
(* The identity that is given out next; which one makes no difference. *)
Fresh == LET unused == {i \in Id : remote[i] = Unused} IN
         IF unused = {} THEN {} ELSE {CHOOSE i \in unused : TRUE}
(* Every write of a file in the cloud is a new version of it. *)
Ver(i) == <<remote[i].data, remote[i].k>>
At(p) == {i \in Id : remote[i].path = p}
Image == [p \in Path |-> IF At(p) = {} THEN NoEntry
                         ELSE LET i == CHOOSE i \in At(p) : TRUE IN [id |-> i, ver |-> Ver(i)]]
Content == 0 .. MaxOps + 1
InParents(ps) == {ParentOf(p) : p \in {p \in ps : Len(p) > 1}}
HasParent(p) == \A d \in InParents({p}) : Here(disk[d])
WithParents(q) ==
    [p \in Path |-> IF StrictlyUnder(q, p) /\ ~Here(disk[p]) THEN Directory(NoId) ELSE disk[p]]
HasRemoteParent(p) == \A d \in InParents({p}) : At(d) # {}

Idle == [pc |-> "idle"]
Task(op, p, id, ver, snap, by) ==
    [op |-> op, path |-> p, id |-> id, ver |-> ver, snap |-> snap, made |-> FALSE, by |-> by]
Busy(p, id) == \E t \in tasks : Overlap(p, t.path) \/ (id # NoId /\ t.id = id)

(* Leases: of the cycle, and of the transfers it waits for. *)
Awaited == {t \in tasks : t.by = "cycle"}
Exclusive == (IF cyc.pc = "rekey" THEN cyc.leased ELSE {}) \cup (IF cmd.pc = "idle" THEN {} ELSE cmd.leased)
Leased == (IF cyc.pc = "idle" THEN {} ELSE cyc.leased) \cup {t.path : t \in Awaited} \cup Exclusive
Locked(p) == \E q \in Leased : Overlap(p, q)
Held(p) == \E q \in Exclusive : Overlap(p, q)

DataUnder(p) == {disk[q].data : q \in {q \in Path : Under(q, p)}}
IdsUnder(p) == {disk[q].id : q \in {q \in Path : Under(q, p)}} \ {NoId}

(* A directory and a file in it, both known. *)
Start(i, j) == \E hydrated \in BOOLEAN, f \in Dirs, p \in Path \ Dirs :
    /\ Len(f) = 1 /\ ParentOf(p) = f
    /\ remote = [n \in Id |-> CASE n = i -> [path |-> f, data |-> 0, k |-> 1, folder |-> TRUE]
                                [] n = j -> [path |-> p, data |-> 1, k |-> 1, folder |-> FALSE]
                                [] OTHER -> Unused]
    /\ disk = [q \in Path |-> CASE q = f -> Directory(i)
                                [] q = p -> File(IF hydrated THEN 1 ELSE 0, j)
                                [] OTHER -> Absent]
    /\ rows = {Row(f, i, 0, <<0, 1>>, "synced"),
               IF hydrated THEN Row(p, j, 1, <<1, 1>>, "synced")
                           ELSE Row(p, j, 0, <<1, 1>>, "cloud_only")}
Init ==
    /\ LET i == CHOOSE i \in Id : TRUE  j == CHOOSE j \in Id \ {i} : TRUE IN Start(i, j)
    /\ touched = {} /\ copies = {} /\ tree = Image /\ trusted = TRUE /\ startup = FALSE
    /\ recent = {} /\ tasks = {} /\ cyc = Idle /\ cmd = Idle
    /\ written = {} /\ lapsed = {} /\ removed = {} /\ astray = {} /\ ops = 0 /\ faults = 0

-----------------------------------------------------------------------------
(* The user, on paths that are not leased *)

Operate == ops' = ops + 1 /\ UNCHANGED faults
New == ops + 2
Away == UNCHANGED <<copies, remote, engine, tasks, cyc, cmd, lapsed, astray>>

UserCreate(p) ==
    /\ Operate /\ ~Locked(p) /\ ~Here(disk[p]) /\ HasParent(p)
    /\ disk' = [disk EXCEPT ![p] = IF p \in Dirs THEN Directory(NoId) ELSE File(New, NoId)]
    /\ touched' = touched \cup InParents({p})
    /\ written' = IF p \in Dirs THEN written ELSE written \cup {New}
    /\ Away /\ UNCHANGED removed

UserEdit(p) ==
    /\ Operate /\ ~Locked(p) /\ disk[p].kind = "file" /\ HasContent(disk[p])
    /\ disk' = [disk EXCEPT ![p].data = New]
    /\ written' = (written \ {disk[p].data}) \cup {New}
    /\ Away /\ UNCHANGED <<touched, removed>>

UserDelete(p) ==
    /\ Operate /\ ~Locked(p) /\ Here(disk[p])
    /\ disk' = [q \in Path |-> IF Under(q, p) THEN Absent ELSE disk[q]]
    /\ touched' = (touched \ {q \in Path : Under(q, p)}) \cup InParents({p})
    /\ written' = written \ (DataUnder(p) \cup {r.ver[1] : r \in UNION {RowsOf(rows, i) : i \in IdsUnder(p)}})
    /\ removed' = removed \cup IdsUnder(p)
    /\ Away

(* A rename carries the attributes along, and everything in a directory. *)
UserRename(p, q) ==
    /\ Operate /\ ~Locked(p) /\ ~Locked(q)
    /\ Here(disk[p]) /\ ~Here(disk[q]) /\ HasParent(q) /\ ~Under(q, p)
    /\ p \in Dirs <=> q \in Dirs
    /\ disk' = [r \in Path |->
            IF Under(r, q) /\ Rebase(r, q, p) \in Path THEN disk[Rebase(r, q, p)]
            ELSE IF Under(r, p) THEN Absent
            ELSE disk[r]]
    /\ touched' = (touched \ {p}) \cup InParents({p, q}) \cup (IF p \in touched THEN {q} ELSE {})
    /\ Away /\ UNCHANGED <<written, removed>>

(* A copy may take the attributes with it. *)
UserCopy(p, q, keep) ==
    /\ Operate /\ ~Locked(q) /\ disk[p].kind = "file" /\ HasContent(disk[p])
    /\ ~Here(disk[q]) /\ HasParent(q) /\ q \notin Dirs
    /\ disk' = [disk EXCEPT ![q] = File(disk[p].data, IF keep THEN disk[p].id ELSE NoId)]
    /\ touched' = touched \cup InParents({q})
    /\ Away /\ UNCHANGED <<written, removed>>

(* Opening a placeholder asks for its content. *)
UserOpen(p) ==
    /\ Operate /\ IsPlaceholder(disk[p]) /\ disk[p].id \in Id /\ Live(disk[p].id)
    /\ ~Busy(p, disk[p].id) /\ ~Held(p)
    /\ tasks' = tasks \cup {Task("Download", p, disk[p].id, Ver(disk[p].id), 0, "user")}
    /\ UNCHANGED <<local, remote, engine, cyc, cmd, ghosts>>

-----------------------------------------------------------------------------
(* The other clients *)

Elsewhere == UNCHANGED <<local, engine, tasks, cyc, cmd, lapsed, astray>>
Write(i, p, data) == [path |-> p, data |-> data, k |-> remote[i].k + 1, folder |-> p \in Dirs]

RemoteEdit(i) ==
    /\ Operate /\ Live(i) /\ remote[i].path \notin Dirs
    /\ remote' = [remote EXCEPT ![i] = Write(i, remote[i].path, New)]
    /\ written' = (written \ {remote[i].data}) \cup {New} /\ removed' = removed \cup {i}
    /\ Elsewhere

RemoteMove(i, q) ==
    /\ Operate /\ Live(i) /\ At(q) = {} /\ HasRemoteParent(q) /\ ~Under(q, remote[i].path)
    /\ remote[i].path \in Dirs <=> q \in Dirs
    /\ remote' = [n \in Id |->
            IF n = i THEN Write(i, q, remote[i].data)
            ELSE IF Live(n) /\ Under(remote[n].path, remote[i].path)
            THEN [remote[n] EXCEPT !.path = Rebase(@, remote[i].path, q)] ELSE remote[n]]
    /\ removed' = removed \cup {n \in Id : Live(n) /\ Under(remote[n].path, remote[i].path)}
    /\ Elsewhere /\ UNCHANGED written

Deleted(p) == [n \in Id |-> IF Live(n) /\ Under(remote[n].path, p)
                            THEN [remote[n] EXCEPT !.path = <<>>] ELSE remote[n]]
RemoteDelete(i) ==
    /\ Operate /\ Live(i)
    /\ remote' = Deleted(remote[i].path)
    /\ written' = written \ {remote[n].data : n \in {n \in Id : Live(n) /\ Under(remote[n].path, remote[i].path)}}
    /\ removed' = removed \cup {n \in Id : Live(n) /\ Under(remote[n].path, remote[i].path)}
    /\ Elsewhere

RemoteCreate(p) ==
    /\ Operate /\ At(p) = {} /\ HasRemoteParent(p)
    /\ \E i \in Fresh : remote' = [remote EXCEPT ![i] = Write(i, p, IF p \in Dirs THEN 0 ELSE New)]
    /\ written' = IF p \in Dirs THEN written ELSE written \cup {New}
    /\ Elsewhere /\ UNCHANGED removed

-----------------------------------------------------------------------------
(* The start of a cycle, and the recovery of moves made in the cloud *)

Quiet == UNCHANGED <<cmd, ghosts, ops, faults>>
Goto(pc) == cyc' = [cyc EXCEPT !.pc = pc]

(* Without a trusted tree nothing is planned. *)
Begin ==
    /\ cyc.pc = "idle"
    /\ \E refresh \in {~trusted, TRUE} : tree' = IF refresh THEN Image ELSE tree
    /\ trusted' = TRUE
    /\ cyc' = [pc |-> "recover", leased |-> {}, blocked |-> {}, tried |-> {},
               old |-> <<>>, scan |-> [p \in Path |-> Absent], left |-> Path]
    /\ UNCHANGED <<local, remote, rows, startup, recent, tasks>> /\ Quiet

(* Rows whose identity the tree has elsewhere, the shallowest first. *)
Moved == {r \in rows : r.path \notin cyc.tried
                       /\ \E q \in Path \ {r.path} : tree[q].id = r.id}
Target(r) == CHOOSE q \in Path : tree[q].id = r.id
First(r) == \A s \in Moved : Len(r.path) <= Len(s.path)
Tried(r) == [cyc EXCEPT !.tried = @ \cup {r.path}]
BlockAs(r) == [Tried(r) EXCEPT !.blocked = @ \cup {[id |-> r.id, old |-> r.path, new |-> Target(r)]}]

Subtree(p) == {r \in rows : Under(r.path, p)}
Collides(old, new) == \E s \in rows : ~Under(s.path, old) /\ Under(s.path, new)
(* recover_one: what makes it refuse, and leave the identity alone. *)
Unsafe(r, q) ==
    \/ Cardinality(RowsOf(rows, r.id)) # 1
    \/ ~(r.path \in Dirs <=> q \in Dirs)
    \/ r.path \in Dirs /\ Under(q, r.path)
    \/ r.path \notin Dirs /\ (r.ver = NoVersion \/ tree[q].ver[2] <= r.ver[2])
    \/ \E t \in tasks : t.id = r.id \/ Under(t.path, r.path) \/ Under(t.path, q)
    \/ Here(disk[r.path]) /\ Here(disk[q])
    \/ ~Here(disk[r.path]) /\ Here(disk[q]) /\ disk[q].id # r.id
    \/ Collides(r.path, q) \/ Held(r.path) \/ Held(q)
    \/ \E s \in Subtree(r.path) : \E x \in Path :
            tree[x].id = s.id /\ x # Rebase(s.path, r.path, q)
(* Not here at all, or not marked as ours: left to the planner. *)
Unmarked(r, q) ==
    /\ ~Here(disk[q])
    /\ Here(disk[r.path]) => disk[r.path].id # r.id

RecoverSkips ==
    /\ cyc.pc = "recover"
    /\ \E r \in Moved : LET q == Target(r) IN
        /\ First(r)
        /\ cyc' = IF \E b \in cyc.blocked : Under(r.path, b.old) \/ Under(q, b.new)
                  THEN IF \E b \in cyc.blocked : Under(r.path, b.old) /\ Under(q, b.new)
                       THEN Tried(r) ELSE BlockAs(r)
                  ELSE IF Unsafe(r, q) THEN BlockAs(r) ELSE Tried(r)
        /\ \/ Unsafe(r, q) \/ Unmarked(r, q)
           \/ \E b \in cyc.blocked : Under(r.path, b.old) \/ Under(q, b.new)
    /\ UNCHANGED <<local, remote, engine, tasks>> /\ Quiet

MoveOnDisk(p, q) ==
    /\ disk' = [r \in Path |->
            IF Under(r, q) /\ Rebase(r, q, p) \in Path THEN disk[Rebase(r, q, p)]
            ELSE IF Under(r, p) THEN Absent
            ELSE WithParents(q)[r]]
    /\ touched' = (touched \ {p}) \cup InParents({p, q}) \cup (IF p \in touched THEN {q} ELSE {})

(* Both paths are leased from here to the row. *)
RecoverRename ==
    /\ cyc.pc = "recover"
    /\ \E r \in Moved : LET q == Target(r) IN
        /\ First(r) /\ ~Unsafe(r, q) /\ ~Unmarked(r, q)
        /\ ~\E b \in cyc.blocked : Under(r.path, b.old) \/ Under(q, b.new)
        /\ IF Here(disk[r.path])
           THEN MoveOnDisk(r.path, q) ELSE UNCHANGED <<disk, touched>>
        /\ cyc' = [Tried(r) EXCEPT !.pc = "rekey", !.leased = {r.path, q}, !.old = r.path]
    /\ UNCHANGED <<copies, remote, engine, tasks>> /\ Quiet

(* The subtree keeps its contents; what stood for the root takes the version  *)
(* the cloud has now. *)
Rekeyed(rs, roots, old, new, ver) ==
    {[r EXCEPT !.path = Rebase(@, old, new),
               !.ver = IF r \in roots THEN ver ELSE @,
               !.madeup = @ \/ (r \in roots /\ MadeUp(r, ver))] : r \in rs}

RecoverRekey ==
    /\ cyc.pc = "rekey"
    /\ \E r \in rows, q \in cyc.leased \ {cyc.old} :
        /\ r.path = cyc.old /\ tree[q].id = r.id
        /\ LET sub == Subtree(cyc.old) IN
            rows' = (rows \ sub) \cup Rekeyed(sub, {s \in sub : s.path = cyc.old}, cyc.old, q, tree[q].ver)
        /\ cyc' = [cyc EXCEPT !.pc = "recover", !.leased = {}]
    /\ UNCHANGED <<local, remote, tree, trusted, startup, recent, tasks>> /\ Quiet

-----------------------------------------------------------------------------
(* Scan and plan *)

(* purge_deleted_tombstones_if_trusted: of files that the cloud no longer has. *)
PurgeTombstones ==
    /\ cyc.pc = "recover" /\ Moved = {}
    /\ rows' = rows \ {r \in rows : /\ r.status = "deleted" /\ ~There(tree[r.path])
                                    /\ ~IsBlocked(r.path, r.id, cyc.blocked)}
    /\ Goto("scan")
    /\ UNCHANGED <<local, remote, tree, trusted, startup, recent, tasks>> /\ Quiet

Scan ==
    /\ cyc.pc = "scan" /\ cyc.left # {}
    /\ \E now \in IF Torn THEN {{p} : p \in cyc.left} ELSE {cyc.left} :
        cyc' = [cyc EXCEPT !.scan = [p \in Path |-> IF p \in now THEN disk[p] ELSE @[p]],
                           !.left = @ \ now]
    /\ UNCHANGED <<local, remote, engine, tasks>> /\ Quiet

Structural(a) == a.op \notin {"Upload", "Download"}
(* structural_settlement_paths *)
LeasesOf(acts) ==
    {a.path : a \in {a \in acts : Structural(a)}}
    \cup {r.path : r \in UNION {RowsOf(rows, a.id) : a \in OfOp(acts, "MoveInCloud")}}

Baselines ==
    LET healed == Healed(rows, tree)
        known == Reconciled(cyc.scan, disk, healed, tree, cyc.blocked)
    IN  Healed(Purged(known, cyc.scan, tree, cyc.blocked, {t.path : t \in tasks}), tree)
Snapshot(rs) ==
    [local |-> cyc.scan, cloud |-> tree, db |-> ByPath(rs), startup |-> startup,
     trusted |-> trusted, touched |-> touched]
Filtered(acts, rs) ==
    LET s == Snapshot(rs)
        a1 == DetectRenames(acts, rs, disk, tree)
        a2 == WithoutRecent(WithoutActive(a1, rs, tasks), recent)
        a3 == WithoutBlocked(Rescued(a2, s, recent), cyc.blocked)
    IN  KeepBackupDirs(DedupeLocalDeletes(DedupeCloudDeletes(StillGone(a3, disk), tree)))
(* Ghost: what is where the scan did not see it. *)
Missed == {disk[p].id : p \in {p \in Path : disk[p].id # cyc.scan[p].id}} \ {NoId}

PlanCycle ==
    /\ cyc.pc = "scan" /\ cyc.left = {}
    /\ IF ~FoldersAgree(cyc.scan, disk, Healed(rows, tree), tree, cyc.blocked)
       THEN cyc' = Idle /\ UNCHANGED <<disk, touched, rows, startup>>
       ELSE LET rs == Baselines
                planned == Plan(Snapshot(rs))
                acts == Filtered(planned, rs)
                copied == CopiesOf(planned, rs, disk, tree)
                bound(p) == IF /\ p \in Dirs /\ Here(cyc.scan[p]) /\ ~IsBlocked(p, NoId, cyc.blocked)
                               /\ disk[p].id = NoId /\ ByPath(rs)[p] # NoRow
                            THEN ByPath(rs)[p].id ELSE disk[p].id
            IN  /\ rows' = rs
                /\ touched' = {p \in touched : ByPath(rs)[p] = ByPath(rows)[p]}
                /\ disk' = [p \in Path |-> [disk[p] EXCEPT !.id = IF p \in copied THEN NoId ELSE bound(p)]]
                /\ IF acts = {} \/ \E p \in LeasesOf(acts) : Held(p) THEN cyc' = Idle /\ startup' = FALSE
                   ELSE /\ cyc' = [pc |-> "act", acts |-> acts, done |-> {}, leased |-> LeasesOf(acts),
                                   scan |-> cyc.scan, missed |-> Missed, filled |-> {}]
                        /\ UNCHANGED startup
    /\ UNCHANGED <<copies, remote, tree, trusted, recent, tasks>> /\ Quiet

-----------------------------------------------------------------------------
(* Execution: the folders to be created in the cloud before anything else *)

Ready(a) ==
    /\ cyc.pc = "act" /\ a \in cyc.acts
    /\ \/ a.op = "CreateFolder" /\ ~CarriesFile(a)
       \/ \A b \in cyc.acts : b.op = "CreateFolder" => CarriesFile(b)
(* A conflict in its second half is the one that was planned. *)
Planned(a) ==
    [a EXCEPT !.op = IF @ \in {"ConflictDownload", "ConflictUpload"} THEN "CreateConflictCopy" ELSE @]
Done(a, res, id, ver) ==
    cyc' = [cyc EXCEPT !.acts = @ \ {a},
                       !.done = @ \cup {[act |-> Planned(a), res |-> res, id |-> id, ver |-> ver]}]
Succeeds(a) == Done(a, "ok", a.id, a.ver)
Defers(a) == Done(a, "defer", a.id, a.ver)
(* What a call has done in the cloud is known, or the answers are lost. *)
Answered(a, id, ver) ==
    \/ Done(a, "ok", id, ver) /\ UNCHANGED faults
    \/ faults < MaxFaults /\ faults' = faults + 1 /\ Done(a, "defer", id, ver)
Steady == UNCHANGED <<engine, cmd, ghosts, ops>>

(* Anything may fail without an effect; a conflict that has its copy fails by *)
(* itself. *)
Halfway == OfOp(cyc.acts, "ConflictDownload") \cup OfOp(cyc.acts, "ConflictUpload")
ActionFails(a) ==
    /\ Ready(a) /\ Structural(a) /\ a \notin Halfway /\ faults < MaxFaults /\ faults' = faults + 1
    /\ \E res \in {"fail", "defer"} : Done(a, res, a.id, a.ver)
    /\ UNCHANGED <<local, remote, tasks>> /\ Steady

DoCreatePlaceholder(a) ==
    /\ Ready(a) /\ a.op = "CreatePlaceholder"
    /\ IF Here(disk[a.path])
       THEN /\ IF disk[a.path].id = a.id THEN Succeeds(a) ELSE Done(a, "fail", a.id, a.ver)
            /\ UNCHANGED <<disk, touched>>
       ELSE /\ disk' = [WithParents(a.path) EXCEPT ![a.path] = File(0, a.id)]
            /\ touched' = touched \cup InParents({a.path})
            /\ Succeeds(a)
    /\ UNCHANGED <<copies, remote, tasks, faults>> /\ Steady

DoMakeDirectory(a) ==
    /\ Ready(a) /\ a.op = "CreateFolder" /\ CarriesFile(a)
    /\ IF Here(disk[a.path]) /\ ~Binds(disk[a.path], a.id)
       THEN Done(a, "fail", a.id, a.ver) /\ UNCHANGED <<disk, touched>>
       ELSE /\ disk' = [WithParents(a.path) EXCEPT ![a.path] = Directory(a.id)]
            /\ touched' = touched \cup (IF Here(disk[a.path]) THEN {} ELSE InParents({a.path}))
            /\ Succeeds(a)
    /\ UNCHANGED <<copies, remote, tasks, faults>> /\ Steady

(* The folder is created, or found, in the cloud; its baseline is settled at  *)
(* once, so that what goes into it has a parent.  With no identity left to    *)
(* give out the call fails. *)
DoCreateFolder(a) ==
    /\ Ready(a) /\ a.op = "CreateFolder" /\ ~CarriesFile(a)
    /\ IF ~HasRemoteParent(a.path) \/ (At(a.path) = {} /\ Fresh = {})
       THEN Defers(a) /\ UNCHANGED <<disk, touched, remote, rows, tree>>
       ELSE \E i \in IF At(a.path) = {} THEN Fresh ELSE At(a.path) :
            /\ remote' = IF At(a.path) = {} THEN [remote EXCEPT ![i] = Write(i, a.path, 0)] ELSE remote
            /\ IF Binds(disk[a.path], i)
               THEN LET ver == <<0, remote'[i].k>> IN
                    /\ disk' = [disk EXCEPT ![a.path].id = i]
                    /\ rows' = {r \in rows : r.path # a.path} \cup {Row(a.path, i, 0, ver, "synced")}
                    /\ tree' = TreePut(tree, i, a.path, ver)
                    /\ touched' = touched \ {a.path}
                    /\ cyc' = [cyc EXCEPT !.acts = @ \ {a}]
               ELSE Defers(a) /\ UNCHANGED <<disk, touched, rows, tree>>
    /\ UNCHANGED <<copies, trusted, startup, recent, tasks, cmd, ghosts, ops, faults>>

(* The local path still has the identity, the name is not another's. *)
DoMoveInCloud(a) ==
    /\ Ready(a) /\ a.op = "MoveInCloud"
    /\ IF /\ Here(disk[a.path]) /\ disk[a.path].id = a.id /\ Live(a.id)
          /\ HasRemoteParent(a.path) /\ At(a.path) \subseteq {a.id} /\ ~StrictlyUnder(a.path, remote[a.id].path)
       THEN LET old == remote[a.id].path IN
            /\ remote' = [n \in Id |->
                    IF n = a.id THEN Write(n, a.path, remote[n].data)
                    ELSE IF Live(n) /\ Under(remote[n].path, old)
                    THEN [remote[n] EXCEPT !.path = Rebase(@, old, a.path)] ELSE remote[n]]
            /\ Answered(a, a.id, <<remote[a.id].data, remote[a.id].k + 1>>)
       ELSE Defers(a) /\ UNCHANGED <<remote, faults>>
    /\ UNCHANGED <<local, tasks>> /\ Steady

DoDeleteFromCloud(a) ==
    /\ Ready(a) /\ a.op = "DeleteFromCloud"
    /\ remote' = IF Live(a.id) THEN Deleted(remote[a.id].path) ELSE remote
    /\ Answered(a, a.id, a.ver)
    /\ UNCHANGED <<local, tasks>> /\ Steady

(* verify_local_delete_snapshot: all that would go is what was synchronised. *)
Verified_AnyContent(p, orphan) ==
    \A q \in Path : Under(q, p) /\ Here(disk[q]) =>
        \/ orphan /\ IsPlaceholder(disk[q])
        \/ ByPath(rows)[q] # NoRow
Verified(p, orphan) ==
    \A q \in Path : Under(q, p) /\ Here(disk[q]) =>
        \/ orphan /\ IsPlaceholder(disk[q])
        \/ /\ ByPath(rows)[q] # NoRow
           /\ IF q \in Dirs THEN q \notin touched
              ELSE IF IsPlaceholder(disk[q]) THEN TRUE
              ELSE ByPath(rows)[q].seen = disk[q].data

(* Ghost: the identity of what is deleted is not looked at. *)
OthersUnder(p) ==
    {disk[q].id : q \in {q \in Path : /\ Under(q, p) /\ ByPath(rows)[q] # NoRow
                                     /\ disk[q].id # ByPath(rows)[q].id}} \ {NoId}

DoDeleteFromLocal(a) ==
    /\ Ready(a) /\ a.op = "DeleteFromLocal"
    /\ IF Verified(a.path, a.id = NoId) /\ (a.id # NoId => ~Live(a.id))
       THEN /\ disk' = [p \in Path |-> IF Under(p, a.path) THEN Absent ELSE disk[p]]
            /\ touched' = {p \in touched : ~Under(p, a.path)} \cup (IF Here(disk[a.path]) THEN InParents({a.path}) ELSE {})
            /\ astray' = astray \cup OthersUnder(a.path)
            /\ Succeeds(a)
       ELSE Defers(a) /\ UNCHANGED <<disk, touched, astray>>
    /\ UNCHANGED <<copies, remote, engine, tasks, cmd, written, lapsed, removed, ops, faults>>

(* The times decide who wins.  The loser is a copy before the winner takes    *)
(* its place: the file here, or the cloud's version that the plan has seen.   *)
WithCopy(a, op, data) ==
    /\ copies' = copies \cup {data}
    /\ touched' = touched \cup InParents({a.path})
    /\ cyc' = [cyc EXCEPT !.acts = (@ \ {a}) \cup {[a EXCEPT !.op = op]}]
ConflictCopyHere(a) ==
    /\ Ready(a) /\ a.op = "CreateConflictCopy"
    /\ IF disk[a.path].kind = "file" THEN WithCopy(a, "ConflictDownload", disk[a.path].data)
       ELSE Done(a, "fail", a.id, a.ver) /\ UNCHANGED <<touched, copies>>
    /\ UNCHANGED <<disk, remote, tasks, faults>> /\ Steady
ConflictCopyThere(a) ==
    /\ Ready(a) /\ a.op = "CreateConflictCopy"
    /\ IF disk[a.path].kind = "file" /\ Live(a.id) /\ Ver(a.id) = a.ver
       THEN WithCopy(a, "ConflictUpload", a.ver[1])
       ELSE Done(a, "fail", a.id, a.ver) /\ UNCHANGED <<touched, copies>>
    /\ UNCHANGED <<disk, remote, tasks, faults>> /\ Steady

(* Whenever the second half fails the copy is taken for redundant. *)
ConflictFails(a, data) == Done(a, "fail", a.id, a.ver) /\ copies' = copies \ {data}

(* The cloud wins: its version of the plan replaces the file, and is given    *)
(* the identity; when that fails the new content stays, and so does the copy. *)
ConflictDownload(a) ==
    /\ cyc.pc = "act" /\ a.op = "ConflictDownload"
    /\ \/ /\ Live(a.id) /\ Ver(a.id) = a.ver
          /\ \/ /\ Done(a, "ok", a.id, a.ver) /\ UNCHANGED faults
                /\ disk' = [disk EXCEPT ![a.path] = File(remote[a.id].data, a.id)]
             \/ /\ faults < MaxFaults /\ faults' = faults + 1 /\ Done(a, "fail", a.id, a.ver)
                /\ \E id \in {NoId, a.id} :
                      disk' = [disk EXCEPT ![a.path] = File(remote[a.id].data, id)]
          /\ UNCHANGED copies
       \/ /\ \/ (~Live(a.id) \/ Ver(a.id) # a.ver) /\ UNCHANGED faults
             \/ faults < MaxFaults /\ faults' = faults + 1
          /\ ConflictFails(a, disk[a.path].data) /\ UNCHANGED disk
    /\ UNCHANGED <<touched, remote, tasks>> /\ Steady

(* The file here wins: it replaces whatever the cloud has by now, and when    *)
(* the answer is lost the copy of what it replaced goes all the same.         *)
ConflictUpload(a) ==
    /\ cyc.pc = "act" /\ a.op = "ConflictUpload"
    /\ \/ LET data == disk[a.path].data IN
          /\ Live(a.id)
          /\ remote' = [remote EXCEPT ![a.id] = Write(a.id, @.path, data)]
          /\ \/ /\ Done(a, "ok", a.id, <<data, remote[a.id].k + 1>>)
                /\ lapsed' = lapsed \cup ({remote[a.id].data} \ {a.ver[1]})
                /\ UNCHANGED <<copies, faults>>
             \/ /\ faults < MaxFaults /\ faults' = faults + 1
                /\ ConflictFails(a, a.ver[1])
                /\ lapsed' = lapsed \cup {remote[a.id].data, a.ver[1]}
       \/ /\ \/ ~Live(a.id) /\ UNCHANGED faults
             \/ faults < MaxFaults /\ faults' = faults + 1
          /\ ConflictFails(a, a.ver[1]) /\ UNCHANGED <<remote, lapsed>>
    /\ UNCHANGED <<disk, touched, engine, tasks, cmd, written, removed, astray, ops>>

DoBackup(a) ==
    /\ Ready(a) /\ a.op = "BackupBeforeCloudDelete"
    /\ IF disk[a.path].kind = "file"
       THEN /\ copies' = copies \cup {disk[a.path].data}
            /\ disk' = [disk EXCEPT ![a.path] = Absent]
            /\ touched' = touched \cup InParents({a.path})
       ELSE UNCHANGED local
    /\ Succeeds(a)
    /\ UNCHANGED <<remote, tasks, faults>> /\ Steady

-----------------------------------------------------------------------------
(* Transfers: tasks the cycle waits for; one whose answer is lost is parked   *)
(* and verified by a later cycle. *)

(* pending_task_for_action: the snapshot is of now, not of the scan. *)
StartTransfer(a) ==
    /\ Ready(a) /\ a.op \in {"Upload", "Download"}
    /\ IF Busy(a.path, a.id) \/ Held(a.path) \/ disk[a.path].kind # "file" \/ ~HasContent(disk[a.path])
       THEN Defers(a) /\ UNCHANGED <<tasks, lapsed>>
       ELSE LET op == IF a.op = "Download" THEN "DownloadUpdate"
                      ELSE IF a.id = NoId THEN "Create" ELSE "Update"
                data == disk[a.path].data
            IN  /\ cyc' = [cyc EXCEPT !.acts = @ \ {a}]
                /\ tasks' = tasks \cup {Task(op, a.path, a.id, a.ver, data, "cycle")}
                /\ lapsed' = lapsed \cup
                        IF a.op = "Download"
                        THEN {data} \ ({cyc.scan[a.path].data} \ {r.seen : r \in {r \in RowsOf(rows, a.id) : r.madeup}})
                        ELSE {r.ver[1] : r \in {r \in RowsOf(rows, a.id) : r.madeup}}
                             \cup (IF op = "Update" /\ disk[a.path].id # a.id THEN {a.ver[1]} ELSE {})
    /\ UNCHANGED <<local, remote, engine, cmd, written, removed, astray, ops, faults>>

SameSource(t) == disk[t.path].kind = "file" /\ disk[t.path].data = t.snap
ActOf(t) == Act(IF t.op \in {"Create", "Update"} THEN "Upload" ELSE "Download", t.path, t.id, t.ver)

(* The write reaches the cloud. *)
Submit(t) ==
    /\ t.by = "cycle" /\ t.op \in {"Create", "Update"} /\ ~t.made /\ SameSource(t)
    /\ \E i \in IF t.op = "Create" THEN Fresh ELSE {t.id} :
        /\ IF t.op = "Create" THEN At(t.path) = {} /\ HasRemoteParent(t.path)
           ELSE Live(i) /\ Ver(i) = t.ver
        /\ remote' = [remote EXCEPT ![i] =
                Write(i, IF t.op = "Create" THEN t.path ELSE @.path, t.snap)]
        /\ tasks' = (tasks \ {t}) \cup
                {[t EXCEPT !.made = TRUE, !.id = i, !.ver = <<t.snap, remote[i].k + 1>>]}
    /\ UNCHANGED <<local, engine, cyc>> /\ Quiet

OnlyIdentity(p, id) == {r \in rows : ~(r.path = p /\ r.id # id /\ r.status # "deleted")}
(* The row takes the content that was sent, the file takes the identity.      *)
UploadSettled(t) ==
    {r \in OnlyIdentity(t.path, t.id) : r.id # t.id}
    \cup {Row(t.path, t.id, t.snap, t.ver, "synced")}

SettleUpload(t) ==
    /\ t.by = "cycle" /\ t.made
    /\ disk' = IF SameSource(t) THEN [disk EXCEPT ![t.path].id = t.id] ELSE disk
    /\ rows' = UploadSettled(t)
    /\ tasks' = tasks \ {t}
    /\ Done(ActOf(t), "ok", t.id, t.ver)
    /\ UNCHANGED <<touched, copies, remote, tree, trusted, startup, recent>> /\ Quiet

(* The target is what it was when the task was made; a file that was renamed  *)
(* keeps the row of its old path. *)
FinishDownload(t) ==
    /\ t.op \in {"Download", "DownloadUpdate"} /\ Live(t.id) /\ Ver(t.id) = t.ver
    /\ IF t.op = "DownloadUpdate" THEN SameSource(t)
       ELSE Here(disk[t.path]) => IsPlaceholder(disk[t.path]) /\ disk[t.path].id = t.id
    /\ disk' = [WithParents(t.path) EXCEPT ![t.path] = File(remote[t.id].data, t.id)]
    /\ touched' = touched \cup InParents({t.path})
    /\ rows' = IF \E r \in rows : r.id = t.id /\ r.path # t.path THEN rows
               ELSE {r \in OnlyIdentity(t.path, t.id) : ~(r.path = t.path /\ r.id = t.id)}
                    \cup {Row(t.path, t.id, remote[t.id].data, t.ver, "synced")}
    /\ tasks' = tasks \ {t}
    /\ IF t.by = "cycle" THEN Succeeds(ActOf(t))
       ELSE cyc' = IF cyc.pc \in {"act", "settle"} /\ t.path \in cyc.leased
                   THEN [cyc EXCEPT !.filled = @ \cup {t.path}] ELSE cyc
    /\ UNCHANGED <<copies, remote, tree, trusted, startup, recent>> /\ Quiet

(* Failed, or to be planned anew; of a write that was made the answer is lost. *)
GiveUp(t) ==
    /\ tasks' = IF t.made THEN (tasks \ {t}) \cup {[t EXCEPT !.by = "parked"]} ELSE tasks \ {t}
    /\ t.made => t.by = "cycle"
    /\ faults' = IF t.made THEN faults + 1 ELSE faults
    /\ faults' <= MaxFaults
    /\ IF t.by = "cycle" THEN Defers(ActOf(t)) ELSE UNCHANGED cyc
    /\ UNCHANGED <<local, remote, engine, cmd, ghosts, ops>>

(* Verification before the scan: what the cloud has under the name is the     *)
(* task's, and the file is still what was sent. *)
VerifyUpload(t) ==
    /\ cyc.pc = "scan" /\ cyc.left = Path
    /\ t.by = "parked" /\ t.made /\ SameSource(t)
    /\ Live(t.id) /\ remote[t.id].path = t.path /\ Ver(t.id) = t.ver
    /\ tree[t.path].id \in {NoId, t.id}
    /\ disk' = [disk EXCEPT ![t.path].id = t.id]
    /\ rows' = UploadSettled(t)
    /\ tree' = TreePut(tree, t.id, t.path, t.ver)
    /\ tasks' = tasks \ {t}
    /\ UNCHANGED <<touched, copies, remote, trusted, startup, recent, cyc>> /\ Quiet

(* Not to be confirmed any more: the file or the cloud has moved on. *)
AbandonUpload(t) ==
    /\ cyc.pc = "scan" /\ cyc.left = Path
    /\ t.by = "parked"
    /\ t.made => ~SameSource(t) \/ ~Live(t.id) \/ remote[t.id].path # t.path \/ Ver(t.id) # t.ver
    /\ tasks' = tasks \ {t}
    /\ UNCHANGED <<local, remote, engine, cyc>> /\ Quiet

-----------------------------------------------------------------------------
(* Settlement *)

Good(op) == {d \in cyc.done : d.res = "ok" /\ d.act.op = op}
(* What the cloud answered, at its path and at no other. *)
TreeWith(tr, ds) == FoldSet(LAMBDA d, t : TreePut(t, d.id, d.act.path, d.ver), tr, ds)

(* An identity that is twice in the tree, a folder into itself or onto what   *)
(* is not under it, another's path. *)
Refuses(tr, d) ==
    LET p == d.act.path IN
    \/ \E q, r \in TreePaths(tr, d.id) : q # r
    \/ d.id # tr[p].id /\ There(tr[p])
    \/ p \in Dirs /\ \E q \in TreePaths(tr, d.id) \ {p} :
        \/ Under(p, q)
        \/ \E x \in Path : LET to == Rebase(x, q, p) IN
            Under(x, q) /\ There(tr[x]) /\ to \in Path /\ There(tr[to]) /\ ~Under(to, q)
TreeMoved(t, d) ==
    LET p == d.act.path
        from == TreePaths(t.tree, d.id) \ {p}
    IN  IF ~t.ok \/ Refuses(t.tree, d) THEN [t EXCEPT !.ok = FALSE]
        ELSE [t EXCEPT !.tree = TreePut(IF p \in Dirs /\ from # {}
                                        THEN TreeRekeyed(@, CHOOSE q \in from : TRUE, p) ELSE @,
                                        d.id, p, d.ver)]
Recovered == FoldSet(LAMBDA d, t : TreeMoved(t, d), [ok |-> TRUE, tree |-> tree], Good("MoveInCloud"))

(* commit_recovered_cloud_files: moves are in the checkpoint before the rows. *)
CommitCheckpoint ==
    /\ cyc.pc = "act" /\ cyc.acts = {} /\ Awaited = {}
    /\ \/ /\ Recovered.ok /\ tree' = Recovered.tree
          /\ Goto("settle") /\ UNCHANGED <<trusted, faults>>
       \/ /\ \/ ~Recovered.ok /\ UNCHANGED faults
             \/ Good("MoveInCloud") # {} /\ faults < MaxFaults /\ faults' = faults + 1
          /\ trusted' = FALSE /\ cyc' = Idle /\ UNCHANGED tree
    /\ UNCHANGED <<local, remote, rows, startup, recent, tasks, cmd, ghosts, ops>>

(* Rows after one result.  A move has one row to move, that of the beginning  *)
(* of the transaction; a folder takes along what was under it then. *)
RowsMoved_Resynced(rs, d) ==
    LET p == d.act.path IN
    {r \in rs : r.id # d.id /\ ~(r.path = p /\ r.status # "deleted")}
    \cup {Row(p, d.id, disk[p].data, d.ver, "synced")}
RowsMoved(rs, d) ==
    LET p == d.act.path
        base == CHOOSE r \in rows : r.id = d.id
        sub == Subtree(base.path)
    IN  IF base.path \in Dirs THEN (rs \ sub) \cup Rekeyed(sub, {base}, base.path, p, d.ver)
        ELSE {r \in rs : r.id # d.id /\ ~(r.path = p /\ r.status # "deleted")}
             \cup Rekeyed({base}, {base}, base.path, p, d.ver)
RowsMade(rs, d, status) ==
    LET p == d.act.path IN
    {r \in rs : ~(r.path = p /\ (r.id = d.id \/ r.status # "deleted"))}
    \cup {LET seen == IF p \in Dirs THEN 0 ELSE disk[p].data IN
          [Row(p, d.id, seen, d.ver, status) EXCEPT !.madeup =
              seen \notin {0, d.ver[1]} /\ (status = "cloud_only" \/ p \in cyc.filled)]}
RowsGone(rs, d) ==
    LET p == d.act.path  id == d.act.id IN
    IF d.act.op = "DeleteFromCloud" /\ p \in Dirs /\ There(tree[p])
    THEN {r \in rs : ~Under(r.path, p)}
    ELSE {r \in rs : ~(r.path = p /\ (id = NoId \/ r.id = id))}
RowsAfter(rs, d) ==
    IF d.res = "defer" THEN rs
    ELSE IF d.res = "fail"
    THEN {IF d.act.id # NoId /\ r.id = d.act.id /\ r.path = d.act.path
          THEN [r EXCEPT !.status = "failed"] ELSE r : r \in rs}
    ELSE CASE d.act.op \in {"DeleteFromCloud", "DeleteFromLocal", "BackupBeforeCloudDelete"} -> RowsGone(rs, d)
           [] d.act.op \in {"Upload", "Download"} -> rs
           [] d.act.op = "MoveInCloud" -> RowsMoved(rs, d)
           [] d.act.op = "CreatePlaceholder" -> RowsMade(rs, d, "cloud_only")
           [] d.act.op = "CreateConflictCopy" -> RowsMade(rs, d, "conflict")
           [] OTHER -> RowsMade(rs, d, "synced")

(* The transaction fails as a whole. *)
Made == Good("CreatePlaceholder") \cup Good("CreateFolder") \cup Good("CreateConflictCopy")
Settleable ==
    /\ \A d \in Made : Here(disk[d.act.path])
    /\ \A d \in Good("MoveInCloud") :
        /\ Cardinality(RowsOf(rows, d.id)) = 1
        /\ \A r \in RowsOf(rows, d.id) : r.path \in Dirs =>
            /\ d.act.path \in Dirs /\ ~Under(d.act.path, r.path) /\ ~Collides(r.path, d.act.path)
            /\ \A s \in rows : s.path = r.path => s = r
DeletedRoots == {d.act.path : d \in Good("DeleteFromCloud")}

(* apply_results: one transaction, then the tree and the deleted paths. *)
ApplyResults ==
    /\ cyc.pc = "settle"
    /\ IF Settleable
       THEN LET kept == [p \in Path |-> IF \E f \in DeletedRoots :
                             p = f \/ (f \in Dirs /\ There(tree[f]) /\ Under(p, f)) THEN NoEntry ELSE tree[p]]
                sent == Good("Upload") \cup Good("Download") \cup Good("MoveInCloud")
            IN  /\ rows' = FoldSet(LAMBDA d, rs : RowsAfter(rs, d), rows, cyc.done)
                /\ tree' = TreeWith(kept, Made \cup sent)
                /\ recent' = recent \cup {d.act.path : d \in Good("DeleteFromCloud")
                                \cup Good("DeleteFromLocal") \cup Good("BackupBeforeCloudDelete")}
                /\ touched' = touched \ {d.act.path : d \in Good("CreateFolder") \cup Good("MoveInCloud")}
                /\ lapsed' = lapsed \cup ({disk[d.act.path].data : d \in Good("CreatePlaceholder")} \ {0})
                /\ startup' = FALSE
       ELSE UNCHANGED <<rows, tree, recent, touched, lapsed, startup>>
    /\ cyc' = Idle
    /\ UNCHANGED <<disk, copies, remote, trusted, tasks, cmd, written, removed, astray, ops, faults>>

-----------------------------------------------------------------------------
(* The commands of the application's window: drive_delete_file,               *)
(* drive_rename_file and drive_move_file, each with exclusive leases of the   *)
(* paths that the baseline names. *)

Known(i) == RowsOf(rows, i)

(* The file is deleted in the cloud and taken out of the tree, then here, if  *)
(* it is what was synchronised. *)
AppDelete(i) ==
    /\ Operate /\ cmd.pc = "idle" /\ Live(i)
    /\ \E r \in Known(i) :
        /\ ~Locked(r.path) /\ ~Busy(r.path, i)
        /\ cmd' = [pc |-> "deleted", id |-> i, leased |-> {r.path}, path |-> r.path]
    /\ remote' = Deleted(remote[i].path)
    /\ tree' = [p \in Path |-> IF \E f \in TreePaths(tree, i) : Under(p, f) THEN NoEntry ELSE tree[p]]
    /\ LET gone == {n \in Id : Live(n) /\ Under(remote[n].path, remote[i].path)} IN
        /\ written' = written \ {remote[n].data : n \in gone}
        /\ removed' = removed \cup gone
    /\ UNCHANGED <<local, rows, trusted, startup, recent, tasks, cyc, lapsed, astray>>

AppDeleteHere ==
    /\ cmd.pc = "deleted"
    /\ LET p == cmd.path IN
        IF Here(disk[p]) /\ ~Verified(p, FALSE) THEN cmd' = Idle /\ UNCHANGED <<disk, touched, astray>>
        ELSE /\ disk' = [q \in Path |-> IF Under(q, p) THEN Absent ELSE disk[q]]
             /\ touched' = {q \in touched : ~Under(q, p)} \cup (IF Here(disk[p]) THEN InParents({p}) ELSE {})
             /\ astray' = astray \cup OthersUnder(p)
             /\ cmd' = [cmd EXCEPT !.pc = "bury"]
    /\ UNCHANGED <<copies, remote, engine, tasks, cyc, written, lapsed, removed, ops, faults>>

AppBury ==
    /\ cmd.pc = "bury"
    /\ rows' = {IF r.id = cmd.id \/ (cmd.path \in Dirs /\ Under(r.path, cmd.path))
                 THEN [r EXCEPT !.status = "deleted"] ELSE r : r \in rows}
    /\ recent' = recent \cup {cmd.path} /\ cmd' = Idle
    /\ UNCHANGED <<local, remote, tree, trusted, startup, tasks, cyc, ghosts, ops, faults>>

(* ensure_no_db_path_collision and what is on the disk at both ends. *)
MayMove(i, old, q) ==
    /\ old # q /\ ~Under(q, old) /\ ~Collides(old, q)
    /\ Here(disk[q]) => ~Here(disk[old]) /\ disk[q].id = i

(* The file keeps its parent and gets the name, or the name and the parent.   *)
AppMove(i, q) ==
    /\ Operate /\ cmd.pc = "idle" /\ Live(i)
    /\ \E r \in Known(i) :
        /\ ~Locked(r.path) /\ ~Locked(q) /\ ~Busy(r.path, i) /\ ~Busy(q, NoId)
        /\ MayMove(i, r.path, q) /\ (r.path \in Dirs <=> q \in Dirs)
        /\ Here(disk[r.path]) => disk[r.path].id \in {NoId, i}
        /\ disk' = IF Here(disk[r.path]) THEN [disk EXCEPT ![r.path].id = i] ELSE disk
        /\ \E to \in IF ParentOf(q) = ParentOf(r.path)
                      THEN {Append(ParentOf(remote[i].path), Last(q))}
                      ELSE {Append(d, Last(remote[i].path)) :
                            d \in IF Len(q) = 1 THEN {<<>>}
                                  ELSE {remote[n].path : n \in {n \in Id : n = tree[ParentOf(q)].id /\ Live(n)}}} :
            /\ Last(q) = Last(r.path) \/ ParentOf(q) = ParentOf(r.path)
            /\ to \in Path /\ (to \in Dirs <=> q \in Dirs) /\ At(to) = {} /\ ~Under(to, remote[i].path)
            /\ remote' = [n \in Id |->
                    IF n = i THEN Write(i, to, remote[i].data)
                    ELSE IF Live(n) /\ Under(remote[n].path, remote[i].path)
                    THEN [remote[n] EXCEPT !.path = Rebase(@, remote[i].path, to)] ELSE remote[n]]
        /\ cmd' = [pc |-> "moved", id |-> i, leased |-> {r.path, q}, old |-> r.path, path |-> q,
                   ver |-> <<remote[i].data, remote[i].k + 1>>]
    /\ removed' = removed \cup {n \in Id : Live(n) /\ Under(remote[n].path, remote[i].path)}
    /\ UNCHANGED <<touched, copies, engine, tasks, cyc, written, lapsed, astray>>

(* settle_verified_remote_path_change: the row is looked up once more. *)
AppMoveHere ==
    /\ cmd.pc = "moved"
    /\ IF \E r \in Known(cmd.id) : MayMove(cmd.id, r.path, cmd.path)
       THEN \E r \in Known(cmd.id) :
            /\ MayMove(cmd.id, r.path, cmd.path)
            /\ IF Here(disk[r.path]) THEN MoveOnDisk(r.path, cmd.path)
               ELSE /\ disk' = WithParents(cmd.path)
                    /\ touched' = IF HasParent(cmd.path) THEN touched ELSE touched \cup InParents({cmd.path})
            /\ cmd' = [cmd EXCEPT !.pc = "rekey", !.old = r.path]
       ELSE cmd' = Idle /\ UNCHANGED <<disk, touched>>
    /\ UNCHANGED <<copies, remote, engine, tasks, cyc, ghosts, ops, faults>>

(* The rows in a transaction, then the tree. *)
AppRekey ==
    /\ cmd.pc = "rekey"
    /\ LET old == cmd.old  new == cmd.path  sub == Subtree(old) IN
        /\ rows' = (rows \ sub) \cup Rekeyed(sub, RowsOf(sub, cmd.id), old, new, cmd.ver)
        /\ tree' = TreeRekeyed([p \in Path |-> IF Under(p, old) /\ tree[p].id = cmd.id
                                                THEN [id |-> cmd.id, ver |-> cmd.ver] ELSE tree[p]], old, new)
        /\ recent' = recent \cup {old}
        /\ astray' = astray \cup
                IF tree[old].id = cmd.id THEN {} ELSE {tree[p].id : p \in {p \in Path : Under(p, old)}} \ {NoId}
    /\ cmd' = Idle
    /\ UNCHANGED <<local, remote, trusted, startup, tasks, cyc, written, lapsed, removed, ops, faults>>

(* Whatever step fails, the command ends there. *)
AppFails ==
    /\ cmd.pc # "idle" /\ faults < MaxFaults /\ faults' = faults + 1 /\ cmd' = Idle
    /\ UNCHANGED <<local, remote, engine, tasks, cyc, ghosts, ops>>

-----------------------------------------------------------------------------
(* Five minutes later. *)
ForgetRecent ==
    /\ recent # {} /\ recent' = {} /\ cyc.pc = "idle"
    /\ UNCHANGED <<local, remote, rows, tree, trusted, startup, tasks, cyc>> /\ Quiet

(* A lease could not be taken, or the engine is replaced: no side effect. *)
Postpone ==
    /\ cyc.pc = "act" /\ cyc.done = {} /\ Halfway = {} /\ Awaited = {} /\ faults < MaxFaults /\ faults' = faults + 1
    /\ cyc' = Idle
    /\ UNCHANGED <<local, remote, engine, tasks, cmd, ghosts, ops>>

(* What is on disk and in the database survives; the tree is read back, but   *)
(* must catch up before it is planned from. *)
Crash ==
    /\ faults < MaxFaults /\ faults' = faults + 1
    /\ cyc' = Idle /\ cmd' = Idle /\ trusted' = FALSE /\ startup' = TRUE /\ recent' = {}
    /\ tasks' = {[t EXCEPT !.by = "parked"] : t \in {t \in tasks : t.by # "user"}}
    /\ UNCHANGED <<local, remote, rows, tree, ghosts, ops>>

-----------------------------------------------------------------------------

User == \/ \E p \in Path : UserCreate(p) \/ UserEdit(p) \/ UserDelete(p) \/ UserOpen(p)
        \/ \E p, q \in Path : UserRename(p, q) \/ \E keep \in BOOLEAN : UserCopy(p, q, keep)
Others == \/ \E i \in Id : RemoteEdit(i) \/ RemoteDelete(i) \/ \E q \in Path : RemoteMove(i, q)
          \/ \E p \in Path : RemoteCreate(p)
Execute(a) ==
    \/ ActionFails(a) \/ DoCreatePlaceholder(a) \/ DoMakeDirectory(a) \/ DoCreateFolder(a)
    \/ DoMoveInCloud(a) \/ DoDeleteFromCloud(a) \/ DoDeleteFromLocal(a)
    \/ ConflictCopyHere(a) \/ ConflictCopyThere(a) \/ ConflictDownload(a) \/ ConflictUpload(a)
    \/ DoBackup(a) \/ StartTransfer(a)
Cycle ==
    \/ Begin \/ RecoverSkips \/ RecoverRename \/ RecoverRekey \/ PurgeTombstones \/ Scan \/ PlanCycle
    \/ cyc.pc = "act" /\ \E a \in cyc.acts : Execute(a)
    \/ CommitCheckpoint \/ ApplyResults
Transfers == \E t \in tasks :
    \/ Submit(t) \/ SettleUpload(t) \/ FinishDownload(t) \/ GiveUp(t)
    \/ VerifyUpload(t) \/ AbandonUpload(t)
Asked == \E i \in Id : AppDelete(i) \/ \E q \in Path : AppMove(i, q)
Command == AppDeleteHere \/ AppBury \/ AppMoveHere \/ AppRekey \/ AppFails
Next ==
    \/ ops < MaxOps /\ (User \/ Others \/ Asked)
    \/ Cycle \/ Transfers \/ Command \/ ForgetRecent \/ Postpone \/ Crash

Spec == Init /\ [][Next]_vars

-----------------------------------------------------------------------------
(* Properties *)

Kept == {disk[p].data : p \in Path} \cup copies \cup {remote[i].data : i \in Id}

(* What the user or another client wrote, and none of them replaced or        *)
(* deleted, is on the disk, in a copy, in the cloud or in its recycle bin,    *)
(* whatever a cycle decides and wherever it stops.                            *)
EditsKept == written \ lapsed \subseteq Kept

(* The same without the exceptions: neither a download that took an edit made *)
(* after the plan for its expected target overwrites it, nor an upload a      *)
(* version that a move gave the row without its content, nor a conflict that  *)
(* is won here a version later than the one it made a copy of, nor does the   *)
(* copy go when the answer to that upload is lost.                            *)
NoEditOverwritten == written \subseteq Kept

(* A conflict ends with the cloud's version it found in place or in a copy,   *)
(* whoever wins and whatever is heard of the upload.                          *)
ConflictKeepsBoth ==
    [][cyc.pc = "act" /\ cyc'.pc = "act" =>
        \A d \in cyc'.done \ cyc.done : d.act.op = "CreateConflictCopy" =>
            {d.act.ver[1]} \cap written \subseteq Kept']_vars

(* A row that claims to be synchronised pairs a content with a cloud version  *)
(* only if the one is the content of the other: the planner takes both for    *)
(* unchanged on its word.                                                     *)
BaselineTruthful ==
    \A r \in rows : r.seen # 0 /\ r.ver # NoVersion /\ ~r.madeup => r.seen = r.ver[1]

(* Path recovery and moves never make up a baseline. *)
NoFabricatedBaseline == \A r \in rows : r.madeup => r.seen = 0

(* A synchronised file that the engine deletes in the cloud was deleted here  *)
(* by the user, or somebody has touched it in the cloud since, or its content *)
(* is there as another file or a copy: one renamed, copied, moved out of a    *)
(* deleted folder or waiting for its transfer is not deleted.  Except one     *)
(* renamed to a name that is another file's in the cloud or in the baseline,  *)
(* one that was moved while the scan passed by, and a placeholder that was    *)
(* deleted here because it had taken another file's name.                     *)
Removes(i) == cyc' # cyc /\ Live(i) /\ remote'[i].path = <<>>
Spared(data) == data \in copies' \/ \E i \in Id : remote'[i].path \notin Dirs \cup {<<>>} /\ remote'[i].data = data
Displaced(i) == \E p \in Path : /\ cyc.scan[p].id = i
                                 /\ \/ tree[p].id \notin {i, NoId}
                                    \/ ByPath(rows)[p] # NoRow /\ ByPath(rows)[p].id # i
Justified(i) == i \in removed \cup astray \/ Spared(remote[i].data)
CloudDeletesAreUsers ==
    [][\A r \in rows : Removes(r.id) =>
            Justified(r.id) \/ Displaced(r.id) \/ r.id \in cyc.missed]_vars

(* The same without the first two exceptions: a rename is never a deletion.   *)
RenamesAreNotDeletes ==
    [][\A r \in rows : Removes(r.id) => Justified(r.id)]_vars

(* No identity is at two paths of the engine's tree, whatever refreshes,      *)
(* recovered uploads, results and commands put in it: the planner and the     *)
(* recognition of renames look an identity's path up in it.                   *)
OnePathInTree == \A p, q \in Path : There(tree[p]) /\ tree[p].id = tree[q].id => p = q
=============================================================================
