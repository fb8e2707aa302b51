---------------------------- MODULE VirtualDrive ----------------------------
(***************************************************************************)
(* The Linux virtual drive (src/src/virtual_fs/linux.rs): what the kernel's*)
(* requests do to the backing directory, the inode table and the open      *)
(* handles, and how they share paths with the sync engine.                 *)
(*                                                                         *)
(* A request is a task of the runtime and runs in steps; it waits for the  *)
(* namespace lock (a readers-writer lock over the whole mount), for path   *)
(* leases (runtime.rs, EngineMutationCoordinator; the gate itself is       *)
(* ActivityTracker) and for the download that fills a placeholder.  The    *)
(* engine's side is the download task of one cloud file and free-up, each  *)
(* under its own lease.  The per-path hydration lock only spares duplicate *)
(* downloads, which the task runner merges anyway: it is left out, so that *)
(* what holds here does not rest on it.                                    *)
(***************************************************************************)
EXTENDS InodeTable, FiniteSets

CONSTANTS
    Request,    \* requests in flight
    Handle,     \* file handles
    Name,       \* path components
    P0,         \* the path the database records for the one cloud file
    MaxNodes,   \* bound: backing objects alive at once
    MaxInodes,  \* bound: inode numbers
    MaxCalls    \* bound: requests made

ASSUME DriveAssumption ==
    /\ P0 \in {<<n, m>> : n, m \in Name}
    /\ {MaxNodes, MaxInodes, MaxCalls} \subseteq Nat
    /\ MaxNodes >= 2 /\ MaxInodes >= 3  \* the directory and the file it starts with

VARIABLES
    tree,       \* backing directory: path -> object, None if nothing is there
    node,       \* the objects: file or directory, placeholder, fileId, content
    inodes,     \* InodeTable
    handles,    \* open_handles: inode, the object of its descriptor, lease
    req,        \* where each request is
    task,       \* the path the download task is filling, NoPath when none runs
    calls

vars == <<tree, node, inodes, handles, req, task, calls>>

-----------------------------------------------------------------------------
(* Data *)

None == 0
Path == {<<n>> : n \in Name} \cup {<<n, m>> : n, m \in Name}
NoPath == <<"no", "such", "path">>
Overlap(p, q) == Under(p, q) \/ Under(q, p)
Parent(p) == SubSeq(p, 1, Len(p) - 1)

(* An object of the backing directory.  ph: its state xattr says            *)
(* placeholder; own: it carries the cloud file's fileId; synced: its        *)
(* content is what was last downloaded.                                     *)
Directory == [kind |-> "dir", ph |-> FALSE, own |-> FALSE, synced |-> FALSE]
Placeholder == [kind |-> "file", ph |-> TRUE, own |-> TRUE, synced |-> FALSE]
Downloaded == [kind |-> "file", ph |-> FALSE, own |-> TRUE, synced |-> TRUE]
UserFile == [kind |-> "file", ph |-> FALSE, own |-> FALSE, synced |-> FALSE]
Edited(f) == [f EXCEPT !.ph = FALSE, !.synced = FALSE]
Node == [kind : {"dir", "file"}, ph : BOOLEAN, own : BOOLEAN, synced : BOOLEAN]

(* A handle.  node = None is the pending read handle of a placeholder: its *)
(* file is opened when it is first read.  lease: none, shared or excl.     *)
Closed == [open |-> FALSE]
FileHandle_Leaseless(i, n, wr, lease, p) ==
    [open |-> TRUE, ino |-> i, node |-> n, wr |-> wr, lease |-> "none", path |-> p]
FileHandle(i, n, wr, lease, p) ==
    [open |-> TRUE, ino |-> i, node |-> n, wr |-> wr, lease |-> lease, path |-> p]

(* A request.  ns: its guard of the namespace lock; lease and on: its path *)
(* lease; want: the object each path of a change had when it was checked.  *)
Idle == [op |-> "none", pc |-> "idle", ns |-> "none", lease |-> "none", on |-> {}]
Call(op, args) ==
    [op |-> op, pc |-> "ns", ns |-> "none", lease |-> "none", on |-> {},
     args |-> args, path |-> NoPath, dest |-> NoPath, want |-> None,
     wantDest |-> None, todo |-> {}, then |-> "", load |-> NoPath]

At(p) == node[tree[p]]
Exists(p) == p \in Path /\ tree[p] # None
IsFile(p) == Exists(p) /\ At(p).kind = "file"
IsDir(p) == p = Root \/ (Exists(p) /\ At(p).kind = "dir")
IsPlaceholder(p) == IsFile(p) /\ At(p).ph
Children(p) == {q \in Path : tree[q] # None /\ Parent(q) = p}

OpenHandles == {h \in Handle : handles[h].open}
HandlesOf(i) == {h \in OpenHandles : handles[h].ino = i}
Pending == {h \in OpenHandles : handles[h].node = None}
(* A number is never given out twice: one a read still names is not free. *)
FreeHandles ==
    Handle \ (OpenHandles \cup {req[r].args.h : r \in {s \in Request : req[s].op = "read"}})
HasWritable(i) == \E h \in HandlesOf(i) : handles[h].wr

(* The path a request names: a child of an inode that is a directory. *)
Child(i, name) ==
    IF Live(inodes, i) /\ IsDir(inodes.byInode[i]) THEN Append(inodes.byInode[i], name)
    ELSE NoPath

(* The objects something still refers to; any other number is free. *)
InUse ==
    {tree[p] : p \in Path} \cup {handles[h].node : h \in OpenHandles}
        \cup UNION {{req[r].want, req[r].wantDest} : r \in {s \in Request : req[s].pc # "idle"}}
Unused == (1 .. MaxNodes) \ InUse
Fresh == CHOOSE n \in Unused : \A m \in Unused : n <= m

-----------------------------------------------------------------------------
(* Leases and the namespace lock *)

Leased(p, kinds) ==
    \/ \E r \in Request : req[r].lease \in kinds /\ \E q \in req[r].on : Overlap(p, q)
    \/ \E h \in OpenHandles : handles[h].lease \in kinds /\ Overlap(p, handles[h].path)

CanShare(ps) == \A p \in ps : ~Leased(p, {"excl"})
(* The running download holds its path shared. *)
CanExclude(ps) ==
    \A p \in ps : ~Leased(p, {"shared", "excl"}) /\ (task # NoPath => ~Overlap(p, task))

CanRead == \A r \in Request : req[r].ns # "write"
CanWrite == \A r \in Request : req[r].ns = "none"

(* The object a path loses; its number is free once no descriptor is on it. *)
Buried(n, p) ==
    IF tree[p] = None \/ \E h \in OpenHandles : handles[h].node = tree[p] THEN n
    ELSE [n EXCEPT ![tree[p]] = Directory]

Set(r, q) == req' = [req EXCEPT ![r] = q]
(* The reply: the guard and the lease of the request are dropped with it. *)
Reply(r) == Set(r, Idle)

-----------------------------------------------------------------------------
Init ==
    /\ node = [n \in 1 .. MaxNodes |->
                 IF n = 1 THEN Directory ELSE IF n = 2 THEN Placeholder ELSE Directory]
    /\ tree = [p \in Path |-> IF p = Parent(P0) THEN 1 ELSE IF p = P0 THEN 2 ELSE None]
    /\ inodes = Insert(Insert(NewTable, Parent(P0)), P0)
    /\ handles = [h \in Handle |-> Closed]
    /\ req = [r \in Request |-> Idle]
    /\ task = NoPath
    /\ calls = 0

New(r, q) ==
    /\ calls' = calls + 1
    /\ Set(r, q)
    /\ UNCHANGED <<tree, node, inodes, handles, task>>

Fails(r) == Reply(r) /\ UNCHANGED <<tree, node, inodes, handles, task, calls>>
Steps(r, q) == Set(r, q) /\ UNCHANGED <<tree, node, inodes, handles, task, calls>>

-----------------------------------------------------------------------------
(* ensure_hydrated *)

(* It starts with a look at the placeholder; a file that is not one is done. *)
Hydrating(q, p, then) == [q EXCEPT !.pc = "load", !.load = p, !.then = then]

(* ensure_local: the task runner runs one download for the path and merges *)
(* every further request for it.                                           *)
LoadStart(r) ==
    /\ req[r].pc = "load" /\ task = NoPath
    /\ IsPlaceholder(req[r].load)
    /\ CanShare({req[r].load})
    /\ task' = req[r].load
    /\ UNCHANGED <<tree, node, inodes, handles, req, calls>>

LoadDone(r) ==
    /\ req[r].pc = "load"
    /\ IsFile(req[r].load) /\ ~At(req[r].load).ph
    /\ Steps(r, [req[r] EXCEPT !.pc = req[r].then, !.load = NoPath])

(* The file is gone, or no task is left and the placeholder is still there *)
(* (it failed, waits for the network, or eight rounds were not enough).    *)
LoadFail(r) ==
    /\ req[r].pc = "load"
    /\ ~IsFile(req[r].load) \/ (IsPlaceholder(req[r].load) /\ task = NoPath)
    /\ Fails(r)

(* The task: verify_local_destination and the rename of the finished file  *)
(* over the placeholder, or its end without one.                           *)
TaskInstall ==
    /\ task # NoPath /\ IsPlaceholder(task) /\ At(task).own /\ Unused # {}
    /\ node' = Buried([node EXCEPT ![Fresh] = Downloaded], task)
    /\ tree' = [tree EXCEPT ![task] = Fresh]
    /\ task' = NoPath
    /\ UNCHANGED <<inodes, handles, req, calls>>
TaskFail ==
    /\ task # NoPath
    /\ task' = NoPath
    /\ UNCHANGED <<tree, node, inodes, handles, req, calls>>

Promoted_LeaseFirst(i, n) ==
    [h \in Handle |->
        IF h \in Pending /\ handles[h].ino = i
        THEN [handles[h] EXCEPT !.lease = "none"] ELSE handles[h]]
(* prepare_open_handles_before_unlink, once the content is there: every     *)
(* pending handle of the inode gets the descriptor and gives up its lease.  *)
Promoted(i, n) ==
    [h \in Handle |->
        IF h \in Pending /\ handles[h].ino = i
        THEN [handles[h] EXCEPT !.node = n, !.lease = "none"] ELSE handles[h]]

(* One inode after the other: a request at pc is about to promote todo. *)
PromoteNext(r, pc, then) ==
    /\ req[r].pc = pc /\ req[r].todo # {}
    /\ LET i == CHOOSE j \in req[r].todo : \A k \in req[r].todo : j <= k
           rest == [req[r] EXCEPT !.todo = @ \ {i}]
       IN IF ~Live(inodes, i) \/ HandlesOf(i) \cap Pending = {}
          THEN Steps(r, rest)
          ELSE LET p == inodes.byInode[i]
               IN IF ~IsFile(p) THEN Fails(r)
                  ELSE IF At(p).ph
                  THEN Steps(r, Hydrating(req[r], p, pc))
                  ELSE /\ handles' = Promoted(i, tree[p])
                       /\ Set(r, rest)
                       /\ UNCHANGED <<tree, node, inodes, task, calls>>

-----------------------------------------------------------------------------
(* open *)

Open(r, i, wr, trunc) ==
    /\ trunc => wr
    /\ i # RootInode
    /\ New(r, Call("open", [ino |-> i, wr |-> wr, trunc |-> trunc]))

OpenStart(r) ==
    /\ req[r].op = "open" /\ req[r].pc = "ns" /\ CanRead
    /\ LET i == req[r].args.ino
       IN IF ~Live(inodes, i) THEN Fails(r)
          ELSE Steps(r, [req[r] EXCEPT !.ns = "read", !.pc = "shared",
                                       !.path = inodes.byInode[i]])

(* With the shared lease: a writer of a placeholder lets the namespace go  *)
(* and downloads it first; any other writer swaps the lease for an         *)
(* exclusive one; a reader of a placeholder gets a pending handle that     *)
(* keeps the lease, unless it is a background reader, which is refused.    *)
OpenShared(r) ==
    /\ req[r].op = "open" /\ req[r].pc = "shared"
    /\ CanShare({req[r].path})
    /\ LET p == req[r].path
           q == req[r]
       IN \/ ~IsFile(p) /\ Fails(r)
          \/ IsPlaceholder(p) /\ ~q.args.wr /\ Fails(r)
          \/ /\ IsPlaceholder(p) /\ q.args.wr /\ ~q.args.trunc
             /\ Steps(r, Hydrating([q EXCEPT !.ns = "none", !.lease = "shared", !.on = {p}],
                                   p, "renew"))
          \/ /\ IsFile(p) /\ q.args.wr /\ (IsPlaceholder(p) => q.args.trunc)
             /\ Steps(r, [q EXCEPT !.want = tree[p], !.pc = "excl"])
          \/ /\ IsFile(p) /\ ~q.args.wr
             /\ \E h \in FreeHandles :
                   handles' = [handles EXCEPT ![h] =
                      IF IsPlaceholder(p) THEN FileHandle(q.args.ino, None, FALSE, "shared", p)
                      ELSE FileHandle(q.args.ino, tree[p], FALSE, "none", p)]
             /\ Reply(r)
             /\ UNCHANGED <<tree, node, inodes, task, calls>>

(* The writer that downloaded: it takes the namespace lock again for an    *)
(* instant, still under its shared lease, which it then drops.             *)
OpenRenew(r) ==
    /\ req[r].op = "open" /\ req[r].pc = "renew" /\ CanRead
    /\ LET p == req[r].path
       IN IF ~Exists(p) THEN Fails(r)
          ELSE Steps(r, [req[r] EXCEPT !.want = tree[p], !.lease = "none", !.on = {},
                                       !.pc = "excl"])

OpenExclusive_Unverified(r) ==
    /\ req[r].op = "open" /\ req[r].pc = "excl" /\ CanExclude({req[r].path})
    /\ LET p == req[r].path
           q == req[r]
       IN IF ~IsFile(p) THEN Fails(r)
          ELSE /\ \E h \in FreeHandles :
                     handles' = [handles EXCEPT ![h] =
                                   FileHandle(q.args.ino, tree[p], TRUE, "excl", p)]
               /\ node' = IF q.args.trunc THEN [node EXCEPT ![tree[p]] = Edited(@)] ELSE node
               /\ Reply(r)
               /\ UNCHANGED <<tree, inodes, task, calls>>
(* Under the exclusive lease the object must be the one checked, and not a *)
(* placeholder unless it is truncated; the handle keeps the lease.         *)
OpenExclusive(r) ==
    /\ req[r].op = "open" /\ req[r].pc = "excl" /\ CanExclude({req[r].path})
    /\ LET p == req[r].path
           q == req[r]
       IN IF ~Exists(p) \/ tree[p] # q.want \/ (IsPlaceholder(p) /\ ~q.args.trunc)
          THEN Fails(r)
          ELSE /\ \E h \in FreeHandles :
                     handles' = [handles EXCEPT ![h] =
                                   FileHandle(q.args.ino, tree[p], TRUE, "excl", p)]
               /\ node' = IF q.args.trunc THEN [node EXCEPT ![tree[p]] = Edited(@)] ELSE node
               /\ Reply(r)
               /\ UNCHANGED <<tree, inodes, task, calls>>

-----------------------------------------------------------------------------
(* read, write, release *)

(* read of a handle whose descriptor is there changes nothing and is not a *)
(* step; this is the first read of a pending handle (opened_file).         *)
Read(r, h) == New(r, Call("read", [h |-> h, ino |-> handles[h].ino]))

StillOpen(q) == q.args.h \in HandlesOf(q.args.ino)

ReadStart(r) ==
    /\ req[r].op = "read" /\ req[r].pc = "ns" /\ CanRead
    /\ LET q == req[r]
           i == q.args.ino
       IN IF ~StillOpen(q) \/ q.args.h \notin Pending \/ ~Live(inodes, i) THEN Fails(r)
          ELSE LET p == inodes.byInode[i]
               IN \/ ~IsFile(p) /\ Fails(r)
                  \/ IsPlaceholder(p) /\ Fails(r)  \* a background reader
                  \/ IsPlaceholder(p)
                     /\ Steps(r, Hydrating([q EXCEPT !.path = p], p, "renew"))
                  \/ IsFile(p) /\ ~IsPlaceholder(p)
                     /\ Steps(r, [q EXCEPT !.path = p, !.ns = "read", !.pc = "fill"])

ReadRenew(r) ==
    /\ req[r].op = "read" /\ req[r].pc = "renew" /\ CanRead
    /\ Steps(r, [req[r] EXCEPT !.pc = "fill"])

(* Open what is at the path now; a handle promoted meanwhile keeps the file *)
(* it was promoted to.                                                      *)
ReadFill(r) ==
    /\ req[r].op = "read" /\ req[r].pc = "fill"
    /\ LET q == req[r]
       IN IF IsFile(q.path) /\ StillOpen(q) /\ q.args.h \in Pending
          THEN /\ handles' = [handles EXCEPT ![q.args.h].node = tree[q.path],
                                             ![q.args.h].lease = "none"]
               /\ Reply(r)
               /\ UNCHANGED <<tree, node, inodes, task, calls>>
          ELSE Fails(r)

(* write, and ftruncate through a writable handle: to its own object. *)
Write(h) ==
    /\ h \in OpenHandles /\ handles[h].wr
    /\ node' = [node EXCEPT ![handles[h].node] = Edited(@)]
    /\ node' # node
    /\ UNCHANGED <<tree, inodes, handles, req, task, calls>>

Release(h) ==
    /\ h \in OpenHandles
    /\ handles' = [handles EXCEPT ![h] = Closed]
    /\ UNCHANGED <<tree, node, inodes, req, task, calls>>

-----------------------------------------------------------------------------
(* lookup: no lock between the look at the object and the inode's number *)

Lookup(r, p) ==
    /\ Exists(p) /\ ~Knows(inodes, p)
    /\ New(r, [Call("lookup", <<>>) EXCEPT !.path = p, !.pc = "insert"])
LookupInsert(r) ==
    /\ req[r].op = "lookup"
    /\ inodes.next < MaxInodes
    /\ inodes' = Insert(inodes, req[r].path)
    /\ Reply(r)
    /\ UNCHANGED <<tree, node, handles, task, calls>>

-----------------------------------------------------------------------------
(* create and mkdir *)

(* The kernel asks for a new name where its lookup found nothing, and to    *)
(* remove or rename what it found; both may have changed when it is served. *)
Make(r, i, name, dir) ==
    /\ Child(i, name) \in Path /\ ~Exists(Child(i, name))
    /\ New(r, Call("make", [ino |-> i, name |-> name, dir |-> dir]))

MakeStart(r) ==
    /\ req[r].op = "make" /\ req[r].pc = "ns" /\ CanWrite
    /\ LET p == Child(req[r].args.ino, req[r].args.name)
       IN IF p \notin Path THEN Fails(r)
          ELSE Steps(r, [req[r] EXCEPT !.ns = "write", !.path = p, !.pc = "excl"])

(* create_new, the inode, and the handle that keeps the lease; or mkdir. *)
MakeExclusive(r) ==
    /\ req[r].op = "make" /\ req[r].pc = "excl" /\ CanExclude({req[r].path})
    /\ LET p == req[r].path
       IN IF Exists(p) \/ ~IsDir(Parent(p)) THEN Fails(r)
          ELSE /\ Unused # {} /\ inodes.next < MaxInodes
               /\ node' = [node EXCEPT ![Fresh] =
                             IF req[r].args.dir THEN Directory ELSE UserFile]
               /\ tree' = [tree EXCEPT ![p] = Fresh]
               /\ inodes' = Insert(inodes, p)
               /\ IF req[r].args.dir THEN UNCHANGED handles
                  ELSE \E h \in FreeHandles :
                          handles' = [handles EXCEPT ![h] =
                             FileHandle(inodes'.byPath[p], Fresh, TRUE, "excl", p)]
               /\ Reply(r)
               /\ UNCHANGED <<task, calls>>

-----------------------------------------------------------------------------
(* unlink and rmdir *)

Remove(r, i, name, dir) ==
    /\ Exists(Child(i, name)) /\ IsDir(Child(i, name)) = dir
    /\ New(r, Call("remove", [ino |-> i, name |-> name, dir |-> dir]))

RemoveStart(r) ==
    /\ req[r].op = "remove" /\ req[r].pc = "ns" /\ CanWrite
    /\ LET p == Child(req[r].args.ino, req[r].args.name)
           q == [req[r] EXCEPT !.ns = "write", !.path = p, !.pc = "shared"]
       IN IF ~Exists(p) \/ IsDir(p) # req[r].args.dir THEN Fails(r)
          ELSE IF req[r].args.dir THEN Steps(r, q)
          ELSE /\ Knows(inodes, p) \/ inodes.next < MaxInodes
               /\ inodes' = Insert(inodes, p)
               /\ Set(r, IF HasWritable(inodes'.byPath[p]) THEN Idle ELSE q)
               /\ UNCHANGED <<tree, node, handles, task, calls>>

(* A file's pending handles get their content before the file goes. *)
RemoveShared(r) ==
    /\ req[r].op = "remove" /\ req[r].pc = "shared" /\ CanShare({req[r].path})
    /\ Steps(r, [req[r] EXCEPT !.lease = "shared", !.on = {req[r].path}, !.pc = "promote",
                    !.todo = IF req[r].args.dir THEN {} ELSE {inodes.byPath[req[r].path]}])

RemovePromote(r) ==
    /\ req[r].op = "remove"
    /\ \/ PromoteNext(r, "promote", "promote")
       \/ /\ req[r].pc = "promote" /\ req[r].todo = {}
          /\ IF ~Exists(req[r].path) THEN Fails(r)
             ELSE Steps(r, [req[r] EXCEPT !.want = tree[req[r].path], !.lease = "none",
                                          !.on = {}, !.pc = "excl"])

RemoveExclusive(r) ==
    /\ req[r].op = "remove" /\ req[r].pc = "excl" /\ CanExclude({req[r].path})
    /\ LET p == req[r].path
       IN IF tree[p] # req[r].want \/ Children(p) # {} THEN Fails(r)
          ELSE /\ tree' = [tree EXCEPT ![p] = None]
               /\ node' = Buried(node, p)
               /\ inodes' = RemoveSubtree(inodes, p)
               /\ Reply(r)
               /\ UNCHANGED <<handles, task, calls>>

-----------------------------------------------------------------------------
(* rename *)

Rename(r, i, name, j, newname) ==
    /\ Exists(Child(i, name)) /\ Child(j, newname) \in Path
    /\ New(r, Call("rename", [ino |-> i, name |-> name, ino2 |-> j, name2 |-> newname]))

RenameStart(r) ==
    /\ req[r].op = "rename" /\ req[r].pc = "ns" /\ CanWrite
    /\ LET a == req[r].args
           s == Child(a.ino, a.name)
           d == Child(a.ino2, a.name2)
       IN IF s \notin Path \/ d \notin Path \/ s = d THEN Fails(r)
          ELSE Steps(r, [req[r] EXCEPT !.ns = "write", !.path = s, !.dest = d,
                                       !.pc = "shared"])

(* promote_pending_handles_in_subtree *)
PendingBelow(s) ==
    {i \in {handles[h].ino : h \in Pending} : Live(inodes, i) /\ Under(inodes.byInode[i], s)}

RenameShared(r) ==
    /\ req[r].op = "rename" /\ req[r].pc = "shared"
    /\ CanShare({req[r].path, req[r].dest})
    /\ LET s == req[r].path
           d == req[r].dest
       IN IF ~Exists(s) \/ (IsDir(s) /\ Under(d, s)) \/ (\E q \in Children(s) : Len(d) = 2)
          THEN Fails(r)
          ELSE /\ Knows(inodes, s) \/ inodes.next < MaxInodes
               /\ inodes' = Insert(inodes, s)
               /\ Set(r, IF HasWritable(inodes'.byPath[s]) THEN Idle
                         ELSE [req[r] EXCEPT !.lease = "shared", !.on = {s, d},
                                  !.pc = "promote", !.todo = PendingBelow(s)])
               /\ UNCHANGED <<tree, node, handles, task, calls>>

(* What is at the destination may only be a file that is not another cloud *)
(* file and that nobody writes; its pending handles are promoted too.      *)
Replaceable(s, d) ==
    /\ IsFile(s) /\ IsFile(d)
    /\ At(s).own => At(d).own

RenamePromote(r) ==
    /\ req[r].op = "rename"
    /\ \/ PromoteNext(r, "promote", "promote")
       \/ /\ req[r].pc = "promote" /\ req[r].todo = {}
          /\ LET s == req[r].path
                 d == req[r].dest
                 q == [req[r] EXCEPT !.want = tree[s], !.pc = "dest"]
             IN IF ~Exists(s) THEN Fails(r)
                ELSE IF ~Exists(d) THEN Steps(r, q)
                ELSE IF ~Replaceable(s, d) THEN Fails(r)
                ELSE /\ Knows(inodes, d) \/ inodes.next < MaxInodes
                     /\ inodes' = Insert(inodes, d)
                     /\ Set(r, IF HasWritable(inodes'.byPath[d]) THEN Idle
                               ELSE [q EXCEPT !.todo = {inodes'.byPath[d]}])
                     /\ UNCHANGED <<tree, node, handles, task, calls>>

RenameDest(r) ==
    /\ req[r].op = "rename"
    /\ \/ PromoteNext(r, "dest", "dest")
       \/ /\ req[r].pc = "dest" /\ req[r].todo = {}
          /\ Steps(r, [req[r] EXCEPT !.wantDest = tree[req[r].dest], !.lease = "none",
                                     !.on = {}, !.pc = "excl"])

(* prepare_rename_identity: the source is the cloud file if the database   *)
(* records its path or it carries the fileId, and is then made to carry    *)
(* it; a destination the cloud file is recorded at takes the cloud file or *)
(* an editor's plain file saved over it.                                   *)
IsCloudFile(s) == s = P0 \/ At(s).own
IdentityAllows(s, d) ==
    /\ s = P0 => IsFile(s)
    /\ d = P0 /\ ~IsCloudFile(s) => IsFile(s) /\ IsFile(d)

(* Where everything at or below the source is after rename_beneath. *)
TreeAfter(s, d) ==
    [p \in Path |->
        IF Under(p, d) THEN LET o == s \o SubSeq(p, Len(d) + 1, Len(p))
                            IN IF o \in Path THEN tree[o] ELSE None
        ELSE IF Under(p, s) THEN None ELSE tree[p]]

RenameExclusive(r) ==
    /\ req[r].op = "rename" /\ req[r].pc = "excl"
    /\ CanExclude({req[r].path, req[r].dest})
    /\ LET s == req[r].path
           d == req[r].dest
       IN IF tree[s] # req[r].want \/ tree[d] # req[r].wantDest \/ ~IdentityAllows(s, d)
          THEN Fails(r)
          ELSE /\ node' = Buried([node EXCEPT ![tree[s]].own = IsCloudFile(s)], d)
               /\ tree' = TreeAfter(s, d)
               /\ Set(r, [req[r] EXCEPT !.lease = "excl", !.on = {s, d}, !.pc = "remap",
                                        !.want = None, !.wantDest = None])
               /\ UNCHANGED <<inodes, handles, task, calls>>

(* A lookup may come between the rename and the table's. *)
RenameRemap(r) ==
    /\ req[r].op = "rename" /\ req[r].pc = "remap"
    /\ inodes' = RenameSubtree(inodes, req[r].path, req[r].dest)
    /\ Reply(r)
    /\ UNCHANGED <<tree, node, handles, task, calls>>

-----------------------------------------------------------------------------
(* setattr by path: a size (zero or more), or only times and modes *)

SetAttr(r, i, size) ==
    /\ i # RootInode
    /\ New(r, Call("setattr", [ino |-> i, size |-> size]))

SetAttrStart(r) ==
    /\ req[r].op = "setattr" /\ req[r].pc = "ns" /\ CanWrite
    /\ LET i == req[r].args.ino
       IN IF ~Live(inodes, i) THEN Fails(r)
          ELSE LET p == inodes.byInode[i]
               IN IF ~Exists(p) THEN Fails(r)
                  ELSE Steps(r, [req[r] EXCEPT !.ns = "write", !.path = p, !.pc = "shared"])

SetAttrShared(r) ==
    /\ req[r].op = "setattr" /\ req[r].pc = "shared" /\ CanShare({req[r].path})
    /\ Steps(r, [req[r] EXCEPT !.lease = "shared", !.on = {req[r].path}, !.pc = "promote",
                               !.todo = {req[r].args.ino}])

(* A size above zero needs the content. *)
SetAttrPromote(r) ==
    /\ req[r].op = "setattr"
    /\ \/ PromoteNext(r, "promote", "promote")
       \/ /\ req[r].pc = "promote" /\ req[r].todo = {}
          /\ LET p == req[r].path
             IN IF ~Exists(p) THEN Fails(r)
                ELSE IF req[r].args.size = "some" /\ IsPlaceholder(p)
                THEN Steps(r, Hydrating(req[r], p, "promote"))
                ELSE Steps(r, [req[r] EXCEPT !.want = tree[p], !.lease = "none", !.on = {},
                                             !.pc = "excl"])

SetAttrExclusive(r) ==
    /\ req[r].op = "setattr" /\ req[r].pc = "excl" /\ CanExclude({req[r].path})
    /\ LET p == req[r].path
       IN IF tree[p] # req[r].want \/ req[r].args.size = "keep" \/ IsDir(p) THEN Fails(r)
          ELSE /\ node' = [node EXCEPT ![tree[p]] = Edited(@)]
               /\ Reply(r)
               /\ UNCHANGED <<tree, inodes, handles, task, calls>>

-----------------------------------------------------------------------------
(* The engine's free-up of a clean file, under an exclusive lease; its steps *)
(* and crashes are module LocalCopy's.                                       *)
FreeUp(p) ==
    /\ p = P0 /\ IsFile(p) /\ At(p).own /\ At(p).synced
    /\ CanExclude({p}) /\ Unused # {}
    /\ node' = Buried([node EXCEPT ![Fresh] = Placeholder], p)
    /\ tree' = [tree EXCEPT ![p] = Fresh]
    /\ UNCHANGED <<inodes, handles, req, task, calls>>

-----------------------------------------------------------------------------
Ask(r) ==
    /\ req[r].pc = "idle" /\ calls < MaxCalls
    /\ \/ \E i \in GivenOut(inodes), wr, trunc \in BOOLEAN : Open(r, i, wr, trunc)
       \/ \E h \in Pending : Read(r, h)
       \/ \E p \in Path : Lookup(r, p)
       \/ \E i \in GivenOut(inodes), n \in Name, dir \in BOOLEAN :
             Make(r, i, n, dir) \/ Remove(r, i, n, dir)
       \/ \E i, j \in GivenOut(inodes), n, m \in Name : Rename(r, i, n, j, m)
       \/ \E i \in GivenOut(inodes), size \in {"zero", "some", "keep"} : SetAttr(r, i, size)

Run(r) ==
    \/ LoadStart(r) \/ LoadDone(r) \/ LoadFail(r)
    \/ OpenStart(r) \/ OpenShared(r) \/ OpenRenew(r) \/ OpenExclusive(r)
    \/ ReadStart(r) \/ ReadRenew(r) \/ ReadFill(r)
    \/ LookupInsert(r)
    \/ MakeStart(r) \/ MakeExclusive(r)
    \/ RemoveStart(r) \/ RemoveShared(r) \/ RemovePromote(r) \/ RemoveExclusive(r)
    \/ RenameStart(r) \/ RenameShared(r) \/ RenamePromote(r) \/ RenameDest(r)
    \/ RenameExclusive(r) \/ RenameRemap(r)
    \/ SetAttrStart(r) \/ SetAttrShared(r) \/ SetAttrPromote(r) \/ SetAttrExclusive(r)

Next ==
    \/ \E r \in Request : Ask(r) \/ Run(r)
    \/ \E h \in Handle : Write(h) \/ Release(h)
    \/ TaskInstall \/ TaskFail
    \/ FreeUp(P0)

Spec == Init /\ [][Next]_vars

-----------------------------------------------------------------------------
(* Properties *)

(* Every variable keeps its type; a handle holds the lease its kind of open *)
(* is for, and a pending one gives it up with its first descriptor.         *)
TypeOK ==
    /\ tree \in [Path -> 0 .. MaxNodes]
    /\ node \in [1 .. MaxNodes -> Node]
    /\ GivenOut(inodes) \subseteq 1 .. MaxInodes
    /\ \A h \in OpenHandles :
          /\ handles[h].node \in 0 .. MaxNodes
          /\ handles[h].lease = IF handles[h].wr THEN "excl"
                                ELSE IF handles[h].node = None THEN "shared" ELSE "none"
    /\ task \in Path \cup {NoPath}
    /\ calls \in 0 .. MaxCalls

(* A writer never writes into a file that is no longer there: whatever     *)
(* renames, unlinks, downloads and free-ups run, the path of a writable    *)
(* handle's inode holds the object the handle writes to.                   *)
WriterHolds ==
    \A h \in OpenHandles : handles[h].wr =>
        /\ Live(inodes, handles[h].ino)
        /\ tree[inodes.byInode[handles[h].ino]] = handles[h].node

(* A pending handle still stands for the cloud file it was opened on: its  *)
(* inode leads to a file that carries the fileId, so that the first read   *)
(* downloads that file and no other.                                       *)
PendingFaithful ==
    \A h \in Pending :
        /\ Live(inodes, handles[h].ino)
        /\ IsFile(inodes.byInode[handles[h].ino])
        /\ At(inodes.byInode[handles[h].ino]).own

(* No descriptor a program reads from is on a placeholder: nobody ever     *)
(* reads the empty stand-in as the file's content.                         *)
ReadsTrue == \A h \in OpenHandles : handles[h].node # None => ~node[handles[h].node].ph

(* The table's two maps stay exact whatever lookups, renames and unlinks   *)
(* interleave: no inode leads to a path that leads to another inode.       *)
InodesExact == Exact(inodes)

(* Nobody waits for ever: a request that holds a path lease and waits for  *)
(* the namespace lock never waits for a request that holds that lock and   *)
(* waits to have the path to itself.                                       *)
NoEmbrace ==
    \A r, s \in Request :
        ~ /\ req[r].pc = "renew" /\ req[r].lease = "shared"
          /\ req[s].ns = "write" /\ req[s].pc = "excl"
          /\ \E p \in req[r].on, q \in {req[s].path, req[s].dest} : Overlap(p, q)
=============================================================================
