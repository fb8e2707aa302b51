--------------------------- MODULE CloudCheckpoint ---------------------------
(***************************************************************************)
(* The engine's picture of the cloud (src/src/sync/engine/cache.rs,          *)
(* src/src/sync/cloud_tree.rs, src/src/drive/changes_api.rs): a tree, the    *)
(* cursor of the change log it stands for, its copy on disk and whether it   *)
(* may be planned from.  A full refresh lists folder after folder and then   *)
(* replays the log from where it stood before; an incremental one replays    *)
(* from the tree's own cursor.  Other clients change the cloud all the       *)
(* while, and results of this client's own writes enter the tree at once.    *)
(*                                                                         *)
(* A place is a parent; renames and moves are one operation, since both      *)
(* only change the path.  A cursor is a position in the log.                 *)
(***************************************************************************)
EXTENDS Integers, FiniteSets, SequencesExt

CONSTANTS
    Id,         \* fileIds
    Folder,     \* the ones that are folders
    NameOf,     \* their names, which moves do not change
    Start,      \* where each identity is at first, and its version
    Root,       \* the root folder
    Gone,       \* the place of what was deleted or not created yet
    Threshold,  \* incremental refreshes between two full ones
    Retries,    \* times the listing of a folder is repeated
    MaxOps,     \* bound: length of the change log
    MaxFaults   \* bound: failing calls and crashes

ASSUME CheckpointAssumption ==
    /\ IsFiniteSet(Id) /\ Folder \subseteq Id /\ Root \notin Id /\ Gone \notin Id \cup {Root}
    /\ Start \in [Id -> [parent : Folder \cup {Root, Gone}, ver : Nat]]
    /\ {Threshold, Retries, MaxOps, MaxFaults} \subseteq Nat

VARIABLES
    cloud,      \* where each identity is in the cloud, and its version
    log,        \* its changes: an identity, its new parent and version
    live,       \* the checkpoint in memory
    trusted,    \* it may be planned from
    saved,      \* the checkpoint on disk
    sinceFull,  \* incremental_since_full
    startup,    \* no refresh of this process has got through yet
    cyc,        \* the running cycle
    bg,         \* a retried upload or a move by command, with its own result
    since,      \* ghost: length of the log when the tree was last distrusted
    faults

vars == <<cloud, log, live, trusted, saved, sinceFull, startup, cyc, bg, since, faults>>

-----------------------------------------------------------------------------
(* The cloud *)

(* <<>> is the path of what is not there, nor is anything inside it. *)
PathIn(R) ==
    LET path[i \in Id] ==
            IF R[i].parent = Root THEN <<NameOf[i]>>
            ELSE IF R[i].parent = Gone THEN <<>>
            ELSE LET above == path[R[i].parent] IN
                 IF above = <<>> THEN <<>> ELSE Append(above, NameOf[i])
    IN  path
Entry(p, i, v) == [path |-> p, id |-> i, ver |-> v]
Image(R) == LET at == PathIn(R) IN {Entry(at[i], i, R[i].ver) : i \in {i \in Id : at[i] # <<>>}}

Live(i) == PathIn(cloud)[i] # <<>>
Holds(d) == d = Root \/ (d \in Folder /\ Live(d))
(* i and what is inside it. *)
Within(i) == LET at == PathIn(cloud) IN {j \in Id : at[i] # <<>> /\ at[j] # <<>> /\ IsPrefix(at[i], at[j])}
(* Nothing else of that name is there: two of one name are left out. *)
Vacant(d, i) == \A j \in Id \ {i} : Live(j) /\ cloud[j].parent = d => NameOf[j] # NameOf[i]

Change(i, d, v) == [id |-> i, parent |-> d, ver |-> v]

-----------------------------------------------------------------------------
(* Trees: sets of entries, one per path *)

PathsOf(tree, i) == {e.path : e \in {e \in tree : e.id = i}}
Subtree(tree, p) == {e \in tree : IsPrefix(p, e.path)}
Put(tree, e) == {x \in tree : x.path # e.path} \cup {e}
Retarget(p, old, new) == new \o SubSeq(p, Len(old) + 1, Len(p))
Rekeyed(tree, old, new) ==
    (tree \ Subtree(tree, old)) \cup {[e EXCEPT !.path = Retarget(@, old, new)] : e \in Subtree(tree, old)}
(* Something that does not move itself is where a moved entry would go. *)
Clash(tree, old, new) ==
    \E e \in Subtree(tree, old), x \in tree \ Subtree(tree, old) : x.path = Retarget(e.path, old, new)
Distinct(tree) == \A e, x \in tree : e.id = x.id => e = x

Checkpoint(tree, cursor, root, off) == [tree |-> tree, cursor |-> cursor, root |-> root, off |-> off]
NoCheckpoint == Checkpoint({}, -1, FALSE, {})
Idle == [pc |-> "idle"]
NoWrite == [op |-> "none", id |-> Root, from |-> <<>>, to |-> <<>>, ver |-> 0, late |-> FALSE]

Init ==
    /\ cloud = Start /\ log = <<>> /\ saved = NoCheckpoint /\ live = NoCheckpoint /\ trusted = FALSE
    /\ sinceFull = 0 /\ startup = TRUE /\ cyc = Idle /\ bg = NoWrite /\ since = 0 /\ faults = 0

-----------------------------------------------------------------------------
(* Changes of the cloud, by others and by this client's calls *)

Writes(i, d, v) ==
    /\ Len(log) < MaxOps /\ log' = Append(log, Change(i, d, v))
    /\ cloud' = [cloud EXCEPT ![i] = [parent |-> d, ver |-> v]]

(* What moves while a full refresh lists may be met twice or never: off. *)
Moving(i) ==
    cyc' = IF cyc.pc = "list" THEN [cyc EXCEPT !.off = @ \cup Within(i)] ELSE cyc

CreateThere(i, d) == ~Live(i) /\ cloud[i].parent = Gone /\ cloud[i].ver = 0 /\ Holds(d) /\ Vacant(d, i) /\ Writes(i, d, 1)
EditThere(i) == i \notin Folder /\ Live(i) /\ Writes(i, cloud[i].parent, cloud[i].ver + 1)
MoveThere(i, d) ==
    /\ Live(i) /\ Holds(d) /\ cloud[i].parent # d /\ d \notin Within(i) /\ Vacant(d, i)
    /\ Writes(i, d, cloud[i].ver)
DeleteThere(i) == Live(i) /\ Writes(i, Gone, cloud[i].ver)

Others ==
    /\ \/ /\ \E i \in Id, d \in Folder \cup {Root} : CreateThere(i, d)
          /\ UNCHANGED cyc
       \/ /\ \E i \in Id : EditThere(i) \/ DeleteThere(i)
          /\ UNCHANGED cyc
       \/ \E i \in Id, d \in Folder \cup {Root} : MoveThere(i, d) /\ Moving(i)
    /\ UNCHANGED <<live, trusted, saved, sinceFull, startup, bg, since, faults>>

-----------------------------------------------------------------------------
(* A refresh begins *)

Distrust == trusted' = FALSE /\ since' = Len(log)
Fault == faults < MaxFaults /\ faults' = faults + 1
(* The cycle ends with an error and its request is put back. *)
RefreshFails == cyc' = Idle /\ Distrust /\ UNCHANGED <<cloud, log, live, saved, sinceFull, startup, bg>>

(* get_start_cursor comes before the first folder. *)
Listing ==
    [pc |-> "list", start |-> Len(log), tree |-> {}, root |-> FALSE, visited |-> {}, off |-> {},
     batch |-> {[id |-> Root, path |-> <<>>, retries |-> 0]}, queue |-> {}]
Reading(kind, from, tree, root, off) ==
    [pc |-> "read", kind |-> kind, cursor |-> from, changes |-> <<>>, tree |-> tree, root |-> root, off |-> off]
CatchingUp(from) == Reading("incremental", from, {}, FALSE, {})

MayCatchUp == live.cursor # -1 /\ sinceFull < Threshold

(* What is on disk is taken for caught up. *)
Load_Trusting ==
    /\ cyc.pc = "idle" /\ startup
    /\ IF saved = NoCheckpoint THEN live' = live /\ cyc' = Listing /\ trusted' = FALSE
       ELSE /\ live' = saved /\ trusted' = TRUE
            /\ cyc' = IF sinceFull < Threshold THEN CatchingUp(saved.cursor) ELSE Listing
    /\ since' = Len(log)
    /\ UNCHANGED <<cloud, log, saved, sinceFull, startup, bg, faults>>
(* The start-up cycle installs what is on disk, which is trusted only when   *)
(* it has caught up.  install_cloud_checkpoint sets the flag and the next    *)
(* line clears it; only cycles read it, and this is the one: a single step.  *)
Load ==
    /\ cyc.pc = "idle" /\ startup
    /\ IF saved = NoCheckpoint THEN live' = live /\ cyc' = Listing
       ELSE live' = saved /\ cyc' = IF sinceFull < Threshold THEN CatchingUp(saved.cursor) ELSE Listing
    /\ Distrust
    /\ UNCHANGED <<cloud, log, saved, sinceFull, startup, bg, faults>>

Refresh ==
    /\ cyc.pc = "idle" /\ ~startup
    /\ cyc' = IF MayCatchUp THEN CatchingUp(live.cursor) ELSE Listing
    /\ UNCHANGED <<cloud, log, live, trusted, saved, sinceFull, startup, bg, since, faults>>

(* A full refresh that was asked for. *)
RefreshFull ==
    /\ cyc.pc = "idle" /\ ~startup /\ MayCatchUp
    /\ cyc' = Listing
    /\ UNCHANGED <<cloud, log, live, trusted, saved, sinceFull, startup, bg, since, faults>>

-----------------------------------------------------------------------------
(* The listing: folders of one batch at a time, in any order *)

(* The replay begins where the listing ends. *)
Turn_LateCursor(c) ==
    IF c.batch # {} THEN c
    ELSE IF c.queue # {} THEN [c EXCEPT !.batch = c.queue, !.queue = {}]
    ELSE Reading("full", Len(log), c.tree, c.root, c.off)
(* A batch is what was found while the one before was listed. *)
Turn(c) ==
    IF c.batch # {} THEN c
    ELSE IF c.queue # {} THEN [c EXCEPT !.batch = c.queue, !.queue = {}]
    ELSE Reading("full", c.start, c.tree, c.root, c.off)

Listed(node) ==
    LET inside == {i \in Id : cloud[i].parent = node.id}
        found == {Entry(Append(node.path, NameOf[i]), i, cloud[i].ver) : i \in inside}
        fresh == (inside \cap Folder) \ cyc.visited
    IN  [cyc EXCEPT !.batch = @ \ {node},
                    !.tree = {e \in @ : \A x \in found : x.path # e.path} \cup found,
                    !.root = IF node.id = Root THEN inside # {} ELSE @,
                    !.visited = @ \cup fresh,
                    !.queue = @ \cup {[id |-> i, path |-> Append(node.path, NameOf[i]), retries |-> 0] : i \in fresh}]

List(node) ==
    /\ cyc.pc = "list" /\ node \in cyc.batch /\ Holds(node.id)
    /\ cyc' = Turn(Listed(node))
    /\ UNCHANGED <<cloud, log, live, trusted, saved, sinceFull, startup, bg, since, faults>>

(* A folder that is gone, or a call that fails, is asked for again at the    *)
(* end of the queue; then the whole refresh fails. *)
ListFails(node) ==
    /\ cyc.pc = "list" /\ node \in cyc.batch
    /\ IF Holds(node.id) THEN Fault ELSE UNCHANGED faults
    /\ \/ /\ node.retries < Retries
          /\ cyc' = Turn([cyc EXCEPT !.batch = @ \ {node}, !.queue = @ \cup {[node EXCEPT !.retries = @ + 1]}])
          /\ UNCHANGED <<cloud, log, live, trusted, saved, sinceFull, startup, bg, since>>
       \/ node.retries = Retries /\ RefreshFails

-----------------------------------------------------------------------------
(* The changes: list_all_changes *)

(* An entry shows its file as it was then, or as it is when the page is read. *)
Then(k) == log[k]
Now(k) == LET i == log[k].id IN Change(i, IF Live(i) THEN cloud[i].parent ELSE Gone, cloud[i].ver)

Pages(k) == {[n \in 1 .. k - cyc.cursor |-> Then(cyc.cursor + n)],
             [n \in 1 .. k - cyc.cursor |-> Now(cyc.cursor + n)]}

(* A page that has a nextCursor. *)
ReadPage(k) ==
    /\ cyc.pc = "read" /\ k \in cyc.cursor + 1 .. Len(log) - 1
    /\ \E page \in Pages(k) : cyc' = [cyc EXCEPT !.cursor = k, !.changes = @ \o page]
    /\ UNCHANGED <<cloud, log, live, trusted, saved, sinceFull, startup, bg, since, faults>>

(* The index of a tree by identity, built from the paths in any order. *)
Indexes(tree) ==
    {[i \in {e.id : e \in tree} |-> (CHOOSE e \in one : e.id = i).path] :
        one \in {s \in SUBSET tree : Distinct(s) /\ {e.id : e \in s} = {e.id : e \in tree}}}

Failed == [ok |-> FALSE]
With(f, i, x) == [j \in DOMAIN f \cup {i} |-> IF j = i THEN x ELSE f[j]]
Without(f, is) == [j \in DOMAIN f \ is |-> f[j]]

(* A tombstone takes the subtree along; an unknown one is nothing. *)
ApplyRemoved(c, x) ==
    IF x.id \notin DOMAIN c.index THEN c
    ELSE LET gone == Subtree(c.tree, c.index[x.id]) IN
         [c EXCEPT !.tree = @ \ gone, !.index = Without(@, {e.id : e \in gone})]

Place(c, x, p) == [c EXCEPT !.tree = Put(@, Entry(p, x.id, x.ver)), !.index = With(@, x.id, p)]

MoveSubtree(c, old, new) ==
    LET moved == {e.id : e \in Subtree(c.tree, old)} IN
    [c EXCEPT !.tree = Rekeyed(@, old, new),
              !.index = [i \in DOMAIN @ \cup moved |->
                            IF i \in moved
                            THEN Retarget((CHOOSE e \in Subtree(c.tree, old) : e.id = i).path, old, new)
                            ELSE @[i]]]

ApplyModified(c, x) ==
    LET parent == IF x.parent = Root THEN <<>> ELSE c.index[x.parent]
        new == Append(parent, NameOf[x.id])
        known == x.id \in DOMAIN c.index
        old == c.index[x.id]
    IN  IF IF x.parent = Root THEN ~c.root ELSE x.parent \notin DOMAIN c.index THEN Failed
        ELSE IF known /\ old = new THEN Place(c, x, new)
        ELSE IF known /\ (IsPrefix(old, new) \/ Subtree(c.tree, old) = {} \/ Clash(c.tree, old, new)) THEN Failed
        ELSE IF known THEN Place(MoveSubtree(c, old, new), x, new)
        ELSE IF \E e \in c.tree : e.path = new /\ e.id # x.id THEN Failed
        ELSE Place(c, x, new)

ApplyChange(c, x) ==
    IF ~c.ok THEN c
    ELSE IF x.parent = Gone THEN ApplyRemoved(c, x)
    ELSE ApplyModified(c, x)

ApplyChanges(tree, index, root, changes) ==
    FoldLeft(ApplyChange, [ok |-> TRUE, tree |-> tree, index |-> index, root |-> root], changes)

(* An incremental refresh that does not add up becomes a full one; a full    *)
(* one fails. *)
Falls ==
    IF cyc.kind = "incremental"
    THEN cyc' = Listing /\ Distrust /\ UNCHANGED <<cloud, log, live, sinceFull, startup, bg>>
    ELSE cyc' = Idle /\ Distrust /\ UNCHANGED <<cloud, log, live, sinceFull, startup, bg>>

Base == IF cyc.kind = "full" THEN Checkpoint(cyc.tree, cyc.cursor, cyc.root, cyc.off) ELSE live

(* The last page, whose newStartCursor the candidate is given, and from there *)
(* to the candidate without an await. *)
ReadLast ==
    /\ cyc.pc = "read"
    /\ \E page \in Pages(Len(log)), index \in Indexes(Base.tree) :
        LET changes == cyc.changes \o page
            made == ApplyChanges(Base.tree, index, Base.root, changes)
        IN  IF made.ok /\ Distinct(made.tree)
            THEN /\ cyc' = [pc |-> "commit", kind |-> cyc.kind, changed |-> changes # <<>>,
                            made |-> Checkpoint(made.tree, Len(log), Base.root, Base.off)]
                 /\ UNCHANGED <<cloud, log, live, trusted, saved, sinceFull, startup, bg, since>>
            ELSE Falls /\ UNCHANGED saved
    /\ UNCHANGED faults

(* No network or no token: the cursor is kept for the next cycle.  A page or *)
(* a cursor that the server refuses: refreshed in full. *)
ReadFails ==
    /\ cyc.pc = "read" /\ Fault
    /\ RefreshFails \/ (Falls /\ UNCHANGED saved)

(* A refresh came between a call beside the cycle and its result: late, known *)
(* to the properties only. *)
Overtaken(w) == IF w = NoWrite THEN w ELSE [w EXCEPT !.late = TRUE]

(* Every refresh is counted as a full one. *)
CommitRefresh_NoCount ==
    /\ cyc.pc = "commit"
    /\ saved' \in {cyc.made} \cup (IF cyc.kind = "incremental" /\ ~cyc.changed THEN {saved} ELSE {})
    /\ live' = cyc.made /\ trusted' = TRUE
    /\ sinceFull' = 0 /\ cyc' = Idle /\ startup' = FALSE /\ bg' = Overtaken(bg)
    /\ UNCHANGED <<cloud, log, since, faults>>
(* Persist, then install; a batch without changes may leave the disk for later. *)
CommitRefresh ==
    /\ cyc.pc = "commit"
    /\ saved' \in {cyc.made} \cup (IF cyc.kind = "incremental" /\ ~cyc.changed THEN {saved} ELSE {})
    /\ live' = cyc.made /\ trusted' = TRUE
    /\ sinceFull' = IF cyc.kind = "full" THEN 0 ELSE sinceFull + 1
    /\ cyc' = Idle /\ startup' = FALSE /\ bg' = Overtaken(bg)
    /\ UNCHANGED <<cloud, log, since, faults>>

(* The rename is undone when it cannot be made durable, if that succeeds. *)
CommitFails == cyc.pc = "commit" /\ Fault /\ saved' \in {saved, cyc.made} /\ Falls

-----------------------------------------------------------------------------
(* The client's own writes *)

Knows(d) == d = Root \/ PathsOf(live.tree, d) # {}
PathOf(i) == CHOOSE p \in PathsOf(live.tree, i) : TRUE
PathTo(d, i) == Append(IF d = Root THEN <<>> ELSE PathOf(d), NameOf[i])
Wrote(op, i, from, to, v) == [op |-> op, id |-> i, from |-> from, to |-> to, ver |-> v, late |-> FALSE]

(* One path or identity is not written by two at a time: path activities and *)
(* transfers in hand exclude it. *)
Overlap(p, q) == IsPrefix(p, q) \/ IsPrefix(q, p)
PathsIn(w) == {w.from, w.to} \ {<<>>}
Apart(w, x) == w.id # x.id /\ \A p \in PathsIn(w), q \in PathsIn(x) : ~Overlap(p, q)
Own == IF cyc.pc = "settle" THEN cyc.own ELSE NoWrite

Upload(i) == Knows(i) /\ EditThere(i)
Create(i, d) == Knows(d) /\ CreateThere(i, d)
Move(i, d) == Knows(i) /\ Knows(d) /\ MoveThere(i, d) /\ ~IsPrefix(PathOf(i), PathTo(d, i))

(* One write of a cycle that may plan.  Its result waits for the settlement, *)
(* and no refresh comes between. *)
Work ==
    /\ cyc.pc = "idle" /\ trusted
    /\ \/ \E i \in Id : /\ Upload(i)
                        /\ cyc' = [pc |-> "settle", own |-> Wrote("put", i, PathOf(i), PathOf(i), cloud[i].ver + 1)]
       \/ \E i \in Id, d \in Folder \cup {Root} :
            /\ Create(i, d)
            /\ cyc' = [pc |-> "settle", own |-> Wrote("put", i, <<>>, PathTo(d, i), 1)]
       \/ \E i \in Id, d \in Folder \cup {Root} :
            /\ Move(i, d)
            /\ cyc' = [pc |-> "settle", own |-> Wrote("move", i, PathOf(i), PathTo(d, i), cloud[i].ver)]
       \/ \E i \in Id : /\ Knows(i) /\ DeleteThere(i)
                        /\ cyc' = [pc |-> "settle", own |-> Wrote("remove", i, PathOf(i), <<>>, cloud[i].ver)]
    /\ Apart(Own', bg)
    /\ UNCHANGED <<live, trusted, saved, sinceFull, startup, bg, since, faults>>

(* commit_recovered_cloud_files: the tree with one verified result. *)
Refused(w) ==
    LET ps == PathsOf(live.tree, w.id)  old == CHOOSE p \in ps : TRUE IN
    \/ Cardinality(ps) > 1
    \/ /\ ps \notin {{}, {w.to}} /\ w.id \in Folder
       /\ IsPrefix(old, w.to) \/ Clash(live.tree, old, w.to)
    \/ \E e \in live.tree : e.path = w.to /\ e.id # w.id
    \/ ~Distinct(live.tree)
Committed(w) ==
    LET ps == PathsOf(live.tree, w.id)  old == CHOOSE p \in ps : TRUE
        moved == IF ps \in {{}, {w.to}} THEN live.tree
                 ELSE IF w.id \in Folder THEN Rekeyed(live.tree, old, w.to)
                 ELSE {e \in live.tree : e.path # old}
    IN  [live EXCEPT !.tree = Put(moved, Entry(w.to, w.id, w.ver))]

(* A move is committed to the disk before anything else; the other results   *)
(* enter only the tree in memory.  What had moved out of a folder before it   *)
(* was deleted goes with it there: off. *)
Settle ==
    /\ cyc.pc = "settle"
    /\ LET w == cyc.own IN
       CASE w.op = "move" /\ Refused(w) -> UNCHANGED <<live, saved>>
         [] w.op = "move" /\ ~Refused(w) -> live' = Committed(w) /\ saved' = live'
         [] w.op = "put" ->
                /\ live' = [live EXCEPT !.tree = Put({e \in @ : e.id # w.id}, Entry(w.to, w.id, w.ver))]
                /\ UNCHANGED saved
         [] w.op = "remove" ->
                /\ live' = [live EXCEPT !.tree = @ \ Subtree(@, w.from),
                                        !.off = @ \cup {e.id : e \in {e \in Subtree(live.tree, w.from) : Live(e.id)}}]
                /\ UNCHANGED saved
    /\ cyc' = Idle
    /\ UNCHANGED <<cloud, log, trusted, sinceFull, startup, bg, since, faults>>

SettleFails ==
    /\ cyc.pc = "settle" /\ cyc.own.op = "move" /\ ~Refused(cyc.own) /\ Fault
    /\ saved' \in {saved, Committed(cyc.own)}
    /\ cyc' = Idle /\ Distrust
    /\ UNCHANGED <<cloud, log, live, sinceFull, startup, bg>>

(* A retry or a command beside the cycle: the cloud first, the tree in        *)
(* memory later, whatever has been refreshed between. *)
Beside ==
    /\ bg = NoWrite /\ live.cursor # -1
    /\ \/ \E i \in Id : /\ Upload(i)
                        /\ bg' = Wrote("put", i, PathOf(i), PathOf(i), cloud[i].ver + 1)
                        /\ UNCHANGED cyc
       \/ \E i \in Id, d \in Folder \cup {Root} :
            /\ Create(i, d)
            /\ bg' = Wrote("put", i, <<>>, PathTo(d, i), 1) /\ UNCHANGED cyc
       \/ \E i \in Id, d \in Folder \cup {Root} :
            /\ Move(i, d) /\ Moving(i)
            /\ bg' = Wrote("move", i, PathOf(i), PathTo(d, i), cloud[i].ver)
       \/ \E i \in Id : /\ Knows(i) /\ DeleteThere(i)
                        /\ bg' = Wrote("remove", i, PathOf(i), <<>>, cloud[i].ver)
                        /\ UNCHANGED cyc
    /\ Apart(bg', Own)
    /\ UNCHANGED <<live, trusted, saved, sinceFull, startup, since, faults>>

(* cloud_entry_insert and rekey_cloud_subtree_after_remote_move look at paths *)
(* only; a deletion takes whatever is below its folder by then.  What it      *)
(* changes is off when a refresh came after it began.                         *)
Inserted(w) ==
    LET moved == Rekeyed(Subtree(live.tree, w.from), w.from, w.to)
        seen == {IF e.id = w.id THEN [e EXCEPT !.ver = w.ver] ELSE e : e \in moved}
    IN  IF w.op = "put" THEN Put(live.tree, Entry(w.to, w.id, w.ver))
        ELSE IF w.op = "remove" THEN live.tree \ UNION {Subtree(live.tree, p) : p \in PathsOf(live.tree, w.id)}
        ELSE seen \cup {e \in live.tree \ Subtree(live.tree, w.from) : \A x \in seen : x.path # e.path}

Differs(s, t) == {e.id : e \in (s \ t) \cup (t \ s)}
Unsettled(w) ==
    IF w.op = "remove" THEN {i \in Differs(live.tree, Inserted(w)) : Live(i)}
    ELSE IF w.late THEN Differs(live.tree, Inserted(w))
    ELSE {}
SettleBeside ==
    /\ bg # NoWrite
    /\ live' = [live EXCEPT !.tree = Inserted(bg),
                            !.off = @ \cup Unsettled(bg)]
    /\ bg' = NoWrite
    /\ UNCHANGED <<cloud, log, trusted, saved, sinceFull, startup, cyc, since, faults>>

(* Only the disk survives. *)
Crash ==
    /\ Fault
    /\ saved' \in {saved} \cup CASE cyc.pc = "commit" -> {cyc.made}
                                 [] cyc.pc = "settle" /\ cyc.own.op = "move" /\ ~Refused(cyc.own) -> {Committed(cyc.own)}
                                 [] OTHER -> {}
    /\ live' = NoCheckpoint /\ startup' = TRUE /\ sinceFull' = 0 /\ cyc' = Idle /\ bg' = NoWrite
    /\ Distrust /\ UNCHANGED <<cloud, log>>

-----------------------------------------------------------------------------

Fetch ==
    \/ Load \/ Refresh \/ RefreshFull \/ ReadLast
    \/ \E node \in IF cyc.pc = "list" THEN cyc.batch ELSE {} : List(node) \/ ListFails(node)
    \/ \E k \in 1 .. Len(log) : ReadPage(k)
    \/ ReadFails \/ CommitRefresh \/ CommitFails

Next ==
    \/ Others \/ Fetch \/ Work \/ Settle \/ SettleFails
    \/ Beside \/ SettleBeside \/ Crash

Spec == Init /\ [][Next]_vars

(* The timer asks for a refresh again and again; calls and results come back. *)
FairSpec == Spec /\ WF_vars(Fetch \/ Settle) /\ WF_vars(SettleBeside)

-----------------------------------------------------------------------------

TreeType == [path : Seq({NameOf[i] : i \in Id}), id : Id, ver : Nat]

TypeOK ==
    /\ \A k \in 1 .. Len(log) : log[k] \in [id : Id, parent : Folder \cup {Root, Gone}, ver : Nat]
    /\ \A c \in {live, saved} : c.tree \subseteq TreeType /\ c.cursor \in -1 .. Len(log) /\ c.off \subseteq Id
    /\ trusted \in BOOLEAN /\ startup \in BOOLEAN /\ sinceFull \in 0 .. Threshold
    /\ since \in 0 .. Len(log) /\ faults \in 0 .. MaxFaults
    /\ cyc.pc \in {"idle", "list", "read", "commit", "settle"}

CloudAt(n) ==
    [i \in Id |-> LET ks == {k \in 1 .. n : log[k].id = i} IN
        IF ks = {} THEN Start[i] ELSE [parent |-> log[Max(ks)].parent, ver |-> log[Max(ks)].ver]]
MovedWith(R, k, i) == LET at == PathIn(R) IN at[i] # <<>> /\ at[log[k].id] # <<>> /\ IsPrefix(at[log[k].id], at[i])
Ahead(c, i) == \E k \in c.cursor + 1 .. Len(log) :
                 log[k].id = i \/ MovedWith(CloudAt(k), k, i) \/ MovedWith(CloudAt(k - 1), k, i)
EntriesOf(tree, i) == {e \in tree : e.id = i}
(* It is off, or inside a folder that is. *)
Astray(c, i) == i \in c.off \/ \E j \in c.off : i \in Within(j)

(* What a checkpoint has wrong is still ahead of its cursor, in memory and on *)
(* disk: no change is passed over, whatever the listing met, the pages, the   *)
(* own writes and the crashes did.  Except what was moved while a listing     *)
(* passed by, what a late result of a retry or a command overwrote, what      *)
(* others had moved out of a folder that was deleted here, and what is inside *)
(* such a folder.                                                             *)
NothingPassedOver ==
    \A c \in {live, saved} : c.cursor # -1 =>
        \A i \in Id : EntriesOf(c.tree, i) = EntriesOf(Image(cloud), i) \/ Ahead(c, i) \/ Astray(c, i)

(* The same without the exceptions. *)
TrustedIsTrue ==
    trusted => \A i \in Id : EntriesOf(live.tree, i) = EntriesOf(Image(cloud), i) \/ Ahead(live, i)

(* A tree that may be planned from knows everything that had happened when it *)
(* was last loaded or distrusted. *)
TrustedHasCaughtUp == trusted => live.cursor >= since

(* Once the cloud is quiet and calls succeed, the tree is the cloud, the      *)
(* exceptions of NothingPassedOver healed too: by a full refresh at last.     *)
Converges == <>[](trusted /\ live.tree = Image(cloud))
=============================================================================
