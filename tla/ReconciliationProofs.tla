------------------------- MODULE ReconciliationProofs -------------------------
(***************************************************************************)
(* What Reconciliation promises for any names, paths, identities and        *)
(* bounds.  Inv, with its parts:                                           *)
(*   Sound       what each variable holds.  An identity is for ever that of *)
(*               a file or that of a folder, and whatever carries it, a     *)
(*               path of the disk or of the tree, a row, a task, an action  *)
(*               or a result, is of that kind;                             *)
(*   OnePathInTree;                                                        *)
(*   Disjoint    the paths of a cycle's structural actions, and of the      *)
(*               conflicts it has settled, are leased, and no command's     *)
(*               leases overlap with them;                                 *)
(*   Waiting     a cycle that waits for a transfer is acting;               *)
(*   Single      of what is planned, under way and settled at one path,     *)
(*               there is one;                                             *)
(*   Resolved    what a conflict left at its path stays there up to the     *)
(*               settlement, which takes it for the row's content.          *)
(* Sets are given the cloud (rem) they speak of, so that a step that        *)
(* changes it keeps what it leaves alone (Keep).                           *)
(***************************************************************************)
EXTENDS Reconciliation, SequenceTheorems, FiniteSetTheorems, WellFoundedInduction, TLAPS

Mark == Id \cup {NoId}
Node == [kind : {"none", "dir", "file"}, data : Nat, id : Mark]
Entry == [id : Mark, ver : Version]
Object == [path : Path \cup {<<>>}, data : Nat, k : Nat, folder : BOOLEAN]
RowSet == [path : Path, id : Id, seen : Nat, ver : Version, madeup : BOOLEAN,
           status : {"synced", "cloud_only", "conflict", "failed", "deleted"}]
TaskSet == [op : {"Create", "Update", "Download", "DownloadUpdate"}, path : Path, id : Mark, ver : Version,
            snap : Nat, made : BOOLEAN, by : {"cycle", "user", "parked"}]
ConflictOps == {"CreateConflictCopy", "ConflictDownload", "ConflictUpload"}
ActSet == [op : {"Upload", "Download", "CreatePlaceholder", "CreateFolder", "MoveInCloud", "DeleteFromCloud",
                 "DeleteFromLocal", "BackupBeforeCloudDelete"} \cup ConflictOps,
           path : Path, id : Mark, ver : Version]
ResultSet == [act : ActSet, res : {"ok", "fail", "defer"}, id : Mark, ver : Version]

(* An identity that has been given out, at a path of its kind. *)
Fits(rem, p, i) == p \in Path /\ i \in Id /\ rem[i].k # 0 /\ (p \in Dirs <=> rem[i].folder)
Marks(rem, p, i) == i = NoId \/ Fits(rem, p, i)
SameKind(p, q) == p \in Path /\ q \in Path /\ (p \in Dirs <=> q \in Dirs)

Remotes == {rem \in [Id -> Object] : \A i \in Id : rem[i].path # <<>> => Fits(rem, rem[i].path, i)}
(* What a later cloud still knows. *)
Grows(rem, now) == \A i \in Id : rem[i].k # 0 => now[i].k # 0 /\ (now[i].folder <=> rem[i].folder)

Disks(rem) ==
    {d \in [Path -> Node] : \A p \in Path : Marks(rem, p, d[p].id) /\ (d[p].kind = "file" => p \notin Dirs)}
Trees(rem) == {t \in [Path -> Entry] : \A p \in Path : Marks(rem, p, t[p].id)}
OnePath(t) == \A p, q \in Path : There(t[p]) /\ t[p].id = t[q].id => p = q

Truthful(r) == r.seen # 0 /\ r.ver # NoVersion /\ ~r.madeup => r.seen = r.ver[1]
RowIn(rem, r) == r \in RowSet /\ Fits(rem, r.path, r.id) /\ (r.path \in Dirs => r.seen = 0) /\ Truthful(r)
TaskIn(rem, t) ==
    /\ t \in TaskSet /\ t.path \notin Dirs /\ Marks(rem, t.path, t.id)
    /\ t.made => t.ver[1] = t.snap
    /\ t.made \/ t.op # "Create" \/ CarriesFile(t) => t.id \in Id
ActIn(rem, a) ==
    /\ a \in ActSet /\ Marks(rem, a.path, a.id)
    /\ a.op \in ConflictOps \cup {"CreatePlaceholder"} => a.path \notin Dirs
    /\ a.op = "CreateFolder" => a.path \in Dirs
    /\ a.op \in ConflictOps \cup {"CreatePlaceholder", "MoveInCloud", "Download"} \/ CarriesFile(a) => a.id \in Id
ResultIn(rem, d) ==
    /\ d \in ResultSet /\ ActIn(rem, d.act) /\ Marks(rem, d.act.path, d.id)
    /\ d.act.op \notin {"ConflictDownload", "ConflictUpload"}
    /\ d.res = "ok" /\ d.act.op \in {"CreatePlaceholder", "CreateFolder", "CreateConflictCopy", "MoveInCloud"}
            => d.id \in Id
Rows(rem, rs) == \A r \in rs : RowIn(rem, r)
Tasks(rem, ts) == \A t \in ts : TaskIn(rem, t)

Early ==
    [pc : {"recover", "rekey", "scan"}, leased : SUBSET Path, tried : SUBSET Path, old : Path \cup {<<>>},
     blocked : SUBSET [id : Id, old : Path, new : Path], scan : [Path -> Node], left : SUBSET Path]
(* Between the move and the row: where to. *)
Rekeying(c) == c.pc = "rekey" =>
    \A q \in c.leased \ {c.old} : SameKind(c.old, q) /\ (q \in Dirs => ~Under(q, c.old))
Late(rem) ==
    {c \in [pc : {"act", "settle"}, acts : SUBSET ActSet, done : SUBSET ResultSet, leased : SUBSET Path,
            scan : [Path -> Node], missed : SUBSET Id, filled : SUBSET Path] :
        /\ \A a \in c.acts : ActIn(rem, a)
        /\ \A d \in c.done : ResultIn(rem, d)
        /\ IsFiniteSet(c.done)}
Cycles(rem) == {Idle} \cup {c \in Early : Rekeying(c)} \cup Late(rem)
Commands(rem) ==
    {Idle} \cup [pc : {"deleted", "bury"}, id : Id, leased : SUBSET Path, path : Path]
    \cup {c \in [pc : {"moved", "rekey"}, id : Id, leased : SUBSET Path, old : Path, path : Path, ver : Version] :
            /\ c.path \in c.leased /\ Fits(rem, c.path, c.id) /\ Fits(rem, c.old, c.id)
            /\ c.pc = "rekey" => ~Under(c.path, c.old)}

Sound ==
    /\ remote \in Remotes /\ disk \in Disks(remote) /\ tree \in Trees(remote)
    /\ Rows(remote, rows) /\ Tasks(remote, tasks)
    /\ cyc \in Cycles(remote) /\ cmd \in Commands(remote)

Settling == cyc.pc \in {"act", "settle"}
Conflict(d) == d.act.op = "CreateConflictCopy"
Disjoint == Settling =>
    /\ \A a \in cyc.acts : Structural(a) => a.path \in cyc.leased
    /\ \A d \in cyc.done : Conflict(d) => d.act.path \in cyc.leased
    /\ cmd.pc # "idle" => \A x \in cyc.leased, y \in cmd.leased : ~Overlap(x, y)
Waiting == \A t \in Awaited : cyc.pc = "act"
Single == Settling =>
    /\ \A a, b \in cyc.acts : a.path = b.path => a = b
    /\ \A a \in cyc.acts, t \in Awaited : a.path # t.path
    /\ \A d \in cyc.done : Conflict(d) =>
        /\ \A a \in cyc.acts : a.path # d.act.path
        /\ \A t \in Awaited : t.path # d.act.path
Resolved == Settling =>
    \A d \in cyc.done : Conflict(d) /\ d.res = "ok" =>
        disk[d.act.path].data \in {0, d.ver[1]} \/ d.act.path \in cyc.filled
Order == Disjoint /\ Waiting /\ Single /\ Resolved

Core == Sound /\ OnePathInTree /\ Order
Inv == Core /\ ops \in Nat

-----------------------------------------------------------------------------
(* Paths *)

LEMMA PathIsSeq == Path \subseteq Seq(Name) /\ Dirs \subseteq Path /\ NoId \notin Id /\ <<>> \notin Path
<1>1. Path \subseteq Seq(Name) \ {<<>>} /\ Dirs \subseteq Path /\ NoId \notin Id
  BY SyncPlanAssumption, Zenon
<1> QED BY <1>1

LEMMA Split ==
    ASSUME NEW S, NEW q \in Seq(S), NEW p \in Seq(S), Under(q, p)
    PROVE  /\ SubSeq(q, Len(p) + 1, Len(q)) \in Seq(S)
           /\ q = p \o SubSeq(q, Len(p) + 1, Len(q))
<1>1. Len(p) \in Nat /\ Len(q) \in Nat /\ Len(p) <= Len(q)
  BY LenProperties DEF Under, IsPrefix
<1>2. SubSeq(q, 1, Len(p)) = p
  BY SubSeqFull DEF Under, IsPrefix
<1>3. SubSeq(q, 1, Len(p)) \o SubSeq(q, Len(p) + 1, Len(q)) = SubSeq(q, 1, Len(q))
  <2>1. 1 \in 1 .. Len(q) + 1 /\ Len(p) \in 1 - 1 .. Len(q) /\ Len(q) \in Len(p) .. Len(q)
    BY <1>1
  <2> QED BY <2>1, ConcatAdjacentSubSeq
<1>4. SubSeq(q, 1, Len(q)) = q
  BY SubSeqFull
<1>5. \A i \in Len(p) + 1 .. Len(q) : q[i] \in S
  BY <1>1, ElementOfSeq
<1>6. SubSeq(q, Len(p) + 1, Len(q)) \in Seq(S)
  BY <1>1, <1>5, SubSeqProperties
<1> QED BY <1>2, <1>3, <1>4, <1>6, Zenon

LEMMA Joined ==
    ASSUME NEW S, NEW d \in Seq(S), NEW x \in Seq(S)
    PROVE  /\ d \o x \in Seq(S)
           /\ Under(d \o x, d)
           /\ SubSeq(d \o x, Len(d) + 1, Len(d \o x)) = x
<1> DEFINE y == d \o x
<1>1. y \in Seq(S) /\ Len(y) = Len(d) + Len(x) /\ Len(d) \in Nat /\ Len(x) \in Nat
  BY ConcatProperties, LenProperties
<1>2. SubSeq(y, 1, Len(d)) = d
  <2>1. CASE d = <<>>
    BY <2>1, SubSeqEmpty
  <2>2. CASE d # <<>>
    <3>1. 1 \in 1 .. Len(d) /\ Len(d) \in 1 .. Len(d)
      BY <1>1, <2>2, EmptySeq
    <3>2. SubSeq(y, 1, Len(d)) = SubSeq(d, 1, Len(d))
      BY <3>1, SubSeqOfConcat1
    <3> QED BY <3>2, SubSeqFull
  <2> QED BY <2>1, <2>2
<1>3. Under(y, d)
  BY <1>1, <1>2, SubSeqFull DEF Under, IsPrefix
<1>4. d \o SubSeq(y, Len(d) + 1, Len(y)) = d \o x /\ SubSeq(y, Len(d) + 1, Len(y)) \in Seq(S)
  BY <1>1, <1>3, Split
<1>5. SubSeq(y, Len(d) + 1, Len(y)) = x
  <2> DEFINE z == SubSeq(y, Len(d) + 1, Len(y))
  <2>1. z \in Seq(S) /\ d \o z = d \o x
    BY <1>4
  <2> HIDE DEF z
  <2> QED BY <2>1, ConcatSimplifications
<1> QED BY <1>1, <1>3, <1>5

(* A subtree keeps its shape when it moves. *)
LEMMA MovedBack ==
    ASSUME NEW q \in Seq(Name), NEW s \in Seq(Name), NEW d \in Seq(Name), Under(q, s)
    PROVE  /\ Under(Rebase(q, s, d), d)
           /\ Rebase(Rebase(q, s, d), d, s) = q
<1> DEFINE x == SubSeq(q, Len(s) + 1, Len(q))
<1>1. x \in Seq(Name) /\ q = s \o x
  BY Split
<1>2. Rebase(q, s, d) = d \o x
  BY DEF Rebase
<1> HIDE DEF x
<1>3. Under(d \o x, d) /\ SubSeq(d \o x, Len(d) + 1, Len(d \o x)) = x
  BY <1>1, Joined
<1> QED BY <1>1, <1>2, <1>3 DEF Rebase

LEMMA UnderItself == ASSUME NEW p \in Path PROVE Under(p, p) /\ Overlap(p, p)
BY PathIsSeq, LenProperties DEF Under, IsPrefix, Overlap

(* Nothing is under a file. *)
LEMMA FileIsLeaf ==
    ASSUME NEW p \in Path, NEW q \in Path \ Dirs, Under(p, q)
    PROVE  p = q
<1>1. p \in Seq(Name) /\ q \in Seq(Name) /\ Len(p) \in Nat /\ Len(q) \in Nat /\ Len(q) # 0
  BY PathIsSeq, LenProperties, EmptySeq
<1>2. Len(q) <= Len(p) /\ SubSeq(p, 1, Len(q)) = q
  BY <1>1, SubSeqFull DEF Under, IsPrefix
<1>3. ~(Len(q) \in 1 .. Len(p) - 1)
  <2>1. Len(q) \in 1 .. Len(p) - 1 => SubSeq(p, 1, Len(q)) \in Dirs
    BY SyncPlanAssumption, Zenon
  <2> QED BY <1>2, <2>1
<1>4. Len(q) = Len(p)
  BY <1>1, <1>2, <1>3
<1> QED BY <1>1, <1>2, <1>4, SubSeqFull

(* What is at a path and under it moves as a whole. *)
LEMMA Carry ==
    ASSUME NEW p \in Path, NEW d, NEW e, SameKind(d, e), Under(p, d)
    PROVE  /\ Rebase(p, d, e) \in Path => SameKind(p, Rebase(p, d, e))
           /\ (d \in Dirs => ~Under(e, d) \/ e = d) => Rebase(p, d, e) \in Path
<1> USE DEF SameKind
<1>1. CASE d \in Dirs
  <2>1. d = e => Rebase(p, d, e) = p
    BY Split, PathIsSeq DEF Rebase
  <2> QED BY <1>1, <2>1, SyncPlanAssumption
<1>2. CASE d \notin Dirs
  <2>1. p = d
    BY <1>2, FileIsLeaf
  <2>2. SubSeq(p, Len(d) + 1, Len(p)) = <<>>
    <3>1. Len(d) \in Nat
      BY PathIsSeq, LenProperties
    <3> QED BY <2>1, <3>1, SubSeqEmpty
  <2>3. Rebase(p, d, e) = e
    BY <2>2, PathIsSeq, ConcatEmptySeq DEF Rebase
  <2> QED BY <2>1, <2>3
<1> QED BY <1>1, <1>2

-----------------------------------------------------------------------------
(* A cloud that only grows keeps what is known of it *)

LEMMA FitsGrown ==
    ASSUME NEW rem, NEW now, Grows(rem, now)
    PROVE  /\ \A p, i : Fits(rem, p, i) => Fits(now, p, i)
           /\ \A p, i : Marks(rem, p, i) => Marks(now, p, i)
BY DEF Grows, Fits, Marks

LEMMA Keep ==
    ASSUME NEW rem, NEW now, Grows(rem, now)
    PROVE  /\ Disks(rem) \subseteq Disks(now) /\ Trees(rem) \subseteq Trees(now)
           /\ \A r : RowIn(rem, r) => RowIn(now, r)
           /\ \A t : TaskIn(rem, t) => TaskIn(now, t)
           /\ \A a : ActIn(rem, a) => ActIn(now, a)
           /\ \A d : ResultIn(rem, d) => ResultIn(now, d)
           /\ Cycles(rem) \subseteq Cycles(now) /\ Commands(rem) \subseteq Commands(now)
<1>0. /\ \A p, i : Fits(rem, p, i) => Fits(now, p, i)
      /\ \A p, i : Marks(rem, p, i) => Marks(now, p, i)
  BY FitsGrown
<1>1. Disks(rem) \subseteq Disks(now)
  BY <1>0 DEF Disks
<1>2. Trees(rem) \subseteq Trees(now)
  BY <1>0 DEF Trees
<1>3. \A r : RowIn(rem, r) => RowIn(now, r)
  BY <1>0 DEF RowIn
<1>4. \A t : TaskIn(rem, t) => TaskIn(now, t)
  BY <1>0 DEF TaskIn
<1>5. \A a : ActIn(rem, a) => ActIn(now, a)
  BY <1>0 DEF ActIn
<1>6. \A d : ResultIn(rem, d) => ResultIn(now, d)
  BY <1>0, <1>5 DEF ResultIn
<1>7. Late(rem) \subseteq Late(now)
  BY <1>5, <1>6, Zenon DEF Late
<1>8. Cycles(rem) \subseteq Cycles(now)
  BY <1>7 DEF Cycles
<1>9. Commands(rem) \subseteq Commands(now)
  BY <1>0, Zenon DEF Commands
<1> QED BY <1>1, <1>2, <1>3, <1>4, <1>5, <1>6, <1>8, <1>9

LEMMA SoundGrown ==
    ASSUME Sound, Grows(remote, remote')
    PROVE  /\ disk \in Disks(remote') /\ tree \in Trees(remote')
           /\ Rows(remote', rows) /\ Tasks(remote', tasks)
           /\ cyc \in Cycles(remote') /\ cmd \in Commands(remote')
BY Keep DEF Sound, Rows, Tasks

(* What a cycle and a command are, by where they are. *)
LEMMA CycleShape ==
    ASSUME NEW rem, NEW c \in Cycles(rem)
    PROVE  /\ c.pc \in {"idle", "recover", "rekey", "scan", "act", "settle"}
           /\ c.pc = "idle" => c = Idle
           /\ c.pc \in {"recover", "rekey", "scan"} => c \in Early /\ Rekeying(c)
           /\ c.pc \in {"act", "settle"} => c \in Late(rem)
<1>1. CASE c = Idle
  BY <1>1 DEF Idle
<1>2. CASE c \in Early /\ Rekeying(c)
  BY <1>2 DEF Early
<1>3. CASE c \in Late(rem)
  BY <1>3 DEF Late
<1> QED BY <1>1, <1>2, <1>3 DEF Cycles

LEMMA CommandShape ==
    ASSUME NEW rem, NEW c \in Commands(rem)
    PROVE  /\ c.pc \in {"idle", "deleted", "bury", "moved", "rekey"}
           /\ c.pc = "idle" => c = Idle
           /\ c.pc \in {"deleted", "bury"} =>
                 c \in [pc : {"deleted", "bury"}, id : Id, leased : SUBSET Path, path : Path]
           /\ c.pc \in {"moved", "rekey"} =>
                 /\ c \in [pc : {"moved", "rekey"}, id : Id, leased : SUBSET Path, old : Path, path : Path, ver : Version]
                 /\ c.path \in c.leased /\ Fits(rem, c.path, c.id) /\ Fits(rem, c.old, c.id)
                 /\ c.pc = "rekey" => ~Under(c.path, c.old)
<1>1. CASE c = Idle
  BY <1>1 DEF Idle
<1>2. CASE c \in [pc : {"deleted", "bury"}, id : Id, leased : SUBSET Path, path : Path]
  BY <1>2
<1>3. CASE c # Idle /\ c \notin [pc : {"deleted", "bury"}, id : Id, leased : SUBSET Path, path : Path]
  BY <1>3 DEF Commands
<1> QED BY <1>1, <1>2, <1>3

-----------------------------------------------------------------------------
(* The cloud tree *)

LEMMA VersionIs ==
    /\ NoVersion \in Version
    /\ \A m, n \in Nat : <<m, n>> \in Version
    /\ \A v \in Version : v[1] \in Nat /\ v[2] \in Nat
BY DEF Version, NoVersion

LEMMA NoEntryIs == NoEntry \in Entry /\ NoEntry.id = NoId /\ ~There(NoEntry)
BY VersionIs DEF NoEntry, Entry, Mark, There

LEMMA ImageIn ==
    ASSUME remote \in Remotes
    PROVE  Image \in Trees(remote) /\ OnePath(Image)
<1>1. ASSUME NEW p \in Path, At(p) # {}
      PROVE  \E i \in Id : Image[p] = [id |-> i, ver |-> Ver(i)] /\ remote[i].path = p
  <2> DEFINE i == CHOOSE i \in At(p) : TRUE
  <2>1. i \in At(p)
    BY <1>1
  <2>2. Image[p] = [id |-> i, ver |-> Ver(i)]
    BY <1>1 DEF Image
  <2> HIDE DEF i
  <2> QED BY <2>1, <2>2 DEF At
<1>2. \A p \in Path : At(p) = {} => Image[p] = NoEntry
  BY DEF Image
<1>3. \A i \in Id : Ver(i) \in Version
  BY VersionIs DEF Remotes, Object, Ver
<1>4. ASSUME NEW p \in Path
      PROVE  Image[p] \in Entry /\ Marks(remote, p, Image[p].id)
  <2>1. CASE At(p) = {}
    BY <2>1, <1>2, NoEntryIs DEF Marks
  <2>2. CASE At(p) # {}
    <3>1. PICK i \in Id : Image[p] = [id |-> i, ver |-> Ver(i)] /\ remote[i].path = p
      BY <1>1, <2>2
    <3>2. Fits(remote, p, i)
      BY <3>1, PathIsSeq DEF Remotes
    <3> QED BY <3>1, <3>2, <1>3 DEF Entry, Mark, Marks
  <2> QED BY <2>1, <2>2
<1>5. Image \in Trees(remote)
  BY <1>4 DEF Trees, Image
<1>6. OnePath(Image)
  <2> SUFFICES ASSUME NEW p \in Path, NEW q \in Path, There(Image[p]), Image[p].id = Image[q].id
               PROVE  p = q
    BY DEF OnePath
  <2>1. At(p) # {} /\ At(q) # {}
    BY <1>2, NoEntryIs DEF There
  <2>2. PICK i \in Id : Image[p] = [id |-> i, ver |-> Ver(i)] /\ remote[i].path = p
    BY <1>1, <2>1
  <2>3. PICK j \in Id : Image[q] = [id |-> j, ver |-> Ver(j)] /\ remote[j].path = q
    BY <1>1, <2>1
  <2> QED BY <2>2, <2>3
<1> QED BY <1>5, <1>6

LEMMA TreePutIn ==
    ASSUME NEW rem, NEW t \in Trees(rem), OnePath(t), NEW p \in Path, NEW i \in Mark, Marks(rem, p, i),
           NEW ver \in Version
    PROVE  TreePut(t, i, p, ver) \in Trees(rem) /\ OnePath(TreePut(t, i, p, ver))
<1> DEFINE u == TreePut(t, i, p, ver)
<1>1. u[p] = [id |-> i, ver |-> ver] /\ \A q \in Path \ {p} : u[q] = IF t[q].id = i THEN NoEntry ELSE t[q]
  BY DEF TreePut
<1>2. DOMAIN u = Path /\ u = [q \in Path |-> u[q]]
  BY DEF TreePut
<1> HIDE DEF u
<1>3. \A q \in Path : u[q] \in Entry /\ Marks(rem, q, u[q].id)
  <2>1. u[p] \in Entry /\ Marks(rem, p, u[p].id)
    BY <1>1 DEF Entry
  <2>2. \A q \in Path \ {p} : u[q] \in Entry /\ Marks(rem, q, u[q].id)
    BY <1>1, NoEntryIs DEF Trees, Marks
  <2> QED BY <2>1, <2>2
<1>4. u \in Trees(rem)
  BY <1>2, <1>3 DEF Trees
<1>5. OnePath(u)
  <2> SUFFICES ASSUME NEW x \in Path, NEW y \in Path, There(u[x]), u[x].id = u[y].id
               PROVE  x = y
    BY DEF OnePath
  <2>1. x # p => u[x] = t[x] /\ t[x].id # i
    BY <1>1, NoEntryIs
  <2>2. y # p => u[y] = t[y] /\ t[y].id # i
    BY <1>1, NoEntryIs DEF There
  <2>3. u[p].id = i
    BY <1>1
  <2> QED BY <2>1, <2>2, <2>3 DEF OnePath
<1> QED BY <1>4, <1>5 DEF u

LEMMA TreeRekeyedIn ==
    ASSUME NEW rem, NEW t \in Trees(rem), OnePath(t), NEW old, NEW new, SameKind(old, new)
    PROVE  TreeRekeyed(t, old, new) \in Trees(rem) /\ OnePath(TreeRekeyed(t, old, new))
<1> DEFINE u == TreeRekeyed(t, old, new)
           from(q) == Rebase(q, new, old)
           Comes(q) == Under(q, new) /\ from(q) \in Path /\ There(t[from(q)])
<1>0. old \in Path /\ new \in Path /\ SameKind(new, old) /\ Path \subseteq Seq(Name)
  BY PathIsSeq DEF SameKind
<1>1. \A q \in Path : /\ Comes(q) => u[q] = t[from(q)]
                      /\ ~Comes(q) /\ Under(q, old) => u[q] = NoEntry
                      /\ ~Comes(q) /\ ~Under(q, old) => u[q] = t[q]
  BY DEF TreeRekeyed
<1>2. u = [q \in Path |-> u[q]]
  BY DEF TreeRekeyed
<1> HIDE DEF u
<1>3. \A q \in Path : Comes(q) => SameKind(q, from(q))
  BY <1>0, Carry
<1>4. \A q \in Path : Comes(q) => Under(from(q), old) /\ Rebase(from(q), old, new) = q
  BY <1>0, MovedBack
<1> HIDE DEF from
<1>5. ASSUME NEW q \in Path
      PROVE  u[q] \in Entry /\ Marks(rem, q, u[q].id)
  <2>1. CASE Comes(q)
    <3>1. SameKind(q, from(q)) /\ u[q] = t[from(q)]
      BY <2>1, <1>1, <1>3
    <3>2. t[from(q)] \in Entry /\ Marks(rem, from(q), t[from(q)].id)
      BY <2>1 DEF Trees
    <3> QED BY <3>1, <3>2 DEF SameKind, Marks, Fits
  <2>2. CASE ~Comes(q)
    BY <2>2, <1>1, NoEntryIs DEF Trees, Marks
  <2> QED BY <2>1, <2>2
<1>6. u \in Trees(rem)
  BY <1>2, <1>5 DEF Trees
<1>7. OnePath(u)
  <2> SUFFICES ASSUME NEW x \in Path, NEW y \in Path, There(u[x]), u[x].id = u[y].id
               PROVE  x = y
    BY DEF OnePath
  <2> DEFINE src(q) == IF Comes(q) THEN from(q) ELSE q
  <2>1. \A q \in Path : There(u[q]) => /\ src(q) \in Path /\ u[q] = t[src(q)]
                                       /\ Comes(q) <=> Under(src(q), old)
    BY <1>1, <1>4, NoEntryIs
  <2>2. There(u[y])
    BY DEF There
  <2>3. src(x) = src(y)
    BY <2>1, <2>2 DEF OnePath
  <2>4. Comes(x) <=> Comes(y)
    BY <2>1, <2>2, <2>3
  <2> QED BY <2>3, <2>4, <1>4
<1> QED BY <1>6, <1>7 DEF u

-----------------------------------------------------------------------------
(* The disk *)

LEMMA NodesIn ==
    /\ Absent \in Node /\ Absent.id = NoId /\ Absent.data = 0 /\ Absent.kind # "file"
    /\ \A i \in Mark : Directory(i) \in Node /\ Directory(i).id = i /\ Directory(i).data = 0 /\ Directory(i).kind # "file"
    /\ \A i \in Mark, n \in Nat : File(n, i) \in Node /\ File(n, i).id = i /\ File(n, i).data = n
BY DEF Absent, Directory, File, Node, Mark

LEMMA ParentsIn ==
    ASSUME NEW rem, disk \in Disks(rem), NEW q \in Path
    PROVE  /\ WithParents(q) \in Disks(rem)
           /\ \A p \in Path : WithParents(q)[p].data \in {0, disk[p].data}
<1>1. \A p \in Path : WithParents(q)[p] = IF StrictlyUnder(q, p) /\ ~Here(disk[p]) THEN Directory(NoId) ELSE disk[p]
  BY DEF WithParents
<1>2. WithParents(q) = [p \in Path |-> WithParents(q)[p]]
  BY DEF WithParents
<1>3. NoId \in Mark
  BY DEF Mark
<1>4. \A p \in Path : /\ WithParents(q)[p] \in Node /\ Marks(rem, p, WithParents(q)[p].id)
                      /\ WithParents(q)[p].kind = "file" => p \notin Dirs
                      /\ WithParents(q)[p].data \in {0, disk[p].data}
  BY <1>1, <1>3, NodesIn DEF Disks, Marks
<1> QED BY <1>2, <1>4 DEF Disks

(* A rename on the disk: from is where what is at x came from. *)
LEMMA RenamedIn ==
    ASSUME NEW rem, NEW base \in Disks(rem), disk \in Disks(rem), NEW p, NEW q, SameKind(p, q),
           disk' = [r \in Path |-> IF Under(r, q) /\ Rebase(r, q, p) \in Path THEN disk[Rebase(r, q, p)]
                                   ELSE IF Under(r, p) THEN Absent ELSE base[r]]
    PROVE  /\ disk' \in Disks(rem)
           /\ \A x \in Path : ~Under(x, q) => disk'[x].data \in {0, base[x].data}
<1> DEFINE from(x) == Rebase(x, q, p)
           Comes(x) == Under(x, q) /\ from(x) \in Path
<1>0. p \in Path /\ q \in Path /\ SameKind(q, p)
  BY DEF SameKind
<1>1. \A x \in Path : Comes(x) => SameKind(x, from(x))
  BY <1>0, Carry
<1>2. \A x \in Path : disk'[x] = IF Comes(x) THEN disk[from(x)] ELSE IF Under(x, p) THEN Absent ELSE base[x]
  OBVIOUS
<1>3. disk' = [x \in Path |-> disk'[x]]
  OBVIOUS
<1> HIDE DEF from
<1>4. ASSUME NEW x \in Path
      PROVE  /\ disk'[x] \in Node /\ Marks(rem, x, disk'[x].id) /\ (disk'[x].kind = "file" => x \notin Dirs)
             /\ ~Under(x, q) => disk'[x].data \in {0, base[x].data}
  <2>1. CASE Comes(x)
    <3>1. SameKind(x, from(x)) /\ disk'[x] = disk[from(x)]
      BY <1>1, <1>2, <2>1
    <3>2. disk[from(x)] \in Node /\ Marks(rem, from(x), disk[from(x)].id) /\ (disk[from(x)].kind = "file" => from(x) \notin Dirs)
      BY <2>1 DEF Disks
    <3> QED BY <2>1, <3>1, <3>2 DEF SameKind, Marks, Fits
  <2>2. CASE ~Comes(x)
    BY <2>2, <1>2, NodesIn DEF Disks, Marks
  <2> QED BY <2>1, <2>2
<1> QED BY <1>3, <1>4 DEF Disks

LEMMA MoveOnDiskIn ==
    ASSUME NEW rem, disk \in Disks(rem), NEW p, NEW q, SameKind(p, q), MoveOnDisk(p, q)
    PROVE  /\ disk' \in Disks(rem)
           /\ \A x \in Path : ~Under(x, q) => disk'[x].data \in {0, disk[x].data}
<1>0. q \in Path
  BY DEF SameKind
<1>1. WithParents(q) \in Disks(rem) /\ \A x \in Path : WithParents(q)[x].data \in {0, disk[x].data}
  BY <1>0, ParentsIn
<1>2. disk' = [r \in Path |-> IF Under(r, q) /\ Rebase(r, q, p) \in Path THEN disk[Rebase(r, q, p)]
                              ELSE IF Under(r, p) THEN Absent ELSE WithParents(q)[r]]
  BY DEF MoveOnDisk
<1>3. /\ disk' \in Disks(rem)
      /\ \A x \in Path : ~Under(x, q) => disk'[x].data \in {0, WithParents(q)[x].data}
  BY <1>1, <1>2, RenamedIn
<1> QED BY <1>1, <1>3

(* One file put at a path. *)
LEMMA PutOnDisk ==
    ASSUME NEW rem, NEW d \in Disks(rem), NEW p \in Path, NEW n \in Node, Marks(rem, p, n.id),
           n.kind = "file" => p \notin Dirs
    PROVE  [d EXCEPT ![p] = n] \in Disks(rem)
BY DEF Disks

LEMMA ClearedDisk ==
    ASSUME NEW rem, NEW d \in Disks(rem), NEW S
    PROVE  [q \in Path |-> IF q \in S THEN Absent ELSE d[q]] \in Disks(rem)
BY NodesIn DEF Disks, Marks

-----------------------------------------------------------------------------
(* The rows *)

LEMMA RekeyedIn ==
    ASSUME NEW rem, NEW rs, Rows(rem, rs), NEW roots, NEW old, NEW new, SameKind(old, new), NEW ver \in Version,
           \A r \in rs : Under(r.path, old), new \in Dirs => ~Under(new, old) \/ old = new
    PROVE  Rows(rem, Rekeyed(rs, roots, old, new, ver))
<1> SUFFICES ASSUME NEW r \in rs
             PROVE  RowIn(rem, [r EXCEPT !.path = Rebase(@, old, new), !.ver = IF r \in roots THEN ver ELSE @,
                                         !.madeup = @ \/ (r \in roots /\ MadeUp(r, ver))])
  BY DEF Rows, Rekeyed
<1> DEFINE to == Rebase(r.path, old, new)
           v == IF r \in roots THEN ver ELSE r.ver
           m == r.madeup \/ (r \in roots /\ MadeUp(r, ver))
           s == [r EXCEPT !.path = to, !.ver = v, !.madeup = m]
<1>1. RowIn(rem, r) /\ r \in RowSet
  BY DEF Rows, RowIn
<1>2. SameKind(r.path, to)
  <2>1. r.path \in Path /\ (old \in Dirs => ~Under(new, old) \/ old = new)
    BY <1>1 DEF RowSet, SameKind
  <2> QED BY <2>1, Carry
<1>3. m \in BOOLEAN
  BY <1>1 DEF RowSet, MadeUp
<1>4. v \in Version
  BY <1>1 DEF RowSet
<1> HIDE DEF to, m, v
<1>5. s \in RowSet /\ s.path = to /\ s.id = r.id /\ s.seen = r.seen /\ s.ver = v /\ s.madeup = m
  BY <1>1, <1>2, <1>3, <1>4 DEF RowSet, SameKind
<1>6. Truthful(s)
  <2>1. r.seen # 0 /\ r.ver # NoVersion /\ ~r.madeup => r.seen = r.ver[1]
    BY <1>1 DEF RowIn, Truthful
  <2>2. CASE r \in roots
    <3>1. v = ver /\ m = (r.madeup \/ MadeUp(r, ver))
      BY <2>2, <1>1 DEF v, m, RowSet
    <3> QED BY <3>1, <2>1, <1>5, Zenon DEF Truthful, MadeUp
  <2>3. CASE r \notin roots
    <3>1. v = r.ver /\ m = r.madeup
      BY <2>3, <1>1 DEF v, m, RowSet
    <3> QED BY <3>1, <2>1, <1>5 DEF Truthful
  <2> QED BY <2>2, <2>3
<1>7. Fits(rem, to, r.id) /\ (to \in Dirs => r.seen = 0)
  BY <1>1, <1>2 DEF RowIn, Fits, SameKind
<1>8. RowIn(rem, s)
  BY <1>5, <1>6, <1>7 DEF RowIn
<1> QED BY <1>8 DEF s, to, v, m

LEMMA RowsSubset == ASSUME NEW rem, NEW rs, NEW more, Rows(rem, rs), Rows(rem, more)
                    PROVE  /\ \A S : S \subseteq rs => Rows(rem, S)
                           /\ Rows(rem, rs \cup more)
BY DEF Rows

(* A new row. *)
LEMMA RowIsIn ==
    ASSUME NEW rem, NEW p, NEW i, Fits(rem, p, i), NEW seen \in Nat, NEW ver \in Version,
           NEW status \in {"synced", "cloud_only", "conflict", "failed", "deleted"},
           p \in Dirs => seen = 0
    PROVE  /\ Row(p, i, seen, ver, status) \in RowSet
           /\ seen \in {0, ver[1]} => RowIn(rem, Row(p, i, seen, ver, status))
           /\ \A m \in BOOLEAN : (m \/ seen \in {0, ver[1]} \/ ver = NoVersion) =>
                RowIn(rem, [Row(p, i, seen, ver, status) EXCEPT !.madeup = m])
BY DEF Row, RowSet, Fits, RowIn, Truthful

LEMMA UploadSettledIn ==
    ASSUME Sound, NEW t \in tasks, t.made
    PROVE  Rows(remote, UploadSettled(t)) /\ Fits(remote, t.path, t.id)
<1>1. TaskIn(remote, t) /\ t.id \in Id /\ t.snap \in Nat /\ t.ver \in Version /\ t.ver[1] = t.snap
  BY DEF Sound, Tasks, TaskIn, TaskSet
<1>2. Fits(remote, t.path, t.id) /\ t.path \notin Dirs
  BY <1>1, PathIsSeq DEF TaskIn, Marks
<1>3. RowIn(remote, Row(t.path, t.id, t.snap, t.ver, "synced"))
  BY <1>1, <1>2, RowIsIn
<1> QED BY <1>2, <1>3 DEF Sound, Rows, UploadSettled, OnlyIdentity

-----------------------------------------------------------------------------
(* The baselines that a cycle plans from *)

LEMMA ByPathIs ==
    ASSUME NEW rs, NEW p \in Path, ByPath(rs)[p] # NoRow
    PROVE  ByPath(rs)[p] \in rs /\ ByPath(rs)[p].path = p
<1>1. CASE \E r \in rs : r.path = p
  <2>1. ByPath(rs)[p] = CHOOSE r \in rs : r.path = p
    BY <1>1 DEF ByPath
  <2> QED BY <1>1, <2>1
<1>2. CASE ~\E r \in rs : r.path = p
  BY <1>2 DEF ByPath
<1> QED BY <1>1, <1>2

LEMMA HealedIn == ASSUME NEW rs, NEW t PROVE Healed(rs, t) \subseteq rs
<1> DEFINE twice == {r \in rs : \E s \in rs : s # r /\ s.path = r.path}
<1>1. ASSUME NEW r \in twice
      PROVE  (CHOOSE s \in KeptRows(rs, r.path, t) : TRUE) \in rs
  <2>1. KeptRows(rs, r.path, t) # {}
    BY DEF KeptRows
  <2>2. (CHOOSE s \in KeptRows(rs, r.path, t) : TRUE) \in KeptRows(rs, r.path, t)
    BY <2>1
  <2>3. KeptRows(rs, r.path, t) \subseteq rs
    BY DEF KeptRows
  <2> QED BY <2>2, <2>3
<1>2. \A p \in {r.path : r \in twice} : (CHOOSE s \in KeptRows(rs, p, t) : TRUE) \in rs
  BY <1>1
<1>3. Healed(rs, t) = (rs \ twice) \cup {CHOOSE s \in KeptRows(rs, p, t) : TRUE : p \in {r.path : r \in twice}}
  BY DEF Healed
<1> HIDE DEF twice
<1> QED BY <1>2, <1>3

LEMMA StatusIn == \A n : Status(n) \in {"synced", "cloud_only", "conflict", "failed", "deleted"}
BY DEF Status

LEMMA AdoptFileIn ==
    ASSUME NEW rem, disk \in Disks(rem), tree \in Trees(rem), NEW scan \in [Path -> Node],
           NEW rs, Rows(rem, rs), NEW blocked, NEW p \in Path \ Dirs
    PROVE  Rows(rem, AdoptFile(p, scan, disk, rs, tree, blocked))
<1> DEFINE id == disk[p].id
           old == RowsOf(rs, id)
<1>1. CASE id = NoId \/ tree[p].id # id \/ IsBlocked(p, id, blocked)
  BY <1>1 DEF AdoptFile, Rows
<1>2. CASE ~(id = NoId \/ tree[p].id # id \/ IsBlocked(p, id, blocked))
  <2>1. Fits(rem, p, id) /\ tree[p].ver \in Version /\ scan[p].data \in Nat
    BY <1>2 DEF Trees, Marks, Entry, Node
  <2>2. CASE old = {}
    <3> DEFINE m == scan[p].data \notin {0, tree[p].ver[1]}
               s == [Row(p, id, scan[p].data, NoVersion, Status(scan[p])) EXCEPT !.madeup = m]
    <3>1. AdoptFile(p, scan, disk, rs, tree, blocked) = {s}
      BY <1>2, <2>2 DEF AdoptFile
    <3>2. m \in BOOLEAN
      OBVIOUS
    <3> HIDE DEF m
    <3>3. RowIn(rem, s)
      BY <2>1, <3>2, RowIsIn, StatusIn, VersionIs
    <3> QED BY <3>1, <3>3 DEF Rows
  <2>3. CASE old # {}
    <3> DEFINE r == CHOOSE r \in old : TRUE
               m == r.madeup \/ MadeUp(r, tree[p].ver)
               s == [r EXCEPT !.path = p, !.ver = tree[p].ver, !.madeup = m]
    <3>1. r \in rs /\ r.id = id
      BY <2>3 DEF RowsOf
    <3>2. \A x \in AdoptFile(p, scan, disk, rs, tree, blocked) : x = s
      BY <1>2, <2>3 DEF AdoptFile
    <3> HIDE DEF r
    <3>3. r \in RowSet /\ Truthful(r)
      BY <3>1 DEF Rows, RowIn
    <3>4. m \in BOOLEAN
      BY <3>3 DEF RowSet, MadeUp
    <3>5. m = (r.madeup \/ MadeUp(r, tree[p].ver))
      OBVIOUS
    <3> HIDE DEF m
    <3>6. s \in RowSet /\ s.path = p /\ s.id = id /\ s.seen = r.seen /\ s.ver = tree[p].ver /\ s.madeup = m
      BY <2>1, <3>1, <3>3, <3>4 DEF RowSet, Fits
    <3>7. Truthful(s)
      BY <3>3, <3>5, <3>6, Zenon DEF Truthful, MadeUp
    <3>8. RowIn(rem, s)
      BY <2>1, <3>6, <3>7 DEF RowIn
    <3> QED BY <3>2, <3>8 DEF Rows
  <2> QED BY <2>2, <2>3
<1> QED BY <1>1, <1>2

LEMMA RestatedIn ==
    ASSUME NEW rem, NEW r, RowIn(rem, r), NEW status \in {"synced", "cloud_only", "conflict", "failed", "deleted"}
    PROVE  RowIn(rem, [r EXCEPT !.status = status])
BY DEF RowIn, RowSet, Truthful

LEMMA ReconciledIn ==
    ASSUME NEW rem, disk \in Disks(rem), tree \in Trees(rem), NEW scan \in [Path -> Node],
           NEW rs, Rows(rem, rs), NEW blocked
    PROVE  Rows(rem, Reconciled(scan, disk, rs, tree, blocked))
<1> DEFINE seen == {p \in Path : Here(scan[p]) /\ ~IsBlocked(p, NoId, blocked)}
           revived == {r \in rs : r.status = "deleted" /\ r.path \in seen}
           new == {p \in seen : ByPath(rs)[p] = NoRow}
           folders == {Row(p, tree[p].id, 0, tree[p].ver, "synced") : p \in {q \in new \cap Dirs : There(tree[q])}}
           files == UNION {AdoptFile(p, scan, disk, rs, tree, blocked) : p \in new \ Dirs}
           kept == {r \in rs \ revived : ~\E f \in files : f.id = r.id}
           back == {[r EXCEPT !.status = Status(scan[r.path])] : r \in {r \in revived : ~\E f \in files : f.id = r.id}}
<1>1. Reconciled(scan, disk, rs, tree, blocked) = kept \cup back \cup folders \cup files
  BY DEF Reconciled
<1>2. Rows(rem, files)
  BY AdoptFileIn DEF Rows
<1> HIDE DEF files
<1>3. Rows(rem, kept)
  BY DEF Rows
<1>4. Rows(rem, back)
  <2> SUFFICES ASSUME NEW r \in rs
               PROVE  RowIn(rem, [r EXCEPT !.status = Status(scan[r.path])])
    BY DEF Rows
  <2> QED BY RestatedIn, StatusIn DEF Rows
<1>5. Rows(rem, folders)
  <2> SUFFICES ASSUME NEW p \in Path, There(tree[p])
               PROVE  RowIn(rem, Row(p, tree[p].id, 0, tree[p].ver, "synced"))
    BY DEF Rows
  <2>1. Fits(rem, p, tree[p].id) /\ tree[p].ver \in Version
    BY DEF Trees, Marks, There, Entry
  <2> QED BY <2>1, RowIsIn
<1> HIDE DEF kept, back, folders
<1> QED BY <1>1, <1>2, <1>3, <1>4, <1>5 DEF Rows

LEMMA PurgedIn ==
    ASSUME NEW rem, tree \in Trees(rem), NEW scan, NEW rs, Rows(rem, rs), NEW blocked, NEW busy
    PROVE  Rows(rem, Purged(rs, scan, tree, blocked, busy))
<1>1. ASSUME NEW r \in rs
      PROVE  RowIn(rem, [r EXCEPT !.status = "synced", !.ver = IF r.path \in Dirs THEN tree[r.path].ver ELSE @])
  <2>1. RowIn(rem, r) /\ r.path \in Path
    BY DEF Rows, RowIn, RowSet
  <2>2. tree[r.path].ver \in Version
    BY <2>1 DEF Trees, Entry
  <2>3. CASE r.path \in Dirs
    BY <2>1, <2>2, <2>3 DEF RowIn, RowSet, Truthful
  <2>4. CASE r.path \notin Dirs
    BY <2>1, <2>4 DEF RowIn, RowSet, Truthful
  <2> QED BY <2>3, <2>4
<1> QED BY <1>1 DEF Purged, Rows

LEMMA BaselinesIn ==
    ASSUME Sound, cyc.pc = "scan"
    PROVE  Rows(remote, Baselines)
<1>1. cyc.scan \in [Path -> Node]
  BY CycleShape DEF Sound, Early
<1>2. Rows(remote, Healed(rows, tree))
  BY HealedIn, RowsSubset DEF Sound
<1>3. Rows(remote, Reconciled(cyc.scan, disk, Healed(rows, tree), tree, cyc.blocked))
  BY <1>1, <1>2, ReconciledIn DEF Sound
<1> DEFINE known == Reconciled(cyc.scan, disk, Healed(rows, tree), tree, cyc.blocked)
<1> HIDE DEF known
<1>4. Rows(remote, Purged(known, cyc.scan, tree, cyc.blocked, {t.path : t \in tasks}))
  BY <1>3, PurgedIn DEF Sound, known
<1> DEFINE purged == Purged(known, cyc.scan, tree, cyc.blocked, {t.path : t \in tasks})
<1>5. Baselines = Healed(purged, tree)
  BY DEF Baselines, known
<1> HIDE DEF purged
<1>6. Healed(purged, tree) \subseteq purged
  BY HealedIn
<1> QED BY <1>4, <1>5, <1>6, RowsSubset DEF purged

-----------------------------------------------------------------------------
(* The plan *)

OnePer(acts) == \A a, b \in acts : a.path = b.path => a = b
Sane(rem, acts) == OnePer(acts) /\ \A a \in acts : ActIn(rem, a)

LEMMA SaneSubset == ASSUME NEW rem, NEW acts, Sane(rem, acts) PROVE \A S : S \subseteq acts => Sane(rem, S)
BY DEF Sane, OnePer

LEMMA ActIs ==
    ASSUME NEW rem, NEW p \in Path, NEW i \in Mark, Marks(rem, p, i), NEW ver \in Version,
           NEW op \in {"Upload", "Download", "CreatePlaceholder", "CreateFolder", "MoveInCloud", "DeleteFromCloud",
                       "DeleteFromLocal", "BackupBeforeCloudDelete", "CreateConflictCopy"},
           op \in {"CreatePlaceholder", "CreateConflictCopy"} => p \notin Dirs,
           op = "CreateFolder" => p \in Dirs,
           op \in {"CreatePlaceholder", "CreateConflictCopy", "MoveInCloud", "Download"} \/ ver # NoVersion => i \in Id
    PROVE  ActIn(rem, Act(op, p, i, ver)) /\ Act(op, p, i, ver).path = p
BY DEF ActIn, Act, ActSet, ConflictOps, CarriesFile

LEMMA DecideIn ==
    ASSUME NEW rem, NEW s, s.cloud \in Trees(rem), NEW rs, Rows(rem, rs), s.db = ByPath(rs), NEW p \in Path
    PROVE  \A a \in Decide(p, s) : /\ ActIn(rem, a) /\ a.path = p
                                   /\ \A b \in Decide(p, s) : a = b
<1> DEFINE c == s.cloud[p]
<1>0. c.ver \in Version /\ c.id \in Mark /\ (There(c) => c.id \in Id /\ Fits(rem, p, c.id))
  BY DEF Trees, Entry, Marks, Fits, There
<1>1. c.id \in Mark /\ Marks(rem, p, c.id) /\ NoId \in Mark /\ Marks(rem, p, NoId) /\ NoVersion \in Version
  BY <1>0, VersionIs DEF Trees, Marks, Mark
<1>2. s.db[p] # NoRow => s.db[p].id \in Mark /\ Marks(rem, p, s.db[p].id)
  BY ByPathIs DEF Rows, RowIn, RowSet, Marks, Mark
<1>3. There(c) => \A a \in DecideMissing(p, s) : ActIn(rem, a) /\ a.path = p /\ \A b \in DecideMissing(p, s) : a = b
  BY <1>0, <1>1, ActIs DEF DecideMissing
<1>4. There(c) /\ p \notin Dirs =>
        \A a \in DecideBoth(p, s) : ActIn(rem, a) /\ a.path = p /\ \A b \in DecideBoth(p, s) : a = b
  <2> DEFINE both == {"CreateConflictCopy", "Upload", "Download"}
  <2>1. There(c) /\ p \notin Dirs => \A op \in both : ActIn(rem, Act(op, p, c.id, c.ver)) /\ Act(op, p, c.id, c.ver).path = p
    BY <1>0, <1>1, ActIs
  <2>2. DecideBoth(p, s) = {} \/ \E op \in both : DecideBoth(p, s) = {Act(op, p, c.id, c.ver)}
    BY DEF DecideBoth
  <2> QED BY <2>1, <2>2
<1>5. s.db[p] # NoRow => \A a \in DecideGone(p, s) : ActIn(rem, a) /\ a.path = p /\ \A b \in DecideGone(p, s) : a = b
  BY <1>1, <1>2, ActIs DEF DecideGone
<1>6. \A a \in DecideNew(p, s) : ActIn(rem, a) /\ a.path = p /\ \A b \in DecideNew(p, s) : a = b
  BY <1>1, ActIs DEF DecideNew
<1> QED BY <1>3, <1>4, <1>5, <1>6 DEF Decide

LEMMA PlanIn ==
    ASSUME NEW rem, NEW s, s.cloud \in Trees(rem), NEW rs, Rows(rem, rs), s.db = ByPath(rs)
    PROVE  Sane(rem, Plan(s))
<1>1. \A a \in Plan(s) : a.path \in Path /\ a \in Decide(a.path, s) /\ ActIn(rem, a)
  BY DecideIn DEF Plan
<1>2. \A a, b \in Plan(s) : a.path = b.path => a = b
  BY <1>1, DecideIn
<1> QED BY <1>1, <1>2 DEF Sane, OnePer

(* A move takes the place of what it was taken for. *)
LEMMA RenamesIn ==
    ASSUME NEW rem, disk \in Disks(rem), tree \in Trees(rem), NEW rs, NEW acts, Sane(rem, acts)
    PROVE  Sane(rem, DetectRenames(acts, rs, disk, tree))
<1> DEFINE renamed == Renamed(acts, rs, disk, tree)
           ver(a) == tree[CHOOSE q \in TreePaths(tree, disk[a.path].id) : TRUE].ver
           MoveOf(a) == Act("MoveInCloud", a.path, disk[a.path].id, ver(a))
           moves == {MoveOf(a) : a \in renamed}
           both == moves \cup (acts \ renamed)
<1>1. DetectRenames(acts, rs, disk, tree) \subseteq both
  BY DEF DetectRenames
<1>2. renamed \subseteq acts
  BY DEF Renamed
<1>3. ASSUME NEW a \in renamed
      PROVE  ActIn(rem, MoveOf(a)) /\ MoveOf(a).path = a.path
  <2>1. a \in acts /\ Carried(a, rs, disk, tree)
    BY DEF Renamed
  <2>2. a.path \in Path
    BY <2>1 DEF Sane, ActIn, ActSet
  <2> DEFINE id == disk[a.path].id
             q == CHOOSE q \in TreePaths(tree, id) : TRUE
  <2>3. id # NoId /\ TreePaths(tree, id) # {}
    BY <2>1 DEF Carried
  <2>4. q \in Path
    BY <2>3 DEF TreePaths
  <2>5. ver(a) \in Version
    BY <2>4 DEF Trees, Entry
  <2>6. id \in Id /\ id \in Mark /\ Marks(rem, a.path, id)
    BY <2>2, <2>3 DEF Disks, Marks, Mark, Fits
  <2> HIDE DEF ver
  <2> QED BY <2>2, <2>5, <2>6, ActIs, SMTT(30)
<1> HIDE DEF MoveOf, renamed
<1>4. \A a \in both : ActIn(rem, a)
  BY <1>2, <1>3 DEF Sane
<1>5. OnePer(both)
  <2>1. ASSUME NEW a \in both
        PROVE  \E b \in acts : a.path = b.path /\ (b \in renamed => a = MoveOf(b)) /\ (b \notin renamed => a = b)
    BY <1>2, <1>3
  <2> QED BY <2>1 DEF OnePer, Sane
<1> HIDE DEF both
<1> QED BY <1>1, <1>4, <1>5, SaneSubset DEF Sane

LEMMA RescuedIn ==
    ASSUME NEW rem, NEW s, NEW acts, Sane(rem, acts), NEW gone
    PROVE  Sane(rem, Rescued(acts, s, gone))
<1> DEFINE new == {Act("CreateFolder", f, NoId, NoVersion) : f \in Dirs \ (PathsOf(acts) \cup gone)}
<1>1. Rescued(acts, s, gone) \subseteq acts \cup new
  BY DEF Rescued
<1>2. \A f \in Dirs : ActIn(rem, Act("CreateFolder", f, NoId, NoVersion))
                      /\ Act("CreateFolder", f, NoId, NoVersion).path = f
  BY ActIs, PathIsSeq, VersionIs DEF Mark, Marks
<1>3. Sane(rem, acts \cup new)
  <2>1. \A a \in acts : a.path \in PathsOf(acts)
    BY DEF PathsOf
  <2>2. \A a \in new : ActIn(rem, a) /\ a.path \notin PathsOf(acts) /\ a = Act("CreateFolder", a.path, NoId, NoVersion)
    BY <1>2
  <2> HIDE DEF new
  <2>3. OnePer(acts \cup new)
    BY <2>1, <2>2 DEF Sane, OnePer
  <2> QED BY <2>2, <2>3 DEF Sane
<1> HIDE DEF new
<1> QED BY <1>1, <1>3, SaneSubset

LEMMA FilteredIn ==
    ASSUME NEW rem, disk \in Disks(rem), tree \in Trees(rem), NEW rs, Rows(rem, rs)
    PROVE  Sane(rem, Filtered(Plan(Snapshot(rs)), rs))
<1> DEFINE s == Snapshot(rs)
           a1 == DetectRenames(Plan(s), rs, disk, tree)
           a2 == WithoutRecent(WithoutActive(a1, rs, tasks), recent)
           a3 == WithoutBlocked(Rescued(a2, s, recent), cyc.blocked)
<1>1. s.cloud \in Trees(rem) /\ s.db = ByPath(rs)
  BY DEF Snapshot
<1>2. Filtered(Plan(s), rs) = KeepBackupDirs(DedupeLocalDeletes(DedupeCloudDeletes(StillGone(a3, disk), tree)))
  BY DEF Filtered
<1> HIDE DEF s
<1>3. Sane(rem, Plan(s))
  BY <1>1, PlanIn
<1>4. Sane(rem, a1)
  BY <1>3, RenamesIn
<1> HIDE DEF a1
<1>5. a2 \subseteq a1
  BY DEF WithoutRecent, WithoutActive
<1>6. Sane(rem, a2)
  BY <1>4, <1>5, SaneSubset
<1> HIDE DEF a2
<1>7. Sane(rem, Rescued(a2, s, recent))
  BY <1>6, RescuedIn
<1>8. a3 \subseteq Rescued(a2, s, recent)
  BY DEF WithoutBlocked
<1>9. Sane(rem, a3)
  BY <1>7, <1>8, SaneSubset
<1> HIDE DEF a3
<1>10. KeepBackupDirs(DedupeLocalDeletes(DedupeCloudDeletes(StillGone(a3, disk), tree))) \subseteq a3
  <2>1. StillGone(a3, disk) \subseteq a3
    BY DEF StillGone
  <2>2. \A acts, op, roots : WithoutCovered(acts, op, roots) \subseteq acts
    BY DEF WithoutCovered
  <2>3. \A acts : DedupeCloudDeletes(acts, tree) \subseteq acts /\ DedupeLocalDeletes(acts) \subseteq acts
    BY <2>2 DEF DedupeCloudDeletes, DedupeLocalDeletes
  <2>4. \A acts : KeepBackupDirs(acts) \subseteq acts
    BY DEF KeepBackupDirs
  <2> QED BY <2>1, <2>3, <2>4
<1>11. Sane(rem, Filtered(Plan(s), rs))
  BY <1>2, <1>9, <1>10, SaneSubset
<1> QED BY <1>11 DEF s

-----------------------------------------------------------------------------
(* Folds over a finite set: the recursion has a solution, and what each step *)
(* keeps the fold keeps.                                                    *)

LEMMA LeastNumber ==
    ASSUME NEW S, S \subseteq Nat, S # {}
    PROVE  \E n \in S : \A m \in S : n <= m
<1>1. PICK n \in S : \A m \in S : <<m, n>> \notin OpToRel(<, Nat)
  BY NatLessThanWellFounded, WFMin, Zenon
<1>2. \A m \in S : ~(m < n)
  BY <1>1 DEF OpToRel
<1> QED BY <1>2

(* The element a fold of a set takes next. *)
Some(s) == CHOOSE x \in s : TRUE

LEMMA Smaller ==
    ASSUME NEW S, IsFiniteSet(S), S # {}
    PROVE  /\ Some(S) \in S /\ IsFiniteSet(S \ {Some(S)})
           /\ Cardinality(S) \in Nat /\ Cardinality(S \ {Some(S)}) \in Nat
           /\ Cardinality(S \ {Some(S)}) = Cardinality(S) - 1 /\ Cardinality(S) # 0
<1>1. Some(S) \in S
  BY DEF Some
<1>2. Cardinality(S) \in Nat /\ IsFiniteSet(S \ {Some(S)}) /\ Cardinality(S \ {Some(S)}) = Cardinality(S) - 1
  BY <1>1, FS_RemoveElement, FS_CardinalityType
<1>3. Cardinality(S \ {Some(S)}) \in Nat
  BY <1>2, FS_CardinalityType
<1> QED BY <1>1, <1>2, <1>3, FS_EmptySet

(* F does not lead out of X; g is the fold of F over each subset of D. *)
Closed(F, D, X) == \A d \in D, x \in X : F[<<d, x>>] \in X
Folds(g, D, b, F) == \A s \in SUBSET D : g[s] = IF s = {} THEN b ELSE F[<<Some(s), g[s \ {Some(s)}]>>]

(* The recursion of a fold has a solution. *)
LEMMA FoldExists ==
    ASSUME NEW X, NEW D, IsFiniteSet(D), NEW b \in X,
           NEW F, Closed(F, D, X)
    PROVE  \E g : g \in [SUBSET D -> X] /\ Folds(g, D, b, F)
<1> USE DEF Closed
<1> DEFINE Sub(n) == {s \in SUBSET D : Cardinality(s) <= n}
           Solves(g, n) == /\ g \in [Sub(n) -> X]
                           /\ \A s \in Sub(n) : g[s] = IF s = {} THEN b ELSE F[<<Some(s), g[s \ {Some(s)}]>>]
           Bad == {n \in Nat : ~\E g : Solves(g, n)}
<1>1. \A s \in SUBSET D : IsFiniteSet(s) /\ Cardinality(s) \in Nat
  BY FS_Subset, FS_CardinalityType
<1>2. \E g : Solves(g, 0)
  <2>1. \A s \in Sub(0) : s = {}
    BY <1>1, FS_EmptySet
  <2>2. Solves([s \in Sub(0) |-> b], 0)
    BY <2>1
  <2> QED BY <2>2
<1>3. ASSUME NEW n \in Nat, n # 0, NEW g, Solves(g, n - 1)
      PROVE  \E h : Solves(h, n)
  <2> DEFINE h == [s \in Sub(n) |-> IF Cardinality(s) <= n - 1 THEN g[s] ELSE F[<<Some(s), g[s \ {Some(s)}]>>]]
  <2>1. \A s \in Sub(n) : s # {} => s \ {Some(s)} \in Sub(n - 1) /\ Some(s) \in D
    <3> TAKE s \in Sub(n)
    <3> HAVE s # {}
    <3>1. IsFiniteSet(s)
      BY <1>1
    <3>2. Some(s) \in s /\ Cardinality(s \ {Some(s)}) = Cardinality(s) - 1 /\ Cardinality(s) \in Nat
      BY <3>1, Smaller
    <3>3. Cardinality(s \ {Some(s)}) <= n - 1
      BY <3>2
    <3> QED BY <3>2, <3>3
  <2>2. \A s \in Sub(n - 1) : s \in Sub(n) /\ h[s] = g[s] /\ g[s] \in X
    <3> TAKE s \in Sub(n - 1)
    <3>1. Cardinality(s) \in Nat /\ Cardinality(s) <= n - 1
      BY <1>1
    <3>2. s \in Sub(n)
      BY <3>1
    <3> QED BY <3>1, <3>2, <1>3
  <2>3. \A s \in Sub(n) : ~(Cardinality(s) <= n - 1) => s # {}
    <3> SUFFICES 0 <= n - 1
      BY FS_EmptySet
    <3> QED BY <1>3
  <2>4. ASSUME NEW s \in Sub(n)
        PROVE  h[s] \in X /\ h[s] = IF s = {} THEN b ELSE F[<<Some(s), h[s \ {Some(s)}]>>]
    <3>1. CASE Cardinality(s) <= n - 1
      <4>1. s \in Sub(n - 1)
        BY <3>1
      <4>2. h[s] = g[s] /\ g[s] \in X
        BY <4>1, <2>2
      <4>3. g[s] = IF s = {} THEN b ELSE F[<<Some(s), g[s \ {Some(s)}]>>]
        BY <4>1, <1>3
      <4>4. s # {} => h[s \ {Some(s)}] = g[s \ {Some(s)}]
        BY <2>1, <2>2
      <4> HIDE DEF h, Sub
      <4> QED BY <4>2, <4>3, <4>4
    <3>2. CASE ~(Cardinality(s) <= n - 1)
      <4>1. s # {}
        BY <3>2, <2>3
      <4>2. h[s] = F[<<Some(s), g[s \ {Some(s)}]>>]
        BY <3>2
      <4>3. h[s \ {Some(s)}] = g[s \ {Some(s)}] /\ g[s \ {Some(s)}] \in X /\ Some(s) \in D
        BY <4>1, <2>1, <2>2
      <4> HIDE DEF h, Sub
      <4> QED BY <4>1, <4>2, <4>3
    <3> QED BY <3>1, <3>2
  <2>5. h \in [Sub(n) -> X]
    BY <2>4
  <2> HIDE DEF h
  <2>6. Solves(h, n)
    BY <2>4, <2>5
  <2> QED BY <2>6
<1> HIDE DEF Solves
<1>4. Bad = {}
  <2> SUFFICES ASSUME Bad # {} PROVE FALSE
    OBVIOUS
  <2>1. PICK n \in Bad : \A m \in Bad : n <= m
    BY LeastNumber
  <2>2. n \in Nat /\ n # 0
    BY <1>2
  <2>3. n - 1 \in Nat /\ n - 1 \notin Bad
    BY <2>1, <2>2
  <2>4. \E g : Solves(g, n - 1)
    BY <2>3
  <2> QED BY <1>3, <2>2, <2>4
<1>5. Cardinality(D) \in Nat /\ \A s \in SUBSET D : Cardinality(s) <= Cardinality(D)
  BY FS_Subset, FS_CardinalityType
<1>6. PICK g : Solves(g, Cardinality(D))
  BY <1>4, <1>5
<1>7. Sub(Cardinality(D)) = SUBSET D
  BY <1>5
<1>8. g \in [SUBSET D -> X] /\ \A s \in SUBSET D : g[s] = IF s = {} THEN b ELSE F[<<Some(s), g[s \ {Some(s)}]>>]
  BY <1>6, <1>7 DEF Solves
<1> QED BY <1>8 DEF Folds

(* What a solution is for the empty set, and stays with one element more. *)
LEMMA FoldInduct ==
    ASSUME NEW X, NEW D, IsFiniteSet(D), NEW it, it[{}] \in X,
           \A s \in SUBSET D : s # {} /\ it[s \ {Some(s)}] \in X => it[s] \in X
    PROVE  it[D] \in X
<1> DEFINE Bad == {Cardinality(s) : s \in {s \in SUBSET D : it[s] \notin X}}
<1>1. \A s \in SUBSET D : IsFiniteSet(s) /\ Cardinality(s) \in Nat
  BY FS_Subset, FS_CardinalityType
<1>2. Bad = {}
  <2> SUFFICES ASSUME Bad # {} PROVE FALSE
    OBVIOUS
  <2>1. PICK n \in Bad : \A m \in Bad : n <= m
    <3>1. Bad \subseteq Nat
      BY <1>1
    <3> HIDE DEF Bad
    <3> QED BY <3>1, LeastNumber
  <2>2. PICK s \in SUBSET D : n = Cardinality(s) /\ it[s] \notin X
    OBVIOUS
  <2>3. s # {}
    BY <2>2
  <2>4. Cardinality(s \ {Some(s)}) = n - 1 /\ n \in Nat
    BY <2>2, <2>3, <1>1, Smaller
  <2>5. it[s \ {Some(s)}] \in X
    BY <2>4, <2>1
  <2> QED BY <2>2, <2>3, <2>5
<1> QED BY <1>2

(* Every step of TreeWith keeps the tree one. *)
GoodTrees(rem) == {t \in Trees(rem) : OnePath(t)}
Answer(rem, d) == d.act.path \in Path /\ d.id \in Mark /\ Marks(rem, d.act.path, d.id) /\ d.ver \in Version

LEMMA TreeWithIn ==
    ASSUME NEW rem, NEW b \in GoodTrees(rem), NEW D, IsFiniteSet(D), \A d \in D : Answer(rem, d)
    PROVE  TreeWith(b, D) \in GoodTrees(rem)
<1> DEFINE X == GoodTrees(rem)
           After(t, d) == TreePut(t, d.id, d.act.path, d.ver)
           Is(iter) == iter = [s \in SUBSET D |-> IF s = {} THEN b
                                ELSE After(iter[s \ {CHOOSE x \in s : TRUE}], CHOOSE x \in s : TRUE)]
           it == CHOOSE iter : Is(iter)
           F == [dx \in D \X X |-> After(dx[2], dx[1])]
<1>0. b \in X /\ IsFiniteSet(D)
  OBVIOUS
<1>1. TreeWith(b, D) = it[D]
  BY DEF TreeWith, FoldSet, MapThenFoldSet
<1>2. \A d \in D, x \in X : After(x, d) \in X
  BY TreePutIn DEF GoodTrees, Answer
<1> HIDE DEF After
<1>3. \A d \in D, x \in X : F[<<d, x>>] = After(x, d)
  OBVIOUS
<1>4. \A s \in SUBSET D : s # {} => Some(s) \in D
  BY DEF Some
<1>5. \E g : Is(g)
  <2>1. Closed(F, D, X)
    BY <1>2, <1>3 DEF Closed
  <2> HIDE DEF F, X
  <2>2. PICK g : g \in [SUBSET D -> X] /\ Folds(g, D, b, F)
    BY <2>1, <1>0, FoldExists, Zenon
  <2>3. \A s \in SUBSET D : g[s] = IF s = {} THEN b ELSE After(g[s \ {CHOOSE x \in s : TRUE}], CHOOSE x \in s : TRUE)
    <3> TAKE s \in SUBSET D
    <3>1. g[s] = IF s = {} THEN b ELSE F[<<Some(s), g[s \ {Some(s)}]>>]
      BY <2>2 DEF Folds
    <3>2. g[s \ {Some(s)}] \in X
      BY <2>2
    <3>3. s # {} => F[<<Some(s), g[s \ {Some(s)}]>>] = After(g[s \ {Some(s)}], Some(s))
      BY <1>3, <1>4, <3>2
    <3> QED BY <3>1, <3>3 DEF Some
  <2>4. Is(g)
    BY <2>2, <2>3
  <2> QED BY <2>4
<1>6. Is(it)
  BY <1>5
<1> HIDE DEF it, X
<1>7. \A s \in SUBSET D : it[s] = IF s = {} THEN b ELSE After(it[s \ {Some(s)}], Some(s))
  BY <1>6 DEF Some
<1>8. it[{}] \in X
  BY <1>7, <1>0
<1>9. \A s \in SUBSET D : s # {} /\ it[s \ {Some(s)}] \in X => it[s] \in X
  BY <1>2, <1>4, <1>7
<1>10. it[D] \in X
  BY <1>0, <1>8, <1>9, FoldInduct
<1> QED BY <1>1, <1>10 DEF X

Moving(rem) == [ok : BOOLEAN, tree : GoodTrees(rem)]

LEMMA TreeMovedIn ==
    ASSUME NEW rem, NEW t \in Moving(rem), NEW d, Answer(rem, d), d.id # NoId
    PROVE  TreeMoved(t, d) \in Moving(rem)
<1> DEFINE p == d.act.path
           from == TreePaths(t.tree, d.id) \ {p}
           old == CHOOSE q \in from : TRUE
           u == IF p \in Dirs /\ from # {} THEN TreeRekeyed(t.tree, old, p) ELSE t.tree
<1>1. t.tree \in Trees(rem) /\ OnePath(t.tree) /\ t.ok \in BOOLEAN
  BY DEF Moving, GoodTrees
<1>2. from # {} => SameKind(old, p)
  <2> SUFFICES ASSUME from # {} PROVE SameKind(old, p)
    OBVIOUS
  <2>1. old \in TreePaths(t.tree, d.id)
    OBVIOUS
  <2>2. old \in Path /\ t.tree[old].id = d.id
    BY <2>1 DEF TreePaths
  <2> HIDE DEF old
  <2>3. Fits(rem, old, d.id) /\ Fits(rem, p, d.id)
    BY <1>1, <2>2 DEF Trees, Marks, Answer
  <2> QED BY <2>3 DEF Fits, SameKind
<1>3. u \in Trees(rem) /\ OnePath(u)
  BY <1>1, <1>2, TreeRekeyedIn
<1>4. TreePut(u, d.id, p, d.ver) \in GoodTrees(rem)
  BY <1>3, TreePutIn DEF Answer, GoodTrees
<1>5. TreeMoved(t, d) = IF ~t.ok \/ Refuses(t.tree, d) THEN [t EXCEPT !.ok = FALSE]
                       ELSE [t EXCEPT !.tree = TreePut(u, d.id, p, d.ver)]
  BY DEF TreeMoved, Moving
<1> HIDE DEF u
<1> QED BY <1>4, <1>5 DEF Moving

LEMMA RecoveredIn ==
    ASSUME NEW rem, tree \in GoodTrees(rem), IsFiniteSet(Good("MoveInCloud")),
           \A d \in Good("MoveInCloud") : Answer(rem, d) /\ d.id # NoId
    PROVE  Recovered.tree \in GoodTrees(rem)
<1> DEFINE D == Good("MoveInCloud")
           b == [ok |-> TRUE, tree |-> tree]
           X == Moving(rem)
           After(t, d) == TreeMoved(t, d)
           Is(iter) == iter = [s \in SUBSET D |-> IF s = {} THEN b
                                ELSE After(iter[s \ {CHOOSE x \in s : TRUE}], CHOOSE x \in s : TRUE)]
           it == CHOOSE iter : Is(iter)
           F == [dx \in D \X X |-> After(dx[2], dx[1])]
<1>0. b \in X /\ IsFiniteSet(D)
  BY DEF Moving
<1>1. Recovered = it[D]
  BY DEF Recovered, FoldSet, MapThenFoldSet
<1>2. \A d \in D, x \in X : After(x, d) \in X
  BY TreeMovedIn
<1> HIDE DEF D, b
<1> HIDE DEF After
<1>3. \A d \in D, x \in X : F[<<d, x>>] = After(x, d)
  OBVIOUS
<1>4. \A s \in SUBSET D : s # {} => Some(s) \in D
  BY DEF Some
<1>5. \E g : Is(g)
  <2>1. Closed(F, D, X)
    BY <1>2, <1>3 DEF Closed
  <2> HIDE DEF F, X
  <2>2. PICK g : g \in [SUBSET D -> X] /\ Folds(g, D, b, F)
    BY <2>1, <1>0, FoldExists, Zenon
  <2>3. \A s \in SUBSET D : g[s] = IF s = {} THEN b ELSE After(g[s \ {CHOOSE x \in s : TRUE}], CHOOSE x \in s : TRUE)
    <3> TAKE s \in SUBSET D
    <3>1. g[s] = IF s = {} THEN b ELSE F[<<Some(s), g[s \ {Some(s)}]>>]
      BY <2>2 DEF Folds
    <3>2. g[s \ {Some(s)}] \in X
      BY <2>2
    <3>3. s # {} => F[<<Some(s), g[s \ {Some(s)}]>>] = After(g[s \ {Some(s)}], Some(s))
      BY <1>3, <1>4, <3>2
    <3> QED BY <3>1, <3>3 DEF Some
  <2>4. Is(g)
    BY <2>2, <2>3
  <2> QED BY <2>4
<1>6. Is(it)
  BY <1>5
<1> HIDE DEF it, X
<1>7. \A s \in SUBSET D : it[s] = IF s = {} THEN b ELSE After(it[s \ {Some(s)}], Some(s))
  BY <1>6 DEF Some
<1>8. it[{}] \in X
  BY <1>7, <1>0
<1>9. \A s \in SUBSET D : s # {} /\ it[s \ {Some(s)}] \in X => it[s] \in X
  BY <1>2, <1>4, <1>7
<1>10. it[D] \in X
  BY <1>0, <1>8, <1>9, FoldInduct
<1> QED BY <1>1, <1>10 DEF X, Moving

-----------------------------------------------------------------------------
(* The settlement of the rows *)

LEMMA RowsMadeIn ==
    ASSUME Sound, Resolved, cyc.pc = "settle", NEW d \in cyc.done, d.res = "ok", NEW rs, Rows(remote, rs), NEW status,
           \/ status = "cloud_only" /\ d.act.op = "CreatePlaceholder"
           \/ status = "conflict" /\ d.act.op = "CreateConflictCopy"
           \/ status = "synced" /\ d.act.op = "CreateFolder"
    PROVE  Rows(remote, RowsMade(rs, d, status))
<1> DEFINE p == d.act.path
           seen == IF p \in Dirs THEN 0 ELSE disk[p].data
           m == seen \notin {0, d.ver[1]} /\ (status = "cloud_only" \/ p \in cyc.filled)
           r == [Row(p, d.id, seen, d.ver, status) EXCEPT !.madeup = m]
<1>1. ResultIn(remote, d) /\ d.ver \in Version /\ p \in Path
  BY CycleShape DEF Sound, Late, ResultIn, ResultSet, ActSet
<1>2. Fits(remote, p, d.id)
  BY <1>1, PathIsSeq DEF ResultIn, Marks
<1>3. seen \in Nat /\ (p \in Dirs => seen = 0)
  BY <1>1 DEF Sound, Disks, Node
<1>4. m \in BOOLEAN
  OBVIOUS
<1>5. m \/ seen \in {0, d.ver[1]}
  <2>1. status = "conflict" => disk[p].data \in {0, d.ver[1]} \/ p \in cyc.filled
    BY DEF Resolved, Settling, Conflict
  <2>2. status = "synced" => p \in Dirs
    BY <1>1 DEF ResultIn, ActIn
  <2> QED BY <2>1, <2>2, <1>3
<1>6. status \in {"synced", "cloud_only", "conflict", "failed", "deleted"}
  OBVIOUS
<1>7. \A x \in RowsMade(rs, d, status) : x \in rs \/ x = r
  BY DEF RowsMade
<1> HIDE DEF m, seen, p
<1>8. RowIn(remote, r)
  BY <1>1, <1>2, <1>3, <1>4, <1>5, <1>6, RowIsIn
<1> HIDE DEF r
<1> QED BY <1>7, <1>8 DEF Rows

LEMMA RowsMovedIn ==
    ASSUME Sound, Settleable, cyc.pc = "settle", NEW d \in Good("MoveInCloud"), NEW rs, Rows(remote, rs)
    PROVE  Rows(remote, RowsMoved(rs, d))
<1> DEFINE p == d.act.path
           base == CHOOSE r \in rows : r.id = d.id
           sub == Subtree(base.path)
<1>1. ResultIn(remote, d) /\ d.ver \in Version /\ Fits(remote, p, d.id)
  <2>1. d \in cyc.done /\ d.res = "ok" /\ d.act.op = "MoveInCloud"
    BY DEF Good
  <2>2. ResultIn(remote, d)
    BY <2>1, CycleShape DEF Sound, Late
  <2> QED BY <2>1, <2>2, PathIsSeq DEF ResultIn, Marks, ResultSet
<1>2. base \in rows /\ base.id = d.id
  <2>1. Cardinality(RowsOf(rows, d.id)) = 1
    BY DEF Settleable
  <2>2. RowsOf(rows, d.id) # {}
    BY <2>1, FS_EmptySet
  <2> QED BY <2>2 DEF RowsOf
<1>3. base.path \in Dirs => ~Under(p, base.path)
  BY <1>2 DEF Settleable, RowsOf
<1>4. RowsMoved(rs, d) =
        IF base.path \in Dirs THEN (rs \ sub) \cup Rekeyed(sub, {base}, base.path, p, d.ver)
        ELSE {r \in rs : r.id # d.id /\ ~(r.path = p /\ r.status # "deleted")}
             \cup Rekeyed({base}, {base}, base.path, p, d.ver)
  BY DEF RowsMoved
<1> HIDE DEF base
<1>5. RowIn(remote, base) /\ base.path \in Path
  BY <1>2 DEF Sound, Rows, RowIn, RowSet
<1>6. SameKind(base.path, p)
  BY <1>1, <1>2, <1>5 DEF RowIn, Fits, SameKind
<1>7. Rows(remote, sub) /\ \A r \in sub : Under(r.path, base.path)
  BY DEF Sound, Rows, Subtree
<1>8. Rows(remote, {base}) /\ \A r \in {base} : Under(r.path, base.path)
  BY <1>5, UnderItself DEF Rows
<1> HIDE DEF sub
<1>9. CASE base.path \in Dirs
  <2>1. p \in Dirs => ~Under(p, base.path) \/ base.path = p
    BY <1>3, <1>9
  <2>2. Rows(remote, Rekeyed(sub, {base}, base.path, p, d.ver))
    BY <1>1, <1>6, <1>7, <2>1, RekeyedIn
  <2> QED BY <1>4, <1>9, <2>2 DEF Rows
<1>10. CASE base.path \notin Dirs
  <2>1. p \notin Dirs
    BY <1>6, <1>10 DEF SameKind
  <2>2. Rows(remote, Rekeyed({base}, {base}, base.path, p, d.ver))
    BY <1>1, <1>6, <1>8, <2>1, RekeyedIn
  <2> QED BY <1>4, <1>10, <2>2 DEF Rows
<1> QED BY <1>9, <1>10

LEMMA RowsAfterIn ==
    ASSUME Sound, Resolved, Settleable, cyc.pc = "settle", NEW d \in cyc.done, NEW rs, Rows(remote, rs)
    PROVE  Rows(remote, RowsAfter(rs, d))
<1>1. ResultIn(remote, d) /\ d \in ResultSet
  BY CycleShape DEF Sound, Late, ResultIn
<1>2. CASE d.res = "defer"
  BY <1>2 DEF RowsAfter
<1>3. CASE d.res = "fail"
  <2>1. \A r \in rs : RowIn(remote, [r EXCEPT !.status = "failed"])
    BY RestatedIn DEF Rows
  <2>2. \A x \in RowsAfter(rs, d) : x \in rs \/ \E r \in rs : x = [r EXCEPT !.status = "failed"]
    BY <1>3 DEF RowsAfter
  <2> QED BY <2>1, <2>2 DEF Rows
<1>4. CASE d.res = "ok"
  <2>1. CASE d.act.op \in {"DeleteFromCloud", "DeleteFromLocal", "BackupBeforeCloudDelete"}
    BY <1>4, <2>1 DEF RowsAfter, RowsGone, Rows
  <2>2. CASE d.act.op \in {"Upload", "Download"}
    BY <1>4, <2>2 DEF RowsAfter
  <2>3. CASE d.act.op = "MoveInCloud"
    BY <1>4, <2>3, RowsMovedIn DEF RowsAfter, Good
  <2>4. CASE d.act.op = "CreatePlaceholder"
    BY <1>4, <2>4, RowsMadeIn DEF RowsAfter
  <2>5. CASE d.act.op = "CreateConflictCopy"
    BY <1>4, <2>5, RowsMadeIn DEF RowsAfter
  <2>6. CASE d.act.op = "CreateFolder"
    BY <1>4, <2>6, RowsMadeIn DEF RowsAfter
  <2> QED BY <1>1, <2>1, <2>2, <2>3, <2>4, <2>5, <2>6 DEF ResultIn, ResultSet, ActSet, ConflictOps
<1> QED BY <1>1, <1>2, <1>3, <1>4 DEF ResultSet

LEMMA RowsSettledIn ==
    ASSUME Sound, Resolved, Settleable, cyc.pc = "settle"
    PROVE  Rows(remote, FoldSet(LAMBDA d, rs : RowsAfter(rs, d), rows, cyc.done))
<1> DEFINE D == cyc.done
           b == rows
           X == {rs \in SUBSET RowSet : Rows(remote, rs)}
           After(rs, d) == RowsAfter(rs, d)
           Is(iter) == iter = [s \in SUBSET D |-> IF s = {} THEN b
                                ELSE After(iter[s \ {CHOOSE x \in s : TRUE}], CHOOSE x \in s : TRUE)]
           it == CHOOSE iter : Is(iter)
           F == [dx \in D \X X |-> After(dx[2], dx[1])]
<1>0. b \in X /\ IsFiniteSet(D)
  BY CycleShape DEF Sound, Rows, RowIn, Late
<1>1. FoldSet(LAMBDA d, rs : RowsAfter(rs, d), rows, cyc.done) = it[D]
  BY DEF FoldSet, MapThenFoldSet
<1>2. \A d \in D, x \in X : After(x, d) \in X
  BY RowsAfterIn DEF Rows, RowIn
<1> HIDE DEF D, b
<1> HIDE DEF After
<1>3. \A d \in D, x \in X : F[<<d, x>>] = After(x, d)
  OBVIOUS
<1>4. \A s \in SUBSET D : s # {} => Some(s) \in D
  BY DEF Some
<1>5. \E g : Is(g)
  <2>1. Closed(F, D, X)
    BY <1>2, <1>3 DEF Closed
  <2> HIDE DEF F, X
  <2>2. PICK g : g \in [SUBSET D -> X] /\ Folds(g, D, b, F)
    BY <2>1, <1>0, FoldExists, Zenon
  <2>3. \A s \in SUBSET D : g[s] = IF s = {} THEN b ELSE After(g[s \ {CHOOSE x \in s : TRUE}], CHOOSE x \in s : TRUE)
    <3> TAKE s \in SUBSET D
    <3>1. g[s] = IF s = {} THEN b ELSE F[<<Some(s), g[s \ {Some(s)}]>>]
      BY <2>2 DEF Folds
    <3>2. g[s \ {Some(s)}] \in X
      BY <2>2
    <3>3. s # {} => F[<<Some(s), g[s \ {Some(s)}]>>] = After(g[s \ {Some(s)}], Some(s))
      BY <1>3, <1>4, <3>2
    <3> QED BY <3>1, <3>3 DEF Some
  <2>4. Is(g)
    BY <2>2, <2>3
  <2> QED BY <2>4
<1>6. Is(it)
  BY <1>5
<1> HIDE DEF it, X
<1>7. \A s \in SUBSET D : it[s] = IF s = {} THEN b ELSE After(it[s \ {Some(s)}], Some(s))
  BY <1>6 DEF Some
<1>8. it[{}] \in X
  BY <1>7, <1>0
<1>9. \A s \in SUBSET D : s # {} /\ it[s \ {Some(s)}] \in X => it[s] \in X
  BY <1>2, <1>4, <1>7
<1>10. it[D] \in X
  BY <1>0, <1>8, <1>9, FoldInduct
<1> QED BY <1>1, <1>10 DEF X

-----------------------------------------------------------------------------
(* The cloud *)

LEMMA WriteIn ==
    ASSUME remote \in Remotes, NEW i \in Id, NEW p \in Path, NEW data \in Nat,
           remote[i].k # 0 => (p \in Dirs <=> remote[i].folder)
    PROVE  /\ [remote EXCEPT ![i] = Write(i, p, data)] \in Remotes
           /\ Grows(remote, [remote EXCEPT ![i] = Write(i, p, data)])
           /\ Fits([remote EXCEPT ![i] = Write(i, p, data)], p, i)
           /\ Write(i, p, data) \in Object /\ remote[i].k + 1 \in Nat
<1> DEFINE w == Write(i, p, data)
           rem == [remote EXCEPT ![i] = w]
<1>0. w.folder = (p \in Dirs)
  BY DEF Write
<1>1. w \in Object /\ w.path = p /\ w.k # 0 /\ (w.folder <=> p \in Dirs) /\ remote[i].k + 1 \in Nat
  <2>1. w \in Object /\ w.path = p /\ w.k # 0 /\ remote[i].k + 1 \in Nat
    BY DEF Write, Object, Remotes
  <2> HIDE DEF w
  <2> QED BY <1>0, <2>1
<1> HIDE DEF w
<1>2. rem[i] = w /\ \A n \in Id \ {i} : rem[n] = remote[n]
  BY DEF Remotes
<1>3. rem \in [Id -> Object]
  BY <1>1 DEF Remotes
<1> HIDE DEF rem
<1>4. Fits(rem, p, i)
  BY <1>1, <1>2 DEF Fits
<1>5. \A n \in Id : rem[n].path # <<>> => Fits(rem, rem[n].path, n)
  BY <1>1, <1>2, <1>4 DEF Remotes, Fits
<1>6. Grows(remote, rem)
  BY <1>1, <1>2 DEF Grows
<1> QED BY <1>1, <1>3, <1>4, <1>5, <1>6 DEF Remotes, rem, w

LEMMA LiveFits ==
    ASSUME remote \in Remotes, NEW i \in Id, Live(i)
    PROVE  /\ Fits(remote, remote[i].path, i) /\ remote[i].path \in Path
           /\ remote[i].data \in Nat /\ remote[i].k \in Nat /\ Ver(i) \in Version
BY VersionIs DEF Remotes, Object, Live, Fits, Ver

LEMMA MovedRemoteIn ==
    ASSUME remote \in Remotes, NEW i \in Id, Live(i), NEW q, SameKind(remote[i].path, q),
           ~StrictlyUnder(q, remote[i].path), NEW data \in Nat,
           remote' = [n \in Id |-> IF n = i THEN Write(i, q, data)
                        ELSE IF Live(n) /\ Under(remote[n].path, remote[i].path)
                        THEN [remote[n] EXCEPT !.path = Rebase(@, remote[i].path, q)] ELSE remote[n]]
    PROVE  remote' \in Remotes /\ Grows(remote, remote') /\ Fits(remote', q, i)
<1> DEFINE old == remote[i].path
<1>1. q \in Path /\ old \in Path
  BY DEF SameKind
<1>2. Fits(remote, old, i)
  BY LiveFits
<1>3. Write(i, q, data) \in Object
  BY <1>1, <1>2, WriteIn DEF SameKind, Fits
<1>4. remote'[i] = Write(i, q, data) /\ Write(i, q, data).path = q /\ Write(i, q, data).k # 0
      /\ (Write(i, q, data).folder <=> q \in Dirs)
  <2>1. Write(i, q, data).folder = (q \in Dirs)
    BY DEF Write
  <2>2. Write(i, q, data).path = q /\ Write(i, q, data).k # 0
    BY DEF Write, Remotes, Object
  <2> QED BY <2>1, <2>2
<1>5. ASSUME NEW n \in Id, n # i
      PROVE  remote'[n] \in Object /\ remote'[n].k = remote[n].k /\ remote'[n].folder = remote[n].folder
             /\ (remote'[n].path # <<>> => Fits(remote, remote'[n].path, n))
  <2>1. CASE Live(n) /\ Under(remote[n].path, old)
    <3> DEFINE to == Rebase(remote[n].path, old, q)
    <3>1. Fits(remote, remote[n].path, n) /\ remote[n] \in Object
      BY <2>1, LiveFits DEF Remotes
    <3>2. SameKind(remote[n].path, to)
      <4>1. old \in Dirs => ~Under(q, old) \/ q = old
        BY DEF StrictlyUnder
      <4> QED BY <2>1, <3>1, <4>1, Carry DEF Fits
    <3>3. remote'[n] = [remote[n] EXCEPT !.path = to]
      BY <1>5, <2>1
    <3> HIDE DEF to
    <3> QED BY <3>1, <3>2, <3>3 DEF Object, SameKind, Fits
  <2>2. CASE ~(Live(n) /\ Under(remote[n].path, old))
    <3>1. remote'[n] = remote[n]
      BY <1>5, <2>2
    <3> QED BY <3>1 DEF Remotes
  <2> QED BY <2>1, <2>2
<1>6. Grows(remote, remote')
  BY <1>2, <1>4, <1>5 DEF Grows, Fits, SameKind
<1>7. Fits(remote', q, i)
  BY <1>1, <1>4 DEF Fits
<1>8. \A n \in Id : remote'[n].path # <<>> => Fits(remote', remote'[n].path, n)
  BY <1>4, <1>5, <1>6, <1>7, FitsGrown
<1>9. remote' \in [Id -> Object]
  BY <1>3, <1>4, <1>5
<1> QED BY <1>6, <1>7, <1>8, <1>9 DEF Remotes

LEMMA DeletedIn ==
    ASSUME remote \in Remotes, NEW p
    PROVE  Deleted(p) \in Remotes /\ Grows(remote, Deleted(p))
<1> DEFINE rem == Deleted(p)
<1>1. \A n \in Id : /\ rem[n] \in Object /\ rem[n].k = remote[n].k /\ rem[n].folder = remote[n].folder
                    /\ rem[n].path \in {<<>>, remote[n].path}
  BY DEF Deleted, Remotes, Object
<1>2. rem \in [Id -> Object]
  BY <1>1 DEF Deleted
<1> HIDE DEF rem
<1>3. Grows(remote, rem)
  BY <1>1 DEF Grows
<1>4. \A n \in Id : rem[n].path # <<>> => Fits(rem, rem[n].path, n)
  BY <1>1 DEF Remotes, Fits
<1> QED BY <1>2, <1>3, <1>4 DEF Remotes, rem

LEMMA FreshIs ==
    ASSUME remote \in Remotes, NEW i \in Fresh
    PROVE  i \in Id /\ remote[i].k = 0
BY DEF Fresh, Unused, Remotes

-----------------------------------------------------------------------------
(* What a step has to keep for the order of a cycle's work *)

LEMMA OrderKept ==
    ASSUME Order, cyc' = cyc,
           \A t \in tasks' : t.by = "cycle" => \E u \in Awaited : u.path = t.path,
           Settling /\ cmd'.pc # "idle" => \A x \in cyc.leased, y \in cmd'.leased : ~Overlap(x, y),
           Settling => \A p \in cyc.leased : disk'[p].data \in {0, disk[p].data}
    PROVE  Order'
<1>1. Settling' <=> Settling
  BY DEF Settling
<1>2. \A t \in Awaited' : \E u \in Awaited : u.path = t.path
  BY DEF Awaited
<1>3. Disjoint'
  BY <1>1 DEF Order, Disjoint, Conflict, Settling
<1>4. Waiting'
  BY <1>2 DEF Order, Waiting
<1>5. Single'
  BY <1>1, <1>2 DEF Order, Single, Conflict, Settling
<1>6. Resolved'
  <2> SUFFICES ASSUME Settling, NEW d \in cyc.done, Conflict(d), d.res = "ok"
               PROVE  disk'[d.act.path].data \in {0, d.ver[1]} \/ d.act.path \in cyc.filled
    BY <1>1 DEF Resolved, Conflict, Settling
  <2>1. d.act.path \in cyc.leased
    BY DEF Order, Disjoint
  <2>2. disk[d.act.path].data \in {0, d.ver[1]} \/ d.act.path \in cyc.filled
    BY DEF Order, Resolved
  <2> QED BY <2>1, <2>2
<1> QED BY <1>3, <1>4, <1>5, <1>6 DEF Order

(* Where nothing is settled there is nothing to keep. *)
LEMMA OrderIdle ==
    ASSUME cyc'.pc \in {"idle", "recover", "rekey", "scan"}, \A t \in tasks' : t.by # "cycle"
    PROVE  Order'
BY DEF Order, Disjoint, Waiting, Single, Resolved, Settling, Awaited

LEMMA NobodyWaits ==
    ASSUME Order, cyc.pc # "act"
    PROVE  \A t \in tasks : t.by # "cycle"
BY DEF Order, Waiting, Awaited

(* An action or a task at p0 ends with its results. *)
LEMMA OrderDone ==
    ASSUME Order, cyc.pc = "act", NEW p0,
           cyc'.pc = "act", cyc'.acts \subseteq cyc.acts,
           cyc'.leased = cyc.leased, cyc'.filled = cyc.filled, cmd' = cmd,
           \A t \in tasks' : t.by = "cycle" => t \in tasks,
           \A d \in cyc.done : Conflict(d) => d.act.path # p0,
           \A p \in cyc.leased \ {p0} : disk'[p].data \in {0, disk[p].data},
           \A d \in cyc'.done \ cyc.done : Conflict(d) =>
                /\ d.act.path = p0 /\ p0 \in cyc.leased
                /\ \A a \in cyc'.acts : a.path # p0
                /\ \A t \in Awaited : t.path # p0
                /\ d.res = "ok" => disk'[p0].data \in {0, d.ver[1]}
    PROVE  Order'
<1>1. Settling' /\ Settling
  BY DEF Settling
<1>2. Awaited' \subseteq Awaited
  BY DEF Awaited
<1>3. Disjoint'
  BY <1>1 DEF Order, Disjoint, Conflict
<1>4. Waiting'
  BY DEF Waiting
<1>5. Single'
  <2>1. \A a, b \in cyc'.acts : a.path = b.path => a = b
    BY <1>1 DEF Order, Single
  <2>2. \A a \in cyc'.acts, t \in Awaited' : a.path # t.path
    BY <1>1, <1>2 DEF Order, Single
  <2>3. ASSUME NEW d \in cyc'.done, Conflict(d)
        PROVE  /\ \A a \in cyc'.acts : a.path # d.act.path
               /\ \A t \in Awaited' : t.path # d.act.path
    <3>1. CASE d \in cyc.done
      BY <1>1, <1>2, <2>3, <3>1 DEF Order, Single
    <3>2. CASE d \notin cyc.done
      BY <1>2, <2>3, <3>2
    <3> QED BY <3>1, <3>2
  <2> QED BY <2>1, <2>2, <2>3 DEF Single, Conflict
<1>6. Resolved'
  <2> SUFFICES ASSUME NEW d \in cyc'.done, Conflict(d), d.res = "ok"
               PROVE  disk'[d.act.path].data \in {0, d.ver[1]} \/ d.act.path \in cyc.filled
    BY DEF Resolved, Conflict
  <2>1. CASE d \in cyc.done
    <3>1. d.act.path \in cyc.leased /\ d.act.path # p0
      BY <1>1, <2>1 DEF Order, Disjoint
    <3>2. disk[d.act.path].data \in {0, d.ver[1]} \/ d.act.path \in cyc.filled
      BY <1>1, <2>1 DEF Order, Resolved
    <3> QED BY <3>1, <3>2
  <2>2. CASE d \notin cyc.done
    BY <2>2
  <2> QED BY <2>1, <2>2
<1> QED BY <1>3, <1>4, <1>5, <1>6 DEF Order

(* A cycle's leases keep others off. *)
LEMMA LeaseHolds ==
    ASSUME Settling, NEW p, ~Locked(p)
    PROVE  \A x \in cyc.leased : ~Overlap(p, x) /\ ~Overlap(x, p) /\ ~Under(x, p) /\ ~Under(p, x) /\ (p \in Path => x # p)
<1>1. cyc.leased \subseteq Leased
  BY DEF Settling, Leased
<1>2. \A x \in cyc.leased : ~Overlap(p, x)
  BY <1>1 DEF Locked
<1> QED BY <1>2, UnderItself DEF Overlap

(* A step that only moves what is on the disk, or what is in the cloud. *)
LEMMA DiskStep ==
    ASSUME Core, UNCHANGED <<remote, tree, rows, tasks, cyc, cmd>>, disk' \in Disks(remote),
           Settling => \A p \in cyc.leased : disk'[p].data \in {0, disk[p].data}
    PROVE  Core'
<1>1. Sound'
  BY DEF Core, Sound, Rows, Tasks
<1>2. OnePathInTree'
  BY DEF Core, OnePathInTree
<1>3. \A t \in tasks' : t.by = "cycle" => \E u \in Awaited : u.path = t.path
  BY DEF Awaited
<1>4. Settling /\ cmd'.pc # "idle" => \A x \in cyc.leased, y \in cmd'.leased : ~Overlap(x, y)
  BY DEF Core, Order, Disjoint
<1>5. Order'
  BY <1>3, <1>4, OrderKept DEF Core
<1> QED BY <1>1, <1>2, <1>5 DEF Core

LEMMA CloudStep ==
    ASSUME Core, remote' \in Remotes, Grows(remote, remote'), UNCHANGED <<disk, tree, rows, tasks, cyc, cmd>>
    PROVE  Core'
<1>1. Sound'
  BY SoundGrown DEF Core, Sound, Rows, Tasks
<1>2. OnePathInTree'
  BY DEF Core, OnePathInTree
<1>3. \A t \in tasks' : t.by = "cycle" => \E u \in Awaited : u.path = t.path
  BY DEF Awaited
<1>4. Settling /\ cmd'.pc # "idle" => \A x \in cyc.leased, y \in cmd'.leased : ~Overlap(x, y)
  BY DEF Core, Order, Disjoint
<1>5. Order'
  BY <1>3, <1>4, OrderKept DEF Core
<1> QED BY <1>1, <1>2, <1>5 DEF Core

-----------------------------------------------------------------------------
(* The user *)

LEMMA UserCreateKeeps == ASSUME Inv, NEW p \in Path, UserCreate(p) PROVE Core'
<1> DEFINE n == IF p \in Dirs THEN Directory(NoId) ELSE File(New, NoId)
<1>1. ~Locked(p) /\ disk' = [disk EXCEPT ![p] = n] /\ UNCHANGED <<remote, tree, rows, tasks, cyc, cmd>>
  BY DEF UserCreate, Away, engine
<1>2. n \in Node /\ n.id = NoId /\ (n.kind = "file" => p \notin Dirs)
  <2>1. New \in Nat /\ NoId \in Mark
    BY DEF Inv, New, Mark
  <2> QED BY <2>1, NodesIn
<1> HIDE DEF n
<1>3. disk' \in Disks(remote)
  BY <1>1, <1>2, PutOnDisk DEF Inv, Core, Sound, Marks
<1>4. Settling => \A x \in cyc.leased : disk'[x].data \in {0, disk[x].data}
  BY <1>1, LeaseHolds DEF Inv, Core, Sound, Disks
<1> QED BY <1>1, <1>3, <1>4, DiskStep DEF Inv

LEMMA UserEditKeeps == ASSUME Inv, NEW p \in Path, UserEdit(p) PROVE Core'
<1> DEFINE n == [disk[p] EXCEPT !.data = New]
<1>1. /\ ~Locked(p) /\ disk' = [disk EXCEPT ![p] = n] /\ disk[p].kind = "file"
      /\ UNCHANGED <<remote, tree, rows, tasks, cyc, cmd>>
  BY DEF UserEdit, Away, engine
<1>2. n \in Node /\ Marks(remote, p, n.id) /\ (n.kind = "file" => p \notin Dirs)
  <2>1. New \in Nat
    BY DEF Inv, New
  <2> QED BY <1>1, <2>1 DEF Inv, Core, Sound, Disks, Node
<1> HIDE DEF n
<1>3. disk' \in Disks(remote)
  BY <1>1, <1>2, PutOnDisk DEF Inv, Core, Sound
<1>4. Settling => \A x \in cyc.leased : disk'[x].data \in {0, disk[x].data}
  BY <1>1, LeaseHolds DEF Inv, Core, Sound, Disks
<1> QED BY <1>1, <1>3, <1>4, DiskStep DEF Inv

(* Where a cycle leases paths they are paths. *)
LEMMA LeasedPaths ==
    ASSUME Core, Settling
    PROVE  cyc \in Late(remote) /\ cyc.leased \subseteq Path
BY CycleShape DEF Core, Sound, Settling, Late

LEMMA UserDeleteKeeps == ASSUME Inv, NEW p \in Path, UserDelete(p) PROVE Core'
<1> DEFINE S == {q \in Path : Under(q, p)}
<1>1. UNCHANGED <<remote, tree, rows, tasks, cyc, cmd>>
  BY DEF UserDelete, Away, engine
<1>2. disk' = [q \in Path |-> IF Under(q, p) THEN Absent ELSE disk[q]]
  BY DEF UserDelete
<1>3. disk' = [q \in Path |-> IF q \in S THEN Absent ELSE disk[q]]
  BY <1>2
<1>4. disk' \in Disks(remote)
  <2> HIDE DEF S
  <2> QED BY <1>3, ClearedDisk DEF Inv, Core, Sound
<1>5. Settling => \A x \in cyc.leased : disk'[x].data \in {0, disk[x].data}
  BY <1>2, LeasedPaths, NodesIn DEF Inv
<1> QED BY <1>1, <1>4, <1>5, DiskStep DEF Inv

LEMMA UserRenameKeeps == ASSUME Inv, NEW p \in Path, NEW q \in Path, UserRename(p, q) PROVE Core'
<1>1. UNCHANGED <<remote, tree, rows, tasks, cyc, cmd>> /\ ~Locked(q) /\ SameKind(p, q)
  BY DEF UserRename, Away, engine, SameKind
<1>2. disk' = [r \in Path |-> IF Under(r, q) /\ Rebase(r, q, p) \in Path THEN disk[Rebase(r, q, p)]
                              ELSE IF Under(r, p) THEN Absent ELSE disk[r]]
  BY DEF UserRename
<1>3. disk \in Disks(remote)
  BY DEF Inv, Core, Sound
<1>4. disk' \in Disks(remote) /\ \A x \in Path : ~Under(x, q) => disk'[x].data \in {0, disk[x].data}
  BY <1>1, <1>2, <1>3, RenamedIn
<1>5. Settling => \A x \in cyc.leased : disk'[x].data \in {0, disk[x].data}
  BY <1>1, <1>4, LeasedPaths, LeaseHolds DEF Inv
<1> QED BY <1>1, <1>4, <1>5, DiskStep DEF Inv

LEMMA UserCopyKeeps ==
    ASSUME Inv, NEW p \in Path, NEW q \in Path, NEW keep \in BOOLEAN, UserCopy(p, q, keep)
    PROVE  Core'
<1> DEFINE i == IF keep THEN disk[p].id ELSE NoId
<1>1. /\ ~Locked(q) /\ disk[p].kind = "file" /\ q \notin Dirs
      /\ disk' = [disk EXCEPT ![q] = File(disk[p].data, i)]
      /\ UNCHANGED <<remote, tree, rows, tasks, cyc, cmd>>
  BY DEF UserCopy, Away, engine
<1>2. disk \in Disks(remote) /\ disk[p] \in Node /\ Marks(remote, p, disk[p].id) /\ p \notin Dirs
  BY <1>1 DEF Inv, Core, Sound, Disks
<1>3. i \in Mark /\ Marks(remote, q, i) /\ disk[p].data \in Nat
  BY <1>1, <1>2 DEF Node, Mark, Marks, Fits
<1> HIDE DEF i
<1> DEFINE n == File(disk[p].data, i)
<1>4. disk' \in Disks(remote)
  <2>1. n \in Node /\ n.id = i /\ disk' = [disk EXCEPT ![q] = n]
    BY <1>1, <1>3, NodesIn
  <2> HIDE DEF n
  <2>2. disk \in Disks(remote) /\ n \in Node /\ Marks(remote, q, n.id) /\ q \notin Dirs
    BY <1>1, <1>2, <1>3, <2>1
  <2>3. [disk EXCEPT ![q] = n] \in Disks(remote)
    BY <2>2, PutOnDisk
  <2> QED BY <2>1, <2>3
<1>5. Settling => \A x \in cyc.leased : disk'[x].data \in {0, disk[x].data}
  BY <1>1, <1>2, LeaseHolds DEF Disks
<1> QED BY <1>1, <1>4, <1>5, DiskStep DEF Inv

(* A task more, that no cycle waits for. *)
LEMMA TaskStep ==
    ASSUME Core, UNCHANGED <<remote, disk, tree, rows, cyc, cmd>>, Tasks(remote, tasks'),
           \A t \in tasks' : t.by = "cycle" => t \in tasks
    PROVE  Core'
<1>1. Sound'
  BY DEF Core, Sound, Rows, Tasks
<1>2. OnePathInTree'
  BY DEF Core, OnePathInTree
<1>3. \A t \in tasks' : t.by = "cycle" => \E u \in Awaited : u.path = t.path
  BY DEF Awaited
<1>4. Settling /\ cmd'.pc # "idle" => \A x \in cyc.leased, y \in cmd'.leased : ~Overlap(x, y)
  BY DEF Core, Order, Disjoint
<1>5. Order'
  BY <1>3, <1>4, OrderKept DEF Core
<1> QED BY <1>1, <1>2, <1>5 DEF Core

LEMMA UserOpenKeeps == ASSUME Inv, NEW p \in Path, UserOpen(p) PROVE Core'
<1> DEFINE i == disk[p].id
           t == Task("Download", p, i, Ver(i), 0, "user")
<1>1. /\ i \in Id /\ Live(i) /\ tasks' = tasks \cup {t} /\ disk[p].kind = "file"
      /\ UNCHANGED <<remote, disk, tree, rows, cyc, cmd>>
  BY DEF UserOpen, local, engine, IsPlaceholder
<1>2. Marks(remote, p, i) /\ p \notin Dirs
  BY <1>1 DEF Inv, Core, Sound, Disks
<1>3. Ver(i) \in Version
  BY <1>1, LiveFits DEF Inv, Core, Sound
<1> HIDE DEF i
<1>4. TaskIn(remote, t) /\ t.by = "user"
  BY <1>1, <1>2, <1>3 DEF TaskIn, Task, TaskSet, Mark
<1> HIDE DEF t
<1>5. Tasks(remote, tasks')
  BY <1>1, <1>4 DEF Tasks, Inv, Core, Sound
<1>6. \A u \in tasks' : u.by = "cycle" => u \in tasks
  BY <1>1, <1>4
<1> QED BY <1>1, <1>5, <1>6, TaskStep DEF Inv

LEMMA UserKeeps == ASSUME Inv, User PROVE Core'
BY UserCreateKeeps, UserEditKeeps, UserDeleteKeeps, UserRenameKeeps, UserCopyKeeps, UserOpenKeeps DEF User

-----------------------------------------------------------------------------
(* The other clients *)

LEMMA OthersKeep == ASSUME Inv, Others PROVE Core'
<1>0. remote \in Remotes /\ New \in Nat
  BY DEF Inv, Core, Sound, New
<1>1. ASSUME NEW i \in Id, RemoteEdit(i) PROVE Core'
  <2>1. /\ Live(i) /\ remote' = [remote EXCEPT ![i] = Write(i, remote[i].path, New)]
        /\ UNCHANGED <<disk, tree, rows, tasks, cyc, cmd>>
    BY <1>1 DEF RemoteEdit, Elsewhere, local, engine
  <2>2. remote' \in Remotes /\ Grows(remote, remote')
    BY <1>0, <2>1, LiveFits, WriteIn DEF Fits
  <2> QED BY <2>1, <2>2, CloudStep DEF Inv
<1>2. ASSUME NEW i \in Id, RemoteDelete(i) PROVE Core'
  <2>1. remote' = Deleted(remote[i].path) /\ UNCHANGED <<disk, tree, rows, tasks, cyc, cmd>>
    BY <1>2 DEF RemoteDelete, Elsewhere, local, engine
  <2> QED BY <1>0, <2>1, DeletedIn, CloudStep DEF Inv
<1>3. ASSUME NEW i \in Id, NEW q \in Path, RemoteMove(i, q) PROVE Core'
  <2>1. /\ Live(i) /\ ~StrictlyUnder(q, remote[i].path) /\ UNCHANGED <<disk, tree, rows, tasks, cyc, cmd>>
        /\ remote' = [n \in Id |-> IF n = i THEN Write(i, q, remote[i].data)
                        ELSE IF Live(n) /\ Under(remote[n].path, remote[i].path)
                        THEN [remote[n] EXCEPT !.path = Rebase(@, remote[i].path, q)] ELSE remote[n]]
        /\ (remote[i].path \in Dirs <=> q \in Dirs)
    BY <1>3 DEF RemoteMove, Elsewhere, local, engine, StrictlyUnder
  <2>2. SameKind(remote[i].path, q) /\ remote[i].data \in Nat
    BY <1>0, <2>1, LiveFits DEF SameKind
  <2>3. remote' \in Remotes /\ Grows(remote, remote')
    BY <1>0, <2>1, <2>2, MovedRemoteIn
  <2> QED BY <2>1, <2>3, CloudStep DEF Inv
<1>4. ASSUME NEW p \in Path, RemoteCreate(p) PROVE Core'
  <2>1. PICK i \in Fresh : remote' = [remote EXCEPT ![i] = Write(i, p, IF p \in Dirs THEN 0 ELSE New)]
    BY <1>4 DEF RemoteCreate
  <2>2. UNCHANGED <<disk, tree, rows, tasks, cyc, cmd>>
    BY <1>4 DEF RemoteCreate, Elsewhere, local, engine
  <2>3. i \in Id /\ remote[i].k = 0 /\ (IF p \in Dirs THEN 0 ELSE New) \in Nat
    BY <1>0, FreshIs
  <2>4. remote' \in Remotes /\ Grows(remote, remote')
    BY <1>0, <2>1, <2>3, WriteIn
  <2> QED BY <2>2, <2>4, CloudStep DEF Inv
<1> QED BY <1>1, <1>2, <1>3, <1>4 DEF Others

-----------------------------------------------------------------------------
(* A cycle up to its plan *)

LEMMA EarlyStep ==
    ASSUME Core, cyc.pc \in {"idle", "recover", "rekey", "scan"}, UNCHANGED <<remote, cmd>>,
           Tasks(remote, tasks'), tasks' \subseteq tasks, disk' \in Disks(remote),
           tree' \in Trees(remote), OnePath(tree'), Rows(remote, rows'),
           cyc' \in Cycles(remote), cyc'.pc \in {"idle", "recover", "rekey", "scan"}
    PROVE  Core'
<1>1. Sound'
  BY DEF Core, Sound, Rows, Tasks
<1>2. OnePathInTree'
  BY DEF OnePathInTree, OnePath
<1>3. \A t \in tasks' : t.by # "cycle"
  BY NobodyWaits DEF Core
<1>4. Order'
  BY <1>3, OrderIdle
<1> QED BY <1>1, <1>2, <1>4 DEF Core

LEMMA BeginKeeps == ASSUME Core, Begin PROVE Core'
<1> DEFINE c == [pc |-> "recover", leased |-> {}, blocked |-> {}, tried |-> {},
                 old |-> <<>>, scan |-> [p \in Path |-> Absent], left |-> Path]
<1>1. /\ cyc.pc = "idle" /\ cyc' = c /\ UNCHANGED <<remote, disk, rows, tasks, cmd>>
      /\ tree' = Image \/ tree' = tree
  BY DEF Begin, Quiet, local
<1>2. c \in Early /\ Rekeying(c) /\ c.pc = "recover"
  BY NodesIn DEF Early, Rekeying
<1> HIDE DEF c
<1>3. c \in Cycles(remote)
  BY <1>2 DEF Cycles
<1>4. tree' \in Trees(remote) /\ OnePath(tree')
  BY <1>1, ImageIn DEF Core, Sound, OnePathInTree, OnePath
<1> QED BY <1>1, <1>2, <1>3, <1>4, EarlyStep DEF Core, Sound

(* A row that the tree has elsewhere. *)
LEMMA MovedIs ==
    ASSUME Core, cyc.pc = "recover", NEW r \in Moved
    PROVE  /\ RowIn(remote, r) /\ r \in rows /\ r.path \in Path /\ r.id \in Id
           /\ Target(r) \in Path /\ tree[Target(r)].id = r.id
           /\ Tried(r) \in Early /\ Tried(r).pc = "recover"
           /\ BlockAs(r) \in Early /\ BlockAs(r).pc = "recover"
<1>1. r \in rows /\ \E q \in Path : tree[q].id = r.id
  BY DEF Moved
<1>2. RowIn(remote, r) /\ r.path \in Path /\ r.id \in Id
  BY <1>1 DEF Core, Sound, Rows, RowIn, RowSet
<1>3. Target(r) \in Path /\ tree[Target(r)].id = r.id
  BY <1>1 DEF Target
<1>4. cyc \in Early
  BY CycleShape DEF Core, Sound
<1>5. Tried(r) \in Early /\ Tried(r).pc = "recover"
  BY <1>2, <1>4 DEF Tried, Early
<1>6. BlockAs(r) \in Early /\ BlockAs(r).pc = "recover"
  <2> DEFINE b == [id |-> r.id, old |-> r.path, new |-> Target(r)]
             c == Tried(r)
  <2>1. b \in [id : Id, old : Path, new : Path]
    BY <1>2, <1>3
  <2>2. BlockAs(r) = [c EXCEPT !.blocked = @ \cup {b}] /\ c \in Early /\ c.pc = "recover"
    BY <1>5 DEF BlockAs
  <2> HIDE DEF b, c
  <2> QED BY <2>1, <2>2 DEF Early
<1> QED BY <1>1, <1>2, <1>3, <1>5, <1>6

LEMMA RecoverSkipsKeeps == ASSUME Core, RecoverSkips PROVE Core'
<1>1. cyc.pc = "recover" /\ UNCHANGED <<remote, disk, tree, rows, tasks, cmd>>
  BY DEF RecoverSkips, Quiet, local, engine
<1>2. PICK r \in Moved : cyc' \in {Tried(r), BlockAs(r)}
  BY DEF RecoverSkips
<1>3. cyc' \in Early /\ cyc'.pc = "recover"
  BY <1>1, <1>2, MovedIs
<1>4. cyc' \in Cycles(remote)
  BY <1>3 DEF Cycles, Rekeying
<1> QED BY <1>1, <1>3, <1>4, EarlyStep DEF Core, Sound, OnePathInTree, OnePath

LEMMA RecoverRenameKeeps == ASSUME Core, RecoverRename PROVE Core'
<1>1. cyc.pc = "recover" /\ UNCHANGED <<remote, tree, rows, tasks, cmd>>
  BY DEF RecoverRename, Quiet, engine
<1>2. PICK r \in Moved :
        /\ ~Unsafe(r, Target(r))
        /\ IF Here(disk[r.path]) THEN MoveOnDisk(r.path, Target(r)) ELSE UNCHANGED <<disk, touched>>
        /\ cyc' = [Tried(r) EXCEPT !.pc = "rekey", !.leased = {r.path, Target(r)}, !.old = r.path]
  BY DEF RecoverRename
<1> DEFINE q == Target(r)
           c == Tried(r)
<1>3. r.path \in Path /\ q \in Path /\ c \in Early
  BY <1>1, <1>2, MovedIs
<1>4. SameKind(r.path, q) /\ (r.path \in Dirs => ~Under(q, r.path))
  BY <1>2, <1>3 DEF Unsafe, SameKind
<1> HIDE DEF q, c
<1>5. cyc' = [c EXCEPT !.pc = "rekey", !.leased = {r.path, q}, !.old = r.path]
  BY <1>2 DEF q, c
<1>6. cyc' \in Early /\ cyc'.pc = "rekey" /\ cyc'.leased = {r.path, q} /\ cyc'.old = r.path
  BY <1>3, <1>5 DEF Early
<1>7. cyc' \in Cycles(remote)
  BY <1>4, <1>6 DEF Cycles, Rekeying, SameKind
<1>8. disk' \in Disks(remote)
  BY <1>2, <1>4, MoveOnDiskIn DEF q, Core, Sound
<1> QED BY <1>1, <1>6, <1>7, <1>8, EarlyStep DEF Core, Sound, OnePathInTree, OnePath

LEMMA RecoverRekeyKeeps == ASSUME Core, RecoverRekey PROVE Core'
<1>1. /\ cyc.pc = "rekey" /\ UNCHANGED <<remote, disk, tree, tasks, cmd>>
      /\ cyc' = [cyc EXCEPT !.pc = "recover", !.leased = {}]
  BY DEF RecoverRekey, Quiet, local
<1> DEFINE sub == Subtree(cyc.old)
<1>2. PICK q \in cyc.leased \ {cyc.old} :
        rows' = (rows \ sub) \cup Rekeyed(sub, {s \in sub : s.path = cyc.old}, cyc.old, q, tree[q].ver)
  BY DEF RecoverRekey
<1>3. cyc \in Early /\ Rekeying(cyc)
  BY <1>1, CycleShape DEF Core, Sound
<1>4. SameKind(cyc.old, q) /\ (q \in Dirs => ~Under(q, cyc.old) \/ cyc.old = q)
  BY <1>1, <1>3 DEF Rekeying
<1>5. tree[q].ver \in Version
  BY <1>4 DEF Core, Sound, Trees, Entry, SameKind
<1>6. Rows(remote, sub) /\ Rows(remote, rows \ sub) /\ \A r \in sub : Under(r.path, cyc.old)
  BY DEF Core, Sound, Rows, Subtree
<1> HIDE DEF sub
<1>7. Rows(remote, Rekeyed(sub, {s \in sub : s.path = cyc.old}, cyc.old, q, tree[q].ver))
  BY <1>4, <1>5, <1>6, RekeyedIn
<1>8. Rows(remote, rows')
  BY <1>2, <1>6, <1>7 DEF Rows
<1>9. cyc' \in Early /\ cyc'.pc = "recover"
  BY <1>1, <1>3 DEF Early
<1>10. cyc' \in Cycles(remote)
  BY <1>9 DEF Cycles, Rekeying
<1> QED BY <1>1, <1>8, <1>9, <1>10, EarlyStep DEF Core, Sound, OnePathInTree, OnePath

LEMMA PurgeTombstonesKeeps == ASSUME Core, PurgeTombstones PROVE Core'
<1>1. /\ cyc.pc = "recover" /\ UNCHANGED <<remote, disk, tree, tasks, cmd>>
      /\ cyc' = [cyc EXCEPT !.pc = "scan"] /\ rows' \subseteq rows
  BY DEF PurgeTombstones, Quiet, local, Goto
<1>2. cyc \in Early
  BY <1>1, CycleShape DEF Core, Sound
<1>3. cyc' \in Early /\ cyc'.pc = "scan"
  BY <1>1, <1>2 DEF Early
<1>4. cyc' \in Cycles(remote)
  BY <1>3 DEF Cycles, Rekeying
<1>5. Rows(remote, rows')
  BY <1>1 DEF Core, Sound, Rows
<1> QED BY <1>1, <1>3, <1>4, <1>5, EarlyStep DEF Core, Sound, OnePathInTree, OnePath

LEMMA ScanKeeps == ASSUME Core, Scan PROVE Core'
<1>1. cyc.pc = "scan" /\ UNCHANGED <<remote, disk, tree, rows, tasks, cmd>>
  BY Zenon DEF Scan, Quiet, local, engine
<1>2. PICK now : cyc' = [cyc EXCEPT !.scan = [p \in Path |-> IF p \in now THEN disk[p] ELSE @[p]], !.left = @ \ now]
  BY Zenon DEF Scan
<1>3. cyc \in Early
  BY <1>1, CycleShape DEF Core, Sound
<1>4. [p \in Path |-> IF p \in now THEN disk[p] ELSE cyc.scan[p]] \in [Path -> Node]
  BY <1>3 DEF Early, Core, Sound, Disks
<1>5. cyc' \in Early /\ cyc'.pc = "scan"
  BY <1>1, <1>2, <1>3, <1>4 DEF Early
<1>6. cyc' \in Cycles(remote)
  BY <1>5 DEF Cycles, Rekeying
<1> QED BY <1>1, <1>5, <1>6, EarlyStep DEF Core, Sound, OnePathInTree, OnePath

LEMMA PlanCycleKeeps == ASSUME Core, PlanCycle PROVE Core'
<1> DEFINE rs == Baselines
           planned == Plan(Snapshot(rs))
           acts == Filtered(planned, rs)
           copied == CopiesOf(planned, rs, disk, tree)
           Binding(p) == /\ p \in Dirs /\ Here(cyc.scan[p]) /\ ~IsBlocked(p, NoId, cyc.blocked)
                         /\ disk[p].id = NoId /\ ByPath(rs)[p] # NoRow
           bound(p) == IF Binding(p) THEN ByPath(rs)[p].id ELSE disk[p].id
           late == [pc |-> "act", acts |-> acts, done |-> {}, leased |-> LeasesOf(acts),
                    scan |-> cyc.scan, missed |-> Missed, filled |-> {}]
<1>1. cyc.pc = "scan" /\ UNCHANGED <<remote, tree, tasks, cmd>>
  BY DEF PlanCycle, Quiet
<1>2. \/ cyc' = Idle /\ UNCHANGED <<disk, rows>>
      \/ /\ rows' = rs /\ disk' = [p \in Path |-> [disk[p] EXCEPT !.id = IF p \in copied THEN NoId ELSE bound(p)]]
         /\ \/ cyc' = Idle
            \/ cyc' = late /\ ~\E p \in LeasesOf(acts) : Held(p)
  BY DEF PlanCycle
<1>3. Rows(remote, rs) /\ disk \in Disks(remote) /\ tree \in Trees(remote)
  BY <1>1, BaselinesIn DEF Core, Sound
<1>4. Sane(remote, acts)
  BY <1>3, FilteredIn
<1>5. cyc \in Early
  BY <1>1, CycleShape DEF Core, Sound
<1> HIDE DEF acts, planned, copied
<1>6. ASSUME NEW p \in Path
      PROVE  bound(p) \in Mark /\ Marks(remote, p, bound(p))
  <2>1. CASE ~Binding(p)
    BY <1>3, <2>1 DEF Disks, Node
  <2>2. CASE Binding(p)
    <3>1. ByPath(rs)[p] \in rs /\ ByPath(rs)[p].path = p
      BY <2>2, ByPathIs
    <3>2. RowIn(remote, ByPath(rs)[p])
      BY <3>1, <1>3 DEF Rows
    <3> QED BY <2>2, <3>1, <3>2 DEF RowIn, RowSet, Marks, Mark
  <2> QED BY <2>1, <2>2
<1> HIDE DEF bound, rs
<1>7. [p \in Path |-> [disk[p] EXCEPT !.id = IF p \in copied THEN NoId ELSE bound(p)]] \in Disks(remote)
  <2> DEFINE i(p) == IF p \in copied THEN NoId ELSE bound(p)
             n(p) == [disk[p] EXCEPT !.id = i(p)]
  <2>1. \A p \in Path : i(p) \in Mark /\ Marks(remote, p, i(p))
    BY <1>6 DEF Mark, Marks
  <2> HIDE DEF i
  <2>2. \A p \in Path : n(p) \in Node /\ n(p).id = i(p) /\ n(p).kind = disk[p].kind
    BY <1>3, <2>1 DEF Disks, Node
  <2>3. \A p \in Path : n(p).kind = "file" => p \notin Dirs
    BY <1>3, <2>2 DEF Disks
  <2> HIDE DEF n
  <2>4. [p \in Path |-> n(p)] \in Disks(remote)
    BY <2>1, <2>2, <2>3 DEF Disks
  <2> QED BY <2>4 DEF n, i
<1>8. rows' = rs \/ rows' = rows
  BY <1>2
<1>9. Rows(remote, rows') /\ disk' \in Disks(remote)
  BY <1>2, <1>3, <1>7 DEF Core, Sound
<1>10. CASE cyc' = Idle
  BY <1>1, <1>9, <1>10, EarlyStep DEF Core, Sound, OnePathInTree, OnePath, Cycles, Idle
<1>11. CASE cyc' = late /\ ~\E p \in LeasesOf(acts) : Held(p)
  <2>1. \A a \in acts : ActIn(remote, a) /\ a \in ActSet
    BY <1>4 DEF Sane, ActIn
  <2>2. LeasesOf(acts) \subseteq Path
    <3>1. \A a \in acts : a.path \in Path
      BY <2>1 DEF ActSet
    <3>2. \A x \in UNION {RowsOf(rows, a.id) : a \in OfOp(acts, "MoveInCloud")} : x.path \in Path
      BY DEF RowsOf, Core, Sound, Rows, RowIn, RowSet
    <3> QED BY <3>1, <3>2 DEF LeasesOf
  <2>3. Missed \subseteq Id
    BY <1>3 DEF Missed, Disks, Node, Mark
  <2>4. cyc.scan \in [Path -> Node] /\ IsFiniteSet({})
    BY <1>5, FS_EmptySet DEF Early
  <2>5. late \in Late(remote)
    BY <2>1, <2>2, <2>3, <2>4 DEF Late
  <2>6. cyc'.pc = "act" /\ cyc'.acts = acts /\ cyc'.done = {} /\ cyc'.leased = LeasesOf(acts)
    BY <1>11
  <2>7. cyc' \in Cycles(remote)
    BY <1>11, <2>5 DEF Cycles
  <2>8. Sound'
    BY <1>1, <1>9, <2>7 DEF Core, Sound, Rows, Tasks
  <2>9. OnePathInTree'
    BY <1>1 DEF Core, OnePathInTree
  <2>10. \A t \in tasks' : t.by # "cycle"
    BY <1>1, NobodyWaits DEF Core
  <2>11. \A x \in LeasesOf(acts), y \in cmd.leased : cmd.pc # "idle" => ~Overlap(x, y)
    BY <1>11 DEF Held, Exclusive
  <2>12. \A a \in acts : Structural(a) => a.path \in LeasesOf(acts)
    BY DEF LeasesOf
  <2>13. Disjoint'
    BY <1>1, <2>6, <2>11, <2>12 DEF Disjoint
  <2>14. Waiting' /\ Single' /\ Resolved'
    BY <1>4, <2>6, <2>10 DEF Waiting, Single, Resolved, Awaited, Sane, OnePer
  <2> QED BY <2>8, <2>9, <2>13, <2>14 DEF Core, Order
<1> QED BY <1>2, <1>10, <1>11

-----------------------------------------------------------------------------
(* The actions of a plan *)

LEMMA ActIs2 ==
    ASSUME Core, cyc.pc = "act", NEW a \in cyc.acts
    PROVE  /\ cyc \in Late(remote) /\ ActIn(remote, a) /\ a \in ActSet /\ a.path \in Path /\ a.id \in Mark
           /\ a.ver \in Version /\ Marks(remote, a.path, a.id)
<1>1. cyc \in Late(remote)
  BY CycleShape DEF Core, Sound
<1>2. ActIn(remote, a)
  BY <1>1 DEF Late
<1> QED BY <1>1, <1>2 DEF ActIn, ActSet

(* An action is over, with the results of D. *)
LEMMA ActStep ==
    ASSUME Core, cyc.pc = "act", NEW a \in cyc.acts, NEW D, IsFiniteSet(D),
           cyc' = [cyc EXCEPT !.acts = @ \ {a}, !.done = @ \cup D], cmd' = cmd,
           remote' \in Remotes, Grows(remote, remote'), disk' \in Disks(remote'), tree' \in Trees(remote'),
           OnePath(tree'), Rows(remote', rows'), Tasks(remote', tasks'),
           \A t \in tasks' : t.by = "cycle" => t \in tasks,
           \A d \in D : /\ ResultIn(remote', d)
                        /\ Conflict(d) => /\ Structural(a) /\ d.act.path = a.path
                                          /\ d.res = "ok" => disk'[a.path].data \in {0, d.ver[1]},
           \A p \in Path \ {a.path} : disk'[p].data \in {0, disk[p].data}
    PROVE  Core'
<1>1. cyc \in Late(remote) /\ cyc \in Late(remote')
  <2>1. cyc \in Late(remote) /\ cyc \in Cycles(remote')
    BY ActIs2, SoundGrown DEF Core
  <2> QED BY <2>1, CycleShape
<1>2. /\ cyc'.pc = "act" /\ cyc'.acts = cyc.acts \ {a} /\ cyc'.done = cyc.done \cup D
      /\ cyc'.leased = cyc.leased /\ cyc'.filled = cyc.filled
  BY <1>1 DEF Late
<1>3. cyc' \in Late(remote')
  <2>1. IsFiniteSet(cyc.done \cup D)
    BY <1>1, FS_Union DEF Late
  <2>2. D \subseteq ResultSet
    BY DEF ResultIn
  <2>3. cyc' \in [pc : {"act", "settle"}, acts : SUBSET ActSet, done : SUBSET ResultSet, leased : SUBSET Path,
                  scan : [Path -> Node], missed : SUBSET Id, filled : SUBSET Path]
    BY <1>1, <2>2 DEF Late
  <2>4. (\A b \in cyc'.acts : ActIn(remote', b)) /\ (\A d \in cyc'.done : ResultIn(remote', d))
    BY <1>1, <1>2 DEF Late
  <2> QED BY <1>2, <2>1, <2>3, <2>4 DEF Late
<1>4. cyc' \in Cycles(remote')
  BY <1>3 DEF Cycles
<1>5. cmd' \in Commands(remote')
  BY SoundGrown DEF Core
<1>6. Sound'
  BY <1>4, <1>5 DEF Sound, Rows, Tasks
<1>7. OnePathInTree'
  BY DEF OnePathInTree, OnePath
<1>8. Settling
  BY DEF Settling
<1>9. cyc.leased \subseteq Path
  BY <1>1 DEF Late
<1>10. \A d \in cyc.done : Conflict(d) => d.act.path # a.path
  BY <1>8 DEF Core, Order, Single
<1>11. ASSUME NEW d \in D, Conflict(d)
       PROVE  /\ d.act.path = a.path /\ a.path \in cyc.leased
              /\ \A b \in cyc.acts \ {a} : b.path # a.path
              /\ \A t \in Awaited : t.path # a.path
              /\ d.res = "ok" => disk'[a.path].data \in {0, d.ver[1]}
  <2>1. a.path \in cyc.leased
    BY <1>8, <1>11 DEF Core, Order, Disjoint
  <2>2. (\A b \in cyc.acts \ {a} : b.path # a.path) /\ \A t \in Awaited : t.path # a.path
    BY <1>8 DEF Core, Order, Single
  <2> QED BY <1>11, <2>1, <2>2
<1>12. Order'
  <2> DEFINE p0 == a.path
  <2>1. \A p \in cyc.leased \ {p0} : disk'[p].data \in {0, disk[p].data}
    BY <1>9
  <2>2. \A d \in cyc'.done \ cyc.done : Conflict(d) =>
            /\ d.act.path = p0 /\ p0 \in cyc.leased
            /\ \A b \in cyc'.acts : b.path # p0
            /\ \A t \in Awaited : t.path # p0
            /\ d.res = "ok" => disk'[p0].data \in {0, d.ver[1]}
    BY <1>2, <1>11
  <2>3. \A d \in cyc.done : Conflict(d) => d.act.path # p0
    BY <1>10
  <2>4. Order /\ cyc'.acts \subseteq cyc.acts
    BY <1>2 DEF Core
  <2> HIDE DEF p0
  <2> QED BY <1>2, <2>1, <2>2, <2>3, <2>4, OrderDone
<1> QED BY <1>6, <1>7, <1>12 DEF Core

LEMMA ResultOf ==
    ASSUME NEW rem, NEW a, ActIn(rem, a), NEW res \in {"ok", "fail", "defer"}, NEW i \in Mark, Marks(rem, a.path, i),
           NEW ver \in Version,
           res = "ok" /\ a.op \in ConflictOps \cup {"CreatePlaceholder", "CreateFolder", "MoveInCloud"} => i \in Id,
           NEW d, d = [act |-> Planned(a), res |-> res, id |-> i, ver |-> ver]
    PROVE  /\ ResultIn(rem, d) /\ d.act.path = a.path /\ d.res = res /\ d.ver = ver /\ d.id = i
           /\ Conflict(d) => a.op \in ConflictOps /\ Structural(a)
<1> DEFINE b == Planned(a)
<1>1. /\ b.path = a.path /\ b.id = a.id /\ b.ver = a.ver
      /\ b.op = IF a.op \in {"ConflictDownload", "ConflictUpload"} THEN "CreateConflictCopy" ELSE a.op
      /\ b \in ActSet
  BY DEF Planned, ActIn, ActSet, ConflictOps
<1> HIDE DEF b
<1>2. ActIn(rem, b)
  BY <1>1 DEF ActIn, ConflictOps, CarriesFile
<1>3. d.act = b /\ d.res = res /\ d.id = i /\ d.ver = ver
  BY DEF b
<1>4. d \in ResultSet
  BY <1>1 DEF ResultSet, b
<1>5. ResultIn(rem, d)
  BY <1>1, <1>2, <1>3, <1>4 DEF ResultIn, ConflictOps
<1>6. Conflict(d) => a.op \in ConflictOps /\ Structural(a)
  BY <1>1, <1>3 DEF Conflict, ConflictOps, Structural
<1> QED BY <1>1, <1>3, <1>5, <1>6

(* It has its result, and did something here or in the cloud. *)
LEMMA DoneStep ==
    ASSUME Core, cyc.pc = "act", NEW a \in cyc.acts,
           NEW res \in {"ok", "fail", "defer"}, NEW i \in Mark, NEW ver \in Version, Done(a, res, i, ver), cmd' = cmd,
           remote' \in Remotes, Grows(remote, remote'), disk' \in Disks(remote'), tree' \in Trees(remote'),
           OnePath(tree'), Rows(remote', rows'), Tasks(remote', tasks'),
           \A t \in tasks' : t.by = "cycle" => t \in tasks,
           Marks(remote', a.path, i),
           res = "ok" /\ a.op \in ConflictOps \cup {"CreatePlaceholder", "CreateFolder", "MoveInCloud"} => i \in Id,
           res = "ok" /\ a.op \in ConflictOps => disk'[a.path].data \in {0, ver[1]},
           \A p \in Path \ {a.path} : disk'[p].data \in {0, disk[p].data}
    PROVE  Core'
<1> DEFINE d == [act |-> Planned(a), res |-> res, id |-> i, ver |-> ver]
<1>1. cyc' = [cyc EXCEPT !.acts = @ \ {a}, !.done = @ \cup {d}]
  BY DEF Done
<1>2. ActIn(remote', a)
  BY ActIs2, Keep
<1>3. /\ ResultIn(remote', d) /\ d.act.path = a.path /\ d.res = res /\ d.ver = ver
      /\ Conflict(d) => a.op \in ConflictOps /\ Structural(a)
  BY <1>2, ResultOf
<1> HIDE DEF d
<1> DEFINE D == {d}
<1>4. IsFiniteSet(D)
  BY FS_Singleton
<1>5. \A e \in D : /\ ResultIn(remote', e)
                   /\ Conflict(e) => /\ Structural(a) /\ e.act.path = a.path
                                     /\ e.res = "ok" => disk'[a.path].data \in {0, e.ver[1]}
  BY <1>3
<1>6. cyc' = [cyc EXCEPT !.acts = @ \ {a}, !.done = @ \cup D]
  BY <1>1
<1> HIDE DEF D
<1> QED BY <1>4, <1>5, <1>6, ActStep

LEMMA DoneHere ==
    ASSUME Core, cyc.pc = "act", NEW a \in cyc.acts, NEW res \in {"ok", "fail", "defer"}, Done(a, res, a.id, a.ver),
           UNCHANGED <<remote, tree, rows, tasks, cmd>>, disk' \in Disks(remote),
           res = "ok" => a.op \notin ConflictOps /\ (a.op = "CreateFolder" => a.id \in Id),
           \A p \in Path \ {a.path} : disk'[p].data \in {0, disk[p].data}
    PROVE  Core'
<1>1. /\ remote' \in Remotes /\ Grows(remote, remote') /\ disk' \in Disks(remote') /\ tree' \in Trees(remote')
      /\ OnePath(tree') /\ Rows(remote', rows') /\ Tasks(remote', tasks')
  BY DEF Core, Sound, Grows, OnePathInTree, OnePath
<1>2. a.id \in Mark /\ a.ver \in Version /\ Marks(remote', a.path, a.id)
  BY ActIs2
<1>3. res = "ok" /\ a.op \in ConflictOps \cup {"CreatePlaceholder", "CreateFolder", "MoveInCloud"} => a.id \in Id
  BY ActIs2 DEF ActIn
<1> QED BY <1>1, <1>2, <1>3, DoneStep

(* The disk as it was. *)
LEMMA SameDisk ==
    ASSUME Core, disk' = disk
    PROVE  disk' \in Disks(remote) /\ \A p \in Path : disk'[p].data \in {0, disk[p].data}
BY DEF Core, Sound

LEMMA ActionFailsKeeps == ASSUME Core, cyc.pc = "act", NEW a \in cyc.acts, ActionFails(a) PROVE Core'
<1>1. UNCHANGED <<remote, disk, tree, rows, tasks, cmd>> /\ \E res \in {"fail", "defer"} : Done(a, res, a.id, a.ver)
  BY DEF ActionFails, local, Steady, engine
<1> QED BY <1>1, SameDisk, DoneHere

LEMMA DoCreatePlaceholderKeeps == ASSUME Core, cyc.pc = "act", NEW a \in cyc.acts, DoCreatePlaceholder(a) PROVE Core'
<1>1. UNCHANGED <<remote, tree, rows, tasks, cmd>> /\ a.op = "CreatePlaceholder"
  BY DEF DoCreatePlaceholder, Steady, engine
<1>2. CASE Here(disk[a.path])
  <2>1. disk' = disk /\ (Done(a, "ok", a.id, a.ver) \/ Done(a, "fail", a.id, a.ver))
    BY <1>2 DEF DoCreatePlaceholder, Succeeds
  <2> QED BY <1>1, <2>1, SameDisk, DoneHere DEF ConflictOps
<1>3. CASE ~Here(disk[a.path])
  <2>1. disk' = [WithParents(a.path) EXCEPT ![a.path] = File(0, a.id)] /\ Done(a, "ok", a.id, a.ver)
    BY <1>3 DEF DoCreatePlaceholder, Succeeds
  <2>2. a.path \in Path /\ a.id \in Mark /\ Marks(remote, a.path, a.id) /\ a.path \notin Dirs
    BY <1>1, ActIs2 DEF ActIn
  <2>3. /\ WithParents(a.path) \in Disks(remote)
        /\ \A p \in Path : WithParents(a.path)[p].data \in {0, disk[p].data}
    BY <2>2, ParentsIn DEF Core, Sound
  <2>4. disk' \in Disks(remote)
    BY <2>1, <2>2, <2>3, NodesIn, PutOnDisk
  <2>5. \A p \in Path \ {a.path} : disk'[p].data \in {0, disk[p].data}
    BY <2>1, <2>3 DEF Disks
  <2> QED BY <1>1, <2>1, <2>4, <2>5, DoneHere DEF ConflictOps
<1> QED BY <1>2, <1>3

LEMMA DoMakeDirectoryKeeps == ASSUME Core, cyc.pc = "act", NEW a \in cyc.acts, DoMakeDirectory(a) PROVE Core'
<1>1. UNCHANGED <<remote, tree, rows, tasks, cmd>> /\ a.op = "CreateFolder" /\ CarriesFile(a)
  BY DEF DoMakeDirectory, Steady, engine
<1>2. CASE Here(disk[a.path]) /\ ~Binds(disk[a.path], a.id)
  <2>1. disk' = disk /\ Done(a, "fail", a.id, a.ver)
    BY <1>2 DEF DoMakeDirectory
  <2> QED BY <1>1, <2>1, SameDisk, DoneHere
<1>3. CASE ~(Here(disk[a.path]) /\ ~Binds(disk[a.path], a.id))
  <2>1. disk' = [WithParents(a.path) EXCEPT ![a.path] = Directory(a.id)] /\ Done(a, "ok", a.id, a.ver)
    BY <1>3 DEF DoMakeDirectory, Succeeds
  <2>2. a.path \in Path /\ a.id \in Mark /\ Marks(remote, a.path, a.id) /\ a.id \in Id
    BY <1>1, ActIs2 DEF ActIn
  <2>3. /\ WithParents(a.path) \in Disks(remote)
        /\ \A p \in Path : WithParents(a.path)[p].data \in {0, disk[p].data}
    BY <2>2, ParentsIn DEF Core, Sound
  <2>4. disk' \in Disks(remote)
    BY <2>1, <2>2, <2>3, NodesIn, PutOnDisk
  <2>5. \A p \in Path \ {a.path} : disk'[p].data \in {0, disk[p].data}
    BY <2>1, <2>3 DEF Disks
  <2> QED BY <1>1, <2>1, <2>2, <2>4, <2>5, DoneHere DEF ConflictOps
<1> QED BY <1>2, <1>3

LEMMA DoCreateFolderKeeps == ASSUME Core, cyc.pc = "act", NEW a \in cyc.acts, DoCreateFolder(a) PROVE Core'
<1>1. UNCHANGED <<tasks, cmd>> /\ a.op = "CreateFolder"
  BY DEF DoCreateFolder
<1>2. a.path \in Path /\ a.id \in Mark /\ Marks(remote, a.path, a.id) /\ a.path \in Dirs /\ a.ver \in Version /\ cyc \in Late(remote)
  BY <1>1, ActIs2 DEF ActIn
<1>3. CASE ~HasRemoteParent(a.path) \/ (At(a.path) = {} /\ Fresh = {})
  <2>1. UNCHANGED <<remote, disk, tree, rows>> /\ Done(a, "defer", a.id, a.ver)
    BY <1>3 DEF DoCreateFolder, Defers
  <2> QED BY <1>1, <2>1, SameDisk, DoneHere
<1>4. CASE ~(~HasRemoteParent(a.path) \/ (At(a.path) = {} /\ Fresh = {}))
  <2>1. PICK i \in IF At(a.path) = {} THEN Fresh ELSE At(a.path) :
            /\ remote' = IF At(a.path) = {} THEN [remote EXCEPT ![i] = Write(i, a.path, 0)] ELSE remote
            /\ IF Binds(disk[a.path], i)
               THEN LET ver == <<0, remote'[i].k>> IN
                    /\ disk' = [disk EXCEPT ![a.path].id = i]
                    /\ rows' = {r \in rows : r.path # a.path} \cup {Row(a.path, i, 0, ver, "synced")}
                    /\ tree' = TreePut(tree, i, a.path, ver)
                    /\ cyc' = [cyc EXCEPT !.acts = @ \ {a}]
               ELSE Defers(a) /\ UNCHANGED <<disk, rows, tree>>
    BY <1>4 DEF DoCreateFolder
  <2>2. remote' \in Remotes /\ Grows(remote, remote') /\ Fits(remote', a.path, i) /\ i \in Id
    <3>1. CASE At(a.path) = {}
      <4>1. i \in Id /\ remote[i].k = 0
        BY <2>1, <3>1, FreshIs DEF Core, Sound
      <4>2. remote' = [remote EXCEPT ![i] = Write(i, a.path, 0)] /\ remote \in Remotes
        BY <2>1, <3>1 DEF Core, Sound
      <4>3. /\ [remote EXCEPT ![i] = Write(i, a.path, 0)] \in Remotes
            /\ Grows(remote, [remote EXCEPT ![i] = Write(i, a.path, 0)])
            /\ Fits([remote EXCEPT ![i] = Write(i, a.path, 0)], a.path, i)
        <5>1. a.path \in Path /\ 0 \in Nat /\ (remote[i].k # 0 => (a.path \in Dirs <=> remote[i].folder))
          BY <1>2, <4>1
        <5> QED BY <4>1, <4>2, <5>1, WriteIn
      <4> QED BY <4>1, <4>2, <4>3, Zenon
    <3>2. CASE At(a.path) # {}
      <4>1. i \in Id /\ remote[i].path = a.path /\ remote' = remote
        BY <2>1, <3>2 DEF At
      <4> QED BY <1>2, <4>1, PathIsSeq DEF Core, Sound, Remotes, Grows
    <3> QED BY <3>1, <3>2
  <2>3. disk \in Disks(remote') /\ tree \in Trees(remote') /\ Rows(remote', rows) /\ Tasks(remote', tasks') /\ OnePath(tree)
    BY <1>1, <2>2, SoundGrown DEF Core, Tasks, OnePathInTree, OnePath
  <2>4. Marks(remote', a.path, a.id)
    BY <1>2, <2>2, FitsGrown
  <2>5. CASE Binds(disk[a.path], i)
    <3> DEFINE ver == <<0, remote'[i].k>>
    <3>1. ver \in Version
      BY <2>2, VersionIs DEF Remotes, Object
    <3>2. disk' \in Disks(remote') /\ \A p \in Path : disk'[p].data = disk[p].data
      <4> DEFINE n == [disk[a.path] EXCEPT !.id = i]
      <4>1. disk' = [disk EXCEPT ![a.path] = n]
        BY <2>1, <2>5
      <4>2. n \in Node /\ n.id = i /\ n.kind = "dir" /\ n.data = disk[a.path].data
        BY <1>2, <2>2, <2>3, <2>5 DEF Disks, Node, Mark, Binds
      <4> HIDE DEF n
      <4>3. disk' \in Disks(remote')
        BY <1>2, <2>2, <2>3, <4>1, <4>2, PutOnDisk DEF Marks
      <4> QED BY <2>3, <4>1, <4>2, <4>3 DEF Disks
    <3>3. tree' \in Trees(remote') /\ OnePath(tree')
      <4>1. tree' = TreePut(tree, i, a.path, ver) /\ i \in Mark /\ Marks(remote', a.path, i)
        BY <2>1, <2>2, <2>5 DEF Mark, Marks
      <4> QED BY <1>2, <2>3, <3>1, <4>1, TreePutIn
    <3>4. Rows(remote', rows')
      <4>1. RowIn(remote', Row(a.path, i, 0, ver, "synced"))
        BY <2>2, <3>1, RowIsIn
      <4> QED BY <2>1, <2>3, <2>5, <4>1 DEF Rows
    <3>5. cyc' = [cyc EXCEPT !.acts = @ \ {a}, !.done = @ \cup {}]
      <4>1. cyc' = [cyc EXCEPT !.acts = @ \ {a}]
        BY <2>1, <2>5
      <4>2. cyc.done \cup {} = cyc.done
        OBVIOUS
      <4>3. [cyc EXCEPT !.done = cyc.done] = cyc
        BY <1>2 DEF Late
      <4> QED BY <4>1, <4>2, <4>3
    <3>6. IsFiniteSet({})
      BY FS_EmptySet
    <3> HIDE DEF ver
    <3> DEFINE D == {}
    <3>7. \A d \in D : /\ ResultIn(remote', d)
                       /\ Conflict(d) => /\ Structural(a) /\ d.act.path = a.path
                                         /\ d.res = "ok" => disk'[a.path].data \in {0, d.ver[1]}
      OBVIOUS
    <3>8. cyc' = [cyc EXCEPT !.acts = @ \ {a}, !.done = @ \cup D] /\ IsFiniteSet(D)
      BY <3>5, <3>6
    <3> HIDE DEF D
    <3>9. \A p \in Path \ {a.path} : disk'[p].data \in {0, disk[p].data}
      BY <3>2
    <3>10. \A t \in tasks' : t.by = "cycle" => t \in tasks
      BY <1>1
    <3> QED BY <1>1, <2>2, <2>3, <3>2, <3>3, <3>4, <3>7, <3>8, <3>9, <3>10, ActStep
  <2>6. CASE ~Binds(disk[a.path], i)
    <3>1. Done(a, "defer", a.id, a.ver) /\ UNCHANGED <<disk, rows, tree>>
      BY <2>1, <2>6 DEF Defers
    <3>2. disk' \in Disks(remote') /\ tree' \in Trees(remote') /\ Rows(remote', rows') /\ OnePath(tree')
      BY <2>3, <3>1
    <3>3. \A p \in Path \ {a.path} : disk'[p].data \in {0, disk[p].data}
      BY <3>1
    <3> QED BY <1>1, <1>2, <2>2, <2>3, <2>4, <3>1, <3>2, <3>3, DoneStep
  <2> QED BY <2>5, <2>6
<1> QED BY <1>3, <1>4

(* A call to the cloud: known to have been made, or not heard of again. *)
LEMMA CloudCall ==
    ASSUME Core, cyc.pc = "act", NEW a \in cyc.acts, NEW i \in Mark, NEW ver \in Version,
           Answered(a, i, ver), UNCHANGED <<disk, tree, rows, tasks, cmd>>,
           remote' \in Remotes, Grows(remote, remote'), Marks(remote', a.path, i),
           a.op \notin ConflictOps, a.op \in {"CreatePlaceholder", "CreateFolder", "MoveInCloud"} => i \in Id
    PROVE  Core'
<1>1. PICK res \in {"ok", "defer"} : Done(a, res, i, ver)
  BY DEF Answered
<1>2. /\ disk' \in Disks(remote') /\ tree' \in Trees(remote') /\ OnePath(tree')
      /\ Rows(remote', rows') /\ Tasks(remote', tasks')
  BY SoundGrown DEF Core, Rows, Tasks, OnePathInTree, OnePath
<1>3. \A p \in Path \ {a.path} : disk'[p].data \in {0, disk[p].data}
  OBVIOUS
<1>4. \A t \in tasks' : t.by = "cycle" => t \in tasks
  OBVIOUS
<1> QED BY <1>1, <1>2, <1>3, <1>4, DoneStep

LEMMA DoMoveInCloudKeeps == ASSUME Core, cyc.pc = "act", NEW a \in cyc.acts, DoMoveInCloud(a) PROVE Core'
<1> DEFINE ver == <<remote[a.id].data, remote[a.id].k + 1>>
           old == remote[a.id].path
<1>1. UNCHANGED <<disk, tree, rows, tasks, cmd>> /\ a.op = "MoveInCloud"
  BY DEF DoMoveInCloud, Steady, engine, local
<1>2. ActIn(remote, a) /\ a.path \in Path /\ a.id \in Id /\ Fits(remote, a.path, a.id) /\ remote \in Remotes
  <2>1. ActIn(remote, a) /\ a.path \in Path /\ Marks(remote, a.path, a.id) /\ remote \in Remotes
    BY ActIs2 DEF Core, Sound
  <2> QED BY <1>1, <2>1, PathIsSeq DEF ActIn, Marks
<1>3. CASE Live(a.id) /\ ~StrictlyUnder(a.path, old) /\ Answered(a, a.id, ver)
           /\ remote' = [n \in Id |->
                    IF n = a.id THEN Write(n, a.path, remote[n].data)
                    ELSE IF Live(n) /\ Under(remote[n].path, old)
                    THEN [remote[n] EXCEPT !.path = Rebase(@, old, a.path)] ELSE remote[n]]
  <2> DEFINE data == remote[a.id].data
             i == a.id
  <2>1. Fits(remote, old, a.id) /\ old \in Path /\ data \in Nat /\ remote[a.id].k \in Nat
    BY <1>2, <1>3, LiveFits
  <2>2. SameKind(old, a.path)
    BY <1>2, <2>1 DEF Fits, SameKind
  <2>3. remote' = [n \in Id |-> IF n = i THEN Write(i, a.path, data)
                        ELSE IF Live(n) /\ Under(remote[n].path, remote[i].path)
                        THEN [remote[n] EXCEPT !.path = Rebase(@, remote[i].path, a.path)] ELSE remote[n]]
    BY <1>3
  <2>4. /\ i \in Id /\ Live(i) /\ SameKind(remote[i].path, a.path) /\ data \in Nat
        /\ ~StrictlyUnder(a.path, remote[i].path)
    BY <1>2, <1>3, <2>1, <2>2
  <2> HIDE DEF data, i
  <2>5. remote' \in Remotes /\ Grows(remote, remote') /\ Fits(remote', a.path, i)
    BY <1>2, <2>3, <2>4, MovedRemoteIn
  <2>6. ver \in Version
    BY <2>1, VersionIs DEF data
  <2> HIDE DEF ver
  <2>7. a.id \in Mark /\ Marks(remote', a.path, a.id) /\ a.op \notin ConflictOps
    BY <1>1, <1>2, <2>5 DEF Mark, Marks, ConflictOps, i
  <2> QED BY <1>1, <1>2, <1>3, <2>5, <2>6, <2>7, CloudCall
<1>4. CASE Done(a, "defer", a.id, a.ver) /\ remote' = remote
  BY <1>1, <1>4, SameDisk, DoneHere
<1> QED BY <1>3, <1>4 DEF DoMoveInCloud, Defers

LEMMA DoDeleteFromCloudKeeps == ASSUME Core, cyc.pc = "act", NEW a \in cyc.acts, DoDeleteFromCloud(a) PROVE Core'
<1>1. /\ UNCHANGED <<disk, tree, rows, tasks, cmd>> /\ a.op = "DeleteFromCloud" /\ Answered(a, a.id, a.ver)
      /\ remote' = Deleted(remote[a.id].path) \/ remote' = remote
  BY DEF DoDeleteFromCloud, Steady, engine, local
<1>2. remote' \in Remotes /\ Grows(remote, remote')
  BY <1>1, DeletedIn DEF Core, Sound, Grows
<1>3. a.id \in Mark /\ a.ver \in Version /\ Marks(remote', a.path, a.id)
  BY <1>2, ActIs2, FitsGrown
<1> QED BY <1>1, <1>2, <1>3, CloudCall DEF ConflictOps

LEMMA DoDeleteFromLocalKeeps == ASSUME Core, cyc.pc = "act", NEW a \in cyc.acts, DoDeleteFromLocal(a) PROVE Core'
<1>1. UNCHANGED <<remote, tree, rows, tasks, cmd>> /\ a.op = "DeleteFromLocal"
  BY DEF DoDeleteFromLocal, engine
<1>2. CASE Done(a, "ok", a.id, a.ver) /\ disk' = [p \in Path |-> IF Under(p, a.path) THEN Absent ELSE disk[p]]
  <2> DEFINE S == {p \in Path : Under(p, a.path)}
  <2>1. disk' = [p \in Path |-> IF p \in S THEN Absent ELSE disk[p]]
    BY <1>2
  <2>2. disk' \in Disks(remote)
    <3> HIDE DEF S
    <3> QED BY <2>1, ClearedDisk DEF Core, Sound
  <2>3. \A p \in Path \ {a.path} : disk'[p].data \in {0, disk[p].data}
    BY <1>2, NodesIn
  <2> QED BY <1>1, <1>2, <2>2, <2>3, DoneHere DEF ConflictOps
<1>3. CASE Done(a, "defer", a.id, a.ver) /\ disk' = disk
  BY <1>1, <1>3, SameDisk, DoneHere
<1> QED BY <1>2, <1>3 DEF DoDeleteFromLocal, Succeeds, Defers

(* A conflict in its second half. *)
LEMMA WithCopyKeeps ==
    ASSUME Core, cyc.pc = "act", NEW a \in cyc.acts, a.op = "CreateConflictCopy",
           NEW op \in {"ConflictDownload", "ConflictUpload"}, NEW data, WithCopy(a, op, data),
           UNCHANGED <<remote, disk, tree, rows, tasks, cmd>>
    PROVE  Core'
<1> DEFINE b == [a EXCEPT !.op = op]
           acts == (cyc.acts \ {a}) \cup {b}
<1>1. ActIn(remote, a) /\ cyc \in Late(remote)
  BY ActIs2
<1>2. b \in ActSet /\ b.path = a.path /\ b.id = a.id /\ b.ver = a.ver /\ b.op = op
  BY <1>1 DEF ActIn, ActSet, ConflictOps
<1> HIDE DEF b
<1>3. ActIn(remote, b) /\ Structural(b) /\ Structural(a)
  BY <1>1, <1>2 DEF ActIn, ConflictOps, CarriesFile, Structural
<1>4. cyc' = [cyc EXCEPT !.acts = acts]
  BY DEF WithCopy, b
<1>5. /\ cyc'.pc = "act" /\ cyc'.acts = acts /\ cyc'.done = cyc.done
      /\ cyc'.leased = cyc.leased /\ cyc'.filled = cyc.filled
  BY <1>1, <1>4 DEF Late
<1>6. cyc' \in Late(remote)
  <2>1. acts \subseteq ActSet /\ \A x \in acts : ActIn(remote, x)
    BY <1>1, <1>2, <1>3 DEF Late
  <2> HIDE DEF acts
  <2> QED BY <1>1, <1>4, <1>5, <2>1 DEF Late
<1>7. Sound'
  BY <1>6 DEF Core, Sound, Rows, Tasks, Cycles
<1>8. OnePathInTree'
  BY DEF Core, OnePathInTree
<1>9. Settling /\ Settling' /\ Awaited' = Awaited
  BY <1>5 DEF Settling, Awaited
<1>10. Disjoint'
  <2>1. \A x \in cyc.acts : Structural(x) => x.path \in cyc.leased
    BY <1>9 DEF Core, Order, Disjoint
  <2>2. b.path \in cyc.leased
    BY <1>2, <1>3, <2>1
  <2> QED BY <1>5, <1>9, <2>1, <2>2 DEF Core, Order, Disjoint, Conflict
<1>11. Waiting'
  BY <1>5, <1>9 DEF Waiting
<1>12. Single'
  <2>1. \A x, y \in acts : x.path = y.path => x = y
    BY <1>2, <1>9 DEF Core, Order, Single
  <2>2. \A x \in acts, t \in Awaited : x.path # t.path
    BY <1>2, <1>9 DEF Core, Order, Single
  <2>3. \A d \in cyc.done : Conflict(d) => \A x \in acts : x.path # d.act.path
    BY <1>2, <1>9 DEF Core, Order, Single
  <2>4. \A d \in cyc.done : Conflict(d) => \A t \in Awaited : t.path # d.act.path
    BY <1>9 DEF Core, Order, Single
  <2> HIDE DEF acts
  <2> QED BY <1>5, <1>9, <2>1, <2>2, <2>3, <2>4 DEF Single, Conflict
<1>13. Resolved'
  BY <1>5, <1>9 DEF Core, Order, Resolved, Conflict
<1> QED BY <1>7, <1>8, <1>10, <1>11, <1>12, <1>13 DEF Core, Order

LEMMA ConflictCopyHereKeeps == ASSUME Core, cyc.pc = "act", NEW a \in cyc.acts, ConflictCopyHere(a) PROVE Core'
<1>1. UNCHANGED <<remote, disk, tree, rows, tasks, cmd>> /\ a.op = "CreateConflictCopy"
  BY DEF ConflictCopyHere, Steady, engine
<1>2. CASE WithCopy(a, "ConflictDownload", disk[a.path].data)
  BY <1>1, <1>2, WithCopyKeeps
<1>3. CASE Done(a, "fail", a.id, a.ver)
  BY <1>1, <1>3, SameDisk, DoneHere
<1> QED BY <1>2, <1>3 DEF ConflictCopyHere

LEMMA ConflictCopyThereKeeps == ASSUME Core, cyc.pc = "act", NEW a \in cyc.acts, ConflictCopyThere(a) PROVE Core'
<1>1. UNCHANGED <<remote, disk, tree, rows, tasks, cmd>> /\ a.op = "CreateConflictCopy"
  BY DEF ConflictCopyThere, Steady, engine
<1>2. CASE WithCopy(a, "ConflictUpload", a.ver[1])
  BY <1>1, <1>2, WithCopyKeeps
<1>3. CASE Done(a, "fail", a.id, a.ver)
  BY <1>1, <1>3, SameDisk, DoneHere
<1> QED BY <1>2, <1>3 DEF ConflictCopyThere

LEMMA ConflictDownloadKeeps == ASSUME Core, cyc.pc = "act", NEW a \in cyc.acts, ConflictDownload(a) PROVE Core'
<1>1. UNCHANGED <<remote, tree, rows, tasks, cmd>> /\ a.op = "ConflictDownload"
  BY DEF ConflictDownload, Steady, engine
<1>2. /\ a.path \in Path /\ a.path \notin Dirs /\ a.id \in Id /\ a.id \in Mark /\ a.ver \in Version
      /\ Marks(remote, a.path, a.id)
  BY <1>1, ActIs2 DEF ActIn, ConflictOps
<1>3. CASE Live(a.id) /\ Ver(a.id) = a.ver /\ disk' = [disk EXCEPT ![a.path] = File(remote[a.id].data, a.id)]
           /\ Done(a, "ok", a.id, a.ver)
  <2>1. remote[a.id].data \in Nat /\ a.ver[1] = remote[a.id].data
    BY <1>2, <1>3, LiveFits DEF Core, Sound, Ver
  <2>2. disk' \in Disks(remote)
    <3> DEFINE n == File(remote[a.id].data, a.id)
    <3>1. n \in Node /\ n.id = a.id /\ disk' = [disk EXCEPT ![a.path] = n] /\ disk \in Disks(remote)
      BY <1>2, <1>3, <2>1, NodesIn DEF Core, Sound
    <3> HIDE DEF n
    <3> QED BY <1>2, <3>1, PutOnDisk
  <2>3. disk'[a.path].data \in {0, a.ver[1]} /\ \A p \in Path \ {a.path} : disk'[p].data \in {0, disk[p].data}
    BY <1>2, <1>3, <2>1, NodesIn DEF Core, Sound, Disks
  <2>4. /\ remote' \in Remotes /\ Grows(remote, remote') /\ disk' \in Disks(remote') /\ tree' \in Trees(remote')
        /\ OnePath(tree') /\ Rows(remote', rows') /\ Tasks(remote', tasks')
    BY <1>1, <2>2 DEF Core, Sound, Grows, OnePathInTree, OnePath
  <2> QED BY <1>1, <1>2, <1>3, <2>3, <2>4, DoneStep
<1>4. CASE Done(a, "fail", a.id, a.ver) /\ disk' = disk
  BY <1>1, <1>4, SameDisk, DoneHere
<1>5. ASSUME NEW i \in {NoId, a.id}, Live(a.id), Ver(a.id) = a.ver, Done(a, "fail", a.id, a.ver),
             disk' = [disk EXCEPT ![a.path] = File(remote[a.id].data, i)]
      PROVE  Core'
  <2>1. remote[a.id].data \in Nat /\ a.ver[1] = remote[a.id].data
    BY <1>2, <1>5, LiveFits DEF Core, Sound, Ver
  <2>2. i \in Mark /\ Marks(remote, a.path, i)
    BY <1>2 DEF Mark, Marks
  <2>3. disk' \in Disks(remote) /\ \A p \in Path \ {a.path} : disk'[p].data \in {0, disk[p].data}
    <3> DEFINE n == File(remote[a.id].data, i)
    <3>1. n \in Node /\ n.id = i /\ disk' = [disk EXCEPT ![a.path] = n] /\ disk \in Disks(remote)
      BY <1>5, <2>1, <2>2, NodesIn DEF Core, Sound
    <3> HIDE DEF n
    <3>2. disk' \in Disks(remote)
      BY <1>2, <2>2, <3>1, PutOnDisk
    <3> QED BY <1>2, <3>1, <3>2 DEF Disks
  <2> QED BY <1>1, <1>5, <2>3, DoneHere
<1> QED BY <1>3, <1>4, <1>5 DEF ConflictDownload, ConflictFails

LEMMA ConflictUploadKeeps == ASSUME Core, cyc.pc = "act", NEW a \in cyc.acts, ConflictUpload(a) PROVE Core'
<1> DEFINE data == disk[a.path].data
           ver == <<data, remote[a.id].k + 1>>
           p == remote[a.id].path
<1>1. UNCHANGED <<disk, tree, rows, tasks, cmd>> /\ a.op = "ConflictUpload"
  BY DEF ConflictUpload, Steady, engine
<1>2. /\ a.path \in Path /\ a.path \notin Dirs /\ a.id \in Id /\ a.id \in Mark /\ a.ver \in Version
      /\ Marks(remote, a.path, a.id)
  BY <1>1, ActIs2 DEF ActIn, ConflictOps
<1>3. CASE Live(a.id) /\ remote' = [remote EXCEPT ![a.id] = Write(a.id, @.path, data)]
           /\ (Done(a, "ok", a.id, ver) \/ Done(a, "fail", a.id, a.ver))
  <2>1. Fits(remote, p, a.id) /\ p \in Path /\ data \in Nat /\ remote[a.id].k \in Nat
    BY <1>2, <1>3, LiveFits DEF Core, Sound, Disks, Node
  <2>2. remote' = [remote EXCEPT ![a.id] = Write(a.id, p, data)]
    BY <1>2, <1>3
  <2>3. remote' \in Remotes /\ Grows(remote, remote')
    <3> HIDE DEF p, data
    <3> QED BY <1>2, <2>1, <2>2, WriteIn DEF Core, Sound, Fits
  <2>4. ver \in Version /\ ver[1] = data
    BY <2>1, VersionIs
  <2>5. Marks(remote', a.path, a.id)
    BY <1>2, <2>3, FitsGrown
  <2>6. /\ disk' \in Disks(remote') /\ tree' \in Trees(remote') /\ OnePath(tree')
        /\ Rows(remote', rows') /\ Tasks(remote', tasks')
    BY <1>1, <2>3, SoundGrown DEF Core, Rows, Tasks, OnePathInTree, OnePath
  <2>7. disk'[a.path].data \in {0, ver[1]} /\ \A x \in Path \ {a.path} : disk'[x].data \in {0, disk[x].data}
    BY <1>1, <2>4
  <2>8. \A t \in tasks' : t.by = "cycle" => t \in tasks
    BY <1>1
  <2> HIDE DEF ver
  <2>9. CASE Done(a, "ok", a.id, ver)
    BY <1>1, <1>2, <2>3, <2>4, <2>5, <2>6, <2>7, <2>8, <2>9, DoneStep
  <2>10. CASE Done(a, "fail", a.id, a.ver)
    BY <1>1, <1>2, <2>3, <2>5, <2>6, <2>7, <2>8, <2>10, DoneStep
  <2> QED BY <1>3, <2>9, <2>10
<1>4. CASE Done(a, "fail", a.id, a.ver) /\ remote' = remote
  BY <1>1, <1>4, SameDisk, DoneHere
<1> QED BY <1>3, <1>4 DEF ConflictUpload, ConflictFails

LEMMA DoBackupKeeps == ASSUME Core, cyc.pc = "act", NEW a \in cyc.acts, DoBackup(a) PROVE Core'
<1>1. /\ UNCHANGED <<remote, tree, rows, tasks, cmd>> /\ a.op = "BackupBeforeCloudDelete" /\ Done(a, "ok", a.id, a.ver)
      /\ disk' = [disk EXCEPT ![a.path] = Absent] \/ disk' = disk
  BY DEF DoBackup, Steady, engine, local, Succeeds
<1>2. a.path \in Path
  BY ActIs2
<1>3. disk' \in Disks(remote) /\ \A p \in Path \ {a.path} : disk'[p].data \in {0, disk[p].data}
  <2>1. CASE disk' = disk
    BY <2>1, SameDisk
  <2>2. CASE disk' = [disk EXCEPT ![a.path] = Absent]
    BY <1>2, <2>2, NodesIn, PutOnDisk DEF Core, Sound, Marks, Disks
  <2> QED BY <1>1, <2>1, <2>2
<1> QED BY <1>1, <1>3, DoneHere DEF ConflictOps
-----------------------------------------------------------------------------
(* Transfers *)

LEMMA StartTransferKeeps == ASSUME Core, cyc.pc = "act", NEW a \in cyc.acts, StartTransfer(a) PROVE Core'
<1>1. UNCHANGED <<remote, disk, tree, rows, cmd>> /\ a.op \in {"Upload", "Download"}
  BY DEF StartTransfer, local, engine
<1>2. CASE Done(a, "defer", a.id, a.ver) /\ tasks' = tasks
  BY <1>1, <1>2, SameDisk, DoneHere
<1>3. CASE ~(Done(a, "defer", a.id, a.ver) /\ tasks' = tasks)
  <2> DEFINE op == IF a.op = "Download" THEN "DownloadUpdate" ELSE IF a.id = NoId THEN "Create" ELSE "Update"
             t == Task(op, a.path, a.id, a.ver, disk[a.path].data, "cycle")
  <2>1. /\ disk[a.path].kind = "file" /\ cyc' = [cyc EXCEPT !.acts = @ \ {a}] /\ tasks' = tasks \cup {t}
    BY <1>3 DEF StartTransfer, Defers
  <2>2. ActIn(remote, a) /\ a.path \in Path /\ cyc \in Late(remote)
    BY ActIs2
  <2>3. a.path \notin Dirs /\ disk[a.path].data \in Nat
    BY <2>1, <2>2 DEF Core, Sound, Disks, Node
  <2>4. TaskIn(remote, t) /\ t.path = a.path
    <3>1. t.op = op /\ t.path = a.path /\ t.id = a.id /\ t.ver = a.ver /\ t.made = FALSE /\ t \in TaskSet
      BY <2>2, <2>3 DEF Task, TaskSet, ActIn, ActSet
    <3> HIDE DEF t
    <3>2. t.op # "Create" \/ CarriesFile(t) => t.id \in Id
      <4>1. a.id \in Mark /\ (a.op = "Download" \/ CarriesFile(a) => a.id \in Id)
        BY <2>2 DEF ActIn, ActSet
      <4> QED BY <3>1, <4>1 DEF CarriesFile, Mark
    <3> QED BY <2>2, <2>3, <3>1, <3>2 DEF TaskIn, ActIn
  <2> HIDE DEF t
  <2>5. /\ cyc'.pc = "act" /\ cyc'.acts = cyc.acts \ {a} /\ cyc'.done = cyc.done
        /\ cyc'.leased = cyc.leased /\ cyc'.filled = cyc.filled
    BY <2>1, <2>2 DEF Late
  <2>6. cyc' \in Late(remote)
    BY <2>1, <2>2, <2>5 DEF Late
  <2>7. Sound'
    BY <1>1, <2>1, <2>4, <2>6 DEF Core, Sound, Rows, Tasks, Cycles
  <2>8. OnePathInTree'
    BY <1>1 DEF Core, OnePathInTree
  <2>9. Settling /\ Settling' /\ Awaited' \subseteq Awaited \cup {t}
    BY <2>1, <2>5 DEF Settling, Awaited
  <2>10. Disjoint'
    BY <1>1, <2>5, <2>9 DEF Core, Order, Disjoint, Conflict
  <2>11. Waiting'
    BY <2>5 DEF Waiting
  <2>12. Single'
    <3>1. \A x, y \in cyc.acts : x.path = y.path => x = y
      BY <2>9 DEF Core, Order, Single
    <3>2. \A x \in cyc.acts, u \in Awaited : x.path # u.path
      BY <2>9 DEF Core, Order, Single
    <3>3. \A d \in cyc.done : Conflict(d) => /\ \A x \in cyc.acts : x.path # d.act.path
                                             /\ \A u \in Awaited : u.path # d.act.path
      BY <2>9 DEF Core, Order, Single
    <3> QED BY <2>4, <2>5, <2>9, <3>1, <3>2, <3>3 DEF Single, Conflict
  <2>13. Resolved'
    BY <1>1, <2>5, <2>9 DEF Core, Order, Resolved, Conflict
  <2> QED BY <2>7, <2>8, <2>10, <2>11, <2>12, <2>13 DEF Core, Order
<1> QED BY <1>2, <1>3

LEMMA ExecuteKeeps == ASSUME Core, cyc.pc = "act", NEW a \in cyc.acts, Execute(a) PROVE Core'
BY ActionFailsKeeps, DoCreatePlaceholderKeeps, DoMakeDirectoryKeeps, DoCreateFolderKeeps, DoMoveInCloudKeeps,
   DoDeleteFromCloudKeeps, DoDeleteFromLocalKeeps, ConflictCopyHereKeeps, ConflictCopyThereKeeps,
   ConflictDownloadKeeps, ConflictUploadKeeps, DoBackupKeeps, StartTransferKeeps, Zenon DEF Execute

LEMMA TaskIs ==
    ASSUME Core, NEW t \in tasks
    PROVE  /\ TaskIn(remote, t) /\ t.path \in Path /\ t.path \notin Dirs /\ t.id \in Mark /\ t.snap \in Nat
           /\ t.ver \in Version /\ Marks(remote, t.path, t.id)
           /\ t.by = "cycle" => t \in Awaited /\ cyc.pc = "act"
<1>1. TaskIn(remote, t)
  BY DEF Core, Sound, Tasks
<1>2. t.by = "cycle" => t \in Awaited /\ cyc.pc = "act"
  BY DEF Core, Order, Waiting, Awaited
<1> QED BY <1>1, <1>2 DEF TaskIn, TaskSet

(* A transfer that the cycle waits for is over. *)
LEMMA TransferStep ==
    ASSUME Core, NEW t \in tasks, t.by = "cycle", NEW res \in {"ok", "defer"}, NEW i \in Mark, NEW ver \in Version,
           Done(ActOf(t), res, i, ver), UNCHANGED <<remote, tree, cmd>>, Marks(remote, t.path, i),
           disk' \in Disks(remote), Rows(remote, rows'), Tasks(remote, tasks'),
           \A u \in tasks' : u.by = "cycle" => u \in tasks,
           \A p \in Path \ {t.path} : disk'[p].data \in {0, disk[p].data}
    PROVE  Core'
<1> DEFINE a == ActOf(t)
           d == [act |-> Planned(a), res |-> res, id |-> i, ver |-> ver]
           acts == cyc.acts \ {a}
<1>1. cyc.pc = "act" /\ t \in Awaited /\ cyc \in Late(remote) /\ Settling /\ TaskIn(remote, t)
  BY TaskIs, CycleShape DEF Core, Sound, Settling
<1>2. ActIn(remote, a) /\ a.path = t.path /\ a.op \in {"Upload", "Download"}
  <2>1. /\ a.op = IF t.op \in {"Create", "Update"} THEN "Upload" ELSE "Download"
        /\ a.path = t.path /\ a.id = t.id /\ a.ver = t.ver /\ a \in ActSet
    BY <1>1 DEF ActOf, Act, TaskIn, TaskSet, ActSet
  <2> HIDE DEF a
  <2> QED BY <1>1, <2>1 DEF ActIn, TaskIn, ConflictOps, CarriesFile
<1>3. cyc' = [cyc EXCEPT !.acts = acts, !.done = @ \cup {d}]
  BY DEF Done
<1> HIDE DEF a
<1>4. /\ ResultIn(remote, d) /\ d.act.path = t.path /\ d.res = res /\ d.ver = ver
      /\ ~Conflict(d)
  <2>1. res = "ok" /\ a.op \in ConflictOps \cup {"CreatePlaceholder", "CreateFolder", "MoveInCloud"} => i \in Id
    BY <1>2 DEF ConflictOps
  <2>2. a.op \notin ConflictOps
    BY <1>2 DEF ConflictOps
  <2> QED BY <1>2, <2>1, <2>2, ResultOf
<1> HIDE DEF d
<1>5. acts \subseteq cyc.acts
  OBVIOUS
<1> HIDE DEF acts
<1>6. /\ cyc'.pc = "act" /\ cyc'.acts = acts /\ cyc'.done = cyc.done \cup {d}
      /\ cyc'.leased = cyc.leased /\ cyc'.filled = cyc.filled
  BY <1>1, <1>3 DEF Late
<1>7. cyc' \in Late(remote)
  <2>1. IsFiniteSet(cyc.done \cup {d})
    BY <1>1, FS_AddElement DEF Late
  <2>2. d \in ResultSet
    BY <1>4 DEF ResultIn
  <2>3. cyc' \in [pc : {"act", "settle"}, acts : SUBSET ActSet, done : SUBSET ResultSet, leased : SUBSET Path,
                  scan : [Path -> Node], missed : SUBSET Id, filled : SUBSET Path]
    BY <1>1, <1>3, <1>5, <2>2 DEF Late
  <2>4. (\A b \in cyc'.acts : ActIn(remote, b)) /\ (\A e \in cyc'.done : ResultIn(remote, e))
    BY <1>1, <1>4, <1>5, <1>6 DEF Late
  <2> QED BY <1>6, <2>1, <2>3, <2>4 DEF Late
<1>8. Sound'
  BY <1>7 DEF Core, Sound, Rows, Tasks, Cycles
<1>9. OnePathInTree'
  BY DEF Core, OnePathInTree
<1>10. Order'
  <2> DEFINE p0 == t.path
  <2>1. \A e \in cyc.done : Conflict(e) => e.act.path # p0
    BY <1>1 DEF Core, Order, Single
  <2>2. \A p \in cyc.leased \ {p0} : disk'[p].data \in {0, disk[p].data}
    BY <1>1 DEF Late
  <2>3. \A e \in cyc'.done \ cyc.done : ~Conflict(e)
    BY <1>4, <1>6
  <2>4. Order /\ cyc'.acts \subseteq cyc.acts
    BY <1>5, <1>6 DEF Core
  <2> HIDE DEF p0
  <2> QED BY <1>1, <1>6, <2>1, <2>2, <2>3, <2>4, OrderDone
<1> QED BY <1>8, <1>9, <1>10 DEF Core

LEMMA SubmitKeeps == ASSUME Core, NEW t \in tasks, Submit(t) PROVE Core'
<1>1. UNCHANGED <<disk, tree, rows, cyc, cmd>> /\ t.by = "cycle" /\ t.op \in {"Create", "Update"} /\ ~t.made
  BY DEF Submit, Quiet, local, engine
<1>2. PICK i \in IF t.op = "Create" THEN Fresh ELSE {t.id} :
        /\ t.op # "Create" => Live(i)
        /\ remote' = [remote EXCEPT ![i] = Write(i, IF t.op = "Create" THEN t.path ELSE @.path, t.snap)]
        /\ tasks' = (tasks \ {t}) \cup {[t EXCEPT !.made = TRUE, !.id = i, !.ver = <<t.snap, remote[i].k + 1>>]}
  BY DEF Submit
<1>3. /\ TaskIn(remote, t) /\ t.path \in Path /\ t.snap \in Nat /\ Marks(remote, t.path, t.id) /\ t \in TaskSet
      /\ t.path \notin Dirs /\ t \in Awaited
  BY <1>1, TaskIs DEF TaskIn
<1> DEFINE p == IF t.op = "Create" THEN t.path ELSE remote[i].path
           u == [t EXCEPT !.made = TRUE, !.id = i, !.ver = <<t.snap, remote[i].k + 1>>]
<1>4. i \in Id /\ p \in Path /\ (remote[i].k # 0 => (p \in Dirs <=> remote[i].folder)) /\ (t.op # "Create" => Fits(remote, t.path, i))
  <2>1. CASE t.op = "Create"
    BY <1>2, <1>3, <2>1, FreshIs DEF Core, Sound
  <2>2. CASE t.op # "Create"
    <3>1. t.id \in Id /\ i = t.id /\ Live(i)
      BY <1>2, <1>3, <2>2 DEF TaskIn
    <3>2. Fits(remote, t.path, i)
      BY <1>3, <3>1, PathIsSeq DEF Marks
    <3> QED BY <2>2, <3>1, <3>2, LiveFits DEF Core, Sound, Fits
  <2> QED BY <2>1, <2>2
<1>5. remote' = [remote EXCEPT ![i] = Write(i, p, t.snap)]
  BY <1>2, <1>4 DEF Core, Sound, Remotes
<1>6. remote' \in Remotes /\ Grows(remote, remote') /\ Fits(remote', p, i) /\ remote[i].k + 1 \in Nat
  <2> HIDE DEF p
  <2> QED BY <1>3, <1>4, <1>5, WriteIn DEF Core, Sound
<1>7. Fits(remote', t.path, i)
  BY <1>4, <1>6, FitsGrown
<1>8. TaskIn(remote', u) /\ u.path = t.path
  <2>1. <<t.snap, remote[i].k + 1>> \in Version
    BY <1>3, <1>6, VersionIs
  <2>2. u \in TaskSet /\ u.path = t.path /\ u.made = TRUE /\ u.id = i /\ u.ver = <<t.snap, remote[i].k + 1>> /\ u.snap = t.snap
    BY <1>3, <1>4, <2>1 DEF TaskSet, Mark
  <2> HIDE DEF u
  <2> QED BY <1>3, <1>4, <1>7, <2>2 DEF TaskIn, Marks
<1>9. tasks' = (tasks \ {t}) \cup {u}
  BY <1>2
<1> HIDE DEF u
<1>10. Sound'
  <2>1. disk' \in Disks(remote') /\ tree' \in Trees(remote') /\ Rows(remote', rows') /\ cyc' \in Cycles(remote') /\ cmd' \in Commands(remote')
    BY <1>1, <1>6, SoundGrown DEF Core, Rows
  <2>2. Tasks(remote', tasks')
    BY <1>6, <1>8, <1>9, SoundGrown DEF Core, Tasks
  <2> QED BY <1>6, <2>1, <2>2 DEF Sound, Rows, Tasks
<1>11. OnePathInTree'
  BY <1>1 DEF Core, OnePathInTree
<1>12. \A x \in tasks' : x.by = "cycle" => \E y \in Awaited : y.path = x.path
  BY <1>3, <1>8, <1>9 DEF Awaited
<1>13. Settling /\ cmd'.pc # "idle" => \A x \in cyc.leased, y \in cmd'.leased : ~Overlap(x, y)
  BY <1>1 DEF Core, Order, Disjoint
<1>14. Order'
  BY <1>1, <1>12, <1>13, OrderKept DEF Core
<1> QED BY <1>10, <1>11, <1>14 DEF Core
LEMMA SettleUploadKeeps == ASSUME Core, NEW t \in tasks, SettleUpload(t) PROVE Core'
<1>1. /\ t.by = "cycle" /\ t.made /\ UNCHANGED <<remote, tree, cmd>> /\ rows' = UploadSettled(t) /\ tasks' = tasks \ {t}
      /\ Done(ActOf(t), "ok", t.id, t.ver)
      /\ disk' = [disk EXCEPT ![t.path].id = t.id] \/ disk' = disk
  BY DEF SettleUpload, Quiet
<1>2. Rows(remote, rows') /\ Fits(remote, t.path, t.id)
  BY <1>1, UploadSettledIn DEF Core
<1>3. t.path \in Path /\ t.path \notin Dirs /\ t.id \in Mark /\ t.ver \in Version /\ Marks(remote, t.path, t.id)
  BY TaskIs
<1>4. disk' \in Disks(remote) /\ \A p \in Path \ {t.path} : disk'[p].data \in {0, disk[p].data}
  BY <1>1, <1>3 DEF Core, Sound, Disks, Node
<1>5. Tasks(remote, tasks') /\ \A u \in tasks' : u.by = "cycle" => u \in tasks
  BY <1>1 DEF Core, Sound, Tasks
<1> QED BY <1>1, <1>2, <1>3, <1>4, <1>5, TransferStep

(* The content is here, whoever asked for it. *)
LEMMA DownloadIn ==
    ASSUME Core, NEW t \in tasks, FinishDownload(t)
    PROVE  /\ disk' \in Disks(remote) /\ Rows(remote, rows')
           /\ \A p \in Path \ {t.path} : disk'[p].data \in {0, disk[p].data}
<1>1. /\ t.op \in {"Download", "DownloadUpdate"} /\ Live(t.id) /\ Ver(t.id) = t.ver
      /\ disk' = [WithParents(t.path) EXCEPT ![t.path] = File(remote[t.id].data, t.id)]
      /\ rows' = IF \E r \in rows : r.id = t.id /\ r.path # t.path THEN rows
                 ELSE {r \in OnlyIdentity(t.path, t.id) : ~(r.path = t.path /\ r.id = t.id)}
                      \cup {Row(t.path, t.id, remote[t.id].data, t.ver, "synced")}
  BY DEF FinishDownload
<1>2. t.path \in Path /\ t.path \notin Dirs /\ t.id \in Id /\ t.id \in Mark /\ Fits(remote, t.path, t.id) /\ t.ver \in Version
  <2>1. t.path \in Path /\ t.path \notin Dirs /\ t.ver \in Version /\ TaskIn(remote, t)
    BY TaskIs
  <2>2. t.id \in Id
    BY <1>1, <2>1 DEF TaskIn
  <2> QED BY <2>1, <2>2, PathIsSeq DEF TaskIn, Marks, Mark
<1>3. remote[t.id].data \in Nat /\ t.ver[1] = remote[t.id].data
  <2>1. remote \in Remotes
    BY DEF Core, Sound
  <2>2. remote[t.id].data \in Nat
    BY <1>1, <1>2, <2>1, LiveFits
  <2> QED BY <1>1, <2>2 DEF Ver
<1>4. WithParents(t.path) \in Disks(remote) /\ \A p \in Path : WithParents(t.path)[p].data \in {0, disk[p].data}
  BY <1>2, ParentsIn DEF Core, Sound
<1> DEFINE n == File(remote[t.id].data, t.id)
<1>5. n \in Node /\ n.id = t.id /\ disk' = [WithParents(t.path) EXCEPT ![t.path] = n]
  BY <1>1, <1>2, <1>3, NodesIn
<1> HIDE DEF n
<1>6. disk' \in Disks(remote)
  BY <1>2, <1>4, <1>5, PutOnDisk DEF Marks
<1>7. \A p \in Path \ {t.path} : disk'[p].data \in {0, disk[p].data}
  BY <1>4, <1>5 DEF Disks
<1>8. RowIn(remote, Row(t.path, t.id, remote[t.id].data, t.ver, "synced"))
  BY <1>2, <1>3, RowIsIn
<1>9. Rows(remote, rows')
  BY <1>1, <1>8 DEF Core, Sound, Rows, OnlyIdentity
<1> QED BY <1>6, <1>7, <1>9

LEMMA FinishDownloadKeeps == ASSUME Core, NEW t \in tasks, FinishDownload(t) PROVE Core'
<1>1. UNCHANGED <<remote, tree, cmd>> /\ tasks' = tasks \ {t} /\ t.op \in {"Download", "DownloadUpdate"}
  BY DEF FinishDownload, Quiet
<1>2. disk' \in Disks(remote) /\ Rows(remote, rows') /\ \A p \in Path \ {t.path} : disk'[p].data \in {0, disk[p].data}
  BY DownloadIn
<1>3. t.path \in Path /\ t.id \in Mark /\ t.ver \in Version /\ Marks(remote, t.path, t.id)
  BY TaskIs
<1>4. Tasks(remote, tasks') /\ \A u \in tasks' : u.by = "cycle" => u \in tasks
  BY <1>1 DEF Core, Sound, Tasks
<1>5. CASE t.by = "cycle"
  <2>1. Done(ActOf(t), "ok", t.id, t.ver)
    BY <1>5 DEF FinishDownload, Succeeds, ActOf, Act
  <2> QED BY <1>1, <1>2, <1>3, <1>4, <1>5, <2>1, TransferStep
<1>6. CASE t.by # "cycle"
  <2>1. cyc' = IF Settling /\ t.path \in cyc.leased THEN [cyc EXCEPT !.filled = @ \cup {t.path}] ELSE cyc
    BY <1>6 DEF FinishDownload, Settling
  <2>2. Awaited' = Awaited
    BY <1>1, <1>6 DEF Awaited
  <2>3. CASE Settling /\ t.path \in cyc.leased
    <3>1. cyc \in Late(remote) /\ cyc' = [cyc EXCEPT !.filled = @ \cup {t.path}]
      BY <2>1, <2>3, LeasedPaths
    <3>2. /\ cyc'.pc = cyc.pc /\ cyc'.acts = cyc.acts /\ cyc'.done = cyc.done /\ cyc'.leased = cyc.leased
          /\ cyc'.filled = cyc.filled \cup {t.path}
      BY <3>1 DEF Late
    <3>3. cyc' \in Late(remote)
      BY <1>3, <3>1, <3>2 DEF Late
    <3>4. Sound'
      BY <1>1, <1>2, <1>4, <3>3 DEF Core, Sound, Rows, Tasks, Cycles
    <3>5. OnePathInTree'
      BY <1>1 DEF Core, OnePathInTree
    <3>6. Disjoint' /\ Waiting' /\ Single'
      BY <1>1, <2>2, <2>3, <3>2 DEF Core, Order, Disjoint, Waiting, Single, Conflict, Settling
    <3>7. Resolved'
      <4> SUFFICES ASSUME NEW d \in cyc.done, Conflict(d), d.res = "ok"
                   PROVE  disk'[d.act.path].data \in {0, d.ver[1]} \/ d.act.path \in cyc'.filled
        BY <3>2 DEF Resolved, Conflict
      <4>1. d.act.path \in Path
        BY <3>1 DEF Late, ResultSet, ActSet
      <4>2. disk[d.act.path].data \in {0, d.ver[1]} \/ d.act.path \in cyc.filled
        BY <2>3 DEF Core, Order, Resolved
      <4>3. d.act.path # t.path => disk'[d.act.path].data \in {0, disk[d.act.path].data}
        BY <1>2, <4>1
      <4> QED BY <3>2, <4>2, <4>3
    <3> QED BY <3>4, <3>5, <3>6, <3>7 DEF Core, Order
  <2>4. CASE ~(Settling /\ t.path \in cyc.leased)
    <3>1. cyc' = cyc
      BY <2>1, <2>4
    <3>2. Sound'
      BY <1>1, <1>2, <1>4, <3>1 DEF Core, Sound, Rows, Tasks
    <3>3. OnePathInTree'
      BY <1>1 DEF Core, OnePathInTree
    <3>4. \A u \in tasks' : u.by = "cycle" => \E w \in Awaited : w.path = u.path
      BY <1>4 DEF Awaited
    <3>5. Settling => \A p \in cyc.leased : disk'[p].data \in {0, disk[p].data}
      BY <1>2, <2>4, LeasedPaths
    <3>6. Settling /\ cmd'.pc # "idle" => \A x \in cyc.leased, y \in cmd'.leased : ~Overlap(x, y)
      BY <1>1 DEF Core, Order, Disjoint
    <3>7. Order'
      BY <3>1, <3>4, <3>5, <3>6, OrderKept DEF Core
    <3> QED BY <3>2, <3>3, <3>7 DEF Core
  <2> QED BY <2>3, <2>4
<1> QED BY <1>5, <1>6

LEMMA GiveUpKeeps == ASSUME Core, NEW t \in tasks, GiveUp(t) PROVE Core'
<1>1. /\ UNCHANGED <<remote, disk, tree, rows, cmd>>
      /\ tasks' = IF t.made THEN (tasks \ {t}) \cup {[t EXCEPT !.by = "parked"]} ELSE tasks \ {t}
  BY DEF GiveUp, local, engine
<1>2. /\ TaskIn(remote, t) /\ t.path \in Path /\ t.id \in Mark /\ t.ver \in Version /\ Marks(remote, t.path, t.id)
      /\ t \in TaskSet
  BY TaskIs DEF TaskIn
<1> DEFINE u == [t EXCEPT !.by = "parked"]
<1>3. TaskIn(remote, u) /\ u.by = "parked"
  <2>1. u \in TaskSet /\ u.by = "parked" /\ u.op = t.op /\ u.path = t.path /\ u.id = t.id /\ u.ver = t.ver
        /\ u.snap = t.snap /\ u.made = t.made
    BY <1>2 DEF TaskSet
  <2> HIDE DEF u
  <2> QED BY <1>2, <2>1 DEF TaskIn, CarriesFile
<1> HIDE DEF u
<1>4. Tasks(remote, tasks') /\ \A x \in tasks' : x.by = "cycle" => x \in tasks
  BY <1>1, <1>3 DEF Core, Sound, Tasks, u
<1>5. CASE t.by = "cycle"
  <2>1. Done(ActOf(t), "defer", t.id, t.ver)
    BY <1>5 DEF GiveUp, Defers, ActOf, Act
  <2>2. disk' \in Disks(remote) /\ Rows(remote, rows') /\ \A p \in Path \ {t.path} : disk'[p].data \in {0, disk[p].data}
    BY <1>1 DEF Core, Sound, Rows
  <2> QED BY <1>1, <1>2, <1>4, <1>5, <2>1, <2>2, TransferStep
<1>6. CASE t.by # "cycle"
  <2>1. cyc' = cyc
    BY <1>6 DEF GiveUp
  <2> QED BY <1>1, <1>4, <2>1, TaskStep
<1> QED BY <1>5, <1>6

LEMMA VerifyUploadKeeps == ASSUME Core, NEW t \in tasks, VerifyUpload(t) PROVE Core'
<1>1. /\ cyc.pc = "scan" /\ t.made /\ UNCHANGED <<remote, cyc, cmd>> /\ tasks' = tasks \ {t}
      /\ disk' = [disk EXCEPT ![t.path].id = t.id] /\ rows' = UploadSettled(t)
      /\ tree' = TreePut(tree, t.id, t.path, t.ver)
  BY DEF VerifyUpload, Quiet
<1>2. Rows(remote, rows') /\ Fits(remote, t.path, t.id)
  BY <1>1, UploadSettledIn DEF Core
<1>3. t.path \in Path /\ t.path \notin Dirs /\ t.id \in Mark /\ t.ver \in Version /\ Marks(remote, t.path, t.id)
  BY TaskIs
<1>4. disk' \in Disks(remote)
  BY <1>1, <1>3 DEF Core, Sound, Disks, Node
<1>5. tree' \in Trees(remote) /\ OnePath(tree')
  BY <1>1, <1>3, TreePutIn DEF Core, Sound, OnePathInTree, OnePath
<1>6. Tasks(remote, tasks') /\ tasks' \subseteq tasks
  BY <1>1 DEF Core, Sound, Tasks
<1>7. cyc' \in Cycles(remote)
  BY <1>1 DEF Core, Sound
<1> QED BY <1>1, <1>2, <1>4, <1>5, <1>6, <1>7, EarlyStep

LEMMA AbandonUploadKeeps == ASSUME Core, NEW t \in tasks, AbandonUpload(t) PROVE Core'
<1>1. cyc.pc = "scan" /\ UNCHANGED <<remote, disk, tree, rows, cyc, cmd>> /\ tasks' = tasks \ {t}
  BY DEF AbandonUpload, Quiet, local, engine
<1>2. Tasks(remote, tasks') /\ \A u \in tasks' : u.by = "cycle" => u \in tasks
  BY <1>1 DEF Core, Sound, Tasks
<1> QED BY <1>1, <1>2, TaskStep

LEMMA TransfersKeep == ASSUME Core, Transfers PROVE Core'
BY SubmitKeeps, SettleUploadKeeps, FinishDownloadKeeps, GiveUpKeeps, VerifyUploadKeeps, AbandonUploadKeeps DEF Transfers
-----------------------------------------------------------------------------
(* The end of a cycle *)

(* What is in a result, for the tree. *)
LEMMA DoneIs ==
    ASSUME Core, Settling
    PROVE  /\ cyc \in Late(remote) /\ tree \in GoodTrees(remote)
           /\ \A d \in cyc.done : Answer(remote, d)
           /\ \A op : IsFiniteSet(Good(op)) /\ Good(op) \subseteq cyc.done
           /\ \A d \in Good("MoveInCloud") : d.id # NoId
<1>1. cyc \in Late(remote)
  BY LeasedPaths
<1>2. tree \in GoodTrees(remote)
  BY DEF Core, Sound, OnePathInTree, OnePath, GoodTrees
<1>3. \A d \in cyc.done : ResultIn(remote, d) /\ Answer(remote, d)
  BY <1>1 DEF Late, ResultIn, ResultSet, ActSet, Answer
<1>4. \A op : Good(op) \subseteq cyc.done
  BY DEF Good
<1>5. \A op : IsFiniteSet(Good(op))
  <2>1. IsFiniteSet(cyc.done)
    BY <1>1 DEF Late
  <2> QED BY <1>4, <2>1, FS_Subset
<1>6. \A d \in Good("MoveInCloud") : d.id # NoId
  BY <1>3, PathIsSeq DEF Good, ResultIn
<1> QED BY <1>1, <1>2, <1>3, <1>4, <1>5, <1>6

(* A cycle ends, and nobody waits for it. *)
LEMMA EndStep ==
    ASSUME Core, cyc' = Idle, UNCHANGED <<remote, disk, cmd>>, tree' \in Trees(remote), OnePath(tree'),
           Rows(remote, rows'), Tasks(remote, tasks'), \A t \in tasks' : t.by # "cycle"
    PROVE  Core'
<1>1. cyc' \in Cycles(remote) /\ cyc'.pc = "idle"
  BY DEF Cycles, Idle
<1>2. Sound'
  BY <1>1 DEF Core, Sound, Rows, Tasks
<1>3. OnePathInTree'
  BY DEF OnePathInTree, OnePath
<1> QED BY <1>1, <1>2, <1>3, OrderIdle DEF Core

LEMMA CommitCheckpointKeeps == ASSUME Core, CommitCheckpoint PROVE Core'
<1>1. /\ cyc.pc = "act" /\ cyc.acts = {} /\ Awaited = {} /\ UNCHANGED <<remote, disk, rows, tasks, cmd>>
  BY DEF CommitCheckpoint, local
<1>2. Settling /\ \A t \in tasks : t.by # "cycle"
  BY <1>1 DEF Settling, Awaited
<1>3. CASE tree' = Recovered.tree /\ Goto("settle")
  <2>1. cyc \in Late(remote) /\ Recovered.tree \in GoodTrees(remote)
    BY <1>2, DoneIs, RecoveredIn
  <2>2. tree' \in Trees(remote) /\ OnePath(tree')
    BY <1>3, <2>1 DEF GoodTrees
  <2>3. cyc' = [cyc EXCEPT !.pc = "settle"]
    BY <1>3 DEF Goto
  <2>4. /\ cyc'.pc = "settle" /\ cyc'.acts = cyc.acts /\ cyc'.done = cyc.done /\ cyc'.leased = cyc.leased
        /\ cyc'.filled = cyc.filled
    BY <2>1, <2>3 DEF Late
  <2>5. cyc' \in Late(remote)
    BY <2>1, <2>3, <2>4 DEF Late
  <2>6. Sound'
    BY <1>1, <2>2, <2>5 DEF Core, Sound, Rows, Tasks, Cycles
  <2>7. OnePathInTree'
    BY <2>2 DEF OnePathInTree, OnePath
  <2>8. Awaited' = {} /\ Settling'
    BY <1>1, <2>4 DEF Awaited, Settling
  <2>9. Order'
    BY <1>1, <1>2, <2>4, <2>8 DEF Core, Order, Disjoint, Waiting, Single, Resolved, Conflict
  <2> QED BY <2>6, <2>7, <2>9 DEF Core
<1>4. CASE cyc' = Idle /\ tree' = tree
  <2>1. tree' \in Trees(remote) /\ OnePath(tree') /\ Rows(remote, rows') /\ Tasks(remote, tasks')
    BY <1>1, <1>4 DEF Core, Sound, OnePathInTree, OnePath
  <2> QED BY <1>1, <1>2, <1>4, <2>1, EndStep
<1> QED BY <1>3, <1>4 DEF CommitCheckpoint

(* Part of a tree. *)
LEMMA PrunedIn ==
    ASSUME NEW rem, NEW t \in GoodTrees(rem), NEW S
    PROVE  [p \in Path |-> IF p \in S THEN NoEntry ELSE t[p]] \in GoodTrees(rem)
<1> DEFINE u == [p \in Path |-> IF p \in S THEN NoEntry ELSE t[p]]
<1>1. \A p \in Path : u[p] = t[p] \/ u[p] = NoEntry
  OBVIOUS
<1>2. u \in Trees(rem)
  BY <1>1, NoEntryIs DEF GoodTrees, Trees, Marks
<1> HIDE DEF u
<1>3. OnePath(u)
  BY <1>1, NoEntryIs DEF GoodTrees, OnePath, There
<1> QED BY <1>2, <1>3 DEF GoodTrees, u

LEMMA ApplyResultsKeeps == ASSUME Core, ApplyResults PROVE Core'
<1>1. cyc.pc = "settle" /\ cyc' = Idle /\ UNCHANGED <<remote, disk, tasks, cmd>> /\ Settling
  BY DEF ApplyResults, Settling
<1>2. Tasks(remote, tasks') /\ \A t \in tasks' : t.by # "cycle"
  BY <1>1, NobodyWaits DEF Core, Sound, Tasks
<1>3. CASE ~Settleable
  <2>1. UNCHANGED <<rows, tree>>
    BY <1>3 DEF ApplyResults
  <2>2. tree' \in Trees(remote) /\ OnePath(tree') /\ Rows(remote, rows')
    BY <2>1 DEF Core, Sound, Rows, OnePathInTree, OnePath
  <2> QED BY <1>1, <1>2, <2>2, EndStep
<1>4. CASE Settleable
  <2> DEFINE S == {p \in Path : \E f \in DeletedRoots : p = f \/ (f \in Dirs /\ There(tree[f]) /\ Under(p, f))}
             kept == [p \in Path |-> IF p \in S THEN NoEntry ELSE tree[p]]
             D == Made \cup (Good("Upload") \cup Good("Download") \cup Good("MoveInCloud"))
  <2>1. /\ rows' = FoldSet(LAMBDA d, rs : RowsAfter(rs, d), rows, cyc.done)
        /\ tree' = TreeWith([p \in Path |-> IF \E f \in DeletedRoots :
                             p = f \/ (f \in Dirs /\ There(tree[f]) /\ Under(p, f)) THEN NoEntry ELSE tree[p]], D)
    BY <1>4 DEF ApplyResults
  <2>2. kept = [p \in Path |-> IF \E f \in DeletedRoots :
                             p = f \/ (f \in Dirs /\ There(tree[f]) /\ Under(p, f)) THEN NoEntry ELSE tree[p]]
    OBVIOUS
  <2>3. tree' = TreeWith(kept, D)
    BY <2>1, <2>2
  <2>4. kept \in GoodTrees(remote)
    <3> HIDE DEF S
    <3> QED BY <1>1, DoneIs, PrunedIn
  <2>5. IsFiniteSet(D) /\ \A d \in D : Answer(remote, d)
    <3>1. IsFiniteSet(cyc.done) /\ \A d \in cyc.done : Answer(remote, d)
      BY <1>1, DoneIs DEF Late
    <3>2. D \subseteq cyc.done
      BY DEF Made, Good
    <3> HIDE DEF D
    <3> QED BY <3>1, <3>2, FS_Subset
  <2> HIDE DEF kept, D
  <2>6. tree' \in Trees(remote) /\ OnePath(tree')
    BY <2>3, <2>4, <2>5, TreeWithIn DEF GoodTrees
  <2>7. Sound /\ Resolved
    BY DEF Core, Order
  <2>8. Rows(remote, rows')
    BY <1>1, <1>4, <2>1, <2>7, RowsSettledIn
  <2> QED BY <1>1, <1>2, <2>6, <2>8, EndStep
<1> QED BY <1>3, <1>4

LEMMA CycleKeeps == ASSUME Core, Cycle PROVE Core'
BY BeginKeeps, RecoverSkipsKeeps, RecoverRenameKeeps, RecoverRekeyKeeps, PurgeTombstonesKeeps, ScanKeeps,
   PlanCycleKeeps, ExecuteKeeps, CommitCheckpointKeeps, ApplyResultsKeeps, Zenon DEF Cycle

LEMMA PostponeKeeps == ASSUME Core, Postpone PROVE Core'
<1>1. cyc' = Idle /\ UNCHANGED <<remote, disk, tree, rows, tasks, cmd>> /\ \A t \in tasks' : t.by # "cycle"
  BY DEF Postpone, local, engine, Awaited
<1>2. tree' \in Trees(remote) /\ OnePath(tree') /\ Rows(remote, rows') /\ Tasks(remote, tasks')
  BY <1>1 DEF Core, Sound, Rows, Tasks, OnePathInTree, OnePath
<1> QED BY <1>1, <1>2, EndStep

LEMMA CrashKeeps == ASSUME Core, Crash PROVE Core'
<1>1. /\ cyc' = Idle /\ cmd' = Idle /\ UNCHANGED <<remote, disk, tree, rows>>
      /\ tasks' = {[t EXCEPT !.by = "parked"] : t \in {t \in tasks : t.by # "user"}}
  BY DEF Crash, local
<1>2. ASSUME NEW t \in tasks PROVE TaskIn(remote, [t EXCEPT !.by = "parked"]) /\ [t EXCEPT !.by = "parked"].by = "parked"
  <2> DEFINE u == [t EXCEPT !.by = "parked"]
  <2>1. TaskIn(remote, t) /\ t \in TaskSet
    BY TaskIs DEF TaskIn
  <2>2. u \in TaskSet /\ u.by = "parked" /\ u.op = t.op /\ u.path = t.path /\ u.id = t.id /\ u.ver = t.ver
        /\ u.snap = t.snap /\ u.made = t.made
    BY <2>1 DEF TaskSet
  <2> HIDE DEF u
  <2>3. TaskIn(remote, u)
    BY <2>1, <2>2 DEF TaskIn, CarriesFile
  <2> QED BY <2>2, <2>3 DEF u
<1>3. Tasks(remote, tasks') /\ \A t \in tasks' : t.by # "cycle"
  BY <1>1, <1>2 DEF Tasks
<1>4. cyc' \in Cycles(remote) /\ cmd' \in Commands(remote) /\ cyc'.pc = "idle"
  BY <1>1 DEF Cycles, Commands, Idle
<1>5. Sound'
  BY <1>1, <1>3, <1>4 DEF Core, Sound, Rows, Tasks
<1>6. OnePathInTree'
  BY <1>1 DEF Core, OnePathInTree
<1> QED BY <1>3, <1>4, <1>5, <1>6, OrderIdle DEF Core

LEMMA ForgetRecentKeeps == ASSUME Core, ForgetRecent PROVE Core'
<1>1. UNCHANGED <<remote, disk, tree, rows, tasks, cyc, cmd>>
  BY DEF ForgetRecent, Quiet, local
<1>2. disk' \in Disks(remote) /\ (Settling => \A p \in cyc.leased : disk'[p].data \in {0, disk[p].data})
  BY <1>1 DEF Core, Sound
<1> QED BY <1>1, <1>2, DiskStep
-----------------------------------------------------------------------------
(* The commands of the window *)

LEMMA CommandStep ==
    ASSUME Core, UNCHANGED <<tasks, cyc>>, remote' \in Remotes, Grows(remote, remote'), disk' \in Disks(remote'),
           tree' \in Trees(remote'), OnePath(tree'), Rows(remote', rows'), cmd' \in Commands(remote'),
           Settling => \A p \in cyc.leased : disk'[p].data \in {0, disk[p].data},
           Settling /\ cmd'.pc # "idle" => \A x \in cyc.leased, y \in cmd'.leased : ~Overlap(x, y)
    PROVE  Core'
<1>1. Sound'
  BY SoundGrown DEF Core, Sound, Rows, Tasks
<1>2. OnePathInTree'
  BY DEF OnePathInTree, OnePath
<1>3. \A t \in tasks' : t.by = "cycle" => \E u \in Awaited : u.path = t.path
  BY DEF Awaited
<1>4. Order'
  BY <1>3, OrderKept DEF Core
<1> QED BY <1>1, <1>2, <1>4 DEF Core

(* Where the cloud and the tree stay. *)
LEMMA SameCloud ==
    ASSUME Core, UNCHANGED <<remote, tree>>
    PROVE  /\ remote' \in Remotes /\ Grows(remote, remote') /\ tree' \in Trees(remote') /\ OnePath(tree')
           /\ tree' \in GoodTrees(remote')
BY DEF Core, Sound, Grows, OnePathInTree, OnePath, GoodTrees

LEMMA KnownIs ==
    ASSUME Core, NEW i \in Id, NEW r \in Known(i)
    PROVE  r \in rows /\ r.id = i /\ r.path \in Path /\ Fits(remote, r.path, i)
BY DEF Known, RowsOf, Core, Sound, Rows, RowIn, RowSet

LEMMA AppDeleteKeeps == ASSUME Core, NEW i \in Id, AppDelete(i) PROVE Core'
<1> DEFINE S == {p \in Path : \E f \in TreePaths(tree, i) : Under(p, f)}
           gone == [p \in Path |-> IF p \in S THEN NoEntry ELSE tree[p]]
<1>1. UNCHANGED <<disk, rows, tasks, cyc>> /\ remote' = Deleted(remote[i].path)
  BY DEF AppDelete, local
<1>2. tree' = gone
  BY DEF AppDelete
<1>3. PICK r \in Known(i) : ~Locked(r.path) /\ cmd' = [pc |-> "deleted", id |-> i, leased |-> {r.path}, path |-> r.path]
  BY DEF AppDelete
<1>4. remote' \in Remotes /\ Grows(remote, remote')
  BY <1>1, DeletedIn DEF Core, Sound
<1>5. tree' \in Trees(remote') /\ OnePath(tree')
  <2>1. tree \in GoodTrees(remote')
    BY <1>4, SoundGrown DEF Core, OnePathInTree, OnePath, GoodTrees
  <2> HIDE DEF S
  <2> QED BY <1>2, <2>1, PrunedIn DEF GoodTrees
<1>6. disk' \in Disks(remote') /\ Rows(remote', rows')
  BY <1>1, <1>4, SoundGrown DEF Core, Rows
<1>7. cmd' \in Commands(remote') /\ cmd'.leased = {r.path}
  BY <1>3, KnownIs DEF Commands
<1>8. Settling => \A x \in cyc.leased : ~Overlap(x, r.path)
  BY <1>3, LeaseHolds
<1>9. Settling => \A p \in cyc.leased : disk'[p].data \in {0, disk[p].data}
  BY <1>1
<1> QED BY <1>1, <1>4, <1>5, <1>6, <1>7, <1>8, <1>9, CommandStep

LEMMA AppDeleteHereKeeps == ASSUME Core, AppDeleteHere PROVE Core'
<1>1. cmd.pc = "deleted" /\ UNCHANGED <<remote, tree, rows, tasks, cyc>>
  BY DEF AppDeleteHere, engine
<1>2. cmd \in [pc : {"deleted", "bury"}, id : Id, leased : SUBSET Path, path : Path]
  BY <1>1, CommandShape DEF Core, Sound
<1>3. /\ remote' \in Remotes /\ Grows(remote, remote') /\ tree' \in Trees(remote') /\ OnePath(tree')
      /\ Rows(remote', rows')
  BY <1>1, SameCloud DEF Core, Sound, Rows
<1>4. CASE cmd' = Idle /\ disk' = disk
  <2>1. cmd' \in Commands(remote') /\ cmd'.pc = "idle" /\ disk' \in Disks(remote')
    BY <1>1, <1>4 DEF Commands, Idle, Core, Sound
  <2> QED BY <1>1, <1>3, <1>4, <2>1, CommandStep
<1>5. CASE /\ disk' = [q \in Path |-> IF Under(q, cmd.path) THEN Absent ELSE disk[q]]
           /\ cmd' = [cmd EXCEPT !.pc = "bury"]
  <2> DEFINE S == {q \in Path : Under(q, cmd.path)}
  <2>1. disk' = [q \in Path |-> IF q \in S THEN Absent ELSE disk[q]]
    BY <1>5
  <2>2. disk' \in Disks(remote')
    <3> HIDE DEF S
    <3> QED BY <1>1, <2>1, ClearedDisk DEF Core, Sound
  <2>3. cmd' \in Commands(remote') /\ cmd'.leased = cmd.leased
    BY <1>2, <1>5 DEF Commands
  <2>4. Settling => \A p \in cyc.leased : disk'[p].data \in {0, disk[p].data}
    BY <1>5, LeasedPaths, NodesIn
  <2>5. Settling /\ cmd'.pc # "idle" => \A x \in cyc.leased, y \in cmd'.leased : ~Overlap(x, y)
    BY <1>1, <2>3 DEF Core, Order, Disjoint
  <2> QED BY <1>1, <1>3, <2>2, <2>3, <2>4, <2>5, CommandStep
<1> QED BY <1>4, <1>5 DEF AppDeleteHere

LEMMA AppBuryKeeps == ASSUME Core, AppBury PROVE Core'
<1>1. UNCHANGED <<remote, disk, tree, tasks, cyc>> /\ cmd' = Idle
  BY DEF AppBury, local
<1>2. \A x \in rows' : x \in rows \/ \E r \in rows : x = [r EXCEPT !.status = "deleted"]
  BY DEF AppBury
<1>3. Rows(remote, rows')
  <2>1. Rows(remote, rows)
    BY DEF Core, Sound
  <2>2. \A r \in rows : RowIn(remote, [r EXCEPT !.status = "deleted"])
    BY <2>1, RestatedIn DEF Rows
  <2> QED BY <1>2, <2>1, <2>2 DEF Rows
<1>4. cmd' \in Commands(remote') /\ cmd'.pc = "idle" /\ disk' \in Disks(remote') /\ Rows(remote', rows')
  BY <1>1, <1>3 DEF Commands, Idle, Core, Sound
<1>5. Settling => \A p \in cyc.leased : disk'[p].data \in {0, disk[p].data}
  BY <1>1
<1> QED BY <1>1, <1>4, <1>5, SameCloud, CommandStep

LEMMA AppMoveKeeps == ASSUME Core, NEW i \in Id, NEW q \in Path, AppMove(i, q) PROVE Core'
<1> DEFINE ver == <<remote[i].data, remote[i].k + 1>>
           old == remote[i].path
           data == remote[i].data
<1>1. UNCHANGED <<tree, rows, tasks, cyc>> /\ Live(i)
  BY DEF AppMove, engine
<1>2. PICK r \in Known(i), to \in Path :
        /\ ~Locked(r.path) /\ ~Locked(q) /\ (r.path \in Dirs <=> q \in Dirs)
        /\ disk' = IF Here(disk[r.path]) THEN [disk EXCEPT ![r.path].id = i] ELSE disk
        /\ (to \in Dirs <=> q \in Dirs) /\ ~Under(to, old)
        /\ remote' = [n \in Id |->
                IF n = i THEN Write(i, to, data)
                ELSE IF Live(n) /\ Under(remote[n].path, remote[i].path)
                THEN [remote[n] EXCEPT !.path = Rebase(@, remote[i].path, to)] ELSE remote[n]]
        /\ cmd' = [pc |-> "moved", id |-> i, leased |-> {r.path, q}, old |-> r.path, path |-> q, ver |-> ver]
  BY Zenon DEF AppMove
<1>3. r \in rows /\ r.path \in Path /\ Fits(remote, r.path, i)
  BY <1>2, KnownIs
<1>4. Fits(remote, old, i) /\ old \in Path /\ data \in Nat /\ remote[i].k \in Nat
  BY <1>1, LiveFits DEF Core, Sound
<1>5. SameKind(old, to) /\ ~StrictlyUnder(to, old)
  BY <1>2, <1>3, <1>4 DEF Fits, SameKind, StrictlyUnder
<1>6. ver \in Version
  BY <1>4, VersionIs
<1>7. remote' \in Remotes /\ Grows(remote, remote')
  <2>1. remote \in Remotes /\ SameKind(remote[i].path, to) /\ ~StrictlyUnder(to, remote[i].path) /\ data \in Nat
    BY <1>4, <1>5 DEF Core, Sound
  <2> HIDE DEF data
  <2> QED BY <1>1, <1>2, <2>1, MovedRemoteIn
<1>8. Fits(remote', r.path, i) /\ Fits(remote', q, i)
  <2>1. Fits(remote, q, i)
    BY <1>2, <1>3 DEF Fits
  <2> QED BY <1>3, <1>7, <2>1, FitsGrown
<1>9. disk' \in Disks(remote') /\ \A p \in Path : disk'[p].data = disk[p].data
  <2>1. disk \in Disks(remote')
    BY <1>7, SoundGrown DEF Core
  <2>2. CASE Here(disk[r.path])
    <3> DEFINE n == [disk[r.path] EXCEPT !.id = i]
    <3>1. disk' = [disk EXCEPT ![r.path] = n]
      BY <1>2, <2>2
    <3>2. n \in Node /\ n.id = i /\ n.kind = disk[r.path].kind /\ n.data = disk[r.path].data
      BY <1>3, <2>1 DEF Disks, Node, Mark
    <3> HIDE DEF n
    <3>3. Marks(remote', r.path, n.id) /\ (n.kind = "file" => r.path \notin Dirs)
      BY <1>3, <1>8, <2>1, <3>2 DEF Marks, Disks
    <3> QED BY <1>3, <2>1, <3>1, <3>2, <3>3, PutOnDisk DEF Disks
  <2>3. CASE ~Here(disk[r.path])
    BY <1>2, <2>1, <2>3
  <2> QED BY <2>2, <2>3
<1>10. tree' \in Trees(remote') /\ OnePath(tree') /\ Rows(remote', rows')
  BY <1>1, <1>7, SoundGrown DEF Core, OnePathInTree, OnePath, Rows
<1> HIDE DEF ver
<1>11. cmd' \in Commands(remote') /\ cmd'.leased = {r.path, q}
  BY <1>2, <1>3, <1>6, <1>8 DEF Commands
<1>12. Settling => \A x \in cyc.leased : ~Overlap(x, r.path) /\ ~Overlap(x, q)
  BY <1>2, LeaseHolds
<1>13. Settling => \A p \in cyc.leased : disk'[p].data \in {0, disk[p].data}
  BY <1>9, LeasedPaths
<1> QED BY <1>1, <1>7, <1>9, <1>10, <1>11, <1>12, <1>13, CommandStep

LEMMA AppMoveHereKeeps == ASSUME Core, AppMoveHere PROVE Core'
<1>1. cmd.pc = "moved" /\ UNCHANGED <<remote, tree, rows, tasks, cyc>>
  BY DEF AppMoveHere, engine
<1>2. /\ cmd \in [pc : {"moved", "rekey"}, id : Id, leased : SUBSET Path, old : Path, path : Path, ver : Version]
      /\ cmd.path \in cmd.leased /\ Fits(remote, cmd.path, cmd.id)
  BY <1>1, CommandShape DEF Core, Sound
<1>3. /\ remote' \in Remotes /\ Grows(remote, remote') /\ tree' \in Trees(remote') /\ OnePath(tree')
      /\ Rows(remote', rows')
  BY <1>1, SameCloud DEF Core, Sound, Rows
<1>4. CASE cmd' = Idle /\ disk' = disk
  <2>1. cmd' \in Commands(remote') /\ cmd'.pc = "idle" /\ disk' \in Disks(remote')
    BY <1>1, <1>4 DEF Commands, Idle, Core, Sound
  <2> QED BY <1>1, <1>3, <1>4, <2>1, CommandStep
<1>5. ASSUME NEW r \in Known(cmd.id), MayMove(cmd.id, r.path, cmd.path),
             MoveOnDisk(r.path, cmd.path) \/ disk' = WithParents(cmd.path),
             cmd' = [cmd EXCEPT !.pc = "rekey", !.old = r.path]
      PROVE  Core'
  <2>1. r.path \in Path /\ Fits(remote, r.path, cmd.id)
    BY <1>2, KnownIs
  <2>2. SameKind(r.path, cmd.path) /\ ~Under(cmd.path, r.path) /\ cmd.path \in Path
    BY <1>2, <1>5, <2>1 DEF SameKind, Fits, MayMove
  <2>3. disk \in Disks(remote)
    BY DEF Core, Sound
  <2>4. disk' \in Disks(remote) /\ \A x \in Path : ~Under(x, cmd.path) => disk'[x].data \in {0, disk[x].data}
    <3>1. CASE MoveOnDisk(r.path, cmd.path)
      BY <2>2, <2>3, <3>1, MoveOnDiskIn
    <3>2. CASE disk' = WithParents(cmd.path)
      BY <2>2, <2>3, <3>2, ParentsIn
    <3> QED BY <1>5, <3>1, <3>2
  <2>5. cmd' \in Commands(remote') /\ cmd'.leased = cmd.leased
    <3>1. /\ cmd' \in [pc : {"moved", "rekey"}, id : Id, leased : SUBSET Path, old : Path, path : Path, ver : Version]
          /\ cmd'.leased = cmd.leased /\ cmd'.path = cmd.path /\ cmd'.id = cmd.id /\ cmd'.old = r.path
      BY <1>2, <1>5, <2>1
    <3> QED BY <1>1, <1>2, <2>1, <2>2, <3>1 DEF Commands
  <2>6. Settling => \A x \in cyc.leased, y \in cmd.leased : ~Overlap(x, y)
    BY <1>1 DEF Core, Order, Disjoint
  <2>7. Settling => \A x \in cyc.leased : disk'[x].data \in {0, disk[x].data}
    BY <1>2, <2>4, <2>6, LeasedPaths DEF Overlap
  <2> QED BY <1>1, <1>3, <2>4, <2>5, <2>6, <2>7, CommandStep
<1> QED BY <1>4, <1>5 DEF AppMoveHere

LEMMA AppRekeyKeeps == ASSUME Core, AppRekey PROVE Core'
<1> DEFINE old == cmd.old
           new == cmd.path
           sub == Subtree(old)
           here == [p \in Path |-> IF Under(p, old) /\ tree[p].id = cmd.id THEN [id |-> cmd.id, ver |-> cmd.ver] ELSE tree[p]]
<1>1. UNCHANGED <<remote, disk, tasks, cyc>> /\ cmd' = Idle /\ cmd.pc = "rekey"
  BY DEF AppRekey, local
<1>2. /\ rows' = (rows \ sub) \cup Rekeyed(sub, RowsOf(sub, cmd.id), old, new, cmd.ver)
      /\ tree' = TreeRekeyed(here, old, new)
  BY DEF AppRekey
<1>3. SameKind(old, new) /\ ~Under(new, old) /\ cmd.ver \in Version /\ cmd.id \in Id
  BY <1>1, CommandShape DEF Core, Sound, Fits, SameKind
<1>4. Rows(remote, sub) /\ \A r \in sub : Under(r.path, old)
  BY DEF Subtree, Core, Sound, Rows
<1>5. here \in Trees(remote) /\ OnePath(here)
  <2>1. \A p \in Path : here[p] \in Entry /\ here[p].id = tree[p].id
    BY <1>3 DEF Core, Sound, Trees, Entry, Mark
  <2>2. here = [p \in Path |-> here[p]]
    OBVIOUS
  <2> HIDE DEF here
  <2>3. here \in Trees(remote)
    BY <2>1, <2>2 DEF Core, Sound, Trees
  <2>4. OnePath(here)
    BY <2>1 DEF Core, OnePathInTree, OnePath, There
  <2> QED BY <2>3, <2>4
<1> HIDE DEF here, sub, old, new
<1>6. tree' \in Trees(remote) /\ OnePath(tree')
  BY <1>2, <1>3, <1>5, TreeRekeyedIn
<1>7. Rows(remote, Rekeyed(sub, RowsOf(sub, cmd.id), old, new, cmd.ver))
  BY <1>3, <1>4, RekeyedIn
<1>8. Rows(remote, rows')
  BY <1>2, <1>7 DEF Core, Sound, Rows
<1>9. cmd' \in Commands(remote') /\ cmd'.pc = "idle" /\ disk' \in Disks(remote') /\ remote' \in Remotes /\ Grows(remote, remote')
  BY <1>1 DEF Commands, Idle, Core, Sound, Grows
<1>10. Settling => \A p \in cyc.leased : disk'[p].data \in {0, disk[p].data}
  BY <1>1
<1> QED BY <1>1, <1>6, <1>8, <1>9, <1>10, CommandStep

LEMMA AppFailsKeeps == ASSUME Core, AppFails PROVE Core'
<1>1. UNCHANGED <<remote, disk, tree, rows, tasks, cyc>> /\ cmd' = Idle
  BY DEF AppFails, local, engine
<1>2. cmd' \in Commands(remote') /\ cmd'.pc = "idle" /\ disk' \in Disks(remote') /\ Rows(remote', rows')
  BY <1>1 DEF Commands, Idle, Core, Sound, Rows
<1>3. Settling => \A p \in cyc.leased : disk'[p].data \in {0, disk[p].data}
  BY <1>1
<1> QED BY <1>1, <1>2, <1>3, SameCloud, CommandStep

LEMMA AskedKeeps == ASSUME Core, Asked PROVE Core'
BY AppDeleteKeeps, AppMoveKeeps DEF Asked

LEMMA CommandKeeps == ASSUME Core, Command PROVE Core'
BY AppDeleteHereKeeps, AppBuryKeeps, AppMoveHereKeeps, AppRekeyKeeps, AppFailsKeeps DEF Command
-----------------------------------------------------------------------------
(* The theorems *)

LEMMA InitIsInv == ASSUME Init PROVE Inv
<1>1. PICK i \in Id, j \in Id : i # j /\ Start(i, j)
  <2> DEFINE x == CHOOSE i \in Id : TRUE
             y == CHOOSE j \in Id \ {x} : TRUE
  <2>1. Id # {}
    BY ReconciliationAssumption, FS_EmptySet
  <2>2. x \in Id
    BY <2>1
  <2>3. Id # {x}
    <3>1. Cardinality({x}) = 1
      BY FS_Singleton
    <3> QED BY <3>1, ReconciliationAssumption
  <2>4. \E n : n \in Id \ {x}
    BY <2>2, <2>3
  <2>5. y \in Id \ {x}
    BY <2>4
  <2>6. Start(x, y)
    BY DEF Init
  <2> HIDE DEF x, y
  <2> QED BY <2>2, <2>5, <2>6
<1>2. PICK hydrated \in BOOLEAN, f \in Dirs, p \in Path \ Dirs :
        /\ remote = [n \in Id |-> CASE n = i -> [path |-> f, data |-> 0, k |-> 1, folder |-> TRUE]
                                    [] n = j -> [path |-> p, data |-> 1, k |-> 1, folder |-> FALSE]
                                    [] OTHER -> Unused]
        /\ disk = [q \in Path |-> CASE q = f -> Directory(i)
                                    [] q = p -> File(IF hydrated THEN 1 ELSE 0, j)
                                    [] OTHER -> Absent]
        /\ rows = {Row(f, i, 0, <<0, 1>>, "synced"),
                   IF hydrated THEN Row(p, j, 1, <<1, 1>>, "synced")
                               ELSE Row(p, j, 0, <<1, 1>>, "cloud_only")}
  BY <1>1 DEF Start
<1>0. tree = Image /\ tasks = {} /\ cyc = Idle /\ cmd = Idle /\ ops = 0
  BY DEF Init
<1>3. f \in Path /\ p \in Path /\ f # p /\ f \in Dirs /\ p \notin Dirs
  BY PathIsSeq
<1>4. /\ remote[i] = [path |-> f, data |-> 0, k |-> 1, folder |-> TRUE]
      /\ remote[j] = [path |-> p, data |-> 1, k |-> 1, folder |-> FALSE]
      /\ \A n \in Id \ {i, j} : remote[n] = Unused
      /\ DOMAIN remote = Id /\ remote = [n \in Id |-> remote[n]]
  BY <1>1, <1>2
<1>5. Unused \in Object /\ Unused.path = <<>>
  BY DEF Unused, Object
<1>6. Fits(remote, f, i) /\ Fits(remote, p, j)
  <2>1. remote[i].k = 1 /\ remote[i].folder = TRUE /\ remote[j].k = 1 /\ remote[j].folder = FALSE
    BY <1>4
  <2> QED BY <1>1, <1>3, <2>1 DEF Fits
<1>7. remote \in Remotes
  <2>1. \A n \in Id : remote[n] \in Object
    <3>1. remote[i] \in Object /\ remote[j] \in Object
      BY <1>3, <1>4 DEF Object
    <3> QED BY <1>4, <1>5, <3>1
  <2>2. \A n \in Id : remote[n].path # <<>> => Fits(remote, remote[n].path, n)
    BY <1>1, <1>4, <1>5, <1>6
  <2> QED BY <1>4, <2>1, <2>2 DEF Remotes
<1>8. disk \in Disks(remote)
  <2> DEFINE c == IF hydrated THEN 1 ELSE 0
  <2>1. c \in Nat /\ i \in Mark /\ j \in Mark
    BY <1>1 DEF Mark
  <2>2. /\ disk[f] = Directory(i) /\ disk[p] = File(c, j) /\ \A q \in Path \ {f, p} : disk[q] = Absent
        /\ disk = [q \in Path |-> disk[q]]
    BY <1>2, <1>3
  <2> HIDE DEF c
  <2>3. \A q \in Path : disk[q] \in Node /\ Marks(remote, q, disk[q].id) /\ (disk[q].kind = "file" => q \notin Dirs)
    BY <1>3, <1>6, <2>1, <2>2, NodesIn DEF Marks
  <2> QED BY <2>2, <2>3 DEF Disks
<1>9. tree \in Trees(remote) /\ OnePathInTree
  BY <1>0, <1>7, ImageIn DEF OnePathInTree, OnePath
<1>10. Rows(remote, rows)
  <2>1. <<0, 1>> \in Version /\ <<1, 1>> \in Version /\ <<1, 1>>[1] = 1
    BY VersionIs
  <2>2. RowIn(remote, Row(f, i, 0, <<0, 1>>, "synced"))
    BY <1>6, <2>1, RowIsIn
  <2>3. RowIn(remote, Row(p, j, 1, <<1, 1>>, "synced"))
    BY <1>3, <1>6, <2>1, RowIsIn
  <2>4. RowIn(remote, Row(p, j, 0, <<1, 1>>, "cloud_only"))
    BY <1>3, <1>6, <2>1, RowIsIn
  <2> QED BY <1>2, <2>2, <2>3, <2>4 DEF Rows
<1>11. Sound
  BY <1>0, <1>7, <1>8, <1>9, <1>10 DEF Sound, Tasks, Cycles, Commands
<1>12. Order
  BY <1>0 DEF Order, Disjoint, Waiting, Single, Resolved, Settling, Awaited, Idle
<1> QED BY <1>0, <1>9, <1>11, <1>12 DEF Inv, Core

(* The bound only counts. *)
LEMMA OpsCount == ASSUME Next PROVE ops' \in {ops, ops + 1}
<1>1. ASSUME User \/ Others \/ Asked PROVE ops' = ops + 1
  <2>1. User => ops' = ops + 1
    BY DEF User, UserCreate, UserEdit, UserDelete, UserOpen, UserRename, UserCopy, Operate
  <2>2. Others => ops' = ops + 1
    BY DEF Others, RemoteEdit, RemoteDelete, RemoteMove, RemoteCreate, Operate
  <2>3. Asked => ops' = ops + 1
    BY DEF Asked, AppDelete, AppMove, Operate
  <2> QED BY <1>1, <2>1, <2>2, <2>3
<1>2. ASSUME Cycle PROVE ops' = ops
  <2>1. Begin \/ RecoverSkips \/ RecoverRename \/ RecoverRekey \/ PurgeTombstones \/ Scan \/ PlanCycle => ops' = ops
    BY ZenonT(60) DEF Begin, RecoverSkips, RecoverRename, RecoverRekey, PurgeTombstones, Scan, PlanCycle, Quiet
  <2>2. CommitCheckpoint \/ ApplyResults => ops' = ops
    BY DEF CommitCheckpoint, ApplyResults
  <2>3. ASSUME NEW a, Execute(a) PROVE ops' = ops
    <3>1. ActionFails(a) \/ DoCreatePlaceholder(a) \/ DoMakeDirectory(a) \/ DoCreateFolder(a) \/ DoMoveInCloud(a)
            => ops' = ops
      BY DEF ActionFails, DoCreatePlaceholder, DoMakeDirectory, DoCreateFolder, DoMoveInCloud, Steady
    <3>2. DoDeleteFromCloud(a) \/ DoDeleteFromLocal(a) \/ ConflictCopyHere(a) \/ ConflictCopyThere(a) => ops' = ops
      BY DEF DoDeleteFromCloud, DoDeleteFromLocal, ConflictCopyHere, ConflictCopyThere, Steady
    <3>3. ConflictDownload(a) \/ DoBackup(a) \/ StartTransfer(a) => ops' = ops
      BY DEF ConflictDownload, DoBackup, StartTransfer, Steady
    <3>4. ConflictUpload(a) => ops' = ops
      BY ZenonT(30) DEF ConflictUpload
    <3> QED BY <2>3, <3>1, <3>2, <3>3, <3>4 DEF Execute
  <2> QED BY <1>2, <2>1, <2>2, <2>3, ZenonT(60) DEF Cycle
<1>3. ASSUME Transfers PROVE ops' = ops
  BY <1>3, ZenonT(60) DEF Transfers, Submit, SettleUpload, FinishDownload, GiveUp, VerifyUpload, AbandonUpload, Quiet
<1>4. ASSUME Command PROVE ops' = ops
  BY <1>4, ZenonT(60) DEF Command, AppDeleteHere, AppBury, AppMoveHere, AppRekey, AppFails
<1>5. ASSUME ForgetRecent \/ Postpone \/ Crash PROVE ops' = ops
  BY <1>5 DEF ForgetRecent, Postpone, Crash, Quiet
<1> QED BY <1>1, <1>2, <1>3, <1>4, <1>5 DEF Next

LEMMA NextKeeps == ASSUME Inv, [Next]_vars PROVE Inv'
<1>1. Core
  BY DEF Inv
<1>2. CASE Next
  <2>1. Core'
    BY <1>1, <1>2, UserKeeps, OthersKeep, AskedKeeps, CycleKeeps, TransfersKeep, CommandKeeps, ForgetRecentKeeps,
       PostponeKeeps, CrashKeeps DEF Next
  <2>2. ops' \in Nat
    BY <1>2, OpsCount DEF Inv
  <2> QED BY <2>1, <2>2 DEF Inv
<1>3. CASE UNCHANGED vars
  BY <1>3 DEF vars, local, engine, ghosts, Inv, Core, Sound, OnePathInTree, Order, Disjoint, Waiting, Single, Resolved,
     Settling, Awaited, Conflict
<1> QED BY <1>2, <1>3

(* Whatever the user, other clients, commands, failures and crashes do        *)
(* between the steps of a cycle, the variables hold what they should, and     *)
(* the order of the cycle's work is kept: nothing is planned, under way and   *)
(* settled at the same path, no command moves what a cycle settles, and what  *)
(* a conflict left at its path is there when the row takes its content.       *)
THEOREM InvHolds == Spec => []Inv
<1>1. Init => Inv
  BY InitIsInv
<1>2. Inv /\ [Next]_vars => Inv'
  BY NextKeeps
<1> QED BY <1>1, <1>2, PTL DEF Spec

(* No identity is at two paths of the tree: TreePut, TreeRekeyed and the      *)
(* checkpoint of moves take it from where it was before.                      *)
THEOREM TreeHasOnePath == Spec => []OnePathInTree
<1>1. Inv => OnePathInTree
  BY DEF Inv, Core
<1> QED BY <1>1, InvHolds, PTL

(* Every row that claims a content and a version has those of one another.    *)
(* This needs all of Inv: the content is read from the disk long after the    *)
(* version was answered, in the settlement of a conflict and in a move.       *)
THEOREM BaselinesAreTruthful == Spec => []BaselineTruthful
<1>1. Inv => BaselineTruthful
  BY DEF Inv, Core, Sound, Rows, RowIn, Truthful, BaselineTruthful
<1> QED BY <1>1, InvHolds, PTL
=============================================================================
