------------------------- MODULE VirtualDriveProofs -------------------------
(***************************************************************************)
(* What VirtualDrive promises, for any requests, handles and names, and    *)
(* any bounds.  Inv, with its parts:                                       *)
(*   Types, Places   what a request holds, given where it is;              *)
(*   Namespace       who has the namespace to itself;                      *)
(*   Leases          two leases of which one is exclusive lie apart;       *)
(*   Single, Stands  an object has one path, a placeholder is a file that  *)
(*                   carries the fileId;                                   *)
(*   Handles, Known  a handle with a lease, and a request that has checked *)
(*                   a path or an object, still has the inode for it; while*)
(*                   a rename has moved the files and not told the table,  *)
(*                   that is what the table will say (Following).          *)
(* A step takes care of its own request and handle; what it leaves to the  *)
(* others is Calm, and lemma Keeps draws the conclusion once.              *)
(***************************************************************************)
EXTENDS VirtualDrive, SequenceTheorems, WellFoundedInduction, TLAPS

Names == Name \cup {"no", "such", "path"}
Paths == Seq(Names)

(* The table, as a map of paths over any names. *)
Table(t) ==
    /\ DOMAIN t = {"next", "byPath", "byInode"}
    /\ t.next \in Nat \ {0}
    /\ DOMAIN t.byPath \subseteq Paths
    /\ Exact(t)

(* Requests *)
OpenArgs == [ino : Nat, wr : BOOLEAN, trunc : BOOLEAN]
ReadArgs == [h : Handle, ino : Nat]
ChildArgs == [ino : Nat, name : Name, dir : BOOLEAN]
RenameArgs == [ino : Nat, name : Name, ino2 : Nat, name2 : Name]
SetAttrArgs == [ino : Nat, size : {"zero", "some", "keep"}]
Args == OpenArgs \cup ReadArgs \cup ChildArgs \cup RenameArgs \cup SetAttrArgs \cup {<<>>}
Op == {"open", "read", "lookup", "make", "remove", "rename", "setattr"}
PC == {"ns", "load", "shared", "renew", "excl", "fill", "insert", "promote", "dest", "remap"}
Calls ==
    [op : Op, pc : PC, ns : {"none", "read", "write"}, lease : {"none", "shared", "excl"},
     on : SUBSET Paths, args : Args, path : Paths, dest : Paths, want : 0 .. MaxNodes,
     wantDest : 0 .. MaxNodes, todo : SUBSET Nat, then : PC \cup {""}, load : Paths]

OpenFile ==
    [open : {TRUE}, ino : Nat, node : 0 .. MaxNodes, wr : BOOLEAN,
     lease : {"none", "shared", "excl"}, path : Paths]

Types ==
    /\ tree \in [Path -> 0 .. MaxNodes]
    /\ node \in [1 .. MaxNodes -> Node]
    /\ Table(inodes)
    /\ handles \in [Handle -> OpenFile \cup {Closed}]
    /\ req \in [Request -> Calls \cup {Idle}]
    /\ task \in Path \cup {NoPath}
    /\ calls \in Nat

(* What a request holds and knows where it is. *)
Place(q) ==
    /\ q.op = "make" => q.args \in ChildArgs
    /\ q.op = "remove" => q.args \in ChildArgs
    /\ q.op = "rename" => q.args \in RenameArgs
    /\ q.op = "setattr" => q.args \in SetAttrArgs
    /\ q.pc = "remap" => q.op = "rename" /\ q.ns = "write"
    /\ q.op \in {"make", "remove"} /\ q.pc # "ns" => q.ns = "write" /\ q.path \in Path
    /\ q.op = "rename" /\ q.pc # "ns" =>
          q.ns = "write" /\ q.path \in Path /\ q.dest \in Path /\ q.path # q.dest
    /\ q.lease = "excl" <=> q.pc = "remap"
    /\ q.lease = "excl" => q.on = {q.path, q.dest}
    /\ q.op = "open" =>
          /\ q.args \in OpenArgs
          /\ q.pc \in {"ns", "shared", "load", "renew", "excl"}
          /\ q.pc = "ns" => q.ns = "none"
          /\ q.pc \in {"ns", "shared", "excl"} => q.lease = "none"
          /\ q.pc = "shared" => q.ns = "read"
          /\ q.pc \in {"load", "renew"} => q.lease = "shared" /\ q.on = {q.path} /\ q.path \in Path
          /\ q.pc = "load" => q.then = "renew" /\ q.load = q.path
          /\ q.pc = "excl" => q.want # None
    /\ q.op = "read" =>
          /\ q.args \in ReadArgs
          /\ q.pc \in {"ns", "load", "renew", "fill"}
          /\ q.pc = "load" => q.then = "renew" /\ q.load = q.path
          /\ q.lease = "none"
    /\ q.op \notin {"open", "read"} /\ q.pc = "load" => q.then \in {"promote", "dest"}
    /\ q.pc = "dest" => q.op = "rename"
    /\ q.pc = "load" /\ q.then = "dest" => q.op = "rename"
Places == \A r \in Request : Place(req[r])

(* A request with the namespace to itself has it to itself. *)
Namespace == \A r, s \in Request : r # s /\ req[r].ns = "write" => req[s].ns = "none"

(* What a path lease excludes: two holders, one of them alone. *)
Clash(l, m) == "excl" \in {l, m} /\ "none" \notin {l, m}
Apart(S, T) == \A p \in S, q \in T : ~Overlap(p, q)
Leases ==
    /\ \A r, s \in Request :
          r # s /\ Clash(req[r].lease, req[s].lease) => Apart(req[r].on, req[s].on)
    /\ \A r \in Request, h \in OpenHandles :
          Clash(req[r].lease, handles[h].lease) => Apart(req[r].on, {handles[h].path})
    /\ \A h, k \in OpenHandles :
          h # k /\ Clash(handles[h].lease, handles[k].lease) =>
             Apart({handles[h].path}, {handles[k].path})
    /\ task # NoPath =>
          /\ \A r \in Request : req[r].lease = "excl" => Apart(req[r].on, {task})
          /\ \A h \in OpenHandles : handles[h].lease = "excl" => Apart({handles[h].path}, {task})

(* The objects. *)
Single == \A p, q \in Path : tree[p] # None /\ tree[p] = tree[q] => p = q
Stands == \A n \in 1 .. MaxNodes : node[n].ph => node[n].own /\ node[n].kind = "file"

(* An inode leads to a path. *)
Leads(t, i, p) == Live(t, i) /\ t.byInode[i] = p

(* The table as it will be when a rename under way has told it. *)
Remapping(r) == req[r].pc = "remap"
Following(i, n) ==
    \A p \in Path : tree[p] = n =>
       /\ (\A r \in Request : ~Remapping(r)) => Leads(inodes, i, p)
       /\ \A r \in Request : Remapping(r) => Leads(RenameSubtree(inodes, req[r].path, req[r].dest), i, p)

(* A handle with a lease. *)
Holds(h) ==
    LET f == handles[h]
    IN /\ f.lease = IF f.wr THEN "excl" ELSE IF f.node = None THEN "shared" ELSE "none"
       /\ f.wr => f.node # None
       /\ f.lease # "none" => f.path \in Path /\ Leads(inodes, f.ino, f.path)
       /\ f.wr => tree[f.path] = f.node
       /\ f.node = None => IsFile(f.path) /\ At(f.path).own
       /\ f.node # None => ~node[f.node].ph
Handles == \A h \in OpenHandles : Holds(h)

Knowing(q) ==
    /\ q.op = "open" /\ q.pc \in {"shared", "load", "renew"} => Leads(inodes, q.args.ino, q.path)
    /\ q.op = "open" /\ q.pc = "excl" => Following(q.args.ino, q.want)
    /\ q.op = "read" /\ q.pc \in {"load", "renew", "fill"} /\ StillOpen(q) /\ q.args.h \in Pending =>
          /\ handles[q.args.h].path = q.path
          /\ q.pc # "load" => ~At(q.path).ph
    /\ q.op = "remove" /\ q.pc = "shared" /\ ~q.args.dir => \E i \in Nat : Leads(inodes, i, q.path)
Known == \A r \in Request : Knowing(req[r])

Inv == Types /\ Places /\ Namespace /\ Leases /\ Single /\ Stands /\ Handles /\ Known

-----------------------------------------------------------------------------
(* Paths *)

LEMMA Split ==
    ASSUME NEW S, NEW q \in Seq(S), NEW p \in Seq(S), Under(q, p)
    PROVE  /\ SubSeq(q, Len(p) + 1, Len(q)) \in Seq(S)
           /\ q = p \o SubSeq(q, Len(p) + 1, Len(q))
<1>1. Len(p) \in Nat /\ Len(q) \in Nat /\ Len(p) <= Len(q) /\ SubSeq(q, 1, Len(p)) = p
  BY DEF Under
<1>2. SubSeq(q, 1, Len(p)) \o SubSeq(q, Len(p) + 1, Len(q)) = SubSeq(q, 1, Len(q))
  <2>1. 1 \in 1 .. Len(q) + 1 /\ Len(p) \in 1 - 1 .. Len(q) /\ Len(q) \in Len(p) .. Len(q)
    BY <1>1
  <2> QED BY <2>1, ConcatAdjacentSubSeq
<1>3. SubSeq(q, 1, Len(q)) = q
  BY SubSeqFull
<1>4. \A i \in Len(p) + 1 .. Len(q) : q[i] \in S
  BY <1>1
<1>5. SubSeq(q, Len(p) + 1, Len(q)) \in Seq(S)
  BY <1>1, <1>4, SubSeqProperties
<1> QED BY <1>1, <1>2, <1>3, <1>5

LEMMA Joined ==
    ASSUME NEW S, NEW d \in Seq(S), NEW x \in Seq(S)
    PROVE  /\ d \o x \in Seq(S)
           /\ Under(d \o x, d)
           /\ SubSeq(d \o x, Len(d) + 1, Len(d \o x)) = x
<1> DEFINE y == d \o x
<1>1. y \in Seq(S) /\ Len(y) = Len(d) + Len(x) /\ Len(d) \in Nat /\ Len(x) \in Nat
  BY ConcatProperties
<1>2. SubSeq(y, 1, Len(d)) = d
  <2>1. CASE d = <<>>
    BY <2>1, SubSeqEmpty
  <2>2. CASE d # <<>>
    <3>1. 1 \in 1 .. Len(d) /\ Len(d) \in 1 .. Len(d)
      BY <1>1, <2>2, EmptySeq
    <3>2. SubSeq(y, 1, Len(d)) = SubSeq(d, 1, Len(d))
      BY <3>1, SubSeqOfConcat1
    <3> QED BY <3>2, SubSeqFull
  <2> QED BY <2>1, <2>2
<1>3. Under(y, d)
  BY <1>1, <1>2 DEF Under
<1>4. d \o SubSeq(y, Len(d) + 1, Len(y)) = d \o x /\ SubSeq(y, Len(d) + 1, Len(y)) \in Seq(S)
  BY <1>1, <1>3, Split
<1>5. SubSeq(y, Len(d) + 1, Len(y)) = x
  <2> DEFINE z == SubSeq(y, Len(d) + 1, Len(y))
  <2>1. z \in Seq(S) /\ d \o z = d \o x
    BY <1>4
  <2> HIDE DEF z
  <2> QED BY <2>1, ConcatSimplifications
<1> QED BY <1>1, <1>3, <1>5

(* A subtree keeps its shape when it moves. *)
LEMMA MovedBack ==
    ASSUME NEW S, NEW q \in Seq(S), NEW s \in Seq(S), NEW d \in Seq(S), Under(q, s)
    PROVE  /\ Moved(q, s, d) \in Seq(S)
           /\ Under(Moved(q, s, d), d)
           /\ Moved(Moved(q, s, d), d, s) = q
<1> DEFINE x == SubSeq(q, Len(s) + 1, Len(q))
<1>1. x \in Seq(S) /\ q = s \o x
  BY Split
<1>2. Moved(q, s, d) = d \o x
  BY DEF Moved
<1> HIDE DEF x
<1>3. d \o x \in Seq(S) /\ Under(d \o x, d) /\ SubSeq(d \o x, Len(d) + 1, Len(d \o x)) = x
  BY <1>1, Joined
<1> QED BY <1>1, <1>2, <1>3 DEF Moved

LEMMA UnderItself == ASSUME NEW S, NEW p \in Seq(S) PROVE Under(p, p)
BY SubSeqFull DEF Under

(* The paths the engine knows are one or two names long. *)
LEMMA PathIsSeq ==
    /\ Path \subseteq Paths /\ NoPath \in Paths /\ Root \in Paths
    /\ Root \notin Path /\ NoPath \notin Path
    /\ \A p \in Path : p \in Seq(Names) /\ Len(p) \in 1 .. 2
<1>1. \A n \in Name : <<n>> \in Seq(Names) /\ Len(<<n>>) = 1
  BY DEF Names
<1>2. \A n, m \in Name : <<n, m>> \in Seq(Names) /\ Len(<<n, m>>) = 2
  BY DEF Names
<1>3. NoPath \in Seq(Names) /\ Len(NoPath) = 3
  BY DEF Names, NoPath
<1>4. Root \in Seq(Names) /\ Len(Root) = 0
  BY EmptySeq DEF Root
<1>5. \A p \in Path : p \in Seq(Names) /\ Len(p) \in 1 .. 2
  <2> TAKE p \in Path
  <2>1. CASE \E n \in Name : p = <<n>>
    <3>1. PICK n \in Name : p = <<n>>
      BY <2>1
    <3>2. <<n>> \in Seq(Names) /\ Len(<<n>>) \in 1 .. 2
      BY <1>1
    <3> QED BY <3>1, <3>2
  <2>2. CASE \E n, m \in Name : p = <<n, m>>
    <3>1. PICK n \in Name, m \in Name : p = <<n, m>>
      BY <2>2
    <3>2. <<n, m>> \in Seq(Names) /\ Len(<<n, m>>) \in 1 .. 2
      BY <1>2
    <3> QED BY <3>1, <3>2
  <2> QED BY <2>1, <2>2 DEF Path
<1>6. Root \notin Path /\ NoPath \notin Path
  <2>1. \A p \in Path : Len(p) # 0 /\ Len(p) # 3
    <3> TAKE p \in Path
    <3>1. Len(p) \in 1 .. 2
      BY <1>5
    <3> QED BY <3>1
  <2> QED BY <2>1, <1>3, <1>4
<1> QED BY <1>3, <1>4, <1>5, <1>6 DEF Paths

LEMMA OverlapSymmetric == \A p, q : Overlap(p, q) <=> Overlap(q, p)
BY DEF Overlap

-----------------------------------------------------------------------------
(* The inode table *)

(* Who leads where goes on doing so. *)
LeadsKept(t, u) == \A i, p : Leads(t, i, p) => Leads(u, i, p)

LEMMA LeadsOne == ASSUME NEW t, NEW i, NEW p, NEW q, Leads(t, i, p), Leads(t, i, q) PROVE p = q
BY DEF Leads

LEMMA LeadsBack ==
    ASSUME NEW t, Table(t), NEW i, NEW p, Leads(t, i, p)
    PROVE  p \in Paths /\ Knows(t, p) /\ t.byPath[p] = i
BY DEF Table, Exact, Leads, Live, Knows

LEMMA LeadsForth ==
    ASSUME NEW t, Table(t), NEW p, Knows(t, p)
    PROVE  Leads(t, t.byPath[p], p) /\ t.byPath[p] \in Nat
BY DEF Table, Exact, Leads, Live, Knows, GivenOut

LEMMA InsertKeeps ==
    ASSUME NEW t, Table(t), NEW p \in Paths
    PROVE  /\ Table(Insert(t, p))
           /\ LeadsKept(t, Insert(t, p))
           /\ Leads(Insert(t, p), Insert(t, p).byPath[p], p)
           /\ Insert(t, p).next \in {t.next, t.next + 1}
<1>1. CASE Knows(t, p)
  BY <1>1, LeadsForth DEF Insert, LeadsKept
<1>2. CASE ~Knows(t, p)
  <2> DEFINE u == Insert(t, p)
  <2>1. /\ DOMAIN u = {"next", "byPath", "byInode"}
        /\ u.next = t.next + 1
        /\ u.byPath = With(t.byPath, p, t.next)
        /\ u.byInode = With(t.byInode, t.next, p)
    BY <1>2 DEF Insert
  <2> HIDE DEF u
  <2>2. t.next \in Nat \ {0} /\ t.next \notin DOMAIN t.byInode
    BY DEF Table, Exact, GivenOut
  <2>3. DOMAIN u.byPath = DOMAIN t.byPath \cup {p} /\ u.byPath[p] = t.next
        /\ \A q \in DOMAIN t.byPath : u.byPath[q] = t.byPath[q]
    BY <1>2, <2>1 DEF With, Knows
  <2>4. DOMAIN u.byInode = DOMAIN t.byInode \cup {t.next} /\ u.byInode[t.next] = p
        /\ \A i \in DOMAIN t.byInode : u.byInode[i] = t.byInode[i]
    BY <2>1, <2>2 DEF With
  <2>5. DOMAIN u.byInode \subseteq GivenOut(u)
    BY <2>1, <2>2, <2>4 DEF Table, Exact, GivenOut
  <2>6. \A q \in DOMAIN u.byPath : u.byPath[q] \in DOMAIN u.byInode /\ u.byInode[u.byPath[q]] = q
    BY <2>3, <2>4 DEF Table, Exact
  <2>7. \A i \in DOMAIN u.byInode : u.byInode[i] \in DOMAIN u.byPath /\ u.byPath[u.byInode[i]] = i
    BY <2>3, <2>4 DEF Table, Exact
  <2>8. Table(u)
    BY <2>1, <2>2, <2>3, <2>5, <2>6, <2>7 DEF Table, Exact
  <2>9. LeadsKept(t, u)
    BY <2>2, <2>4 DEF LeadsKept, Leads, Live
  <2> QED BY <2>1, <2>3, <2>4, <2>8, <2>9 DEF u, Leads, Live
<1> QED BY <1>1, <1>2

LEMMA RemoveKeeps ==
    ASSUME NEW t, Table(t), NEW p
    PROVE  /\ Table(RemoveSubtree(t, p))
           /\ RemoveSubtree(t, p).next = t.next
           /\ \A i, q : Leads(t, i, q) /\ ~Under(q, p) => Leads(RemoveSubtree(t, p), i, q)
<1>1. CASE p = Root
  BY <1>1 DEF RemoveSubtree
<1>2. CASE p # Root
  <2> DEFINE u == RemoveSubtree(t, p)
             gone == {q \in DOMAIN t.byPath : Under(q, p)}
  <2>1. /\ DOMAIN u = {"next", "byPath", "byInode"}
        /\ u.next = t.next
        /\ u.byPath = Restrict(t.byPath, DOMAIN t.byPath \ gone)
        /\ u.byInode = Restrict(t.byInode, DOMAIN t.byInode \ Numbers(t, gone))
    BY <1>2 DEF RemoveSubtree, Table
  <2> HIDE DEF u
  <2>2. DOMAIN u.byPath = DOMAIN t.byPath \ gone
        /\ \A q \in DOMAIN t.byPath \ gone : u.byPath[q] = t.byPath[q]
    BY <2>1 DEF Restrict
  <2>3. DOMAIN u.byInode = DOMAIN t.byInode \ Numbers(t, gone)
        /\ \A i \in DOMAIN t.byInode \ Numbers(t, gone) : u.byInode[i] = t.byInode[i]
    BY <2>1 DEF Restrict
  <2>4. \A i \in DOMAIN t.byInode : i \in Numbers(t, gone) <=> Under(t.byInode[i], p)
    BY DEF Numbers, Table, Exact
  <2>5. \A q \in DOMAIN u.byPath : u.byPath[q] \in DOMAIN u.byInode /\ u.byInode[u.byPath[q]] = q
    BY <2>2, <2>3, <2>4 DEF Table, Exact
  <2>6. \A i \in DOMAIN u.byInode : u.byInode[i] \in DOMAIN u.byPath /\ u.byPath[u.byInode[i]] = i
    BY <2>2, <2>3, <2>4 DEF Table, Exact
  <2>7. Table(u)
    BY <2>1, <2>2, <2>3, <2>5, <2>6 DEF Table, Exact, GivenOut
  <2>8. \A i, q : Leads(t, i, q) /\ ~Under(q, p) => Leads(u, i, q)
    BY <2>3, <2>4 DEF Leads, Live
  <2> QED BY <2>1, <2>7, <2>8 DEF u
<1> QED BY <1>1, <1>2

(* Where a path is after a rename, if it is still there: a rename carries   *)
(* the numbers below its source along, spares those that are neither there *)
(* nor below its destination, and invents none.                            *)
Carried(q, p, s, d) == IF Under(q, s) THEN p = Moved(q, s, d) ELSE ~Under(q, d) /\ p = q

LEMMA RenameKeeps ==
    ASSUME NEW t, Table(t), NEW s \in Paths, NEW d \in Paths, s # d, s # Root, d # Root
    PROVE  /\ Table(RenameSubtree(t, s, d))
           /\ RenameSubtree(t, s, d).next = t.next
           /\ \A i, q, p : Leads(t, i, q) /\ Carried(q, p, s, d) => Leads(RenameSubtree(t, s, d), i, p)
           /\ \A i, p : Leads(RenameSubtree(t, s, d), i, p) =>
                           \E q : Leads(t, i, q) /\ Carried(q, p, s, d)
<1> DEFINE u == RenameSubtree(t, s, d)
           moving == {q \in DOMAIN t.byPath : Under(q, s)}
           replaced == {q \in DOMAIN t.byPath : Under(q, d)}
           target == {Moved(q, s, d) : q \in moving}
           kept == DOMAIN t.byPath \ (moving \cup replaced)
           From(q) == CHOOSE o \in moving : Moved(o, s, d) = q
           numbers == Numbers(t, moving)
           dead == Numbers(t, replaced) \ numbers
           Path0(i) == CHOOSE q \in moving : t.byPath[q] = i
<1>1. /\ DOMAIN u = {"next", "byPath", "byInode"}
      /\ u.next = t.next
      /\ u.byPath = [q \in kept \cup target |-> IF q \in target THEN t.byPath[From(q)] ELSE t.byPath[q]]
      /\ u.byInode = [i \in DOMAIN t.byInode \ dead |->
                        IF i \in numbers THEN Moved(Path0(i), s, d) ELSE t.byInode[i]]
  BY DEF RenameSubtree, Table
<1> HIDE DEF u
<1>2. \A q \in moving : q \in Paths /\ Under(q, s)
  BY DEF Table
<1>3. \A q \in moving : /\ Moved(q, s, d) \in Paths /\ Under(Moved(q, s, d), d)
                        /\ Moved(Moved(q, s, d), d, s) = q
  BY <1>2, MovedBack DEF Paths
<1>4. \A q \in moving : From(Moved(q, s, d)) = q
  <2> TAKE q \in moving
  <2>1. \E o \in moving : Moved(o, s, d) = Moved(q, s, d)
    OBVIOUS
  <2>2. From(Moved(q, s, d)) \in moving /\ Moved(From(Moved(q, s, d)), s, d) = Moved(q, s, d)
    BY <2>1
  <2> HIDE DEF From, moving
  <2> QED BY <2>2, <1>3
<1>5. \A q \in kept : q \notin target
  BY <1>3
<1>6. \A q \in moving : u.byPath[Moved(q, s, d)] = t.byPath[q]
  <2> TAKE q \in moving
  <2>1. Moved(q, s, d) \in target
    OBVIOUS
  <2> HIDE DEF From, moving, target, kept
  <2> QED BY <1>1, <1>4, <2>1
<1>7. DOMAIN u.byPath = kept \cup target /\ \A q \in kept : u.byPath[q] = t.byPath[q]
  <2> HIDE DEF From, moving, target, kept
  <2> QED BY <1>1, <1>5
<1>8. \A q \in moving : t.byPath[q] \in numbers /\ Path0(t.byPath[q]) = q
  <2> TAKE q \in moving
  <2>1. t.byPath[q] \in numbers
    BY DEF Numbers
  <2>2. Path0(t.byPath[q]) \in moving /\ t.byPath[Path0(t.byPath[q])] = t.byPath[q]
    <3>1. \E o \in moving : t.byPath[o] = t.byPath[q]
      OBVIOUS
    <3> QED BY <3>1
  <2>3. \A o \in moving : o \in DOMAIN t.byPath
    OBVIOUS
  <2> HIDE DEF Path0, moving, numbers
  <2> QED BY <2>1, <2>2, <2>3 DEF Table, Exact
<1>9. DOMAIN u.byInode = DOMAIN t.byInode \ dead
  BY <1>1
<1>10. \A q \in moving : t.byPath[q] \in DOMAIN u.byInode /\ u.byInode[t.byPath[q]] = Moved(q, s, d)
  <2> TAKE q \in moving
  <2>1. t.byPath[q] \in DOMAIN t.byInode
    BY DEF Table, Exact
  <2>2. t.byPath[q] \in numbers /\ Path0(t.byPath[q]) = q
    BY <1>8
  <2>3. t.byPath[q] \in DOMAIN t.byInode \ dead
    BY <2>1, <2>2
  <2> HIDE DEF Path0, moving, numbers, dead
  <2> QED BY <1>1, <2>2, <2>3
<1>11. \A i \in DOMAIN t.byInode : /\ i \in numbers <=> Under(t.byInode[i], s)
                                   /\ i \in Numbers(t, replaced) <=> Under(t.byInode[i], d)
  BY DEF Numbers, Table, Exact
<1>12. \A i \in DOMAIN t.byInode \ (numbers \cup dead) :
          i \in DOMAIN u.byInode /\ u.byInode[i] = t.byInode[i] /\ t.byInode[i] \in kept
  <2> TAKE i \in DOMAIN t.byInode \ (numbers \cup dead)
  <2>1. t.byInode[i] \in kept
    BY <1>11 DEF Table, Exact
  <2> HIDE DEF Path0, moving, numbers, dead, kept
  <2> QED BY <1>1, <2>1
<1>13. \A i \in numbers : i \in DOMAIN t.byInode => \E q \in moving : i = t.byPath[q]
  BY DEF Numbers
<1>14. \A q \in DOMAIN u.byPath : u.byPath[q] \in DOMAIN u.byInode /\ u.byInode[u.byPath[q]] = q
  <2> TAKE q \in DOMAIN u.byPath
  <2>1. CASE q \in target
    <3>1. PICK o \in moving : q = Moved(o, s, d)
      BY <2>1
    <3> HIDE DEF moving
    <3> QED BY <3>1, <1>6, <1>10
  <2>2. CASE q \in kept
    <3>1. q \in DOMAIN t.byPath /\ ~Under(q, s) /\ ~Under(q, d)
      BY <2>2
    <3>2. t.byPath[q] \in DOMAIN t.byInode /\ t.byInode[t.byPath[q]] = q
      BY <3>1 DEF Table, Exact
    <3>3. t.byPath[q] \in DOMAIN t.byInode \ (numbers \cup dead)
      BY <3>1, <3>2, <1>11
    <3> QED BY <3>2, <3>3, <1>7, <1>12, <2>2
  <2> QED BY <1>7, <2>1, <2>2
<1>15. \A i \in DOMAIN u.byInode : u.byInode[i] \in DOMAIN u.byPath /\ u.byPath[u.byInode[i]] = i
  <2> TAKE i \in DOMAIN u.byInode
  <2>1. i \in DOMAIN t.byInode /\ i \notin dead
    BY <1>9
  <2>2. CASE i \in numbers
    <3>1. PICK q \in moving : i = t.byPath[q]
      BY <1>13, <2>1, <2>2
    <3>2. u.byInode[i] = Moved(q, s, d) /\ Moved(q, s, d) \in target
      BY <3>1, <1>10
    <3> QED BY <3>1, <3>2, <1>6, <1>7
  <2>3. CASE i \notin numbers
    <3>1. u.byInode[i] = t.byInode[i] /\ t.byInode[i] \in kept
      BY <1>12, <2>1, <2>3
    <3>2. t.byPath[t.byInode[i]] = i
      BY <2>1 DEF Table, Exact
    <3> QED BY <3>1, <3>2, <1>7
  <2> QED BY <2>2, <2>3
<1>16. Table(u)
  <2>1. DOMAIN u.byPath \subseteq Paths
    BY <1>3, <1>7 DEF Table
  <2> QED BY <1>1, <1>9, <1>14, <1>15, <2>1 DEF Table, Exact, GivenOut
<1>17. \A i, q : Leads(t, i, q) /\ Under(q, s) => Leads(u, i, Moved(q, s, d))
  <2> TAKE i, q
  <2>1. ASSUME Leads(t, i, q), Under(q, s) PROVE q \in moving /\ t.byPath[q] = i
    BY <2>1, LeadsBack DEF Knows
  <2> HIDE DEF moving
  <2> QED BY <2>1, <1>10 DEF Leads, Live
<1>18. \A i, q : Leads(t, i, q) /\ ~Under(q, s) /\ ~Under(q, d) => Leads(u, i, q)
  <2> TAKE i, q
  <2>1. ASSUME Leads(t, i, q), ~Under(q, s), ~Under(q, d)
        PROVE  i \in DOMAIN t.byInode \ (numbers \cup dead) /\ t.byInode[i] = q
    BY <2>1, <1>11 DEF Leads, Live
  <2> HIDE DEF numbers, dead
  <2> QED BY <2>1, <1>12 DEF Leads, Live
<1>19. \A i, p : Leads(u, i, p) => \E q : Leads(t, i, q) /\ Carried(q, p, s, d)
  <2> SUFFICES ASSUME NEW i, NEW p, Leads(u, i, p) PROVE \E q : Leads(t, i, q) /\ Carried(q, p, s, d)
    OBVIOUS
  <2>1. i \in DOMAIN t.byInode /\ i \notin dead /\ u.byInode[i] = p
    BY <1>9 DEF Leads, Live
  <2>2. CASE i \in numbers
    <3>1. PICK o \in moving : i = t.byPath[o]
      BY <1>13, <2>1, <2>2
    <3>2. p = Moved(o, s, d) /\ Under(o, s) /\ Knows(t, o)
      BY <3>1, <1>10, <2>1 DEF Knows
    <3> QED BY <3>1, <3>2, LeadsForth DEF Carried
  <2>3. CASE i \notin numbers
    <3>1. t.byInode[i] = p /\ ~Under(p, s) /\ ~Under(p, d)
      BY <1>11, <1>12, <2>1, <2>3
    <3> QED BY <2>1, <3>1 DEF Leads, Live, Carried
  <2> QED BY <2>2, <2>3
<1>20. \A i, q, p : Leads(t, i, q) /\ Carried(q, p, s, d) => Leads(u, i, p)
  BY <1>17, <1>18 DEF Carried
<1> QED BY <1>1, <1>16, <1>19, <1>20 DEF u

LEMMA RenameInsert ==
    ASSUME NEW t, Table(t), NEW s \in Paths, NEW d \in Paths, s # d, s # Root, d # Root,
           NEW x \in Paths
    PROVE  LeadsKept(RenameSubtree(t, s, d), RenameSubtree(Insert(t, x), s, d))
<1>1. Table(Insert(t, x)) /\ LeadsKept(t, Insert(t, x))
  BY InsertKeeps
<1>2. SUFFICES ASSUME NEW i, NEW p, Leads(RenameSubtree(t, s, d), i, p)
               PROVE  Leads(RenameSubtree(Insert(t, x), s, d), i, p)
  BY DEF LeadsKept
<1>3. PICK q : Leads(t, i, q) /\ Carried(q, p, s, d)
  BY <1>2, RenameKeeps
<1>4. Leads(Insert(t, x), i, q)
  BY <1>1, <1>3 DEF LeadsKept
<1> QED BY <1>1, <1>3, <1>4, RenameKeeps

-----------------------------------------------------------------------------
(* Leases *)

LEMMA LeasesShrink ==
    ASSUME Leases, task' \in {task, NoPath},
           \A s \in Request : \/ req'[s].lease = "none"
                              \/ req'[s].lease = req[s].lease /\ req'[s].on = req[s].on,
           \A h \in Handle : handles'[h].open => \/ handles'[h].lease = "none"
                                                 \/ handles'[h] = handles[h]
    PROVE  Leases'
<1>1. \A r, s \in Request : r # s /\ Clash(req'[r].lease, req'[s].lease) => Apart(req'[r].on, req'[s].on)
  BY DEF Leases, Clash
<1>2. \A h \in Handle : handles'[h].open /\ handles'[h].lease # "none" =>
                          h \in OpenHandles /\ handles'[h] = handles[h]
  BY DEF OpenHandles
<1>3. \A r \in Request, h \in OpenHandles' :
         Clash(req'[r].lease, handles'[h].lease) => Apart(req'[r].on, {handles'[h].path})
  BY <1>2 DEF Leases, Clash, OpenHandles
<1>4. \A h, k \in OpenHandles' : h # k /\ Clash(handles'[h].lease, handles'[k].lease) =>
                                   Apart({handles'[h].path}, {handles'[k].path})
  BY <1>2 DEF Leases, Clash, OpenHandles
<1>5. task' # NoPath =>
          /\ \A r \in Request : req'[r].lease = "excl" => Apart(req'[r].on, {task'})
          /\ \A h \in OpenHandles' : handles'[h].lease = "excl" => Apart({handles'[h].path}, {task'})
  <2>1. SUFFICES ASSUME task' # NoPath, task' = task, task # NoPath
                 PROVE  /\ \A r \in Request : req'[r].lease = "excl" => Apart(req'[r].on, {task})
                        /\ \A h \in OpenHandles' : handles'[h].lease = "excl" => Apart({handles'[h].path}, {task})
    OBVIOUS
  <2>2. \A r \in Request : req'[r].lease = "excl" => Apart(req'[r].on, {task})
    BY <2>1 DEF Leases
  <2>3. \A h \in OpenHandles' : handles'[h].lease = "excl" => Apart({handles'[h].path}, {task})
    BY <1>2, <2>1 DEF Leases, OpenHandles
  <2> QED BY <2>2, <2>3
<1> QED BY <1>1, <1>3, <1>4, <1>5 DEF Leases, Apart

(* What the two tests say of the leases there are. *)
Grantable(l, S) == l = "none" \/ (l = "shared" /\ CanShare(S)) \/ (l = "excl" /\ CanExclude(S))

LEMMA GrantedApart ==
    ASSUME NEW l, NEW S, Grantable(l, S)
    PROVE  /\ \A r \in Request : req[r].lease \in {"none", "shared", "excl"} =>
                 (Clash(l, req[r].lease) => Apart(S, req[r].on))
           /\ \A h \in OpenHandles : handles[h].lease \in {"none", "shared", "excl"} =>
                 (Clash(l, handles[h].lease) => Apart(S, {handles[h].path}))
           /\ l = "excl" /\ task # NoPath => Apart(S, {task})
<1>1. \A r \in Request : req[r].lease \in {"none", "shared", "excl"} =>
                 (Clash(l, req[r].lease) => Apart(S, req[r].on))
  BY DEF Grantable, Clash, Apart, CanShare, CanExclude, Leased
<1>2. \A h \in OpenHandles : handles[h].lease \in {"none", "shared", "excl"} =>
                 (Clash(l, handles[h].lease) => Apart(S, {handles[h].path}))
  BY DEF Grantable, Clash, Apart, CanShare, CanExclude, Leased
<1>3. l = "excl" /\ task # NoPath => Apart(S, {task})
  BY DEF Grantable, Apart, CanExclude
<1> QED BY <1>1, <1>2, <1>3

LEMMA ApartSymmetric == \A S, T : Apart(S, T) <=> Apart(T, S)
BY OverlapSymmetric DEF Apart

LEMMA ClashSymmetric == \A l, m : Clash(l, m) <=> Clash(m, l)
BY DEF Clash

LEMMA LeaseTypes ==
    ASSUME Types
    PROVE  /\ \A r \in Request : req[r].lease \in {"none", "shared", "excl"}
           /\ \A h \in OpenHandles : handles[h].lease \in {"none", "shared", "excl"}
<1>1. \A r \in Request : req[r].lease \in {"none", "shared", "excl"}
  <2> TAKE r \in Request
  <2>1. CASE req[r] \in Calls
    BY <2>1 DEF Calls
  <2>2. CASE req[r] = Idle
    BY <2>2 DEF Idle
  <2> QED BY <2>1, <2>2 DEF Types
<1>2. \A h \in OpenHandles : handles[h].lease \in {"none", "shared", "excl"}
  <2> TAKE h \in OpenHandles
  <2>1. handles[h].open /\ handles[h] \in OpenFile \cup {Closed}
    BY DEF OpenHandles, Types
  <2>2. handles[h] # Closed
    BY <2>1 DEF Closed
  <2> QED BY <2>1, <2>2 DEF OpenFile
<1> QED BY <1>1, <1>2

(* A request takes a lease. *)
LEMMA RequestTakes ==
    ASSUME Leases, Types, NEW r \in Request,
           Grantable(req'[r].lease, req'[r].on),
           \A s \in Request \ {r} : req'[s] = req[s],
           UNCHANGED <<handles, task>>
    PROVE  Leases'
<1> DEFINE l == req'[r].lease
           S == req'[r].on
<1>1. /\ \A s \in Request : Clash(l, req[s].lease) => Apart(S, req[s].on)
      /\ \A h \in OpenHandles : Clash(l, handles[h].lease) => Apart(S, {handles[h].path})
      /\ l = "excl" /\ task # NoPath => Apart(S, {task})
  BY GrantedApart, LeaseTypes
<1> HIDE DEF l, S
<1>2. \A s, u \in Request : s # u /\ Clash(req'[s].lease, req'[u].lease) => Apart(req'[s].on, req'[u].on)
  <2> SUFFICES ASSUME NEW s \in Request, NEW u \in Request, s # u, Clash(req'[s].lease, req'[u].lease)
               PROVE  Apart(req'[s].on, req'[u].on)
    OBVIOUS
  <2>1. CASE s = r
    BY <1>1, <2>1 DEF l, S
  <2>2. CASE u = r
    BY <1>1, <2>2, ApartSymmetric, ClashSymmetric DEF l, S
  <2>3. CASE s # r /\ u # r
    BY <2>3 DEF Leases
  <2> QED BY <2>1, <2>2, <2>3
<1>3. OpenHandles' = OpenHandles
  BY DEF OpenHandles
<1>4. \A s \in Request, h \in OpenHandles :
         Clash(req'[s].lease, handles[h].lease) => Apart(req'[s].on, {handles[h].path})
  BY <1>1 DEF Leases, l, S
<1>5. task # NoPath => \A s \in Request : req'[s].lease = "excl" => Apart(req'[s].on, {task})
  BY <1>1 DEF Leases, l, S
<1> QED BY <1>2, <1>3, <1>4, <1>5 DEF Leases

(* A handle is opened with a lease, and the request that opens it ends. *)
LEMMA HandleTakes ==
    ASSUME Leases, Types, NEW r \in Request, NEW h \in Handle, h \notin OpenHandles,
           Grantable(handles'[h].lease, {handles'[h].path}),
           \A k \in Handle \ {h} : handles'[k] = handles[k],
           \A s \in Request \ {r} : req'[s] = req[s],
           req'[r].lease = "none", task' = task
    PROVE  Leases'
<1> DEFINE l == handles'[h].lease
           S == {handles'[h].path}
<1>1. /\ \A s \in Request : Clash(l, req[s].lease) => Apart(S, req[s].on)
      /\ \A k \in OpenHandles : Clash(l, handles[k].lease) => Apart(S, {handles[k].path})
      /\ l = "excl" /\ task # NoPath => Apart(S, {task})
  BY GrantedApart, LeaseTypes
<1> HIDE DEF l, S
<1>2. \A s \in Request : req'[s].lease # "none" => s # r /\ req'[s] = req[s]
  OBVIOUS
<1>3. \A k \in OpenHandles' : k = h \/ (k \in OpenHandles /\ handles'[k] = handles[k])
  BY DEF OpenHandles
<1>4. \A s, u \in Request : s # u /\ Clash(req'[s].lease, req'[u].lease) => Apart(req'[s].on, req'[u].on)
  BY <1>2 DEF Leases, Clash
<1>5. \A s \in Request, k \in OpenHandles' :
         Clash(req'[s].lease, handles'[k].lease) => Apart(req'[s].on, {handles'[k].path})
  <2> SUFFICES ASSUME NEW s \in Request, NEW k \in OpenHandles', Clash(req'[s].lease, handles'[k].lease)
               PROVE  Apart(req'[s].on, {handles'[k].path})
    OBVIOUS
  <2>1. req'[s] = req[s]
    BY <1>2 DEF Clash
  <2>2. CASE k = h
    BY <1>1, <2>1, <2>2, ApartSymmetric, ClashSymmetric DEF l, S
  <2>3. CASE k \in OpenHandles /\ handles'[k] = handles[k]
    BY <2>1, <2>3 DEF Leases
  <2> QED BY <1>3, <2>2, <2>3
<1>6. \A k, j \in OpenHandles' : k # j /\ Clash(handles'[k].lease, handles'[j].lease) =>
                                   Apart({handles'[k].path}, {handles'[j].path})
  <2> SUFFICES ASSUME NEW k \in OpenHandles', NEW j \in OpenHandles', k # j,
                      Clash(handles'[k].lease, handles'[j].lease)
               PROVE  Apart({handles'[k].path}, {handles'[j].path})
    OBVIOUS
  <2>1. CASE k = h
    BY <1>1, <1>3, <2>1 DEF l, S
  <2>2. CASE j = h
    BY <1>1, <1>3, <2>2, ApartSymmetric, ClashSymmetric DEF l, S
  <2>3. CASE k # h /\ j # h
    BY <1>3, <2>3 DEF Leases
  <2> QED BY <2>1, <2>2, <2>3
<1>7. task # NoPath =>
          /\ \A s \in Request : req'[s].lease = "excl" => Apart(req'[s].on, {task})
          /\ \A k \in OpenHandles' : handles'[k].lease = "excl" => Apart({handles'[k].path}, {task})
  BY <1>1, <1>2, <1>3 DEF Leases, l, S
<1> QED BY <1>4, <1>5, <1>6, <1>7 DEF Leases

(* The download starts under a shared lease of its own. *)
LEMMA TaskTakes ==
    ASSUME Leases, Types, CanShare({task'}), UNCHANGED <<handles, req>>
    PROVE  Leases'
<1>1. Grantable("shared", {task'})
  BY DEF Grantable
<1>2. /\ \A r \in Request : req[r].lease = "excl" => Apart({task'}, req[r].on)
      /\ \A h \in OpenHandles : handles[h].lease = "excl" => Apart({task'}, {handles[h].path})
  BY <1>1, GrantedApart, LeaseTypes DEF Clash
<1>3. OpenHandles' = OpenHandles
  BY DEF OpenHandles
<1> QED BY <1>2, <1>3, ApartSymmetric DEF Leases

-----------------------------------------------------------------------------
(* What one step leaves to the others *)

LEMMA OpenHandleType ==
    ASSUME Types, NEW h \in OpenHandles
    PROVE  /\ handles[h] \in OpenFile /\ h \in Handle
           /\ handles[h].lease \in {"none", "shared", "excl"}
           /\ handles[h].node \in 0 .. MaxNodes /\ handles[h].path \in Paths
<1>1. handles[h].open /\ handles[h] \in OpenFile \cup {Closed} /\ h \in Handle
  BY DEF OpenHandles, Types
<1>2. handles[h] # Closed
  BY <1>1 DEF Closed
<1> QED BY <1>1, <1>2 DEF OpenFile

LEMMA IdleIs ==
    /\ Idle.op = "none" /\ Idle.pc = "idle" /\ Idle.ns = "none" /\ Idle.lease = "none" /\ Idle.on = {}
    /\ Place(Idle) /\ Knowing(Idle)
BY DEF Idle, Place, Knowing

(* A path keeps its inode, and the cloud file it has its content. *)
Undisturbed(p) ==
    /\ \A i : Leads(inodes, i, p) => Leads(inodes', i, p)
    /\ IsFile(p) /\ At(p).own =>
          tree'[p] # None /\ node'[tree'[p]].kind = "file" /\ node'[tree'[p]].own
    /\ IsFile(p) /\ ~At(p).ph => ~node'[tree'[p]].ph

Covered(R, p) ==
    \/ \E s \in R : req[s].lease # "none" /\ p \in req[s].on
    \/ \E h \in OpenHandles : handles[h].lease # "none" /\ handles[h].path = p

(* The objects that openers have checked. *)
Wanted(R) == {req[s].want : s \in {u \in R : req[u].op = "open" /\ req[u].pc = "excl"}}

Calm(R) ==
    /\ \A p \in Path : Covered(R, p) => Undisturbed(p)
    /\ \A h \in OpenHandles : handles[h].lease = "excl" => tree'[handles[h].path] = tree[handles[h].path]
    /\ (\E s \in R : req[s].ns # "none") => LeadsKept(inodes, inodes')
    /\ \A n \in Wanted(R) : \A i : Following(i, n) => Following(i, n)'
    /\ \A h \in OpenHandles : handles[h].node # None /\ ~node[handles[h].node].ph =>
                                 ~node'[handles[h].node].ph

LEMMA HoldsOn ==
    ASSUME Inv, NEW R, Calm(R), NEW h \in OpenHandles, handles'[h] = handles[h]
    PROVE  Holds(h)'
<1> DEFINE f == handles[h]
<1>1. Holds(h) /\ f.lease \in {"none", "shared", "excl"}
  BY OpenHandleType DEF Inv, Handles
<1>2. f.lease # "none" => f.path \in Path /\ Undisturbed(f.path)
  BY <1>1 DEF Holds, Calm, Covered
<1>3. f.lease # "none" => Leads(inodes', f.ino, f.path)
  BY <1>1, <1>2 DEF Holds, Undisturbed
<1>4. f.wr => tree'[f.path] = f.node
  BY <1>1 DEF Holds, Calm
<1>5. f.node = None =>
        tree'[f.path] # None /\ node'[tree'[f.path]].kind = "file" /\ node'[tree'[f.path]].own
  <2>1. f.node = None => f.lease # "none" /\ IsFile(f.path) /\ At(f.path).own
    BY <1>1 DEF Holds
  <2> QED BY <1>2, <2>1 DEF Undisturbed
<1>6. f.node # None => ~node'[f.node].ph
  BY <1>1 DEF Holds, Calm
<1>7. /\ f.lease = IF f.wr THEN "excl" ELSE IF f.node = None THEN "shared" ELSE "none"
      /\ f.wr => f.node # None
      /\ f.node = None => f.lease # "none"
  BY <1>1 DEF Holds
<1>8. handles'[h] = f
  OBVIOUS
<1> HIDE DEF f
<1> QED BY <1>2, <1>3, <1>4, <1>5, <1>6, <1>7, <1>8 DEF Holds, IsFile, Exists, At

LEMMA KnowingOn ==
    ASSUME Inv, NEW R \in SUBSET Request, Calm(R), NEW s \in R, req'[s] = req[s],
           \A h \in Handle : \/ handles'[h] = handles[h] \/ h \in FreeHandles
                             \/ ~(handles'[h].open /\ handles'[h].node = None)
    PROVE  Knowing(req[s])'
<1> DEFINE q == req[s]
<1>1. Knowing(q) /\ Place(q) /\ req'[s] = q
  BY DEF Inv, Known, Places
<1>2. q.op = "open" /\ q.pc \in {"shared", "load", "renew"} => Leads(inodes', q.args.ino, q.path)
  <2>1. CASE q.op = "open" /\ q.pc = "shared"
    <3>1. Leads(inodes, q.args.ino, q.path) /\ q.ns = "read"
      BY <1>1, <2>1 DEF Knowing, Place
    <3>2. LeadsKept(inodes, inodes')
      BY <3>1 DEF Calm
    <3> QED BY <3>1, <3>2 DEF LeadsKept
  <2>2. CASE q.op = "open" /\ q.pc \in {"load", "renew"}
    <3>1. Leads(inodes, q.args.ino, q.path) /\ q.lease = "shared" /\ q.path \in q.on /\ q.path \in Path
      BY <1>1, <2>2 DEF Knowing, Place
    <3>2. Covered(R, q.path)
      BY <3>1 DEF Covered
    <3>3. Undisturbed(q.path)
      BY <3>1, <3>2 DEF Calm
    <3> QED BY <3>1, <3>3 DEF Undisturbed
  <2> QED BY <2>1, <2>2
<1>3. q.op = "open" /\ q.pc = "excl" => \A i, n : i = q.args.ino /\ n = q.want => Following(i, n)'
  <2> SUFFICES ASSUME q.op = "open", q.pc = "excl", NEW i, NEW n, i = q.args.ino, n = q.want
               PROVE  Following(i, n)'
    OBVIOUS
  <2>1. Following(i, n) /\ n \in Wanted(R)
    BY <1>1 DEF Knowing, Wanted
  <2> QED BY <2>1 DEF Calm
<1>4. ASSUME q.op = "read", q.pc \in {"load", "renew", "fill"}, StillOpen(req[s])', (req[s].args.h \in Pending)'
      PROVE  /\ handles'[q.args.h].path = q.path
             /\ q.pc # "load" => ~node'[tree'[q.path]].ph
  <2> DEFINE h == q.args.h
  <2>1. h \in Handle /\ handles'[h].open /\ handles'[h].node = None /\ handles'[h].ino = q.args.ino
    BY <1>1, <1>4 DEF StillOpen, HandlesOf, OpenHandles, Pending
  <2>2. h \notin FreeHandles
    BY <1>4 DEF FreeHandles
  <2>3. handles'[h] = handles[h]
    BY <2>1, <2>2
  <2>4. StillOpen(q) /\ h \in Pending
    BY <2>1, <2>3 DEF StillOpen, HandlesOf, OpenHandles, Pending
  <2>5. handles[h].path = q.path /\ (q.pc # "load" => ~At(q.path).ph)
    BY <1>1, <1>4, <2>4 DEF Knowing
  <2>6. Holds(h) /\ h \in OpenHandles /\ handles[h].node = None
    BY <2>4 DEF Inv, Handles, Pending
  <2>7. handles[h].lease # "none" /\ handles[h].path \in Path /\ IsFile(handles[h].path)
    BY <2>6 DEF Holds
  <2>8. Covered(R, handles[h].path)
    BY <2>6, <2>7 DEF Covered
  <2>9. Undisturbed(handles[h].path)
    BY <2>7, <2>8 DEF Calm
  <2> QED BY <2>3, <2>5, <2>7, <2>9 DEF Undisturbed
<1>5. (req[s].op = "open" /\ req[s].pc = "excl" => Following(req[s].args.ino, req[s].want))'
  BY <1>1, <1>3 DEF Following
<1>6. (req[s].op = "open" /\ req[s].pc \in {"shared", "load", "renew"} => Leads(inodes, req[s].args.ino, req[s].path))'
  BY <1>1, <1>2
<1>7. (req[s].op = "read" /\ req[s].pc \in {"load", "renew", "fill"} /\ StillOpen(req[s]) /\ req[s].args.h \in Pending =>
          /\ handles[req[s].args.h].path = req[s].path
          /\ req[s].pc # "load" => ~At(req[s].path).ph)'
  BY <1>1, <1>4 DEF At
<1>8. q.op = "remove" /\ q.pc = "shared" /\ ~q.args.dir => \E i \in Nat : Leads(inodes', i, q.path)
  <2> SUFFICES ASSUME q.op = "remove", q.pc = "shared", ~q.args.dir
               PROVE  \E i \in Nat : Leads(inodes', i, q.path)
    OBVIOUS
  <2>1. PICK i \in Nat : Leads(inodes, i, q.path)
    BY <1>1 DEF Knowing
  <2>2. LeadsKept(inodes, inodes')
    BY <1>1 DEF Place, Calm
  <2> QED BY <2>1, <2>2 DEF LeadsKept
<1>9. (req[s].op = "remove" /\ req[s].pc = "shared" /\ ~req[s].args.dir =>
          \E i \in Nat : Leads(inodes, i, req[s].path))'
  BY <1>1, <1>8
<1> QED BY <1>5, <1>6, <1>7, <1>9 DEF Knowing

LEMMA Keeps ==
    ASSUME Inv, NEW R \in SUBSET Request, Calm(R),
           \A s \in R : req'[s] = req[s],
           \A s \in Request \ R : Knowing(req[s])',
           \A h \in Handle : \/ handles'[h] = handles[h] \/ h \in FreeHandles
                             \/ ~(handles'[h].open /\ handles'[h].node = None),
           \A h \in Handle : handles'[h] = handles[h] \/ (handles'[h].open => Holds(h)')
    PROVE  Handles' /\ Known'
<1>1. ASSUME NEW h \in Handle, handles'[h].open PROVE Holds(h)'
  <2>1. CASE handles'[h] = handles[h]
    <3>1. h \in OpenHandles
      BY <1>1, <2>1 DEF OpenHandles
    <3> QED BY <2>1, <3>1, HoldsOn
  <2> QED BY <1>1, <2>1
<1>2. ASSUME NEW s \in Request PROVE Knowing(req[s])'
  BY KnowingOn
<1> QED BY <1>1, <1>2 DEF Handles, Known, OpenHandles

-----------------------------------------------------------------------------
(* Steps that leave the directory and the handles alone *)

(* No rename begins or ends. *)
SameRenames ==
    \A s \in Request : /\ (req'[s].pc = "remap") <=> (req[s].pc = "remap")
                       /\ req[s].pc = "remap" => req'[s].path = req[s].path /\ req'[s].dest = req[s].dest

Inserts == inodes' = inodes \/ \E x \in Paths : inodes' = Insert(inodes, x)

LEMMA InsertsKeep ==
    ASSUME Types, Inserts
    PROVE  LeadsKept(inodes, inodes') /\ Table(inodes')
BY InsertKeeps DEF Types, Inserts, LeadsKept

LEMMA RemapPaths ==
    ASSUME Inv, NEW s \in Request, Remapping(s)
    PROVE  /\ req[s].path \in Paths /\ req[s].dest \in Paths /\ req[s].path # req[s].dest
           /\ req[s].path # Root /\ req[s].dest # Root
           /\ req[s].path \in Path /\ req[s].dest \in Path
           /\ req[s].ns = "write" /\ req[s].lease = "excl" /\ req[s].on = {req[s].path, req[s].dest}
<1>1. Place(req[s]) /\ req[s].pc = "remap"
  BY DEF Inv, Places, Remapping
<1> QED BY <1>1, PathIsSeq DEF Place

LEMMA FollowsOn ==
    ASSUME Inv, SameRenames, Inserts, tree' = tree, NEW i, NEW n, Following(i, n)
    PROVE  Following(i, n)'
<1> SUFFICES ASSUME NEW p \in Path, tree[p] = n
             PROVE  /\ (\A r \in Request : req'[r].pc # "remap") => Leads(inodes', i, p)
                    /\ \A r \in Request : req'[r].pc = "remap" =>
                          Leads(RenameSubtree(inodes', req'[r].path, req'[r].dest), i, p)
  BY DEF Following, Remapping
<1>1. Types /\ LeadsKept(inodes, inodes')
  BY InsertsKeep DEF Inv
<1>2. ASSUME \A r \in Request : req'[r].pc # "remap" PROVE Leads(inodes', i, p)
  <2>1. Leads(inodes, i, p)
    BY <1>2 DEF SameRenames, Following, Remapping
  <2> QED BY <1>1, <2>1 DEF LeadsKept
<1>3. ASSUME NEW r \in Request, req'[r].pc = "remap"
      PROVE  Leads(RenameSubtree(inodes', req'[r].path, req'[r].dest), i, p)
  <2>1. Remapping(r) /\ req'[r].path = req[r].path /\ req'[r].dest = req[r].dest
    BY <1>3 DEF SameRenames, Remapping
  <2>2. Leads(RenameSubtree(inodes, req[r].path, req[r].dest), i, p)
    BY <2>1 DEF Following
  <2>3. LeadsKept(RenameSubtree(inodes, req[r].path, req[r].dest),
                  RenameSubtree(inodes', req[r].path, req[r].dest))
    <3>1. CASE inodes' = inodes
      BY <3>1 DEF LeadsKept
    <3>2. CASE \E x \in Paths : inodes' = Insert(inodes, x)
      BY <1>1, <2>1, <3>2, RemapPaths, RenameInsert DEF Types
    <3> QED BY <3>1, <3>2 DEF Inserts
  <2> QED BY <2>1, <2>2, <2>3 DEF LeadsKept
<1> QED BY <1>2, <1>3

LEMMA CalmInserts ==
    ASSUME Inv, SameRenames, Inserts, UNCHANGED <<tree, node>>, NEW R
    PROVE  Calm(R)
<1>1. LeadsKept(inodes, inodes')
  BY InsertsKeep DEF Inv
<1>2. \A p : Undisturbed(p)
  BY <1>1 DEF Undisturbed, LeadsKept, IsFile, Exists, At
<1>3. \A n \in Wanted(R) : \A i : Following(i, n) => Following(i, n)'
  BY FollowsOn
<1> QED BY <1>1, <1>2, <1>3 DEF Calm

LEMMA SetIs ==
    ASSUME Types, NEW r \in Request, NEW q, Set(r, q)
    PROVE  /\ req'[r] = q /\ \A s \in Request \ {r} : req'[s] = req[s]
           /\ q \in Calls \cup {Idle} => req' \in [Request -> Calls \cup {Idle}]
BY DEF Types, Set

(* Who may take the namespace lock. *)
NsGranted(q, ns) ==
    q.ns \in {"none", ns} \/ (q.ns = "write" /\ CanWrite) \/ (q.ns = "read" /\ CanRead)

LEMMA NamespaceKept ==
    ASSUME Namespace, NEW r \in Request, \A s \in Request \ {r} : req'[s] = req[s],
           NsGranted(req'[r], req[r].ns)
    PROVE  Namespace'
<1> DEFINE n == req'[r].ns
<1>1. n # "write" \/ \A s \in Request \ {r} : req[s].ns = "none"
  BY DEF NsGranted, CanWrite, Namespace
<1>2. n = "none" \/ \A s \in Request \ {r} : req[s].ns # "write"
  BY DEF NsGranted, CanWrite, CanRead, Namespace
<1> QED BY <1>1, <1>2 DEF Namespace

(* A request goes on, or begins, or ends. *)
LEMMA Advances ==
    ASSUME Inv, NEW r \in Request, NEW q \in Calls \cup {Idle}, Set(r, q), Place(q),
           UNCHANGED <<tree, node, handles, task>>, calls' \in Nat, Inserts,
           req[r].pc # "remap", q.pc # "remap",
           NsGranted(q, req[r].ns),
           (q.lease = req[r].lease /\ q.on = req[r].on) \/ Grantable(q.lease, q.on),
           Knowing(q)'
    PROVE  Inv'
<1> USE DEF Inv
<1>1. /\ req'[r] = q /\ \A s \in Request \ {r} : req'[s] = req[s]
      /\ req' \in [Request -> Calls \cup {Idle}]
  BY SetIs
<1>2. Types'
  BY <1>1, InsertsKeep DEF Types
<1>3. Places'
  BY <1>1 DEF Places
<1>4. Namespace'
  BY <1>1, NamespaceKept
<1>5. Leases'
  <2>1. CASE q.lease = req[r].lease /\ q.on = req[r].on
    BY <1>1, <2>1, LeasesShrink
  <2>2. CASE Grantable(q.lease, q.on)
    BY <1>1, <2>2, RequestTakes
  <2> QED BY <2>1, <2>2
<1>6. Single' /\ Stands'
  BY DEF Single, Stands
<1>7. SameRenames
  BY <1>1 DEF SameRenames
<1>8. Calm(Request \ {r})
  BY <1>7, CalmInserts
<1>9. Knowing(req[r])'
  BY <1>1 DEF Knowing
<1>10. Handles' /\ Known'
  BY <1>1, <1>8, <1>9, Keeps
<1> QED BY <1>2, <1>3, <1>4, <1>5, <1>6, <1>10

(* What q knows where nothing but the table grows. *)
LEMMA KnowsOn ==
    ASSUME Inv, SameRenames, Inserts, UNCHANGED <<tree, node, handles>>, NEW q, Knowing(q)
    PROVE  Knowing(q)'
<1>1. LeadsKept(inodes, inodes')
  BY InsertsKeep DEF Inv
<1>2. (Following(q.args.ino, q.want) => Following(q.args.ino, q.want)')
  BY FollowsOn
<1>3. (q.op = "open" /\ q.pc \in {"shared", "load", "renew"} => Leads(inodes, q.args.ino, q.path))'
  BY <1>1 DEF Knowing, LeadsKept
<1>4. (q.op = "open" /\ q.pc = "excl" => Following(q.args.ino, q.want))'
  BY <1>2 DEF Knowing
<1>5. (q.op = "read" /\ q.pc \in {"load", "renew", "fill"} /\ StillOpen(q) /\ q.args.h \in Pending =>
          /\ handles[q.args.h].path = q.path
          /\ q.pc # "load" => ~At(q.path).ph)'
  BY DEF Knowing, StillOpen, HandlesOf, Pending, OpenHandles, At
<1>6. (q.op = "remove" /\ q.pc = "shared" /\ ~q.args.dir => \E i \in Nat : Leads(inodes, i, q.path))'
  BY <1>1 DEF Knowing, LeadsKept
<1> QED BY <1>3, <1>4, <1>5, <1>6 DEF Knowing

(* A step of one request that changes nothing but the table. *)
Turns(r, q) ==
    /\ UNCHANGED <<tree, node, handles, task>> /\ calls' \in Nat /\ Inserts /\ Set(r, q)
LEMMA Goes ==
    ASSUME Inv, NEW r \in Request, NEW q \in Calls, Turns(r, q), Place(q),
           req[r].pc # "remap", q.pc # "remap",
           NsGranted(q, req[r].ns),
           (q.lease = req[r].lease /\ q.on = req[r].on) \/ Grantable(q.lease, q.on),
           Knowing(q)
    PROVE  Inv'
<1>1. /\ req'[r] = q /\ \A s \in Request \ {r} : req'[s] = req[s]
  BY SetIs DEF Inv, Turns
<1>2. SameRenames
  BY <1>1 DEF SameRenames
<1>3. Knowing(q)'
  BY <1>2, KnowsOn DEF Turns
<1> QED BY <1>3, Advances DEF Turns

LEMMA Ends ==
    ASSUME Inv, NEW r \in Request, Turns(r, Idle), req[r].pc # "remap"
    PROVE  Inv'
<1>1. Place(Idle) /\ Idle.ns = "none" /\ Idle.lease = "none" /\ Idle.pc # "remap"
  BY IdleIs
<1>2. Knowing(Idle)'
  BY IdleIs DEF Knowing
<1> QED BY <1>1, <1>2, Advances DEF Turns, NsGranted, Grantable

LEMMA FailsEnds ==
    ASSUME Inv, NEW r \in Request, Fails(r), req[r].pc # "remap"
    PROVE  Inv'
BY Ends DEF Turns, Fails, Reply, Inserts, Inv, Types

LEMMA StepsGoes ==
    ASSUME Inv, NEW r \in Request, NEW q \in Calls, Steps(r, q), Place(q),
           req[r].pc # "remap", q.pc # "remap",
           NsGranted(q, req[r].ns),
           (q.lease = req[r].lease /\ q.on = req[r].on) \/ Grantable(q.lease, q.on),
           Knowing(q)
    PROVE  Inv'
BY Goes DEF Turns, Steps, Inserts, Inv, Types

-----------------------------------------------------------------------------
(* Requests that begin *)

LEMMA Busy ==
    ASSUME Inv, NEW r \in Request
    PROVE  /\ Place(req[r]) /\ Knowing(req[r])
           /\ req[r].pc # "idle" => req[r] \in Calls
           /\ req[r].op # "none" => req[r] \in Calls
<1>1. req[r] \in Calls \/ req[r] = Idle
  BY DEF Inv, Types
<1> QED BY <1>1, IdleIs DEF Inv, Places, Known

LEMMA TableNat ==
    ASSUME Inv
    PROVE  /\ Table(inodes) /\ GivenOut(inodes) \subseteq Nat
           /\ \A h \in OpenHandles : handles[h].ino \in Nat
<1>1. Table(inodes)
  BY DEF Inv, Types
<1>2. GivenOut(inodes) \subseteq Nat
  BY <1>1 DEF Table, GivenOut
<1>3. ASSUME NEW h \in OpenHandles PROVE handles[h].ino \in Nat
  BY OpenHandleType DEF Inv, OpenFile
<1> QED BY <1>1, <1>2, <1>3

LEMMA CallIs ==
    ASSUME NEW op \in Op, NEW args \in Args
    PROVE  /\ Call(op, args) \in Calls
           /\ Call(op, args).op = op /\ Call(op, args).args = args /\ Call(op, args).pc = "ns"
           /\ Call(op, args).ns = "none" /\ Call(op, args).lease = "none" /\ Call(op, args).on = {}
<1>1. NoPath \in Paths
  BY PathIsSeq
<1>2. 0 \in 0 .. MaxNodes
  BY DriveAssumption
<1>3. {} \in SUBSET Paths /\ {} \in SUBSET Nat
  OBVIOUS
<1>4. Call(op, args) \in Calls
  BY <1>1, <1>2, <1>3 DEF Call, Calls, PC, None
<1> QED BY <1>4 DEF Call

LEMMA Begins ==
    ASSUME Inv, NEW r \in Request, req[r].pc = "idle", NEW op \in Op, NEW args \in Args,
           New(r, Call(op, args)), op # "lookup",
           op = "open" => args \in OpenArgs, op = "read" => args \in ReadArgs,
           op \in {"make", "remove"} => args \in ChildArgs, op = "rename" => args \in RenameArgs,
           op = "setattr" => args \in SetAttrArgs
    PROVE  Inv'
<1> DEFINE q == Call(op, args)
<1>1. /\ q \in Calls /\ q.op = op /\ q.args = args /\ q.pc = "ns"
      /\ q.ns = "none" /\ q.lease = "none" /\ q.on = {}
  BY CallIs
<1>2. Turns(r, q)
  BY DEF New, Turns, Inserts, Inv, Types
<1> HIDE DEF q
<1>3. Place(q)
  BY <1>1 DEF Place
<1>4. Knowing(q)
  BY <1>1 DEF Knowing
<1>5. NsGranted(q, req[r].ns) /\ Grantable(q.lease, q.on)
  BY <1>1 DEF NsGranted, Grantable
<1>6. req[r].pc # "remap" /\ q.pc # "remap"
  BY <1>1
<1> QED BY <1>1, <1>2, <1>3, <1>4, <1>5, <1>6, Goes

LEMMA BeginsLookup ==
    ASSUME Inv, NEW r \in Request, req[r].pc = "idle", NEW p \in Path, Lookup(r, p)
    PROVE  Inv'
<1> DEFINE c == Call("lookup", <<>>)
           q == [c EXCEPT !.path = p, !.pc = "insert"]
<1>1. c \in Calls /\ c.op = "lookup" /\ c.ns = "none" /\ c.lease = "none" /\ c.on = {}
  BY CallIs DEF Op, Args
<1>2. Turns(r, q)
  BY DEF Lookup, New, Turns, Inserts, Inv, Types
<1> HIDE DEF c
<1>3. /\ q \in Calls /\ q.op = "lookup" /\ q.pc = "insert" /\ q.ns = "none" /\ q.lease = "none"
      /\ q.on = {}
  BY <1>1, PathIsSeq DEF Calls, PC
<1> HIDE DEF q
<1>4. Place(q) /\ Knowing(q) /\ NsGranted(q, req[r].ns) /\ Grantable(q.lease, q.on)
  BY <1>3 DEF Place, Knowing, NsGranted, Grantable
<1>5. req[r].pc # "remap" /\ q.pc # "remap"
  BY <1>3
<1> QED BY <1>2, <1>3, <1>4, <1>5, Goes

LEMMA AskKeeps ==
    ASSUME Inv, NEW r \in Request, Ask(r)
    PROVE  Inv'
<1>0. req[r].pc = "idle"
  BY DEF Ask
<1>1. ASSUME NEW i \in GivenOut(inodes), NEW wr \in BOOLEAN, NEW trunc \in BOOLEAN, Open(r, i, wr, trunc)
      PROVE  Inv'
  <2>1. [ino |-> i, wr |-> wr, trunc |-> trunc] \in OpenArgs
    BY TableNat DEF OpenArgs
  <2> QED BY <1>0, <1>1, <2>1, Begins DEF Open, Op, Args
<1>2. ASSUME NEW h \in Pending, Read(r, h) PROVE Inv'
  <2>1. [h |-> h, ino |-> handles[h].ino] \in ReadArgs
    BY TableNat DEF ReadArgs, Pending, OpenHandles
  <2> QED BY <1>0, <1>2, <2>1, Begins DEF Read, Op, Args
<1>3. ASSUME NEW i \in GivenOut(inodes), NEW n \in Name, NEW dir \in BOOLEAN,
             Make(r, i, n, dir) \/ Remove(r, i, n, dir)
      PROVE  Inv'
  <2>1. [ino |-> i, name |-> n, dir |-> dir] \in ChildArgs
    BY TableNat DEF ChildArgs
  <2>2. CASE Make(r, i, n, dir)
    BY <1>0, <2>1, <2>2, Begins DEF Make, Op, Args
  <2>3. CASE Remove(r, i, n, dir)
    BY <1>0, <2>1, <2>3, Begins DEF Remove, Op, Args
  <2> QED BY <1>3, <2>2, <2>3
<1>4. ASSUME NEW i \in GivenOut(inodes), NEW j \in GivenOut(inodes), NEW n \in Name, NEW m \in Name,
             Rename(r, i, n, j, m)
      PROVE  Inv'
  <2>1. [ino |-> i, name |-> n, ino2 |-> j, name2 |-> m] \in RenameArgs
    BY TableNat DEF RenameArgs
  <2> QED BY <1>0, <1>4, <2>1, Begins DEF Rename, Op, Args
<1>5. ASSUME NEW i \in GivenOut(inodes), NEW size \in {"zero", "some", "keep"}, SetAttr(r, i, size)
      PROVE  Inv'
  <2>1. [ino |-> i, size |-> size] \in SetAttrArgs
    BY TableNat DEF SetAttrArgs
  <2> QED BY <1>0, <1>5, <2>1, Begins DEF SetAttr, Op, Args
<1> QED BY <1>0, <1>1, <1>2, <1>3, <1>4, <1>5, BeginsLookup DEF Ask

-----------------------------------------------------------------------------
(* Requests that go on *)

LEMMA LoadKeeps ==
    ASSUME Inv, NEW r \in Request, LoadDone(r) \/ LoadFail(r)
    PROVE  Inv'
<1> DEFINE c == req[r]
<1>0. c \in Calls /\ Place(c) /\ Knowing(c) /\ c.pc = "load"
  BY Busy DEF LoadDone, LoadFail
<1>1. CASE LoadFail(r)
  BY <1>0, <1>1, FailsEnds DEF LoadFail
<1>2. CASE LoadDone(r)
  <2> DEFINE q == [c EXCEPT !.pc = c.then, !.load = NoPath]
  <2>1. Steps(r, q) /\ IsFile(c.load) /\ ~At(c.load).ph
    BY <1>2 DEF LoadDone
  <2>2. c.then \in {"renew", "promote", "dest"}
    BY <1>0 DEF Place
  <2> HIDE DEF c
  <2>3. /\ q \in Calls /\ q.pc = c.then /\ q.op = c.op /\ q.ns = c.ns /\ q.lease = c.lease /\ q.on = c.on
        /\ q.path = c.path /\ q.dest = c.dest /\ q.want = c.want /\ q.args = c.args /\ q.then = c.then
    BY <1>0, <2>2, PathIsSeq DEF Calls, PC
  <2> HIDE DEF q
  <2>4. Place(q)
    BY <1>0, <2>2, <2>3 DEF Place
  <2>5. Knowing(q)
    <3>1. q.op = "open" => Leads(inodes, q.args.ino, q.path) /\ q.pc = "renew"
      BY <1>0, <2>3 DEF Knowing, Place
    <3>2. q.op = "read" /\ StillOpen(q) /\ q.args.h \in Pending =>
            handles[q.args.h].path = q.path /\ ~At(q.path).ph
      BY <1>0, <2>1, <2>3 DEF Knowing, Place, StillOpen
    <3>3. q.pc # "shared"
      BY <2>2, <2>3
    <3> QED BY <3>1, <3>2, <3>3 DEF Knowing
  <2>6. NsGranted(q, c.ns) /\ q.pc # "remap" /\ c.pc # "remap"
    BY <1>0, <2>2, <2>3 DEF NsGranted
  <2> QED BY <1>0, <2>1, <2>3, <2>4, <2>5, <2>6, StepsGoes DEF c
<1> QED BY <1>1, <1>2

(* A request that has the namespace to itself, or shares it, sees no rename *)
(* under way.                                                               *)
LEMMA NoRename ==
    ASSUME Inv, NEW r \in Request, req[r].ns # "none", req[r].pc # "remap"
    PROVE  \A s \in Request : ~Remapping(s)
BY RemapPaths DEF Inv, Namespace, Remapping

LEMMA NoRenameAtAll ==
    ASSUME Inv, CanRead
    PROVE  \A s \in Request : ~Remapping(s)
BY RemapPaths DEF CanRead, Remapping

(* What is found at the path of an inode follows it. *)
LEMMA FoundFollows ==
    ASSUME Inv, \A s \in Request : ~Remapping(s), NEW i, NEW p, Leads(inodes, i, p), Exists(p)
    PROVE  Following(i, tree[p])
<1>1. p \in Path /\ tree[p] # None
  BY DEF Exists
<1>2. \A x \in Path : tree[x] = tree[p] => x = p
  BY <1>1 DEF Inv, Single
<1> QED BY <1>2 DEF Following

LEMMA OpenStartKeeps ==
    ASSUME Inv, NEW r \in Request, OpenStart(r)
    PROVE  Inv'
<1> DEFINE c == req[r]
           i == req[r].args.ino
<1>0. c \in Calls /\ Place(c) /\ c.op = "open" /\ c.pc = "ns" /\ CanRead
  BY Busy DEF OpenStart
<1>1. CASE ~Live(inodes, i)
  BY <1>0, <1>1, FailsEnds DEF OpenStart
<1>2. CASE Live(inodes, i)
  <2> DEFINE q == [c EXCEPT !.ns = "read", !.pc = "shared", !.path = inodes.byInode[i]]
  <2>1. Steps(r, q)
    BY <1>2 DEF OpenStart
  <2>2. Leads(inodes, i, inodes.byInode[i]) /\ inodes.byInode[i] \in Paths
    BY <1>2, TableNat, LeadsBack DEF Leads
  <2> HIDE DEF c
  <2>3. /\ q \in Calls /\ q.pc = "shared" /\ q.op = "open" /\ q.ns = "read" /\ q.lease = c.lease
        /\ q.on = c.on /\ q.path = inodes.byInode[i] /\ q.args = c.args
    BY <1>0, <2>2 DEF Calls, PC
  <2> HIDE DEF q
  <2>4. Place(q)
    BY <1>0, <2>3 DEF Place
  <2>5. Knowing(q)
    BY <2>2, <2>3 DEF Knowing, c
  <2>6. NsGranted(q, c.ns) /\ q.pc # "remap" /\ c.pc # "remap"
    BY <1>0, <2>3 DEF NsGranted
  <2> QED BY <2>1, <2>3, <2>4, <2>5, <2>6, StepsGoes DEF c
<1> QED BY <1>1, <1>2

LEMMA OpenRenewKeeps ==
    ASSUME Inv, NEW r \in Request, OpenRenew(r)
    PROVE  Inv'
<1> DEFINE c == req[r]
           p == req[r].path
<1>0. /\ c \in Calls /\ Place(c) /\ Knowing(c) /\ c.op = "open" /\ c.pc = "renew" /\ CanRead
  BY Busy DEF OpenRenew
<1>1. CASE ~Exists(p)
  BY <1>0, <1>1, FailsEnds DEF OpenRenew
<1>2. CASE Exists(p)
  <2> DEFINE q == [c EXCEPT !.want = tree[p], !.lease = "none", !.on = {}, !.pc = "excl"]
  <2>1. Steps(r, q)
    BY <1>2 DEF OpenRenew
  <2>2. tree[p] \in 0 .. MaxNodes /\ tree[p] # None
    BY <1>2 DEF Exists, Inv, Types
  <2>3. Following(c.args.ino, tree[p])
    BY <1>0, <1>2, NoRenameAtAll, FoundFollows DEF Knowing
  <2> HIDE DEF c
  <2>4. /\ q \in Calls /\ q.pc = "excl" /\ q.op = "open" /\ q.ns = c.ns /\ q.lease = "none"
        /\ q.on = {} /\ q.want = tree[p] /\ q.args = c.args
    BY <1>0, <2>2 DEF Calls, PC
  <2> HIDE DEF q
  <2>5. Place(q)
    BY <1>0, <2>2, <2>4 DEF Place
  <2>6. Knowing(q)
    BY <2>3, <2>4 DEF Knowing
  <2>7. NsGranted(q, c.ns) /\ q.pc # "remap" /\ c.pc # "remap" /\ Grantable(q.lease, q.on)
    BY <1>0, <2>4 DEF NsGranted, Grantable
  <2> QED BY <2>1, <2>4, <2>5, <2>6, <2>7, StepsGoes DEF c
<1> QED BY <1>1, <1>2

LEMMA ReadStartKeeps ==
    ASSUME Inv, NEW r \in Request, ReadStart(r)
    PROVE  Inv'
<1> DEFINE c == req[r]
           i == req[r].args.ino
           h == req[r].args.h
           p == inodes.byInode[i]
<1>0. c \in Calls /\ Place(c) /\ c.op = "read" /\ c.pc = "ns" /\ CanRead
  BY Busy DEF ReadStart
<1>1. CASE Fails(r)
  BY <1>0, <1>1, FailsEnds
<1>2. ASSUME StillOpen(c), h \in Pending, Live(inodes, i), IsFile(p),
             \/ IsPlaceholder(p) /\ Steps(r, Hydrating([c EXCEPT !.path = p], p, "renew"))
             \/ ~IsPlaceholder(p) /\ Steps(r, [c EXCEPT !.path = p, !.ns = "read", !.pc = "fill"])
      PROVE  Inv'
  <2>1. Leads(inodes, i, p) /\ p \in Paths
    BY <1>2, TableNat, LeadsBack DEF Leads
  <2>2. handles[h].path = p
    <3>1. Holds(h) /\ handles[h].node = None /\ handles[h].ino = i
      BY <1>2 DEF Inv, Handles, Pending, StillOpen, HandlesOf
    <3>2. Leads(inodes, i, handles[h].path)
      BY <3>1 DEF Holds
    <3> QED BY <2>1, <3>2, LeadsOne
  <2>3. CASE IsPlaceholder(p) /\ Steps(r, Hydrating([c EXCEPT !.path = p], p, "renew"))
    <3> DEFINE q == Hydrating([c EXCEPT !.path = p], p, "renew")
    <3> HIDE DEF c
    <3>1. /\ q \in Calls /\ q.pc = "load" /\ q.op = "read" /\ q.ns = c.ns /\ q.lease = c.lease
          /\ q.on = c.on /\ q.path = p /\ q.load = p /\ q.then = "renew" /\ q.args = c.args
      BY <1>0, <2>1 DEF Calls, PC, Hydrating
    <3>2. Steps(r, q)
      BY <2>3
    <3> HIDE DEF q
    <3>3. Place(q)
      BY <1>0, <3>1 DEF Place
    <3>4. Knowing(q)
      BY <2>2, <3>1 DEF Knowing, c
    <3>5. NsGranted(q, c.ns) /\ q.pc # "remap" /\ c.pc # "remap"
      BY <1>0, <3>1 DEF NsGranted
    <3> QED BY <3>1, <3>2, <3>3, <3>4, <3>5, StepsGoes DEF c
  <2>4. CASE ~IsPlaceholder(p) /\ Steps(r, [c EXCEPT !.path = p, !.ns = "read", !.pc = "fill"])
    <3> DEFINE q == [c EXCEPT !.path = p, !.ns = "read", !.pc = "fill"]
    <3> HIDE DEF c
    <3>1. /\ q \in Calls /\ q.pc = "fill" /\ q.op = "read" /\ q.ns = "read" /\ q.lease = c.lease
          /\ q.on = c.on /\ q.path = p /\ q.args = c.args
      BY <1>0, <2>1 DEF Calls, PC
    <3>2. Steps(r, q)
      BY <2>4
    <3> HIDE DEF q
    <3>3. Place(q)
      BY <1>0, <3>1 DEF Place
    <3>4. Knowing(q)
      BY <1>2, <2>2, <2>4, <3>1 DEF Knowing, IsPlaceholder, c
    <3>5. NsGranted(q, c.ns) /\ q.pc # "remap" /\ c.pc # "remap"
      BY <1>0, <3>1 DEF NsGranted
    <3> QED BY <3>1, <3>2, <3>3, <3>4, <3>5, StepsGoes DEF c
  <2> QED BY <1>2, <2>3, <2>4
<1>3. \/ Fails(r)
      \/ /\ StillOpen(c) /\ h \in Pending /\ Live(inodes, i) /\ IsFile(p)
         /\ \/ IsPlaceholder(p) /\ Steps(r, Hydrating([c EXCEPT !.path = p], p, "renew"))
            \/ ~IsPlaceholder(p) /\ Steps(r, [c EXCEPT !.path = p, !.ns = "read", !.pc = "fill"])
  BY DEF ReadStart, IsPlaceholder
<1> QED BY <1>1, <1>2, <1>3

LEMMA ReadRenewKeeps ==
    ASSUME Inv, NEW r \in Request, ReadRenew(r)
    PROVE  Inv'
<1> DEFINE c == req[r]
           q == [c EXCEPT !.pc = "fill"]
<1>0. c \in Calls /\ Place(c) /\ Knowing(c) /\ c.op = "read" /\ c.pc = "renew"
  BY Busy DEF ReadRenew
<1>1. Steps(r, q)
  BY DEF ReadRenew
<1> HIDE DEF c
<1>2. /\ q \in Calls /\ q.pc = "fill" /\ q.op = "read" /\ q.ns = c.ns /\ q.lease = c.lease
      /\ q.on = c.on /\ q.path = c.path /\ q.args = c.args
  BY <1>0 DEF Calls, PC
<1> HIDE DEF q
<1>3. Place(q)
  BY <1>0, <1>2 DEF Place
<1>4. Knowing(q)
  BY <1>0, <1>2 DEF Knowing, StillOpen
<1>5. NsGranted(q, c.ns) /\ q.pc # "remap" /\ c.pc # "remap"
  BY <1>0, <1>2 DEF NsGranted
<1> QED BY <1>1, <1>2, <1>3, <1>4, <1>5, StepsGoes DEF c

LEMMA LookupInsertKeeps ==
    ASSUME Inv, NEW r \in Request, LookupInsert(r)
    PROVE  Inv'
<1>1. req[r] \in Calls /\ Place(req[r]) /\ req[r].op = "lookup"
  BY Busy DEF LookupInsert
<1>2. req[r].pc # "remap" /\ req[r].path \in Paths
  BY <1>1 DEF Place, Calls
<1>3. Turns(r, Idle)
  BY <1>2 DEF LookupInsert, Reply, Turns, Inserts, Inv, Types
<1> QED BY <1>2, <1>3, Ends

(* A step of an operation that knows nothing of inodes. *)
Blind(q) == q.op \notin {"open", "read"} /\ (q.op = "remove" => q.pc # "shared")
LEMMA BlindKnows == ASSUME NEW q, Blind(q) PROVE Knowing(q)
BY DEF Blind, Knowing

LEMMA MakeStartKeeps ==
    ASSUME Inv, NEW r \in Request, MakeStart(r)
    PROVE  Inv'
<1> DEFINE c == req[r]
           p == Child(req[r].args.ino, req[r].args.name)
<1>0. c \in Calls /\ Place(c) /\ c.op = "make" /\ c.pc = "ns" /\ CanWrite
  BY Busy DEF MakeStart
<1>1. CASE p \notin Path
  BY <1>0, <1>1, FailsEnds DEF MakeStart
<1>2. CASE p \in Path
  <2> DEFINE q == [c EXCEPT !.ns = "write", !.path = p, !.pc = "excl"]
  <2>1. Steps(r, q)
    BY <1>2 DEF MakeStart
  <2> HIDE DEF c, p
  <2>2. /\ q \in Calls /\ q.pc = "excl" /\ q.op = "make" /\ q.ns = "write" /\ q.lease = c.lease
        /\ q.on = c.on /\ q.path = p /\ q.args = c.args
    BY <1>0, <1>2, PathIsSeq DEF Calls, PC
  <2> HIDE DEF q
  <2>3. Place(q)
    BY <1>0, <1>2, <2>2 DEF Place
  <2>4. Knowing(q)
    BY <2>2, BlindKnows DEF Blind
  <2>5. NsGranted(q, c.ns) /\ q.pc # "remap" /\ c.pc # "remap"
    BY <1>0, <2>2 DEF NsGranted
  <2> QED BY <2>1, <2>2, <2>3, <2>4, <2>5, StepsGoes DEF c
<1> QED BY <1>1, <1>2

LEMMA RemoveStartKeeps ==
    ASSUME Inv, NEW r \in Request, RemoveStart(r)
    PROVE  Inv'
<1> DEFINE c == req[r]
           p == Child(req[r].args.ino, req[r].args.name)
<1>0. c \in Calls /\ Place(c) /\ c.op = "remove" /\ c.pc = "ns" /\ CanWrite
  BY Busy DEF RemoveStart
<1>1. CASE ~Exists(p) \/ IsDir(p) # req[r].args.dir
  BY <1>0, <1>1, FailsEnds DEF RemoveStart
<1>2. CASE Exists(p) /\ IsDir(p) = req[r].args.dir
  <2>1. p \in Path /\ p \in Paths
    BY <1>2, PathIsSeq DEF Exists
  <2>2. PICK q : q = [c EXCEPT !.ns = "write", !.path = p, !.pc = "shared"]
    OBVIOUS
  <2>3. /\ Turns(r, q) \/ Turns(r, Idle)
        /\ ~c.args.dir => inodes' = Insert(inodes, p)
    BY <1>2, <2>1, <2>2 DEF RemoveStart, Steps, Turns, Inserts, Inv, Types
  <2> HIDE DEF c, p
  <2>4. /\ q \in Calls /\ q.pc = "shared" /\ q.op = "remove" /\ q.ns = "write" /\ q.lease = c.lease
        /\ q.on = c.on /\ q.path = p /\ q.args = c.args
    BY <1>0, <2>1, <2>2 DEF Calls, PC
  <2>5. Place(q)
    BY <1>0, <2>1, <2>4 DEF Place
  <2>6. ~q.args.dir => \E j \in Nat : Leads(inodes', j, q.path)
    <3>1. /\ Table(Insert(inodes, p))
          /\ Leads(Insert(inodes, p), Insert(inodes, p).byPath[p], p)
      BY <2>1, TableNat, InsertKeeps
    <3>2. Insert(inodes, p).byPath[p] \in Nat
      BY <3>1, LeadsBack, LeadsForth
    <3> QED BY <2>3, <2>4, <3>1, <3>2
  <2>7. Knowing(q)'
    BY <2>4, <2>6 DEF Knowing
  <2>8. NsGranted(q, c.ns) /\ q.pc # "remap" /\ c.pc # "remap"
    BY <1>0, <2>4 DEF NsGranted
  <2>9. CASE Turns(r, q)
    BY <2>4, <2>5, <2>7, <2>8, <2>9, Advances DEF c, Turns
  <2>10. CASE Turns(r, Idle)
    BY <2>8, <2>10, Ends DEF c
  <2> QED BY <2>3, <2>9, <2>10
<1> QED BY <1>1, <1>2

(* A change goes on under the shared lease of its paths. *)
LEMMA SharedGoes ==
    ASSUME Inv, NEW r \in Request, NEW S \in SUBSET Paths, NEW todo \in SUBSET Nat, CanShare(S),
           req[r].op \in {"remove", "rename", "setattr"}, req[r].pc = "shared",
           Turns(r, [req[r] EXCEPT !.lease = "shared", !.on = S, !.pc = "promote", !.todo = todo])
    PROVE  Inv'
<1> DEFINE c == req[r]
           q == [c EXCEPT !.lease = "shared", !.on = S, !.pc = "promote", !.todo = todo]
<1>0. c \in Calls /\ Place(c)
  BY Busy
<1>1. Turns(r, q) /\ c.op \in {"remove", "rename", "setattr"} /\ c.pc = "shared"
  OBVIOUS
<1> HIDE DEF c
<1>2. /\ q \in Calls /\ q.pc = "promote" /\ q.op = c.op /\ q.ns = c.ns /\ q.lease = "shared"
      /\ q.on = S /\ q.path = c.path /\ q.dest = c.dest /\ q.args = c.args
  BY <1>0 DEF Calls, PC
<1> HIDE DEF q
<1>3. Place(q)
  BY <1>0, <1>1, <1>2 DEF Place
<1>4. Knowing(q)
  BY <1>1, <1>2, BlindKnows DEF Blind
<1>5. NsGranted(q, c.ns) /\ Grantable(q.lease, q.on) /\ q.pc # "remap" /\ c.pc # "remap"
  BY <1>1, <1>2 DEF NsGranted, Grantable
<1> QED BY <1>1, <1>2, <1>3, <1>4, <1>5, Goes DEF c

LEMMA RemoveSharedKeeps ==
    ASSUME Inv, NEW r \in Request, RemoveShared(r)
    PROVE  Inv'
<1> DEFINE p == req[r].path
<1>0. /\ req[r] \in Calls /\ Place(req[r]) /\ req[r].op = "remove" /\ req[r].pc = "shared"
      /\ CanShare({p})
  BY Busy DEF RemoveShared
<1>1. PICK todo : /\ todo = IF req[r].args.dir THEN {} ELSE {inodes.byPath[p]}
                  /\ Steps(r, [req[r] EXCEPT !.lease = "shared", !.on = {p}, !.pc = "promote", !.todo = todo])
  BY DEF RemoveShared
<1>2. p \in Paths
  BY <1>0, PathIsSeq DEF Place
<1>3. todo \in SUBSET Nat
  <2>1. ~req[r].args.dir => \E i \in Nat : Leads(inodes, i, p)
    BY <1>0, Busy DEF Knowing
  <2>2. ~req[r].args.dir => inodes.byPath[p] \in Nat
    BY <2>1, TableNat, LeadsBack
  <2> QED BY <1>1, <2>2
<1> QED BY <1>0, <1>1, <1>2, <1>3, SharedGoes DEF Steps, Turns, Inserts, Inv, Types

LEMMA BlindGoes ==
    ASSUME Inv, NEW r \in Request, NEW q \in Calls, Turns(r, q), Place(q), Blind(q),
           req[r].pc # "remap", q.pc # "remap",
           q.ns = req[r].ns \/ (q.ns = "write" /\ CanWrite),
           q.lease = "none" \/ (q.lease = req[r].lease /\ q.on = req[r].on)
    PROVE  Inv'
BY Goes, BlindKnows DEF NsGranted, Grantable

LEMMA StepsTurns == ASSUME Inv, NEW r, NEW q, Steps(r, q) PROVE Turns(r, q)
BY DEF Steps, Turns, Inserts, Inv, Types

LEMMA RenameStartKeeps ==
    ASSUME Inv, NEW r \in Request, RenameStart(r)
    PROVE  Inv'
<1> DEFINE c == req[r]
           s == Child(req[r].args.ino, req[r].args.name)
           d == Child(req[r].args.ino2, req[r].args.name2)
<1>0. c \in Calls /\ Place(c) /\ c.op = "rename" /\ c.pc = "ns" /\ CanWrite
  BY Busy DEF RenameStart
<1>1. CASE s \notin Path \/ d \notin Path \/ s = d
  BY <1>0, <1>1, FailsEnds DEF RenameStart
<1>2. CASE s \in Path /\ d \in Path /\ s # d
  <2> DEFINE q == [c EXCEPT !.ns = "write", !.path = s, !.dest = d, !.pc = "shared"]
  <2>1. Turns(r, q)
    BY <1>2, StepsTurns DEF RenameStart
  <2> HIDE DEF c, s, d
  <2>2. /\ q \in Calls /\ q.pc = "shared" /\ q.op = "rename" /\ q.ns = "write" /\ q.lease = c.lease
        /\ q.on = c.on /\ q.path = s /\ q.dest = d /\ q.args = c.args
    BY <1>0, <1>2, PathIsSeq DEF Calls, PC
  <2> HIDE DEF q
  <2>3. Place(q) /\ Blind(q)
    BY <1>0, <1>2, <2>2 DEF Place, Blind
  <2> QED BY <1>0, <2>1, <2>2, <2>3, BlindGoes DEF c
<1> QED BY <1>1, <1>2

LEMMA RenameSharedKeeps ==
    ASSUME Inv, NEW r \in Request, RenameShared(r)
    PROVE  Inv'
<1> DEFINE s == req[r].path
           d == req[r].dest
<1>0. /\ req[r] \in Calls /\ Place(req[r]) /\ req[r].op = "rename" /\ req[r].pc = "shared"
      /\ CanShare({s, d})
  BY Busy DEF RenameShared
<1>1. s \in Paths /\ d \in Paths
  BY <1>0, PathIsSeq DEF Place
<1>2. PICK todo : todo = PendingBelow(s)
  OBVIOUS
<1>3. todo \in SUBSET Nat
  BY <1>2, TableNat DEF PendingBelow, Pending
<1> DEFINE q == [req[r] EXCEPT !.lease = "shared", !.on = {s, d}, !.pc = "promote", !.todo = todo]
<1>4. CASE Fails(r)
  BY <1>0, <1>4, FailsEnds
<1>5. CASE ~Fails(r)
  <2>1. /\ inodes' = Insert(inodes, s) /\ UNCHANGED <<tree, node, handles, task, calls>>
        /\ Set(r, IF HasWritable(inodes'.byPath[s]) THEN Idle ELSE q)
    BY <1>2, <1>5 DEF RenameShared
  <2> HIDE DEF q
  <2>2. Turns(r, q) \/ Turns(r, Idle)
    BY <1>1, <2>1 DEF Turns, Inserts, Inv, Types
  <2>3. CASE Turns(r, q)
    BY <1>0, <1>1, <1>3, <2>3, SharedGoes DEF q
  <2>4. CASE Turns(r, Idle)
    BY <1>0, <2>4, Ends
  <2> QED BY <2>2, <2>3, <2>4
<1> QED BY <1>4, <1>5

LEMMA SetAttrStartKeeps ==
    ASSUME Inv, NEW r \in Request, SetAttrStart(r)
    PROVE  Inv'
<1> DEFINE c == req[r]
           p == inodes.byInode[req[r].args.ino]
<1>0. c \in Calls /\ Place(c) /\ c.op = "setattr" /\ c.pc = "ns" /\ CanWrite
  BY Busy DEF SetAttrStart
<1>1. CASE Fails(r)
  BY <1>0, <1>1, FailsEnds
<1>2. CASE ~Fails(r)
  <2> DEFINE q == [c EXCEPT !.ns = "write", !.path = p, !.pc = "shared"]
  <2>1. Turns(r, q) /\ p \in Path
    BY <1>2, StepsTurns DEF SetAttrStart, Exists
  <2> HIDE DEF c, p
  <2>2. /\ q \in Calls /\ q.pc = "shared" /\ q.op = "setattr" /\ q.ns = "write" /\ q.lease = c.lease
        /\ q.on = c.on /\ q.path = p /\ q.args = c.args
    BY <1>0, <2>1, PathIsSeq DEF Calls, PC
  <2> HIDE DEF q
  <2>3. Place(q) /\ Blind(q)
    BY <1>0, <2>2 DEF Place, Blind
  <2> QED BY <1>0, <2>1, <2>2, <2>3, BlindGoes DEF c
<1> QED BY <1>1, <1>2

LEMMA SetAttrSharedKeeps ==
    ASSUME Inv, NEW r \in Request, SetAttrShared(r)
    PROVE  Inv'
<1> DEFINE p == req[r].path
           todo == {req[r].args.ino}
<1>0. /\ req[r] \in Calls /\ Place(req[r]) /\ req[r].op = "setattr" /\ req[r].pc = "shared"
      /\ CanShare({p})
  BY Busy DEF SetAttrShared
<1>1. p \in Paths /\ todo \in SUBSET Nat
  BY <1>0 DEF Place, SetAttrArgs, Calls
<1>2. Turns(r, [req[r] EXCEPT !.lease = "shared", !.on = {p}, !.pc = "promote", !.todo = todo])
  BY StepsTurns DEF SetAttrShared
<1> QED BY <1>0, <1>1, <1>2, SharedGoes

(* Waiting for a download, or past one more inode: the promotion goes on. *)
LEMMA PromotionGoes ==
    ASSUME Inv, NEW r \in Request, NEW q \in Calls, Turns(r, q),
           req[r].op \in {"remove", "rename", "setattr"}, req[r].pc \in {"promote", "dest"},
           req[r].pc = "dest" => req[r].op = "rename",
           q.op = req[r].op, q.args = req[r].args, q.ns = req[r].ns, q.path = req[r].path, q.dest = req[r].dest,
           \/ q.lease = req[r].lease /\ q.on = req[r].on
           \/ q.lease = "none" /\ q.on = {},
           \/ q.pc \in {"promote", "excl"}
           \/ q.pc = "dest" /\ q.op = "rename"
           \/ q.pc = "load" /\ q.then = req[r].pc
    PROVE  Inv'
<1> DEFINE c == req[r]
<1>1. Place(c)
  BY Busy
<1>2. q.pc \notin {"remap", "shared", "ns"} /\ c.pc \notin {"remap", "ns"} /\ c.lease # "excl"
  BY <1>1 DEF Place
<1>3. Place(q)
  <2> HIDE DEF c
  <2>1. c.op \in {"remove", "rename", "setattr"} /\ c.pc \in {"promote", "dest"} /\ (c.pc = "dest" => c.op = "rename")
    BY DEF c
  <2>2. q.op = c.op /\ q.args = c.args /\ q.ns = c.ns /\ q.path = c.path /\ q.dest = c.dest
    BY DEF c
  <2>3. q.lease # "excl"
    BY <1>2 DEF c
  <2>4. /\ q.op \in {"make", "remove"} /\ q.pc # "ns" => q.ns = "write" /\ q.path \in Path
        /\ q.op = "rename" /\ q.pc # "ns" =>
              q.ns = "write" /\ q.path \in Path /\ q.dest \in Path /\ q.path # q.dest
        /\ q.op = "remove" => q.args \in ChildArgs
        /\ q.op = "rename" => q.args \in RenameArgs
        /\ q.op = "setattr" => q.args \in SetAttrArgs
    BY <1>1, <1>2, <2>1, <2>2 DEF Place
  <2>5. /\ q.pc = "dest" => q.op = "rename"
        /\ q.pc = "load" => q.then \in {"promote", "dest"}
        /\ q.pc = "load" /\ q.then = "dest" => q.op = "rename"
        /\ q.op \notin {"make", "open", "read"}
    BY <2>1, <2>2 DEF c
  <2> QED BY <1>2, <2>3, <2>4, <2>5 DEF Place
<1>4. Blind(q)
  BY <1>2 DEF Blind
<1> QED BY <1>2, <1>3, <1>4, BlindGoes

-----------------------------------------------------------------------------
(* Steps that open, fill or close a handle, or change what is there *)

(* A step of one request, whatever else it changes. *)
LEMMA Moves ==
    ASSUME Inv, NEW r \in Request, NEW q \in Calls \cup {Idle}, Set(r, q), Place(q),
           NsGranted(q, req[r].ns), Types', Leases', Single', Stands',
           Calm(Request \ {r}), Knowing(q)',
           \A h \in Handle : \/ handles'[h] = handles[h] \/ h \in FreeHandles
                             \/ ~(handles'[h].open /\ handles'[h].node = None),
           \A h \in Handle : handles'[h] = handles[h] \/ (handles'[h].open => Holds(h)')
    PROVE  Inv'
<1> USE DEF Inv
<1>1. req'[r] = q /\ \A s \in Request \ {r} : req'[s] = req[s]
  BY SetIs
<1>2. Places'
  BY <1>1 DEF Places
<1>3. Namespace'
  BY <1>1, NamespaceKept
<1>4. Knowing(req[r])'
  BY <1>1 DEF Knowing
<1>5. Handles' /\ Known'
  BY <1>1, <1>4, Keeps
<1> QED BY <1>2, <1>3, <1>5

(* A request's reply, when it did not leave the table to be told. *)
LEMMA MovesAndEnds ==
    ASSUME Inv, NEW r \in Request, Reply(r), Types', Leases', Single', Stands',
           Calm(Request \ {r}),
           \A h \in Handle : \/ handles'[h] = handles[h] \/ h \in FreeHandles
                             \/ ~(handles'[h].open /\ handles'[h].node = None),
           \A h \in Handle : handles'[h] = handles[h] \/ (handles'[h].open => Holds(h)')
    PROVE  Inv'
<1>1. Place(Idle) /\ NsGranted(Idle, req[r].ns)
  BY IdleIs DEF NsGranted
<1>2. Knowing(Idle)'
  BY IdleIs DEF Knowing
<1> QED BY <1>1, <1>2, Moves DEF Reply

(* A promotion gives the pending handles of an inode their file. *)
LEMMA PromotedKeeps ==
    ASSUME Inv, NEW r \in Request, NEW q \in Calls, Set(r, q), Place(q), Blind(q),
           req[r].pc # "remap", q.pc # "remap", q.ns = req[r].ns,
           q.lease = req[r].lease, q.on = req[r].on,
           NEW i, NEW p, IsFile(p), ~At(p).ph, handles' = Promoted(i, tree[p]),
           UNCHANGED <<tree, node, inodes, task, calls>>
    PROVE  Inv'
<1> USE DEF Inv
<1>1. /\ req'[r] = q /\ \A s \in Request \ {r} : req'[s] = req[s]
      /\ req' \in [Request -> Calls \cup {Idle}]
  BY SetIs
<1> DEFINE n == tree[p]
<1>2. n \in 1 .. MaxNodes /\ n # None /\ ~node[n].ph
  BY DriveAssumption DEF IsFile, Exists, At, Types, None
<1> HIDE DEF n
<1>3. ASSUME NEW h \in Handle
      PROVE  \/ handles'[h] = handles[h]
             \/ /\ h \in Pending /\ handles'[h] = [handles[h] EXCEPT !.node = n, !.lease = "none"]
  BY DEF Promoted, n
<1>4. ASSUME NEW h \in Pending, handles'[h] = [handles[h] EXCEPT !.node = n, !.lease = "none"]
      PROVE  /\ handles'[h] \in OpenFile /\ handles'[h].node = n /\ handles'[h].lease = "none"
             /\ ~handles'[h].wr
  <2>1. h \in OpenHandles /\ handles[h].node = None /\ Holds(h)
    BY DEF Pending, Handles
  <2>2. ~handles[h].wr
    BY <2>1 DEF Holds
  <2>3. handles[h] \in OpenFile /\ n \in 0 .. MaxNodes
    BY <1>2, <2>1, OpenHandleType, DriveAssumption
  <2>4. PICK f \in OpenFile : f = handles[h]
    BY <2>3
  <2>5. [f EXCEPT !.node = n, !.lease = "none"] \in OpenFile
    BY <2>3 DEF OpenFile
  <2> QED BY <1>4, <2>2, <2>4, <2>5 DEF OpenFile
<1>5. Types'
  <2>1. handles' \in [Handle -> OpenFile \cup {Closed}]
    <3>1. ASSUME NEW h \in Handle PROVE handles'[h] \in OpenFile \cup {Closed}
      BY <1>3, <1>4 DEF Types
    <3>2. handles' = [h \in Handle |-> handles'[h]]
      BY DEF Promoted
    <3> QED BY <3>1, <3>2
  <2> QED BY <1>1, <2>1 DEF Types
<1>6. Leases'
  <2>1. \A h \in Handle : handles'[h].open => handles'[h].lease = "none" \/ handles'[h] = handles[h]
    BY <1>3, <1>4
  <2> QED BY <1>1, <2>1, LeasesShrink
<1>7. Single' /\ Stands'
  BY DEF Single, Stands
<1>8. Calm(Request \ {r})
  <2>1. SameRenames
    BY <1>1 DEF SameRenames
  <2> QED BY <2>1, CalmInserts DEF Inserts
<1>9. Knowing(q)'
  BY DEF Blind, Knowing
<1>10. ASSUME NEW h \in Handle
       PROVE  handles'[h] = handles[h] \/ (handles'[h].node = n /\ Holds(h)')
  <2>1. CASE handles'[h] = handles[h]
    BY <2>1
  <2>2. CASE h \in Pending /\ handles'[h] = [handles[h] EXCEPT !.node = n, !.lease = "none"]
    BY <1>2, <1>4, <2>2 DEF Holds
  <2> QED BY <1>3, <2>1, <2>2
<1>11. \A h \in Handle : \/ handles'[h] = handles[h] \/ h \in FreeHandles
                         \/ ~(handles'[h].open /\ handles'[h].node = None)
  BY <1>2, <1>10
<1>12. \A h \in Handle : handles'[h] = handles[h] \/ (handles'[h].open => Holds(h)')
  BY <1>10
<1>13. NsGranted(q, req[r].ns)
  BY DEF NsGranted
<1> QED BY <1>5, <1>6, <1>7, <1>8, <1>9, <1>11, <1>12, <1>13, Moves

LEMMA PromoteNextKeeps ==
    ASSUME Inv, NEW r \in Request, NEW pc \in {"promote", "dest"}, NEW then,
           req[r].op \in {"remove", "rename", "setattr"}, pc = "dest" => req[r].op = "rename",
           PromoteNext(r, pc, then)
    PROVE  Inv'
<1> DEFINE c == req[r]
           i == CHOOSE j \in req[r].todo : \A k \in req[r].todo : j <= k
           p == inodes.byInode[i]
           rest == [c EXCEPT !.todo = @ \ {i}]
           wait == Hydrating(c, p, pc)
<1>0. c \in Calls /\ Place(c) /\ c.pc = pc
  BY Busy DEF PromoteNext
<1>1. \/ Steps(r, rest)
      \/ Fails(r)
      \/ Live(inodes, i) /\ Steps(r, wait)
      \/ /\ IsFile(p) /\ ~At(p).ph /\ handles' = Promoted(i, tree[p]) /\ Set(r, rest)
         /\ UNCHANGED <<tree, node, inodes, task, calls>>
  BY DEF PromoteNext
<1>2. Live(inodes, i) => p \in Paths
  BY TableNat, LeadsBack DEF Leads
<1> HIDE DEF c, i, p
<1>3. /\ rest \in Calls /\ rest.pc = pc /\ rest.op = c.op /\ rest.args = c.args /\ rest.ns = c.ns
      /\ rest.path = c.path /\ rest.dest = c.dest /\ rest.lease = c.lease /\ rest.on = c.on
      /\ rest.then = c.then
  BY <1>0 DEF Calls, PC
<1>4. Live(inodes, i) =>
      /\ wait \in Calls /\ wait.pc = "load" /\ wait.op = c.op /\ wait.args = c.args /\ wait.ns = c.ns
      /\ wait.path = c.path /\ wait.dest = c.dest /\ wait.lease = c.lease /\ wait.on = c.on
      /\ wait.then = pc
  BY <1>0, <1>2 DEF Calls, PC, Hydrating
<1> HIDE DEF rest, wait
<1>5. CASE Steps(r, rest)
  BY <1>0, <1>3, <1>5, StepsTurns, PromotionGoes DEF c
<1>6. CASE Fails(r)
  BY <1>0, <1>6, FailsEnds DEF c
<1>7. CASE Live(inodes, i) /\ Steps(r, wait)
  BY <1>0, <1>4, <1>7, StepsTurns, PromotionGoes DEF c
<1>8. CASE /\ IsFile(p) /\ ~At(p).ph /\ handles' = Promoted(i, tree[p]) /\ Set(r, rest)
           /\ UNCHANGED <<tree, node, inodes, task, calls>>
  <2>1. PICK q \in Calls : q = rest
    BY <1>3
  <2>2. Place(q) /\ Blind(q) /\ q.ns = c.ns /\ q.lease = c.lease /\ q.on = c.on /\ q.pc = pc
    BY <1>0, <1>3, <2>1 DEF Place, Blind, c
  <2>3. PICK j, x : j = i /\ x = p
    OBVIOUS
  <2> QED BY <1>0, <1>8, <2>1, <2>2, <2>3, PromotedKeeps DEF c
<1> QED BY <1>1, <1>5, <1>6, <1>7, <1>8

LEMMA RemovePromoteKeeps ==
    ASSUME Inv, NEW r \in Request, RemovePromote(r)
    PROVE  Inv'
<1> DEFINE c == req[r]
           p == req[r].path
           q == [c EXCEPT !.want = tree[p], !.lease = "none", !.on = {}, !.pc = "excl"]
<1>0. c \in Calls /\ c.op = "remove"
  BY Busy DEF RemovePromote
<1>1. CASE PromoteNext(r, "promote", "promote")
  BY <1>0, <1>1, PromoteNextKeeps
<1>2. CASE c.pc = "promote" /\ (Fails(r) \/ (Exists(p) /\ Steps(r, q)))
  <2>1. CASE Fails(r)
    BY <1>2, <2>1, FailsEnds
  <2>2. CASE Exists(p) /\ Steps(r, q)
    <3>1. tree[p] \in 0 .. MaxNodes
      BY <2>2 DEF Exists, Inv, Types
    <3>2. c.pc = "promote"
      BY <1>2
    <3> HIDE DEF c
    <3>3. /\ q \in Calls /\ q.op = c.op /\ q.args = c.args /\ q.ns = c.ns /\ q.path = c.path
          /\ q.dest = c.dest /\ q.lease = "none" /\ q.on = {} /\ q.pc = "excl"
      BY <1>0, <3>1 DEF Calls, PC
    <3> HIDE DEF q
    <3> QED BY <1>0, <2>2, <3>2, <3>3, StepsTurns, PromotionGoes DEF c
  <2> QED BY <1>2, <2>1, <2>2
<1>3. \/ PromoteNext(r, "promote", "promote")
      \/ c.pc = "promote" /\ (Fails(r) \/ (Exists(p) /\ Steps(r, q)))
  BY DEF RemovePromote
<1> QED BY <1>1, <1>2, <1>3

LEMMA SetAttrPromoteKeeps ==
    ASSUME Inv, NEW r \in Request, SetAttrPromote(r)
    PROVE  Inv'
<1> DEFINE c == req[r]
           p == req[r].path
           q == [c EXCEPT !.want = tree[p], !.lease = "none", !.on = {}, !.pc = "excl"]
           wait == Hydrating(c, p, "promote")
<1>0. c \in Calls /\ c.op = "setattr"
  BY Busy DEF SetAttrPromote
<1>1. CASE PromoteNext(r, "promote", "promote")
  BY <1>0, <1>1, PromoteNextKeeps
<1>2. CASE c.pc = "promote" /\ (Fails(r) \/ (Exists(p) /\ (Steps(r, q) \/ Steps(r, wait))))
  <2>0. c.pc = "promote"
    BY <1>2
  <2>1. CASE Fails(r)
    BY <2>0, <2>1, FailsEnds
  <2>2. CASE Exists(p) /\ Steps(r, q)
    <3>1. tree[p] \in 0 .. MaxNodes
      BY <2>2 DEF Exists, Inv, Types
    <3> HIDE DEF c
    <3>3. /\ q \in Calls /\ q.op = c.op /\ q.args = c.args /\ q.ns = c.ns /\ q.path = c.path
          /\ q.dest = c.dest /\ q.lease = "none" /\ q.on = {} /\ q.pc = "excl"
      BY <1>0, <3>1 DEF Calls, PC
    <3> HIDE DEF q
    <3> QED BY <1>0, <2>0, <2>2, <3>3, StepsTurns, PromotionGoes DEF c
  <2>3. CASE Exists(p) /\ Steps(r, wait)
    <3>1. p = c.path
      OBVIOUS
    <3> HIDE DEF c, p
    <3>3. /\ wait \in Calls /\ wait.op = c.op /\ wait.args = c.args /\ wait.ns = c.ns
          /\ wait.path = c.path /\ wait.dest = c.dest /\ wait.lease = c.lease /\ wait.on = c.on
          /\ wait.pc = "load" /\ wait.then = "promote"
      BY <1>0, <3>1 DEF Calls, PC, Hydrating
    <3> HIDE DEF wait
    <3> QED BY <1>0, <2>0, <2>3, <3>3, StepsTurns, PromotionGoes DEF c
  <2> QED BY <1>2, <2>1, <2>2, <2>3
<1>3. \/ PromoteNext(r, "promote", "promote")
      \/ c.pc = "promote" /\ (Fails(r) \/ (Exists(p) /\ (Steps(r, q) \/ Steps(r, wait))))
  BY DEF SetAttrPromote
<1> QED BY <1>1, <1>2, <1>3

LEMMA RenamePromoteKeeps ==
    ASSUME Inv, NEW r \in Request, RenamePromote(r)
    PROVE  Inv'
<1> DEFINE c == req[r]
           s == req[r].path
           d == req[r].dest
<1>0. c \in Calls /\ c.op = "rename" /\ Place(c)
  BY Busy DEF RenamePromote
<1>1. CASE PromoteNext(r, "promote", "promote")
  BY <1>0, <1>1, PromoteNextKeeps
<1>2. CASE c.pc = "promote" /\ ~PromoteNext(r, "promote", "promote")
  <2>0. s \in Path /\ d \in Path /\ d \in Paths /\ tree[s] \in 0 .. MaxNodes
    BY <1>0, <1>2, PathIsSeq DEF Place, Inv, Types
  <2> DEFINE q == [c EXCEPT !.want = tree[s], !.pc = "dest"]
             told(n) == [q EXCEPT !.todo = {n}]
  <2>1. \/ Fails(r)
        \/ Steps(r, q)
        \/ /\ inodes' = Insert(inodes, d) /\ UNCHANGED <<tree, node, handles, task, calls>>
           /\ Set(r, Idle) \/ Set(r, told(inodes'.byPath[d]))
    BY <1>2 DEF RenamePromote
  <2>2. CASE Fails(r)
    BY <1>2, <2>2, FailsEnds
  <2>3. CASE Steps(r, q)
    <3> HIDE DEF c, s
    <3>1. /\ q \in Calls /\ q.op = c.op /\ q.args = c.args /\ q.ns = c.ns /\ q.path = c.path
          /\ q.dest = c.dest /\ q.lease = c.lease /\ q.on = c.on /\ q.pc = "dest"
      BY <1>0, <2>0 DEF Calls, PC
    <3> HIDE DEF q
    <3> QED BY <1>0, <1>2, <2>3, <3>1, StepsTurns, PromotionGoes DEF c
  <2>4. CASE /\ inodes' = Insert(inodes, d) /\ UNCHANGED <<tree, node, handles, task, calls>>
             /\ Set(r, Idle) \/ Set(r, told(inodes'.byPath[d]))
    <3>1. PICK n : n = inodes'.byPath[d]
      OBVIOUS
    <3>2. n \in Nat
      <4>1. Table(inodes') /\ Leads(inodes', n, d)
        BY <2>0, <2>4, <3>1, TableNat, InsertKeeps
      <4> QED BY <4>1, LeadsBack, LeadsForth
    <3>3. Turns(r, Idle) \/ Turns(r, told(n))
      BY <2>0, <2>4, <3>1 DEF Turns, Inserts, Inv, Types
    <3>4. CASE Turns(r, Idle)
      BY <1>2, <3>4, Ends
    <3>5. CASE Turns(r, told(n))
      <4> HIDE DEF c, s
      <4>1. /\ told(n) \in Calls /\ told(n).op = c.op /\ told(n).args = c.args /\ told(n).ns = c.ns
            /\ told(n).path = c.path /\ told(n).dest = c.dest /\ told(n).lease = c.lease
            /\ told(n).on = c.on /\ told(n).pc = "dest"
        BY <1>0, <2>0, <3>2 DEF Calls, PC
      <4>2. PICK t \in Calls : t = told(n)
        BY <4>1
      <4> HIDE DEF told
      <4> QED BY <1>0, <1>2, <3>5, <4>1, <4>2, PromotionGoes DEF c
    <3> QED BY <3>3, <3>4, <3>5
  <2> QED BY <2>1, <2>2, <2>3, <2>4
<1> QED BY <1>1, <1>2 DEF RenamePromote

LEMMA RenameDestKeeps ==
    ASSUME Inv, NEW r \in Request, RenameDest(r)
    PROVE  Inv'
<1> DEFINE c == req[r]
           d == req[r].dest
           q == [c EXCEPT !.wantDest = tree[d], !.lease = "none", !.on = {}, !.pc = "excl"]
<1>0. c \in Calls /\ c.op = "rename" /\ Place(c)
  BY Busy DEF RenameDest
<1>1. CASE PromoteNext(r, "dest", "dest")
  BY <1>0, <1>1, PromoteNextKeeps
<1>2. CASE c.pc = "dest" /\ Steps(r, q)
  <2>1. tree[d] \in 0 .. MaxNodes
    BY <1>0, <1>2 DEF Place, Inv, Types
  <2> HIDE DEF c, d
  <2>2. /\ q \in Calls /\ q.op = c.op /\ q.args = c.args /\ q.ns = c.ns /\ q.path = c.path
        /\ q.dest = c.dest /\ q.lease = "none" /\ q.on = {} /\ q.pc = "excl"
    BY <1>0, <2>1 DEF Calls, PC
  <2> HIDE DEF q
  <2> QED BY <1>0, <1>2, <2>2, StepsTurns, PromotionGoes DEF c
<1> QED BY <1>1, <1>2 DEF RenameDest

LEMMA LoadStartKeeps ==
    ASSUME Inv, NEW r \in Request, LoadStart(r)
    PROVE  Inv'
<1> USE DEF Inv
<1>1. Types'
  BY DEF LoadStart, Types, IsPlaceholder, IsFile, Exists
<1>2. Leases'
  BY TaskTakes DEF LoadStart
<1>3. Places' /\ Namespace' /\ Single' /\ Stands'
  BY DEF LoadStart, Places, Namespace, Single, Stands
<1>4. Calm(Request)
  BY CalmInserts DEF LoadStart, SameRenames, Inserts
<1>5. Handles' /\ Known'
  BY <1>4, Keeps DEF LoadStart
<1> QED BY <1>1, <1>2, <1>3, <1>5

LEMMA ReleaseKeeps ==
    ASSUME Inv, NEW h \in Handle, Release(h)
    PROVE  Inv'
<1> USE DEF Inv
<1>1. /\ handles'[h] = Closed /\ \A k \in Handle \ {h} : handles'[k] = handles[k]
      /\ handles' \in [Handle -> OpenFile \cup {Closed}]
  BY DEF Release, Types
<1>2. ~handles'[h].open
  BY <1>1 DEF Closed
<1>3. Types'
  BY <1>1 DEF Release, Types
<1>4. Leases'
  BY <1>1, <1>2, LeasesShrink DEF Release
<1>5. Places' /\ Namespace' /\ Single' /\ Stands'
  BY DEF Release, Places, Namespace, Single, Stands
<1>6. Calm(Request)
  BY CalmInserts DEF Release, SameRenames, Inserts
<1>7. Handles' /\ Known'
  BY <1>1, <1>2, <1>6, Keeps DEF Release
<1> QED BY <1>3, <1>4, <1>5, <1>7

LEMMA FreeIsClosed == ASSUME NEW h \in FreeHandles PROVE h \in Handle /\ h \notin OpenHandles
BY DEF FreeHandles

(* A request ends with a handle opened. *)
Opens(r, h, f) == handles' = [handles EXCEPT ![h] = f] /\ Reply(r) /\ task' = task
LEMMA OpensKeeps ==
    ASSUME Inv, NEW r \in Request, NEW h \in FreeHandles, NEW f \in OpenFile, Opens(r, h, f),
           Grantable(f.lease, {f.path}),
           tree' \in [Path -> 0 .. MaxNodes], node' \in [1 .. MaxNodes -> Node], Table(inodes'),
           calls' = calls, Single', Stands', Calm(Request \ {r}),
           f.lease = IF f.wr THEN "excl" ELSE IF f.node = None THEN "shared" ELSE "none",
           f.wr => f.node # None /\ tree'[f.path] = f.node,
           f.lease # "none" => f.path \in Path /\ Leads(inodes', f.ino, f.path),
           f.node = None => /\ tree'[f.path] # None /\ node'[tree'[f.path]].kind = "file"
                            /\ node'[tree'[f.path]].own,
           f.node # None => ~node'[f.node].ph
    PROVE  Inv'
<1> USE DEF Inv
<1>1. h \in Handle /\ h \notin OpenHandles
  BY FreeIsClosed
<1>2. /\ handles'[h] = f /\ \A k \in Handle \ {h} : handles'[k] = handles[k]
      /\ handles' \in [Handle -> OpenFile \cup {Closed}]
  BY <1>1 DEF Opens, Types
<1>3. /\ req'[r] = Idle /\ \A s \in Request \ {r} : req'[s] = req[s]
      /\ req' \in [Request -> Calls \cup {Idle}]
  BY SetIs DEF Opens, Reply
<1>4. Types'
  BY <1>2, <1>3 DEF Opens, Types
<1>5. Leases'
  BY <1>1, <1>2, <1>3, HandleTakes, IdleIs DEF Opens
<1>6. Holds(h)'
  <2>1. f.node = None => f.lease # "none"
    OBVIOUS
  <2> QED BY <1>2, <2>1 DEF Holds, IsFile, Exists, At
<1> QED BY <1>2, <1>4, <1>5, <1>6, MovesAndEnds DEF Opens

LEMMA OpenSharedKeeps ==
    ASSUME Inv, NEW r \in Request, OpenShared(r)
    PROVE  Inv'
<1> DEFINE c == req[r]
           p == req[r].path
           i == req[r].args.ino
           wait == Hydrating([c EXCEPT !.ns = "none", !.lease = "shared", !.on = {p}], p, "renew")
           next == [c EXCEPT !.want = tree[p], !.pc = "excl"]
           file == IF IsPlaceholder(p) THEN FileHandle(i, None, FALSE, "shared", p)
                   ELSE FileHandle(i, tree[p], FALSE, "none", p)
<1>0. /\ c \in Calls /\ Place(c) /\ Knowing(c) /\ c.op = "open" /\ c.pc = "shared"
      /\ CanShare({p})
  BY Busy DEF OpenShared
<1>1. /\ c.ns = "read" /\ c.lease = "none" /\ c.args \in OpenArgs /\ Leads(inodes, i, p)
      /\ \A s \in Request : ~Remapping(s)
  BY <1>0, NoRename DEF Place, Knowing
<1>2. CASE Fails(r)
  BY <1>0, <1>2, FailsEnds
<1>3. CASE IsPlaceholder(p) /\ Steps(r, wait)
  <2>1. p \in Path /\ p \in Paths /\ p = c.path
    BY <1>3, PathIsSeq DEF IsPlaceholder, IsFile, Exists
  <2> HIDE DEF c, p
  <2>2. /\ wait \in Calls /\ wait.pc = "load" /\ wait.op = "open" /\ wait.ns = "none"
        /\ wait.lease = "shared" /\ wait.on = {p} /\ wait.path = p /\ wait.load = p
        /\ wait.then = "renew" /\ wait.args = c.args
    BY <1>0, <2>1 DEF Calls, PC, Hydrating
  <2> HIDE DEF wait
  <2>3. Place(wait)
    BY <1>1, <2>1, <2>2 DEF Place
  <2>4. Knowing(wait)
    BY <1>1, <2>2 DEF Knowing, c
  <2>5. NsGranted(wait, c.ns) /\ Grantable(wait.lease, wait.on)
    BY <1>0, <2>2 DEF NsGranted, Grantable
  <2> QED BY <1>0, <1>3, <2>2, <2>3, <2>4, <2>5, StepsGoes DEF c
<1>4. CASE IsFile(p) /\ Steps(r, next)
  <2>1. tree[p] \in 0 .. MaxNodes /\ tree[p] # None
    BY <1>4 DEF IsFile, Exists, Inv, Types
  <2>2. Following(i, tree[p])
    BY <1>1, <1>4, FoundFollows DEF IsFile
  <2> HIDE DEF c, p
  <2>3. /\ next \in Calls /\ next.pc = "excl" /\ next.op = "open" /\ next.ns = c.ns
        /\ next.lease = c.lease /\ next.on = c.on /\ next.want = tree[p] /\ next.args = c.args
    BY <1>0, <2>1 DEF Calls, PC
  <2> HIDE DEF next
  <2>4. Place(next)
    BY <1>1, <2>1, <2>3 DEF Place
  <2>5. Knowing(next)
    BY <2>2, <2>3 DEF Knowing, c
  <2>6. NsGranted(next, c.ns)
    BY <2>3 DEF NsGranted
  <2> QED BY <1>0, <1>4, <2>3, <2>4, <2>5, <2>6, StepsGoes DEF c
<1>5. ASSUME IsFile(p), NEW h \in FreeHandles, handles' = [handles EXCEPT ![h] = file], Reply(r),
             UNCHANGED <<tree, node, inodes, task, calls>>
      PROVE  Inv'
  <2>1. /\ p \in Path /\ p \in Paths /\ tree[p] \in 1 .. MaxNodes /\ tree[p] # None
        /\ i \in Nat /\ 0 \in 0 .. MaxNodes /\ tree[p] \in 0 .. MaxNodes
    BY <1>1, <1>5, PathIsSeq, DriveAssumption DEF IsFile, Exists, OpenArgs, Inv, Types, None
  <2>2. /\ IsPlaceholder(p) => node[tree[p]].own
        /\ ~IsPlaceholder(p) => ~node[tree[p]].ph
        /\ node[tree[p]].kind = "file"
    BY <1>5, <2>1 DEF IsPlaceholder, IsFile, At, Inv, Stands
  <2>3. PICK f : f = file
    OBVIOUS
  <2>4. /\ f \in OpenFile /\ f.ino = i /\ ~f.wr /\ f.path = p
        /\ IsPlaceholder(p) => f.node = None /\ f.lease = "shared"
        /\ ~IsPlaceholder(p) => f.node = tree[p] /\ f.lease = "none"
    BY <2>1, <2>3 DEF FileHandle, OpenFile, None
  <2>5. Opens(r, h, f)
    BY <1>5, <2>3 DEF Opens
  <2>6. Grantable(f.lease, {f.path})
    BY <1>0, <2>4 DEF Grantable
  <2>7. Single' /\ Stands'
    BY <1>5 DEF Inv, Single, Stands
  <2>8. Calm(Request \ {r})
    <3>1. SameRenames
      BY <1>0, <1>5, SetIs, IdleIs DEF SameRenames, Reply, Inv
    <3> QED BY <1>5, <3>1, CalmInserts DEF Inserts
  <2>9. /\ tree' \in [Path -> 0 .. MaxNodes] /\ node' \in [1 .. MaxNodes -> Node] /\ Table(inodes')
    BY <1>5 DEF Inv, Types
  <2> HIDE DEF file, p, i
  <2> QED BY <1>1, <1>5, <2>1, <2>2, <2>4, <2>5, <2>6, <2>7, <2>8, <2>9, OpensKeeps
<1>6. \/ Fails(r)
      \/ IsPlaceholder(p) /\ Steps(r, wait)
      \/ IsFile(p) /\ Steps(r, next)
      \/ /\ IsFile(p) /\ \E h \in FreeHandles : handles' = [handles EXCEPT ![h] = file]
         /\ Reply(r) /\ UNCHANGED <<tree, node, inodes, task, calls>>
  BY DEF OpenShared
<1> QED BY <1>2, <1>3, <1>4, <1>5, <1>6

(* An opener that checked an object and has its path to itself has its inode. *)
LEMMA CheckedLeads ==
    ASSUME Inv, NEW i, NEW p \in Path, Following(i, tree[p]), CanExclude({p})
    PROVE  Leads(inodes, i, p)
<1>1. CASE \A s \in Request : ~Remapping(s)
  BY <1>1 DEF Following
<1>2. CASE \E s \in Request : Remapping(s)
  <2>1. PICK s \in Request : Remapping(s)
    BY <1>2
  <2> DEFINE a == req[s].path
             b == req[s].dest
  <2>2. /\ a \in Paths /\ b \in Paths /\ a # b /\ a # Root /\ b # Root
        /\ req[s].lease = "excl" /\ req[s].on = {a, b}
    BY <2>1, RemapPaths
  <2>3. Leads(RenameSubtree(inodes, a, b), i, p)
    BY <2>1 DEF Following
  <2>4. ~Under(p, b)
    BY <2>2 DEF CanExclude, Leased, Overlap
  <2> HIDE DEF a, b
  <2>5. PICK x : Leads(inodes, i, x) /\ Carried(x, p, a, b)
    BY <2>2, <2>3, TableNat, RenameKeeps
  <2>6. x \in Paths
    BY <2>5, TableNat, LeadsBack
  <2>7. ~Under(x, a)
    BY <2>2, <2>4, <2>5, <2>6, MovedBack DEF Carried, Paths
  <2> QED BY <2>5, <2>7 DEF Carried
<1> QED BY <1>1, <1>2

(* What is written is no placeholder any more, and stays what it was. *)
Edits == /\ UNCHANGED <<tree, inodes>>
         /\ \/ node' = node
            \/ \E n \in 1 .. MaxNodes : node' = [node EXCEPT ![n] = Edited(@)]
LEMMA EditIs ==
    ASSUME Types, Edits
    PROVE  /\ node' \in [1 .. MaxNodes -> Node]
           /\ \A m \in 1 .. MaxNodes : /\ node'[m].own = node[m].own /\ node'[m].kind = node[m].kind
                                       /\ node'[m].ph => node[m].ph
<1>1. node \in [1 .. MaxNodes -> Node]
  BY DEF Types
<1>2. CASE node' = node
  BY <1>1, <1>2
<1>3. ASSUME NEW n \in 1 .. MaxNodes, node' = [node EXCEPT ![n] = Edited(@)]
      PROVE  /\ node' \in [1 .. MaxNodes -> Node]
             /\ \A m \in 1 .. MaxNodes : /\ node'[m].own = node[m].own /\ node'[m].kind = node[m].kind
                                         /\ node'[m].ph => node[m].ph
  <2>1. PICK x \in Node : x = node[n]
    BY <1>1
  <2>2. Edited(x) \in Node /\ Edited(x).own = x.own /\ Edited(x).kind = x.kind /\ ~Edited(x).ph
    BY DEF Edited, Node
  <2> QED BY <1>1, <1>3, <2>1, <2>2
<1> QED BY <1>2, <1>3 DEF Edits

LEMMA CalmEdits ==
    ASSUME Inv, SameRenames, Edits, NEW R
    PROVE  Calm(R) /\ Stands' /\ Single'
<1> USE DEF Inv
<1>1. \A m \in 1 .. MaxNodes : /\ node'[m].own = node[m].own /\ node'[m].kind = node[m].kind
                               /\ node'[m].ph => node[m].ph
  BY EditIs
<1>2. tree' = tree /\ inodes' = inodes
  BY DEF Edits
<1>3. ASSUME NEW p \in Path PROVE Undisturbed(p)
  <2>1. IsFile(p) => tree[p] \in 1 .. MaxNodes /\ tree[p] # None
    BY DriveAssumption DEF IsFile, Exists, Types, None
  <2> QED BY <1>1, <1>2, <2>1 DEF Undisturbed, IsFile, At
<1>4. \A n \in Wanted(R) : \A i : Following(i, n) => Following(i, n)'
  BY <1>2, FollowsOn DEF Inserts
<1>5. ASSUME NEW h \in OpenHandles, handles[h].node # None, ~node[handles[h].node].ph
      PROVE  ~node'[handles[h].node].ph
  <2>1. handles[h].node \in 1 .. MaxNodes
    BY <1>5, OpenHandleType, DriveAssumption DEF None
  <2> QED BY <1>1, <1>5, <2>1
<1>6. Calm(R)
  BY <1>2, <1>3, <1>4, <1>5 DEF Calm, LeadsKept
<1> QED BY <1>1, <1>2, <1>6 DEF Stands, Single

LEMMA OpenExclusiveKeeps ==
    ASSUME Inv, NEW r \in Request, OpenExclusive(r)
    PROVE  Inv'
<1> DEFINE c == req[r]
           p == req[r].path
           i == req[r].args.ino
           file == FileHandle(i, tree[p], TRUE, "excl", p)
<1>0. /\ c \in Calls /\ Place(c) /\ Knowing(c) /\ c.op = "open" /\ c.pc = "excl"
      /\ CanExclude({p})
  BY Busy DEF OpenExclusive
<1>1. CASE Fails(r)
  BY <1>0, <1>1, FailsEnds
<1>2. ASSUME Exists(p), tree[p] = c.want, IsPlaceholder(p) => c.args.trunc,
             NEW h \in FreeHandles, handles' = [handles EXCEPT ![h] = file], Reply(r),
             node' = IF c.args.trunc THEN [node EXCEPT ![tree[p]] = Edited(@)] ELSE node,
             UNCHANGED <<tree, inodes, task, calls>>
      PROVE  Inv'
  <2>1. /\ p \in Path /\ p \in Paths /\ tree[p] \in 1 .. MaxNodes /\ tree[p] # None /\ i \in Nat
        /\ tree[p] \in 0 .. MaxNodes
    BY <1>0, <1>2, PathIsSeq, DriveAssumption DEF Exists, Place, OpenArgs, Inv, Types, None
  <2>2. PICK f : f = file
    OBVIOUS
  <2>3. /\ f \in OpenFile /\ f.ino = i /\ f.wr /\ f.path = p /\ f.node = tree[p] /\ f.lease = "excl"
    BY <2>1, <2>2 DEF FileHandle, OpenFile
  <2>4. Opens(r, h, f)
    BY <1>2, <2>2 DEF Opens
  <2>5. Grantable(f.lease, {f.path})
    BY <1>0, <2>3 DEF Grantable
  <2>6. Edits
    BY <1>2, <2>1 DEF Edits
  <2>7. SameRenames
    BY <1>0, <1>2, SetIs, IdleIs DEF SameRenames, Reply, Inv
  <2>8. Single' /\ Stands' /\ Calm(Request \ {r})
    BY <2>6, <2>7, CalmEdits
  <2>9. tree' \in [Path -> 0 .. MaxNodes] /\ node' \in [1 .. MaxNodes -> Node] /\ Table(inodes')
    BY <1>2, <2>6, EditIs DEF Inv, Types
  <2>10. Leads(inodes', i, p)
    <3>1. Following(i, tree[p])
      BY <1>0, <1>2 DEF Knowing
    <3>2. Leads(inodes, i, p)
      BY <1>0, <2>1, <3>1, CheckedLeads
    <3> QED BY <1>2, <3>2
  <2>11. ~node'[tree[p]].ph
    <3>1. CASE c.args.trunc
      <4>1. PICK x \in Node : x = node[tree[p]]
        BY <2>1 DEF Inv, Types
      <4>2. ~Edited(x).ph
        BY DEF Edited, Node
      <4>3. node'[tree[p]] = Edited(x)
        BY <1>2, <2>1, <3>1, <4>1 DEF Inv, Types
      <4> QED BY <4>2, <4>3
    <3>2. CASE ~c.args.trunc
      <4>1. ~IsPlaceholder(p) /\ Exists(p)
        BY <1>2, <3>2
      <4>2. node[tree[p]].ph => IsFile(p)
        BY <2>1, <4>1 DEF IsFile, At, Inv, Stands
      <4> QED BY <1>2, <3>2, <4>1, <4>2 DEF IsPlaceholder, At
    <3> QED BY <3>1, <3>2
  <2> HIDE DEF file, p, i
  <2>12. f.node # None => ~node'[f.node].ph
    BY <2>3, <2>11
  <2>13. f.wr => f.node # None /\ tree'[f.path] = f.node
    BY <1>2, <2>1, <2>3
  <2>14. f.lease # "none" => f.path \in Path /\ Leads(inodes', f.ino, f.path)
    BY <2>1, <2>3, <2>10
  <2>15. f.node # None
    BY <2>1, <2>3
  <2> QED BY <1>2, <2>3, <2>4, <2>5, <2>8, <2>9, <2>12, <2>13, <2>14, <2>15, OpensKeeps
<1>3. \/ Fails(r)
      \/ /\ Exists(p) /\ tree[p] = c.want /\ (IsPlaceholder(p) => c.args.trunc)
         /\ \E h \in FreeHandles : handles' = [handles EXCEPT ![h] = file]
         /\ node' = IF c.args.trunc THEN [node EXCEPT ![tree[p]] = Edited(@)] ELSE node
         /\ Reply(r) /\ UNCHANGED <<tree, inodes, task, calls>>
  BY DEF OpenExclusive
<1> QED BY <1>1, <1>2, <1>3

LEMMA WriteKeeps ==
    ASSUME Inv, NEW h \in Handle, Write(h)
    PROVE  Inv'
<1> USE DEF Inv
<1>1. h \in OpenHandles /\ Holds(h) /\ handles[h].wr
  BY DEF Write, Handles
<1>2. handles[h].node \in 1 .. MaxNodes
  BY <1>1, OpenHandleType, DriveAssumption DEF Holds, None
<1>3. Edits
  BY <1>2 DEF Write, Edits
<1>4. SameRenames
  BY DEF SameRenames, Write
<1>5. Calm(Request) /\ Stands' /\ Single'
  BY <1>3, <1>4, CalmEdits
<1>6. Types'
  BY <1>3, EditIs DEF Write, Types
<1>7. Places' /\ Namespace'
  BY DEF Write, Places, Namespace
<1>8. Leases'
  BY LeasesShrink DEF Write
<1>9. Handles' /\ Known'
  BY <1>5, Keeps DEF Write
<1> QED BY <1>5, <1>6, <1>7, <1>8, <1>9

LEMMA SetAttrExclusiveKeeps ==
    ASSUME Inv, NEW r \in Request, SetAttrExclusive(r)
    PROVE  Inv'
<1> USE DEF Inv
<1> DEFINE p == req[r].path
<1>0. req[r] \in Calls /\ req[r].op = "setattr" /\ req[r].pc = "excl" /\ CanExclude({p})
  BY Busy DEF SetAttrExclusive
<1>1. CASE Fails(r)
  BY <1>0, <1>1, FailsEnds
<1>2. CASE ~Fails(r)
  <2>1. /\ node' = [node EXCEPT ![tree[p]] = Edited(@)] /\ Reply(r)
        /\ UNCHANGED <<tree, inodes, handles, task, calls>>
    BY <1>2 DEF SetAttrExclusive
  <2>2. Edits
    <3>1. CASE tree[p] \in 1 .. MaxNodes
      BY <2>1, <3>1 DEF Edits
    <3>2. CASE tree[p] \notin 1 .. MaxNodes
      BY <2>1, <3>2 DEF Edits, Types
    <3> QED BY <3>1, <3>2
  <2>3. /\ req'[r] = Idle /\ \A s \in Request \ {r} : req'[s] = req[s]
        /\ req' \in [Request -> Calls \cup {Idle}]
    BY <2>1, SetIs DEF Reply
  <2>4. SameRenames
    BY <1>0, <2>3, IdleIs DEF SameRenames
  <2>5. Calm(Request \ {r}) /\ Stands' /\ Single'
    BY <2>2, <2>4, CalmEdits
  <2>6. Types'
    BY <2>1, <2>2, <2>3, EditIs DEF Types
  <2>7. Leases'
    BY <2>1, <2>3, IdleIs, LeasesShrink
  <2> QED BY <2>1, <2>5, <2>6, <2>7, MovesAndEnds
<1> QED BY <1>1, <1>2

LEMMA ReadFillKeeps ==
    ASSUME Inv, NEW r \in Request, ReadFill(r)
    PROVE  Inv'
<1> USE DEF Inv
<1> DEFINE c == req[r]
           h == req[r].args.h
           n == tree[req[r].path]
<1>0. c \in Calls /\ Place(c) /\ Knowing(c) /\ c.op = "read" /\ c.pc = "fill"
  BY Busy DEF ReadFill
<1>1. CASE Fails(r)
  BY <1>0, <1>1, FailsEnds
<1>2. CASE ~Fails(r)
  <2>1. /\ IsFile(c.path) /\ StillOpen(c) /\ h \in Pending
        /\ handles' = [handles EXCEPT ![h].node = n, ![h].lease = "none"]
        /\ Reply(r) /\ UNCHANGED <<tree, node, inodes, task, calls>>
    BY <1>2 DEF ReadFill
  <2>2. n \in 1 .. MaxNodes /\ n \in 0 .. MaxNodes /\ n # None /\ ~node[n].ph
    BY <1>0, <2>1, DriveAssumption DEF Knowing, At, IsFile, Exists, Types, None
  <2>3. h \in OpenHandles /\ handles[h].node = None /\ Holds(h) /\ handles[h] \in OpenFile /\ h \in Handle
    BY <2>1, OpenHandleType DEF Pending, Handles
  <2>4. PICK f \in OpenFile : f = handles[h]
    BY <2>3
  <2>5. ~f.wr
    BY <2>3, <2>4 DEF Holds
  <2> HIDE DEF n, h, c
  <2>6. PICK g : g = [f EXCEPT !.node = n, !.lease = "none"]
    OBVIOUS
  <2>7. g \in OpenFile /\ g.node = n /\ g.lease = "none" /\ ~g.wr
    BY <2>2, <2>5, <2>6 DEF OpenFile
  <2>8. handles' = [handles EXCEPT ![h] = g]
    BY <2>1, <2>3, <2>4, <2>6 DEF Types
  <2>9. /\ handles'[h] = g /\ \A k \in Handle \ {h} : handles'[k] = handles[k]
        /\ handles' \in [Handle -> OpenFile \cup {Closed}]
    BY <2>3, <2>7, <2>8 DEF Types
  <2>10. /\ req'[r] = Idle /\ \A s \in Request \ {r} : req'[s] = req[s]
         /\ req' \in [Request -> Calls \cup {Idle}]
    BY <2>1, SetIs DEF Reply
  <2>11. SameRenames
    BY <1>0, <2>10, IdleIs DEF SameRenames, c
  <2>12. Calm(Request \ {r})
    BY <2>1, <2>11, CalmInserts DEF Inserts
  <2>13. Single' /\ Stands'
    BY <2>1 DEF Single, Stands
  <2>14. Types'
    BY <2>1, <2>9, <2>10 DEF Types
  <2>15. Leases'
    BY <2>1, <2>7, <2>9, <2>10, IdleIs, LeasesShrink
  <2>16. \A k \in Handle : handles'[k] = handles[k] \/ (handles'[k].open => handles'[k].node # None /\ Holds(k)')
    BY <2>1, <2>2, <2>7, <2>9 DEF Holds
  <2> QED BY <2>1, <2>12, <2>13, <2>14, <2>15, <2>16, MovesAndEnds
<1> QED BY <1>1, <1>2

-----------------------------------------------------------------------------
(* Steps that change the directory *)

LEMMA LeastNumber ==
    ASSUME NEW S, S \subseteq Nat, S # {}
    PROVE  \E n \in S : \A m \in S : n <= m
<1>1. PICK n \in S : \A m \in S : <<m, n>> \notin OpToRel(<, Nat)
  BY NatLessThanWellFounded, WFMin, Zenon
<1>2. \A m \in S : ~(m < n)
  BY <1>1 DEF OpToRel
<1> QED BY <1>2

(* What is unused is nobody's. *)
LEMMA FreshIs ==
    ASSUME Inv, Unused # {}
    PROVE  /\ Fresh \in 1 .. MaxNodes /\ Fresh # None
           /\ \A p \in Path : tree[p] # Fresh
           /\ \A h \in OpenHandles : handles[h].node # Fresh
           /\ \A n \in Wanted(Request) : n # Fresh
<1>1. Unused \subseteq 1 .. MaxNodes /\ Unused \subseteq Nat
  BY DriveAssumption DEF Unused
<1>2. Fresh \in Unused
  BY <1>1, LeastNumber DEF Fresh
<1>3. Fresh \in 1 .. MaxNodes /\ Fresh \notin InUse
  BY <1>2 DEF Unused
<1>4. Wanted(Request) \subseteq InUse
  BY DEF Wanted, InUse
<1> HIDE DEF Fresh
<1>5. \A p \in Path : tree[p] # Fresh
  BY <1>3 DEF InUse
<1>6. \A h \in OpenHandles : handles[h].node # Fresh
  BY <1>3 DEF InUse
<1> QED BY <1>3, <1>4, <1>5, <1>6, DriveAssumption DEF None

LEMMA NodeTypes ==
    /\ Directory \in Node /\ Placeholder \in Node /\ Downloaded \in Node /\ UserFile \in Node
    /\ ~Directory.ph /\ ~UserFile.ph /\ ~Downloaded.ph
    /\ Placeholder.own /\ Placeholder.kind = "file" /\ Downloaded.own /\ Downloaded.kind = "file"
BY DEF Directory, Placeholder, Downloaded, UserFile, Node

(* Only what loses its path, and is nobody's descriptor, is forgotten. *)
Forgets(b, n, p) ==
    /\ b \in [1 .. MaxNodes -> Node]
    /\ \A m \in 1 .. MaxNodes : m # tree[p] => b[m] = n[m]
    /\ \A m \in 1 .. MaxNodes : b[m] = n[m] \/ ~b[m].ph
    /\ \A h \in OpenHandles : handles[h].node \in 1 .. MaxNodes =>
          b[handles[h].node] = n[handles[h].node]
LEMMA BuriedForgets ==
    ASSUME NEW p, NEW n, n \in [1 .. MaxNodes -> Node]
    PROVE  Forgets(Buried(n, p), n, p)
<1> DEFINE b == Buried(n, p)
<1>1. CASE b = n
  BY <1>1 DEF Forgets
<1>2. CASE b = [n EXCEPT ![tree[p]] = Directory] /\ \A h \in OpenHandles : handles[h].node # tree[p]
  <2>1. PICK d : d = Directory /\ d \in Node /\ ~d.ph
    BY NodeTypes
  <2>2. PICK t : t = tree[p]
    OBVIOUS
  <2> HIDE DEF b
  <2>3. b = [n EXCEPT ![t] = d]
    BY <1>2, <2>1, <2>2
  <2>4. b \in [1 .. MaxNodes -> Node]
    BY <2>1, <2>3
  <2>5. \A m \in 1 .. MaxNodes : b[m] = IF m = t THEN d ELSE n[m]
    BY <2>3
  <2>6. \A h \in OpenHandles : handles[h].node # t
    BY <1>2, <2>2
  <2>7. \A m \in 1 .. MaxNodes : m # tree[p] => b[m] = n[m]
    BY <2>2, <2>5
  <2>8. \A m \in 1 .. MaxNodes : b[m] = n[m] \/ ~b[m].ph
    BY <2>1, <2>5
  <2>9. \A h \in OpenHandles : handles[h].node \in 1 .. MaxNodes =>
          b[handles[h].node] = n[handles[h].node]
    BY <2>5, <2>6
  <2> QED BY <2>4, <2>7, <2>8, <2>9 DEF Forgets, b
<1> QED BY <1>1, <1>2 DEF Buried

LEMMA ApartDiffer ==
    ASSUME NEW p \in Path, NEW S, NEW q \in S, Apart(S, {p}) \/ Apart({p}, S)
    PROVE  p # q
BY PathIsSeq, UnderItself DEF Apart, Overlap

(* Where nothing is being renamed, and what leads to a path goes on. *)
LEMMA PlainFollows ==
    ASSUME \A s \in Request : ~Remapping(s), \A s \in Request : req'[s].pc # "remap",
           NEW n, NEW i, Following(i, n),
           \A x \in Path : tree'[x] = n => tree[x] = n /\ (Leads(inodes, i, x) => Leads(inodes', i, x))
    PROVE  Following(i, n)'
<1>1. \A x \in Path : tree'[x] = n => Leads(inodes', i, x)
  BY DEF Following
<1> QED BY <1>1 DEF Following, Remapping

(* A file takes the place of another under the path. *)
Installs(p, x) ==
    /\ node' = Buried([node EXCEPT ![Fresh] = x], p)
    /\ tree' = [tree EXCEPT ![p] = Fresh]
    /\ UNCHANGED <<inodes, handles, req, calls>>
    /\ task' \in {task, NoPath}
LEMMA InstallKeeps ==
    ASSUME Inv, NEW p \in Path, NEW x \in Node, Installs(p, x), Unused # {},
           x.own, x.kind = "file",
           x.ph => \A q \in Path : Covered(Request, q) => q # p,
           \A h \in OpenHandles : handles[h].lease = "excl" => handles[h].path # p
    PROVE  Inv'
<1> USE DEF Inv
<1> DEFINE f == Fresh
           n == [node EXCEPT ![f] = x]
<1>1. /\ f \in 1 .. MaxNodes /\ f # None /\ \A q \in Path : tree[q] # f
      /\ \A h \in OpenHandles : handles[h].node # f
      /\ \A m \in Wanted(Request) : m # f
  BY FreshIs
<1>2. /\ node' = Buried(n, p) /\ tree' = [tree EXCEPT ![p] = f]
      /\ UNCHANGED <<inodes, handles, req, calls>>
      /\ task' \in {task, NoPath}
  BY DEF Installs
<1> HIDE DEF f
<1>3. n \in [1 .. MaxNodes -> Node] /\ n[f] = x /\ \A m \in 1 .. MaxNodes : m # f => n[m] = node[m]
  BY <1>1 DEF Types
<1> HIDE DEF n
<1>4. /\ node' \in [1 .. MaxNodes -> Node]
      /\ \A m \in 1 .. MaxNodes : m # tree[p] => node'[m] = n[m]
      /\ \A m \in 1 .. MaxNodes : node'[m] = n[m] \/ ~node'[m].ph
      /\ \A h \in OpenHandles : handles[h].node \in 1 .. MaxNodes =>
                 node'[handles[h].node] = n[handles[h].node]
  <2>1. Forgets(Buried(n, p), n, p)
    BY <1>3, BuriedForgets
  <2>2. Forgets(node', n, p)
    BY <1>2, <2>1
  <2> QED BY <2>2 DEF Forgets
<1>5. node'[f] = x
  BY <1>1, <1>3, <1>4
<1>6. tree' \in [Path -> 0 .. MaxNodes] /\ tree'[p] = f /\ \A q \in Path : q # p => tree'[q] = tree[q]
  BY <1>1, <1>2, DriveAssumption DEF Types
<1>7. Types'
  BY <1>2, <1>4, <1>6 DEF Types
<1>8. Leases'
  BY <1>2, LeasesShrink
<1>9. Places' /\ Namespace'
  BY <1>2 DEF Places, Namespace
<1>10. Single'
  BY <1>1, <1>6 DEF Single
<1>11. Stands'
  <2> SUFFICES ASSUME NEW m \in 1 .. MaxNodes, node'[m].ph PROVE node'[m].own /\ node'[m].kind = "file"
    BY DEF Stands
  <2>1. node'[m] = n[m]
    BY <1>4
  <2> QED BY <1>3, <1>5, <2>1 DEF Stands
<1>12. ASSUME NEW q \in Path, Covered(Request, q) PROVE Undisturbed(q)
  <2>1. CASE q = p
    <3>1. ~x.ph
      BY <1>12, <2>1
    <3> QED BY <1>1, <1>2, <1>5, <1>6, <2>1, <3>1 DEF Undisturbed
  <2>2. CASE q # p
    <3>1. tree'[q] = tree[q]
      BY <1>6, <2>2
    <3>2. IsFile(q) => tree[q] # None /\ tree[q] \in 1 .. MaxNodes /\ tree[q] # tree[p] /\ tree[q] # f
      BY <1>1, <2>2, DriveAssumption DEF IsFile, Exists, Types, Single, None
    <3>3. IsFile(q) => node'[tree[q]] = node[tree[q]]
      BY <1>3, <1>4, <3>2
    <3> QED BY <1>2, <3>1, <3>2, <3>3 DEF Undisturbed, IsFile, At
  <2> QED BY <2>1, <2>2
<1>13. ASSUME NEW m \in Wanted(Request), NEW i, Following(i, m) PROVE Following(i, m)'
  <2>1. \A q \in Path : tree'[q] = m => tree[q] = m
    BY <1>1, <1>6
  <2> QED BY <1>2, <1>13, <2>1 DEF Following, Remapping
<1>14. ASSUME NEW h \in OpenHandles, handles[h].node # None, ~node[handles[h].node].ph
       PROVE  ~node'[handles[h].node].ph
  <2>1. handles[h].node \in 1 .. MaxNodes
    BY <1>14, OpenHandleType, DriveAssumption DEF None
  <2> QED BY <1>1, <1>3, <1>4, <1>14, <2>1
<1>15. ASSUME NEW h \in OpenHandles, handles[h].lease = "excl" PROVE tree'[handles[h].path] = tree[handles[h].path]
  <2>1. handles[h].path \in Path /\ handles[h].path # p
    BY <1>15 DEF Handles, Holds
  <2> QED BY <1>6, <2>1
<1>16. Calm(Request)
  BY <1>2, <1>12, <1>13, <1>14, <1>15 DEF Calm, LeadsKept
<1>17. Handles' /\ Known'
  BY <1>2, <1>16, Keeps
<1> QED BY <1>7, <1>8, <1>9, <1>10, <1>11, <1>17

LEMMA TaskInstallKeeps ==
    ASSUME Inv, TaskInstall
    PROVE  Inv'
<1>1. /\ task # NoPath /\ task \in Path /\ Unused # {}
      /\ Installs(task, Downloaded)
  BY DEF TaskInstall, IsPlaceholder, IsFile, Exists, Installs
<1>2. \A h \in OpenHandles : handles[h].lease = "excl" => handles[h].path # task
  BY <1>1, ApartDiffer DEF Inv, Leases
<1>3. PICK p \in Path, x \in Node : p = task /\ x = Downloaded
  BY <1>1, NodeTypes
<1> QED BY <1>1, <1>2, <1>3, NodeTypes, InstallKeeps

LEMMA TaskFailKeeps ==
    ASSUME Inv, TaskFail
    PROVE  Inv'
<1> USE DEF Inv
<1>1. Types' /\ Places' /\ Namespace' /\ Single' /\ Stands'
  BY DEF TaskFail, Types, Places, Namespace, Single, Stands
<1>2. Leases'
  BY LeasesShrink DEF TaskFail
<1>3. Calm(Request)
  BY CalmInserts DEF TaskFail, SameRenames, Inserts
<1>4. Handles' /\ Known'
  BY <1>3, Keeps DEF TaskFail
<1> QED BY <1>1, <1>2, <1>4

(* A path one may have to oneself is nobody's. *)
LEMMA AloneUncovered ==
    ASSUME Inv, NEW S, CanExclude(S), NEW p \in S
    PROVE  /\ \A r \in Request : req[r].lease # "none" => \A q \in req[r].on : ~Overlap(p, q)
           /\ \A h \in OpenHandles : handles[h].lease # "none" => ~Overlap(p, handles[h].path)
BY LeaseTypes DEF CanExclude, Leased, Inv

LEMMA FreeUpKeeps ==
    ASSUME Inv, FreeUp(P0)
    PROVE  Inv'
<1>1. /\ P0 \in Path /\ CanExclude({P0}) /\ Unused # {}
      /\ Installs(P0, Placeholder)
  BY DEF FreeUp, IsFile, Exists, Installs
<1>2. Overlap(P0, P0)
  BY <1>1, PathIsSeq, UnderItself DEF Overlap
<1>3. \A q \in Path : Covered(Request, q) => q # P0
  BY <1>1, <1>2, AloneUncovered DEF Covered
<1>4. \A h \in OpenHandles : handles[h].lease = "excl" => handles[h].path # P0
  BY <1>1, <1>2, AloneUncovered
<1>5. PICK p \in Path, x \in Node : p = P0 /\ x = Placeholder
  BY <1>1, NodeTypes
<1> QED BY <1>1, <1>3, <1>4, <1>5, NodeTypes, InstallKeeps

LEMMA AloneInNamespace ==
    ASSUME Inv, NEW r \in Request, req[r].ns = "write"
    PROVE  \A s \in Request \ {r} : req[s].ns = "none" /\ ~Remapping(s)
BY RemapPaths DEF Inv, Namespace

LEMMA WantedIs == ASSUME Inv, NEW R \in SUBSET Request, NEW n \in Wanted(R) PROVE n # None
BY DEF Wanted, Inv, Places, Place

(* Something new stands under the path, and the table knows it. *)
LEMMA MadeIs ==
    ASSUME Inv, NEW p \in Path, CanExclude({p}), Unused # {}, NEW x \in Node, ~x.ph,
           node' = [node EXCEPT ![Fresh] = x], tree' = [tree EXCEPT ![p] = Fresh],
           inodes' = Insert(inodes, p),
           \A s \in Request : ~Remapping(s), \A s \in Request : req'[s].pc # "remap",
           NEW R \in SUBSET Request
    PROVE  /\ Calm(R) /\ Single' /\ Stands'
           /\ tree' \in [Path -> 0 .. MaxNodes] /\ node' \in [1 .. MaxNodes -> Node] /\ Table(inodes')
           /\ tree'[p] = Fresh /\ node'[Fresh] = x
<1> USE DEF Inv
<1> DEFINE f == Fresh
<1>1. /\ f \in 1 .. MaxNodes /\ f # None /\ \A q \in Path : tree[q] # f
      /\ \A h \in OpenHandles : handles[h].node # f
      /\ \A m \in Wanted(Request) : m # f
  BY FreshIs
<1>2. node' = [node EXCEPT ![f] = x] /\ tree' = [tree EXCEPT ![p] = f]
  OBVIOUS
<1> HIDE DEF f
<1>3. /\ node' \in [1 .. MaxNodes -> Node] /\ node'[f] = x
      /\ \A m \in 1 .. MaxNodes : m # f => node'[m] = node[m]
  BY <1>1, <1>2 DEF Types
<1>4. tree' \in [Path -> 0 .. MaxNodes] /\ tree'[p] = f /\ \A q \in Path : q # p => tree'[q] = tree[q]
  BY <1>1, <1>2, DriveAssumption DEF Types
<1>5. Table(inodes') /\ LeadsKept(inodes, inodes')
  BY TableNat, PathIsSeq, InsertKeeps
<1>6. Single'
  BY <1>1, <1>4 DEF Single
<1>7. Stands'
  BY <1>3 DEF Stands
<1>8. Overlap(p, p)
  BY PathIsSeq, UnderItself DEF Overlap
<1>9. ASSUME NEW q \in Path, Covered(R, q) PROVE Undisturbed(q)
  <2>1. q # p
    BY <1>8, <1>9, AloneUncovered DEF Covered
  <2>2. tree'[q] = tree[q]
    BY <1>4, <2>1
  <2>3. IsFile(q) => tree[q] # None /\ tree[q] \in 1 .. MaxNodes /\ tree[q] # f
    BY <1>1, DriveAssumption DEF IsFile, Exists, Types, None
  <2>4. IsFile(q) => node'[tree[q]] = node[tree[q]]
    BY <1>3, <2>3
  <2> QED BY <1>5, <2>2, <2>3, <2>4 DEF Undisturbed, IsFile, At, LeadsKept
<1>10. ASSUME NEW m \in Wanted(R), NEW i, Following(i, m) PROVE Following(i, m)'
  <2>1. m # f
    BY <1>1 DEF Wanted
  <2>2. \A q \in Path : tree'[q] = m => tree[q] = m
    BY <1>4, <2>1
  <2> QED BY <1>5, <1>10, <2>2, PlainFollows DEF LeadsKept
<1>11. ASSUME NEW h \in OpenHandles, handles[h].node # None, ~node[handles[h].node].ph
       PROVE  ~node'[handles[h].node].ph
  <2>1. handles[h].node \in 1 .. MaxNodes
    BY <1>11, OpenHandleType, DriveAssumption DEF None
  <2> QED BY <1>1, <1>3, <1>11, <2>1
<1>12. ASSUME NEW h \in OpenHandles, handles[h].lease = "excl" PROVE tree'[handles[h].path] = tree[handles[h].path]
  <2>1. handles[h].path \in Path /\ handles[h].path # p
    BY <1>8, <1>12, AloneUncovered DEF Handles, Holds
  <2> QED BY <1>4, <2>1
<1>13. Calm(R)
  BY <1>5, <1>9, <1>10, <1>11, <1>12 DEF Calm
<1> QED BY <1>3, <1>4, <1>5, <1>6, <1>7, <1>13 DEF f

LEMMA MakeExclusiveKeeps ==
    ASSUME Inv, NEW r \in Request, MakeExclusive(r)
    PROVE  Inv'
<1> DEFINE c == req[r]
           p == req[r].path
           x == IF req[r].args.dir THEN Directory ELSE UserFile
<1>0. /\ c \in Calls /\ Place(c) /\ c.op = "make" /\ c.pc = "excl" /\ CanExclude({p})
  BY Busy DEF MakeExclusive
<1>1. CASE Fails(r)
  BY <1>0, <1>1, FailsEnds
<1>2. CASE ~Fails(r)
  <2>1. /\ Unused # {} /\ node' = [node EXCEPT ![Fresh] = x] /\ tree' = [tree EXCEPT ![p] = Fresh]
        /\ inodes' = Insert(inodes, p) /\ Reply(r) /\ UNCHANGED <<task, calls>>
        /\ \/ handles' = handles
           \/ \E h \in FreeHandles :
                 handles' = [handles EXCEPT ![h] = FileHandle(inodes'.byPath[p], Fresh, TRUE, "excl", p)]
    BY <1>2 DEF MakeExclusive
  <2>2. p \in Path /\ c.ns = "write"
    BY <1>0 DEF Place
  <2>3. \A s \in Request : ~Remapping(s)
    BY <1>0, <2>2, AloneInNamespace DEF Remapping
  <2>4. /\ req'[r] = Idle /\ \A s \in Request \ {r} : req'[s] = req[s]
        /\ req' \in [Request -> Calls \cup {Idle}]
    BY <2>1, SetIs DEF Reply, Inv
  <2>5. \A s \in Request : req'[s].pc # "remap"
    BY <2>3, <2>4, IdleIs DEF Remapping
  <2>6. PICK y \in Node : y = x /\ ~y.ph
    BY NodeTypes
  <2>7. PICK q \in Path : q = p
    BY <2>2
  <2> HIDE DEF c, p, x
  <2>8. /\ Calm(Request \ {r}) /\ Single' /\ Stands'
        /\ tree' \in [Path -> 0 .. MaxNodes] /\ node' \in [1 .. MaxNodes -> Node] /\ Table(inodes')
        /\ tree'[q] = Fresh /\ node'[Fresh] = y
    BY <1>0, <2>1, <2>3, <2>5, <2>6, <2>7, MadeIs
  <2>9. CASE handles' = handles
    <3>1. Types'
      BY <2>1, <2>4, <2>8, <2>9 DEF Inv, Types
    <3>2. Leases'
      BY <2>1, <2>4, <2>9, IdleIs, LeasesShrink DEF Inv
    <3> QED BY <2>1, <2>8, <2>9, <3>1, <3>2, MovesAndEnds
  <2>10. ASSUME NEW h \in FreeHandles,
                handles' = [handles EXCEPT ![h] = FileHandle(inodes'.byPath[p], Fresh, TRUE, "excl", p)]
         PROVE  Inv'
    <3>1. PICK f : f = FileHandle(inodes'.byPath[q], Fresh, TRUE, "excl", q)
      OBVIOUS
    <3>2. Fresh \in 0 .. MaxNodes /\ Fresh # None
      BY <2>1, FreshIs, DriveAssumption
    <3>3. Leads(inodes', inodes'.byPath[q], q) /\ inodes'.byPath[q] \in Nat /\ q \in Paths
      <4>1. q \in Paths
        BY PathIsSeq
      <4>2. Leads(inodes', inodes'.byPath[q], q)
        BY <2>1, <2>7, <4>1, TableNat, InsertKeeps
      <4>3. inodes'.byPath[q] \in Nat
        BY <2>8, <4>2, LeadsBack, LeadsForth
      <4> QED BY <4>1, <4>2, <4>3
    <3>4. /\ f \in OpenFile /\ f.ino = inodes'.byPath[q] /\ f.wr /\ f.path = q /\ f.node = Fresh
          /\ f.lease = "excl"
      BY <3>1, <3>2, <3>3 DEF FileHandle, OpenFile
    <3>5. Opens(r, h, f)
      BY <2>1, <2>7, <2>10, <3>1 DEF Opens
    <3>6. Grantable(f.lease, {f.path})
      BY <1>0, <2>7, <3>4 DEF Grantable
    <3>7. f.node # None /\ tree'[f.path] = f.node /\ ~node'[f.node].ph
      BY <2>6, <2>8, <3>2, <3>4
    <3>8. f.path \in Path /\ Leads(inodes', f.ino, f.path)
      BY <3>3, <3>4
    <3>9. calls' = calls
      BY <2>1
    <3> QED BY <2>8, <3>4, <3>5, <3>6, <3>7, <3>8, <3>9, OpensKeeps
  <2> QED BY <2>1, <2>9, <2>10
<1> QED BY <1>1, <1>2

LEMMA BelowIsChild ==
    ASSUME NEW p \in Path, NEW x \in Path, Under(x, p), x # p
    PROVE  Parent(x) = p
<1>1. p \in Seq(Names) /\ x \in Seq(Names) /\ Len(p) \in 1 .. 2 /\ Len(x) \in 1 .. 2
  BY PathIsSeq
<1>2. Len(p) # Len(x)
  BY <1>1, SubSeqFull DEF Under
<1>3. Len(p) = 1 /\ Len(x) = 2
  BY <1>1, <1>2 DEF Under
<1> QED BY <1>3 DEF Under, Parent

LEMMA RemoveExclusiveKeeps ==
    ASSUME Inv, NEW r \in Request, RemoveExclusive(r)
    PROVE  Inv'
<1> USE DEF Inv
<1> DEFINE c == req[r]
           p == req[r].path
<1>0. /\ c \in Calls /\ Place(c) /\ c.op = "remove" /\ c.pc = "excl" /\ CanExclude({p})
  BY Busy DEF RemoveExclusive
<1>1. CASE Fails(r)
  BY <1>0, <1>1, FailsEnds
<1>2. CASE ~Fails(r)
  <2>1. /\ Children(p) = {} /\ tree' = [tree EXCEPT ![p] = None] /\ node' = Buried(node, p)
        /\ inodes' = RemoveSubtree(inodes, p)
        /\ Reply(r) /\ UNCHANGED <<handles, task, calls>>
    BY <1>2 DEF RemoveExclusive
  <2>2. p \in Path /\ p \in Paths /\ c.ns = "write"
    BY <1>0, PathIsSeq DEF Place
  <2>3. /\ \A s \in Request : ~Remapping(s)
        /\ \A s \in Request \ {r} : req[s].ns = "none"
    BY <1>0, <2>2, AloneInNamespace DEF Remapping
  <2>4. /\ req'[r] = Idle /\ \A s \in Request \ {r} : req'[s] = req[s]
        /\ req' \in [Request -> Calls \cup {Idle}]
    BY <2>1, SetIs DEF Reply
  <2>5. \A s \in Request : req'[s].pc # "remap"
    BY <2>3, <2>4, IdleIs DEF Remapping
  <2> HIDE DEF c, p
  <2>6. Forgets(node', node, p)
    BY <2>1, BuriedForgets DEF Types
  <2>7. /\ tree' \in [Path -> 0 .. MaxNodes] /\ tree'[p] = None
        /\ \A q \in Path : q # p => tree'[q] = tree[q]
    BY <2>1, <2>2, DriveAssumption DEF Types, None
  <2>8. /\ Table(inodes')
        /\ \A i, q : Leads(inodes, i, q) /\ ~Under(q, p) => Leads(inodes', i, q)
    BY <2>1, TableNat, RemoveKeeps
  <2>9. Types'
    BY <2>1, <2>4, <2>6, <2>7, <2>8 DEF Types, Forgets
  <2>10. Leases'
    BY <2>1, <2>4, IdleIs, LeasesShrink
  <2>11. Single'
    BY <2>7 DEF Single
  <2>12. Stands'
    <3> SUFFICES ASSUME NEW m \in 1 .. MaxNodes, node'[m].ph PROVE node'[m].own /\ node'[m].kind = "file"
      BY DEF Stands
    <3>1. node'[m] = node[m]
      BY <2>6 DEF Forgets
    <3> QED BY <3>1 DEF Stands
  <2>13. ASSUME NEW q \in Path, Covered(Request, q) PROVE ~Under(q, p) /\ q # p
    <3>1. ~Overlap(p, q)
      BY <1>0, <2>13, AloneUncovered DEF Covered
    <3> QED BY <2>2, <3>1, UnderItself DEF Overlap, Paths
  <2>14. ASSUME NEW q \in Path, Covered(Request \ {r}, q) PROVE Undisturbed(q)
    <3>1. Covered(Request, q)
      BY <2>14 DEF Covered
    <3>2. tree'[q] = tree[q] /\ q # p /\ ~Under(q, p)
      BY <2>7, <2>13, <3>1
    <3>3. IsFile(q) => tree[q] # None /\ tree[q] \in 1 .. MaxNodes /\ tree[q] # tree[p]
      BY <2>2, <3>2, DriveAssumption DEF IsFile, Exists, Types, Single, None
    <3>4. IsFile(q) => node'[tree[q]] = node[tree[q]]
      BY <2>6, <3>3 DEF Forgets
    <3> QED BY <2>8, <3>2, <3>3, <3>4 DEF Undisturbed, IsFile, At
  <2>15. ASSUME NEW n \in Wanted(Request \ {r}), NEW i, Following(i, n) PROVE Following(i, n)'
    <3>1. n # None
      BY WantedIs
    <3>2. ASSUME NEW x \in Path, tree'[x] = n
          PROVE  tree[x] = n /\ ~Under(x, p)
      <4>1. x # p /\ tree[x] = n
        BY <2>7, <3>1, <3>2
      <4>2. Parent(x) # p
        BY <2>1, <3>1, <4>1 DEF Children
      <4> QED BY <2>2, <4>1, <4>2, BelowIsChild
    <3> QED BY <2>3, <2>5, <2>8, <2>15, <3>2, PlainFollows
  <2>16. ASSUME NEW h \in OpenHandles, handles[h].node # None, ~node[handles[h].node].ph
         PROVE  ~node'[handles[h].node].ph
    <3>1. handles[h].node \in 1 .. MaxNodes
      BY <2>16, OpenHandleType, DriveAssumption DEF None
    <3> QED BY <2>6, <2>16, <3>1 DEF Forgets
  <2>17. ASSUME NEW h \in OpenHandles, handles[h].lease = "excl"
         PROVE  tree'[handles[h].path] = tree[handles[h].path]
    <3>1. handles[h].path \in Path /\ Covered(Request, handles[h].path)
      BY <2>17 DEF Handles, Holds, Covered
    <3> QED BY <2>7, <2>13, <3>1
  <2>18. Calm(Request \ {r})
    BY <2>3, <2>14, <2>15, <2>16, <2>17 DEF Calm
  <2> QED BY <2>1, <2>9, <2>10, <2>11, <2>12, <2>18, MovesAndEnds
<1> QED BY <1>1, <1>2

-----------------------------------------------------------------------------
(* The rename *)

LEMMA CarriedOnce ==
    ASSUME NEW o, NEW p, NEW q, NEW s, NEW d, Carried(o, p, s, d), Carried(o, q, s, d)
    PROVE  p = q
BY DEF Carried

(* What stands somewhere after the rename stood where the table is carried from. *)
LEMMA CarriedFrom ==
    ASSUME Types, NEW s \in Path, NEW d \in Path, NEW p \in Path, NEW t, t = TreeAfter(s, d), t[p] # None
    PROVE  \E o \in Path : tree[o] = t[p] /\ Carried(o, p, s, d)
<1>1. p \in Seq(Names) /\ s \in Seq(Names) /\ d \in Seq(Names)
  BY PathIsSeq
<1>2. CASE Under(p, d)
  <2> DEFINE o == Moved(p, d, s)
  <2>1. Under(o, s) /\ Moved(o, s, d) = p
    BY <1>1, <1>2, MovedBack
  <2>2. t[p] = IF o \in Path THEN tree[o] ELSE None
    BY <1>2 DEF TreeAfter, Moved
  <2> HIDE DEF o
  <2>3. o \in Path /\ tree[o] = t[p]
    BY <2>2
  <2> QED BY <2>1, <2>3 DEF Carried
<1>3. CASE ~Under(p, d)
  <2>1. t[p] = IF Under(p, s) THEN None ELSE tree[p]
    BY <1>3 DEF TreeAfter
  <2>2. ~Under(p, s) /\ tree[p] = t[p]
    BY <2>1
  <2> QED BY <1>3, <2>2 DEF Carried
<1> QED BY <1>2, <1>3

LEMMA TreeAfterIs ==
    ASSUME Types, NEW s \in Path, NEW d \in Path, NEW t, t = TreeAfter(s, d)
    PROVE  /\ t \in [Path -> 0 .. MaxNodes]
           /\ \A p \in Path : ~Under(p, s) /\ ~Under(p, d) => t[p] = tree[p]
<1>1. ASSUME NEW p \in Path PROVE t[p] \in 0 .. MaxNodes
  <2> DEFINE o == s \o SubSeq(p, Len(d) + 1, Len(p))
  <2>1. t[p] = IF Under(p, d) THEN IF o \in Path THEN tree[o] ELSE None
               ELSE IF Under(p, s) THEN None ELSE tree[p]
    BY DEF TreeAfter
  <2>2. None \in 0 .. MaxNodes /\ \A q \in Path : tree[q] \in 0 .. MaxNodes
    BY DriveAssumption DEF Types, None
  <2> HIDE DEF o
  <2> QED BY <2>1, <2>2
<1>2. t = [p \in Path |-> t[p]]
  BY DEF TreeAfter
<1>3. t \in [Path -> 0 .. MaxNodes]
  BY <1>1, <1>2
<1>4. \A p \in Path : ~Under(p, s) /\ ~Under(p, d) => t[p] = tree[p]
  BY DEF TreeAfter
<1> QED BY <1>3, <1>4

(* The source carries the cloud file's identity afterwards if it stood for it. *)
LEMMA IdentityIs ==
    ASSUME Types, Stands, NEW s, NEW n, n = [node EXCEPT ![tree[s]].own = IsCloudFile(s)]
    PROVE  /\ n \in [1 .. MaxNodes -> Node]
           /\ \A m \in 1 .. MaxNodes : n[m].ph = node[m].ph /\ (m # tree[s] => n[m] = node[m])
           /\ \A m \in 1 .. MaxNodes : n[m].ph => n[m].own /\ n[m].kind = "file"
<1>1. node \in [1 .. MaxNodes -> Node]
  BY DEF Types
<1>2. CASE tree[s] \notin 1 .. MaxNodes
  <2>1. n = node
    BY <1>1, <1>2
  <2> QED BY <1>1, <2>1 DEF Stands
<1>3. CASE tree[s] \in 1 .. MaxNodes
  <2>1. PICK x \in Node : x = node[tree[s]]
    BY <1>1, <1>3
  <2>2. PICK b : b = IsCloudFile(s)
    OBVIOUS
  <2>3. x.own \in BOOLEAN /\ (b = (s = P0 \/ x.own)) /\ b \in BOOLEAN
    BY <2>1, <2>2 DEF IsCloudFile, At, Node
  <2>4. PICK y : y = [x EXCEPT !.own = b]
    OBVIOUS
  <2>5. y \in Node /\ y.ph = x.ph /\ y.kind = x.kind /\ y.own = b
    BY <2>3, <2>4 DEF Node
  <2>6. n = [node EXCEPT ![tree[s]] = y]
    BY <2>1, <2>2, <2>4
  <2>7. n \in [1 .. MaxNodes -> Node] /\ \A m \in 1 .. MaxNodes : n[m] = IF m = tree[s] THEN y ELSE node[m]
    BY <1>1, <2>5, <2>6
  <2>8. x.ph => x.own /\ x.kind = "file"
    BY <1>3, <2>1 DEF Stands
  <2>9. y.ph => y.own /\ y.kind = "file"
    BY <2>3, <2>5, <2>8
  <2> QED BY <2>1, <2>5, <2>7, <2>9 DEF Stands
<1> QED BY <1>2, <1>3

LEMMA RenameExclusiveKeeps ==
    ASSUME Inv, NEW r \in Request, RenameExclusive(r)
    PROVE  Inv'
<1> USE DEF Inv
<1> DEFINE c == req[r]
           s == req[r].path
           d == req[r].dest
           n == [node EXCEPT ![tree[s]].own = IsCloudFile(s)]
<1>0. /\ c \in Calls /\ Place(c) /\ c.op = "rename" /\ c.pc = "excl" /\ CanExclude({s, d})
  BY Busy DEF RenameExclusive
<1>1. CASE Fails(r)
  BY <1>0, <1>1, FailsEnds
<1>2. CASE ~Fails(r)
  <2>1. /\ tree' = TreeAfter(s, d) /\ node' = Buried(n, d)
        /\ UNCHANGED <<inodes, handles, task, calls>>
    BY <1>2 DEF RenameExclusive
  <2>2. PICK q : /\ q = [c EXCEPT !.lease = "excl", !.on = {s, d}, !.pc = "remap", !.want = None,
                                  !.wantDest = None]
                 /\ Set(r, q)
    BY <1>2 DEF RenameExclusive
  <2>3. /\ s \in Path /\ d \in Path /\ s # d /\ c.ns = "write" /\ s \in Paths /\ d \in Paths
        /\ s # Root /\ d # Root /\ s = c.path /\ d = c.dest
    BY <1>0, PathIsSeq DEF Place
  <2>4. /\ \A u \in Request : ~Remapping(u)
        /\ \A u \in Request \ {r} : req[u].ns = "none"
    BY <1>0, <2>3, AloneInNamespace DEF Remapping
  <2>5. None \in 0 .. MaxNodes
    BY DriveAssumption DEF None
  <2> HIDE DEF c, s, d
  <2>6. /\ q \in Calls /\ q.pc = "remap" /\ q.op = "rename" /\ q.ns = "write" /\ q.lease = "excl"
        /\ q.on = {s, d} /\ q.path = s /\ q.dest = d /\ q.args = c.args
    BY <1>0, <2>2, <2>3, <2>5 DEF Calls, PC
  <2>7. Place(q)
    BY <1>0, <2>3, <2>6 DEF Place
  <2>8. /\ req'[r] = q /\ \A u \in Request \ {r} : req'[u] = req[u]
        /\ req' \in [Request -> Calls \cup {Idle}]
    BY <2>2, <2>6, SetIs
  <2>9. /\ tree' \in [Path -> 0 .. MaxNodes]
        /\ \A p \in Path : ~Under(p, s) /\ ~Under(p, d) => tree'[p] = tree[p]
    BY <2>1, <2>3, TreeAfterIs
  <2>10. \A p \in Path : tree'[p] # None => \E o \in Path : tree[o] = tree'[p] /\ Carried(o, p, s, d)
    BY <2>1, <2>3, CarriedFrom
  <2>11. /\ n \in [1 .. MaxNodes -> Node]
         /\ \A m \in 1 .. MaxNodes : n[m].ph = node[m].ph /\ (m # tree[s] => n[m] = node[m])
         /\ \A m \in 1 .. MaxNodes : n[m].ph => n[m].own /\ n[m].kind = "file"
    BY IdentityIs
  <2> HIDE DEF n
  <2>12. Forgets(node', n, d)
    <3>1. Forgets(Buried(n, d), n, d)
      BY <2>11, BuriedForgets
    <3> QED BY <2>1, <3>1
  <2>13. Types'
    BY <2>1, <2>8, <2>9, <2>12 DEF Types, Forgets
  <2>14. Leases'
    <3>1. Grantable(req'[r].lease, req'[r].on)
      BY <1>0, <2>6, <2>8 DEF Grantable
    <3> QED BY <2>1, <2>8, <3>1, RequestTakes
  <2>15. Single'
    <3> SUFFICES ASSUME NEW p \in Path, NEW x \in Path, tree'[p] # None, tree'[p] = tree'[x]
                 PROVE  p = x
      BY DEF Single
    <3>1. PICK o \in Path : tree[o] = tree'[p] /\ Carried(o, p, s, d)
      BY <2>10
    <3>2. PICK u \in Path : tree[u] = tree'[x] /\ Carried(u, x, s, d)
      BY <2>10
    <3>3. o = u
      BY <3>1, <3>2 DEF Single
    <3> QED BY <3>1, <3>2, <3>3, CarriedOnce
  <2>16. Stands'
    <3> SUFFICES ASSUME NEW m \in 1 .. MaxNodes, node'[m].ph PROVE node'[m].own /\ node'[m].kind = "file"
      BY DEF Stands
    <3>1. node'[m] = n[m]
      BY <2>12 DEF Forgets
    <3> QED BY <2>11, <3>1
  <2>17. ASSUME NEW p \in Path, Covered(Request, p)
         PROVE  /\ ~Under(p, s) /\ ~Under(p, d) /\ p # s /\ p # d
                /\ tree'[p] = tree[p]
    <3>1. ~Overlap(s, p) /\ ~Overlap(d, p)
      BY <1>0, <2>17, AloneUncovered DEF Covered
    <3>2. p # s /\ p # d
      BY <2>3, <3>1, UnderItself DEF Overlap, Paths
    <3> QED BY <2>9, <3>1, <3>2 DEF Overlap
  <2>18. ASSUME NEW p \in Path, Covered(Request \ {r}, p) PROVE Undisturbed(p)
    <3>1. Covered(Request, p)
      BY <2>18 DEF Covered
    <3>2. tree'[p] = tree[p] /\ p # s /\ p # d
      BY <2>17, <3>1
    <3>3. IsFile(p) => tree[p] # None /\ tree[p] \in 1 .. MaxNodes /\ tree[p] # tree[s] /\ tree[p] # tree[d]
      BY <2>3, <3>2, DriveAssumption DEF IsFile, Exists, Types, Single, None
    <3>4. IsFile(p) => node'[tree[p]] = node[tree[p]]
      BY <2>11, <2>12, <3>3 DEF Forgets
    <3> QED BY <2>1, <3>2, <3>3, <3>4 DEF Undisturbed, IsFile, At
  <2>19. ASSUME NEW m \in Wanted(Request \ {r}), NEW i, Following(i, m) PROVE Following(i, m)'
    <3>1. m # None
      BY WantedIs
    <3>2. ASSUME NEW x \in Path, tree'[x] = m PROVE Leads(RenameSubtree(inodes, s, d), i, x)
      <4>1. PICK o \in Path : tree[o] = m /\ Carried(o, x, s, d)
        BY <2>10, <3>1, <3>2
      <4>2. Leads(inodes, i, o)
        BY <2>4, <2>19, <4>1 DEF Following
      <4> QED BY <2>3, <4>1, <4>2, TableNat, RenameKeeps
    <3>3. \A u \in Request : req'[u].pc = "remap" => u = r
      BY <2>4, <2>8 DEF Remapping
    <3>4. inodes' = inodes /\ req'[r].path = s /\ req'[r].dest = d /\ req'[r].pc = "remap"
      BY <2>1, <2>6, <2>8
    <3> QED BY <3>2, <3>3, <3>4 DEF Following, Remapping
  <2>20. ASSUME NEW h \in OpenHandles, handles[h].node # None, ~node[handles[h].node].ph
         PROVE  ~node'[handles[h].node].ph
    <3>1. handles[h].node \in 1 .. MaxNodes
      BY <2>20, OpenHandleType, DriveAssumption DEF None
    <3> QED BY <2>11, <2>12, <2>20, <3>1 DEF Forgets
  <2>21. ASSUME NEW h \in OpenHandles, handles[h].lease = "excl"
         PROVE  tree'[handles[h].path] = tree[handles[h].path]
    <3>1. handles[h].path \in Path /\ Covered(Request, handles[h].path)
      BY <2>21 DEF Handles, Holds, Covered
    <3> QED BY <2>17, <3>1
  <2>22. Calm(Request \ {r})
    BY <2>4, <2>18, <2>19, <2>20, <2>21 DEF Calm
  <2>23. Knowing(q)'
    BY <2>6 DEF Knowing
  <2>24. NsGranted(q, c.ns)
    BY <2>3, <2>6 DEF NsGranted
  <2> QED BY <2>1, <2>2, <2>6, <2>7, <2>13, <2>14, <2>15, <2>16, <2>22, <2>23, <2>24, Moves DEF c
<1> QED BY <1>1, <1>2

LEMMA RenameRemapKeeps ==
    ASSUME Inv, NEW r \in Request, RenameRemap(r)
    PROVE  Inv'
<1> USE DEF Inv
<1> DEFINE s == req[r].path
           d == req[r].dest
<1>0. /\ inodes' = RenameSubtree(inodes, s, d) /\ Reply(r)
      /\ UNCHANGED <<tree, node, handles, task, calls>>
      /\ Remapping(r)
  BY DEF RenameRemap, Remapping
<1>1. /\ s \in Paths /\ d \in Paths /\ s # d /\ s # Root /\ d # Root
      /\ req[r].ns = "write" /\ req[r].lease = "excl" /\ req[r].on = {s, d}
  BY <1>0, RemapPaths
<1>2. \A u \in Request \ {r} : req[u].ns = "none" /\ ~Remapping(u)
  BY <1>1, AloneInNamespace
<1>3. /\ req'[r] = Idle /\ \A u \in Request \ {r} : req'[u] = req[u]
      /\ req' \in [Request -> Calls \cup {Idle}]
  BY <1>0, SetIs DEF Reply
<1> HIDE DEF s, d
<1>4. /\ Table(inodes')
      /\ \A i, q, p : Leads(inodes, i, q) /\ Carried(q, p, s, d) => Leads(inodes', i, p)
  BY <1>0, <1>1, TableNat, RenameKeeps
<1>5. Types'
  BY <1>0, <1>3, <1>4 DEF Types
<1>6. Leases'
  BY <1>0, <1>3, IdleIs, LeasesShrink
<1>7. Single' /\ Stands'
  BY <1>0 DEF Single, Stands
<1>8. ASSUME NEW p \in Path, Covered(Request \ {r}, p) PROVE Undisturbed(p)
  <2>1. Apart(req[r].on, {p})
    <3>1. CASE \E u \in Request \ {r} : req[u].lease # "none" /\ p \in req[u].on
      BY <1>1, <3>1 DEF Leases, Clash, Apart
    <3>2. CASE \E h \in OpenHandles : handles[h].lease # "none" /\ handles[h].path = p
      BY <1>1, <3>2 DEF Leases, Clash, Apart
    <3> QED BY <1>8, <3>1, <3>2 DEF Covered
  <2>2. ~Under(p, s) /\ ~Under(p, d)
    BY <1>1, <2>1 DEF Apart, Overlap
  <2>3. Carried(p, p, s, d)
    BY <2>2 DEF Carried
  <2> QED BY <1>0, <1>4, <2>3 DEF Undisturbed, IsFile, Exists, At
<1>9. ASSUME NEW m, NEW i, Following(i, m) PROVE Following(i, m)'
  <2>1. \A x \in Path : tree'[x] = m => Leads(inodes', i, x)
    BY <1>0, <1>9 DEF Following, s, d
  <2>2. \A u \in Request : req'[u].pc # "remap"
    BY <1>2, <1>3, IdleIs DEF Remapping
  <2> QED BY <2>1, <2>2 DEF Following, Remapping
<1>10. Calm(Request \ {r})
  BY <1>0, <1>2, <1>8, <1>9 DEF Calm
<1> QED BY <1>0, <1>5, <1>6, <1>7, <1>10, MovesAndEnds

-----------------------------------------------------------------------------
(* The invariant holds *)

LEMMA FirstTable ==
    LET t == Insert(Insert(NewTable, Parent(P0)), P0)
    IN Table(t) /\ t.next \in Nat /\ t.next <= 4
<1>1. PICK n \in Name, m \in Name : P0 = <<n, m>>
  BY DriveAssumption
<1>2. Parent(P0) \in Paths /\ P0 \in Paths
  <2>1. P0 \in Path /\ P0 \in Seq(Name)
    BY <1>1 DEF Path
  <2>2. SubSeq(P0, 1, 1) = <<n>>
    <3>1. P0 \in Seq({n, m}) /\ Len(P0) = 2 /\ P0[1] = n /\ 1 \in 1 .. Len(P0) + 1 /\ 1 \in 0 .. Len(P0)
      BY <1>1
    <3>2. /\ SubSeq(P0, 1, 1) \in Seq({n, m}) /\ Len(SubSeq(P0, 1, 1)) = 1
          /\ SubSeq(P0, 1, 1)[1] = P0[1]
      BY <3>1, SubSeqProperties
    <3>3. PICK q \in Seq({n, m}) : q = SubSeq(P0, 1, 1)
      BY <3>2
    <3>4. Len(q) = 1 /\ q[1] = n
      BY <3>1, <3>2, <3>3
    <3>5. q = <<n>>
      BY <3>4
    <3> QED BY <3>3, <3>5
  <2>3. Parent(P0) \in Path
    BY <1>1, <2>2 DEF Parent, Path
  <2> QED BY <2>1, <2>3, PathIsSeq
<1>3. Table(NewTable) /\ NewTable.next = 2
  <2>1. Root \in Paths
    BY PathIsSeq
  <2> QED BY <2>1 DEF Table, NewTable, Exact, GivenOut, RootInode
<1>4. /\ Table(Insert(NewTable, Parent(P0)))
      /\ Insert(NewTable, Parent(P0)).next \in {2, 3}
  BY <1>2, <1>3, InsertKeeps
<1> DEFINE u == Insert(NewTable, Parent(P0))
<1> HIDE DEF u
<1>5. Table(Insert(u, P0)) /\ Insert(u, P0).next \in {u.next, u.next + 1}
  BY <1>2, <1>4, InsertKeeps DEF u
<1> QED BY <1>4, <1>5 DEF u

LEMMA InvInit ==
    ASSUME Init
    PROVE  Inv
<1> USE DEF Init
<1>1. 0 \in 0 .. MaxNodes /\ 1 \in 0 .. MaxNodes /\ 2 \in 0 .. MaxNodes
  BY DriveAssumption
<1>2. Types
  <2>1. tree \in [Path -> 0 .. MaxNodes]
    BY <1>1 DEF None
  <2>2. node \in [1 .. MaxNodes -> Node]
    BY NodeTypes
  <2>3. Table(inodes)
    BY FirstTable
  <2> QED BY <2>1, <2>2, <2>3 DEF Types
<1>3. Places /\ Namespace
  BY IdleIs DEF Places, Namespace
<1>4. OpenHandles = {}
  BY DEF OpenHandles, Closed
<1>5. Leases
  BY <1>4, IdleIs DEF Leases, Clash
<1>6. Single
  <2>1. \A p \in Path : tree[p] = IF p = Parent(P0) THEN 1 ELSE IF p = P0 THEN 2 ELSE 0
    BY DEF None
  <2> HIDE DEF Init
  <2> QED BY <2>1 DEF Single, None
<1>7. Stands
  BY NodeTypes DEF Stands
<1>8. Handles /\ Known
  BY <1>4, IdleIs DEF Handles, Known
<1> QED BY <1>2, <1>3, <1>5, <1>6, <1>7, <1>8 DEF Inv

LEMMA InvNext ==
    ASSUME Inv, [Next]_vars
    PROVE  Inv'
<1>1. ASSUME NEW r \in Request, Ask(r) PROVE Inv'
  BY <1>1, AskKeeps
<1>2. ASSUME NEW r \in Request, Run(r) PROVE Inv'
  <2>1. CASE LoadStart(r) \/ LoadDone(r) \/ LoadFail(r)
    BY <2>1, LoadStartKeeps, LoadKeeps
  <2>2. CASE OpenStart(r) \/ OpenShared(r) \/ OpenRenew(r) \/ OpenExclusive(r)
    BY <2>2, OpenStartKeeps, OpenSharedKeeps, OpenRenewKeeps, OpenExclusiveKeeps
  <2>3. CASE ReadStart(r) \/ ReadRenew(r) \/ ReadFill(r)
    BY <2>3, ReadStartKeeps, ReadRenewKeeps, ReadFillKeeps
  <2>4. CASE LookupInsert(r) \/ MakeStart(r) \/ MakeExclusive(r)
    BY <2>4, LookupInsertKeeps, MakeStartKeeps, MakeExclusiveKeeps
  <2>5. CASE RemoveStart(r) \/ RemoveShared(r) \/ RemovePromote(r) \/ RemoveExclusive(r)
    BY <2>5, RemoveStartKeeps, RemoveSharedKeeps, RemovePromoteKeeps, RemoveExclusiveKeeps
  <2>6. CASE RenameStart(r) \/ RenameShared(r) \/ RenamePromote(r) \/ RenameDest(r)
    BY <2>6, RenameStartKeeps, RenameSharedKeeps, RenamePromoteKeeps, RenameDestKeeps
  <2>7. CASE RenameExclusive(r) \/ RenameRemap(r)
    BY <2>7, RenameExclusiveKeeps, RenameRemapKeeps
  <2>8. CASE SetAttrStart(r) \/ SetAttrShared(r) \/ SetAttrPromote(r) \/ SetAttrExclusive(r)
    BY <2>8, SetAttrStartKeeps, SetAttrSharedKeeps, SetAttrPromoteKeeps, SetAttrExclusiveKeeps
  <2> QED BY <1>2, <2>1, <2>2, <2>3, <2>4, <2>5, <2>6, <2>7, <2>8 DEF Run
<1>3. ASSUME NEW h \in Handle, Write(h) \/ Release(h) PROVE Inv'
  BY <1>3, WriteKeeps, ReleaseKeeps
<1>4. CASE TaskInstall \/ TaskFail \/ FreeUp(P0)
  BY <1>4, TaskInstallKeeps, TaskFailKeeps, FreeUpKeeps
<1>5. CASE UNCHANGED vars
  <2> USE DEF vars, Inv
  <2>1. Types' /\ Places' /\ Namespace' /\ Single' /\ Stands'
    BY <1>5 DEF Types, Places, Namespace, Single, Stands
  <2>2. Leases'
    BY <1>5, LeasesShrink
  <2>3. Calm(Request)
    BY <1>5, CalmInserts DEF SameRenames, Inserts
  <2>4. Handles' /\ Known'
    BY <1>5, <2>3, Keeps
  <2> QED BY <2>1, <2>2, <2>4
<1> QED BY <1>1, <1>2, <1>3, <1>4, <1>5 DEF Next

LEMMA InvAlways == Spec => []Inv
<1>1. Init => Inv
  BY InvInit
<1>2. Inv /\ [Next]_vars => Inv'
  BY InvNext
<1> QED BY <1>1, <1>2, PTL DEF Spec

(* The counters stay within their bounds. *)
Bounded == calls \in 0 .. MaxCalls /\ inodes.next <= MaxInodes + 1

LEMMA BoundedNext ==
    ASSUME Inv, Bounded, [Next]_vars
    PROVE  Bounded'
<1> DEFINE Room(p) == Knows(inodes, p) \/ inodes.next < MaxInodes
<1>0. inodes.next \in Nat /\ MaxInodes \in Nat /\ Table(inodes)
  BY TableNat, DriveAssumption DEF Table
<1>1. ASSUME NEW p \in Path, Room(p) PROVE Insert(inodes, p).next <= MaxInodes + 1
  <2>1. CASE Knows(inodes, p)
    BY <2>1 DEF Insert, Bounded
  <2>2. CASE inodes.next < MaxInodes
    <3>1. Insert(inodes, p).next \in {inodes.next, inodes.next + 1}
      BY <1>0, PathIsSeq, InsertKeeps
    <3> QED BY <1>0, <2>2, <3>1
  <2> QED BY <1>1, <2>1, <2>2
<1>2. ASSUME NEW r \in Request, Ask(r) PROVE Bounded'
  <2>1. calls < MaxCalls /\ calls' = calls + 1 /\ inodes' = inodes
    BY <1>2 DEF Ask, Open, Read, Lookup, Make, Remove, Rename, SetAttr, New
  <2> QED BY <2>1, DriveAssumption DEF Bounded
<1> HIDE DEF Room
<1>3. ASSUME NEW r \in Request, Run(r)
      PROVE  /\ calls' = calls
             /\ \/ inodes' = inodes
                \/ \E p \in Path : Room(p) /\ inodes' = Insert(inodes, p)
                \/ req[r].op = "lookup" /\ inodes.next < MaxInodes /\ inodes' = Insert(inodes, req[r].path)
                \/ \E p \in Paths : inodes' = RemoveSubtree(inodes, p)
                \/ Remapping(r) /\ inodes' = RenameSubtree(inodes, req[r].path, req[r].dest)
  <2> USE DEF Fails, Steps, Reply, Set
  <2>0. Place(req[r])
    BY Busy
  <2>1. CASE LoadStart(r) \/ LoadDone(r) \/ LoadFail(r)
    BY <2>1 DEF LoadStart, LoadDone, LoadFail
  <2>2. CASE OpenStart(r) \/ OpenShared(r) \/ OpenRenew(r) \/ OpenExclusive(r)
    BY <2>2 DEF OpenStart, OpenShared, OpenRenew, OpenExclusive
  <2>3. CASE ReadStart(r) \/ ReadRenew(r) \/ ReadFill(r)
    BY <2>3 DEF ReadStart, ReadRenew, ReadFill
  <2>4. CASE LookupInsert(r)
    BY <2>4 DEF LookupInsert
  <2>5. CASE MakeStart(r)
    BY <2>5 DEF MakeStart
  <2>6. CASE MakeExclusive(r)
    BY <2>0, <2>6 DEF MakeExclusive, Place, Room
  <2>7. CASE RemoveStart(r)
    BY <2>7 DEF RemoveStart, Exists, Room
  <2>8. ASSUME NEW pc, NEW then, PromoteNext(r, pc, then)
        PROVE  calls' = calls /\ inodes' = inodes
    BY <2>8 DEF PromoteNext
  <2>9. CASE RemoveShared(r) \/ RemovePromote(r)
    BY <2>8, <2>9 DEF RemoveShared, RemovePromote
  <2>10. CASE RemoveExclusive(r)
    BY <2>0, <2>10, PathIsSeq DEF RemoveExclusive, Place
  <2>11. CASE RenameStart(r)
    BY <2>11 DEF RenameStart
  <2>12. CASE RenameShared(r)
    BY <2>0, <2>12 DEF RenameShared, Place, Room
  <2>13. CASE RenamePromote(r)
    BY <2>0, <2>8, <2>13 DEF RenamePromote, Place, Room
  <2>14. CASE RenameDest(r) \/ RenameExclusive(r) \/ RenameRemap(r)
    BY <2>8, <2>14 DEF RenameDest, RenameExclusive, RenameRemap, Remapping
  <2>15. CASE SetAttrStart(r) \/ SetAttrShared(r) \/ SetAttrPromote(r) \/ SetAttrExclusive(r)
    BY <2>8, <2>15 DEF SetAttrStart, SetAttrShared, SetAttrPromote, SetAttrExclusive
  <2> QED BY <1>3, <2>1, <2>2, <2>3, <2>4, <2>5, <2>6, <2>7, <2>9, <2>10, <2>11, <2>12, <2>13,
             <2>14, <2>15 DEF Run
<1>4. ASSUME NEW r \in Request, Run(r) PROVE Bounded'
  <2>1. calls' \in 0 .. MaxCalls
    BY <1>3, <1>4 DEF Bounded
  <2>2. inodes'.next <= MaxInodes + 1
    <3>1. CASE inodes' = inodes
      BY <3>1 DEF Bounded
    <3>2. CASE \E p \in Path : Room(p) /\ inodes' = Insert(inodes, p)
      BY <1>1, <3>2
    <3>3. CASE req[r].op = "lookup" /\ inodes.next < MaxInodes /\ inodes' = Insert(inodes, req[r].path)
      <4>1. req[r].path \in Paths
        BY <3>3, Busy DEF Calls
      <4>2. inodes'.next \in {inodes.next, inodes.next + 1}
        BY <1>0, <3>3, <4>1, InsertKeeps
      <4> QED BY <1>0, <3>3, <4>2
    <3>4. CASE \E p \in Paths : inodes' = RemoveSubtree(inodes, p)
      BY <1>0, <3>4, RemoveKeeps DEF Bounded
    <3>5. CASE Remapping(r) /\ inodes' = RenameSubtree(inodes, req[r].path, req[r].dest)
      <4>1. inodes'.next = inodes.next
        BY <1>0, <3>5, RemapPaths, RenameKeeps
      <4> QED BY <4>1 DEF Bounded
    <3> QED BY <1>3, <1>4, <3>1, <3>2, <3>3, <3>4, <3>5
  <2> QED BY <2>1, <2>2 DEF Bounded
<1>5. CASE \/ \E h \in Handle : Write(h) \/ Release(h)
           \/ TaskInstall \/ TaskFail \/ FreeUp(P0) \/ UNCHANGED vars
  BY <1>5 DEF Write, Release, TaskInstall, TaskFail, FreeUp, vars, Bounded
<1> QED BY <1>2, <1>4, <1>5 DEF Next

LEMMA BoundedAlways == Spec => []Bounded
<1>1. Init => Bounded
  BY FirstTable, DriveAssumption DEF Init, Bounded
<1>2. Inv /\ Bounded /\ [Next]_vars => Bounded'
  BY BoundedNext
<1> QED BY <1>1, <1>2, InvAlways, PTL DEF Spec

-----------------------------------------------------------------------------
(* The theorems *)

(* Every variable keeps its type, and a handle the lease its kind of open is *)
(* for, whatever the mount's requests, the download task and free-up do      *)
(* (linux.rs).                                                               *)
THEOREM TypesHold == Spec => []TypeOK
<1>1. ASSUME Inv, Bounded PROVE TypeOK
  <2>1. GivenOut(inodes) \subseteq 1 .. MaxInodes
    BY <1>1, TableNat, DriveAssumption DEF Bounded, GivenOut, Table
  <2>2. ASSUME NEW h \in OpenHandles
        PROVE  /\ handles[h].node \in 0 .. MaxNodes
               /\ handles[h].lease = IF handles[h].wr THEN "excl"
                                     ELSE IF handles[h].node = None THEN "shared" ELSE "none"
    BY <1>1, OpenHandleType DEF Inv, Handles, Holds
  <2> QED BY <1>1, <2>1, <2>2 DEF TypeOK, Inv, Types, Bounded
<1> QED BY <1>1, InvAlways, BoundedAlways, PTL

(* The inode table's two maps are each other's inverse, however lookups,    *)
(* renames and unlinks interleave (inode_table.rs).                         *)
THEOREM TableExact == Spec => []InodesExact
<1>1. Inv => InodesExact
  BY DEF Inv, Types, Table, InodesExact
<1> QED BY <1>1, InvAlways, PTL

(* A writer's inode leads to the path that holds the file it writes to: no  *)
(* rename, unlink, download or free-up takes the file from under it.        *)
THEOREM WritersHold == Spec => []WriterHolds
<1>1. Inv => WriterHolds
  BY DEF Inv, Handles, Holds, Leads, WriterHolds
<1> QED BY <1>1, InvAlways, PTL

(* A pending handle's inode leads to a file that carries the cloud file's   *)
(* identity, so that its first read downloads the file it was opened on.    *)
THEOREM PendingStayFaithful == Spec => []PendingFaithful
<1>1. Inv => PendingFaithful
  <2> SUFFICES ASSUME Inv, NEW h \in Pending
               PROVE  /\ Live(inodes, handles[h].ino)
                      /\ IsFile(inodes.byInode[handles[h].ino])
                      /\ At(inodes.byInode[handles[h].ino]).own
    BY DEF PendingFaithful
  <2>1. h \in OpenHandles /\ handles[h].node = None /\ Holds(h)
    BY DEF Pending, Inv, Handles
  <2>2. handles[h].lease # "none" /\ IsFile(handles[h].path) /\ At(handles[h].path).own
    BY <2>1 DEF Holds
  <2>3. Leads(inodes, handles[h].ino, handles[h].path)
    BY <2>1, <2>2 DEF Holds
  <2> QED BY <2>2, <2>3 DEF Leads
<1> QED BY <1>1, InvAlways, PTL

(* Nobody reads a placeholder's emptiness as a file's content: no open      *)
(* descriptor is on one.                                                    *)
THEOREM ReadersSeeContent == Spec => []ReadsTrue
<1>1. Inv => ReadsTrue
  BY DEF Inv, Handles, Holds, ReadsTrue
<1> QED BY <1>1, InvAlways, PTL
=============================================================================
