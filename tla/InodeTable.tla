----------------------------- MODULE InodeTable -----------------------------
(***************************************************************************)
(* The inode table of the Linux mount (src/src/virtual_fs/inode_table.rs): *)
(* a two-way map between relative paths and the inode numbers the kernel   *)
(* is given.  A number is never reused within a mount session; a rename    *)
(* carries the numbers of a whole subtree to its new paths.                *)
(*                                                                         *)
(* A table is a record; a path is a sequence of names, the root is <<>>.   *)
(***************************************************************************)
EXTENDS Naturals, Sequences, Functions

Root == <<>>
RootInode == 1

(* The path is q's own or an ancestor's: Path::starts_with. *)
Under(q, p) == Len(p) <= Len(q) /\ SubSeq(q, 1, Len(p)) = p

(* The numbers a table has given out so far. *)
GivenOut(t) == 1 .. t.next - 1

NewTable ==
    [next |-> RootInode + 1,
     byPath |-> [p \in {Root} |-> RootInode],
     byInode |-> [i \in {RootInode} |-> Root]]

Knows(t, p) == p \in DOMAIN t.byPath
Live(t, i) == i \in DOMAIN t.byInode

With(f, x, y) == [z \in DOMAIN f \cup {x} |-> IF z = x THEN y ELSE f[z]]

(* get_or_insert *)
Insert(t, p) ==
    IF Knows(t, p) THEN t
    ELSE [next |-> t.next + 1,
          byPath |-> With(t.byPath, p, t.next),
          byInode |-> With(t.byInode, t.next, p)]

Numbers(t, ps) == {t.byPath[p] : p \in ps}

(* remove_subtree: the numbers of the path and its descendants die. *)
RemoveSubtree(t, p) ==
    LET gone == {q \in DOMAIN t.byPath : Under(q, p)}
    IN IF p = Root THEN t
       ELSE [t EXCEPT
               !.byPath = Restrict(@, DOMAIN @ \ gone),
               !.byInode = Restrict(@, DOMAIN @ \ Numbers(t, gone))]

(* Where a path below source goes when source becomes destination. *)
Moved(q, source, destination) ==
    destination \o SubSeq(q, Len(source) + 1, Len(q))

RenameSubtree_KeepsDestination(t, source, destination) ==
    LET moving == {q \in DOMAIN t.byPath : Under(q, source)}
        target == {Moved(q, source, destination) : q \in moving}
        kept == DOMAIN t.byPath \ moving
        From(q) == CHOOSE o \in moving : Moved(o, source, destination) = q
        numbers == Numbers(t, moving)
    IN IF source = destination \/ source = Root \/ destination = Root THEN t
       ELSE [t EXCEPT
               !.byPath = [q \in kept \cup target |->
                              IF q \in target THEN t.byPath[From(q)] ELSE @[q]],
               !.byInode = [i \in DOMAIN @ \cup numbers |->
                              IF i \in numbers THEN Moved(@[i], source, destination)
                              ELSE @[i]]]
(* rename_subtree: what was at the destination dies, what was below the *)
(* source keeps its numbers.                                             *)
RenameSubtree(t, source, destination) ==
    LET moving == {q \in DOMAIN t.byPath : Under(q, source)}
        replaced == {q \in DOMAIN t.byPath : Under(q, destination)}
        target == {Moved(q, source, destination) : q \in moving}
        kept == DOMAIN t.byPath \ (moving \cup replaced)
        From(q) == CHOOSE o \in moving : Moved(o, source, destination) = q
        numbers == Numbers(t, moving)
        dead == Numbers(t, replaced) \ numbers
    IN IF source = destination \/ source = Root \/ destination = Root THEN t
       ELSE [t EXCEPT
               !.byPath = [q \in kept \cup target |->
                              IF q \in target THEN t.byPath[From(q)] ELSE @[q]],
               !.byInode = [i \in DOMAIN @ \ dead |->
                              IF i \in numbers
                              THEN Moved(CHOOSE q \in moving : t.byPath[q] = i,
                                         source, destination)
                              ELSE @[i]]]

(* The two maps are each other's inverse and hold numbers given out. *)
Exact(t) ==
    /\ DOMAIN t.byInode \subseteq GivenOut(t)
    /\ \A p \in DOMAIN t.byPath :
          t.byPath[p] \in DOMAIN t.byInode /\ t.byInode[t.byPath[p]] = p
    /\ \A i \in DOMAIN t.byInode :
          t.byInode[i] \in DOMAIN t.byPath /\ t.byPath[t.byInode[i]] = i
=============================================================================
