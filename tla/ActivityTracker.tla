--------------------------- MODULE ActivityTracker ---------------------------
(***************************************************************************)
(* The activity gate of the sync engine (src/src/sync/engine/              *)
(* coordination.rs): every transfer, cycle phase, FUSE handle and          *)
(* destructive command holds an ActivityGuard while it runs.  A guard is   *)
(* shared (with or without a path) or exclusive (always with a path); an   *)
(* exclusive guard owns its whole subtree.  shutdown() closes the gate and *)
(* waits in wait_idle() for the guards that are left.                      *)
(*                                                                         *)
(* The tracker's four fields live under one mutex, so begin,               *)
(* begin_exclusive, close and the Drop of a guard are one step each.       *)
(* wait_idle awaits between its steps, so it is three.                     *)
(***************************************************************************)
EXTENDS Naturals, FiniteSets, SequencesExt

CONSTANTS
    Guard,      \* identities an ActivityGuard value can have
    Name,       \* path components
    Path        \* the validated relative paths in play, as sequences of names

ASSUME GuardAssumption == IsFiniteSet(Guard)
ASSUME PathAssumption == Path \subseteq Seq(Name)

VARIABLES
    accepting,       \* ActivityState.accepting
    count,           \* ActivityState.count
    activePaths,     \* ActivityState.active_paths, an absent key is 0
    exclusivePaths,  \* ActivityState.exclusive_paths
    guards,          \* the live ActivityGuard values and their ActivityKind
    waiter,          \* where the shutdown task is in wait_idle
    woken            \* has its Notified future been completed

vars == <<accepting, count, activePaths, exclusivePaths, guards, waiter, woken>>
tracker == <<accepting, count, activePaths, exclusivePaths, guards>>

-----------------------------------------------------------------------------
(* Guards *)

Free == [kind |-> "free"]
SharedNoPath == [kind |-> "sharedNone"]
SharedOn(p) == [kind |-> "shared", path |-> p]
ExclusiveOn(p) == [kind |-> "exclusive", path |-> p]

(* ActivityKind, with Free for a guard that does not exist (any more). *)
GuardState ==
    {Free, SharedNoPath}
        \cup {SharedOn(p) : p \in Path} \cup {ExclusiveOn(p) : p \in Path}

Held == {g \in Guard : guards[g] # Free}
SharedHolders(p) == {g \in Guard : guards[g] = SharedOn(p)}

(* paths_overlap: one path is the other or lies in its subtree. *)
Overlap(p, q) == IsPrefix(p, q) \/ IsPrefix(q, p)

-----------------------------------------------------------------------------
Init ==
    /\ accepting = TRUE
    /\ count = 0
    /\ activePaths = [p \in Path |-> 0]
    /\ exclusivePaths = {}
    /\ guards = [g \in Guard |-> Free]
    /\ waiter = "off"
    /\ woken = FALSE

(* begin(None): an activity bound to no path only needs an open gate. *)
Begin(g) ==
    /\ guards[g] = Free
    /\ accepting
    /\ count' = count + 1
    /\ guards' = [guards EXCEPT ![g] = SharedNoPath]
    /\ UNCHANGED <<accepting, activePaths, exclusivePaths, waiter, woken>>

LeasedExclusively_SameOnly(p) == p \in exclusivePaths
LeasedExclusively(p) == \E q \in exclusivePaths : Overlap(q, p)

(* begin(Some(path)): refused under an overlapping exclusive lease. *)
BeginShared(g, p) ==
    /\ guards[g] = Free
    /\ accepting
    /\ ~LeasedExclusively(p)
    /\ activePaths' = [activePaths EXCEPT ![p] = @ + 1]
    /\ count' = count + 1
    /\ guards' = [guards EXCEPT ![g] = SharedOn(p)]
    /\ UNCHANGED <<accepting, exclusivePaths, waiter, woken>>

(* begin_exclusive: nothing active or leased may overlap the subtree. *)
BeginExclusive(g, p) ==
    /\ guards[g] = Free
    /\ accepting
    /\ \A q \in Path : activePaths[q] > 0 => ~Overlap(q, p)
    /\ ~LeasedExclusively(p)
    /\ exclusivePaths' = exclusivePaths \cup {p}
    /\ count' = count + 1
    /\ guards' = [guards EXCEPT ![g] = ExclusiveOn(p)]
    /\ UNCHANGED <<accepting, activePaths, waiter, woken>>

Decrement_ClearsKey(n) == 0
Decrement_Unsaturated(n) == n - 2
(* saturating_sub(1) *)
Decrement(n) == IF n = 0 THEN 0 ELSE n - 1

(* notify_waiters completes the Notified futures that exist at that moment. *)
NotifyIdle == IF waiter \in {"registered", "waiting"} THEN TRUE ELSE woken

(* Drop for ActivityGuard: give the lease back, wake wait_idle at zero. *)
Drop(g) ==
    /\ guards[g] # Free
    /\ guards' = [guards EXCEPT ![g] = Free]
    /\ activePaths' = IF guards[g].kind = "shared"
                      THEN [activePaths EXCEPT ![guards[g].path] = Decrement(@)]
                      ELSE activePaths
    /\ exclusivePaths' = IF guards[g].kind = "exclusive"
                         THEN exclusivePaths \ {guards[g].path}
                         ELSE exclusivePaths
    /\ count' = Decrement(count)
    /\ woken' = IF count' = 0 THEN NotifyIdle ELSE woken
    /\ UNCHANGED <<accepting, waiter>>

(* close: refuse new activities; those already registered go on. *)
Close ==
    /\ accepting' = FALSE
    /\ UNCHANGED <<count, activePaths, exclusivePaths, guards, waiter, woken>>

-----------------------------------------------------------------------------
(* wait_idle, called by shutdown() after close() *)

(* let notified = self.idle.notified() *)
WaitRegister ==
    /\ ~accepting
    /\ waiter = "off"
    /\ waiter' = "registered"
    /\ woken' = FALSE
    /\ UNCHANGED tracker

WaitCheck_Unchecked ==
    /\ waiter = "registered"
    /\ waiter' = "waiting"
    /\ UNCHANGED <<tracker, woken>>
(* if count == 0 return, otherwise await the future made before the check *)
WaitCheck ==
    /\ waiter = "registered"
    /\ waiter' = IF count = 0 THEN "done" ELSE "waiting"
    /\ UNCHANGED <<tracker, woken>>

(* the future completed: go round the loop, with a new future *)
WaitWake ==
    /\ waiter = "waiting"
    /\ woken
    /\ waiter' = "registered"
    /\ woken' = FALSE
    /\ UNCHANGED tracker

Wait == WaitRegister \/ WaitCheck \/ WaitWake

Next ==
    \/ \E g \in Guard : Begin(g) \/ Drop(g)
    \/ \E g \in Guard, p \in Path : BeginShared(g, p) \/ BeginExclusive(g, p)
    \/ Close
    \/ Wait

Spec == Init /\ [][Next]_vars

(* A guard is dropped when its operation ends (RAII), and the shutdown task *)
(* is polled by the runtime: both are weakly fair, acquiring is not.        *)
Fairness == WF_vars(Wait) /\ \A g \in Guard : WF_vars(Drop(g))
FairSpec == Spec /\ Fairness

-----------------------------------------------------------------------------
(* Properties *)

(* Every field of ActivityState and every guard has its type. *)
TypeOK ==
    /\ accepting \in BOOLEAN
    /\ count \in Nat
    /\ activePaths \in [Path -> Nat]
    /\ exclusivePaths \in SUBSET Path
    /\ guards \in [Guard -> GuardState]
    /\ waiter \in {"off", "registered", "waiting", "done"}
    /\ woken \in BOOLEAN

PathOf(g) == guards[g].path

(* While a guard holds a subtree exclusively (a FUSE rename, a local        *)
(* delete), no other guard with a path, shared or exclusive, lies in that   *)
(* subtree or above it: what begin and begin_exclusive promise together.    *)
LeaseExclusion ==
    \A g, h \in Guard :
        (/\ g # h
         /\ guards[g].kind = "exclusive"
         /\ guards[h].kind \in {"shared", "exclusive"})
            => ~Overlap(PathOf(g), PathOf(h))

(* The bookkeeping is that of the guards which really exist: no guard is    *)
(* counted twice, leaked or forgotten, although Drop saturates silently.    *)
AccountingExact ==
    /\ count = Cardinality(Held)
    /\ \A p \in Path : activePaths[p] = Cardinality(SharedHolders(p))
    /\ exclusivePaths = {p \in Path : \E g \in Guard : guards[g] = ExclusiveOn(p)}

(* Once wait_idle has returned, no activity exists: the replaced engine     *)
(* has stopped touching the mount directory, the database and the cloud.    *)
QuiescentAfterWait == waiter = "done" => Held = {}

(* A waiter that sleeps without a wakeup on its way still has a guard to    *)
(* wait for: the future is made before the count is read.                   *)
NoLostWakeup == (waiter = "waiting" /\ ~woken) => count > 0

(* shutdown() gets past wait_idle. *)
ShutdownCompletes == ~accepting ~> waiter = "done"
=============================================================================
