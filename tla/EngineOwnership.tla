--------------------------- MODULE EngineOwnership ---------------------------
(***************************************************************************)
(* Who owns the sync engine (src/src/runtime.rs): the global slot, the     *)
(* counter of replacements under way that turns installations away, the    *)
(* lock that serialises replacements, and the FUSE session that belongs to *)
(* one engine.                                                             *)
(***************************************************************************)
EXTENDS Integers, FiniteSets

CONSTANTS
    MaxEngines, \* bound: engines built
    Owner       \* who replaces engines

CONSTANT NoOwner
ASSUME OwnershipAssumption == MaxEngines \in Nat \ {0} /\ NoOwner \notin Owner

VARIABLES
    slot,       \* SYNC_ENGINE, 0 when empty
    engine,     \* of every engine: how far it started, and its shutdown flag
    replacing,  \* EngineOwnershipProtocol::replacements
    gate,       \* who holds replacement_gate
    fuse,       \* VIRTUAL_FS_SESSION: the engine it serves, 0: none
    leases      \* engines of which an application holds a path, by an open file

ownerVars == <<slot, engine, replacing, gate, fuse, leases>>

Engine == 1..MaxEngines
NoEngine == [st |-> "none", down |-> FALSE]

OwnerInit ==
    /\ slot = 0
    /\ engine = [e \in Engine |-> NoEngine]
    /\ replacing = 0
    /\ gate = NoOwner
    /\ fuse = 0
    /\ leases = {}

Alive(e) == engine[e].st # "none" /\ ~engine[e].down

-----------------------------------------------------------------------------
(* Installation: ensure_engine_started_owned under the gate.                *)

Built == {e \in Engine : engine[e].st # "none"}
NextEngine == Cardinality(Built) + 1

Build ==
    /\ NextEngine \in Engine
    /\ slot' = NextEngine
    /\ engine' = [engine EXCEPT ![NextEngine] = [st |-> "starting", down |-> FALSE]]

(* An engine that is there stays. *)
Ensure ==
    \/ slot # 0 /\ UNCHANGED <<slot, engine>>
    \/ slot = 0 /\ Build

MayInstall == replacing = 0

(* The start task: the first cycle is over, or the start has failed. *)
Started(e) ==
    /\ engine[e].st = "starting"
    /\ \E st \in IF engine[e].down THEN {"over"} ELSE {"started", "over"} :
          engine' = [engine EXCEPT ![e].st = st]
    /\ UNCHANGED <<slot, replacing, gate, fuse, leases>>

IsCurrent(e) == slot = e
(* install_virtual_fs_session, or its refusal. *)
InstallFuse(e) ==
    /\ engine[e].st = "started"
    /\ engine' = [engine EXCEPT ![e].st = "over"]
    /\ fuse' = IF MayInstall /\ IsCurrent(e) /\ fuse = 0 THEN e ELSE fuse
    /\ UNCHANGED <<slot, replacing, gate, leases>>

-----------------------------------------------------------------------------
(* drop_runtime_async, step by step *)

TakeOut(k) ==
    /\ gate = NoOwner
    /\ gate' = k
    /\ replacing' = replacing + 1
    /\ slot' = 0
    /\ UNCHANGED <<engine, fuse, leases>>

ShutDown(e) ==
    /\ engine' = IF e = 0 THEN engine ELSE [engine EXCEPT ![e].down = TRUE]
    /\ UNCHANGED <<slot, replacing, gate, fuse, leases>>

Unmount ==
    /\ fuse' = 0
    /\ UNCHANGED <<slot, engine, replacing, gate, leases>>

(* Both guards end with the function. *)
LetGo ==
    /\ gate' = NoOwner
    /\ replacing' = replacing - 1
    /\ UNCHANGED <<fuse, leases>>

-----------------------------------------------------------------------------
(* Applications that keep a file of the mount open *)

Open(e) ==
    /\ fuse = e
    /\ Alive(e)
    /\ leases' = leases \cup {e}
    /\ UNCHANGED <<slot, engine, replacing, gate, fuse>>

Close(e) ==
    /\ e \in leases
    /\ leases' = leases \ {e}
    /\ UNCHANGED <<slot, engine, replacing, gate, fuse>>

OwnerTypeOK ==
    /\ slot \in 0..MaxEngines
    /\ engine \in [Engine -> [st : {"none", "starting", "started", "over"}, down : BOOLEAN]]
    /\ replacing \in Nat
    /\ gate \in Owner \cup {NoOwner}
    /\ fuse \in 0..MaxEngines
    /\ leases \subseteq Engine
=============================================================================
