------------------------------ MODULE SyncCycle ------------------------------
(***************************************************************************)
(* The sync cycle's coordinator (src/src/sync/engine/coordination.rs and   *)
(* cycle.rs) with everything that asks it for a cycle: run_sync_cycle's    *)
(* callers, the background worker of schedule_background_drain, the        *)
(* network listener, the folder sync that excludes it, start() and         *)
(* shutdown() (lifecycle.rs).                                              *)
(*                                                                         *)
(* A request sets bits and takes a sequence number; whoever owns the       *)
(* coordinator takes all bits and runs one cycle for them.  A cycle is a   *)
(* chain of steps (refresh, recover, resume, plan) with an await in each;  *)
(* what they do to rows and files is the business of other modules.        *)
(***************************************************************************)
EXTENDS Naturals, FiniteSets, Sequences

CONSTANTS
    Caller, Boot,   \* tasks that await run_sync_cycle; Boot is start()
    Worker,         \* tasks schedule_background_drain can have spawned
    NoThread,
    FailureHistory, \* how many failures complete() remembers: 128
    MaxRequests,    \* bound: sequence numbers given out
    MaxFaults,      \* bound: failures and network losses
    MaxFolderSyncs  \* bound: recursive folder syncs

ASSUME ThreadAssumption ==
    Boot \in Caller /\ Caller \cap Worker = {} /\ NoThread \notin Caller \cup Worker
ASSUME CycleBoundAssumption ==
    /\ FailureHistory \in Nat \ {0}
    /\ {MaxRequests, MaxFaults, MaxFolderSyncs} \subseteq Nat

VARIABLES
    pending, requested, completed,  \* CycleCoordinatorState
    expired, failures,              \* its expired_result_through and failures
    owner,                          \* CycleCoordinator.owner
    threads,                        \* where each task is
    syncing, folderSyncing,         \* SyncEngine.syncing, folder_syncing
    scheduled,                      \* SyncEngine.background_scheduled
    ringing,        \* who has called request and not yet schedule_background_drain
    started, shutdown, quiesced,    \* quiesced: shutdown() has the owner lock
    online, edge,                   \* net_guard; an Online transition not yet received
    trusted,                        \* CloudCheckpointState.trusted
    recovered,                      \* recover_startup has run
    faults, folderSyncs,
    dropped,        \* ghost: a failing store took the bits before anything was done
    waiting,        \* ghost: callers whose bits are in pending
    riding,         \* ghost: callers whose bits the running cycle took
    verdict,        \* ghost: how the first cycle to serve a caller's request ended
    stalled         \* ghost: what is pending is left to the next request

coordinator == <<pending, requested, completed, expired, failures>>
asking == <<scheduled, ringing>>
life == <<started, shutdown, quiesced>>
net == <<online, edge>>
folder == <<folderSyncing, folderSyncs>>
ghosts == <<waiting, riding, verdict, stalled, dropped>>
vars == <<coordinator, owner, threads, syncing, folder, asking, life, net,
          trusted, recovered, faults, ghosts>>

-----------------------------------------------------------------------------
(* Data *)

Bit == {"LOCAL", "INC", "FULL", "RECOVERY", "STARTUP"}

(* cycle_request_for_trigger; RETRY, REPLAN and BACKOFF choose what the     *)
(* planning step does and how the cycle is labelled.                        *)
Manual == {"LOCAL", "FULL"}
AutoRefresh == {"LOCAL", "INC"}
NetworkRecovery == {"LOCAL", "INC", "RECOVERY"}
Startup == {"LOCAL", "INC", "RECOVERY", "STARTUP"}
Watcher == {"LOCAL"}

Thread == Caller \cup Worker
Sequence == 1..MaxRequests
Result == {"ok", "recoverable", "fatal"}

CyclePC == {"refresh", "recover", "resume", "plan"}
OwnerPC == CyclePC \cup {"loop", "gates", "unlock"}

(* seq is the awaited sequence (0 for a worker), bits and through what      *)
(* take_pending_with_sequence returned, res how the drain ended.            *)
PC == OwnerPC \cup {"start", "idle", "lock", "answer", "sleep", "clear", "recheck", "arm"}
Task == [pc : PC,
         seq : 0..MaxRequests, bits : SUBSET Bit, through : 0..MaxRequests,
         res : Result]
Failure == [from : 1..(MaxRequests + 1), to : Sequence]
IdleTask == [pc |-> "idle", seq |-> 0, bits |-> {}, through |-> 0, res |-> "ok"]

Init ==
    /\ pending = {} /\ requested = 0 /\ completed = 0
    /\ expired = 0 /\ failures = <<>>
    /\ owner = NoThread
    /\ threads = [h \in Thread |-> IF h = Boot THEN [IdleTask EXCEPT !.pc = "start"] ELSE IdleTask]
    /\ syncing = FALSE /\ folderSyncing = FALSE /\ folderSyncs = 0
    /\ scheduled = FALSE /\ ringing = {}
    /\ started = FALSE /\ shutdown = FALSE /\ quiesced = FALSE
    /\ online \in BOOLEAN /\ edge = FALSE
    /\ trusted = FALSE /\ recovered = FALSE
    /\ faults = 0
    /\ waiting = {} /\ riding = {} /\ stalled = FALSE /\ dropped = FALSE
    /\ verdict = [c \in Caller |-> "none"]

At(h, pc) == threads[h].pc = pc
Bits(h) == threads[h].bits
Goto(h, pc) == threads' = [threads EXCEPT ![h].pc = pc]
Rest(h) == threads' = [threads EXCEPT ![h] = IdleTask]
AwaitOwner(h, seq) == threads' = [threads EXCEPT ![h] = [IdleTask EXCEPT !.pc = "lock", !.seq = seq]]
Fault == faults < MaxFaults /\ faults' = faults + 1

-----------------------------------------------------------------------------
(* CycleCoordinator *)

(* request, with the bits some caller adds and those a failure restores. *)
Request(bits) ==
    /\ requested < MaxRequests
    /\ requested' = requested + 1
    /\ pending' = pending \cup bits
    /\ stalled' = FALSE

Returned_NotStartup(h) == Bits(h) \ {"STARTUP"}
Returned(h) == Bits(h)

(* restore puts the bits back, and with them the callers they came from.    *)
Restore(h) ==
    /\ pending' = pending \cup Returned(h)
    /\ waiting' = waiting \cup riding
    /\ UNCHANGED <<requested, stalled>>
KeepBits == UNCHANGED <<pending, requested, waiting>>
Keep == KeepBits /\ UNCHANGED stalled

(* complete: everything up to through is answered; a failure is remembered  *)
(* with the sequences it answers, and what is forgotten counts as expired.  *)
Forget_Silently(all) == expired
Forget(all) == IF Len(all) > FailureHistory /\ all[1].to > expired THEN all[1].to ELSE expired

Complete(h, ok) ==
    LET through == threads[h].through
        all == IF ok THEN failures
               ELSE Append(failures, [from |-> completed + 1, to |-> through])
    IN  /\ completed' = IF through > completed THEN through ELSE completed
        /\ failures' = IF Len(all) > FailureHistory THEN Tail(all) ELSE all
        /\ expired' = Forget(all)
        /\ verdict' = [c \in Caller |->
                         IF c \in riding /\ verdict[c] = "none"
                         THEN IF ok THEN "ok" ELSE "failed" ELSE verdict[c]]
        /\ riding' = {}

(* result_if_completed *)
Answered(s) == completed >= s
Succeeded(s) ==
    /\ s > expired
    /\ \A i \in DOMAIN failures : ~(failures[i].from <= s /\ s <= failures[i].to)

-----------------------------------------------------------------------------
(* Asking for a cycle *)

Idle(h) == At(h, "idle")

(* run_sync_cycle: only start() may ask before the engine has started. *)
Call(h, bits) ==
    /\ IF h = Boot THEN At(h, "start") ELSE Idle(h) /\ started
    /\ Request(bits)
    /\ AwaitOwner(h, requested')
    /\ waiting' = waiting \cup {h}
    /\ verdict' = [verdict EXCEPT ![h] = "none"]
    /\ UNCHANGED <<completed, expired, failures, owner, syncing, folder, asking, life,
                   net, trusted, recovered, faults, riding, dropped>>

(* request_cycle_background, up to schedule_background_drain. *)
RequestBackground(source, bits) ==
    /\ source \notin ringing
    /\ Request(bits)
    /\ ringing' = ringing \cup {source}
    /\ UNCHANGED <<completed, expired, failures, scheduled, waiting, riding, verdict, dropped>>

LocalChange ==
    /\ started /\ ~shutdown
    /\ RequestBackground("watcher", Watcher)
    /\ UNCHANGED <<owner, threads, syncing, folder, life, net, trusted, recovered, faults>>

(* network_listener_loop: an Online edge counts if the level still is. *)
NetworkEdge ==
    /\ started /\ ~shutdown /\ edge
    /\ edge' = FALSE
    /\ IF online THEN RequestBackground("network", NetworkRecovery)
                 ELSE UNCHANGED <<coordinator, asking, ghosts>>
    /\ UNCHANGED <<owner, threads, syncing, folder, life, online, trusted, recovered, faults>>

(* schedule_background_drain: the flag says a worker will look again. *)
Ring(source) ==
    /\ source \in ringing
    /\ ringing' = ringing \ {source}
    /\ IF scheduled THEN UNCHANGED <<scheduled, threads>>
       ELSE /\ scheduled' = TRUE
            /\ \E w \in Worker : Idle(w) /\ AwaitOwner(w, 0)
    /\ UNCHANGED <<coordinator, owner, syncing, folder, life, net, trusted, recovered,
                   faults, ghosts>>

-----------------------------------------------------------------------------
(* drain_cycle_requests_for *)

(* lock_owner; a caller answered meanwhile is done. *)
Acquire(h) ==
    LET s == threads[h].seq IN
    /\ At(h, "lock")
    /\ owner = NoThread
    /\ IF s > 0 /\ Answered(s)
       THEN /\ threads' = [threads EXCEPT ![h] = [@ EXCEPT !.pc = "answer",
                              !.res = IF Succeeded(s) THEN "ok" ELSE "fatal"]]
            /\ UNCHANGED <<owner, syncing>>
       ELSE /\ owner' = h
            /\ syncing' = TRUE
            /\ Goto(h, "loop")
    /\ UNCHANGED <<coordinator, folder, asking, life, net, trusted, recovered, faults, ghosts>>

(* The guards drop in reverse order: syncing is reset, then the lock freed. *)
Leave(h, res) ==
    /\ syncing' = FALSE
    /\ threads' = [threads EXCEPT ![h] = [IdleTask EXCEPT !.pc = "unlock", !.seq = threads[h].seq,
                                                         !.res = res]]

Take(h) ==
    /\ At(h, "loop")
    /\ IF pending = {}
       THEN Leave(h, "ok") /\ UNCHANGED <<pending, waiting, riding>>
       ELSE /\ threads' = [threads EXCEPT ![h] = [@ EXCEPT !.pc = "gates", !.bits = pending,
                                                         !.through = requested]]
            /\ pending' = {}
            /\ riding' = waiting
            /\ waiting' = {}
            /\ UNCHANGED syncing
    /\ UNCHANGED <<requested, completed, expired, failures, owner, folder, asking, life,
                   net, trusted, recovered, faults, verdict, stalled, dropped>>

Refuses_Never == FALSE
Refuses == shutdown

PutBack_Loops(h) == Restore(h) /\ Goto(h, "loop") /\ UNCHANGED syncing
PutBack(h) == Restore(h) /\ Leave(h, "ok")

(* The gates: after shutdown the bits are dropped, during a folder sync and *)
(* offline they are restored, unanswered.                                   *)
Gates(h) ==
    /\ At(h, "gates")
    /\ IF Refuses THEN Leave(h, "ok") /\ Keep /\ riding' = {}
       ELSE IF folderSyncing \/ ("STARTUP" \notin Bits(h) /\ ~online)
            THEN PutBack(h) /\ riding' = {}
            ELSE Goto(h, "refresh") /\ Keep /\ UNCHANGED <<syncing, riding>>
    /\ UNCHANGED <<completed, expired, failures, owner, folder, asking, life, net, trusted,
                   recovered, faults, verdict, dropped>>

Unlock(h) ==
    /\ At(h, "unlock")
    /\ owner' = NoThread
    /\ Goto(h, IF h \in Caller THEN "answer" ELSE
               IF threads[h].res = "recoverable" /\ pending # {} THEN "sleep" ELSE "clear")
    /\ UNCHANGED <<coordinator, syncing, folder, asking, life, net, trusted, recovered,
                   faults, ghosts>>

-----------------------------------------------------------------------------
(* run_coordinated_cycle *)

CycleOk(h) ==
    /\ Complete(h, TRUE)
    /\ threads' = [threads EXCEPT ![h] = [IdleTask EXCEPT !.pc = "loop", !.seq = threads[h].seq]]
    /\ UNCHANGED syncing

(* Put off within the cycle, which ends well. *)
Postponed(h) == Restore(h) /\ CycleOk(h)

(* A failed foreground drain leaves what is pending to the next request; so *)
(* does a worker if no retry may help and nothing newer came, or if start() *)
(* has not finished.                                                        *)
Strands(h, res, last) ==
    h \in Caller \/ (res = "fatal" /\ (last = threads[h].through \/ ~started))

CycleFails(h, res) ==
    /\ Complete(h, FALSE)
    /\ Leave(h, res)
    /\ stalled' = Strands(h, res, requested')

FailsAndRestores(h, res) ==
    /\ pending' = pending \cup Returned(h)
    /\ waiting' = waiting \cup riding
    /\ UNCHANGED requested
    /\ CycleFails(h, res)

(* ensure_cycle_active: a cycle of an engine that was shut down ends at its *)
(* next step.                                                               *)
Aborts(h) ==
    /\ threads[h].pc \in CyclePC
    /\ shutdown
    /\ KeepBits
    /\ CycleFails(h, "fatal")
    /\ UNCHANGED <<owner, folder, asking, life, net, trusted, recovered, faults,
                   dropped>>

Refreshes(h) == {"INC", "FULL"} \cap Bits(h) # {}

(* load_or_refresh_cloud_tree and the full or incremental refresh.  Offline *)
(* an incremental one is put off: an error for start(), for others a cycle  *)
(* that ends well.  Without a trusted tree nothing is recovered or planned. *)
RefreshGate(h) == trusted

(* The status cannot be published, restarts not be promoted, tombstones not *)
(* be purged: each ends the cycle and drops its bits.                       *)
StoreFails(h) ==
    /\ Fault
    /\ dropped' = TRUE
    /\ KeepBits /\ CycleFails(h, "fatal")
    /\ UNCHANGED <<trusted, recovered>>

Refresh(h) ==
    /\ At(h, "refresh")
    /\ ~shutdown
    /\ \/ /\ Refreshes(h) /\ online
          /\ trusted' = TRUE
          /\ Goto(h, "recover") /\ Keep
          /\ UNCHANGED <<completed, expired, failures, verdict, riding, syncing, recovered,
                         faults, dropped>>
       \/ /\ Refreshes(h)
          /\ IF online THEN Fault ELSE UNCHANGED faults
          /\ trusted' = FALSE
          /\ \E res \in {"recoverable", "fatal"} : FailsAndRestores(h, res)
          /\ UNCHANGED <<recovered, dropped>>
       \/ /\ Refreshes(h) /\ "FULL" \notin Bits(h) /\ ~online
          /\ IF "STARTUP" \in Bits(h)
             THEN trusted' = FALSE /\ FailsAndRestores(h, "fatal")
             ELSE UNCHANGED trusted /\ Postponed(h)
          /\ UNCHANGED <<recovered, faults, dropped>>
       \/ /\ ~Refreshes(h)
          /\ IF RefreshGate(h)
             THEN /\ Goto(h, "recover") /\ Keep
                  /\ UNCHANGED <<completed, expired, failures, verdict, riding, syncing>>
             ELSE Postponed(h)
          /\ UNCHANGED <<trusted, recovered, faults, dropped>>
       \/ StoreFails(h)
    /\ UNCHANGED <<owner, folder, asking, life, net>>

Rebuild_LocalOnly == {"LOCAL"}
Rebuild == {"LOCAL", "FULL"}

(* commit_recovery_checkpoint fails: the tree is no longer trusted and a    *)
(* full refresh is requested, in the place of the bits.                     *)
CheckpointFails(h) ==
    /\ Fault
    /\ trusted' = FALSE
    /\ requested < MaxRequests
    /\ requested' = requested + 1
    /\ pending' = pending \cup Rebuild
    /\ UNCHANGED waiting
    /\ CycleFails(h, "fatal")

(* Path recovery and recover_startup. *)
Recover(h) ==
    /\ At(h, "recover")
    /\ ~shutdown
    /\ \/ /\ Fault
          /\ FailsAndRestores(h, "fatal")
          /\ UNCHANGED <<trusted, recovered, dropped>>
       \/ StoreFails(h)
       \/ /\ recovered' = (recovered \/ "STARTUP" \in Bits(h))
          /\ \/ /\ Goto(h, "resume") /\ Keep
                /\ UNCHANGED <<completed, expired, failures, verdict, riding, syncing,
                               trusted, faults>>
             \/ "STARTUP" \in Bits(h) /\ CheckpointFails(h)
          /\ UNCHANGED dropped
    /\ UNCHANGED <<owner, folder, asking, life, net>>

(* ONLINE_RECOVERY: offline, everything is put off again. *)
Resume(h) ==
    /\ At(h, "resume")
    /\ ~shutdown
    /\ IF "RECOVERY" \in Bits(h) /\ ~online
       THEN Postponed(h) /\ UNCHANGED <<trusted, faults>>
       ELSE \/ /\ Goto(h, "plan")
               /\ \/ Keep
                  \/ "RECOVERY" \in Bits(h) /\ Request(AutoRefresh) /\ UNCHANGED waiting
               /\ UNCHANGED <<completed, expired, failures, verdict, riding, syncing,
                              trusted, faults>>
            \/ "RECOVERY" \in Bits(h) /\ CheckpointFails(h)
    /\ UNCHANGED <<owner, folder, asking, life, net, recovered, dropped>>

(* run_sync_cycle_inner: plans, executes and settles; a committed move asks *)
(* for another scan.  A failure drops the bits.                             *)
Plan(h) ==
    /\ At(h, "plan")
    /\ ~shutdown
    /\ \/ CycleOk(h) /\ Keep /\ UNCHANGED <<trusted, faults>>
       \/ CycleOk(h) /\ Request(Watcher) /\ UNCHANGED waiting /\ UNCHANGED <<trusted, faults>>
       \/ Fault /\ KeepBits /\ CycleFails(h, "fatal") /\ UNCHANGED trusted
       \/ CheckpointFails(h)
    /\ UNCHANGED <<owner, folder, asking, life, net, recovered, dropped>>

-----------------------------------------------------------------------------
(* The callers' answers and the worker's second look *)

(* run_sync_cycle's return value; start() goes on when it may.  It rings    *)
(* only for a cycle put off, not for what a worker, not yet allowed to go   *)
(* on, has left pending meanwhile.                                          *)
Deferrable(h) == ~online \/ threads[h].res = "recoverable"

ToldOk(h) ==
    /\ At(h, "answer")
    /\ threads[h].res = "ok" /\ Answered(threads[h].seq) /\ Succeeded(threads[h].seq)

Answer(h) ==
    /\ At(h, "answer")
    /\ IF h = Boot /\ (ToldOk(h) \/ Deferrable(h)) /\ ~shutdown
       THEN /\ started' = TRUE
            /\ IF ToldOk(h)
               THEN /\ Rest(h)
                    /\ stalled' = (stalled \/ (pending # {} /\ ~scheduled))
               ELSE Goto(h, "arm") /\ UNCHANGED stalled
       ELSE /\ Rest(h)
            /\ UNCHANGED <<started, stalled>>
    /\ waiting' = waiting \ {h} /\ riding' = riding \ {h}
    /\ UNCHANGED <<coordinator, owner, syncing, folder, asking, shutdown, quiesced, net,
                   trusted, recovered, faults, verdict, dropped>>

(* start(): nobody else would wake a STARTUP request put off while online. *)
Arm(h) ==
    /\ At(h, "arm")
    /\ Rest(h)
    /\ ringing' = IF online /\ pending # {} THEN ringing \cup {"start"} ELSE ringing
    /\ UNCHANGED <<coordinator, owner, syncing, folder, scheduled, life, net, trusted,
                   recovered, faults, ghosts>>

(* After the delay the worker drains again, unless it may not. *)
Wake(w) ==
    /\ At(w, "sleep")
    /\ IF online /\ ~shutdown
       THEN AwaitOwner(w, 0)
       ELSE Goto(w, "clear")
    /\ UNCHANGED <<coordinator, owner, syncing, folder, asking, life, net, trusted,
                   recovered, faults, ghosts>>

Clear(w) ==
    /\ At(w, "clear")
    /\ scheduled' = FALSE
    /\ Goto(w, "recheck")
    /\ UNCHANGED <<coordinator, owner, syncing, folder, ringing, life, net, trusted,
                   recovered, faults, ghosts>>

MayContinue_Never(w) == FALSE
(* Restored bits of a failure do not count, but a newer request does. *)
MayContinue(w) ==
    /\ threads[w].res = "ok" \/ requested > completed
    /\ started /\ online /\ ~folderSyncing /\ ~shutdown
    /\ pending # {}

Recheck(w) ==
    /\ At(w, "recheck")
    /\ IF MayContinue(w) /\ ~scheduled
       THEN scheduled' = TRUE /\ AwaitOwner(w, 0)
       ELSE Rest(w) /\ UNCHANGED scheduled
    /\ UNCHANGED <<coordinator, owner, syncing, folder, ringing, life, net, trusted,
                   recovered, faults, ghosts>>

-----------------------------------------------------------------------------
(* Folder sync, network, shutdown *)

FolderMayBegin_IgnoresCycle == ~folderSyncing /\ ~shutdown
(* try_begin_folder_sync, all under the folder_syncing lock *)
FolderMayBegin == ~folderSyncing /\ ~syncing /\ ~shutdown

BeginFolderSync ==
    /\ FolderMayBegin
    /\ folderSyncs < MaxFolderSyncs
    /\ folderSyncs' = folderSyncs + 1
    /\ folderSyncing' = TRUE
    /\ UNCHANGED <<coordinator, owner, threads, syncing, asking, life, net, trusted,
                   recovered, faults, ghosts>>

(* end_folder_sync: a cycle turned away meanwhile is asked for again. *)
EndFolderSync ==
    /\ folderSyncing
    /\ folderSyncing' = FALSE
    /\ IF pending = {} /\ owner = NoThread
       THEN UNCHANGED <<coordinator, asking, ghosts>>
       ELSE RequestBackground("folder", Watcher)
    /\ UNCHANGED <<owner, threads, syncing, folderSyncs, life, net, trusted, recovered, faults>>

NetworkDown ==
    /\ online /\ Fault
    /\ online' = FALSE
    /\ UNCHANGED <<coordinator, owner, threads, syncing, folder, asking, life, edge, trusted,
                   recovered, ghosts>>

NetworkUp ==
    /\ ~online
    /\ online' = TRUE
    /\ edge' = TRUE
    /\ UNCHANGED <<coordinator, owner, threads, syncing, folder, asking, life, trusted,
                   recovered, faults, ghosts>>

Shutdown ==
    /\ ~shutdown
    /\ shutdown' = TRUE
    /\ UNCHANGED <<coordinator, owner, threads, syncing, folder, asking, started, quiesced,
                   net, trusted, recovered, faults, ghosts>>

(* shutdown() goes on to wait_idle once it has had the owner lock. *)
Quiesce ==
    /\ shutdown
    /\ owner = NoThread
    /\ quiesced' = TRUE
    /\ UNCHANGED <<coordinator, owner, threads, syncing, folder, asking, started, shutdown,
                   net, trusted, recovered, faults, ghosts>>

-----------------------------------------------------------------------------
Step(h) ==
    \/ Acquire(h) \/ Take(h) \/ Gates(h) \/ Unlock(h)
    \/ Aborts(h) \/ Refresh(h) \/ Recover(h) \/ Resume(h) \/ Plan(h)
    \/ Answer(h) \/ Arm(h) \/ Wake(h) \/ Clear(h) \/ Recheck(h)

Source == {"watcher", "network", "folder", "start"}

Next ==
    \/ \E h \in Thread : Step(h)
    \/ Call(Boot, Startup)
    \/ \E h \in Caller \ {Boot}, bits \in {Manual, AutoRefresh} : Call(h, bits)
    \/ LocalChange \/ NetworkEdge \/ \E s \in Source : Ring(s)
    \/ BeginFolderSync \/ EndFolderSync
    \/ NetworkDown \/ NetworkUp
    \/ Shutdown \/ Quiesce

Spec == Init /\ [][Next]_vars

(* tokio polls every ready task, and its mutex serves the tasks that wait   *)
(* for it in turn.  Nothing need come from outside.                         *)
FairSpec ==
    /\ Spec
    /\ \A h \in Thread : WF_vars(Step(h))
    /\ \A h \in Caller : SF_vars(Acquire(h))

-----------------------------------------------------------------------------
(* Properties *)

TypeOK ==
    /\ pending \subseteq Bit
    /\ requested \in 0..MaxRequests /\ completed \in 0..requested
    /\ expired \in 0..completed
    /\ failures \in Seq(Failure)
    /\ Len(failures) <= FailureHistory
    /\ owner \in Thread \cup {NoThread}
    /\ threads \in [Thread -> Task]
    /\ syncing \in BOOLEAN /\ folderSyncing \in BOOLEAN /\ scheduled \in BOOLEAN
    /\ started \in BOOLEAN /\ shutdown \in BOOLEAN /\ quiesced \in BOOLEAN
    /\ online \in BOOLEAN /\ edge \in BOOLEAN /\ trusted \in BOOLEAN
    /\ recovered \in BOOLEAN /\ stalled \in BOOLEAN /\ dropped \in BOOLEAN
    /\ ringing \subseteq Source
    /\ faults \in 0..MaxFaults /\ folderSyncs \in 0..MaxFolderSyncs
    /\ waiting \subseteq Caller /\ riding \subseteq Caller
    /\ verdict \in [Caller -> {"none", "ok", "failed"}]

InCycle(h) == threads[h].pc \in CyclePC

(* A folder sync and a cycle never write the same tree at once, although    *)
(* each is kept out by a flag the other reads under a lock of its own.      *)
FolderExclusion == folderSyncing => \A h \in Thread : ~InCycle(h)

(* Nobody is told that a cycle went well which failed: not when another     *)
(* task ran it, nor when the failure has left the bounded history.          *)
NoFalseOk == \A h \in Caller : ToldOk(h) => verdict[h] # "failed"

(* While the cloud tree is not trusted, whatever is asked for next includes *)
(* a refresh: otherwise the drain would put off the bits, take them again   *)
(* and so on without end (run_coordinated_cycle, cloud_tree_is_trusted).    *)
Owed == pending \cup UNION {Bits(h) : h \in {k \in Thread : threads[k].pc \in {"gates", "refresh"}}}
RefreshOwed == ~trusted /\ ~shutdown /\ ~dropped /\ Owed # {} => {"INC", "FULL"} \cap Owed # {}

(* No cycle plans before the transfers of the last run were recovered,      *)
(* however start() was put off, unless the store failed on the way.         *)
RecoveredBeforePlanning == \A h \in Thread : At(h, "plan") => recovered \/ dropped

(* A request that could be served does not wait for a task that is gone:    *)
(* somebody is awake, or about to ring, or it is one the code leaves to the *)
(* next request: a failure put it there, or start() did not ring for it.    *)
Awake(h) == ~Idle(h)
NotStranded ==
    pending # {} /\ started /\ online /\ ~folderSyncing /\ ~shutdown =>
        \/ \E h \in Thread : Awake(h)
        \/ ringing # {} \/ edge \/ stalled

(* Once shutdown() has had the owner lock, no cycle runs again. *)
QuietAfterShutdown == quiesced => \A h \in Thread : ~InCycle(h)

(* Whoever asks for a cycle gets an answer: no drain takes up, again and    *)
(* again, bits it has just put back.                                        *)
CallsReturn == \A h \in Caller : At(h, "lock") ~> Idle(h)

(* "returns a queued error when offline or the folder gate put the request  *)
(* back" (cycle.rs:156): a caller told Ok is not waiting for a cycle still. *)
HonestAnswer == \A h \in Caller : ToldOk(h) => h \notin waiting

(* "a new sequence that arrives while the scheduling bit is held must be    *)
(* handed over once" (cycle.rs:121): where nothing has failed, no request   *)
(* is left to whatever asks next.                                           *)
HandedOver ==
    faults = 0 /\ pending # {} /\ started /\ online /\ ~folderSyncing /\ ~shutdown =>
        \/ \E h \in Thread : Awake(h)
        \/ ringing # {} \/ edge
=============================================================================
