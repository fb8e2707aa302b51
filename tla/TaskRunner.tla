------------------------------ MODULE TaskRunner ------------------------------
(***************************************************************************)
(* The durable upload tasks of one path (src/src/sync/task_runner/ and     *)
(* src/src/sync/executor/transfer_operations.rs): a row of transfer_queue, *)
(* the threads that move it on, the local file, the cloud's files of that  *)
(* name and the synced baseline.                                           *)
(*                                                                         *)
(* Every database transaction is one step and every await a place where    *)
(* other threads run.  A thread works on the snapshot of the row it loaded *)
(* and writes with a compare-and-set on (id, state_revision).  The sync    *)
(* cycle (Cycle, one at a time behind the cycle's owner lock) resumes,     *)
(* verifies, plans and retries; the other threads are user commands.       *)
(*                                                                         *)
(* Contents of a file are numbered; (mtime, size) snapshots and SHA-256    *)
(* hashes identify a content, a size alone is SizeOf.                      *)
(***************************************************************************)
EXTENDS Integers, FiniteSets, TransferState, RetryPolicy

CONSTANTS
    Task,           \* row ids (AUTOINCREMENT: never used twice)
    FileId,         \* ids the cloud can give a file
    Thread, Cycle,  \* Cycle is the thread of the sync cycle
    SizeOf,         \* the size of each content
    HashComparable, \* does the cloud return a SHA-256 for its files
    MaxVerify,      \* recovery.rs: MAX_VERIFY_ATTEMPTS = 60
    MaxReplay,      \* recovery.rs: MAX_REPLAY_ROUNDS = 5
    MaxFaults,      \* bound: failures, network changes and crashes
    MaxContents,    \* bound: contents written here or elsewhere
    MaxAsks         \* bound: intents and retries that start a new budget

ASSUME ThreadAssumption == Cycle \in Thread
ASSUME BoundAssumption ==
    /\ {MaxVerify, MaxReplay} \subseteq Nat \ {0}
    /\ MaxReplay < MaxVerify
    /\ {MaxFaults, MaxContents, MaxAsks} \subseteq Nat
    /\ MaxContents >= 1
ASSUME FlagAssumption == HashComparable \in BOOLEAN

CONSTANTS NoTask, NoId
ASSUME NoneAssumption == NoTask \notin Task /\ NoId \notin FileId

VARIABLES
    rows,       \* transfer_queue, by id
    threads,    \* what each thread is doing
    cloud,      \* the cloud's files that have, or had, this name and parent
    local,      \* content of the local file, 0 when there is none
    contents,   \* contents written so far
    baseline,   \* the SYNCED row of sync_items for the path
    online,     \* net_guard::is_online
    startup,    \* recover_startup is still to run in this process
    faults, asks,
    spent,      \* ghost: what a row has used up since its budget was opened
    history,    \* ghost: every content every file ever had, by edit
    refused,    \* ghost: the rows, by revision, this process could not pick up
    overtaken   \* ghost: startup recovery came while a thread executed

vars == <<rows, threads, cloud, local, contents, baseline, online, startup,
          faults, asks, spent, history, refused, overtaken>>
world == <<cloud, local, contents, online, history>>
process == <<startup, refused, overtaken>>
budgets == <<faults, asks>>

-----------------------------------------------------------------------------
(* Data *)

Content == 1..MaxContents

(* A row.  ver is the source snapshot (source_mtime, source_size), base the *)
(* expected_cloud_edited_time, rid the remote_result_file_id, att and vrf   *)
(* the attempt_count and verify_attempt_count, conflict the error kind      *)
(* NameConflict.                                                            *)
Row ==
    [state : State \cup {"absent", "cleared"}, rev : Nat,
     op : {"Create", "Update"}, ver : Nat, fid : FileId \cup {NoId},
     base : Nat, rid : FileId \cup {NoId}, conflict : BOOLEAN,
     att : 0..MaxAttempts, vrf : 0..MaxVerify]

BlankRow ==
    [state |-> "absent", rev |-> 0, op |-> "Create", ver |-> 0, fid |-> NoId,
     base |-> 0, rid |-> NoId, conflict |-> FALSE, att |-> 0, vrf |-> 0]

(* A cloud file: where it is, its content, its editedTime, and whether an   *)
(* upload of this path created it.                                          *)
CloudFile == [at : {"none", "here", "away"}, ver : Nat, ed : Nat, mine : BOOLEAN]

(* A DriveFile some answer carried. *)
Result == [fid : FileId \cup {NoId}, ver : Nat, ed : Nat]
NoResult == [fid |-> NoId, ver |-> 0, ed |-> 0]
ResultOf(f) == [fid |-> f, ver |-> cloud[f].ver, ed |-> cloud[f].ed]

(* Where a thread is.  run: inside the activity its caller holds; pickup:   *)
(* run_expected is to begin one of its own, and may be refused; runNow: the *)
(* same, without the backend preflight.                                     *)
(* uploading: the request is on its way; stored: the server has committed   *)
(* it and the answer is on its way.                                         *)
ExecPC == {"source", "remote", "uploading", "stored", "completed", "partial"}
PC == ExecPC \cup
    {"idle", "run", "pickup", "runNow", "preflight", "gate", "verify",
     "committed", "notCommitted", "ambiguous", "unavailable", "replay",
     "retry", "prepared", "overwrite"}
(* Outside these a thread holds a path activity (ActivityTracker).          *)
NoActivityPC == {"idle", "pickup", "runNow", "prepared", "overwrite"}

ThreadState ==
    [pc : PC, id : Task \cup {NoTask}, row : Row, got : Result,
     todo : SUBSET FileId]
IdleThread ==
    [pc |-> "idle", id |-> NoTask, row |-> BlankRow, got |-> NoResult, todo |-> {}]

(* Uploads that reached the server, and NotCommitted verdicts. *)
Spent == [uploads : Nat, verdicts : Nat]
NothingSpent == [uploads |-> 0, verdicts |-> 0]

Here == {f \in FileId : cloud[f].at = "here"}
SameSize(v, w) == SizeOf[v] = SizeOf[w]

(* Rows that are neither settled for good nor gone. *)
Live == {t \in Task : rows[t].state \in State \ {Completed, Canceled}}

Init ==
    /\ rows = [t \in Task |-> BlankRow]
    /\ threads = [h \in Thread |-> IdleThread]
    /\ cloud = [f \in FileId |-> [at |-> "none", ver |-> 0, ed |-> 0, mine |-> FALSE]]
    /\ local = 1
    /\ contents = 1
    /\ baseline = NoResult
    /\ online = TRUE
    /\ startup = TRUE
    /\ faults = 0
    /\ asks = 0
    /\ spent = [t \in Task |-> NothingSpent]
    /\ history = {}
    /\ refused = {}
    /\ overtaken = FALSE

-----------------------------------------------------------------------------
(* Threads and the compare-and-set *)

Idle(h) == threads[h].pc = "idle"
At(h, pc) == threads[h].pc = pc
SnapOf(h) == threads[h].row

Start(h, pc, t, r) ==
    threads' = [threads EXCEPT ![h] = [IdleThread EXCEPT !.pc = pc, !.id = t, !.row = r]]
Goto(h, pc) == threads' = [threads EXCEPT ![h].pc = pc]
GotoWith(h, pc, got) == threads' = [threads EXCEPT ![h].pc = pc, ![h].got = got]
Finish(h) == threads' = [threads EXCEPT ![h] = IdleThread]

Current_AnyRevision(h) == rows[threads[h].id].state \in State
(* The row still has the revision the thread loaded. *)
Current(h) ==
    /\ rows[threads[h].id].state \in State
    /\ rows[threads[h].id].rev = SnapOf(h).rev

(* transition_transfer: the row with the thread's patch, one revision on. *)
Stepped(r, to) == [r EXCEPT !.state = to, !.rev = @ + 1, !.conflict = FALSE]

Accepted(h, new) ==
    Current(h) /\ CanTransition(rows[threads[h].id].state, new.state)

(* A transition that is refused (stale revision, illegal edge) is an error  *)
(* of the caller and changes nothing.                                       *)
Transition(h, new) ==
    rows' = IF Accepted(h, new) THEN [rows EXCEPT ![threads[h].id] = new] ELSE rows

(* patch_transfer_in_state: the state stays, the revision moves on. *)
Patch(h, new) ==
    rows' = IF Current(h) /\ rows[threads[h].id].state = new.state
            THEN [rows EXCEPT ![threads[h].id] = new] ELSE rows

Fault == faults < MaxFaults /\ faults' = faults + 1
Ask == asks < MaxAsks /\ asks' = asks + 1

CycleFree == Idle(Cycle) /\ ~startup
(* Commands do not wait for startup recovery. *)
CommandFree(h) == h # Cycle /\ Idle(h)

HasResult(r) == r.rid # NoId

-----------------------------------------------------------------------------
(* Admission: enqueue_and_run *)

CreateIntent(v) == [op |-> "Create", ver |-> v, fid |-> NoId, base |-> 0]
UpdateIntent(v, b) == [op |-> "Update", ver |-> v, fid |-> b.fid, base |-> b.ed]

SameIntent(r, n) ==
    r.op = n.op /\ r.ver = n.ver /\ r.fid = n.fid /\ r.base = n.base

(* fresh_intent; replan_task keeps the remote result and passes through     *)
(* RestartRequired unless the row is there already.                         *)
Fresh(n) ==
    [BlankRow EXCEPT !.state = Pending, !.op = n.op, !.ver = n.ver,
                     !.fid = n.fid, !.base = n.base]
Replanned(r, n) ==
    [Fresh(n) EXCEPT !.rid = r.rid,
                     !.rev = r.rev + (IF r.state = RestartRequired THEN 1 ELSE 2)]

InState(S) == {t \in Task : rows[t].state \in S}
RestartsWithResult == {t \in InState({RestartRequired}) : HasResult(rows[t])}

Open(h, t, r) ==
    /\ Ask
    /\ rows' = [rows EXCEPT ![t] = r]
    /\ Start(h, "run", t, r)
    /\ spent' = [spent EXCEPT ![t] = NothingSpent]
    /\ UNCHANGED faults

Insertable_IgnoresFailed == InState(Blocking \cup {RestartRequired}) = {}
(* A failed row is a barrier: its error stays visible until it is retried.  *)
Insertable == InState(Blocking \cup {RestartRequired, Failed}) = {}

Replannable(t) ==
    rows[t].state \in Blocking \/ (rows[t].state = RestartRequired /\ InState(Blocking) = {})

(* The arbitration, one transaction; a row that is Running or being         *)
(* verified is only observed, which changes nothing.                        *)
Enqueue(h, n) ==
    /\ InState({Running, VerifyingRemote}) = {}
    /\ \/ /\ \E t \in RestartsWithResult :
                rows' = [rows EXCEPT ![t] = Stepped(@, VerifyingRemote)]
          /\ UNCHANGED <<threads, spent, budgets>>
       \/ /\ RestartsWithResult = {}
          /\ \E t \in InState(Blocking) :
                SameIntent(rows[t], n) /\ Start(h, "run", t, rows[t])
          /\ UNCHANGED <<rows, spent, budgets>>
       \/ /\ RestartsWithResult = {}
          /\ \A t \in InState(Blocking) : ~SameIntent(rows[t], n)
          /\ \E t \in Task : Replannable(t) /\ Open(h, t, Replanned(rows[t], n))
       \/ /\ Insertable
          /\ \E t \in Task : rows[t].state = "absent" /\ Open(h, t, Fresh(n))

(* The planner creates what has no baseline and updates what differs from   *)
(* it; filter_active_transfer_actions drops the action of an occupied path. *)
(* Its view of the cloud is a checkpoint, so it says nothing of cloud.      *)
PlanUpload ==
    /\ CycleFree
    /\ local # 0
    /\ InState(Blocking) \cup RestartsWithResult = {}
    /\ \/ baseline.fid = NoId /\ Enqueue(Cycle, CreateIntent(local))
       \/ /\ baseline.fid # NoId
          /\ baseline.ver # local
          /\ Enqueue(Cycle, UpdateIntent(local, baseline))
    /\ UNCHANGED <<world, baseline, process>>

(* The command drive_upload_file always asks for a Create. *)
UploadCommand(h) ==
    /\ CommandFree(h)
    /\ local # 0
    /\ Enqueue(h, CreateIntent(local))
    /\ UNCHANGED <<world, baseline, process>>

-----------------------------------------------------------------------------
(* The executing chain: run_expected *)

Reject(h, state) == Transition(h, Stepped(SnapOf(h), state)) /\ Finish(h)

(* begin_activity is refused while another operation has an exclusive lease *)
(* over the path, which it gets only while no task of the path is active.   *)
(* The callers log it.  (The closed gate of an engine that ends refuses it  *)
(* too: the thread has got no further when Crash comes.)                    *)
Refuse(t, rev) ==
    /\ Fault
    /\ \A h \in Thread : threads[h].pc \in NoActivityPC
    /\ refused' = refused \cup {<<t, rev>>}

PickupRefused(h) ==
    /\ threads[h].pc \in {"pickup", "runNow"}
    /\ Refuse(threads[h].id, SnapOf(h).rev)
    /\ Finish(h)
    /\ UNCHANGED <<rows, world, baseline, startup, overtaken, asks, spent>>

(* validate_static and the offline check, on the loaded row: offline, a     *)
(* pending row is parked and any other row stays as it is.                  *)
Admit(h) ==
    LET r == SnapOf(h) IN
    /\ threads[h].pc \in {"run", "pickup", "runNow"}
    /\ \/ local = 0 /\ Reject(h, Failed)
       \/ local \notin {0, r.ver} /\ Reject(h, RestartRequired)
       \/ /\ local = r.ver /\ ~online
          /\ IF r.state = Pending THEN Reject(h, WaitingForNetwork)
                                  ELSE Finish(h) /\ UNCHANGED rows
       \/ /\ local = r.ver /\ online
          /\ Goto(h, IF At(h, "runNow") THEN "gate" ELSE "preflight")
          /\ UNCHANGED rows
    /\ UNCHANGED <<world, baseline, process, budgets, spent>>

(* operations.preflight: the snapshot again, then up to 10 s of stability   *)
(* checks, which fail while somebody writes the file.                       *)
Preflight(h) ==
    /\ At(h, "preflight")
    /\ \/ /\ local = SnapOf(h).ver
          /\ Goto(h, "gate")
          /\ UNCHANGED <<rows, faults>>
       \/ /\ IF local = SnapOf(h).ver THEN Fault ELSE UNCHANGED faults
          /\ Reject(h, RestartRequired)
    /\ UNCHANGED <<world, baseline, process, asks, spent>>

Rivals(h) == InState({Running, VerifyingRemote}) \ {threads[h].id}
RivalResults(h) == RestartsWithResult \ {threads[h].id}

GateOpen(h) == Rivals(h) \cup RivalResults(h) = {}

(* transition_to_running_or_block: the linearization point of the path. *)
Gate(h) ==
    LET running == Stepped(SnapOf(h), Running) IN
    /\ At(h, "gate")
    /\ IF ~GateOpen(h)
       THEN /\ rows' = [t \in Task |-> IF t \in RivalResults(h)
                                       THEN Stepped(rows[t], VerifyingRemote) ELSE rows[t]]
            /\ Finish(h)
       ELSE /\ Transition(h, running)
            /\ IF Accepted(h, running)
               THEN threads' = [threads EXCEPT ![h].pc = "source", ![h].row = running]
               ELSE Finish(h)
    /\ UNCHANGED <<world, baseline, process, budgets, spent>>

(* execute starts with verify_source_snapshot. *)
CheckSource(h) ==
    /\ At(h, "source")
    /\ IF local = SnapOf(h).ver
       THEN Goto(h, "remote") /\ UNCHANGED rows
       ELSE Reject(h, RestartRequired)
    /\ UNCHANGED <<world, baseline, process, budgets, spent>>

(* settle_error: the row's state and attempts from the decision. *)
TargetOf(d) ==
    CASE d.decision = "WaitForNetwork" -> WaitingForNetwork
      [] d.decision = "Backoff" -> BackingOff
      [] d.decision = "VerifyRemote" -> VerifyingRemote
      [] OTHER -> Failed

SettleError(h, e) ==
    LET r == SnapOf(h)
        d == Classify(e, r.op, r.att)
    IN  /\ Transition(h, [Stepped(r, TargetOf(d)) EXCEPT
                            !.att = IF d.consumesBudget THEN @ + 1 ELSE @])
        /\ Finish(h)

ReadErrors ==
    {TransportError("Connect", FALSE), TransportError("Decode", FALSE),
     StatusError(403, FALSE), StatusError(503, FALSE)}

(* Files of this name and the row's size whose hash, when both sides have   *)
(* one, is the source's: the candidates of decide_name_collision and of     *)
(* verify_remote without a result id (creation windows are wide: 30 days).  *)
Candidates(r) ==
    {f \in Here : /\ SameSize(cloud[f].ver, r.ver)
                  /\ HashComparable /\ local = r.ver => cloud[f].ver = r.ver}

SoleCandidate(r) == IF Cardinality(Candidates(r)) = 1 THEN Candidates(r) ELSE {}

CreateCheck_Skipped(h) == Goto(h, "uploading") /\ UNCHANGED rows
(* Create looks for files of the same name: none, one to adopt, a conflict. *)
CreateCheck(h) ==
    LET r == SnapOf(h) IN
        \/ /\ Here = {}
           /\ Goto(h, "uploading")
           /\ UNCHANGED rows
        \/ /\ local = r.ver
           /\ \E f \in SoleCandidate(r) : GotoWith(h, "completed", ResultOf(f))
           /\ UNCHANGED rows
        \/ /\ local # r.ver
           /\ SoleCandidate(r) # {}
           /\ Reject(h, RestartRequired)
        \/ /\ Here # {}
           /\ SoleCandidate(r) = {}
           /\ Transition(h, [Stepped(r, RestartRequired) EXCEPT !.conflict = TRUE])
           /\ Finish(h)

(* Update compares the file's editedTime with the planned one. *)
UpdateCheck(h) ==
    LET r == SnapOf(h) IN
    IF cloud[r.fid].at # "here" THEN SettleError(h, StatusError(404, FALSE))
    ELSE IF cloud[r.fid].ed # r.base
         THEN Reject(h, RestartRequired)
         ELSE Goto(h, "uploading") /\ UNCHANGED rows

CheckRemote(h) ==
    /\ At(h, "remote")
    /\ \/ /\ IF SnapOf(h).op = "Create" THEN CreateCheck(h) ELSE UpdateCheck(h)
          /\ UNCHANGED faults
       \/ /\ Fault
          /\ \E e \in ReadErrors : SettleError(h, e)
    /\ UNCHANGED <<world, baseline, process, asks, spent>>

(* What an upload puts into the cloud is what it reads while it runs: the   *)
(* row's content, or a later one.                                           *)
Uploaded(h) == {SnapOf(h).ver, local} \ {0}

Store(f, file) ==
    /\ cloud' = [cloud EXCEPT ![f] = file]
    /\ history' = history \cup {[fid |-> f, ver |-> file.ver, ed |-> file.ed]}

(* Ids are opaque: the next new file gets some id that no file has had.     *)
Unused == {f \in FileId : cloud[f].at = "none"}
NewFile == CHOOSE f \in Unused : TRUE

CountSent(h) == spent' = [spent EXCEPT ![threads[h].id].uploads = @ + 1]

(* The server commits the request: a new file, or the content of the old    *)
(* one, whatever its editedTime is by now.                                  *)
UploadCommits(h) ==
    LET r == SnapOf(h) IN
    /\ At(h, "uploading")
    /\ \E v \in Uploaded(h) :
          \/ /\ r.op = "Create"
             /\ Unused # {}
             /\ Store(NewFile, [at |-> "here", ver |-> v, ed |-> 1, mine |-> TRUE])
             /\ GotoWith(h, "stored", [fid |-> NewFile, ver |-> v, ed |-> 1])
          \/ /\ r.op = "Update"
             /\ cloud[r.fid].at = "here"
             /\ LET ed == cloud[r.fid].ed + 1 IN
                /\ Store(r.fid, [cloud[r.fid] EXCEPT !.ver = v, !.ed = ed])
                /\ GotoWith(h, "stored", [fid |-> r.fid, ver |-> v, ed |-> ed])
    /\ CountSent(h)
    /\ UNCHANGED <<rows, local, contents, online, baseline, process, budgets>>

RefusedErrors(op) ==
    {TransportError("Connect", FALSE), TransportError("Timeout", TRUE),
     StatusError(403, TRUE), StatusError(429, TRUE), StatusError(503, TRUE)}
        \cup (IF op = "Create" THEN {SessionExpired} ELSE {})

(* The request fails and the server has not committed it. *)
UploadFails(h) ==
    /\ At(h, "uploading")
    /\ \/ /\ Fault
          /\ \E e \in RefusedErrors(SnapOf(h).op) :
                /\ SettleError(h, e)
                /\ IF e.reached THEN CountSent(h) ELSE UNCHANGED spent
       \/ /\ SnapOf(h).op = "Update"
          /\ cloud[SnapOf(h).fid].at # "here"
          /\ SettleError(h, StatusError(404, TRUE))
          /\ UNCHANGED <<faults, spent>>
    /\ UNCHANGED <<world, baseline, process, asks>>

AnswerLostErrors == {TransportError("Timeout", TRUE), StatusError(503, TRUE)}

(* The answer: complete when it has an editedTime (or the file fetched      *)
(* again has) and the id could be written to the unchanged source.          *)
UploadAnswered(h) ==
    /\ At(h, "stored")
    /\ \/ /\ local = SnapOf(h).ver
          /\ \E got \in {threads[h].got, ResultOf(threads[h].got.fid)} :
                GotoWith(h, "completed", got)
          /\ UNCHANGED <<rows, faults>>
       \/ /\ IF local = SnapOf(h).ver THEN Fault ELSE UNCHANGED faults
          /\ Goto(h, "partial")
          /\ UNCHANGED rows
       \/ /\ Fault
          /\ \E e \in AnswerLostErrors : SettleError(h, e)
    /\ UNCHANGED <<world, baseline, process, asks, spent>>

-----------------------------------------------------------------------------
(* Settlement *)

WithResult(r, to, fid) == [Stepped(r, to) EXCEPT !.rid = fid]

ValidResult_AnySize(r, got) == r.op = "Update" => got.fid = r.fid
(* validate_remote_result *)
ValidResult(r, got) ==
    SameSize(got.ver, r.ver) /\ (r.op = "Update" => got.fid = r.fid)

Settle_RowOnly(h, got) ==
    /\ Transition(h, [WithResult(SnapOf(h), Completed, got.fid) EXCEPT !.vrf = 0])
    /\ UNCHANGED baseline
(* settle_success: the row and the baseline in one transaction. The         *)
(* baseline records the source snapshot, with the cloud's editedTime.       *)
Settle(h, got) ==
    LET r == SnapOf(h)
        done == [WithResult(r, Completed, got.fid) EXCEPT !.vrf = 0]
    IN  /\ Transition(h, done)
        /\ baseline' = IF Accepted(h, done)
                       THEN [fid |-> got.fid, ver |-> r.ver, ed |-> got.ed]
                       ELSE baseline

(* A result the contract of the operation refuses, or a transaction that    *)
(* fails, leaves a row to verify with the id it got.                        *)
SettleUpload(h) ==
    LET r == SnapOf(h)
        got == threads[h].got
        verify == WithResult(r, VerifyingRemote, got.fid)
    IN  /\ At(h, "completed")
        /\ \/ ValidResult(r, got) /\ Settle(h, got) /\ UNCHANGED faults
           \/ /\ IF ValidResult(r, got) THEN Fault ELSE UNCHANGED faults
              /\ Transition(h, verify)
              /\ UNCHANGED baseline
        /\ Finish(h)
        /\ UNCHANGED <<world, process, asks, spent>>

PersistPartial(h) ==
    /\ At(h, "partial")
    /\ Transition(h, WithResult(SnapOf(h), VerifyingRemote, threads[h].got.fid))
    /\ Finish(h)
    /\ UNCHANGED <<world, baseline, process, budgets, spent>>

-----------------------------------------------------------------------------
(* Verification: resume_verifying_task *)

(* committed_upload: the id must reach the unchanged source first. *)
Commits(h, f) ==
    \/ local = SnapOf(h).ver /\ GotoWith(h, "committed", ResultOf(f))
    \/ Goto(h, "unavailable")

VerifyById(h, f) ==
    LET r == SnapOf(h)
        file == cloud[f]
        foreign == HashComparable /\ local = r.ver /\ file.ver # r.ver
    IN  \/ file.at # "here" /\ \E pc \in {"ambiguous", "notCommitted"} : Goto(h, pc)
        \/ file.at = "here" /\ ~SameSize(file.ver, r.ver) /\ Goto(h, "notCommitted")
        \/ file.at = "here" /\ SameSize(file.ver, r.ver) /\ foreign /\ Goto(h, "ambiguous")
        \/ file.at = "here" /\ SameSize(file.ver, r.ver) /\ ~foreign /\ Commits(h, f)

VerifyByName(h) ==
    LET r == SnapOf(h) IN
        \/ \E f \in SoleCandidate(r) : Commits(h, f)
        \/ Candidates(r) = {} /\ Goto(h, "notCommitted")
        \/ Cardinality(Candidates(r)) > 1 /\ Goto(h, "ambiguous")

VerifyUpdate(h) ==
    LET r == SnapOf(h)
        file == cloud[r.fid]
        ours == file.at = "here" /\ SameSize(file.ver, r.ver)
        unchanged == file.at = "here" /\ file.ed = r.base
    IN  \/ ~HasResult(r) /\ unchanged /\ Goto(h, "notCommitted")
        \/ ~HasResult(r) /\ ~unchanged /\ ours /\ Commits(h, r.fid)
        \/ HasResult(r) /\ r.rid = r.fid /\ ours /\ Commits(h, r.fid)
        \/ ~ours /\ (HasResult(r) \/ ~unchanged) /\ Goto(h, "ambiguous")
        \/ HasResult(r) /\ r.rid # r.fid /\ Goto(h, "ambiguous")

(* verify_remote; a lookup that fails is always possible. *)
VerifyRead(h) ==
    /\ At(h, "verify")
    /\ \/ SnapOf(h).op = "Create" /\ HasResult(SnapOf(h)) /\ VerifyById(h, SnapOf(h).rid)
       \/ SnapOf(h).op = "Create" /\ ~HasResult(SnapOf(h)) /\ VerifyByName(h)
       \/ SnapOf(h).op = "Update" /\ VerifyUpdate(h)
       \/ Goto(h, "unavailable")
    /\ UNCHANGED <<rows, world, baseline, process, budgets, spent>>

(* Committed.  When settle_success fails, the fallback asks for the illegal *)
(* edge VerifyingRemote -> VerifyingRemote, and nothing is written.         *)
VerifyCommitted(h) ==
    /\ At(h, "committed")
    /\ \/ Settle(h, threads[h].got) /\ UNCHANGED faults
       \/ Fault /\ UNCHANGED <<rows, baseline>>
    /\ Finish(h)
    /\ UNCHANGED <<world, process, asks, spent>>

CountRound_Reset(r) == 0
CountRound(r) == r.vrf + 1

(* NotCommitted: replay, through RestartRequired as the audited boundary,   *)
(* or give up after MaxReplay rounds.                                       *)
VerifyNotCommitted(h) ==
    LET r == SnapOf(h)
        rounds == CountRound(r)
        next(to) == [WithResult(r, to, NoId) EXCEPT !.vrf = rounds]
    IN  /\ At(h, "notCommitted")
        /\ IF rounds >= MaxReplay
           THEN Transition(h, next(Failed)) /\ Finish(h)
           ELSE /\ Transition(h, next(RestartRequired))
                /\ IF Accepted(h, next(RestartRequired))
                   THEN threads' = [threads EXCEPT ![h].pc = "replay",
                                                   ![h].row = next(RestartRequired)]
                   ELSE Finish(h)
        /\ spent' = IF Current(h)
                    THEN [spent EXCEPT ![threads[h].id].verdicts = @ + 1] ELSE spent
        /\ UNCHANGED <<world, baseline, process, budgets>>

LastVerification_OffByOne(r) == r.vrf >= MaxVerify
LastVerification(r) == r.vrf + 1 >= MaxVerify

(* Ambiguous, or not answered: try again later, MaxVerify times at most. *)
VerifyUndecided(h) ==
    LET r == SnapOf(h) IN
    /\ threads[h].pc \in {"ambiguous", "unavailable"}
    /\ IF LastVerification(r)
       THEN Reject(h, Failed)
       ELSE /\ Patch(h, [r EXCEPT !.rev = @ + 1, !.vrf = @ + 1])
            /\ Finish(h)
    /\ UNCHANGED <<world, baseline, process, budgets, spent>>

Replay_WithoutRun(h) ==
    /\ At(h, "replay")
    /\ Transition(h, Stepped(SnapOf(h), Pending))
    /\ Finish(h)
    /\ UNCHANGED <<world, baseline, process, budgets, spent>>
(* The second transaction of a replay; then the activity is given up, and   *)
(* run_expected, with preflight, begins another.                            *)
Replay(h) ==
    LET pending == Stepped(SnapOf(h), Pending) IN
    /\ At(h, "replay")
    /\ Transition(h, pending)
    /\ IF Accepted(h, pending)
       THEN threads' = [threads EXCEPT ![h].pc = "pickup", ![h].row = pending]
       ELSE Finish(h)
    /\ UNCHANGED <<world, baseline, process, budgets, spent>>

-----------------------------------------------------------------------------
(* The sync cycle's jobs *)

(* recover_startup: an upload that was running is to be verified, a pending *)
(* one runs again.  (Its arbitration between several rows of one path is    *)
(* left out: SingleIntent.)  It asks no thread of this process what it is   *)
(* doing, and is not repeated for a row whose activity it was refused.      *)
RecoverStartup ==
    /\ Idle(Cycle)
    /\ startup
    /\ online
    /\ startup' = FALSE
    /\ overtaken' = (overtaken \/ \E h \in Thread : threads[h].pc \in ExecPC)
    /\ \/ /\ InState({Pending, Running}) = {}
          /\ UNCHANGED <<rows, threads, refused, faults>>
       \/ /\ \E t \in InState({Running}) :
                rows' = [rows EXCEPT ![t] = Stepped(@, VerifyingRemote)]
          /\ UNCHANGED <<threads, refused, faults>>
       \/ /\ InState({Running}) = {}
          /\ \E t \in InState({Pending}) : Start(Cycle, "run", t, rows[t])
          /\ UNCHANGED <<rows, refused, faults>>
       \/ /\ \E t \in InState({Pending, Running}) : Refuse(t, rows[t].rev)
          /\ UNCHANGED <<rows, threads>>
    /\ UNCHANGED <<world, baseline, asks, spent>>

(* promote_ambiguous_restarts: not replayed while a result id is known. *)
PromoteRestart ==
    /\ Idle(Cycle)
    /\ \E t \in RestartsWithResult :
          rows' = [rows EXCEPT ![t] = Stepped(@, VerifyingRemote)]
    /\ UNCHANGED <<threads, world, baseline, process, budgets, spent>>

(* resume_verifying, resume_waiting and resume_due_backoff.  A deadline may *)
(* have passed at any time; without one in the future there is nothing to   *)
(* do.                                                                      *)
ResumeRow(state, pc) ==
    /\ CycleFree
    /\ \E t \in InState({state}) : Start(Cycle, pc, t, rows[t])
    /\ UNCHANGED <<rows, world, baseline, process, budgets, spent>>

ResumeVerifying == online /\ ResumeRow(VerifyingRemote, "verify")
ResumeWaiting == online /\ ResumeRow(WaitingForNetwork, "pickup")
ResumeBackoff == ResumeRow(BackingOff, "pickup")

(* cancel_orphaned_restart_tasks *)
CancelOrphan ==
    /\ CycleFree
    /\ local = 0
    /\ Here = {}
    /\ InState(Blocking) = {}
    /\ \E t \in InState({RestartRequired}) :
          /\ InState({RestartRequired}) = {t}
          /\ rows' = [rows EXCEPT ![t] = Stepped(@, Canceled)]
    /\ UNCHANGED <<threads, world, baseline, process, budgets, spent>>

-----------------------------------------------------------------------------
(* Retries and the user's decisions *)

(* prepare_retry up to its await: a row whose source is gone or changed is  *)
(* rejected at once (Failed stays Failed; RestartRequired cannot be         *)
(* restarted again, so that rejection is an error and changes nothing).     *)
PrepareRetry(h, t) ==
    LET r == rows[t]
        put(s) == rows' = [rows EXCEPT ![t] = Stepped(@, s)]
    IN  /\ Ask
        /\ \/ local = 0 /\ put(Failed) /\ UNCHANGED threads
           \/ /\ local \notin {0, r.ver}
              /\ IF r.state = Failed THEN put(RestartRequired) ELSE UNCHANGED rows
              /\ UNCHANGED threads
           \/ local = r.ver /\ Start(h, "retry", t, r) /\ UNCHANGED rows
        /\ UNCHANGED <<world, baseline, process, faults, spent>>

RetryFailed == CycleFree /\ \E t \in InState({Failed}) : PrepareRetry(Cycle, t)

RetryTransfer(h) ==
    CommandFree(h) /\ \E t \in InState({Failed, RestartRequired}) : PrepareRetry(h, t)

NewBudget(r) == [Stepped(r, Pending) EXCEPT !.att = 0, !.vrf = 0]

(* The row is Pending and the thread goes on to run_prepared. *)
Requeue(h) ==
    /\ Transition(h, NewBudget(SnapOf(h)))
    /\ IF Accepted(h, NewBudget(SnapOf(h)))
       THEN Goto(h, "prepared") /\ spent' = [spent EXCEPT ![threads[h].id] = NothingSpent]
       ELSE Finish(h) /\ UNCHANGED spent

(* persist_preflight_rejection of a retry whose source is gone. *)
FailRetry(h) ==
    LET failed == Stepped(SnapOf(h), Failed) IN
    /\ IF SnapOf(h).state = Failed THEN Patch(h, failed) ELSE Transition(h, failed)
    /\ Finish(h)

(* The preflight's verdict and accept_retry_after_preflight, whose own      *)
(* validation finds a source deleted since then.                            *)
AcceptRetry(h) ==
    /\ At(h, "retry")
    /\ \/ local = SnapOf(h).ver /\ Requeue(h) /\ UNCHANGED faults
       \/ /\ IF local = SnapOf(h).ver THEN Fault ELSE UNCHANGED faults
          /\ Reject(h, RestartRequired)
          /\ UNCHANGED spent
       \/ local = 0 /\ FailRetry(h) /\ UNCHANGED <<faults, spent>>
    /\ UNCHANGED <<world, baseline, process, asks>>

(* run_prepared loads the row again, which may be somebody else's by now.   *)
(* Neither prepare_retry's activity nor a path lease is held any more.      *)
RunPrepared(h) ==
    LET t == threads[h].id IN
    /\ At(h, "prepared")
    /\ IF rows[t].state \in Runnable THEN Start(h, "runNow", t, rows[t]) ELSE Finish(h)
    /\ UNCHANGED <<rows, world, baseline, process, budgets, spent>>

NameConflicts == {t \in InState({RestartRequired}) : rows[t].conflict}

(* overwrite_remote_conflict: list the files of the name, *)
Overwrite(h) ==
    /\ CommandFree(h)
    /\ Ask
    /\ \E t \in NameConflicts :
          /\ local = rows[t].ver
          /\ threads' = [threads EXCEPT ![h] =
                [pc |-> "overwrite", id |-> t, row |-> rows[t],
                 got |-> NoResult, todo |-> Here]]
    /\ UNCHANGED <<rows, world, baseline, process, faults, spent>>

(* rename them one by one, any of which can fail, *)
RenameRemote(h) ==
    /\ At(h, "overwrite")
    /\ \E f \in threads[h].todo :
          \/ /\ cloud' = [cloud EXCEPT ![f].at = "away"]
             /\ threads' = [threads EXCEPT ![h].todo = @ \ {f}]
             /\ UNCHANGED faults
          \/ Fault /\ Finish(h) /\ UNCHANGED cloud
    /\ UNCHANGED <<rows, local, contents, online, history, baseline, process, asks, spent>>

(* and put the row back into the queue. *)
RequeueConflict(h) ==
    /\ At(h, "overwrite")
    /\ threads[h].todo = {}
    /\ Requeue(h)
    /\ UNCHANGED <<world, baseline, process, budgets>>

(* keep_both_conflict: the local file moves to a copy, the row ends. *)
KeepBoth(h) ==
    /\ CommandFree(h)
    /\ \E t \in NameConflicts :
          /\ local = rows[t].ver
          /\ rows' = [rows EXCEPT ![t] = Stepped(@, Canceled)]
    /\ local' = 0
    /\ UNCHANGED <<threads, cloud, contents, online, history, baseline, process,
                   budgets, spent>>

(* cancel_user_task *)
Cancel(h) ==
    /\ CommandFree(h)
    /\ \E t \in InState({RestartRequired, Failed}) :
          rows' = [rows EXCEPT ![t] = Stepped(@, Canceled)]
    /\ UNCHANGED <<threads, world, baseline, process, budgets, spent>>

(* clear_terminal_transfers, with completed, failed or both. *)
ClearHistory(h) ==
    /\ CommandFree(h)
    /\ \E S \in {{Completed}, {Failed, Canceled}, {Completed, Failed, Canceled}} :
          /\ InState(S) # {}
          /\ rows' = [t \in Task |-> IF rows[t].state \in S
                                    THEN [BlankRow EXCEPT !.state = "cleared"]
                                    ELSE rows[t]]
    /\ UNCHANGED <<threads, world, baseline, process, budgets, spent>>

-----------------------------------------------------------------------------
(* The world *)

NewContent == contents < MaxContents /\ contents' = contents + 1

LocalEdit ==
    /\ NewContent
    /\ local' = contents'
    /\ UNCHANGED <<rows, threads, cloud, baseline, online, process, budgets,
                   spent, history>>

LocalDelete ==
    /\ local # 0
    /\ Fault
    /\ local' = 0
    /\ UNCHANGED <<rows, threads, cloud, contents, baseline, online, process, asks,
                   spent, history>>

(* Another client creates a file of the name, or writes one that exists. *)
ForeignWrite ==
    /\ NewContent
    /\ \E f \in Here \cup (IF Unused = {} THEN {} ELSE {NewFile}) :
          Store(f, [cloud[f] EXCEPT !.at = "here", !.ver = contents', !.ed = @ + 1])
    /\ UNCHANGED <<rows, threads, local, baseline, online, process, budgets, spent>>

ForeignRemove ==
    /\ Fault
    /\ \E f \in Here : cloud' = [cloud EXCEPT ![f].at = "away"]
    /\ UNCHANGED <<rows, threads, local, contents, baseline, online, process, asks,
                   spent, history>>

NetworkDown ==
    /\ online /\ Fault
    /\ online' = FALSE
    /\ UNCHANGED <<rows, threads, cloud, local, contents, baseline, process, asks,
                   spent, history>>

NetworkUp ==
    /\ ~online
    /\ online' = TRUE
    /\ UNCHANGED <<rows, threads, cloud, local, contents, baseline, process, budgets,
                   spent, history>>

(* The process ends and starts again.  The server is done with a request by *)
(* then: it has stored it (UploadCommits came first) or never will.         *)
Crash ==
    /\ Fault
    /\ threads' = [h \in Thread |-> IdleThread]
    /\ startup' = TRUE
    /\ refused' = {}
    /\ UNCHANGED <<rows, world, baseline, overtaken, asks, spent>>

-----------------------------------------------------------------------------
ThreadStep(h) ==
    \/ PickupRefused(h) \/ Admit(h) \/ Preflight(h) \/ Gate(h) \/ CheckSource(h) \/ CheckRemote(h)
    \/ UploadCommits(h) \/ UploadFails(h) \/ UploadAnswered(h)
    \/ SettleUpload(h) \/ PersistPartial(h)
    \/ VerifyRead(h) \/ VerifyCommitted(h) \/ VerifyNotCommitted(h)
    \/ VerifyUndecided(h) \/ Replay(h)
    \/ AcceptRetry(h) \/ RunPrepared(h) \/ RenameRemote(h) \/ RequeueConflict(h)

CycleJob ==
    \/ RecoverStartup \/ PromoteRestart \/ ResumeVerifying \/ ResumeWaiting
    \/ ResumeBackoff \/ CancelOrphan \/ PlanUpload \/ RetryFailed

Command(h) ==
    \/ UploadCommand(h) \/ RetryTransfer(h) \/ Overwrite(h) \/ KeepBoth(h)
    \/ Cancel(h) \/ ClearHistory(h)

World ==
    \/ LocalEdit \/ LocalDelete \/ ForeignWrite \/ ForeignRemove
    \/ NetworkDown \/ NetworkUp \/ Crash

Next == CycleJob \/ World \/ \E h \in Thread : ThreadStep(h) \/ Command(h)

Spec == Init /\ [][Next]_vars

(* Threads are polled until they end, the cycle is scheduled again while a  *)
(* row has a deadline or the network came back, and outages end.  New       *)
(* intents, retries and user commands are owed to nobody.                   *)
Fairness ==
    /\ \A h \in Thread : WF_vars(ThreadStep(h))
    /\ WF_vars(NetworkUp)
    /\ WF_vars(RecoverStartup)
    /\ WF_vars(ResumeVerifying)
    /\ WF_vars(ResumeWaiting)
    /\ WF_vars(ResumeBackoff)
FairSpec == Spec /\ Fairness

-----------------------------------------------------------------------------
(* Properties *)

TypeOK ==
    /\ rows \in [Task -> Row]
    /\ threads \in [Thread -> ThreadState]
    /\ cloud \in [FileId -> CloudFile]
    /\ local \in Nat /\ contents \in Nat
    /\ baseline \in Result
    /\ online \in BOOLEAN /\ startup \in BOOLEAN
    /\ faults \in Nat /\ asks \in Nat
    /\ spent \in [Task -> Spent]
    /\ history \subseteq Result
    /\ refused \subseteq Task \X Nat
    /\ overtaken \in BOOLEAN

(* A path has one row at most that could still act: the arbitration of      *)
(* enqueue_and_run, although rows come back from RestartRequired and Failed *)
(* by five other ways.                                                      *)
SingleIntent == \A t, u \in Live : t = u

(* A row that is Running is executed by some thread of this process, and    *)
(* one that is Pending will be: otherwise nothing would move it again, and  *)
(* its path would stay blocked.  The exception is a row whose pickup was    *)
(* refused: run_expected's begin_activity comes after the row was made      *)
(* Pending, and nobody resumes Pending rows but the next start.             *)
Executes(h, t) == threads[h].id = t /\ SnapOf(h).rev = rows[t].rev /\ threads[h].pc \in ExecPC
WillRun(h, t) ==
    /\ threads[h].id = t
    /\ \/ At(h, "prepared")
       \/ /\ SnapOf(h).rev = rows[t].rev
          /\ threads[h].pc \in {"run", "pickup", "runNow", "preflight", "gate"}
Minds(h, t) ==
    /\ rows[t].state = Running => Executes(h, t)
    /\ rows[t].state = Pending => WillRun(h, t)
Stranded(t) ==
    /\ rows[t].state \in {Running, Pending}
    /\ <<t, rows[t].rev>> \in refused
RowsOwned ==
    ~startup => \A t \in Task : Stranded(t) \/ \E h \in Thread : Minds(h, t)

(* What the comment at conflict_actions.rs:15 says of the task that is put  *)
(* back into the queue: it is run at once.                                  *)
PendingRuns ==
    ~startup => \A t \in InState({Pending}) : \E h \in Thread : WillRun(h, t)

(* Two uploads of one path are never on their way at the same time, unless  *)
(* startup recovery took a running one for interrupted (recovery.rs:496).   *)
Uploading == {h \in Thread : threads[h].pc \in {"uploading", "stored"}}
OneUploader == ~overtaken => \A h, k \in Uploading : h = k

(* The cloud never holds two files of one name that uploads of this path    *)
(* created, whatever was lost, repeated or interrupted in between; with the *)
(* same exception, without which it is false.                               *)
OneCopy == \A f, g \in Here : cloud[f].mine /\ cloud[g].mine => f = g
NoDuplicateCreate == ~overtaken => OneCopy

(* What the baseline calls synced is true: the cloud's file had exactly     *)
(* that content at that editedTime.  Otherwise an edit would be taken for   *)
(* uploaded and never be sent.                                              *)
NoFalseSuccess == baseline.fid # NoId => baseline \in history

(* An update never replaces a version of the file other than the one it was *)
(* planned on (the comment at transfer_operations.rs:244).                  *)
OverwritesPlannedOnly ==
    \A h \in Thread :
        (/\ At(h, "uploading")
         /\ SnapOf(h).op = "Update"
         /\ threads'[h].pc = "stored")
            => cloud[SnapOf(h).fid].ed = SnapOf(h).base
NoBlindOverwrite == [][OverwritesPlannedOnly]_vars

(* However the errors, verifications and replays alternate, the uploads of  *)
(* one row that reach the server are bounded until the user or a new intent *)
(* opens a new budget.  (An upload that recovery overtook counts against    *)
(* the budget that is open when it arrives.)                                *)
UploadBudget ==
    ~overtaken => \A t \in Task : spent[t].uploads <= MaxAttempts + MaxReplay

(* A row only fails for want of a commit after MaxReplay rounds of          *)
(* verifying and uploading again.                                           *)
GivesUpAfterReplays ==
    \A h \in Thread :
        (/\ At(h, "notCommitted")
         /\ Current(h)
         /\ CountRound(SnapOf(h)) >= MaxReplay)
            => spent[threads[h].id].verdicts + 1 >= MaxReplay

(* A row in hand is settled, or handed to the planner or the user, once     *)
(* failures and edits stop, or its pickup was refused.                      *)
Settles ==
    \A t \in Task :
        rows[t].state \in Blocking ~> (rows[t].state \notin Blocking \/ Stranded(t))
=============================================================================
