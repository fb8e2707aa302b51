--------------------------- MODULE TaskRunnerProofs ---------------------------
(***************************************************************************)
(* TaskRunner for any number of rows, threads, cloud files, faults and     *)
(* intents, and for any limits.  The inductive invariant has four parts:   *)
(*   TypeInv     types, with the room the counters need;                   *)
(*   SingleIntent                                                          *)
(*   Snapshots   what a thread's snapshot says about the row it was loaded *)
(*               from: a revision is never used twice;                     *)
(*   Execution   of the threads past the gate only one has its row still   *)
(*               Running at its revision (it holds it); and all have, until *)
(*               startup recovery takes such a row for interrupted.        *)
(***************************************************************************)
EXTENDS UploadRefinement, TLAPS

(* Rows that can occur: an Update names its file, and a row which may still *)
(* be verified has room for one more verification.                          *)
SafeRow ==
    {r \in Row : /\ r.op = "Update" => r.fid \in FileId
                 /\ r.state \in Blocking \/ HasResult(r) => r.vrf < MaxVerify}

(* Threads that can occur. *)
RunPC == {"run", "pickup", "runNow", "preflight", "gate"}
VerifyPC == {"verify", "committed", "notCommitted", "ambiguous", "unavailable"}
WorkPC == RunPC \cup ExecPC \cup VerifyPC \cup {"replay"}
SafeThread ==
    {s \in ThreadState : /\ s.row \in SafeRow
                         /\ s.pc # "idle" => s.id \in Task
                         /\ s.pc \in WorkPC => s.row.vrf < MaxVerify
                         /\ s.pc = "stored" => s.got.fid \in FileId}

TypeInv ==
    /\ rows \in [Task -> SafeRow]
    /\ threads \in [Thread -> SafeThread]
    /\ cloud \in [FileId -> CloudFile]
    /\ local \in Nat /\ contents \in Nat
    /\ baseline \in Result
    /\ online \in BOOLEAN /\ startup \in BOOLEAN
    /\ faults \in Nat /\ asks \in Nat
    /\ spent \in [Task -> Spent]
    /\ history \subseteq Result
    /\ refused \subseteq Task \X Nat
    /\ overtaken \in BOOLEAN

(* The states a snapshot can have where its thread is. *)
SnapshotStates(pc) ==
    CASE pc \in RunPC -> Runnable
      [] pc \in ExecPC -> {Running}
      [] pc \in VerifyPC -> {VerifyingRemote}
      [] pc = "replay" -> {RestartRequired}
      [] pc \in {"retry", "overwrite"} -> {Failed, RestartRequired}
      [] OTHER -> State \cup {"absent"}

(* A row in the database with the snapshot's revision is the snapshot. *)
Agrees(s, r) ==
    /\ r.state # "absent"
    /\ s.pc # "prepared" /\ r.state \in State =>
          /\ s.row.rev <= r.rev
          /\ s.row.rev = r.rev => s.row = r

Snapshots ==
    \A h \in Thread :
        threads[h].pc # "idle" => /\ SnapOf(h).state \in SnapshotStates(threads[h].pc)
                                  /\ Agrees(threads[h], rows[threads[h].id])

InExec(h) == threads[h].pc \in ExecPC
Owns(h) == rows[threads[h].id].state = Running /\ rows[threads[h].id].rev = SnapOf(h).rev

(* Recovery can take the row away under the thread that executes it. *)
Holds(h) == InExec(h) /\ Owns(h)

Execution ==
    /\ \A h, k \in Thread : Holds(h) /\ Holds(k) => h = k
    /\ ~overtaken => \A h \in Thread : InExec(h) => Owns(h)

IInv == TypeInv /\ SingleIntent /\ Snapshots /\ Execution

-----------------------------------------------------------------------------
(* Rows and threads that occur *)

LEMMA Constants ==
    /\ MaxVerify \in Nat /\ MaxReplay \in Nat /\ MaxAttempts \in Nat
    /\ 0 < MaxReplay /\ MaxReplay < MaxVerify
    /\ NoTask \notin Task /\ NoId \notin FileId
    /\ Cycle \in Thread
BY BoundAssumption, MaxAttemptsAssumption, NoneAssumption, ThreadAssumption

LEMMA StateNames ==
    /\ Blocking \subseteq State /\ Runnable \subseteq Blocking
    /\ {RestartRequired, Failed, Completed, Canceled} \cap Blocking = {}
    /\ {RestartRequired, Failed, Completed, Canceled} \subseteq State
    /\ {Pending, Running, WaitingForNetwork, BackingOff, VerifyingRemote} = Blocking
    /\ "absent" \notin State /\ "cleared" \notin State
BY DEF State, Blocking, Runnable, Pending, Running, WaitingForNetwork, BackingOff,
       VerifyingRemote, RestartRequired, Completed, Failed, Canceled

LEMMA BlankSafe ==
    /\ BlankRow \in SafeRow
    /\ [BlankRow EXCEPT !.state = "cleared"] \in SafeRow
<1>1. BlankRow \in SafeRow
  BY Constants, StateNames DEF BlankRow, SafeRow, Row, HasResult
<1>2. ~HasResult(BlankRow) /\ BlankRow.op = "Create"
  BY DEF BlankRow, HasResult
<1> QED BY <1>1, <1>2, StateNames DEF SafeRow, Row, HasResult

(* What the code assigns to a row leaves it one that can occur. *)
LEMMA StateSet ==
    ASSUME NEW r \in SafeRow, NEW to \in State, NEW n \in Nat,
           to \in Blocking => r.vrf < MaxVerify
    PROVE  [r EXCEPT !.state = to, !.rev = n, !.conflict = FALSE] \in SafeRow
BY DEF SafeRow, Row, HasResult

LEMMA ConflictSet == \A r \in SafeRow : [r EXCEPT !.conflict = TRUE] \in SafeRow
BY DEF SafeRow, Row, HasResult

LEMMA ResultSet ==
    ASSUME NEW r \in SafeRow, NEW fid \in FileId \cup {NoId},
           fid = NoId \/ r.vrf < MaxVerify
    PROVE  [r EXCEPT !.rid = fid] \in SafeRow
BY DEF SafeRow, Row, HasResult

LEMMA AttemptsSet ==
    ASSUME NEW r \in SafeRow, NEW n \in 0..MaxAttempts
    PROVE  [r EXCEPT !.att = n] \in SafeRow
BY DEF SafeRow, Row, HasResult

LEMMA RoundsSet ==
    ASSUME NEW r \in SafeRow, NEW n \in 0..MaxVerify,
           n < MaxVerify \/ (r.state \notin Blocking /\ ~HasResult(r))
    PROVE  [r EXCEPT !.vrf = n] \in SafeRow
BY DEF SafeRow, Row, HasResult

LEMMA RevisionSet ==
    ASSUME NEW r \in SafeRow, NEW n \in Nat
    PROVE  [r EXCEPT !.rev = n] \in SafeRow
BY DEF SafeRow, Row, HasResult

LEMMA SteppedSafe ==
    ASSUME NEW r \in SafeRow, NEW to \in State,
           to \in Blocking => r.vrf < MaxVerify
    PROVE  /\ Stepped(r, to) \in SafeRow
           /\ Stepped(r, to).state = to
           /\ Stepped(r, to).rev = r.rev + 1
           /\ Stepped(r, to).vrf = r.vrf
           /\ Stepped(r, to).rid = r.rid
           /\ Stepped(r, to).att = r.att
<1>1. r.rev + 1 \in Nat
  BY DEF SafeRow, Row
<1>2. Stepped(r, to) \in SafeRow
  BY <1>1, StateSet DEF Stepped
<1> QED BY <1>2 DEF Stepped, SafeRow, Row

LEMMA WithResultSafe ==
    ASSUME NEW r \in SafeRow, NEW to \in State, r.vrf < MaxVerify,
           NEW fid \in FileId \cup {NoId}
    PROVE  /\ WithResult(r, to, fid) \in SafeRow
           /\ WithResult(r, to, fid).state = to
           /\ WithResult(r, to, fid).rev = r.rev + 1
           /\ WithResult(r, to, fid).rid = fid
           /\ WithResult(r, to, fid).vrf = r.vrf
<1> DEFINE q == Stepped(r, to)
<1>1. q \in SafeRow /\ q.vrf = r.vrf /\ q.state = to /\ q.rev = r.rev + 1
  BY SteppedSafe
<1> HIDE DEF q
<1>2. [q EXCEPT !.rid = fid] \in SafeRow
  BY <1>1, ResultSet
<1>3. WithResult(r, to, fid) = [q EXCEPT !.rid = fid]
  BY DEF WithResult, q
<1> QED BY <1>1, <1>2, <1>3 DEF SafeRow, Row

LEMMA BudgetSet ==
    ASSUME NEW r \in SafeRow, Pending \in State, NEW n \in Nat,
           NEW a \in 0..MaxAttempts, NEW v \in 0..MaxVerify, v < MaxVerify
    PROVE  [[r EXCEPT !.state = Pending, !.rev = n, !.conflict = FALSE]
               EXCEPT !.att = a, !.vrf = v] \in SafeRow
BY DEF SafeRow, Row, HasResult

LEMMA NewBudgetSafe ==
    ASSUME NEW r \in SafeRow
    PROVE  /\ NewBudget(r) \in SafeRow
           /\ NewBudget(r).state = Pending
           /\ NewBudget(r).rev = r.rev + 1
<1>1. r.rev + 1 \in Nat
  BY DEF SafeRow, Row
<1>2. 0 \in 0..MaxAttempts /\ 0 \in 0..MaxVerify /\ 0 < MaxVerify /\ Pending \in State
  BY Constants, StateNames
<1>3. NewBudget(r) \in SafeRow
  BY <1>1, <1>2, BudgetSet DEF NewBudget, Stepped
<1> QED BY <1>3 DEF NewBudget, Stepped, SafeRow, Row

LEMMA IntentSet ==
    ASSUME NEW r \in SafeRow, Pending \in State, r.vrf < MaxVerify,
           NEW op \in {"Create", "Update"}, NEW ver \in Nat,
           NEW fid \in FileId \cup {NoId}, NEW base \in Nat,
           op = "Update" => fid \in FileId
    PROVE  [r EXCEPT !.state = Pending, !.op = op, !.ver = ver, !.fid = fid,
                     !.base = base] \in SafeRow
BY DEF SafeRow, Row, HasResult

(* What the planner and the commands ask for. *)
Intent ==
    {n \in [op : {"Create", "Update"}, ver : Nat, fid : FileId \cup {NoId}, base : Nat] :
        n.op = "Update" => n.fid \in FileId}

LEMMA FreshSafe ==
    ASSUME NEW n \in Intent
    PROVE  Fresh(n) \in SafeRow /\ Fresh(n).state = Pending /\ Fresh(n).vrf = 0
<1>1. BlankRow.vrf < MaxVerify
  BY Constants DEF BlankRow
<1>2. Fresh(n) \in SafeRow
  BY <1>1, IntentSet, BlankSafe, StateNames DEF Fresh, Intent
<1> QED BY <1>2 DEF Fresh, BlankRow

LEMMA ReplannedSafe ==
    ASSUME NEW n \in Intent,
           NEW r \in SafeRow
    PROVE  /\ Replanned(r, n) \in SafeRow
           /\ Replanned(r, n).state = Pending
           /\ Replanned(r, n).vrf = 0
           /\ Replanned(r, n).rev \in {r.rev + 1, r.rev + 2}
<1> DEFINE m == r.rev + (IF r.state = RestartRequired THEN 1 ELSE 2)
           f == Fresh(n)
           q == [f EXCEPT !.rid = r.rid]
<1>1. m \in Nat /\ m \in {r.rev + 1, r.rev + 2} /\ r.rid \in FileId \cup {NoId}
  BY DEF SafeRow, Row
<1>2. f \in SafeRow /\ f.state = Pending /\ f.vrf = 0
  BY FreshSafe
<1> HIDE DEF m, f
<1>3. q \in SafeRow /\ q.state = Pending /\ q.vrf = 0
  BY <1>1, <1>2, ResultSet, Constants DEF SafeRow, Row
<1>4. Replanned(r, n) = [q EXCEPT !.rev = m]
  BY DEF Replanned, m, f
<1> HIDE DEF q
<1>5. [q EXCEPT !.rev = m] \in SafeRow
  BY <1>1, <1>3, RevisionSet
<1> QED BY <1>1, <1>3, <1>4, <1>5 DEF SafeRow, Row

(* Every thread is a good thread, and so is an idle one or one that starts. *)
LEMMA ThreadsSafe ==
    ASSUME TypeInv, NEW h \in Thread
    PROVE  /\ threads[h] \in SafeThread
           /\ SnapOf(h) \in SafeRow
           /\ ~Idle(h) => threads[h].id \in Task
           /\ threads[h].pc \in WorkPC => SnapOf(h).vrf < MaxVerify
           /\ At(h, "stored") => threads[h].got.fid \in FileId
BY DEF TypeInv, SafeThread, SnapOf, Idle, At

LEMMA IdleSafe == IdleThread \in SafeThread
BY BlankSafe DEF IdleThread, SafeThread, ThreadState, SafeRow, WorkPC, RunPC, ExecPC,
                 VerifyPC, PC, Result, NoResult

LEMMA FinishSafe ==
    ASSUME TypeInv, NEW h \in Thread, Finish(h)
    PROVE  threads' \in [Thread -> SafeThread]
BY IdleSafe DEF TypeInv, Finish

LEMMA StartSafe ==
    ASSUME TypeInv, NEW h \in Thread, NEW pc \in PC \ {"idle", "stored"}, NEW t \in Task,
           NEW r \in SafeRow, pc \in WorkPC => r.vrf < MaxVerify,
           Start(h, pc, t, r)
    PROVE  threads' \in [Thread -> SafeThread]
<1> DEFINE s == [IdleThread EXCEPT !.pc = pc, !.id = t, !.row = r]
<1>1. s \in SafeThread
  BY DEF IdleThread, SafeThread, ThreadState, SafeRow, Result, NoResult
<1> QED BY <1>1 DEF TypeInv, Start

LEMMA GotoSafe ==
    ASSUME TypeInv, NEW h \in Thread, ~Idle(h), NEW pc \in PC \ {"stored"},
           pc \in WorkPC => SnapOf(h).vrf < MaxVerify,
           Goto(h, pc)
    PROVE  threads' \in [Thread -> SafeThread]
<1> DEFINE s == [threads[h] EXCEPT !.pc = pc]
<1>1. s \in SafeThread
  BY ThreadsSafe DEF SafeThread, ThreadState, SnapOf
<1> QED BY <1>1 DEF TypeInv, Goto

LEMMA GotoWithSafe ==
    ASSUME TypeInv, NEW h \in Thread, threads[h].pc \in WorkPC, NEW pc \in PC,
           NEW got \in Result, pc = "stored" => got.fid \in FileId,
           GotoWith(h, pc, got)
    PROVE  threads' \in [Thread -> SafeThread]
<1> DEFINE s == [[threads[h] EXCEPT !.pc = pc] EXCEPT !.got = got]
<1>1. s \in SafeThread
  <2>1. threads[h].pc # "idle"
    BY DEF WorkPC, RunPC, ExecPC, VerifyPC
  <2> QED BY <2>1, ThreadsSafe DEF SafeThread, ThreadState, SnapOf, Idle
<1>2. threads' = [threads EXCEPT ![h] = s]
  BY DEF GotoWith, TypeInv
<1> QED BY <1>1, <1>2 DEF TypeInv

(* The two ways a thread writes its row. *)
LEMMA WriteSafe ==
    ASSUME TypeInv, NEW h \in Thread, NEW new \in SafeRow,
           Transition(h, new) \/ Patch(h, new)
    PROVE  rows' \in [Task -> SafeRow]
BY DEF TypeInv, Transition, Patch

LEMMA ResultOfSafe ==
    ASSUME TypeInv, NEW f \in FileId
    PROVE  ResultOf(f) \in Result
BY DEF TypeInv, ResultOf, Result, CloudFile

-----------------------------------------------------------------------------
(* Steps of one thread keep rows and threads good, and revive no row. *)

Safely ==
    /\ rows' \in [Task -> SafeRow]
    /\ threads' \in [Thread -> SafeThread]
    /\ Live' \subseteq Live

LEMMA LiveStates ==
    \A t \in Task : t \in Live <=> rows[t].state \in Blocking \cup {RestartRequired, Failed}
BY DEF Live, State, Blocking, Pending, Running, WaitingForNetwork, BackingOff,
       VerifyingRemote, RestartRequired, Completed, Failed, Canceled

(* Only a live row has somewhere to go. *)
LEMMA DeadEnds ==
    ASSUME NEW s, NEW to, CanTransition(s, to)
    PROVE  s \in Blocking \cup {RestartRequired, Failed}
BY DEF CanTransition, Successors, Blocking, Pending, Running, WaitingForNetwork,
       BackingOff, VerifyingRemote, RestartRequired, Completed, Failed, Canceled

LEMMA SameRowsLive == rows' = rows => Live' = Live
BY DEF Live

LEMMA WriteLive ==
    ASSUME TypeInv, NEW h \in Thread, NEW new, Transition(h, new) \/ Patch(h, new)
    PROVE  Live' \subseteq Live
<1> SUFFICES ASSUME NEW t \in Live' PROVE t \in Live
  OBVIOUS
<1>1. t \in Task /\ rows'[t].state \in State \ {Completed, Canceled}
  BY DEF Live
<1>2. CASE rows'[t] = rows[t]
  BY <1>1, <1>2 DEF Live
<1>3. CASE rows'[t] # rows[t]
  <2>1. t = threads[h].id /\ rows'[t] = new
    BY <1>1, <1>3 DEF TypeInv, Transition, Patch
  <2>2. CASE Patch(h, new)
    <3>1. rows[t].state = new.state
      BY <1>3, <2>1, <2>2 DEF Patch
    <3> QED BY <3>1, <2>1, <1>1 DEF Live
  <2>3. CASE Transition(h, new)
    <3>1. CanTransition(rows[t].state, new.state)
      BY <1>3, <2>1, <2>3 DEF Transition, Accepted
    <3> QED BY <3>1, <1>1, DeadEnds, LiveStates
  <2> QED BY <2>2, <2>3
<1> QED BY <1>2, <1>3

LEMMA RejectSafe ==
    ASSUME TypeInv, NEW h \in Thread, NEW to \in State,
           to \in Blocking => SnapOf(h).vrf < MaxVerify,
           Reject(h, to)
    PROVE  Safely
<1>1. Stepped(SnapOf(h), to) \in SafeRow
  BY ThreadsSafe, SteppedSafe
<1>2. rows' \in [Task -> SafeRow] /\ Live' \subseteq Live
  BY <1>1, WriteSafe, WriteLive DEF Reject
<1> QED BY <1>2, FinishSafe DEF Reject, Safely

(* The retry policy never exceeds the budget. *)
LEMMA BudgetKept ==
    ASSUME NEW e, NEW op, NEW n \in Nat, Classify(e, op, n).consumesBudget
    PROVE  n < MaxAttempts
BY MaxAttemptsAssumption
   DEF Classify, ClassifyTransport, ClassifyStatus, BudgetExhausted, Permanent,
       VerifyRemote, WaitForNetwork, Backoff, Decision

LEMMA TargetStates ==
    ASSUME NEW e, NEW op, NEW n
    PROVE  TargetOf(Classify(e, op, n)) \in State
BY DEF TargetOf, State

LEMMA SettleErrorSafe ==
    ASSUME TypeInv, NEW h \in Thread, threads[h].pc \in WorkPC, NEW e, SettleError(h, e)
    PROVE  Safely
<1> DEFINE r == SnapOf(h)
           d == Classify(e, r.op, r.att)
           q == Stepped(r, TargetOf(d))
           new == [q EXCEPT !.att = IF d.consumesBudget THEN @ + 1 ELSE @]
<1>1. r \in SafeRow /\ r.vrf < MaxVerify /\ r.att \in 0..MaxAttempts
  BY ThreadsSafe DEF SafeRow, Row
<1>2. q \in SafeRow /\ q.att = r.att
  BY <1>1, SteppedSafe, TargetStates
<1>3. (IF d.consumesBudget THEN q.att + 1 ELSE q.att) \in 0..MaxAttempts
  BY <1>1, <1>2, BudgetKept, Constants
<1>4. new \in SafeRow
  <2> HIDE DEF q, d
  <2> QED BY <1>2, <1>3, AttemptsSet
<1>5. Transition(h, new) /\ Finish(h)
  BY DEF SettleError
<1> HIDE DEF new
<1> QED BY <1>4, <1>5, WriteSafe, WriteLive, FinishSafe DEF Safely

(* A revision that is refused is one that some row had. *)
LEMMA RefuseSafe ==
    ASSUME TypeInv, NEW t \in Task, NEW rev \in Nat, Refuse(t, rev)
    PROVE  faults' \in Nat /\ refused' \subseteq Task \X Nat
BY DEF TypeInv, Refuse, Fault

LEMMA PickupRefusedSafe ==
    ASSUME TypeInv, NEW h \in Thread, PickupRefused(h)
    PROVE  TypeInv' /\ Live' \subseteq Live
<1>1. threads[h].id \in Task /\ SnapOf(h).rev \in Nat
  BY ThreadsSafe DEF PickupRefused, Idle, SafeRow, Row
<1>2. faults' \in Nat /\ refused' \subseteq Task \X Nat
  BY <1>1, RefuseSafe DEF PickupRefused
<1>3. threads' \in [Thread -> SafeThread]
  BY FinishSafe DEF PickupRefused
<1> QED BY <1>2, <1>3, SameRowsLive DEF TypeInv, PickupRefused, world

LEMMA AdmitSafe ==
    ASSUME TypeInv, NEW h \in Thread, Admit(h)
    PROVE  TypeInv' /\ Live' \subseteq Live
<1>1. threads[h].pc \in WorkPC /\ ~Idle(h)
  BY DEF Admit, WorkPC, RunPC, Idle
<1>2. SnapOf(h).vrf < MaxVerify
  BY <1>1, ThreadsSafe
<1>3. CASE Reject(h, Failed) \/ Reject(h, RestartRequired) \/ Reject(h, WaitingForNetwork)
  <2>1. Safely
    BY <1>2, <1>3, RejectSafe, StateNames
  <2> QED BY <2>1 DEF Safely, TypeInv, Admit, world, process, budgets
<1>4. CASE Finish(h) /\ UNCHANGED rows
  BY <1>4, FinishSafe, SameRowsLive DEF TypeInv, Admit, world, process, budgets
<1>5. CASE (Goto(h, "preflight") \/ Goto(h, "gate")) /\ UNCHANGED rows
  <2>1. threads' \in [Thread -> SafeThread]
    BY <1>1, <1>2, <1>5, GotoSafe DEF PC
  <2> QED BY <1>5, <2>1, SameRowsLive DEF TypeInv, Admit, world, process, budgets
<1> QED BY <1>3, <1>4, <1>5 DEF Admit

LEMMA PreflightSafe ==
    ASSUME TypeInv, NEW h \in Thread, Preflight(h)
    PROVE  TypeInv' /\ Live' \subseteq Live
<1>1. threads[h].pc \in WorkPC /\ ~Idle(h)
  BY DEF Preflight, At, WorkPC, RunPC, Idle
<1>2. SnapOf(h).vrf < MaxVerify
  BY <1>1, ThreadsSafe
<1>3. CASE Reject(h, RestartRequired)
  <2>1. Safely
    BY <1>2, <1>3, RejectSafe, StateNames
  <2> QED BY <2>1 DEF Safely, TypeInv, Preflight, Fault, world, process
<1>4. CASE Goto(h, "gate") /\ UNCHANGED rows
  <2>1. threads' \in [Thread -> SafeThread]
    BY <1>1, <1>2, <1>4, GotoSafe DEF PC
  <2> QED BY <1>4, <2>1, SameRowsLive DEF TypeInv, Preflight, Fault, world, process
<1> QED BY <1>3, <1>4 DEF Preflight

(* A row that the gate sends to verification has a result, hence room.      *)
LEMMA PromotedSafe ==
    ASSUME TypeInv, NEW t \in RestartsWithResult
    PROVE  Stepped(rows[t], VerifyingRemote) \in SafeRow /\ t \in Live
<1>1. t \in Task /\ rows[t] \in SafeRow /\ HasResult(rows[t]) /\ rows[t].state = RestartRequired
  BY DEF TypeInv, RestartsWithResult, InState
<1>2. rows[t].vrf < MaxVerify
  BY <1>1 DEF SafeRow
<1> QED BY <1>1, <1>2, SteppedSafe, StateNames, LiveStates

LEMMA GateSafe ==
    ASSUME TypeInv, NEW h \in Thread, Gate(h)
    PROVE  TypeInv' /\ Live' \subseteq Live
<1> DEFINE running == Stepped(SnapOf(h), Running)
<1>1. threads[h].pc \in WorkPC /\ SnapOf(h) \in SafeRow /\ SnapOf(h).vrf < MaxVerify
  BY ThreadsSafe DEF Gate, At, WorkPC, RunPC
<1>2. running \in SafeRow /\ running.vrf < MaxVerify
  BY <1>1, SteppedSafe, StateNames
<1> HIDE DEF running
<1>3. CASE ~GateOpen(h)
  <2>1. /\ Finish(h)
        /\ rows' = [t \in Task |-> IF t \in RivalResults(h)
                                   THEN Stepped(rows[t], VerifyingRemote) ELSE rows[t]]
    BY <1>3 DEF Gate
  <2>2. RivalResults(h) \subseteq RestartsWithResult
    BY DEF RivalResults
  <2>3. rows' \in [Task -> SafeRow]
    BY <2>1, <2>2, PromotedSafe DEF TypeInv
  <2>4. Live' \subseteq Live
    BY <2>1, <2>2, PromotedSafe DEF Live
  <2> QED BY <2>1, <2>3, <2>4, FinishSafe DEF TypeInv, Gate, world, process, budgets
<1>4. CASE GateOpen(h)
  <2>1. Transition(h, running)
    BY <1>4 DEF Gate, running
  <2>2. rows' \in [Task -> SafeRow] /\ Live' \subseteq Live
    BY <1>2, <2>1, WriteSafe, WriteLive
  <2>3. threads' \in [Thread -> SafeThread]
    <3>1. CASE Finish(h)
      BY <3>1, FinishSafe
    <3>2. CASE threads' = [threads EXCEPT ![h].pc = "source", ![h].row = running]
      <4> DEFINE s == [[threads[h] EXCEPT !.pc = "source"] EXCEPT !.row = running]
      <4>1. s \in SafeThread
        BY <1>1, <1>2, ThreadsSafe, ZenonT(60)
           DEF SafeThread, ThreadState, PC, ExecPC, WorkPC, RunPC, VerifyPC, SafeRow, Idle
      <4>2. threads' = [threads EXCEPT ![h] = s]
        BY <3>2 DEF TypeInv
      <4> QED BY <4>1, <4>2 DEF TypeInv
    <3> QED BY <1>4, <3>1, <3>2 DEF Gate, running
  <2> QED BY <2>2, <2>3 DEF TypeInv, Gate, world, process, budgets
<1> QED BY <1>3, <1>4

LEMMA CheckSourceSafe ==
    ASSUME TypeInv, NEW h \in Thread, CheckSource(h)
    PROVE  TypeInv' /\ Live' \subseteq Live
<1>1. threads[h].pc \in WorkPC /\ ~Idle(h)
  BY DEF CheckSource, At, WorkPC, ExecPC, Idle
<1>2. SnapOf(h).vrf < MaxVerify
  BY <1>1, ThreadsSafe
<1>3. CASE Reject(h, RestartRequired)
  <2>1. Safely
    BY <1>2, <1>3, RejectSafe, StateNames
  <2> QED BY <2>1 DEF Safely, TypeInv, CheckSource, world, process, budgets
<1>4. CASE Goto(h, "remote") /\ UNCHANGED rows
  <2>1. threads' \in [Thread -> SafeThread]
    BY <1>1, <1>2, <1>4, GotoSafe DEF PC, ExecPC
  <2> QED BY <1>4, <2>1, SameRowsLive DEF TypeInv, CheckSource, world, process, budgets
<1> QED BY <1>3, <1>4 DEF CheckSource

LEMMA CreateCheckSafe ==
    ASSUME TypeInv, NEW h \in Thread, At(h, "remote"), CreateCheck(h)
    PROVE  Safely
<1>1. threads[h].pc \in WorkPC /\ ~Idle(h)
  BY DEF At, WorkPC, ExecPC, Idle
<1>2. SnapOf(h).vrf < MaxVerify /\ SnapOf(h) \in SafeRow
  BY <1>1, ThreadsSafe
<1>3. CASE Goto(h, "uploading") /\ UNCHANGED rows
  <2>1. threads' \in [Thread -> SafeThread]
    BY <1>1, <1>2, <1>3, GotoSafe DEF PC, ExecPC
  <2> QED BY <1>3, <2>1, SameRowsLive DEF Safely, TypeInv
<1>4. ASSUME NEW f \in SoleCandidate(SnapOf(h)),
             GotoWith(h, "completed", ResultOf(f)), UNCHANGED rows
      PROVE  Safely
  <2>1. f \in FileId
    BY <1>4 DEF SoleCandidate, Candidates, Here
  <2>2. threads' \in [Thread -> SafeThread]
    BY <1>1, <1>4, <2>1, ResultOfSafe, GotoWithSafe DEF PC, ExecPC
  <2> QED BY <1>4, <2>2, SameRowsLive DEF Safely, TypeInv
<1>5. CASE Reject(h, RestartRequired)
  BY <1>2, <1>5, RejectSafe, StateNames
<1>6. CASE /\ Transition(h, [Stepped(SnapOf(h), RestartRequired) EXCEPT !.conflict = TRUE])
           /\ Finish(h)
  <2>1. [Stepped(SnapOf(h), RestartRequired) EXCEPT !.conflict = TRUE] \in SafeRow
    BY <1>2, SteppedSafe, ConflictSet, StateNames
  <2> QED BY <1>6, <2>1, WriteSafe, WriteLive, FinishSafe DEF Safely
<1> QED BY <1>3, <1>4, <1>5, <1>6 DEF CreateCheck

LEMMA UpdateCheckSafe ==
    ASSUME TypeInv, NEW h \in Thread, At(h, "remote"), UpdateCheck(h)
    PROVE  Safely
<1>1. threads[h].pc \in WorkPC /\ ~Idle(h)
  BY DEF At, WorkPC, ExecPC, Idle
<1>2. SnapOf(h).vrf < MaxVerify
  BY <1>1, ThreadsSafe
<1>3. CASE SettleError(h, StatusError(404, FALSE))
  BY <1>1, <1>3, SettleErrorSafe
<1>4. CASE Reject(h, RestartRequired)
  BY <1>2, <1>4, RejectSafe, StateNames
<1>5. CASE Goto(h, "uploading") /\ UNCHANGED rows
  <2>1. threads' \in [Thread -> SafeThread]
    BY <1>1, <1>2, <1>5, GotoSafe DEF PC, ExecPC
  <2> QED BY <1>5, <2>1, SameRowsLive DEF Safely, TypeInv
<1> QED BY <1>3, <1>4, <1>5 DEF UpdateCheck

LEMMA CheckRemoteSafe ==
    ASSUME TypeInv, NEW h \in Thread, CheckRemote(h)
    PROVE  TypeInv' /\ Live' \subseteq Live
<1>1. At(h, "remote") /\ threads[h].pc \in WorkPC
  BY DEF CheckRemote, At, WorkPC, ExecPC
<1>2. Safely
  BY <1>1, CreateCheckSafe, UpdateCheckSafe, SettleErrorSafe DEF CheckRemote
<1> QED BY <1>2 DEF Safely, TypeInv, CheckRemote, Fault, world, process

(* What is stored is a cloud file, and stays known. *)
LEMMA StoreSafe ==
    ASSUME TypeInv, NEW f \in FileId, NEW file \in CloudFile, Store(f, file)
    PROVE  cloud' \in [FileId -> CloudFile] /\ history' \subseteq Result
<1>1. [fid |-> f, ver |-> file.ver, ed |-> file.ed] \in Result
  BY DEF Result, CloudFile
<1> QED BY <1>1 DEF TypeInv, Store

LEMMA NewFileUnused == Unused # {} => NewFile \in FileId /\ NewFile \in Unused
BY DEF NewFile, Unused

LEMMA CountSentSafe ==
    ASSUME TypeInv, NEW h \in Thread, CountSent(h)
    PROVE  spent' \in [Task -> Spent]
<1> DEFINE t == threads[h].id
           more == [spent[t] EXCEPT !.uploads = @ + 1]
<1>1. t \in Task => more \in Spent
  BY DEF TypeInv, Spent
<1>2. spent' = [spent EXCEPT ![t] = more]
  BY DEF CountSent
<1> HIDE DEF more
<1> QED BY <1>1, <1>2 DEF TypeInv

LEMMA UploadCommitsSafe ==
    ASSUME TypeInv, NEW h \in Thread, UploadCommits(h)
    PROVE  TypeInv' /\ Live' \subseteq Live
<1> DEFINE r == SnapOf(h)
<1>1. threads[h].pc \in WorkPC /\ r \in SafeRow /\ r.ver \in Nat
  BY ThreadsSafe DEF UploadCommits, At, WorkPC, ExecPC, SafeRow, Row
<1>2. rows' = rows /\ spent' \in [Task -> Spent]
  BY CountSentSafe DEF UploadCommits
<1>3. PICK v \in Uploaded(h) :
          \/ /\ r.op = "Create"
             /\ Unused # {}
             /\ Store(NewFile, [at |-> "here", ver |-> v, ed |-> 1, mine |-> TRUE])
             /\ GotoWith(h, "stored", [fid |-> NewFile, ver |-> v, ed |-> 1])
          \/ /\ r.op = "Update"
             /\ Store(r.fid, [cloud[r.fid] EXCEPT !.ver = v, !.ed = cloud[r.fid].ed + 1])
             /\ GotoWith(h, "stored", [fid |-> r.fid, ver |-> v, ed |-> cloud[r.fid].ed + 1])
  BY DEF UploadCommits
<1>4. v \in Nat
  BY <1>1 DEF TypeInv, Uploaded
<1>5. /\ cloud' \in [FileId -> CloudFile] /\ history' \subseteq Result
      /\ threads' \in [Thread -> SafeThread]
  <2>1. CASE r.op = "Create"
    <3>1. /\ Unused # {}
          /\ Store(NewFile, [at |-> "here", ver |-> v, ed |-> 1, mine |-> TRUE])
          /\ GotoWith(h, "stored", [fid |-> NewFile, ver |-> v, ed |-> 1])
      BY <1>3, <2>1
    <3>2. NewFile \in FileId
      BY <3>1, NewFileUnused
    <3>3. [at |-> "here", ver |-> v, ed |-> 1, mine |-> TRUE] \in CloudFile
      BY <1>4 DEF CloudFile
    <3>4. [fid |-> NewFile, ver |-> v, ed |-> 1] \in Result
      BY <1>4, <3>2 DEF Result
    <3> QED BY <1>1, <3>1, <3>2, <3>3, <3>4, StoreSafe, GotoWithSafe DEF PC, ExecPC
  <2>2. CASE r.op = "Update"
    <3> DEFINE ed == cloud[r.fid].ed + 1
               file == [cloud[r.fid] EXCEPT !.ver = v, !.ed = ed]
               got == [fid |-> r.fid, ver |-> v, ed |-> ed]
    <3>1. r.fid \in FileId
      BY <1>1, <2>2 DEF SafeRow
    <3>2. ed \in Nat
      BY <3>1 DEF TypeInv, CloudFile
    <3>3. file \in CloudFile
      BY <1>4, <3>1, <3>2 DEF TypeInv, CloudFile
    <3>4. got \in Result /\ got.fid \in FileId
      BY <1>4, <3>1, <3>2 DEF Result
    <3>5. Store(r.fid, file) /\ GotoWith(h, "stored", got)
      BY <1>3, <2>2
    <3> HIDE DEF file, got
    <3> QED BY <1>1, <3>1, <3>3, <3>4, <3>5, StoreSafe, GotoWithSafe DEF PC, ExecPC
  <2> QED BY <1>3, <2>1, <2>2
<1> QED BY <1>2, <1>5, SameRowsLive DEF TypeInv, UploadCommits, process, budgets

LEMMA UploadFailsSafe ==
    ASSUME TypeInv, NEW h \in Thread, UploadFails(h)
    PROVE  TypeInv' /\ Live' \subseteq Live
<1>1. threads[h].pc \in WorkPC
  BY DEF UploadFails, At, WorkPC, ExecPC
<1>2. Safely
  BY <1>1, SettleErrorSafe DEF UploadFails
<1>3. spent' \in [Task -> Spent]
  BY CountSentSafe DEF UploadFails, TypeInv
<1>4. faults' \in Nat
  <2>1. Fault \/ UNCHANGED faults
    BY DEF UploadFails
  <2> QED BY <2>1 DEF Fault, TypeInv
<1>5. UNCHANGED <<world, baseline, process, asks>>
  BY DEF UploadFails
<1> QED BY <1>2, <1>3, <1>4, <1>5 DEF Safely, TypeInv, world, process

LEMMA UploadAnsweredSafe ==
    ASSUME TypeInv, NEW h \in Thread, UploadAnswered(h)
    PROVE  TypeInv' /\ Live' \subseteq Live
<1>1. threads[h].pc \in WorkPC /\ ~Idle(h) /\ At(h, "stored")
  BY DEF UploadAnswered, At, WorkPC, ExecPC, Idle
<1>2. /\ SnapOf(h).vrf < MaxVerify
      /\ threads[h].got \in Result /\ threads[h].got.fid \in FileId
  BY <1>1, ThreadsSafe DEF SafeThread, ThreadState
<1>3. CASE \E e : SettleError(h, e)
  <2>1. Safely
    BY <1>1, <1>3, SettleErrorSafe
  <2> QED BY <2>1 DEF Safely, TypeInv, UploadAnswered, Fault, world, process
<1>4. ASSUME NEW got \in {threads[h].got, ResultOf(threads[h].got.fid)},
             GotoWith(h, "completed", got), UNCHANGED rows
      PROVE  Safely
  <2>1. threads' \in [Thread -> SafeThread]
    BY <1>1, <1>2, <1>4, ResultOfSafe, GotoWithSafe DEF PC, ExecPC
  <2> QED BY <1>4, <2>1, SameRowsLive DEF Safely, TypeInv
<1>5. CASE Goto(h, "partial") /\ UNCHANGED rows
  <2>1. threads' \in [Thread -> SafeThread]
    BY <1>1, <1>2, <1>5, GotoSafe DEF PC, ExecPC
  <2> QED BY <1>5, <2>1, SameRowsLive DEF TypeInv, UploadAnswered, Fault, world, process
<1>6. CASE \E got \in {threads[h].got, ResultOf(threads[h].got.fid)} :
              GotoWith(h, "completed", got) /\ UNCHANGED rows
  BY <1>4, <1>6 DEF Safely, TypeInv, UploadAnswered, Fault, world, process
<1> QED BY <1>3, <1>5, <1>6 DEF UploadAnswered

(* A completed row has its rounds reset and needs no more room. *)
LEMMA SettleSafe ==
    ASSUME TypeInv, NEW h \in Thread, threads[h].pc \in WorkPC,
           NEW got \in Result, Settle(h, got)
    PROVE  /\ rows' \in [Task -> SafeRow] /\ Live' \subseteq Live
           /\ baseline' \in Result
<1> DEFINE r == SnapOf(h)
           w == WithResult(r, Completed, got.fid)
           done == [w EXCEPT !.vrf = 0]
<1>1. r \in SafeRow /\ r.vrf < MaxVerify /\ r.ver \in Nat
  BY ThreadsSafe DEF SafeRow, Row
<1>2. got.fid \in FileId \cup {NoId} /\ got.ed \in Nat
  BY DEF Result
<1>3. w \in SafeRow
  BY <1>1, <1>2, WithResultSafe, StateNames
<1>4. done \in SafeRow
  <2> HIDE DEF w
  <2>1. 0 \in 0..MaxVerify /\ 0 < MaxVerify
    BY Constants
  <2> QED BY <1>3, <2>1, RoundsSet
<1>5. Transition(h, done)
  BY DEF Settle
<1>6. baseline' \in Result
  BY <1>1, <1>2 DEF Settle, Result, TypeInv
<1> HIDE DEF done
<1> QED BY <1>4, <1>5, <1>6, WriteSafe, WriteLive

LEMMA SettleUploadSafe ==
    ASSUME TypeInv, NEW h \in Thread, SettleUpload(h)
    PROVE  TypeInv' /\ Live' \subseteq Live
<1> DEFINE got == threads[h].got
           verify == WithResult(SnapOf(h), VerifyingRemote, got.fid)
<1>1. threads[h].pc \in WorkPC
  BY DEF SettleUpload, At, WorkPC, ExecPC
<1>2. SnapOf(h) \in SafeRow /\ SnapOf(h).vrf < MaxVerify /\ got \in Result
  BY <1>1, ThreadsSafe DEF SafeThread, ThreadState
<1>3. got.fid \in FileId \cup {NoId}
  BY <1>2 DEF Result
<1>4. verify \in SafeRow
  BY <1>2, <1>3, WithResultSafe, StateNames
<1>5. threads' \in [Thread -> SafeThread]
  BY FinishSafe DEF SettleUpload
<1>6. /\ rows' \in [Task -> SafeRow] /\ Live' \subseteq Live
      /\ baseline' \in Result
  <2>1. CASE Settle(h, got)
    BY <1>1, <1>2, <2>1, SettleSafe
  <2>2. CASE Transition(h, verify) /\ UNCHANGED baseline
    BY <1>4, <2>2, WriteSafe, WriteLive DEF TypeInv
  <2> QED BY <2>1, <2>2 DEF SettleUpload
<1> QED BY <1>5, <1>6 DEF TypeInv, SettleUpload, Fault, world, process

LEMMA PersistPartialSafe ==
    ASSUME TypeInv, NEW h \in Thread, PersistPartial(h)
    PROVE  TypeInv' /\ Live' \subseteq Live
<1> DEFINE new == WithResult(SnapOf(h), VerifyingRemote, threads[h].got.fid)
<1>1. threads[h].pc \in WorkPC
  BY DEF PersistPartial, At, WorkPC, ExecPC
<1>2. SnapOf(h) \in SafeRow /\ SnapOf(h).vrf < MaxVerify
      /\ threads[h].got.fid \in FileId \cup {NoId}
  BY <1>1, ThreadsSafe DEF SafeThread, ThreadState, Result
<1>3. new \in SafeRow
  BY <1>2, WithResultSafe, StateNames
<1>4. Transition(h, new) /\ Finish(h)
  BY DEF PersistPartial
<1> HIDE DEF new
<1> QED BY <1>3, <1>4, WriteSafe, WriteLive, FinishSafe
        DEF TypeInv, PersistPartial, world, process, budgets

LEMMA CommitsSafe ==
    ASSUME TypeInv, NEW h \in Thread, At(h, "verify"), NEW f \in FileId, Commits(h, f)
    PROVE  threads' \in [Thread -> SafeThread]
<1>1. threads[h].pc \in WorkPC /\ ~Idle(h)
  BY DEF At, WorkPC, VerifyPC, Idle
<1>2. ResultOf(f) \in Result
  BY ResultOfSafe
<1>3. CASE GotoWith(h, "committed", ResultOf(f))
  BY <1>1, <1>2, <1>3, GotoWithSafe DEF PC
<1>4. CASE Goto(h, "unavailable")
  BY <1>1, <1>4, ThreadsSafe, GotoSafe DEF PC
<1> QED BY <1>3, <1>4 DEF Commits

LEMMA VerifyReadSafe ==
    ASSUME TypeInv, NEW h \in Thread, VerifyRead(h)
    PROVE  TypeInv' /\ Live' \subseteq Live
<1>1. threads[h].pc \in WorkPC /\ ~Idle(h) /\ At(h, "verify")
  BY DEF VerifyRead, At, WorkPC, VerifyPC, Idle
<1>2. SnapOf(h) \in SafeRow
  BY ThreadsSafe
<1>3. ASSUME NEW pc \in VerifyPC, Goto(h, pc)
      PROVE  threads' \in [Thread -> SafeThread]
  <2>1. pc \in PC \ {"stored"}
    BY DEF VerifyPC, PC, ExecPC
  <2> QED BY <1>1, <1>3, <2>1, ThreadsSafe, GotoSafe
<1>4. threads' \in [Thread -> SafeThread]
  <2>1. CASE SnapOf(h).op = "Create" /\ HasResult(SnapOf(h)) /\ VerifyById(h, SnapOf(h).rid)
    <3>1. SnapOf(h).rid \in FileId
      BY <1>2, <2>1 DEF SafeRow, Row, HasResult
    <3> QED BY <1>1, <1>3, <2>1, <3>1, CommitsSafe DEF VerifyById, VerifyPC
  <2>2. CASE VerifyByName(h)
    <3>1. SoleCandidate(SnapOf(h)) \subseteq FileId
      BY DEF SoleCandidate, Candidates, Here
    <3> QED BY <1>1, <1>3, <2>2, <3>1, CommitsSafe DEF VerifyByName, VerifyPC
  <2>3. CASE SnapOf(h).op = "Update" /\ VerifyUpdate(h)
    <3>1. SnapOf(h).fid \in FileId
      BY <1>2, <2>3 DEF SafeRow
    <3> QED BY <1>1, <1>3, <2>3, <3>1, CommitsSafe DEF VerifyUpdate, VerifyPC
  <2>4. CASE Goto(h, "unavailable")
    BY <1>3, <2>4 DEF VerifyPC
  <2> QED BY <2>1, <2>2, <2>3, <2>4 DEF VerifyRead
<1>5. rows' = rows
  BY DEF VerifyRead
<1> QED BY <1>4, <1>5, SameRowsLive DEF TypeInv, VerifyRead, world, process, budgets

LEMMA VerifyCommittedSafe ==
    ASSUME TypeInv, NEW h \in Thread, VerifyCommitted(h)
    PROVE  TypeInv' /\ Live' \subseteq Live
<1>1. threads[h].pc \in WorkPC /\ threads[h].got \in Result
  BY ThreadsSafe DEF VerifyCommitted, At, WorkPC, VerifyPC, SafeThread, ThreadState
<1>2. threads' \in [Thread -> SafeThread]
  BY FinishSafe DEF VerifyCommitted
<1>3. CASE Settle(h, threads[h].got) /\ UNCHANGED faults
  BY <1>1, <1>2, <1>3, SettleSafe DEF TypeInv, VerifyCommitted, world, process
<1>4. CASE Fault /\ UNCHANGED <<rows, baseline>>
  BY <1>2, <1>4, SameRowsLive DEF TypeInv, VerifyCommitted, Fault, world, process
<1> QED BY <1>3, <1>4 DEF VerifyCommitted

LEMMA VerifyNotCommittedSafe ==
    ASSUME TypeInv, NEW h \in Thread, VerifyNotCommitted(h)
    PROVE  TypeInv' /\ Live' \subseteq Live
<1> DEFINE r == SnapOf(h)
           rounds == CountRound(r)
           w(to) == WithResult(r, to, NoId)
           next(to) == [w(to) EXCEPT !.vrf = rounds]
<1>1. threads[h].pc \in WorkPC /\ r \in SafeRow /\ r.vrf < MaxVerify
  BY ThreadsSafe DEF VerifyNotCommitted, At, WorkPC, VerifyPC
<1>2. rounds \in 0..MaxVerify
  BY <1>1, Constants DEF CountRound, SafeRow, Row
<1> HIDE DEF rounds
<1>3. ASSUME NEW to \in {Failed, RestartRequired}
      PROVE  next(to) \in SafeRow /\ next(to).vrf = rounds
  <2>1. /\ w(to) \in SafeRow /\ w(to).state \notin Blocking
        /\ ~HasResult(w(to))
    BY <1>1, <1>3, WithResultSafe, StateNames DEF HasResult
  <2> HIDE DEF w
  <2> QED BY <1>2, <2>1, RoundsSet DEF SafeRow, Row
<1> HIDE DEF next
<1>4. rows' \in [Task -> SafeRow] /\ Live' \subseteq Live
  <2>1. Transition(h, next(Failed)) \/ Transition(h, next(RestartRequired))
    BY DEF VerifyNotCommitted, next, rounds
  <2> QED BY <1>3, <2>1, WriteSafe, WriteLive
<1>5. threads' \in [Thread -> SafeThread]
  <2>1. CASE Finish(h)
    BY <2>1, FinishSafe
  <2>2. CASE /\ rounds < MaxReplay
             /\ threads' = [threads EXCEPT ![h].pc = "replay",
                                           ![h].row = next(RestartRequired)]
    <3> DEFINE q == next(RestartRequired)
               s == [[threads[h] EXCEPT !.pc = "replay"] EXCEPT !.row = q]
    <3>1. q \in SafeRow /\ q.vrf < MaxVerify
      BY <1>2, <1>3, <2>2, Constants
    <3> HIDE DEF q
    <3>2. threads[h].pc # "idle"
      BY <1>1 DEF WorkPC, RunPC, ExecPC, VerifyPC
    <3>3. s \in SafeThread
      BY <3>1, <3>2, ThreadsSafe
         DEF SafeThread, ThreadState, PC, ExecPC, WorkPC, RunPC, VerifyPC, SafeRow, Idle
    <3>4. threads' = [threads EXCEPT ![h] = s]
      BY <2>2 DEF TypeInv, q
    <3> HIDE DEF s
    <3> QED BY <3>3, <3>4 DEF TypeInv
  <2>3. rounds >= MaxReplay \/ rounds < MaxReplay
    BY <1>2, Constants
  <2> QED BY <2>1, <2>2, <2>3 DEF VerifyNotCommitted, next, rounds
<1>6. spent' \in [Task -> Spent]
  <2> DEFINE t == threads[h].id
             more == [spent[t] EXCEPT !.verdicts = @ + 1]
  <2>1. t \in Task => more \in Spent
    BY DEF TypeInv, Spent
  <2>2. spent' = [spent EXCEPT ![t] = more] \/ spent' = spent
    BY DEF VerifyNotCommitted
  <2> HIDE DEF more
  <2> QED BY <2>1, <2>2 DEF TypeInv
<1> QED BY <1>4, <1>5, <1>6 DEF TypeInv, VerifyNotCommitted, world, process, budgets

LEMMA VerifyUndecidedSafe ==
    ASSUME TypeInv, NEW h \in Thread, VerifyUndecided(h)
    PROVE  TypeInv' /\ Live' \subseteq Live
<1> DEFINE r == SnapOf(h)
           q == [r EXCEPT !.rev = r.rev + 1]
           new == [q EXCEPT !.vrf = r.vrf + 1]
<1>1. r \in SafeRow /\ r.vrf < MaxVerify /\ r.rev + 1 \in Nat /\ r.vrf \in Nat
  BY ThreadsSafe DEF VerifyUndecided, WorkPC, VerifyPC, SafeRow, Row
<1>2. CASE Reject(h, Failed)
  <2>1. Safely
    BY <1>1, <1>2, RejectSafe, StateNames
  <2> QED BY <2>1 DEF Safely, TypeInv, VerifyUndecided, world, process, budgets
<1>3. CASE ~LastVerification(r) /\ Patch(h, new) /\ Finish(h)
  <2>1. r.vrf + 1 \in 0..MaxVerify /\ r.vrf + 1 < MaxVerify
    BY <1>1, <1>3, Constants DEF LastVerification
  <2>2. q \in SafeRow
    BY <1>1, RevisionSet
  <2>3. new \in SafeRow
    <3> HIDE DEF q
    <3> QED BY <2>1, <2>2, RoundsSet
  <2> HIDE DEF new
  <2>4. rows' \in [Task -> SafeRow] /\ Live' \subseteq Live
    BY <1>3, <2>3, WriteSafe, WriteLive
  <2> QED BY <1>3, <2>4, FinishSafe DEF TypeInv, VerifyUndecided, world, process, budgets
<1>4. new = [r EXCEPT !.rev = @ + 1, !.vrf = @ + 1]
  BY <1>1 DEF SafeRow, Row
<1> QED BY <1>2, <1>3, <1>4 DEF VerifyUndecided

LEMMA ReplaySafe ==
    ASSUME TypeInv, NEW h \in Thread, Replay(h)
    PROVE  TypeInv' /\ Live' \subseteq Live
<1> DEFINE pending == Stepped(SnapOf(h), Pending)
<1>1. threads[h].pc \in WorkPC /\ SnapOf(h) \in SafeRow /\ SnapOf(h).vrf < MaxVerify
  BY ThreadsSafe DEF Replay, At, WorkPC
<1>2. pending \in SafeRow /\ pending.vrf < MaxVerify
  BY <1>1, SteppedSafe, StateNames
<1> HIDE DEF pending
<1>3. rows' \in [Task -> SafeRow] /\ Live' \subseteq Live
  BY <1>2, WriteSafe, WriteLive DEF Replay, pending
<1>4. threads' \in [Thread -> SafeThread]
  <2>1. CASE Finish(h)
    BY <2>1, FinishSafe
  <2>2. CASE threads' = [threads EXCEPT ![h].pc = "pickup", ![h].row = pending]
    <3> DEFINE s == [[threads[h] EXCEPT !.pc = "pickup"] EXCEPT !.row = pending]
    <3>1. s \in SafeThread
      BY <1>1, <1>2, ThreadsSafe, ZenonT(60)
         DEF SafeThread, ThreadState, PC, ExecPC, WorkPC, RunPC, VerifyPC, SafeRow, Idle
    <3>2. threads' = [threads EXCEPT ![h] = s]
      BY <2>2 DEF TypeInv
    <3> HIDE DEF s
    <3> QED BY <3>1, <3>2 DEF TypeInv
  <2> QED BY <2>1, <2>2 DEF Replay, pending
<1> QED BY <1>3, <1>4 DEF TypeInv, Replay, world, process, budgets

LEMMA RequeueSafe ==
    ASSUME TypeInv, NEW h \in Thread, ~Idle(h), Requeue(h)
    PROVE  Safely /\ spent' \in [Task -> Spent]
<1> DEFINE new == NewBudget(SnapOf(h))
<1>1. new \in SafeRow
  BY ThreadsSafe, NewBudgetSafe
<1>2. Transition(h, new)
  BY DEF Requeue
<1>3. threads' \in [Thread -> SafeThread]
  <2>1. CASE Finish(h)
    BY <2>1, FinishSafe
  <2>2. CASE Goto(h, "prepared")
    <3>1. "prepared" \notin WorkPC /\ "prepared" \in PC \ {"stored"}
      BY DEF WorkPC, RunPC, ExecPC, VerifyPC, PC
    <3> QED BY <2>2, <3>1, GotoSafe
  <2> QED BY <2>1, <2>2 DEF Requeue
<1>4. spent' \in [Task -> Spent]
  <2>1. NothingSpent \in Spent
    BY DEF NothingSpent, Spent
  <2> QED BY <2>1 DEF Requeue, TypeInv
<1> HIDE DEF new
<1> QED BY <1>1, <1>2, <1>3, <1>4, WriteSafe, WriteLive DEF Safely

LEMMA FailRetrySafe ==
    ASSUME TypeInv, NEW h \in Thread, FailRetry(h)
    PROVE  Safely
<1> DEFINE failed == Stepped(SnapOf(h), Failed)
<1>1. failed \in SafeRow
  BY ThreadsSafe, SteppedSafe, StateNames
<1>2. (Patch(h, failed) \/ Transition(h, failed)) /\ Finish(h)
  BY DEF FailRetry
<1> HIDE DEF failed
<1> QED BY <1>1, <1>2, WriteSafe, WriteLive, FinishSafe DEF Safely

LEMMA AcceptRetrySafe ==
    ASSUME TypeInv, NEW h \in Thread, AcceptRetry(h)
    PROVE  TypeInv' /\ Live' \subseteq Live
<1>1. ~Idle(h)
  BY DEF AcceptRetry, At, Idle
<1>2. Safely /\ spent' \in [Task -> Spent]
  <2>1. CASE Requeue(h)
    BY <1>1, <2>1, RequeueSafe
  <2>2. CASE Reject(h, RestartRequired) /\ UNCHANGED spent
    BY <2>2, RejectSafe, StateNames DEF TypeInv
  <2>3. CASE FailRetry(h) /\ UNCHANGED spent
    BY <2>3, FailRetrySafe DEF TypeInv
  <2> QED BY <2>1, <2>2, <2>3 DEF AcceptRetry
<1>3. faults' \in Nat
  <2>1. Fault \/ UNCHANGED faults
    BY DEF AcceptRetry
  <2> QED BY <2>1 DEF Fault, TypeInv
<1>4. UNCHANGED <<world, baseline, process, asks>>
  BY DEF AcceptRetry
<1> QED BY <1>2, <1>3, <1>4 DEF Safely, TypeInv, world, process

(* Runnable rows have room. *)
LEMMA RunnableRoom ==
    ASSUME TypeInv, NEW t \in Task, rows[t].state \in Blocking
    PROVE  rows[t] \in SafeRow /\ rows[t].vrf < MaxVerify
BY DEF TypeInv, SafeRow

LEMMA RunPreparedSafe ==
    ASSUME TypeInv, NEW h \in Thread, RunPrepared(h)
    PROVE  TypeInv' /\ Live' \subseteq Live
<1>1. threads[h].id \in Task
  BY ThreadsSafe DEF RunPrepared, At, Idle
<1>2. threads' \in [Thread -> SafeThread]
  <2>1. CASE Finish(h)
    BY <2>1, FinishSafe
  <2>2. CASE /\ rows[threads[h].id].state \in Runnable
             /\ Start(h, "runNow", threads[h].id, rows[threads[h].id])
    BY <1>1, <2>2, RunnableRoom, StateNames, StartSafe DEF PC
  <2> QED BY <2>1, <2>2 DEF RunPrepared
<1> QED BY <1>2, SameRowsLive DEF TypeInv, RunPrepared, world, process, budgets

LEMMA RenameRemoteSafe ==
    ASSUME TypeInv, NEW h \in Thread, RenameRemote(h)
    PROVE  TypeInv' /\ Live' \subseteq Live
<1>1. PICK f \in threads[h].todo :
          \/ /\ cloud' = [cloud EXCEPT ![f].at = "away"]
             /\ threads' = [threads EXCEPT ![h].todo = @ \ {f}]
             /\ UNCHANGED faults
          \/ Fault /\ Finish(h) /\ UNCHANGED cloud
  BY DEF RenameRemote
<1>2. f \in FileId
  BY ThreadsSafe DEF SafeThread, ThreadState
<1>3. CASE /\ cloud' = [cloud EXCEPT ![f].at = "away"]
           /\ threads' = [threads EXCEPT ![h].todo = @ \ {f}]
           /\ UNCHANGED faults
  <2>1. cloud' \in [FileId -> CloudFile]
    <3> DEFINE file == [cloud[f] EXCEPT !.at = "away"]
    <3>1. file \in CloudFile
      BY <1>2 DEF TypeInv, CloudFile
    <3>2. cloud' = [cloud EXCEPT ![f] = file]
      BY <1>3 DEF TypeInv
    <3> HIDE DEF file
    <3> QED BY <3>1, <3>2 DEF TypeInv
  <2>2. threads' \in [Thread -> SafeThread]
    <3> DEFINE s == [threads[h] EXCEPT !.todo = @ \ {f}]
    <3>1. s \in SafeThread
      BY ThreadsSafe DEF SafeThread, ThreadState
    <3>2. threads' = [threads EXCEPT ![h] = s]
      BY <1>3 DEF TypeInv
    <3> HIDE DEF s
    <3> QED BY <3>1, <3>2 DEF TypeInv
  <2> QED BY <1>3, <2>1, <2>2, SameRowsLive DEF TypeInv, RenameRemote, process
<1>4. CASE Fault /\ Finish(h) /\ UNCHANGED cloud
  BY <1>4, FinishSafe, SameRowsLive DEF TypeInv, RenameRemote, Fault, process
<1> QED BY <1>1, <1>3, <1>4

LEMMA RequeueConflictSafe ==
    ASSUME TypeInv, NEW h \in Thread, RequeueConflict(h)
    PROVE  TypeInv' /\ Live' \subseteq Live
<1>1. Safely /\ spent' \in [Task -> Spent]
  BY RequeueSafe DEF RequeueConflict, At, Idle
<1> QED BY <1>1 DEF Safely, TypeInv, RequeueConflict, world, process, budgets

LEMMA ThreadStepSafe ==
    ASSUME TypeInv, NEW h \in Thread, ThreadStep(h)
    PROVE  TypeInv' /\ Live' \subseteq Live
BY PickupRefusedSafe, AdmitSafe, PreflightSafe, GateSafe, CheckSourceSafe, CheckRemoteSafe,
   UploadCommitsSafe, UploadFailsSafe, UploadAnsweredSafe, SettleUploadSafe,
   PersistPartialSafe, VerifyReadSafe, VerifyCommittedSafe, VerifyNotCommittedSafe,
   VerifyUndecidedSafe, ReplaySafe, AcceptRetrySafe, RunPreparedSafe,
   RenameRemoteSafe, RequeueConflictSafe
   DEF ThreadStep

-----------------------------------------------------------------------------
(* The cycle's jobs, commands and the world *)

LEMMA PromoteSafe ==
    ASSUME TypeInv, NEW t \in RestartsWithResult,
           rows' = [rows EXCEPT ![t] = Stepped(rows[t], VerifyingRemote)]
    PROVE  rows' \in [Task -> SafeRow] /\ Live' \subseteq Live
<1>1. Stepped(rows[t], VerifyingRemote) \in SafeRow /\ t \in Live
  BY PromotedSafe
<1> QED BY <1>1 DEF TypeInv, Live

LEMMA OpenSafe ==
    ASSUME TypeInv, NEW h \in Thread, NEW t \in Task,
           NEW r \in SafeRow, r.vrf < MaxVerify, Open(h, t, r)
    PROVE  /\ rows' \in [Task -> SafeRow]
           /\ threads' \in [Thread -> SafeThread]
           /\ spent' \in [Task -> Spent]
           /\ faults' \in Nat /\ asks' \in Nat
           /\ Live' \subseteq Live \cup {t}
<1>1. rows' \in [Task -> SafeRow] /\ Live' \subseteq Live \cup {t}
  BY DEF TypeInv, Open, Live
<1>2. threads' \in [Thread -> SafeThread]
  BY StartSafe DEF Open, PC
<1>3. spent' \in [Task -> Spent]
  <2>1. NothingSpent \in Spent
    BY DEF NothingSpent, Spent
  <2> QED BY <2>1 DEF Open, TypeInv
<1> QED BY <1>1, <1>2, <1>3 DEF TypeInv, Open, Ask

(* An intent is a new row only where no row is live: the arbitration. *)
LEMMA EnqueueSafe ==
    ASSUME TypeInv, SingleIntent, NEW h \in Thread,
           NEW n \in Intent,
           Enqueue(h, n)
    PROVE  /\ rows' \in [Task -> SafeRow]
           /\ threads' \in [Thread -> SafeThread]
           /\ spent' \in [Task -> Spent]
           /\ faults' \in Nat /\ asks' \in Nat
           /\ SingleIntent'
<1>1. CASE \E t \in RestartsWithResult :
              /\ rows' = [rows EXCEPT ![t] = Stepped(@, VerifyingRemote)]
              /\ UNCHANGED <<threads, spent, budgets>>
  <2>1. rows' \in [Task -> SafeRow] /\ Live' \subseteq Live
    BY <1>1, PromoteSafe
  <2> QED BY <1>1, <2>1 DEF TypeInv, SingleIntent, budgets
<1>2. CASE /\ \E t \in InState(Blocking) : Start(h, "run", t, rows[t])
           /\ UNCHANGED <<rows, spent, budgets>>
  <2>1. threads' \in [Thread -> SafeThread]
    BY <1>2, RunnableRoom, StartSafe DEF InState, PC
  <2> QED BY <1>2, <2>1, SameRowsLive DEF TypeInv, SingleIntent, budgets
<1>3. ASSUME NEW t \in Task, Replannable(t), Open(h, t, Replanned(rows[t], n))
      PROVE  /\ rows' \in [Task -> SafeRow]
             /\ threads' \in [Thread -> SafeThread]
             /\ spent' \in [Task -> Spent]
             /\ faults' \in Nat /\ asks' \in Nat
             /\ SingleIntent'
  <2>1. Replanned(rows[t], n) \in SafeRow /\ Replanned(rows[t], n).vrf < MaxVerify
    BY ReplannedSafe, Constants DEF TypeInv
  <2>2. t \in Live
    BY <1>3, LiveStates, StateNames DEF Replannable
  <2> QED BY <1>3, <2>1, <2>2, OpenSafe DEF SingleIntent
<1>4. ASSUME NEW t \in Task, Insertable, Open(h, t, Fresh(n))
      PROVE  /\ rows' \in [Task -> SafeRow]
             /\ threads' \in [Thread -> SafeThread]
             /\ spent' \in [Task -> Spent]
             /\ faults' \in Nat /\ asks' \in Nat
             /\ SingleIntent'
  <2>1. Fresh(n) \in SafeRow /\ Fresh(n).vrf < MaxVerify
    BY FreshSafe, Constants
  <2>2. Live = {}
    BY <1>4, LiveStates DEF Insertable, InState, Live
  <2> QED BY <1>4, <2>1, <2>2, OpenSafe DEF SingleIntent
<1> QED BY <1>1, <1>2, <1>3, <1>4 DEF Enqueue

LEMMA PlanSafe ==
    ASSUME TypeInv, SingleIntent,
           PlanUpload \/ \E h \in Thread : UploadCommand(h)
    PROVE  TypeInv' /\ SingleIntent'
<1>1. CreateIntent(local) \in Intent
  BY DEF Intent, TypeInv, CreateIntent
<1>2. baseline.fid # NoId => UpdateIntent(local, baseline) \in Intent
  BY DEF Intent, TypeInv, UpdateIntent, Result
<1>3. PICK h \in Thread, n \in Intent : Enqueue(h, n)
  BY <1>1, <1>2, Constants DEF PlanUpload, UploadCommand
<1>4. UNCHANGED <<world, baseline, process>>
  BY DEF PlanUpload, UploadCommand
<1> QED BY <1>3, <1>4, EnqueueSafe DEF TypeInv, world, process

LEMMA RecoverStartupSafe ==
    ASSUME TypeInv, RecoverStartup
    PROVE  TypeInv' /\ Live' \subseteq Live
<1>0. startup' \in BOOLEAN /\ overtaken' \in BOOLEAN /\ UNCHANGED <<world, baseline, asks, spent>>
  BY DEF TypeInv, RecoverStartup
<1>1. CASE UNCHANGED <<rows, threads, refused, faults>>
  BY <1>0, <1>1, SameRowsLive DEF TypeInv, world
<1>2. CASE /\ \E t \in InState({Running}) :
                  rows' = [rows EXCEPT ![t] = Stepped(@, VerifyingRemote)]
           /\ UNCHANGED <<threads, refused, faults>>
  <2>1. PICK t \in InState({Running}) :
               rows' = [rows EXCEPT ![t] = Stepped(rows[t], VerifyingRemote)]
    BY <1>2
  <2>2. t \in Task /\ rows[t].state \in Blocking /\ t \in Live
    BY <2>1, StateNames, LiveStates DEF InState
  <2>3. Stepped(rows[t], VerifyingRemote) \in SafeRow
    BY <2>2, RunnableRoom, SteppedSafe, StateNames
  <2>4. rows' \in [Task -> SafeRow] /\ Live' \subseteq Live
    BY <2>1, <2>2, <2>3 DEF TypeInv, Live
  <2> QED BY <1>0, <1>2, <2>4 DEF TypeInv, world
<1>3. CASE /\ \E t \in InState({Pending}) : Start(Cycle, "run", t, rows[t])
           /\ UNCHANGED <<rows, refused, faults>>
  <2>1. PICK t \in InState({Pending}) : Start(Cycle, "run", t, rows[t])
    BY <1>3
  <2>2. t \in Task /\ rows[t].state \in Blocking
    BY <2>1, StateNames DEF InState
  <2>3. threads' \in [Thread -> SafeThread]
    BY <2>1, <2>2, RunnableRoom, StartSafe, Constants DEF PC
  <2> QED BY <1>0, <1>3, <2>3, SameRowsLive DEF TypeInv, world
<1>4. CASE /\ \E t \in InState({Pending, Running}) : Refuse(t, rows[t].rev)
           /\ UNCHANGED <<rows, threads>>
  <2>1. PICK t \in Task : Refuse(t, rows[t].rev)
    BY <1>4 DEF InState
  <2>2. rows[t].rev \in Nat
    BY DEF TypeInv, SafeRow, Row
  <2> QED BY <1>0, <1>4, <2>1, <2>2, RefuseSafe, SameRowsLive DEF TypeInv, world
<1> QED BY <1>1, <1>2, <1>3, <1>4 DEF RecoverStartup

LEMMA ResumeSafe ==
    ASSUME TypeInv, ResumeVerifying \/ ResumeWaiting \/ ResumeBackoff
    PROVE  TypeInv' /\ Live' \subseteq Live
<1>1. PICK state \in Blocking, pc \in {"pickup", "verify"} : ResumeRow(state, pc)
  BY StateNames DEF ResumeVerifying, ResumeWaiting, ResumeBackoff
<1>2. PICK t \in InState({state}) : Start(Cycle, pc, t, rows[t])
  BY <1>1 DEF ResumeRow
<1>3. t \in Task /\ rows[t] \in SafeRow /\ rows[t].vrf < MaxVerify
  BY <1>1, <1>2, RunnableRoom DEF InState
<1>4. threads' \in [Thread -> SafeThread]
  BY <1>2, <1>3, StartSafe, Constants DEF PC
<1> QED BY <1>1, <1>4, SameRowsLive DEF TypeInv, ResumeRow, world, process, budgets

(* Rows put into a state that needs no room. *)
LEMMA PutSafe ==
    ASSUME TypeInv, NEW t \in Live, NEW to \in {Canceled, Failed, RestartRequired},
           rows' = [rows EXCEPT ![t] = Stepped(rows[t], to)]
    PROVE  rows' \in [Task -> SafeRow] /\ Live' \subseteq Live
<1>1. t \in Task /\ rows[t] \in SafeRow
  BY DEF TypeInv, Live
<1>2. Stepped(rows[t], to) \in SafeRow
  BY <1>1, SteppedSafe, StateNames
<1> QED BY <1>1, <1>2 DEF TypeInv, Live

LEMMA CancelSafe ==
    ASSUME TypeInv,
           PromoteRestart \/ CancelOrphan \/ \E h \in Thread : Cancel(h) \/ KeepBoth(h)
    PROVE  TypeInv' /\ Live' \subseteq Live
<1>1. CASE PromoteRestart
  <2>1. rows' \in [Task -> SafeRow] /\ Live' \subseteq Live
    BY <1>1, PromoteSafe DEF PromoteRestart
  <2> QED BY <1>1, <2>1 DEF TypeInv, PromoteRestart, world, process, budgets
<1>2. CASE CancelOrphan \/ \E h \in Thread : Cancel(h) \/ KeepBoth(h)
  <2>1. PICK t \in InState({RestartRequired, Failed}) :
               rows' = [rows EXCEPT ![t] = Stepped(rows[t], Canceled)]
    BY <1>2 DEF CancelOrphan, Cancel, KeepBoth, NameConflicts, InState
  <2>2. t \in Live
    BY <2>1, LiveStates DEF InState
  <2>3. rows' \in [Task -> SafeRow] /\ Live' \subseteq Live
    BY <2>1, <2>2, PutSafe
  <2>4. CASE CancelOrphan
    BY <2>3, <2>4 DEF TypeInv, CancelOrphan, world, process, budgets
  <2>5. CASE \E h \in Thread : Cancel(h)
    BY <2>3, <2>5 DEF TypeInv, Cancel, world, process, budgets
  <2>6. CASE \E h \in Thread : KeepBoth(h)
    BY <2>3, <2>6 DEF TypeInv, KeepBoth, budgets, process
  <2> QED BY <1>2, <2>4, <2>5, <2>6
<1> QED BY <1>1, <1>2

LEMMA RetrySafe ==
    ASSUME TypeInv, RetryFailed \/ \E h \in Thread : RetryTransfer(h)
    PROVE  TypeInv' /\ Live' \subseteq Live
<1>1. PICK h \in Thread, t \in InState({Failed, RestartRequired}) : PrepareRetry(h, t)
  BY Constants DEF RetryFailed, RetryTransfer, InState
<1>2. t \in Task /\ t \in Live
  BY <1>1, LiveStates DEF InState
<1>3. CASE /\ \E to \in {Failed, RestartRequired} : rows' = [rows EXCEPT ![t] = Stepped(rows[t], to)]
           /\ UNCHANGED threads
  <2>1. rows' \in [Task -> SafeRow] /\ Live' \subseteq Live
    BY <1>2, <1>3, PutSafe
  <2>2. asks' \in Nat /\ UNCHANGED <<world, baseline, process, faults, spent>>
    BY <1>1 DEF TypeInv, PrepareRetry, Ask
  <2> QED BY <1>3, <2>1, <2>2 DEF TypeInv, world, process
<1>4. CASE UNCHANGED <<rows, threads>>
  BY <1>1, <1>4, SameRowsLive DEF TypeInv, PrepareRetry, Ask, world, process
<1>5. CASE Start(h, "retry", t, rows[t]) /\ UNCHANGED rows
  <2>1. "retry" \notin WorkPC /\ "retry" \in PC \ {"idle", "stored"}
    BY DEF WorkPC, RunPC, ExecPC, VerifyPC, PC
  <2>2. threads' \in [Thread -> SafeThread]
    BY <1>2, <1>5, <2>1, StartSafe DEF TypeInv
  <2> QED BY <1>1, <1>5, <2>2, SameRowsLive DEF TypeInv, PrepareRetry, Ask, world, process
<1> QED BY <1>1, <1>3, <1>4, <1>5 DEF PrepareRetry

LEMMA OverwriteSafe ==
    ASSUME TypeInv, NEW h \in Thread, Overwrite(h)
    PROVE  TypeInv' /\ Live' \subseteq Live
<1>1. PICK t \in NameConflicts :
          threads' = [threads EXCEPT ![h] =
             [pc |-> "overwrite", id |-> t, row |-> rows[t], got |-> NoResult, todo |-> Here]]
  BY DEF Overwrite
<1>2. t \in Task
  BY DEF NameConflicts, InState
<1>3. [pc |-> "overwrite", id |-> t, row |-> rows[t], got |-> NoResult, todo |-> Here] \in SafeThread
  BY <1>2 DEF TypeInv, SafeThread, SafeRow, ThreadState, PC, ExecPC, WorkPC, RunPC, VerifyPC,
              NoResult, Result, Here
<1>4. threads' \in [Thread -> SafeThread]
  BY <1>1, <1>3 DEF TypeInv
<1> QED BY <1>4, SameRowsLive DEF TypeInv, Overwrite, Ask, world, process

LEMMA ClearHistorySafe ==
    ASSUME TypeInv, NEW h \in Thread, ClearHistory(h)
    PROVE  TypeInv' /\ Live' \subseteq Live
<1>1. PICK S : rows' = [t \in Task |-> IF rows[t].state \in S
                                       THEN [BlankRow EXCEPT !.state = "cleared"] ELSE rows[t]]
  BY DEF ClearHistory
<1>2. rows' \in [Task -> SafeRow]
  BY <1>1, BlankSafe DEF TypeInv
<1>3. [BlankRow EXCEPT !.state = "cleared"].state = "cleared"
  BY DEF BlankRow
<1>4. Live' \subseteq Live
  BY <1>1, <1>3, StateNames DEF Live
<1> QED BY <1>2, <1>4 DEF TypeInv, ClearHistory, world, process, budgets

LEMMA WorldSafe ==
    ASSUME TypeInv, World
    PROVE  TypeInv' /\ Live' \subseteq Live
<1>1. CASE LocalEdit
  BY <1>1, SameRowsLive DEF TypeInv, LocalEdit, NewContent, budgets, process
<1>2. CASE LocalDelete
  BY <1>2, SameRowsLive DEF TypeInv, LocalDelete, Fault, process
<1>3. CASE ForeignWrite
  <2>1. PICK f \in Here \cup (IF Unused = {} THEN {} ELSE {NewFile}) :
               Store(f, [cloud[f] EXCEPT !.at = "here", !.ver = contents', !.ed = @ + 1])
    BY <1>3 DEF ForeignWrite
  <2>2. f \in FileId
    BY <2>1, NewFileUnused DEF Here
  <2>3. contents' \in Nat
    BY <1>3 DEF ForeignWrite, NewContent, TypeInv, process
  <2>4. [cloud[f] EXCEPT !.at = "here", !.ver = contents', !.ed = @ + 1] \in CloudFile
    <3>1. cloud[f] \in CloudFile /\ cloud[f].ed + 1 \in Nat
      BY <2>2 DEF TypeInv, CloudFile
    <3>2. \A c \in CloudFile, v, e \in Nat :
             [c EXCEPT !.at = "here", !.ver = v, !.ed = e] \in CloudFile
      BY DEF CloudFile
    <3> QED BY <2>3, <3>1, <3>2
  <2>5. cloud' \in [FileId -> CloudFile] /\ history' \subseteq Result
    BY <2>1, <2>2, <2>4, StoreSafe
  <2> QED BY <1>3, <2>3, <2>5, SameRowsLive DEF TypeInv, ForeignWrite, budgets, process
<1>4. CASE ForeignRemove
  <2>1. PICK f \in Here : cloud' = [cloud EXCEPT ![f].at = "away"]
    BY <1>4 DEF ForeignRemove
  <2> DEFINE file == [cloud[f] EXCEPT !.at = "away"]
  <2>2. f \in FileId /\ file \in CloudFile
    BY DEF Here, TypeInv, CloudFile
  <2>3. cloud' = [cloud EXCEPT ![f] = file]
    BY <2>1, <2>2 DEF TypeInv
  <2> HIDE DEF file
  <2>4. cloud' \in [FileId -> CloudFile]
    BY <2>2, <2>3 DEF TypeInv
  <2> QED BY <1>4, <2>4, SameRowsLive DEF TypeInv, ForeignRemove, Fault, process
<1>5. CASE NetworkDown
  <2>1. faults' \in Nat /\ online' = FALSE
    BY <1>5 DEF NetworkDown, Fault, TypeInv, process
  <2> QED BY <1>5, <2>1, SameRowsLive DEF TypeInv, NetworkDown, process
<1>6. CASE NetworkUp
  BY <1>6, SameRowsLive DEF TypeInv, NetworkUp, budgets, process
<1>7. CASE Crash
  <2>1. threads' \in [Thread -> SafeThread]
    BY <1>7, IdleSafe DEF Crash
  <2> QED BY <1>7, <2>1, SameRowsLive DEF TypeInv, Crash, Fault, world, process
<1> QED BY <1>1, <1>2, <1>3, <1>4, <1>5, <1>6, <1>7 DEF World

-----------------------------------------------------------------------------
(* The first invariant *)

LEMMA InitSafe == Init => TypeInv /\ SingleIntent
<1> SUFFICES ASSUME Init PROVE TypeInv /\ SingleIntent
  OBVIOUS
<1>1. rows \in [Task -> SafeRow] /\ Live = {}
  BY BlankSafe, StateNames DEF Init, Live, BlankRow
<1>2. threads \in [Thread -> SafeThread]
  BY IdleSafe DEF Init
<1>3. cloud \in [FileId -> CloudFile]
  BY DEF Init, CloudFile
<1>4. spent \in [Task -> Spent] /\ baseline \in Result /\ history \subseteq Result
  BY DEF Init, Spent, NothingSpent, Result, NoResult
<1> QED BY <1>1, <1>2, <1>3, <1>4 DEF Init, TypeInv, SingleIntent

LEMMA NextSafe == TypeInv /\ SingleIntent /\ [Next]_vars => TypeInv' /\ SingleIntent'
<1> SUFFICES ASSUME TypeInv, SingleIntent, [Next]_vars PROVE TypeInv' /\ SingleIntent'
  OBVIOUS
<1>1. CASE PlanUpload \/ \E h \in Thread : UploadCommand(h)
  BY <1>1, PlanSafe
<1>2. CASE TypeInv' /\ Live' \subseteq Live
  BY <1>2 DEF SingleIntent
<1>3. CASE CycleJob /\ ~PlanUpload
  BY <1>2, <1>3, RecoverStartupSafe, ResumeSafe, CancelSafe, RetrySafe DEF CycleJob
<1>4. CASE World
  BY <1>2, <1>4, WorldSafe
<1>5. ASSUME NEW h \in Thread, ThreadStep(h) \/ Command(h)
      PROVE  TypeInv' /\ SingleIntent'
  BY <1>1, <1>2, <1>5, ThreadStepSafe, RetrySafe, CancelSafe, OverwriteSafe, ClearHistorySafe
     DEF Command
<1>6. CASE UNCHANGED vars
  BY <1>6 DEF vars, TypeInv, SingleIntent, Live
<1> QED BY <1>1, <1>3, <1>4, <1>5, <1>6 DEF Next

(* SafeRow and SafeThread are types with more in them. *)
LEMMA TypesFollow == TypeInv => TypeOK
<1>1. SafeRow \subseteq Row /\ SafeThread \subseteq ThreadState
  BY DEF SafeRow, SafeThread
<1> QED BY <1>1 DEF TypeInv, TypeOK

THEOREM Safe == Spec => [](TypeInv /\ SingleIntent)
BY InitSafe, NextSafe, PTL DEF Spec

(* Every reachable state is well typed; in particular attempts and          *)
(* verifications never exceed their limits, and no row that may be verified *)
(* again has used its last verification.                                    *)
THEOREM TypeCorrect == Spec => []TypeOK
BY Safe, TypesFollow, PTL

(* At most one row of a path can still act, for any number of threads,      *)
(* commands, crashes and faults, even when commands run before start-up     *)
(* recovery has.                                                            *)
THEOREM OneIntent == Spec => []SingleIntent
BY Safe, PTL

-----------------------------------------------------------------------------
(* Snapshots and execution.  Every step is one of a single thread, if not a *)
(* crash or recovery: it moves rows forward, leaves Running rows to the     *)
(* thread that holds them, and leaves its own thread with a snapshot that   *)
(* agrees.                                                                  *)

Grows(r, q) ==
    \/ q = r
    \/ r.state = "absent"
    \/ r.state \in State /\ q.state = "cleared"
    \/ r.state \in State /\ q.state \in State /\ q.rev > r.rev

Fits(s) == s.pc # "idle" => /\ s.row.state \in SnapshotStates(s.pc)
                            /\ Agrees(s, rows[s.id])

StepOf(h) ==
    /\ \A t \in Task : Grows(rows[t], rows'[t])
    /\ \A t \in Task : rows[t].state = Running =>
          rows'[t] = rows[t] \/ (Holds(h) /\ t = threads[h].id)
    /\ \A k \in Thread \ {h} : threads'[k] = threads[k]
    /\ Fits(threads[h])'
    /\ Holds(h)' => Holds(h) \/ \A k \in Thread : ~Holds(k)
    /\ InExec(h)' => Owns(h)' \/ (InExec(h) /\ ~Owns(h))

LEMMA SnapshotStatesAt ==
    /\ \A pc \in RunPC : SnapshotStates(pc) = Runnable
    /\ \A pc \in ExecPC : SnapshotStates(pc) = {Running}
    /\ \A pc \in VerifyPC : SnapshotStates(pc) = {VerifyingRemote}
    /\ SnapshotStates("replay") = {RestartRequired}
    /\ SnapshotStates("retry") = {Failed, RestartRequired}
    /\ SnapshotStates("overwrite") = {Failed, RestartRequired}
    /\ SnapshotStates("prepared") = State \cup {"absent"}
BY DEF SnapshotStates, RunPC, ExecPC, VerifyPC

(* Only a thread that executes has a snapshot of a Running row. *)
LEMMA RunningIsExecuted ==
    ASSUME NEW pc \in PC \ {"idle", "prepared"}, Running \in SnapshotStates(pc)
    PROVE  pc \in ExecPC
BY SnapshotStatesAt
   DEF PC, RunPC, ExecPC, VerifyPC, Runnable, Pending, Running, WaitingForNetwork,
       BackingOff, VerifyingRemote, RestartRequired, Failed

LEMMA RowTypes ==
    ASSUME TypeInv
    PROVE  /\ \A t \in Task : rows[t] \in Row /\ rows[t].rev \in Nat
           /\ \A h \in Thread : /\ SnapOf(h) \in Row /\ SnapOf(h).rev \in Nat
                                 /\ threads[h].pc \in PC
BY DEF TypeInv, SafeRow, Row, SafeThread, ThreadState, SnapOf

(* A row that moves forward leaves the snapshots of it behind. *)
LEMMA AgreesKept ==
    ASSUME NEW s, NEW r \in Row, NEW q \in Row, s.row.rev \in Nat,
           Agrees(s, r), Grows(r, q)
    PROVE  Agrees(s, q)
<1>1. r.rev \in Nat /\ q.rev \in Nat
  BY DEF Row
<1> QED BY <1>1, StateNames DEF Agrees, Grows

(* Nor can a thread come to hold a row without a step of its own. *)
LEMMA HoldsBack ==
    ASSUME TypeInv, TypeInv', Snapshots, NEW k \in Thread, threads'[k] = threads[k],
           \A t \in Task : Grows(rows[t], rows'[t]),
           Holds(k)'
    PROVE  Holds(k)
<1> DEFINE t == threads[k].id
<1>1. InExec(k) /\ threads[k].pc # "idle" /\ threads[k].pc # "prepared"
  BY DEF Holds, InExec, ExecPC
<1>2. t \in Task /\ Agrees(threads[k], rows[t]) /\ Grows(rows[t], rows'[t])
  BY <1>1, ThreadsSafe DEF Snapshots, Idle
<1>3. rows'[t].state = Running /\ rows'[t].rev = threads[k].row.rev
  BY DEF Holds, Owns, SnapOf
<1>4. threads[k].row.rev \in Nat /\ rows[t].rev \in Nat /\ rows'[t].rev \in Nat
  BY <1>2, RowTypes DEF SnapOf, TypeInv, SafeRow, Row
<1>5. rows'[t] = rows[t]
  BY <1>1, <1>2, <1>3, <1>4, StateNames DEF Agrees, Grows
<1> QED BY <1>1, <1>3, <1>5 DEF Holds, Owns, SnapOf

LEMMA StepOfKeeps ==
    ASSUME TypeInv, TypeInv', Snapshots, Execution, NEW h \in Thread, StepOf(h),
           overtaken => overtaken'
    PROVE  Snapshots' /\ Execution'
<1>1. ASSUME NEW k \in Thread, k # h
      PROVE  Fits(threads[k])'
  <2>1. threads'[k] = threads[k]
    BY <1>1 DEF StepOf
  <2>2. ASSUME threads[k].pc # "idle"
        PROVE  Agrees(threads[k], rows'[threads[k].id])
    <3>1. threads[k].id \in Task /\ Agrees(threads[k], rows[threads[k].id])
      BY <2>2, ThreadsSafe DEF Snapshots, Idle
    <3>2. threads[k].row.rev \in Nat
      BY RowTypes DEF SnapOf
    <3>3. rows[threads[k].id] \in Row /\ rows'[threads[k].id] \in Row
      BY <3>1 DEF TypeInv, SafeRow
    <3>4. Grows(rows[threads[k].id], rows'[threads[k].id])
      BY <3>1 DEF StepOf
    <3> QED BY <3>1, <3>2, <3>3, <3>4, AgreesKept
  <2> QED BY <2>1, <2>2 DEF Fits, Snapshots, SnapOf
<1>2. Snapshots'
  BY <1>1 DEF StepOf, Fits, Snapshots, SnapOf
<1>3. ASSUME NEW k \in Thread, k # h, Holds(k)'
      PROVE  Holds(k) /\ ~Holds(h)'
  <2>1. Holds(k)
    BY <1>3, HoldsBack DEF StepOf
  <2>2. ~Holds(h)
    BY <1>3, <2>1 DEF Execution
  <2> QED BY <2>1, <2>2 DEF StepOf
<1>4. \A j, k \in Thread : Holds(j)' /\ Holds(k)' => j = k
  <2> SUFFICES ASSUME NEW j \in Thread, NEW k \in Thread, Holds(j)', Holds(k)'
               PROVE  j = k
    OBVIOUS
  <2>1. CASE j # h /\ k # h
    BY <1>3, <2>1 DEF Execution
  <2>2. CASE j = h \/ k = h
    BY <1>3, <2>2
  <2> QED BY <2>1, <2>2
<1>5. ASSUME ~overtaken', NEW k \in Thread, InExec(k)'
      PROVE  Owns(k)'
  <2>1. \A j \in Thread : InExec(j) => Owns(j)
    BY <1>5 DEF Execution
  <2>2. CASE k = h
    BY <1>5, <2>1, <2>2 DEF StepOf
  <2>3. CASE k # h
    <3>1. threads'[k] = threads[k] /\ InExec(k) /\ Owns(k)
      BY <1>5, <2>1, <2>3 DEF StepOf, InExec
    <3>2. ~Holds(h) /\ threads[k].id \in Task /\ rows[threads[k].id].state = Running
      BY <2>3, <3>1, ThreadsSafe DEF Execution, Holds, Owns, InExec, Idle, ExecPC
    <3>3. rows'[threads[k].id] = rows[threads[k].id]
      BY <3>2 DEF StepOf
    <3> QED BY <3>1, <3>3 DEF Owns, SnapOf
  <2> QED BY <2>2, <2>3
<1> QED BY <1>2, <1>4, <1>5 DEF Execution

(* A write moves the row one revision on, and only its holder changes a     *)
(* Running row.                                                             *)
LEMMA WriteGrows ==
    ASSUME TypeInv, Snapshots, NEW h \in Thread, ~Idle(h), ~At(h, "prepared"),
           NEW new \in SafeRow, new.state \in State, new.rev = SnapOf(h).rev + 1,
           Transition(h, new) \/ Patch(h, new)
    PROVE  /\ \A t \in Task : Grows(rows[t], rows'[t])
           /\ \A t \in Task : rows[t].state = Running =>
                 rows'[t] = rows[t] \/ (Holds(h) /\ t = threads[h].id)
<1> SUFFICES ASSUME NEW t \in Task, rows'[t] # rows[t]
             PROVE  /\ Grows(rows[t], rows'[t])
                    /\ rows[t].state = Running => Holds(h) /\ t = threads[h].id
  BY DEF Grows
<1>1. t = threads[h].id /\ rows'[t] = new /\ Current(h)
  BY DEF TypeInv, Transition, Accepted, Patch
<1>2. rows[t].state \in State /\ rows[t].rev = SnapOf(h).rev
  BY <1>1 DEF Current
<1>3. Grows(rows[t], rows'[t])
  BY <1>1, <1>2, RowTypes DEF Grows
<1>4. ASSUME rows[t].state = Running
      PROVE  Holds(h)
  <2>1. SnapOf(h).state = Running /\ Running \in SnapshotStates(threads[h].pc)
    BY <1>1, <1>2, <1>4 DEF Snapshots, Agrees, Idle, At, SnapOf
  <2>2. InExec(h)
    BY <2>1, RowTypes, RunningIsExecuted DEF InExec, Idle, At
  <2> QED BY <1>1, <1>2, <1>4, <2>2 DEF Holds, Owns
<1> QED BY <1>1, <1>3, <1>4

LEMMA WriteAndFinish ==
    ASSUME TypeInv, Snapshots, NEW h \in Thread, ~Idle(h), ~At(h, "prepared"),
           NEW new \in SafeRow, new.state \in State, new.rev = SnapOf(h).rev + 1,
           Transition(h, new) \/ Patch(h, new),
           Finish(h)
    PROVE  StepOf(h)
<1>1. /\ \A k \in Thread \ {h} : threads'[k] = threads[k]
      /\ threads'[h] = IdleThread
  BY DEF TypeInv, Finish
<1>2. Fits(threads[h])' /\ ~InExec(h)'
  BY <1>1 DEF Fits, IdleThread, InExec, ExecPC
<1> QED BY <1>1, <1>2, WriteGrows DEF StepOf, Holds

LEMMA WriteAndGoOn ==
    ASSUME TypeInv, Snapshots, NEW h \in Thread, ~Idle(h), ~At(h, "prepared"),
           NEW new \in SafeRow, new.state \in State, new.rev = SnapOf(h).rev + 1,
           Transition(h, new), Accepted(h, new),
           NEW pc \in PC \ {"idle", "prepared"}, new.state \in SnapshotStates(pc),
           pc \in ExecPC => \A k \in Thread : ~Holds(k),
           threads' = [threads EXCEPT ![h].pc = pc, ![h].row = new]
    PROVE  StepOf(h)
<1> DEFINE t == threads[h].id
<1>1. t \in Task
  BY ThreadsSafe
<1>2. rows'[t] = new
  BY <1>1 DEF TypeInv, Transition
<1>3. \A k \in Thread \ {h} : threads'[k] = threads[k]
  BY DEF TypeInv
<1>4. threads'[h].pc = pc /\ threads'[h].row = new /\ threads'[h].id = t
  <2>1. threads'[h] = [[threads[h] EXCEPT !.pc = pc] EXCEPT !.row = new]
    BY DEF TypeInv
  <2> QED BY <2>1, ThreadsSafe DEF SafeThread, ThreadState
<1>5. new.rev \in Nat /\ new.state # "absent"
  BY StateNames DEF SafeRow, Row
<1>6. Fits(threads[h])'
  BY <1>2, <1>4, <1>5 DEF Fits, Agrees
<1>7. InExec(h)' => Owns(h)' /\ \A k \in Thread : ~Holds(k)
  <2> SUFFICES ASSUME pc \in ExecPC PROVE Owns(h)' /\ \A k \in Thread : ~Holds(k)
    BY <1>4 DEF InExec
  <2>1. new.state = Running
    BY SnapshotStatesAt
  <2> QED BY <1>2, <1>4, <2>1 DEF Owns, SnapOf
<1> QED BY <1>3, <1>6, <1>7, WriteGrows DEF StepOf, Holds

(* A thread that goes on with its snapshot. *)
LEMMA MoveStep ==
    ASSUME TypeInv, Snapshots, NEW h \in Thread, ~Idle(h), ~At(h, "prepared"),
           rows' = rows,
           \A k \in Thread \ {h} : threads'[k] = threads[k],
           threads'[h].row = SnapOf(h), threads'[h].id = threads[h].id,
           SnapOf(h).state \in SnapshotStates(threads'[h].pc),
           threads'[h].pc \in ExecPC => InExec(h)
    PROVE  StepOf(h)
<1>1. \A t \in Task : Grows(rows[t], rows'[t])
  BY DEF Grows
<1>2. Agrees(threads[h], rows[threads[h].id])
  BY DEF Snapshots, Idle
<1>3. Fits(threads[h])'
  BY <1>2 DEF Fits, Agrees, At, SnapOf
<1>4. (InExec(h)' => InExec(h)) /\ (Owns(h)' <=> Owns(h))
  BY DEF InExec, Owns, SnapOf
<1> QED BY <1>1, <1>3, <1>4 DEF StepOf, Holds

LEMMA GotoStep ==
    ASSUME TypeInv, Snapshots, NEW h \in Thread, ~Idle(h), ~At(h, "prepared"),
           rows' = rows, NEW pc \in PC, NEW got,
           Goto(h, pc) \/ GotoWith(h, pc, got),
           SnapOf(h).state \in SnapshotStates(pc),
           pc \in ExecPC => InExec(h)
    PROVE  StepOf(h)
<1>1. /\ \A k \in Thread \ {h} : threads'[k] = threads[k]
      /\ threads'[h].pc = pc /\ threads'[h].row = SnapOf(h) /\ threads'[h].id = threads[h].id
  <2>1. CASE Goto(h, pc)
    <3>1. threads'[h] = [threads[h] EXCEPT !.pc = pc] /\ \A k \in Thread \ {h} : threads'[k] = threads[k]
      BY <2>1 DEF TypeInv, Goto
    <3> QED BY <3>1, ThreadsSafe DEF SafeThread, ThreadState, SnapOf
  <2>2. CASE GotoWith(h, pc, got)
    <3>1. /\ threads'[h] = [[threads[h] EXCEPT !.pc = pc] EXCEPT !.got = got]
          /\ \A k \in Thread \ {h} : threads'[k] = threads[k]
      BY <2>2 DEF TypeInv, GotoWith
    <3> QED BY <3>1, ThreadsSafe DEF SafeThread, ThreadState, SnapOf
  <2> QED BY <2>1, <2>2
<1> QED BY <1>1, MoveStep

LEMMA FinishStep ==
    ASSUME TypeInv, NEW h \in Thread, Finish(h), rows' = rows
    PROVE  StepOf(h)
<1>1. /\ \A k \in Thread \ {h} : threads'[k] = threads[k]
      /\ threads'[h] = IdleThread
  BY DEF TypeInv, Finish
<1>2. Fits(threads[h])' /\ ~InExec(h)'
  BY <1>1 DEF Fits, IdleThread, InExec, ExecPC
<1> QED BY <1>1, <1>2 DEF StepOf, Holds, Grows

(* A thread that starts with a row of the database. *)
LEMMA StartStep ==
    ASSUME TypeInv, NEW h \in Thread, NEW t \in Task, NEW r \in SafeRow,
           NEW pc \in PC \ ExecPC, pc # "idle",
           Start(h, pc, t, r), rows'[t] = r, r.state # "absent",
           r.state \in SnapshotStates(pc),
           \A u \in Task : Grows(rows[u], rows'[u]),
           \A u \in Task : rows[u].state = Running => rows'[u] = rows[u]
    PROVE  StepOf(h)
<1>1. /\ \A k \in Thread \ {h} : threads'[k] = threads[k]
      /\ threads'[h].pc = pc /\ threads'[h].row = r /\ threads'[h].id = t
  <2>1. /\ threads'[h] = [IdleThread EXCEPT !.pc = pc, !.id = t, !.row = r]
        /\ \A k \in Thread \ {h} : threads'[k] = threads[k]
    BY DEF TypeInv, Start
  <2> QED BY <2>1 DEF IdleThread
<1>2. r.rev \in Nat
  BY DEF SafeRow, Row
<1>3. Fits(threads[h])'
  BY <1>1, <1>2 DEF Fits, Agrees
<1>4. ~InExec(h)'
  BY <1>1 DEF InExec
<1> QED BY <1>1, <1>3, <1>4 DEF StepOf, Holds

(* Rows that move on under nobody's snapshot. *)
LEMMA RowsMove ==
    ASSUME TypeInv, TypeInv', Snapshots, threads' = threads,
           \A t \in Task : Grows(rows[t], rows'[t]),
           NEW h \in Thread
    PROVE  Fits(threads[h])' /\ (Holds(h)' => Holds(h))
<1>1. ASSUME ~Idle(h)
      PROVE  Agrees(threads[h], rows'[threads[h].id])
  <2>1. threads[h].id \in Task /\ Agrees(threads[h], rows[threads[h].id])
    BY <1>1, ThreadsSafe DEF Snapshots, Idle
  <2>2. threads[h].row.rev \in Nat
    BY RowTypes DEF SnapOf
  <2>3. rows[threads[h].id] \in Row /\ rows'[threads[h].id] \in Row
    BY <2>1 DEF TypeInv, SafeRow
  <2> QED BY <2>1, <2>2, <2>3, AgreesKept
<1>2. Fits(threads[h])'
  BY <1>1 DEF Fits, Snapshots, Idle, SnapOf
<1> QED BY <1>2, HoldsBack

LEMMA RowsStep ==
    ASSUME TypeInv, TypeInv', Snapshots, NEW h \in Thread, threads' = threads,
           \A t \in Task : Grows(rows[t], rows'[t]),
           \A t \in Task : rows[t].state = Running => rows'[t] = rows[t]
    PROVE  StepOf(h)
<1>1. Fits(threads[h])' /\ (Holds(h)' => Holds(h))
  BY RowsMove
<1>2. ASSUME InExec(h)', Owns(h)
      PROVE  Owns(h)'
  <2>1. threads[h].id \in Task /\ rows[threads[h].id].state = Running
    BY <1>2, ThreadsSafe DEF Owns, InExec, Idle, ExecPC
  <2> QED BY <1>2, <2>1 DEF Owns, SnapOf
<1> QED BY <1>1, <1>2 DEF StepOf, InExec

LEMMA FinishRowsStep ==
    ASSUME TypeInv, NEW h \in Thread, Finish(h),
           \A t \in Task : Grows(rows[t], rows'[t]),
           \A t \in Task : rows[t].state = Running => rows'[t] = rows[t]
    PROVE  StepOf(h)
<1>1. /\ \A k \in Thread \ {h} : threads'[k] = threads[k]
      /\ threads'[h] = IdleThread
  BY DEF TypeInv, Finish
<1>2. Fits(threads[h])' /\ ~InExec(h)'
  BY <1>1 DEF Fits, IdleThread, InExec, ExecPC
<1> QED BY <1>1, <1>2 DEF StepOf, Holds

-----------------------------------------------------------------------------
(* Every step of a thread is one *)

LEMMA DistinctStates ==
    /\ Running \in State
    /\ Running \notin Runnable \cup {Pending, VerifyingRemote, RestartRequired, Failed,
                                    Completed, Canceled}
    /\ ~CanTransition(Running, Running)
BY DEF State, Runnable, CanTransition, Successors, Pending, Running, WaitingForNetwork,
       BackingOff, VerifyingRemote, RestartRequired, Completed, Failed, Canceled

LEMMA SnapshotAt ==
    ASSUME IInv, NEW h \in Thread
    PROVE  /\ threads[h].pc \in RunPC => SnapOf(h).state \in Runnable
           /\ threads[h].pc \in ExecPC => SnapOf(h).state = Running
           /\ threads[h].pc \in VerifyPC => SnapOf(h).state = VerifyingRemote
           /\ At(h, "replay") => SnapOf(h).state = RestartRequired
<1>1. threads[h].pc # "idle" => SnapOf(h).state \in SnapshotStates(threads[h].pc)
  BY DEF IInv, Snapshots
<1>2. threads[h].pc \in RunPC \cup ExecPC \cup VerifyPC \cup {"replay"} => threads[h].pc # "idle"
  BY DEF RunPC, ExecPC, VerifyPC
<1> QED BY <1>1, <1>2, SnapshotStatesAt DEF At

(* A thread that goes from one place of a phase to another. *)
LEMMA PhaseStep ==
    ASSUME IInv, NEW h \in Thread, NEW P \in {RunPC, ExecPC, VerifyPC},
           threads[h].pc \in P, NEW pc \in P, rows' = rows,
           NEW got, Goto(h, pc) \/ GotoWith(h, pc, got)
    PROVE  StepOf(h)
<1>1. pc \in PC /\ ~Idle(h) /\ ~At(h, "prepared") /\ (pc \in ExecPC => InExec(h))
  BY DEF PC, RunPC, ExecPC, VerifyPC, Idle, At, InExec
<1>2. SnapOf(h).state \in SnapshotStates(pc)
  BY SnapshotAt, SnapshotStatesAt
<1> QED BY <1>1, <1>2, GotoStep DEF IInv

LEMMA RejectStep ==
    ASSUME IInv, NEW h \in Thread, ~Idle(h), ~At(h, "prepared"), NEW to \in State,
           to \in Blocking => SnapOf(h).vrf < MaxVerify,
           Reject(h, to)
    PROVE  StepOf(h)
<1> DEFINE new == Stepped(SnapOf(h), to)
<1>1. new \in SafeRow /\ new.state \in State /\ new.rev = SnapOf(h).rev + 1
  BY ThreadsSafe, SteppedSafe DEF IInv
<1>2. Transition(h, new) /\ Finish(h)
  BY DEF Reject
<1> HIDE DEF new
<1> QED BY <1>1, <1>2, WriteAndFinish DEF IInv

LEMMA SettleErrorStep ==
    ASSUME IInv, NEW h \in Thread, threads[h].pc \in WorkPC, NEW e, SettleError(h, e)
    PROVE  StepOf(h)
<1> DEFINE r == SnapOf(h)
           d == Classify(e, r.op, r.att)
           q == Stepped(r, TargetOf(d))
           new == [q EXCEPT !.att = IF d.consumesBudget THEN @ + 1 ELSE @]
<1>1. r \in SafeRow /\ r.vrf < MaxVerify /\ r.att \in 0..MaxAttempts
  BY ThreadsSafe DEF IInv, SafeRow, Row
<1>2. q \in SafeRow /\ q.att = r.att /\ q.state \in State /\ q.rev = r.rev + 1
  BY <1>1, SteppedSafe, TargetStates
<1>3. (IF d.consumesBudget THEN q.att + 1 ELSE q.att) \in 0..MaxAttempts
  BY <1>1, <1>2, BudgetKept, Constants
<1>4. new \in SafeRow /\ new.state \in State /\ new.rev = r.rev + 1
  <2> HIDE DEF q, d
  <2>1. new.state = q.state /\ new.rev = q.rev
    BY <1>2 DEF SafeRow, Row
  <2> QED BY <1>2, <1>3, <2>1, AttemptsSet
<1>5. Transition(h, new) /\ Finish(h)
  BY DEF SettleError
<1>6. ~Idle(h) /\ ~At(h, "prepared")
  BY DEF WorkPC, RunPC, ExecPC, VerifyPC, Idle, At
<1> HIDE DEF new
<1> QED BY <1>4, <1>5, <1>6, WriteAndFinish DEF IInv

LEMMA PickupRefusedStep ==
    ASSUME IInv, NEW h \in Thread, PickupRefused(h)
    PROVE  StepOf(h)
BY FinishStep DEF PickupRefused, IInv

LEMMA AdmitStep ==
    ASSUME IInv, NEW h \in Thread, Admit(h)
    PROVE  StepOf(h)
<1>1. threads[h].pc \in RunPC /\ threads[h].pc \in WorkPC /\ ~Idle(h) /\ ~At(h, "prepared")
  BY DEF Admit, WorkPC, RunPC, Idle, At
<1>2. SnapOf(h).vrf < MaxVerify
  BY <1>1, ThreadsSafe DEF IInv
<1>3. CASE Reject(h, Failed) \/ Reject(h, RestartRequired) \/ Reject(h, WaitingForNetwork)
  BY <1>1, <1>2, <1>3, RejectStep, StateNames
<1>4. CASE Finish(h) /\ UNCHANGED rows
  BY <1>4, FinishStep DEF IInv
<1>5. CASE (Goto(h, "preflight") \/ Goto(h, "gate")) /\ UNCHANGED rows
  <2>1. "preflight" \in RunPC /\ "gate" \in RunPC
    BY DEF RunPC
  <2> QED BY <1>1, <1>5, <2>1, PhaseStep
<1> QED BY <1>3, <1>4, <1>5 DEF Admit

LEMMA PreflightStep ==
    ASSUME IInv, NEW h \in Thread, Preflight(h)
    PROVE  StepOf(h)
<1>1. threads[h].pc \in RunPC /\ threads[h].pc \in WorkPC /\ ~Idle(h) /\ ~At(h, "prepared")
  BY DEF Preflight, WorkPC, RunPC, Idle, At
<1>2. SnapOf(h).vrf < MaxVerify
  BY <1>1, ThreadsSafe DEF IInv
<1>3. CASE Reject(h, RestartRequired)
  BY <1>1, <1>2, <1>3, RejectStep, StateNames
<1>4. CASE Goto(h, "gate") /\ UNCHANGED rows
  <2>1. "gate" \in RunPC
    BY DEF RunPC
  <2> QED BY <1>1, <1>4, <2>1, PhaseStep
<1> QED BY <1>3, <1>4 DEF Preflight

LEMMA PromotedGrows ==
    ASSUME TypeInv, NEW t \in RestartsWithResult
    PROVE  /\ Grows(rows[t], Stepped(rows[t], VerifyingRemote))
           /\ rows[t].state # Running
<1>1. rows[t] \in SafeRow /\ rows[t].state = RestartRequired /\ HasResult(rows[t])
  BY DEF TypeInv, RestartsWithResult, InState
<1>2. rows[t].vrf < MaxVerify /\ rows[t].rev \in Nat
  BY <1>1 DEF SafeRow, Row
<1>3. /\ Stepped(rows[t], VerifyingRemote).state = VerifyingRemote
      /\ Stepped(rows[t], VerifyingRemote).rev = rows[t].rev + 1
  BY <1>1, <1>2, SteppedSafe, StateNames
<1> QED BY <1>1, <1>2, <1>3, StateNames, DistinctStates DEF Grows

(* The gate lets one thread through, and only when none is past it. *)
LEMMA GateStep ==
    ASSUME IInv, NEW h \in Thread, Gate(h)
    PROVE  StepOf(h)
<1> DEFINE running == Stepped(SnapOf(h), Running)
<1>1. /\ threads[h].pc \in RunPC /\ threads[h].pc \in WorkPC
      /\ ~Idle(h) /\ ~At(h, "prepared")
  BY DEF Gate, WorkPC, RunPC, Idle, At
<1>2. SnapOf(h) \in SafeRow /\ SnapOf(h).vrf < MaxVerify /\ SnapOf(h).state \in Runnable
  BY <1>1, ThreadsSafe, SnapshotAt DEF IInv
<1>3. running \in SafeRow /\ running.state = Running /\ running.rev = SnapOf(h).rev + 1
  BY <1>2, SteppedSafe, StateNames, DistinctStates
<1> HIDE DEF running
<1>4. CASE ~GateOpen(h)
  <2>1. /\ Finish(h)
        /\ rows' = [t \in Task |-> IF t \in RivalResults(h)
                                   THEN Stepped(rows[t], VerifyingRemote) ELSE rows[t]]
    BY <1>4 DEF Gate
  <2>2. RivalResults(h) \subseteq RestartsWithResult
    BY DEF RivalResults
  <2>3. \A t \in Task : Grows(rows[t], rows'[t])
    BY <2>1, <2>2, PromotedGrows DEF IInv, Grows
  <2>4. \A t \in Task : rows[t].state = Running => rows'[t] = rows[t]
    BY <2>1, <2>2, PromotedGrows DEF IInv
  <2> QED BY <2>1, <2>3, <2>4, FinishRowsStep DEF IInv
<1>5. CASE GateOpen(h) /\ ~Accepted(h, running)
  BY <1>1, <1>3, <1>5, WriteAndFinish, DistinctStates DEF Gate, running, IInv
<1>6. CASE GateOpen(h) /\ Accepted(h, running)
  <2>1. /\ Transition(h, running)
        /\ threads' = [threads EXCEPT ![h].pc = "source", ![h].row = running]
    BY <1>6 DEF Gate, running
  <2>2. rows[threads[h].id].state # Running
    BY <1>3, <1>6, DistinctStates DEF Accepted
  <2>3. ASSUME NEW k \in Thread, Holds(k)
        PROVE  FALSE
    <3>1. threads[k].id \in Task /\ rows[threads[k].id].state = Running
      BY <2>3, ThreadsSafe DEF IInv, Holds, Owns, InExec, Idle, ExecPC
    <3>2. threads[k].id = threads[h].id
      BY <1>6, <3>1 DEF GateOpen, Rivals, InState
    <3> QED BY <2>2, <3>1, <3>2
  <2>4. "source" \in PC \ {"idle", "prepared"} /\ "source" \in ExecPC
    BY DEF PC, ExecPC
  <2>5. running.state \in SnapshotStates("source")
    BY <1>3, <2>4, SnapshotStatesAt
  <2> QED BY <1>1, <1>3, <1>6, <2>1, <2>3, <2>4, <2>5, WriteAndGoOn, DistinctStates DEF IInv
<1> QED BY <1>4, <1>5, <1>6

LEMMA ExecFacts ==
    ASSUME IInv, NEW h \in Thread, threads[h].pc \in ExecPC
    PROVE  /\ threads[h].pc \in WorkPC /\ ~Idle(h) /\ ~At(h, "prepared")
           /\ SnapOf(h) \in SafeRow /\ SnapOf(h).vrf < MaxVerify
           /\ threads[h].got.fid \in FileId \cup {NoId}
BY ThreadsSafe DEF IInv, WorkPC, ExecPC, Idle, At, SafeThread, ThreadState, Result

LEMMA CheckSourceStep ==
    ASSUME IInv, NEW h \in Thread, CheckSource(h)
    PROVE  StepOf(h)
<1>1. threads[h].pc \in ExecPC
  BY DEF CheckSource, At, ExecPC
<1>2. CASE Reject(h, RestartRequired)
  BY <1>1, <1>2, ExecFacts, RejectStep, StateNames
<1>3. CASE Goto(h, "remote") /\ UNCHANGED rows
  <2>1. "remote" \in ExecPC
    BY DEF ExecPC
  <2> QED BY <1>1, <1>3, <2>1, PhaseStep
<1> QED BY <1>2, <1>3 DEF CheckSource

LEMMA ConflictStep ==
    ASSUME IInv, NEW h \in Thread, threads[h].pc \in ExecPC,
           Transition(h, [Stepped(SnapOf(h), RestartRequired) EXCEPT !.conflict = TRUE]),
           Finish(h)
    PROVE  StepOf(h)
<1> DEFINE q == Stepped(SnapOf(h), RestartRequired)
           new == [q EXCEPT !.conflict = TRUE]
<1>1. q \in SafeRow /\ q.state = RestartRequired /\ q.rev = SnapOf(h).rev + 1
  BY ExecFacts, SteppedSafe, StateNames
<1> HIDE DEF q
<1>2. new \in SafeRow /\ new.state = RestartRequired /\ new.rev = SnapOf(h).rev + 1
  BY <1>1, ConflictSet DEF SafeRow, Row
<1>3. Transition(h, new)
  BY DEF q
<1> HIDE DEF new
<1> QED BY <1>2, <1>3, ExecFacts, WriteAndFinish, StateNames DEF IInv

LEMMA CheckRemoteStep ==
    ASSUME IInv, NEW h \in Thread, CheckRemote(h)
    PROVE  StepOf(h)
<1>1. threads[h].pc \in ExecPC /\ "uploading" \in ExecPC /\ "completed" \in ExecPC
  BY DEF CheckRemote, At, ExecPC
<1>2. ASSUME NEW e, SettleError(h, e)
      PROVE  StepOf(h)
  BY <1>1, <1>2, ExecFacts, SettleErrorStep
<1>3. CASE Goto(h, "uploading") /\ UNCHANGED rows
  BY <1>1, <1>3, PhaseStep
<1>4. CASE Reject(h, RestartRequired)
  BY <1>1, <1>4, ExecFacts, RejectStep, StateNames
<1>5. ASSUME NEW f, GotoWith(h, "completed", ResultOf(f)), UNCHANGED rows
      PROVE  StepOf(h)
  BY <1>1, <1>5, PhaseStep
<1>6. CASE /\ Transition(h, [Stepped(SnapOf(h), RestartRequired) EXCEPT !.conflict = TRUE])
           /\ Finish(h)
  BY <1>1, <1>6, ConflictStep
<1>7. CASE CreateCheck(h)
  BY <1>3, <1>4, <1>5, <1>6, <1>7 DEF CreateCheck
<1>8. CASE UpdateCheck(h)
  BY <1>2, <1>3, <1>4, <1>8 DEF UpdateCheck
<1> QED BY <1>2, <1>7, <1>8 DEF CheckRemote

LEMMA UploadStep ==
    ASSUME IInv, NEW h \in Thread,
           UploadCommits(h) \/ UploadFails(h) \/ UploadAnswered(h)
    PROVE  StepOf(h)
<1>1. /\ threads[h].pc \in ExecPC
      /\ "stored" \in ExecPC /\ "completed" \in ExecPC /\ "partial" \in ExecPC
  BY DEF UploadCommits, UploadFails, UploadAnswered, At, ExecPC
<1>2. ASSUME NEW pc \in ExecPC, NEW got, Goto(h, pc) \/ GotoWith(h, pc, got), UNCHANGED rows
      PROVE  StepOf(h)
  BY <1>1, <1>2, PhaseStep
<1>3. ASSUME NEW e, SettleError(h, e)
      PROVE  StepOf(h)
  BY <1>1, <1>3, ExecFacts, SettleErrorStep
<1>4. CASE UploadCommits(h)
  <2>1. UNCHANGED rows /\ \E got : GotoWith(h, "stored", got)
    BY <1>4 DEF UploadCommits
  <2> QED BY <1>1, <1>2, <2>1
<1>5. CASE UploadFails(h)
  BY <1>3, <1>5 DEF UploadFails
<1>6. CASE UploadAnswered(h)
  BY <1>1, <1>2, <1>3, <1>6 DEF UploadAnswered
<1> QED BY <1>4, <1>5, <1>6

LEMMA ResultStep ==
    ASSUME IInv, NEW h \in Thread, threads[h].pc \in ExecPC,
           Transition(h, WithResult(SnapOf(h), VerifyingRemote, threads[h].got.fid)),
           Finish(h)
    PROVE  StepOf(h)
<1> DEFINE new == WithResult(SnapOf(h), VerifyingRemote, threads[h].got.fid)
<1>1. SnapOf(h) \in SafeRow /\ SnapOf(h).vrf < MaxVerify /\ VerifyingRemote \in State
      /\ threads[h].got.fid \in FileId \cup {NoId} /\ ~Idle(h) /\ ~At(h, "prepared")
  BY ExecFacts DEF State
<1>2. new \in SafeRow /\ new.state \in State /\ new.rev = SnapOf(h).rev + 1
  BY <1>1, WithResultSafe
<1>3. Transition(h, new)
  OBVIOUS
<1> HIDE DEF new
<1> QED BY <1>1, <1>2, <1>3, WriteAndFinish DEF IInv

LEMMA SettleStep ==
    ASSUME IInv, NEW h \in Thread, threads[h].pc \in WorkPC, ~At(h, "prepared"),
           Settle(h, threads[h].got), Finish(h)
    PROVE  StepOf(h)
<1> DEFINE r == SnapOf(h)
           w == WithResult(r, Completed, threads[h].got.fid)
           done == [w EXCEPT !.vrf = 0]
<1>1. r \in SafeRow /\ r.vrf < MaxVerify /\ threads[h].got.fid \in FileId \cup {NoId} /\ ~Idle(h)
  BY ThreadsSafe DEF IInv, SafeThread, ThreadState, Result, WorkPC, RunPC, ExecPC, VerifyPC, Idle
<1>2. w \in SafeRow /\ w.state = Completed /\ w.rev = r.rev + 1
  BY <1>1, WithResultSafe, StateNames
<1>3. Transition(h, done)
  BY DEF Settle
<1> HIDE DEF w
<1>4. done \in SafeRow
  <2>1. 0 \in 0..MaxVerify /\ 0 < MaxVerify
    BY Constants
  <2> QED BY <1>2, <2>1, RoundsSet
<1>5. done.state = Completed /\ done.rev = r.rev + 1
  BY <1>2 DEF SafeRow, Row
<1> HIDE DEF done
<1> QED BY <1>1, <1>3, <1>4, <1>5, WriteAndFinish, StateNames DEF IInv

LEMMA SettlementStep ==
    ASSUME IInv, NEW h \in Thread, SettleUpload(h) \/ PersistPartial(h)
    PROVE  StepOf(h)
<1>1. threads[h].pc \in ExecPC
  BY DEF SettleUpload, PersistPartial, At, ExecPC
<1>2. Finish(h)
  BY DEF SettleUpload, PersistPartial
<1>3. \/ Settle(h, threads[h].got)
      \/ Transition(h, WithResult(SnapOf(h), VerifyingRemote, threads[h].got.fid))
  BY DEF SettleUpload, PersistPartial
<1> QED BY <1>1, <1>2, <1>3, ExecFacts, SettleStep, ResultStep

LEMMA VerifyReadStep ==
    ASSUME IInv, NEW h \in Thread, VerifyRead(h)
    PROVE  StepOf(h)
<1>1. UNCHANGED rows /\ threads[h].pc \in VerifyPC
  BY DEF VerifyRead, At, VerifyPC
<1>2. \E pc \in VerifyPC : \E got : Goto(h, pc) \/ GotoWith(h, pc, got)
  <2>1. ASSUME NEW f, Commits(h, f)
        PROVE  \E pc \in VerifyPC : \E got : Goto(h, pc) \/ GotoWith(h, pc, got)
    BY <2>1 DEF Commits, VerifyPC
  <2>2. {"ambiguous", "notCommitted", "unavailable"} \subseteq VerifyPC
    BY DEF VerifyPC
  <2>3. CASE VerifyById(h, SnapOf(h).rid)
    BY <2>1, <2>2, <2>3 DEF VerifyById
  <2>4. CASE VerifyByName(h)
    BY <2>1, <2>2, <2>4 DEF VerifyByName
  <2>5. CASE VerifyUpdate(h)
    BY <2>1, <2>2, <2>5 DEF VerifyUpdate
  <2> QED BY <2>2, <2>3, <2>4, <2>5 DEF VerifyRead
<1> QED BY <1>1, <1>2, PhaseStep

LEMMA VerifyCommittedStep ==
    ASSUME IInv, NEW h \in Thread, VerifyCommitted(h)
    PROVE  StepOf(h)
<1>1. Finish(h) /\ threads[h].pc \in WorkPC /\ ~At(h, "prepared")
  BY DEF VerifyCommitted, At, WorkPC, VerifyPC
<1>2. Settle(h, threads[h].got) \/ UNCHANGED rows
  BY DEF VerifyCommitted
<1> QED BY <1>1, <1>2, SettleStep, FinishStep DEF IInv

LEMMA VerifyNotCommittedStep ==
    ASSUME IInv, NEW h \in Thread, VerifyNotCommitted(h)
    PROVE  StepOf(h)
<1> DEFINE r == SnapOf(h)
           rounds == CountRound(r)
           w(to) == WithResult(r, to, NoId)
           next(to) == [w(to) EXCEPT !.vrf = rounds]
<1>1. r \in SafeRow /\ r.vrf < MaxVerify /\ ~Idle(h) /\ ~At(h, "prepared")
  BY ThreadsSafe DEF IInv, VerifyNotCommitted, At, WorkPC, VerifyPC, Idle
<1>2. rounds \in 0..MaxVerify
  BY <1>1, Constants DEF CountRound, SafeRow, Row
<1> HIDE DEF rounds
<1>3. ASSUME NEW to \in {Failed, RestartRequired}
      PROVE  next(to) \in SafeRow /\ next(to).state = to /\ next(to).rev = r.rev + 1
  <2>1. /\ w(to) \in SafeRow /\ w(to).state = to /\ w(to).rev = r.rev + 1
        /\ to \notin Blocking /\ ~HasResult(w(to))
    BY <1>1, <1>3, WithResultSafe, StateNames DEF HasResult
  <2> HIDE DEF w
  <2> QED BY <1>2, <2>1, RoundsSet DEF SafeRow, Row
<1>4. \/ Transition(h, next(Failed)) /\ Finish(h)
      \/ Transition(h, next(RestartRequired)) /\ Finish(h)
      \/ /\ Transition(h, next(RestartRequired)) /\ Accepted(h, next(RestartRequired))
         /\ threads' = [threads EXCEPT ![h].pc = "replay", ![h].row = next(RestartRequired)]
  BY DEF VerifyNotCommitted, rounds
<1> HIDE DEF next
<1>5. CASE Transition(h, next(Failed)) /\ Finish(h)
  BY <1>1, <1>3, <1>5, WriteAndFinish, StateNames DEF IInv
<1>6. CASE Transition(h, next(RestartRequired)) /\ Finish(h)
  BY <1>1, <1>3, <1>6, WriteAndFinish, StateNames DEF IInv
<1>7. CASE /\ Transition(h, next(RestartRequired)) /\ Accepted(h, next(RestartRequired))
           /\ threads' = [threads EXCEPT ![h].pc = "replay", ![h].row = next(RestartRequired)]
  <2>1. "replay" \in PC \ {"idle", "prepared"} /\ "replay" \notin ExecPC
    BY DEF PC, ExecPC
  <2> DEFINE new == next(RestartRequired)
  <2>2. new \in SafeRow /\ new.state = RestartRequired /\ new.rev = r.rev + 1
    BY <1>3
  <2>3. new.state \in SnapshotStates("replay")
    BY <2>2, SnapshotStatesAt
  <2> HIDE DEF new
  <2> QED BY <1>1, <1>7, <2>1, <2>2, <2>3, WriteAndGoOn, StateNames DEF IInv, new
<1> QED BY <1>4, <1>5, <1>6, <1>7

LEMMA VerifyUndecidedStep ==
    ASSUME IInv, NEW h \in Thread, VerifyUndecided(h)
    PROVE  StepOf(h)
<1> DEFINE r == SnapOf(h)
           q == [r EXCEPT !.rev = r.rev + 1]
           new == [q EXCEPT !.vrf = r.vrf + 1]
<1>1. /\ r \in SafeRow /\ r.vrf < MaxVerify /\ r.rev + 1 \in Nat /\ r.vrf \in Nat
      /\ ~Idle(h) /\ ~At(h, "prepared") /\ threads[h].pc \in VerifyPC
  BY ThreadsSafe DEF IInv, VerifyUndecided, WorkPC, VerifyPC, SafeRow, Row, Idle, At
<1>2. CASE Reject(h, Failed)
  BY <1>1, <1>2, RejectStep, StateNames
<1>3. CASE ~LastVerification(r) /\ Patch(h, new) /\ Finish(h)
  <2>1. r.vrf + 1 \in 0..MaxVerify /\ r.vrf + 1 < MaxVerify
    BY <1>1, <1>3, Constants DEF LastVerification
  <2>2. q \in SafeRow /\ q.rev = r.rev + 1 /\ q.state = VerifyingRemote
    BY <1>1, RevisionSet, SnapshotAt DEF SafeRow, Row
  <2> HIDE DEF q
  <2>3. new \in SafeRow
    BY <2>1, <2>2, RoundsSet
  <2>4. new.state = VerifyingRemote /\ new.rev = r.rev + 1
    BY <2>2 DEF SafeRow, Row
  <2> HIDE DEF new
  <2> QED BY <1>1, <1>3, <2>3, <2>4, WriteAndFinish, StateNames DEF IInv
<1>4. new = [r EXCEPT !.rev = @ + 1, !.vrf = @ + 1]
  BY <1>1 DEF SafeRow, Row
<1> QED BY <1>2, <1>3, <1>4 DEF VerifyUndecided

LEMMA ReplayStep ==
    ASSUME IInv, NEW h \in Thread, Replay(h)
    PROVE  StepOf(h)
<1> DEFINE pending == Stepped(SnapOf(h), Pending)
<1>1. /\ SnapOf(h) \in SafeRow /\ SnapOf(h).vrf < MaxVerify
      /\ ~Idle(h) /\ ~At(h, "prepared")
  BY ThreadsSafe DEF IInv, Replay, At, WorkPC, Idle
<1>2. pending \in SafeRow /\ pending.state = Pending /\ pending.rev = SnapOf(h).rev + 1
  BY <1>1, SteppedSafe, StateNames
<1>3. /\ Transition(h, pending)
      /\ \/ Finish(h)
         \/ /\ Accepted(h, pending)
            /\ threads' = [threads EXCEPT ![h].pc = "pickup", ![h].row = pending]
  BY DEF Replay
<1> HIDE DEF pending
<1>4. CASE Finish(h)
  BY <1>1, <1>2, <1>3, <1>4, WriteAndFinish, StateNames DEF IInv
<1>5. CASE /\ Accepted(h, pending)
           /\ threads' = [threads EXCEPT ![h].pc = "pickup", ![h].row = pending]
  <2>1. "pickup" \in PC \ {"idle", "prepared"} /\ "pickup" \notin ExecPC /\ "pickup" \in RunPC
    BY DEF PC, ExecPC, RunPC
  <2>2. pending.state \in SnapshotStates("pickup")
    BY <1>2, <2>1, SnapshotStatesAt DEF Runnable
  <2> QED BY <1>1, <1>2, <1>3, <1>5, <2>1, <2>2, WriteAndGoOn, StateNames DEF IInv
<1> QED BY <1>3, <1>4, <1>5

(* A prepared thread keeps no snapshot; its row is in the database. *)
LEMMA RequeueStep ==
    ASSUME IInv, NEW h \in Thread, At(h, "retry") \/ At(h, "overwrite"), Requeue(h)
    PROVE  StepOf(h)
<1> DEFINE new == NewBudget(SnapOf(h))
<1>1. ~Idle(h) /\ ~At(h, "prepared") /\ threads[h].id \in Task /\ SnapOf(h) \in SafeRow
  BY ThreadsSafe DEF IInv, At, Idle
<1>2. new \in SafeRow /\ new.state = Pending /\ new.rev = SnapOf(h).rev + 1
  BY <1>1, NewBudgetSafe
<1>3. Transition(h, new) /\ ((Accepted(h, new) /\ Goto(h, "prepared")) \/ Finish(h))
  BY DEF Requeue
<1> HIDE DEF new
<1>4. CASE Finish(h)
  BY <1>1, <1>2, <1>3, <1>4, WriteAndFinish, StateNames DEF IInv
<1>5. CASE Accepted(h, new) /\ Goto(h, "prepared")
  <2>1. threads'[h] = [threads[h] EXCEPT !.pc = "prepared"] /\ \A k \in Thread \ {h} : threads'[k] = threads[k]
    BY <1>5 DEF IInv, TypeInv, Goto
  <2>2. threads'[h].pc = "prepared" /\ threads'[h].id = threads[h].id /\ threads'[h].row = SnapOf(h)
    BY <2>1, ThreadsSafe DEF IInv, SafeThread, ThreadState, SnapOf
  <2>3. rows'[threads[h].id] = new
    BY <1>1, <1>3, <1>5 DEF IInv, TypeInv, Transition
  <2>4. SnapOf(h).state \in State \cup {"absent"}
    <3>1. SnapOf(h).state \in SnapshotStates("retry") \cup SnapshotStates("overwrite")
      BY <1>1 DEF IInv, Snapshots, At
    <3> QED BY <3>1, SnapshotStatesAt, StateNames
  <2>5. Fits(threads[h])'
    BY <1>2, <2>2, <2>3, <2>4, SnapshotStatesAt, StateNames DEF Fits, Agrees
  <2>6. ~InExec(h)'
    BY <2>2 DEF InExec, ExecPC
  <2> QED BY <1>1, <1>2, <1>3, <2>1, <2>5, <2>6, WriteGrows, StateNames DEF StepOf, Holds, IInv
<1> QED BY <1>3, <1>4, <1>5

LEMMA RetryStep ==
    ASSUME IInv, NEW h \in Thread, AcceptRetry(h) \/ RequeueConflict(h)
    PROVE  StepOf(h)
<1>1. At(h, "retry") \/ At(h, "overwrite")
  BY DEF AcceptRetry, RequeueConflict
<1>2. CASE Requeue(h)
  BY <1>1, <1>2, RequeueStep
<1>3. CASE Reject(h, RestartRequired)
  BY <1>1, <1>3, RejectStep, StateNames DEF At, Idle
<1>4. CASE FailRetry(h)
  <2> DEFINE failed == Stepped(SnapOf(h), Failed)
  <2>1. failed \in SafeRow /\ failed.state = Failed /\ failed.rev = SnapOf(h).rev + 1
    BY ThreadsSafe, SteppedSafe, StateNames DEF IInv
  <2>2. (Patch(h, failed) \/ Transition(h, failed)) /\ Finish(h)
    BY <1>4 DEF FailRetry
  <2>3. ~Idle(h) /\ ~At(h, "prepared")
    BY <1>1 DEF At, Idle
  <2> HIDE DEF failed
  <2> QED BY <2>1, <2>2, <2>3, WriteAndFinish, StateNames DEF IInv
<1> QED BY <1>2, <1>3, <1>4 DEF AcceptRetry, RequeueConflict

LEMMA RunPreparedStep ==
    ASSUME IInv, NEW h \in Thread, RunPrepared(h)
    PROVE  StepOf(h)
<1> DEFINE t == threads[h].id
<1>1. t \in Task /\ rows[t] \in SafeRow /\ rows' = rows
  BY ThreadsSafe DEF IInv, TypeInv, RunPrepared, At, Idle
<1>2. CASE Finish(h)
  BY <1>1, <1>2, FinishStep DEF IInv
<1>3. CASE rows[t].state \in Runnable /\ Start(h, "runNow", t, rows[t])
  <2>1. "runNow" \in PC \ ExecPC /\ "runNow" \in RunPC
    BY DEF PC, ExecPC, RunPC
  <2>2. rows[t].state \in SnapshotStates("runNow") /\ rows[t].state # "absent"
    BY <1>3, <2>1, SnapshotStatesAt, StateNames
  <2> QED BY <1>1, <1>3, <2>1, <2>2, StartStep DEF IInv, Grows
<1> QED BY <1>2, <1>3 DEF RunPrepared

LEMMA RenameRemoteStep ==
    ASSUME IInv, NEW h \in Thread, RenameRemote(h)
    PROVE  StepOf(h)
<1>1. ~Idle(h) /\ ~At(h, "prepared") /\ rows' = rows
  BY DEF RenameRemote, At, Idle
<1>2. CASE Finish(h)
  BY <1>1, <1>2, FinishStep DEF IInv
<1>3. ASSUME NEW f, threads' = [threads EXCEPT ![h].todo = @ \ {f}]
      PROVE  StepOf(h)
  <2>1. /\ \A k \in Thread \ {h} : threads'[k] = threads[k]
        /\ threads'[h] = [threads[h] EXCEPT !.todo = @ \ {f}]
    BY <1>3 DEF IInv, TypeInv
  <2>2. /\ threads'[h].row = SnapOf(h) /\ threads'[h].id = threads[h].id
        /\ threads'[h].pc = threads[h].pc
    BY <2>1, ThreadsSafe DEF IInv, SafeThread, ThreadState, SnapOf
  <2>3. SnapOf(h).state \in SnapshotStates(threads'[h].pc)
    BY <1>1, <2>2 DEF IInv, Snapshots, Idle
  <2> QED BY <1>1, <2>1, <2>2, <2>3, MoveStep DEF IInv, InExec
<1> QED BY <1>2, <1>3 DEF RenameRemote

LEMMA ThreadStepOf ==
    ASSUME IInv, NEW h \in Thread, ThreadStep(h)
    PROVE  StepOf(h)
BY PickupRefusedStep, AdmitStep, PreflightStep, GateStep, CheckSourceStep, CheckRemoteStep, UploadStep,
   SettlementStep, VerifyReadStep, VerifyCommittedStep, VerifyNotCommittedStep,
   VerifyUndecidedStep, ReplayStep, RetryStep, RunPreparedStep, RenameRemoteStep
   DEF ThreadStep

-----------------------------------------------------------------------------
(* So is every step of the cycle and of a command, except startup recovery, *)
(* and the world leaves rows and threads alone.                             *)

LEMMA PutStep ==
    ASSUME IInv, TypeInv', NEW h \in Thread, threads' = threads,
           NEW t \in Task, rows[t].state \in State \ {Running},
           NEW to \in State, to \in Blocking => rows[t].vrf < MaxVerify,
           rows' = [rows EXCEPT ![t] = Stepped(rows[t], to)]
    PROVE  StepOf(h)
<1> DEFINE q == Stepped(rows[t], to)
<1>1. rows[t] \in SafeRow /\ rows[t].rev \in Nat
  BY DEF IInv, TypeInv, SafeRow, Row
<1>2. q.state = to /\ q.rev = rows[t].rev + 1
  BY <1>1, SteppedSafe
<1> HIDE DEF q
<1>3. /\ rows'[t] = q
      /\ \A u \in Task \ {t} : rows'[u] = rows[u]
  BY DEF IInv, TypeInv, q
<1>4. Grows(rows[t], q)
  BY <1>1, <1>2 DEF Grows
<1>5. \A u \in Task : Grows(rows[u], rows'[u])
  BY <1>3, <1>4 DEF Grows
<1>6. \A u \in Task : rows[u].state = Running => rows'[u] = rows[u]
  BY <1>3
<1> QED BY <1>5, <1>6, RowsStep DEF IInv

(* A thread that starts with a row as it is. *)
LEMMA LoadStep ==
    ASSUME IInv, NEW h \in Thread, NEW t \in Task, NEW pc \in PC \ ExecPC, pc # "idle",
           rows[t].state \in State, rows[t].state \in SnapshotStates(pc),
           Start(h, pc, t, rows[t]), UNCHANGED rows
    PROVE  StepOf(h)
BY StartStep, StateNames DEF IInv, TypeInv, Grows

LEMMA OpenStep ==
    ASSUME IInv, NEW h \in Thread, NEW t \in Task, NEW r \in SafeRow,
           r.state = Pending, rows[t].state # Running,
           Grows(rows[t], r), Open(h, t, r)
    PROVE  StepOf(h)
<1>1. /\ rows'[t] = r
      /\ \A u \in Task \ {t} : rows'[u] = rows[u]
  BY DEF IInv, TypeInv, Open
<1>2. \A u \in Task : Grows(rows[u], rows'[u])
  BY <1>1 DEF Grows
<1>3. \A u \in Task : rows[u].state = Running => rows'[u] = rows[u]
  BY <1>1
<1>4. "run" \in PC \ ExecPC /\ "run" \in RunPC
  BY DEF PC, ExecPC, RunPC
<1>5. r.state \in SnapshotStates("run") /\ r.state # "absent"
  BY <1>4, SnapshotStatesAt, StateNames DEF Runnable
<1> QED BY <1>1, <1>2, <1>3, <1>4, <1>5, StartStep DEF IInv, Open

LEMMA EnqueueStep ==
    ASSUME IInv, TypeInv', NEW h \in Thread,
           NEW n \in Intent,
           Enqueue(h, n)
    PROVE  StepOf(h)
<1>1. \A t \in Task : rows[t].state # Running /\ rows[t].state # VerifyingRemote
  BY DEF Enqueue, InState
<1>2. ASSUME NEW t \in RestartsWithResult, UNCHANGED threads,
             rows' = [rows EXCEPT ![t] = Stepped(rows[t], VerifyingRemote)]
      PROVE  StepOf(h)
  <2>1. t \in Task /\ rows[t].state = RestartRequired /\ rows[t].vrf < MaxVerify
    BY DEF IInv, TypeInv, SafeRow, RestartsWithResult, InState
  <2> QED BY <1>2, <2>1, PutStep, StateNames, DistinctStates
<1>3. ASSUME NEW t \in InState(Blocking), Start(h, "run", t, rows[t]), UNCHANGED rows
      PROVE  StepOf(h)
  <2>1. t \in Task /\ rows[t].state \in Runnable
    BY <1>1 DEF InState, Blocking, Runnable
  <2>2. "run" \in PC \ ExecPC /\ "run" \in RunPC
    BY DEF PC, ExecPC, RunPC
  <2> QED BY <1>3, <2>1, <2>2, LoadStep, SnapshotStatesAt, StateNames
<1>4. ASSUME NEW t \in Task, Replannable(t), Open(h, t, Replanned(rows[t], n))
      PROVE  StepOf(h)
  <2> DEFINE q == Replanned(rows[t], n)
  <2>1. /\ q \in SafeRow /\ q.state = Pending
        /\ q.rev \in {rows[t].rev + 1, rows[t].rev + 2} /\ rows[t].rev \in Nat
    BY ReplannedSafe DEF IInv, TypeInv, SafeRow, Row
  <2> HIDE DEF q
  <2>2. rows[t].state \in State
    BY <1>4, StateNames DEF Replannable
  <2>3. Grows(rows[t], q)
    BY <2>1, <2>2, StateNames DEF Grows, Blocking
  <2> QED BY <1>1, <1>4, <2>1, <2>3, OpenStep DEF q
<1>5. ASSUME NEW t \in Task, rows[t].state = "absent", Open(h, t, Fresh(n))
      PROVE  StepOf(h)
  <2>1. Fresh(n) \in SafeRow /\ Fresh(n).state = Pending
    BY FreshSafe
  <2> QED BY <1>1, <1>5, <2>1, OpenStep DEF Grows
<1> QED BY <1>2, <1>3, <1>4, <1>5 DEF Enqueue

LEMMA PlanStep ==
    ASSUME IInv, TypeInv', NEW h \in Thread,
           (h = Cycle /\ PlanUpload) \/ UploadCommand(h)
    PROVE  StepOf(h)
<1>1. CreateIntent(local) \in Intent
  BY DEF Intent, IInv, TypeInv, CreateIntent
<1>2. baseline.fid # NoId => UpdateIntent(local, baseline) \in Intent
  BY DEF Intent, IInv, TypeInv, UpdateIntent, Result
<1>3. PICK n \in Intent : Enqueue(h, n)
  BY <1>1, <1>2 DEF PlanUpload, UploadCommand
<1> QED BY <1>3, EnqueueStep

LEMMA ResumeStep ==
    ASSUME IInv, ResumeVerifying \/ ResumeWaiting \/ ResumeBackoff
    PROVE  StepOf(Cycle)
<1>1. ASSUME NEW state \in State, NEW pc \in PC \ ExecPC, pc # "idle",
             state \in SnapshotStates(pc), ResumeRow(state, pc)
      PROVE  StepOf(Cycle)
  <2>1. PICK t \in Task : rows[t].state = state /\ Start(Cycle, pc, t, rows[t]) /\ UNCHANGED rows
    BY <1>1 DEF ResumeRow, InState
  <2> QED BY <1>1, <2>1, LoadStep, Constants
<1>2. {"pickup", "verify"} \subseteq PC \ ExecPC /\ "pickup" \in RunPC /\ "verify" \in VerifyPC
  BY DEF PC, ExecPC, RunPC, VerifyPC
<1>3. /\ VerifyingRemote \in SnapshotStates("verify")
      /\ {WaitingForNetwork, BackingOff} \subseteq SnapshotStates("pickup")
  BY <1>2, SnapshotStatesAt DEF Runnable
<1> QED BY <1>1, <1>2, <1>3, StateNames DEF ResumeVerifying, ResumeWaiting, ResumeBackoff

LEMMA CancelStep ==
    ASSUME IInv, TypeInv', NEW h \in Thread,
           PromoteRestart \/ CancelOrphan \/ Cancel(h) \/ KeepBoth(h)
    PROVE  StepOf(h)
<1>1. CASE PromoteRestart
  <2>1. PICK t \in RestartsWithResult :
               rows' = [rows EXCEPT ![t] = Stepped(rows[t], VerifyingRemote)]
    BY <1>1 DEF PromoteRestart
  <2>2. t \in Task /\ rows[t].state = RestartRequired /\ rows[t].vrf < MaxVerify
    BY DEF IInv, TypeInv, SafeRow, RestartsWithResult, InState
  <2>3. threads' = threads
    BY <1>1 DEF PromoteRestart
  <2> QED BY <2>1, <2>2, <2>3, PutStep, StateNames, DistinctStates
<1>2. CASE CancelOrphan \/ Cancel(h) \/ KeepBoth(h)
  <2>1. PICK t \in Task : /\ rows[t].state \in {RestartRequired, Failed}
                          /\ rows' = [rows EXCEPT ![t] = Stepped(rows[t], Canceled)]
    BY <1>2 DEF CancelOrphan, Cancel, KeepBoth, NameConflicts, InState
  <2>2. threads' = threads
    BY <1>2 DEF CancelOrphan, Cancel, KeepBoth
  <2> QED BY <2>1, <2>2, PutStep, StateNames, DistinctStates
<1> QED BY <1>1, <1>2

LEMMA PrepareRetryStep ==
    ASSUME IInv, TypeInv', NEW h \in Thread,
           NEW t \in InState({Failed, RestartRequired}), PrepareRetry(h, t)
    PROVE  StepOf(h)
<1>1. t \in Task /\ rows[t].state \in {Failed, RestartRequired}
  BY DEF InState
<1>2. ASSUME NEW to \in {Failed, RestartRequired}, UNCHANGED threads,
             rows' = [rows EXCEPT ![t] = Stepped(rows[t], to)]
      PROVE  StepOf(h)
  BY <1>1, <1>2, PutStep, StateNames, DistinctStates
<1>3. CASE UNCHANGED <<rows, threads>>
  BY <1>3, RowsStep DEF IInv, TypeInv, Grows
<1>4. CASE Start(h, "retry", t, rows[t]) /\ UNCHANGED rows
  <2>1. "retry" \in PC \ ExecPC
    BY DEF PC, ExecPC
  <2> QED BY <1>1, <1>4, <2>1, LoadStep, SnapshotStatesAt, StateNames
<1> QED BY <1>2, <1>3, <1>4 DEF PrepareRetry

LEMMA OverwriteStep ==
    ASSUME IInv, NEW h \in Thread, Overwrite(h)
    PROVE  StepOf(h)
<1>1. PICK t \in NameConflicts :
          threads' = [threads EXCEPT ![h] =
             [pc |-> "overwrite", id |-> t, row |-> rows[t], got |-> NoResult, todo |-> Here]]
  BY DEF Overwrite
<1>2. t \in Task /\ rows[t].state = RestartRequired /\ rows[t].rev \in Nat /\ rows' = rows
  BY DEF Overwrite, NameConflicts, InState, IInv, TypeInv, SafeRow, Row
<1>3. /\ \A k \in Thread \ {h} : threads'[k] = threads[k]
      /\ threads'[h].pc = "overwrite" /\ threads'[h].row = rows[t] /\ threads'[h].id = t
  BY <1>1 DEF IInv, TypeInv
<1>4. Fits(threads[h])'
  BY <1>2, <1>3, SnapshotStatesAt, StateNames DEF Fits, Agrees
<1>5. ~InExec(h)'
  BY <1>3 DEF InExec, ExecPC
<1> QED BY <1>2, <1>3, <1>4, <1>5 DEF StepOf, Holds, Grows

LEMMA ClearHistoryStep ==
    ASSUME IInv, TypeInv', NEW h \in Thread, ClearHistory(h)
    PROVE  StepOf(h)
<1>1. PICK S \in {{Completed}, {Failed, Canceled}, {Completed, Failed, Canceled}} :
          rows' = [t \in Task |-> IF rows[t].state \in S
                                  THEN [BlankRow EXCEPT !.state = "cleared"] ELSE rows[t]]
  BY DEF ClearHistory
<1>2. [BlankRow EXCEPT !.state = "cleared"].state = "cleared"
  BY DEF BlankRow
<1>3. S \subseteq State /\ Running \notin S
  BY StateNames, DistinctStates
<1>4. \A t \in Task : Grows(rows[t], rows'[t])
  BY <1>1, <1>2, <1>3 DEF Grows
<1>5. \A t \in Task : rows[t].state = Running => rows'[t] = rows[t]
  BY <1>1, <1>3
<1>6. threads' = threads
  BY DEF ClearHistory
<1> QED BY <1>4, <1>5, <1>6, RowsStep DEF IInv

LEMMA StillStep ==
    ASSUME TypeInv, Snapshots, Execution, UNCHANGED <<rows, threads>>,
           overtaken => overtaken'
    PROVE  Snapshots' /\ Execution'
BY DEF Snapshots, Execution, SnapOf, Holds, InExec, Owns

(* Recovery takes Running rows away from whoever executes them, and says    *)
(* so; nobody comes to hold one by it.                                      *)
LEMMA RecoverGrows ==
    ASSUME IInv, TypeInv', RecoverStartup
    PROVE  /\ \A t \in Task : Grows(rows[t], rows'[t])
           /\ \A k \in Thread \ {Cycle} : threads'[k] = threads[k]
<1>1. CASE UNCHANGED rows
  BY <1>1, Constants DEF RecoverStartup, Start, Grows, IInv, TypeInv
<1>2. CASE /\ \E t \in InState({Running}) :
                  rows' = [rows EXCEPT ![t] = Stepped(@, VerifyingRemote)]
           /\ UNCHANGED threads
  <2>1. PICK t \in Task : /\ rows[t].state = Running
                          /\ rows' = [rows EXCEPT ![t] = Stepped(rows[t], VerifyingRemote)]
    BY <1>2 DEF InState
  <2> DEFINE q == Stepped(rows[t], VerifyingRemote)
  <2>2. rows[t] \in SafeRow /\ rows[t].vrf < MaxVerify /\ rows[t].rev \in Nat
    BY <2>1, StateNames DEF IInv, TypeInv, SafeRow, Row
  <2>3. q.state = VerifyingRemote /\ q.rev = rows[t].rev + 1
    BY <2>2, SteppedSafe, StateNames
  <2> HIDE DEF q
  <2>4. Grows(rows[t], q)
    BY <2>1, <2>2, <2>3, StateNames DEF Grows
  <2> QED BY <1>2, <2>1, <2>4 DEF Grows, IInv, TypeInv, q
<1> QED BY <1>1, <1>2 DEF RecoverStartup

LEMMA RecoverStep ==
    ASSUME IInv, TypeInv', RecoverStartup
    PROVE  Snapshots' /\ Execution'
<1>1. (overtaken => overtaken') /\ (~overtaken' => \A h \in Thread : ~InExec(h))
  BY DEF RecoverStartup, InExec
<1>2. CASE UNCHANGED <<rows, threads>>
  BY <1>1, <1>2, StillStep DEF IInv
<1>3. CASE /\ \E t \in InState({Running}) :
                  rows' = [rows EXCEPT ![t] = Stepped(@, VerifyingRemote)]
           /\ UNCHANGED threads
  <2>6. \A h \in Thread : Fits(threads[h])' /\ (Holds(h)' => Holds(h))
    BY <1>3, RecoverGrows, RowsMove DEF IInv
  <2>7. Snapshots'
    BY <2>6 DEF Fits, Snapshots, SnapOf
  <2> QED BY <1>1, <1>3, <2>6, <2>7 DEF IInv, Execution, InExec
<1>4. CASE /\ \E t \in InState({Pending}) : Start(Cycle, "run", t, rows[t])
           /\ UNCHANGED rows
  <2>1. "run" \in PC \ ExecPC /\ "run" \in RunPC
    BY DEF PC, ExecPC, RunPC
  <2>2. PICK t \in Task : /\ rows[t].state = Pending /\ Pending \in SnapshotStates("run")
                          /\ Start(Cycle, "run", t, rows[t])
    BY <1>4, <2>1, SnapshotStatesAt DEF InState, Runnable
  <2>3. StepOf(Cycle)
    BY <1>4, <2>1, <2>2, LoadStep, StateNames, Constants
  <2> QED BY <1>1, <2>3, StepOfKeeps, Constants DEF IInv
<1> QED BY <1>2, <1>3, <1>4 DEF RecoverStartup

-----------------------------------------------------------------------------
(* The second invariant *)

LEMMA InitExecution == Init => Snapshots /\ Execution
<1> SUFFICES ASSUME Init PROVE Snapshots /\ Execution
  OBVIOUS
<1>1. \A h \in Thread : threads[h].pc = "idle"
  BY DEF Init, IdleThread
<1> QED BY <1>1 DEF Snapshots, Execution, Holds, InExec, ExecPC

(* Nobody else touches what recovery leaves behind, and nobody but a        *)
(* refused pickup what could not be picked up.                              *)
LEMMA ProcessKept ==
    ASSUME NEW h \in Thread, ThreadStep(h) \/ Command(h)
    PROVE  /\ UNCHANGED <<startup, overtaken>>
           /\ PickupRefused(h) \/ UNCHANGED refused
<1>1. CASE ThreadStep(h)
  <2>1. PickupRefused(h) \/ UNCHANGED process
    BY <1>1, ZenonT(60)
       DEF ThreadStep, Admit, Preflight, Gate, CheckSource, CheckRemote, UploadCommits,
           UploadFails, UploadAnswered, SettleUpload, PersistPartial, VerifyRead,
           VerifyCommitted, VerifyNotCommitted, VerifyUndecided, Replay, AcceptRetry,
           RunPrepared, RenameRemote, RequeueConflict
  <2>2. PickupRefused(h) => UNCHANGED <<startup, overtaken>>
    BY DEF PickupRefused
  <2> QED BY <2>1, <2>2 DEF process
<1>2. CASE Command(h)
  BY <1>2 DEF Command, UploadCommand, RetryTransfer, Overwrite, KeepBoth, Cancel,
              ClearHistory, PrepareRetry, process
<1> QED BY <1>1, <1>2

LEMMA CycleKept ==
    ASSUME CycleJob, ~RecoverStartup
    PROVE  UNCHANGED process
BY DEF CycleJob, PromoteRestart, ResumeVerifying, ResumeWaiting, ResumeBackoff,
       ResumeRow, CancelOrphan, PlanUpload, RetryFailed, PrepareRetry

(* What recovery overtook stays overtaken. *)
LEMMA Overtakes ==
    ASSUME [Next]_vars, overtaken
    PROVE  overtaken'
<1>1. CASE RecoverStartup
  BY <1>1 DEF RecoverStartup
<1>2. CASE World
  BY <1>2 DEF World, LocalEdit, LocalDelete, ForeignWrite, ForeignRemove, NetworkDown,
              NetworkUp, Crash, process
<1> QED BY <1>1, <1>2, ProcessKept, CycleKept DEF Next, CycleJob, vars, process

LEMMA NextExecution ==
    ASSUME IInv, [Next]_vars, TypeInv'
    PROVE  Snapshots' /\ Execution'
<1> USE DEF IInv
<1>0. overtaken => overtaken'
  BY Overtakes
<1>1. ASSUME NEW h \in Thread, StepOf(h)
      PROVE  Snapshots' /\ Execution'
  BY <1>0, <1>1, StepOfKeeps
<1>2. ASSUME NEW h \in Thread, ThreadStep(h)
      PROVE  Snapshots' /\ Execution'
  BY <1>1, <1>2, ThreadStepOf
<1>3. ASSUME NEW h \in Thread, Command(h)
      PROVE  Snapshots' /\ Execution'
  <2>1. StepOf(h)
    BY <1>3, PlanStep, PrepareRetryStep, OverwriteStep, CancelStep, ClearHistoryStep
       DEF Command, RetryTransfer
  <2> QED BY <1>1, <2>1
<1>4. CASE CycleJob /\ ~RecoverStartup
  <2>1. RetryFailed => StepOf(Cycle)
    BY PrepareRetryStep, Constants DEF RetryFailed, InState
  <2>2. StepOf(Cycle)
    BY <1>4, <2>1, PlanStep, ResumeStep, CancelStep, Constants DEF CycleJob
  <2> QED BY <1>1, <2>2, Constants
<1>5. CASE World
  <2>1. CASE Crash
    <3>1. \A h \in Thread : threads'[h].pc = "idle"
      BY <2>1 DEF Crash, IdleThread
    <3> QED BY <3>1 DEF Snapshots, Execution, Holds, InExec, ExecPC
  <2>2. CASE UNCHANGED <<rows, threads>>
    BY <1>0, <2>2, StillStep
  <2> QED BY <1>5, <2>1, <2>2 DEF World, LocalEdit, LocalDelete, ForeignWrite, ForeignRemove,
                                  NetworkDown, NetworkUp
<1>6. CASE UNCHANGED vars
  BY <1>0, <1>6, StillStep DEF vars
<1> QED BY <1>2, <1>3, <1>4, <1>5, <1>6, RecoverStep DEF Next, CycleJob

THEOREM Inductive == Spec => []IInv
<1>1. Init => IInv
  BY InitSafe, InitExecution DEF IInv
<1>2. IInv /\ [Next]_vars => IInv'
  <2> SUFFICES ASSUME IInv, [Next]_vars PROVE IInv'
    OBVIOUS
  <2>1. TypeInv' /\ SingleIntent'
    BY NextSafe DEF IInv
  <2> QED BY <2>1, NextExecution DEF IInv
<1> QED BY <1>1, <1>2, PTL DEF Spec

(* Two uploads of one path are never on their way at the same time, unless  *)
(* startup recovery took a running one for interrupted: the gate lets a     *)
(* thread through only when no other holds its row, and a thread that       *)
(* executes keeps its row Running until it has written it.                  *)
THEOREM SoleUploader == Spec => []OneUploader
<1>1. IInv => OneUploader
  BY DEF IInv, Execution, OneUploader, Uploading, Holds, InExec, ExecPC
<1> QED BY <1>1, Inductive, PTL

-----------------------------------------------------------------------------
(***************************************************************************)
(* What the uploads of a path promise, for any number of rows, threads,    *)
(* files, faults and intents, and for any limits, beyond IInv (types, one  *)
(* intent, snapshots, execution).  Each part is inductive relative to      *)
(* those before it:                                                        *)
(*   Minds       a Running or Pending row has the thread that moves it, or *)
(*               was refused its pickup: a step takes care of what its     *)
(*               thread holds, or comes from a thread that held nothing,   *)
(*               and leaves the others' alone;                             *)
(*   Clear       who sends a Create has seen that no file of ours is here; *)
(*   Numbered    whatever holds a content holds one that was written;      *)
(*   Witnessed   who settles a row has seen its upload in the cloud;       *)
(*   Budget      an upload is paid for before its row is sent again;       *)
(* and with Steady, Sent and Copies every step is one of UploadPromise or  *)
(* a stutter.  Clear, Budget and Sent speak of the runs in which startup   *)
(* recovery never took a running upload of this process for interrupted    *)
(* (~overtaken); Witnessed assumes SizesTell, because the code compares    *)
(* sizes where it cannot compare hashes.                                   *)
(***************************************************************************)
(* Who sees to it that a row which is Running or Pending moves on. *)

(* Files that uploads of this path made, and that are still there. *)
Copies == {f \in Here : cloud[f].mine}
Clear ==
    /\ \A f \in FileId : cloud[f].at = "none" => ~cloud[f].mine
    /\ OneCopy
    /\ \A h \in Thread : At(h, "uploading") /\ SnapOf(h).op = "Create" => Copies = {}

(* Contents are numbered as they are written. *)
Written(v) == v \in 1 .. contents
Numbered ==
    /\ contents \in 1 .. MaxContents
    /\ local \in 0 .. contents
    /\ \A t \in Task : rows[t].state \in State => Written(rows[t].ver)
    /\ \A h \in Thread : ~Idle(h) => Written(SnapOf(h).ver)
    /\ \A f \in FileId : cloud[f].at # "none" => Written(cloud[f].ver)
    /\ \A x \in history : Written(x.ver)

(* What a thread takes for the result of its upload was one. *)
Witnessed ==
    /\ \A f \in FileId : cloud[f].at # "none" => ResultOf(f) \in history
    /\ \A h \in Thread :
          /\ threads[h].pc \in {"stored", "completed", "committed"} => threads[h].got \in history
          /\ At(h, "stored") => cloud[threads[h].got.fid].at # "none"
          /\ At(h, "committed") => threads[h].got.ver = SnapOf(h).ver
          /\ \A f \in threads[h].todo : cloud[f].at # "none"
    /\ NoFalseSuccess

(* What a row may still use of its budget. *)
Tight(r, n) == n <= r.att + r.vrf /\ r.vrf < MaxReplay
Loose(r, n) == n <= r.att + r.vrf + 1 /\ n <= r.att + MaxReplay
Before == {"source", "remote", "uploading"}
RowBudget(r, n) ==
    /\ n \in Nat /\ n <= MaxAttempts + MaxReplay
    /\ r.state \in Runnable => Tight(r, n)
    /\ r.state = Running => r.vrf < MaxReplay
    /\ r.state \in {Running, VerifyingRemote, RestartRequired, Failed} => Loose(r, n)
Used(t) == spent[t].uploads
MaySend(h) == threads[h].pc \in Before \/ (At(h, "replay") /\ Current(h))
Budget ==
    /\ \A t \in Task : RowBudget(rows[t], Used(t))
    /\ \A h \in Thread : MaySend(h) => Tight(SnapOf(h), Used(threads[h].id))

-----------------------------------------------------------------------------
(* What the operators on threads and rows do *)

LEMMA FinishIs ==
    ASSUME TypeInv, NEW h \in Thread, Finish(h)
    PROVE  /\ threads'[h] = IdleThread /\ threads'[h].pc = "idle" /\ threads'[h].id = NoTask
           /\ threads'[h].todo = {}
           /\ \A k \in Thread \ {h} : threads'[k] = threads[k]
BY DEF TypeInv, Finish, IdleThread

LEMMA GotoIs ==
    ASSUME TypeInv, NEW h \in Thread, NEW pc, Goto(h, pc)
    PROVE  /\ threads'[h].pc = pc /\ threads'[h].id = threads[h].id
           /\ threads'[h].row = SnapOf(h) /\ threads'[h].got = threads[h].got
           /\ threads'[h].todo = threads[h].todo
           /\ \A k \in Thread \ {h} : threads'[k] = threads[k]
<1>1. threads'[h] = [threads[h] EXCEPT !.pc = pc] /\ \A k \in Thread \ {h} : threads'[k] = threads[k]
  BY DEF TypeInv, Goto
<1> QED BY <1>1, ThreadsSafe DEF SafeThread, ThreadState, SnapOf

LEMMA GotoWithIs ==
    ASSUME TypeInv, NEW h \in Thread, NEW pc, NEW got, GotoWith(h, pc, got)
    PROVE  /\ threads'[h].pc = pc /\ threads'[h].id = threads[h].id
           /\ threads'[h].row = SnapOf(h) /\ threads'[h].got = got
           /\ threads'[h].todo = threads[h].todo
           /\ \A k \in Thread \ {h} : threads'[k] = threads[k]
<1>1. /\ threads'[h] = [[threads[h] EXCEPT !.pc = pc] EXCEPT !.got = got]
      /\ \A k \in Thread \ {h} : threads'[k] = threads[k]
  BY DEF TypeInv, GotoWith
<1> QED BY <1>1, ThreadsSafe DEF SafeThread, ThreadState, SnapOf

LEMMA StartIs ==
    ASSUME TypeInv, NEW h \in Thread, NEW pc, NEW t, NEW r, Start(h, pc, t, r)
    PROVE  /\ threads'[h].pc = pc /\ threads'[h].id = t
           /\ threads'[h].row = r /\ threads'[h].got = NoResult
           /\ threads'[h].todo = {}
           /\ \A k \in Thread \ {h} : threads'[k] = threads[k]
<1>1. /\ threads'[h] = [IdleThread EXCEPT !.pc = pc, !.id = t, !.row = r]
      /\ \A k \in Thread \ {h} : threads'[k] = threads[k]
  BY DEF TypeInv, Start
<1> QED BY <1>1 DEF IdleThread

(* A thread goes on with the row it has just written. *)
GoesOn(h, pc, new) == threads' = [threads EXCEPT ![h].pc = pc, ![h].row = new]
LEMMA GoesOnIs ==
    ASSUME TypeInv, NEW h \in Thread, NEW pc, NEW new, GoesOn(h, pc, new)
    PROVE  /\ threads'[h].pc = pc /\ threads'[h].id = threads[h].id
           /\ threads'[h].row = new /\ threads'[h].got = threads[h].got
           /\ threads'[h].todo = threads[h].todo
           /\ \A k \in Thread \ {h} : threads'[k] = threads[k]
<1>1. /\ threads'[h] = [[threads[h] EXCEPT !.pc = pc] EXCEPT !.row = new]
      /\ \A k \in Thread \ {h} : threads'[k] = threads[k]
  BY DEF TypeInv, GoesOn
<1> DEFINE q == [threads[h] EXCEPT !.pc = pc]
<1>2. /\ q.pc = pc /\ q.id = threads[h].id /\ q.got = threads[h].got /\ q.todo = threads[h].todo
      /\ q = [pc |-> q.pc, id |-> q.id, row |-> q.row, got |-> q.got, todo |-> q.todo]
  BY ThreadsSafe DEF SafeThread, ThreadState
<1>3. threads'[h] = [q EXCEPT !.row = new]
  BY <1>1
<1> HIDE DEF q
<1>4. [q EXCEPT !.row = new] = [pc |-> q.pc, id |-> q.id, row |-> new, got |-> q.got, todo |-> q.todo]
  BY <1>2
<1> QED BY <1>1, <1>2, <1>3, <1>4

(* What is written is written over the snapshot. *)
LEMMA CurrentIs ==
    ASSUME IInv, NEW h \in Thread, ~Idle(h), ~At(h, "prepared"), Current(h)
    PROVE  threads[h].id \in Task /\ rows[threads[h].id] = SnapOf(h)
<1>1. threads[h].id \in Task
  BY ThreadsSafe DEF IInv, Idle
<1>2. Agrees(threads[h], rows[threads[h].id])
  BY DEF IInv, Snapshots, Idle
<1> QED BY <1>1, <1>2 DEF Agrees, Current, At, SnapOf

Put(h, new) == /\ rows'[threads[h].id] = new
               /\ \A t \in Task \ {threads[h].id} : rows'[t] = rows[t]

LEMMA TransitionIs ==
    ASSUME IInv, NEW h \in Thread, ~Idle(h), ~At(h, "prepared"), NEW new, Transition(h, new)
    PROVE  \/ ~Accepted(h, new) /\ rows' = rows
           \/ /\ Accepted(h, new) /\ Current(h)
              /\ threads[h].id \in Task /\ rows[threads[h].id] = SnapOf(h)
              /\ Put(h, new)
<1>1. CASE Accepted(h, new)
  <2>1. Current(h)
    BY <1>1 DEF Accepted
  <2>2. threads[h].id \in Task /\ rows[threads[h].id] = SnapOf(h)
    BY <2>1, CurrentIs
  <2>3. rows' = [rows EXCEPT ![threads[h].id] = new]
    BY <1>1 DEF Transition
  <2>4. Put(h, new)
    BY <2>2, <2>3 DEF IInv, TypeInv, Put
  <2> QED BY <1>1, <2>1, <2>2, <2>4
<1>2. CASE ~Accepted(h, new)
  BY <1>2 DEF Transition
<1> QED BY <1>1, <1>2

LEMMA PatchIs ==
    ASSUME IInv, NEW h \in Thread, ~Idle(h), ~At(h, "prepared"), NEW new, Patch(h, new)
    PROVE  \/ rows' = rows /\ ~(Current(h) /\ SnapOf(h).state = new.state)
           \/ /\ Current(h)
              /\ threads[h].id \in Task /\ rows[threads[h].id] = SnapOf(h)
              /\ SnapOf(h).state = new.state
              /\ Put(h, new)
<1>1. CASE Current(h) /\ rows[threads[h].id].state = new.state
  <2>1. threads[h].id \in Task /\ rows[threads[h].id] = SnapOf(h)
    BY <1>1, CurrentIs
  <2>2. rows' = [rows EXCEPT ![threads[h].id] = new]
    BY <1>1 DEF Patch
  <2>3. Put(h, new)
    BY <2>1, <2>2 DEF IInv, TypeInv, Put
  <2> QED BY <1>1, <2>1, <2>3
<1>2. CASE ~(Current(h) /\ rows[threads[h].id].state = new.state)
  <2>1. rows' = rows
    BY <1>2 DEF Patch
  <2> QED BY <1>2, <2>1, CurrentIs
<1> QED BY <1>1, <1>2

(* A thread that executes has a snapshot of its Running row, and until      *)
(* recovery overtakes it, that row as it is.                                *)
LEMMA ExecAt ==
    ASSUME IInv, NEW h \in Thread, InExec(h)
    PROVE  /\ ~Idle(h) /\ ~At(h, "prepared")
           /\ SnapOf(h).state = Running /\ threads[h].id \in Task
<1>1. ~Idle(h) /\ ~At(h, "prepared")
  BY DEF InExec, ExecPC, Idle, At
<1> QED BY <1>1, ThreadsSafe, SnapshotAt DEF InExec, IInv

LEMMA ExecCurrent ==
    ASSUME IInv, ~overtaken, NEW h \in Thread, InExec(h)
    PROVE  Current(h) /\ rows[threads[h].id] = SnapOf(h)
<1>1. Current(h)
  BY DistinctStates DEF IInv, Execution, Owns, Current
<1> QED BY <1>1, ExecAt, CurrentIs

LEMMA FromRunning ==
    /\ \A to \in State \ {Pending, Running} : CanTransition(Running, to)
    /\ \A to \in {Running, WaitingForNetwork, RestartRequired, Failed, Canceled} : CanTransition(Pending, to)
BY DEF State, CanTransition, Successors, Pending, Running, WaitingForNetwork,
       BackingOff, VerifyingRemote, RestartRequired, Completed, Failed, Canceled

LEMMA ExecWrites ==
    ASSUME IInv, NEW h \in Thread, InExec(h), Current(h),
           NEW new, new.state \in State \ {Pending, Running},
           Transition(h, new)
    PROVE  Put(h, new)
<1>1. rows[threads[h].id] = SnapOf(h)
  BY ExecAt, CurrentIs
<1>2. Accepted(h, new)
  BY <1>1, ExecAt, FromRunning DEF Accepted
<1> QED BY <1>2, ExecAt, TransitionIs

LEMMA DistinctNames ==
    /\ Pending \notin {Running, WaitingForNetwork, BackingOff, VerifyingRemote, RestartRequired,
                       Completed, Failed, Canceled}
    /\ Running \notin {WaitingForNetwork, BackingOff, VerifyingRemote, RestartRequired,
                       Completed, Failed, Canceled}
    /\ VerifyingRemote \notin {WaitingForNetwork, BackingOff, RestartRequired, Completed, Failed, Canceled}
    /\ RestartRequired \notin {WaitingForNetwork, BackingOff, Completed, Failed, Canceled}
    /\ {Completed, Canceled} \cap {WaitingForNetwork, BackingOff, Failed} = {}
    /\ Completed # Canceled /\ Failed \notin {WaitingForNetwork, BackingOff}
    /\ {"absent", "cleared"} \cap State = {}
    /\ {Pending, Running} \subseteq State
BY DEF State, Pending, Running, WaitingForNetwork,
       BackingOff, VerifyingRemote, RestartRequired, Completed, Failed, Canceled

-----------------------------------------------------------------------------
(* Who minds a row *)

Held == {Running, Pending}

CareStep(h) ==
    /\ \A k \in Thread \ {h} : threads'[k] = threads[k]
    /\ \A t \in Task : Minds(h, t)' \/ (rows'[t] = rows[t] /\ ~Minds(h, t))

LEMMA CareKeeps ==
    ASSUME NEW h \in Thread, RowsOwned, CareStep(h), ~startup, refused \subseteq refused'
    PROVE  RowsOwned'
<1>1. \A t \in Task : Stranded(t) \/ \E k \in Thread : Minds(k, t)
  BY DEF RowsOwned
<1>2. ASSUME NEW t \in Task
      PROVE  Stranded(t)' \/ \E k \in Thread : Minds(k, t)'
  <2>1. CASE Minds(h, t)'
    BY <2>1
  <2>2. CASE ~Minds(h, t)'
    <3>1. rows'[t] = rows[t] /\ ~Minds(h, t)
      BY <2>2 DEF CareStep
    <3>2. CASE Stranded(t)
      BY <3>1, <3>2 DEF Stranded
    <3>3. ASSUME NEW k \in Thread, Minds(k, t)
          PROVE  Minds(k, t)'
      <4>1. threads'[k] = threads[k]
        BY <3>1, <3>3 DEF CareStep
      <4> QED BY <3>1, <3>3, <4>1 DEF Minds, Executes, WillRun, At, SnapOf
    <3> QED BY <1>1, <3>2, <3>3
  <2> QED BY <2>1, <2>2
<1> QED BY <1>2 DEF RowsOwned

(* A row that is neither is nobody's. *)
LEMMA NotHeld == \A h, t : rows[t].state \notin Held => Minds(h, t)
BY DEF Minds, Held

LEMMA MindsOnly ==
    ASSUME IInv, NEW h \in Thread, NEW t \in Task, rows[t].state \in Held, Minds(h, t)
    PROVE  /\ t = threads[h].id
           /\ At(h, "prepared") \/ (threads[h].pc \in RunPC \cup ExecPC /\ Current(h))
<1>1. Executes(h, t) \/ WillRun(h, t)
  BY DEF Minds, Held
<1>2. rows[t].state \in State
  BY DistinctNames DEF Held
<1> QED BY <1>1, <1>2 DEF Executes, WillRun, RunPC, At, Current, SnapOf

(* A thread ends with its row out of hand, or when the row is not its own. *)
LEMMA CareEnd ==
    ASSUME IInv, NEW h \in Thread, ~Idle(h), ~At(h, "prepared"), Finish(h),
           NEW new, new.state \notin Held,
           Transition(h, new) \/ Patch(h, new),
           Current(h) /\ SnapOf(h).state \in Held => Put(h, new)
    PROVE  CareStep(h)
<1>1. rows' = rows \/ (threads[h].id \in Task /\ Put(h, new))
  BY TransitionIs, PatchIs
<1>2. ASSUME NEW t \in Task, ~Minds(h, t)'
      PROVE  rows'[t] = rows[t] /\ ~Minds(h, t)
  <2>1. rows'[t].state \in Held
    BY <1>2 DEF Minds, Held
  <2>2. ~(t = threads[h].id /\ Put(h, new))
    BY <2>1 DEF Put
  <2>3. rows'[t] = rows[t]
    BY <1>1, <2>2 DEF Put
  <2>4. ASSUME Minds(h, t) PROVE FALSE
    <3>1. t = threads[h].id /\ Current(h)
      BY <2>1, <2>3, <2>4, MindsOnly
    <3>2. SnapOf(h).state \in Held
      BY <2>1, <2>3, <3>1, CurrentIs
    <3> QED BY <2>2, <3>1, <3>2
  <2> QED BY <2>3, <2>4
<1> QED BY <1>2, FinishIs DEF CareStep, IInv

LEMMA CareGo ==
    ASSUME IInv, NEW h \in Thread, ~Idle(h), ~At(h, "prepared"), rows' = rows,
           \A k \in Thread \ {h} : threads'[k] = threads[k],
           threads'[h].id = threads[h].id, threads'[h].row = SnapOf(h),
           threads[h].pc \in RunPC => threads'[h].pc \in RunPC,
           threads[h].pc \in ExecPC => threads'[h].pc \in ExecPC
    PROVE  CareStep(h)
<1>1. ASSUME NEW t \in Task, Minds(h, t)
      PROVE  Minds(h, t)'
  BY <1>1 DEF Minds, Executes, WillRun, At, SnapOf, RunPC
<1> QED BY <1>1 DEF CareStep

(* A thread that had nothing in hand. *)
LEMMA CareFresh ==
    ASSUME IInv, NEW h \in Thread, Idle(h),
           \A k \in Thread \ {h} : threads'[k] = threads[k],
           \A t \in Task : rows'[t] = rows[t] \/ rows'[t].state \notin Held \/ Minds(h, t)'
    PROVE  CareStep(h)
<1>1. ASSUME NEW t \in Task, rows'[t] = rows[t], ~Minds(h, t)'
      PROVE  ~Minds(h, t)
  <2>1. rows[t].state \in Held
    BY <1>1 DEF Minds, Held
  <2> QED BY <2>1, MindsOnly DEF Idle, At, RunPC, ExecPC
<1>2. \A t \in Task : rows'[t].state \notin Held => Minds(h, t)'
  BY DEF Minds, Held
<1> QED BY <1>1, <1>2 DEF CareStep

LEMMA CareReject ==
    ASSUME IInv, NEW h \in Thread, ~Idle(h), ~At(h, "prepared"),
           NEW to \in State \ Held, Reject(h, to),
           SnapOf(h).state = Pending => to \in {WaitingForNetwork, RestartRequired, Failed}
    PROVE  CareStep(h)
<1> DEFINE new == Stepped(SnapOf(h), to)
<1>1. new.state = to
  BY ThreadsSafe DEF IInv, Stepped, SafeRow, Row
<1>2. Transition(h, new) /\ Finish(h)
  BY DEF Reject
<1> HIDE DEF new
<1>3. ASSUME Current(h), SnapOf(h).state \in Held
      PROVE  Put(h, new)
  <2>1. rows[threads[h].id] = SnapOf(h)
    BY <1>3, CurrentIs
  <2>2. CanTransition(SnapOf(h).state, to)
    BY <1>3, FromRunning DEF Held
  <2>3. Accepted(h, new)
    BY <1>1, <1>3, <2>1, <2>2 DEF Accepted
  <2> QED BY <1>2, <2>3, TransitionIs
<1> QED BY <1>1, <1>2, <1>3, CareEnd

LEMMA CareExec ==
    ASSUME IInv, NEW h \in Thread, InExec(h), Finish(h), NEW new, new.state \in State \ Held,
           Transition(h, new)
    PROVE  CareStep(h)
BY ExecAt, ExecWrites, CareEnd DEF Held

LEMMA CareAdmit == ASSUME IInv, NEW h \in Thread, Admit(h) PROVE CareStep(h)
<1>1. threads[h].pc \in RunPC /\ ~Idle(h) /\ ~At(h, "prepared")
  BY DEF Admit, RunPC, Idle, At
<1>2. CASE Reject(h, Failed) \/ Reject(h, RestartRequired) \/ Reject(h, WaitingForNetwork)
  BY <1>1, <1>2, CareReject, DistinctNames DEF Held, State
<1>3. CASE Finish(h) /\ UNCHANGED rows /\ SnapOf(h).state # Pending
  <2>1. SnapOf(h).state \notin Held
    BY <1>1, <1>3, SnapshotAt, DistinctStates DEF Held
  <2>2. Transition(h, rows[threads[h].id]) \/ ~Current(h) \/ rows[threads[h].id] = SnapOf(h)
    BY <1>1, CurrentIs
  <2>3. ASSUME NEW t \in Task, ~Minds(h, t)'
        PROVE  rows'[t] = rows[t] /\ ~Minds(h, t)
    <3>1. rows'[t] = rows[t] /\ rows[t].state \in Held
      BY <1>3, <2>3 DEF Minds, Held
    <3>2. ASSUME Minds(h, t) PROVE FALSE
      BY <1>1, <2>1, <3>1, <3>2, MindsOnly, CurrentIs
    <3> QED BY <3>1, <3>2
  <2> QED BY <1>3, <2>3, FinishIs DEF CareStep, IInv
<1>4. CASE (Goto(h, "preflight") \/ Goto(h, "gate")) /\ UNCHANGED rows
  BY <1>1, <1>4, GotoIs, CareGo DEF IInv, RunPC, ExecPC
<1> QED BY <1>2, <1>3, <1>4 DEF Admit

LEMMA CarePreflight == ASSUME IInv, NEW h \in Thread, Preflight(h) PROVE CareStep(h)
<1>1. threads[h].pc \in RunPC /\ threads[h].pc \notin ExecPC /\ ~Idle(h) /\ ~At(h, "prepared")
  BY DEF Preflight, RunPC, ExecPC, Idle, At
<1>2. CASE Reject(h, RestartRequired)
  BY <1>1, <1>2, CareReject, DistinctNames DEF Held, State
<1>3. CASE Goto(h, "gate") /\ UNCHANGED rows
  BY <1>1, <1>3, GotoIs, CareGo DEF IInv, RunPC
<1> QED BY <1>2, <1>3 DEF Preflight

LEMMA CareGate == ASSUME IInv, NEW h \in Thread, Gate(h) PROVE CareStep(h)
<1> DEFINE running == Stepped(SnapOf(h), Running)
<1>1. threads[h].pc \in RunPC /\ ~Idle(h) /\ ~At(h, "prepared") /\ ~InExec(h)
  BY DEF Gate, RunPC, Idle, At, InExec, ExecPC
<1>2. SnapOf(h).state \in Runnable /\ threads[h].id \in Task
  BY <1>1, SnapshotAt, ThreadsSafe DEF IInv, Idle
<1>3. running.state = Running /\ running.rev = SnapOf(h).rev + 1
  BY ThreadsSafe DEF IInv, Stepped, SafeRow, Row
<1>4. ASSUME NEW t \in Task, rows[t].state \in Held, Minds(h, t)
      PROVE  t = threads[h].id /\ rows[t].state = Pending /\ Current(h)
  <2>1. t = threads[h].id /\ Current(h)
    BY <1>1, <1>4, MindsOnly
  <2>2. rows[t] = SnapOf(h)
    BY <1>1, <2>1, CurrentIs
  <2> QED BY <1>2, <1>4, <2>1, <2>2, DistinctStates DEF Held
<1>5. CASE ~GateOpen(h)
  <2>1. ASSUME Minds(h, threads[h].id), rows[threads[h].id].state = Pending
        PROVE  FALSE
    <3>1. PICK u \in Task : u # threads[h].id /\ rows[u].state \in {Running, VerifyingRemote, RestartRequired}
      BY <1>5 DEF GateOpen, Rivals, RivalResults, RestartsWithResult, InState
    <3>2. u \in Live /\ threads[h].id \in Live
      BY <1>2, <2>1, <3>1, DistinctNames DEF Live, State
    <3> QED BY <3>1, <3>2 DEF IInv, SingleIntent
  <2>2. /\ Finish(h)
        /\ rows' = [t \in Task |-> IF t \in RivalResults(h)
                                   THEN Stepped(rows[t], VerifyingRemote) ELSE rows[t]]
    BY <1>5 DEF Gate
  <2>3. \A t \in RestartsWithResult : Stepped(rows[t], VerifyingRemote).state = VerifyingRemote
    BY DEF IInv, TypeInv, RestartsWithResult, InState, Stepped, SafeRow, Row
  <2>4. ASSUME NEW t \in Task, ~Minds(h, t)'
        PROVE  rows'[t] = rows[t] /\ ~Minds(h, t)
    <3>1. rows'[t].state \in Held
      BY <2>4 DEF Minds, Held
    <3>2. rows'[t] = rows[t]
      BY <2>2, <2>3, <3>1, DistinctNames DEF RivalResults, Held
    <3> QED BY <1>4, <2>1, <3>1, <3>2
  <2> QED BY <2>2, <2>4, FinishIs DEF CareStep, IInv
<1>6. CASE GateOpen(h) /\ ~Accepted(h, running)
  <2>1. Finish(h) /\ rows' = rows
    BY <1>1, <1>6, TransitionIs DEF Gate
  <2>2. ASSUME NEW t \in Task, ~Minds(h, t)'
        PROVE  rows'[t] = rows[t] /\ ~Minds(h, t)
    <3>1. rows[t].state \in Held
      BY <2>1, <2>2 DEF Minds, Held
    <3>2. ASSUME Minds(h, t) PROVE FALSE
      BY <1>3, <1>4, <1>6, <3>1, <3>2, FromRunning DEF Accepted
    <3> QED BY <2>1, <3>2
  <2> QED BY <2>1, <2>2, FinishIs DEF CareStep, IInv
<1>7. CASE GateOpen(h) /\ Accepted(h, running)
  <2>1. Put(h, running)
    BY <1>1, <1>7, TransitionIs DEF Gate
  <2>2. /\ threads'[h].pc = "source" /\ threads'[h].id = threads[h].id /\ threads'[h].row = running
        /\ \A k \in Thread \ {h} : threads'[k] = threads[k]
    <3>1. GoesOn(h, "source", running)
      BY <1>7 DEF Gate, GoesOn
    <3> QED BY <3>1, GoesOnIs DEF IInv
  <2> HIDE DEF running
  <2>3. Minds(h, threads[h].id)'
    BY <1>3, <2>1, <2>2, DistinctNames DEF Put, Minds, Executes, ExecPC, SnapOf
  <2>4. ASSUME NEW t \in Task, t # threads[h].id, ~Minds(h, t)'
        PROVE  rows'[t] = rows[t] /\ ~Minds(h, t)
    <3>1. rows'[t] = rows[t]
      BY <2>1, <2>4 DEF Put
    <3>2. rows[t].state \in Held
      BY <2>4, <3>1 DEF Minds, Held
    <3> QED BY <1>4, <2>4, <3>1, <3>2
  <2> QED BY <2>2, <2>3, <2>4 DEF CareStep
<1> QED BY <1>5, <1>6, <1>7

(* Every ending of the executing chain takes the row out of hand. *)
LEMMA CareSettleError ==
    ASSUME IInv, NEW h \in Thread, InExec(h), NEW e, SettleError(h, e)
    PROVE  CareStep(h)
<1> DEFINE r == SnapOf(h)
           d == Classify(e, r.op, r.att)
           q == Stepped(r, TargetOf(d))
           new == [q EXCEPT !.att = IF d.consumesBudget THEN @ + 1 ELSE @]
<1>1. TargetOf(d) \in State \ Held
  BY DEF TargetOf, State, Held, Pending, Running, WaitingForNetwork, BackingOff, VerifyingRemote, Failed
<1>2. new.state = TargetOf(d)
  <2>1. r \in Row
    BY RowTypes DEF IInv
  <2> HIDE DEF d
  <2> QED BY <2>1 DEF Stepped, Row
<1>3. Transition(h, new) /\ Finish(h)
  BY DEF SettleError
<1> HIDE DEF new, d
<1> QED BY <1>1, <1>2, <1>3, CareExec

LEMMA CareRejectExec ==
    ASSUME IInv, NEW h \in Thread, InExec(h), NEW to \in State \ Held, Reject(h, to)
    PROVE  CareStep(h)
BY ExecAt, CareReject, DistinctNames

LEMMA CareGoExec ==
    ASSUME IInv, NEW h \in Thread, InExec(h), NEW pc \in ExecPC, NEW got,
           Goto(h, pc) \/ GotoWith(h, pc, got), rows' = rows
    PROVE  CareStep(h)
<1>1. /\ threads'[h].pc = pc /\ threads'[h].id = threads[h].id /\ threads'[h].row = SnapOf(h)
      /\ \A k \in Thread \ {h} : threads'[k] = threads[k]
  BY GotoIs, GotoWithIs DEF IInv
<1>2. threads[h].pc \notin RunPC
  BY DEF InExec, ExecPC, RunPC
<1> QED BY <1>1, <1>2, ExecAt, CareGo

LEMMA CareCheckSource == ASSUME IInv, NEW h \in Thread, CheckSource(h) PROVE CareStep(h)
<1>1. InExec(h) /\ "remote" \in ExecPC /\ RestartRequired \in State \ Held
  BY DistinctNames DEF CheckSource, At, InExec, ExecPC, Held, State
<1> QED BY <1>1, CareRejectExec, CareGoExec DEF CheckSource

LEMMA CareCheckRemote == ASSUME IInv, NEW h \in Thread, CheckRemote(h) PROVE CareStep(h)
<1>1. InExec(h) /\ {"uploading", "completed"} \subseteq ExecPC /\ RestartRequired \in State \ Held
  BY DistinctNames DEF CheckRemote, At, InExec, ExecPC, Held, State
<1>2. CASE \E e : SettleError(h, e)
  BY <1>1, <1>2, CareSettleError
<1>3. CASE Goto(h, "uploading") /\ UNCHANGED rows
  BY <1>1, <1>3, CareGoExec
<1>4. CASE Reject(h, RestartRequired)
  BY <1>1, <1>4, CareRejectExec
<1>5. CASE UNCHANGED rows /\ \E f : GotoWith(h, "completed", ResultOf(f))
  BY <1>1, <1>5, CareGoExec
<1>6. CASE /\ Transition(h, [Stepped(SnapOf(h), RestartRequired) EXCEPT !.conflict = TRUE])
           /\ Finish(h)
  <2> DEFINE new == [Stepped(SnapOf(h), RestartRequired) EXCEPT !.conflict = TRUE]
  <2>1. new.state = RestartRequired
    BY RowTypes DEF IInv, Stepped, Row
  <2> HIDE DEF new
  <2> QED BY <1>1, <1>6, <2>1, CareExec DEF new
<1>7. CASE CreateCheck(h)
  BY <1>3, <1>4, <1>5, <1>6, <1>7 DEF CreateCheck
<1>8. CASE UpdateCheck(h)
  BY <1>2, <1>3, <1>4, <1>8 DEF UpdateCheck
<1> QED BY <1>2, <1>7, <1>8 DEF CheckRemote

LEMMA CareUpload ==
    ASSUME IInv, NEW h \in Thread, UploadCommits(h) \/ UploadFails(h) \/ UploadAnswered(h)
    PROVE  CareStep(h)
<1>1. InExec(h) /\ {"stored", "completed", "partial"} \subseteq ExecPC
  BY DEF UploadCommits, UploadFails, UploadAnswered, At, InExec, ExecPC
<1>2. CASE \E e : SettleError(h, e)
  BY <1>1, <1>2, CareSettleError
<1>3. CASE UNCHANGED rows /\ \E got, pc : pc \in ExecPC /\ (Goto(h, pc) \/ GotoWith(h, pc, got))
  BY <1>1, <1>3, CareGoExec
<1>4. UploadCommits(h) => UNCHANGED rows /\ \E got : GotoWith(h, "stored", got)
  BY DEF UploadCommits
<1>5. UploadFails(h) => \E e : SettleError(h, e)
  BY DEF UploadFails
<1>6. UploadAnswered(h) => \/ \E e : SettleError(h, e)
                           \/ UNCHANGED rows /\ Goto(h, "partial")
                           \/ UNCHANGED rows /\ \E got : GotoWith(h, "completed", got)
  BY DEF UploadAnswered
<1> QED BY <1>1, <1>2, <1>3, <1>4, <1>5, <1>6

(* What a settlement writes. *)
Done(h) == [WithResult(SnapOf(h), Completed, threads[h].got.fid) EXCEPT !.vrf = 0]
ToVerify(h) == WithResult(SnapOf(h), VerifyingRemote, threads[h].got.fid)

LEMMA SettlementRows ==
    ASSUME TypeInv, NEW h \in Thread
    PROVE  /\ Done(h).state = Completed /\ Done(h).ver = SnapOf(h).ver
           /\ Done(h).att = SnapOf(h).att /\ Done(h).vrf = 0
           /\ ToVerify(h).state = VerifyingRemote /\ ToVerify(h).ver = SnapOf(h).ver
           /\ ToVerify(h).att = SnapOf(h).att /\ ToVerify(h).vrf = SnapOf(h).vrf
<1>1. SnapOf(h) \in Row
  BY RowTypes
<1> QED BY <1>1 DEF Done, ToVerify, WithResult, Stepped, Row

LEMMA CareSettle ==
    ASSUME IInv, NEW h \in Thread, SettleUpload(h) \/ PersistPartial(h)
    PROVE  CareStep(h)
<1>1. InExec(h) /\ Finish(h)
  BY DEF SettleUpload, PersistPartial, At, InExec, ExecPC
<1>2. Transition(h, Done(h)) \/ Transition(h, ToVerify(h))
  BY DEF SettleUpload, PersistPartial, Settle, Done, ToVerify
<1>3. {Completed, VerifyingRemote} \subseteq State \ Held
  BY DistinctNames DEF Held, State
<1> QED BY <1>1, <1>2, <1>3, SettlementRows, CareExec DEF IInv

(* A row that is verified is in nobody's hands. *)
LEMMA CareVerify ==
    ASSUME IInv, NEW h \in Thread,
           VerifyRead(h) \/ VerifyCommitted(h) \/ VerifyNotCommitted(h) \/ VerifyUndecided(h)
    PROVE  CareStep(h)
<1>1. threads[h].pc \in VerifyPC
  BY DEF VerifyRead, VerifyCommitted, VerifyNotCommitted, VerifyUndecided, At, VerifyPC
<1>2. /\ ~Idle(h) /\ ~At(h, "prepared") /\ threads[h].pc \notin RunPC \cup ExecPC
      /\ SnapOf(h).state = VerifyingRemote
  BY <1>1, SnapshotAt DEF VerifyPC, RunPC, ExecPC, Idle, At
<1>3. ASSUME NEW t \in Task, rows[t].state \in Held
      PROVE  ~Minds(h, t)
  BY <1>2, <1>3, MindsOnly DEF At
<1>4. \A k \in Thread \ {h} : threads'[k] = threads[k]
  <2>1. CASE VerifyRead(h)
    <3>1. \E pc, got : Goto(h, pc) \/ GotoWith(h, pc, got)
      BY <2>1 DEF VerifyRead, VerifyById, VerifyByName, VerifyUpdate, Commits
    <3> QED BY <3>1, GotoIs, GotoWithIs DEF IInv
  <2>2. CASE VerifyCommitted(h) \/ VerifyUndecided(h)
    <3>1. Finish(h)
      BY <2>2 DEF VerifyCommitted, VerifyUndecided, Reject
    <3> QED BY <3>1, FinishIs DEF IInv
  <2>3. CASE VerifyNotCommitted(h)
    <3>1. Finish(h) \/ \E new : GoesOn(h, "replay", new)
      BY <2>3 DEF VerifyNotCommitted, GoesOn
    <3> QED BY <3>1, FinishIs, GoesOnIs DEF IInv
  <2> QED BY <2>1, <2>2, <2>3
<1>5. rows' = rows \/ \E new : new.state \notin Held /\ Put(h, new)
  <2>1. CASE VerifyRead(h)
    BY <2>1 DEF VerifyRead
  <2>2. CASE VerifyCommitted(h)
    BY <1>2, <2>2, SettlementRows, TransitionIs, DistinctNames
       DEF VerifyCommitted, Settle, Done, IInv, Held
  <2>3. CASE VerifyNotCommitted(h)
    <3> DEFINE next(to) == [WithResult(SnapOf(h), to, NoId) EXCEPT !.vrf = CountRound(SnapOf(h))]
    <3>1. PICK to \in {Failed, RestartRequired} : Transition(h, next(to))
      BY <2>3 DEF VerifyNotCommitted
    <3>2. next(to).state = to
      BY RowTypes DEF IInv, WithResult, Stepped, Row
    <3> HIDE DEF next
    <3> QED BY <1>2, <3>1, <3>2, TransitionIs, DistinctNames DEF Held
  <2>4. CASE VerifyUndecided(h)
    <3> DEFINE r == SnapOf(h)
               new == [r EXCEPT !.rev = @ + 1, !.vrf = @ + 1]
    <3>1. new.state = VerifyingRemote
      BY <1>2, RowTypes DEF IInv, Row
    <3>2. Stepped(r, Failed).state = Failed
      BY RowTypes DEF IInv, Stepped, Row
    <3>3. Transition(h, Stepped(r, Failed)) \/ Patch(h, new)
      BY <2>4 DEF VerifyUndecided, Reject
    <3> HIDE DEF new
    <3> QED BY <1>2, <3>1, <3>2, <3>3, TransitionIs, PatchIs, DistinctNames DEF Held
  <2> QED BY <2>1, <2>2, <2>3, <2>4
<1>6. ASSUME NEW t \in Task, ~Minds(h, t)'
      PROVE  rows'[t] = rows[t] /\ ~Minds(h, t)
  <2>1. rows'[t].state \in Held
    BY <1>6 DEF Minds, Held
  <2>2. rows'[t] = rows[t]
    BY <1>5, <2>1 DEF Put
  <2> QED BY <1>3, <2>1, <2>2
<1> QED BY <1>4, <1>6 DEF CareStep

LEMMA CareReplay == ASSUME IInv, NEW h \in Thread, Replay(h) PROVE CareStep(h)
<1> DEFINE pending == Stepped(SnapOf(h), Pending)
<1>1. /\ ~Idle(h) /\ ~At(h, "prepared") /\ threads[h].pc \notin RunPC \cup ExecPC
      /\ SnapOf(h).state = RestartRequired
  BY SnapshotAt DEF Replay, RunPC, ExecPC, Idle, At
<1>2. ASSUME NEW t \in Task, rows[t].state \in Held
      PROVE  ~Minds(h, t)
  BY <1>1, <1>2, MindsOnly
<1>3. pending.state = Pending /\ pending.rev = SnapOf(h).rev + 1
  BY RowTypes DEF IInv, Stepped, Row
<1> HIDE DEF pending
<1>4. CASE Accepted(h, pending)
  <2>1. Put(h, pending)
    BY <1>1, <1>4, TransitionIs DEF Replay, pending
  <2>2. /\ threads'[h].pc = "pickup" /\ threads'[h].id = threads[h].id /\ threads'[h].row = pending
        /\ \A k \in Thread \ {h} : threads'[k] = threads[k]
    <3>1. GoesOn(h, "pickup", pending)
      BY <1>4 DEF Replay, GoesOn, pending
    <3> QED BY <3>1, GoesOnIs DEF IInv
  <2>3. Minds(h, threads[h].id)'
    BY <1>3, <2>1, <2>2, DistinctNames DEF Put, Minds, WillRun, SnapOf
  <2>4. ASSUME NEW t \in Task, t # threads[h].id, ~Minds(h, t)'
        PROVE  rows'[t] = rows[t] /\ ~Minds(h, t)
    <3>1. rows'[t] = rows[t] /\ rows'[t].state \in Held
      BY <2>1, <2>4 DEF Put, Minds, Held
    <3> QED BY <1>2, <3>1
  <2> QED BY <2>2, <2>3, <2>4 DEF CareStep
<1>5. CASE ~Accepted(h, pending)
  <2>1. Finish(h) /\ rows' = rows
    BY <1>1, <1>5, TransitionIs DEF Replay, pending
  <2>2. ASSUME NEW t \in Task, ~Minds(h, t)'
        PROVE  rows'[t] = rows[t] /\ ~Minds(h, t)
    <3>1. rows'[t].state \in Held
      BY <2>2 DEF Minds, Held
    <3> QED BY <1>2, <2>1, <3>1
  <2> QED BY <2>1, <2>2, FinishIs DEF CareStep, IInv
<1> QED BY <1>4, <1>5

LEMMA CareRequeue ==
    ASSUME IInv, NEW h \in Thread, At(h, "retry") \/ At(h, "overwrite"), Requeue(h)
    PROVE  CareStep(h)
<1> DEFINE new == NewBudget(SnapOf(h))
<1>1. ~Idle(h) /\ ~At(h, "prepared") /\ threads[h].pc \notin RunPC \cup ExecPC
  BY DEF RunPC, ExecPC, Idle, At
<1>2. ASSUME NEW t \in Task, rows[t].state \in Held
      PROVE  ~Minds(h, t)
  BY <1>1, <1>2, MindsOnly
<1> HIDE DEF new
<1>3. CASE Accepted(h, new)
  <2>1. Put(h, new)
    BY <1>1, <1>3, TransitionIs DEF Requeue, new
  <2>2. /\ threads'[h].pc = "prepared" /\ threads'[h].id = threads[h].id
        /\ \A k \in Thread \ {h} : threads'[k] = threads[k]
    BY <1>3, GotoIs DEF Requeue, IInv, new
  <2>3. new.state = Pending
    BY RowTypes DEF new, NewBudget, Stepped, Row, IInv
  <2>4. Minds(h, threads[h].id)'
    BY <2>1, <2>2, <2>3, DistinctNames DEF Put, Minds, WillRun, At
  <2>5. ASSUME NEW t \in Task, t # threads[h].id, ~Minds(h, t)'
        PROVE  rows'[t] = rows[t] /\ ~Minds(h, t)
    <3>1. rows'[t] = rows[t] /\ rows'[t].state \in Held
      BY <2>1, <2>5 DEF Put, Minds, Held
    <3> QED BY <1>2, <3>1
  <2> QED BY <2>2, <2>4, <2>5 DEF CareStep
<1>4. CASE ~Accepted(h, new)
  <2>1. Finish(h) /\ rows' = rows
    BY <1>1, <1>4, TransitionIs DEF Requeue, new
  <2>2. ASSUME NEW t \in Task, ~Minds(h, t)'
        PROVE  rows'[t] = rows[t] /\ ~Minds(h, t)
    <3>1. rows'[t].state \in Held
      BY <2>2 DEF Minds, Held
    <3> QED BY <1>2, <2>1, <3>1
  <2> QED BY <2>1, <2>2, FinishIs DEF CareStep, IInv
<1> QED BY <1>3, <1>4

LEMMA RetrySnapshot ==
    ASSUME IInv, NEW h \in Thread, At(h, "retry") \/ At(h, "overwrite")
    PROVE  ~Idle(h) /\ ~At(h, "prepared") /\ SnapOf(h).state \in {Failed, RestartRequired}
BY SnapshotStatesAt DEF IInv, Snapshots, At, Idle

LEMMA CareRetry ==
    ASSUME IInv, NEW h \in Thread, AcceptRetry(h) \/ RequeueConflict(h)
    PROVE  CareStep(h)
<1>1. At(h, "retry") \/ At(h, "overwrite")
  BY DEF AcceptRetry, RequeueConflict
<1>2. ~Idle(h) /\ ~At(h, "prepared") /\ SnapOf(h).state \in {Failed, RestartRequired}
  BY <1>1, RetrySnapshot
<1>3. {Failed, RestartRequired} \subseteq State \ Held
  BY DistinctNames DEF Held, State
<1>4. CASE Requeue(h)
  BY <1>1, <1>4, CareRequeue
<1>5. CASE Reject(h, RestartRequired)
  BY <1>2, <1>3, <1>5, CareReject, DistinctNames
<1>6. CASE FailRetry(h)
  <2>1. Stepped(SnapOf(h), Failed).state = Failed
    BY RowTypes DEF IInv, Stepped, Row
  <2>2. Finish(h) /\ (Transition(h, Stepped(SnapOf(h), Failed)) \/ Patch(h, Stepped(SnapOf(h), Failed)))
    BY <1>6 DEF FailRetry
  <2> QED BY <1>2, <1>3, <2>1, <2>2, CareEnd
<1> QED BY <1>4, <1>5, <1>6 DEF AcceptRetry, RequeueConflict

LEMMA CarePrepared == ASSUME IInv, NEW h \in Thread, RunPrepared(h) PROVE CareStep(h)
<1> DEFINE t == threads[h].id
<1>1. ~Idle(h) /\ At(h, "prepared") /\ rows' = rows /\ t \in Task
  BY ThreadsSafe DEF RunPrepared, IInv, Idle, At
<1>2. \A k \in Thread \ {h} : threads'[k] = threads[k]
  BY StartIs, FinishIs DEF RunPrepared, IInv
<1>3. ASSUME NEW u \in Task, ~Minds(h, u)', Minds(h, u)
      PROVE  FALSE
  <2>1. rows[u].state \in Held
    BY <1>1, <1>3 DEF Minds, Held
  <2>2. u = t /\ rows[u].state = Pending
    <3>1. u = t
      BY <1>3, <2>1, MindsOnly
    <3>2. ~Executes(h, u)
      BY <1>1 DEF Executes, At, ExecPC
    <3> QED BY <1>3, <2>1, <3>1, <3>2 DEF Minds, Held
  <2>3. rows[t].state \in Runnable
    BY <2>2 DEF Runnable
  <2>4. Start(h, "runNow", t, rows[t])
    BY <2>3 DEF RunPrepared
  <2>5. threads'[h].pc = "runNow" /\ threads'[h].id = t /\ threads'[h].row = rows[t]
    BY <2>4, StartIs DEF IInv
  <2> QED BY <1>1, <1>3, <2>2, <2>5, DistinctNames DEF Minds, WillRun, SnapOf
<1> QED BY <1>1, <1>2, <1>3 DEF CareStep

LEMMA CareRename == ASSUME IInv, NEW h \in Thread, RenameRemote(h) PROVE CareStep(h)
<1>1. ~Idle(h) /\ ~At(h, "prepared") /\ threads[h].pc \notin RunPC \cup ExecPC /\ rows' = rows
  BY DEF RenameRemote, RunPC, ExecPC, Idle, At
<1>2. \A k \in Thread \ {h} : threads'[k] = threads[k]
  <2>1. Finish(h) \/ \E S : threads' = [threads EXCEPT ![h].todo = S]
    BY DEF RenameRemote
  <2> QED BY <2>1, FinishIs DEF IInv, TypeInv
<1>3. ASSUME NEW t \in Task, ~Minds(h, t)'
      PROVE  ~Minds(h, t)
  <2>1. rows[t].state \in Held
    BY <1>1, <1>3 DEF Minds, Held
  <2> QED BY <1>1, <2>1, MindsOnly
<1> QED BY <1>1, <1>2, <1>3 DEF CareStep

LEMMA CareThread ==
    ASSUME IInv, NEW h \in Thread, ThreadStep(h), ~PickupRefused(h)
    PROVE  CareStep(h)
BY CareAdmit, CarePreflight, CareGate, CareCheckSource, CareCheckRemote, CareUpload, CareSettle,
   CareVerify, CareReplay, CareRetry, CarePrepared, CareRename DEF ThreadStep

(* A thread whose pickup is refused leaves its row stranded. *)
LEMMA RefusedOwned ==
    ASSUME IInv, RowsOwned, NEW h \in Thread, PickupRefused(h)
    PROVE  RowsOwned'
<1>1. /\ rows' = rows /\ startup' = startup
      /\ refused' = refused \cup {<<threads[h].id, SnapOf(h).rev>>}
      /\ threads[h].pc \in {"pickup", "runNow"}
      /\ \A k \in Thread \ {h} : threads'[k] = threads[k]
  BY FinishIs DEF PickupRefused, Refuse, IInv
<1>2. ASSUME NEW t \in Task, Stranded(t)
      PROVE  Stranded(t)'
  BY <1>1, <1>2 DEF Stranded
<1>3. ASSUME NEW t \in Task, NEW k \in Thread, Minds(k, t)
      PROVE  Stranded(t)' \/ Minds(k, t)'
  <2>1. CASE rows[t].state \notin Held
    BY <1>1, <2>1 DEF Minds, Held
  <2>2. CASE k # h
    <3>1. threads'[k] = threads[k]
      BY <1>1, <2>2
    <3> QED BY <1>1, <1>3, <3>1 DEF Minds, Executes, WillRun, At, SnapOf
  <2>3. CASE rows[t].state \in Held /\ k = h
    <3>1. t = threads[h].id /\ SnapOf(h).rev = rows[t].rev
      BY <1>1, <1>3, <2>3 DEF Minds, Held, Executes, WillRun, At, ExecPC
    <3> QED BY <1>1, <2>3, <3>1 DEF Stranded, Held
  <2> QED BY <2>1, <2>2, <2>3
<1> QED BY <1>1, <1>2, <1>3 DEF RowsOwned

-----------------------------------------------------------------------------
(* Commands and jobs start from an idle thread *)

LEMMA CarePut ==
    ASSUME IInv, NEW h \in Thread, Idle(h), UNCHANGED threads,
           NEW t \in Task, NEW to, to \notin Held,
           rows' = [rows EXCEPT ![t] = Stepped(rows[t], to)]
    PROVE  CareStep(h)
<1>1. Stepped(rows[t], to).state = to
  BY DEF IInv, TypeInv, SafeRow, Row, Stepped
<1>2. \A u \in Task : rows'[u] = rows[u] \/ rows'[u].state \notin Held
  BY <1>1 DEF IInv, TypeInv
<1> QED BY <1>2, CareFresh

LEMMA CareLoad ==
    ASSUME IInv, NEW h \in Thread, Idle(h), UNCHANGED rows,
           UNCHANGED threads \/ \E pc, t, r : Start(h, pc, t, r)
    PROVE  CareStep(h)
BY CareFresh, StartIs DEF IInv

LEMMA CareOpen ==
    ASSUME IInv, NEW h \in Thread, Idle(h), NEW t \in Task, NEW r, r.state = Pending,
           Open(h, t, r)
    PROVE  CareStep(h)
<1>1. rows'[t] = r /\ \A u \in Task \ {t} : rows'[u] = rows[u]
  BY DEF Open, IInv, TypeInv
<1>2. /\ threads'[h].pc = "run" /\ threads'[h].id = t /\ threads'[h].row = r
      /\ \A k \in Thread \ {h} : threads'[k] = threads[k]
  BY StartIs DEF Open, IInv
<1>3. Minds(h, t)'
  BY <1>1, <1>2, DistinctNames DEF Minds, WillRun, SnapOf
<1> QED BY <1>1, <1>2, <1>3, CareFresh

LEMMA CareEnqueue ==
    ASSUME IInv, NEW h \in Thread, Idle(h), NEW n \in Intent, Enqueue(h, n)
    PROVE  CareStep(h)
<1>1. ASSUME NEW t \in RestartsWithResult, UNCHANGED threads,
             rows' = [rows EXCEPT ![t] = Stepped(rows[t], VerifyingRemote)]
      PROVE  CareStep(h)
  BY <1>1, CarePut, DistinctNames DEF RestartsWithResult, InState, Held
<1>2. ASSUME NEW t, Start(h, "run", t, rows[t]), UNCHANGED rows
      PROVE  CareStep(h)
  BY <1>2, CareLoad
<1>3. ASSUME NEW t \in Task, Open(h, t, Replanned(rows[t], n))
      PROVE  CareStep(h)
  BY <1>3, ReplannedSafe, CareOpen DEF IInv, TypeInv
<1>4. ASSUME NEW t \in Task, Open(h, t, Fresh(n))
      PROVE  CareStep(h)
  BY <1>4, FreshSafe, CareOpen
<1> QED BY <1>1, <1>2, <1>3, <1>4 DEF Enqueue

(* What the planner and the user ask for. *)
LEMMA Asked ==
    ASSUME IInv, NEW h \in Thread, (h = Cycle /\ PlanUpload) \/ UploadCommand(h)
    PROVE  \E n \in Intent : Enqueue(h, n) /\ n.ver = local
<1>1. CreateIntent(local) \in Intent /\ CreateIntent(local).ver = local
  BY DEF Intent, IInv, TypeInv, CreateIntent
<1>2. baseline.fid # NoId => /\ UpdateIntent(local, baseline) \in Intent
                             /\ UpdateIntent(local, baseline).ver = local
  BY DEF Intent, IInv, TypeInv, UpdateIntent, Result
<1> QED BY <1>1, <1>2 DEF PlanUpload, UploadCommand

LEMMA CareRetryOf ==
    ASSUME IInv, NEW h \in Thread, Idle(h), NEW t \in Task, PrepareRetry(h, t)
    PROVE  CareStep(h)
<1>1. ASSUME NEW to \in {Failed, RestartRequired}, UNCHANGED threads,
             rows' = [rows EXCEPT ![t] = Stepped(rows[t], to)]
      PROVE  CareStep(h)
  BY <1>1, CarePut, DistinctNames DEF Held
<1>2. CASE UNCHANGED rows /\ (UNCHANGED threads \/ Start(h, "retry", t, rows[t]))
  BY <1>2, CareLoad
<1> QED BY <1>1, <1>2 DEF PrepareRetry

LEMMA CareCancel ==
    ASSUME IInv, NEW h \in Thread, Idle(h),
           PromoteRestart \/ CancelOrphan \/ Cancel(h) \/ KeepBoth(h)
    PROVE  CareStep(h)
<1>1. PICK t \in Task, to \in {VerifyingRemote, Canceled} :
          rows' = [rows EXCEPT ![t] = Stepped(rows[t], to)] /\ UNCHANGED threads
  BY DEF PromoteRestart, CancelOrphan, Cancel, KeepBoth, NameConflicts, RestartsWithResult, InState
<1> QED BY <1>1, CarePut, DistinctNames DEF Held

LEMMA CareCommand == ASSUME IInv, NEW h \in Thread, Command(h) PROVE CareStep(h)
<1>1. Idle(h)
  BY DEF Command, UploadCommand, RetryTransfer, Overwrite, KeepBoth, Cancel, ClearHistory, CommandFree
<1>2. CASE UploadCommand(h)
  BY <1>1, <1>2, Asked, CareEnqueue
<1>3. CASE RetryTransfer(h)
  BY <1>1, <1>3, CareRetryOf DEF RetryTransfer, InState
<1>4. CASE Overwrite(h)
  <2>1. /\ rows' = rows
        /\ \E s : threads' = [threads EXCEPT ![h] = s]
    BY <1>4 DEF Overwrite
  <2> QED BY <1>1, <2>1, CareFresh DEF IInv, TypeInv
<1>5. CASE ClearHistory(h)
  <2>1. /\ threads' = threads
        /\ \E S : rows' = [t \in Task |-> IF rows[t].state \in S
                                          THEN [BlankRow EXCEPT !.state = "cleared"] ELSE rows[t]]
    BY <1>5 DEF ClearHistory
  <2>2. [BlankRow EXCEPT !.state = "cleared"].state \notin Held
    BY DistinctNames DEF BlankRow, Held
  <2>3. \A t \in Task : rows'[t] = rows[t] \/ rows'[t].state \notin Held
    BY <2>1, <2>2
  <2> QED BY <1>1, <2>1, <2>3, CareFresh
<1> QED BY <1>1, <1>2, <1>3, <1>4, <1>5, CareCancel DEF Command

LEMMA CareCycle == ASSUME IInv, CycleJob, ~RecoverStartup PROVE CareStep(Cycle)
<1>1. Idle(Cycle) /\ Cycle \in Thread
  BY Constants DEF CycleJob, RecoverStartup, PromoteRestart, ResumeVerifying, ResumeWaiting, ResumeBackoff,
         ResumeRow, CancelOrphan, PlanUpload, RetryFailed, CycleFree
<1>2. CASE ResumeVerifying \/ ResumeWaiting \/ ResumeBackoff
  <2>1. UNCHANGED rows /\ \E pc, t, r : Start(Cycle, pc, t, r)
    BY <1>2 DEF ResumeVerifying, ResumeWaiting, ResumeBackoff, ResumeRow
  <2> QED BY <1>1, <2>1, CareLoad
<1>3. CASE PlanUpload
  BY <1>1, <1>3, Asked, CareEnqueue
<1>4. CASE RetryFailed
  BY <1>1, <1>4, CareRetryOf DEF RetryFailed, InState
<1> QED BY <1>1, <1>2, <1>3, <1>4, CareCancel DEF CycleJob

(* Recovery leaves no row Running, and runs the one that is Pending. *)
LEMMA CareRecovery == ASSUME IInv, RecoverStartup PROVE RowsOwned'
<1>1. ASSUME NEW t \in Task, NEW u \in Task, rows[t].state \in Held, rows[u].state \in Held
      PROVE  t = u
  BY <1>1, DistinctNames DEF IInv, SingleIntent, Live, Held
<1>2. ASSUME \A u \in Task : Stranded(u)' \/ rows'[u].state \notin Held \/ Minds(Cycle, u)'
      PROVE  RowsOwned'
  <2>1. \A u \in Task : rows'[u].state \notin Held => Minds(Cycle, u)'
    BY DEF Minds, Held
  <2> QED BY <1>2, <2>1, Constants DEF RowsOwned
<1>3. CASE InState({Pending, Running}) = {} /\ UNCHANGED rows
  BY <1>2, <1>3 DEF InState, Held
<1>4. ASSUME NEW t \in Task, rows[t].state = Running,
             rows' = [rows EXCEPT ![t] = Stepped(rows[t], VerifyingRemote)]
      PROVE  RowsOwned'
  <2>1. Stepped(rows[t], VerifyingRemote).state = VerifyingRemote
    BY DEF IInv, TypeInv, SafeRow, Row, Stepped
  <2>2. \A u \in Task : rows'[u].state \notin Held
    BY <1>1, <1>4, <2>1, DistinctNames DEF IInv, TypeInv, Held
  <2> QED BY <1>2, <2>2
<1>5. ASSUME NEW t \in Task, rows[t].state = Pending, Start(Cycle, "run", t, rows[t]), UNCHANGED rows
      PROVE  RowsOwned'
  <2>1. threads'[Cycle].pc = "run" /\ threads'[Cycle].id = t /\ threads'[Cycle].row = rows[t]
    BY <1>5, StartIs, Constants DEF IInv
  <2>2. WillRun(Cycle, t)'
    BY <1>5, <2>1 DEF WillRun, SnapOf
  <2>3. \A u \in Task : rows'[u].state \in Held => u = t
    BY <1>1, <1>5 DEF Held
  <2> QED BY <1>2, <1>5, <2>2, <2>3, DistinctNames DEF Minds
<1>6. ASSUME NEW t \in Task, rows[t].state \in Held, Refuse(t, rows[t].rev), UNCHANGED rows
      PROVE  RowsOwned'
  <2>1. Stranded(t)'
    BY <1>6 DEF Stranded, Held, Refuse
  <2>2. \A u \in Task : rows'[u].state \in Held => u = t
    BY <1>1, <1>6
  <2> QED BY <1>2, <2>1, <2>2
<1> QED BY <1>3, <1>4, <1>5, <1>6 DEF RecoverStartup, InState, Held

LEMMA NextOwned ==
    ASSUME IInv, RowsOwned, [Next]_vars
    PROVE  RowsOwned'
<1>1. CASE RecoverStartup
  BY <1>1, CareRecovery
<1>2. ASSUME UNCHANGED <<startup, refused>>, NEW h \in Thread, CareStep(h)
      PROVE  RowsOwned'
  <2>1. CASE startup
    BY <1>2, <2>1 DEF RowsOwned
  <2> QED BY <1>2, <2>1, CareKeeps
<1>3. CASE CycleJob /\ ~RecoverStartup
  BY <1>2, <1>3, CareCycle, CycleKept, Constants DEF process
<1>4. ASSUME NEW h \in Thread, ThreadStep(h) \/ Command(h)
      PROVE  RowsOwned'
  <2>1. CASE PickupRefused(h)
    BY <2>1, RefusedOwned
  <2>2. CASE ~PickupRefused(h)
    <3>1. UNCHANGED <<startup, refused>>
      BY <1>4, <2>2, ProcessKept
    <3> QED BY <1>2, <1>4, <2>2, <3>1, CareThread, CareCommand
  <2> QED BY <2>1, <2>2
<1>5. CASE World \/ UNCHANGED vars
  <2>1. startup' \/ UNCHANGED <<rows, threads, startup, refused>>
    BY <1>5 DEF World, Crash, LocalEdit, LocalDelete, ForeignWrite, ForeignRemove,
                NetworkDown, NetworkUp, vars, process
  <2>2. CASE UNCHANGED <<rows, threads, startup, refused>>
    BY <2>2 DEF RowsOwned, Stranded, Minds, Executes, WillRun, At, SnapOf
  <2> QED BY <2>1, <2>2 DEF RowsOwned
<1> QED BY <1>1, <1>3, <1>4, <1>5 DEF Next

(* A row that is Running is executed by some thread of this process, and    *)
(* one that is Pending will be, unless its pickup was refused: the          *)
(* compare-and-set lets nobody but its thread write a Running row, every    *)
(* way out of the executing chain writes it, startup recovery turns what it *)
(* takes for interrupted to verification, and whoever makes a row Pending   *)
(* goes on to begin its activity.  A row that no activity could be begun    *)
(* for is the only one that stays behind.                                   *)
THEOREM HeldRowsOwned == Spec => []RowsOwned
<1>1. Init => RowsOwned
  BY DEF Init, RowsOwned
<1>2. IInv /\ RowsOwned /\ [Next]_vars => RowsOwned'
  BY NextOwned
<1> QED BY <1>1, <1>2, Inductive, PTL DEF Spec
-----------------------------------------------------------------------------
(* Where a step takes its thread *)

(* To pc, from wherever it is, with whatever it knows there. *)
Enters(h, pc) ==
    \/ Goto(h, pc) \/ (\E got : GotoWith(h, pc, got))
    \/ (\E t, r : Start(h, pc, t, r))
    \/ (\E new : GoesOn(h, pc, new))

LEMMA EntersIs ==
    ASSUME TypeInv, NEW h \in Thread, NEW pc, Enters(h, pc)
    PROVE  threads'[h].pc = pc
BY GotoIs, GotoWithIs, StartIs, GoesOnIs DEF Enters

Quiet == PC \ {"uploading", "stored", "completed", "committed"}

(* A step that neither sends nor learns of a result of an upload. *)
Rests(h) == Finish(h) \/ \E pc \in Quiet : Enters(h, pc)

LEMMA RestsIs ==
    ASSUME TypeInv, NEW h \in Thread, Rests(h)
    PROVE  threads'[h].pc \in Quiet
BY FinishIs, EntersIs DEF Rests, Quiet, PC

LEMMA QuietPCs ==
    {"preflight", "gate", "source", "remote", "partial", "notCommitted", "ambiguous",
     "unavailable", "replay", "run", "pickup", "runNow", "verify", "retry", "prepared"} \subseteq Quiet
BY DEF Quiet, PC, ExecPC

LEMMA RestingSteps ==
    ASSUME NEW h \in Thread,
           \/ PickupRefused(h)
           \/ Admit(h) \/ Preflight(h) \/ Gate(h) \/ CheckSource(h) \/ UploadFails(h)
           \/ SettleUpload(h) \/ PersistPartial(h) \/ VerifyCommitted(h)
           \/ VerifyNotCommitted(h) \/ VerifyUndecided(h) \/ Replay(h) \/ AcceptRetry(h)
           \/ RunPrepared(h) \/ RequeueConflict(h)
    PROVE  Rests(h)
<1>1. Admit(h) => Rests(h)
  BY QuietPCs DEF Admit, Reject, Rests, Enters
<1>2. Preflight(h) \/ CheckSource(h) => Rests(h)
  BY QuietPCs DEF Preflight, CheckSource, Reject, Rests, Enters
<1>3. Gate(h) => Rests(h)
  BY QuietPCs DEF Gate, Rests, Enters, GoesOn
<1>4. UploadFails(h) \/ SettleUpload(h) \/ PersistPartial(h) \/ VerifyCommitted(h) \/ VerifyUndecided(h)
        => Finish(h)
  BY DEF UploadFails, SettleError, SettleUpload, PersistPartial, VerifyCommitted, VerifyUndecided, Reject
<1>5. VerifyNotCommitted(h) => Rests(h)
  BY QuietPCs DEF VerifyNotCommitted, Rests, Enters, GoesOn
<1>6. Replay(h) => Rests(h)
  BY QuietPCs DEF Replay, Rests, Enters, GoesOn
<1>7. AcceptRetry(h) \/ RequeueConflict(h) => Rests(h)
  BY QuietPCs DEF AcceptRetry, RequeueConflict, Requeue, Reject, FailRetry, Rests, Enters
<1>8. RunPrepared(h) => Rests(h)
  BY QuietPCs DEF RunPrepared, Rests, Enters
<1>9. PickupRefused(h) => Finish(h)
  BY DEF PickupRefused
<1> QED BY <1>1, <1>2, <1>3, <1>4, <1>5, <1>6, <1>7, <1>8, <1>9 DEF Rests

(* What the other steps of a thread do to its place. *)
LEMMA CheckRemotePlace ==
    ASSUME NEW h \in Thread, CheckRemote(h)
    PROVE  \/ Finish(h)
           \/ Goto(h, "uploading") /\ (SnapOf(h).op = "Create" => Here = {})
           \/ \E f \in SoleCandidate(SnapOf(h)) : GotoWith(h, "completed", ResultOf(f))
<1>1. CASE \E e : SettleError(h, e)
  BY <1>1 DEF SettleError
<1>2. CASE SnapOf(h).op = "Create" /\ CreateCheck(h)
  BY <1>2 DEF CreateCheck, Reject
<1>3. CASE SnapOf(h).op # "Create" /\ UpdateCheck(h)
  BY <1>1, <1>3 DEF UpdateCheck, Reject
<1> QED BY <1>1, <1>2, <1>3 DEF CheckRemote

LEMMA VerifyReadPlace ==
    ASSUME TypeInv, NEW h \in Thread, VerifyRead(h)
    PROVE  \/ \E pc \in {"ambiguous", "notCommitted", "unavailable"} : Goto(h, pc)
           \/ \E f \in Here : /\ SameSize(cloud[f].ver, SnapOf(h).ver)
                             /\ GotoWith(h, "committed", ResultOf(f))
<1> DEFINE Undecided == \E pc \in {"ambiguous", "notCommitted", "unavailable"} : Goto(h, pc)
<1>1. \A f \in SoleCandidate(SnapOf(h)) : f \in Here /\ SameSize(cloud[f].ver, SnapOf(h).ver)
  BY DEF SoleCandidate, Candidates
<1>2. ASSUME NEW f \in FileId, VerifyById(h, f)
      PROVE  \/ Undecided
             \/ f \in Here /\ SameSize(cloud[f].ver, SnapOf(h).ver) /\ GotoWith(h, "committed", ResultOf(f))
  BY <1>2 DEF VerifyById, Commits, Here
<1>3. VerifyByName(h) =>
          \/ Undecided
          \/ \E f \in SoleCandidate(SnapOf(h)) : GotoWith(h, "committed", ResultOf(f))
  BY DEF VerifyByName, Commits
<1>4. ASSUME NEW f \in FileId, f = SnapOf(h).fid, VerifyUpdate(h)
      PROVE  \/ Undecided
             \/ f \in Here /\ SameSize(cloud[f].ver, SnapOf(h).ver) /\ GotoWith(h, "committed", ResultOf(f))
  BY <1>4 DEF VerifyUpdate, Commits, Here
<1>5. HasResult(SnapOf(h)) => SnapOf(h).rid \in FileId
  BY RowTypes DEF HasResult, Row
<1>6. SnapOf(h).op = "Update" => SnapOf(h).fid \in FileId
  BY ThreadsSafe DEF SafeRow
<1> QED BY <1>1, <1>2, <1>3, <1>4, <1>5, <1>6 DEF VerifyRead

LEMMA RenamePlace ==
    ASSUME TypeInv, NEW h \in Thread, RenameRemote(h)
    PROVE  threads'[h].pc \in {"idle", "overwrite"}
<1>1. Finish(h) \/ \E S : threads' = [threads EXCEPT ![h].todo = S]
  BY DEF RenameRemote
<1>2. ASSUME NEW S, threads' = [threads EXCEPT ![h].todo = S]
      PROVE  threads'[h].pc = "overwrite"
  <2>1. threads'[h] = [threads[h] EXCEPT !.todo = S] /\ threads[h].pc = "overwrite"
    BY <1>2 DEF TypeInv, RenameRemote, At
  <2>2. threads[h] \in ThreadState
    BY ThreadsSafe DEF SafeThread
  <2> QED BY <2>1, <2>2 DEF ThreadState
<1> QED BY <1>1, <1>2, FinishIs

LEMMA CommandPlace ==
    ASSUME TypeInv, NEW h \in Thread, Command(h) \/ (h = Cycle /\ CycleJob)
    PROVE  threads' = threads \/ threads'[h].pc \in Quiet
<1>0. ASSUME NEW pc \in {"run", "pickup", "retry", "verify"}, NEW t, NEW r, Start(h, pc, t, r)
      PROVE  threads'[h].pc \in Quiet
  BY <1>0, StartIs, QuietPCs
<1>1. CASE Overwrite(h)
  <2>1. threads'[h].pc = "overwrite"
    BY <1>1 DEF Overwrite, TypeInv
  <2> QED BY <2>1 DEF Quiet, PC, ExecPC
<1>2. ASSUME NEW t, PrepareRetry(h, t)
      PROVE  threads' = threads \/ Start(h, "retry", t, rows[t])
  BY <1>2 DEF PrepareRetry
<1>3. ASSUME NEW n, Enqueue(h, n)
      PROVE  threads' = threads \/ \E t, r : Start(h, "run", t, r)
  BY <1>3 DEF Enqueue, Open
<1>4. CASE UploadCommand(h) \/ (h = Cycle /\ PlanUpload)
  BY <1>0, <1>3, <1>4 DEF UploadCommand, PlanUpload
<1>5. CASE RetryTransfer(h) \/ (h = Cycle /\ RetryFailed)
  BY <1>0, <1>2, <1>5 DEF RetryTransfer, RetryFailed
<1>6. CASE KeepBoth(h) \/ Cancel(h) \/ ClearHistory(h) \/ PromoteRestart \/ CancelOrphan
  BY <1>6 DEF KeepBoth, Cancel, ClearHistory, PromoteRestart, CancelOrphan
<1>7. CASE h = Cycle /\ (RecoverStartup \/ ResumeVerifying \/ ResumeWaiting \/ ResumeBackoff)
  BY <1>0, <1>7 DEF RecoverStartup, ResumeVerifying, ResumeWaiting, ResumeBackoff, ResumeRow
<1> QED BY <1>1, <1>4, <1>5, <1>6, <1>7 DEF Command, CycleJob
-----------------------------------------------------------------------------
(* Files that uploads made *)

Sends(h) == At(h, "uploading") /\ SnapOf(h).op = "Create"

(* A step that makes no file here that is ours. *)
Makes == \E f \in FileId : cloud'[f].mine /\ cloud'[f].at = "here" /\ ~(cloud[f].mine /\ cloud[f].at = "here")
Unmade == \E f \in FileId : cloud'[f].mine /\ cloud'[f].at = "none"

LEMMA ClearKept ==
    ASSUME Clear, ~Makes, ~Unmade,
           \A k \in Thread : Sends(k)' => Sends(k) \/ Copies = {}
    PROVE  Clear'
<1>1. Copies' \subseteq Copies
  BY DEF Makes, Copies, Here
<1>2. OneCopy'
  BY <1>1 DEF Clear, OneCopy, Copies
<1>3. \A k \in Thread : Sends(k)' => Copies = {}
  BY DEF Clear, Sends
<1> QED BY <1>1, <1>2, <1>3 DEF Clear, Unmade, Sends

LEMMA RemovedFile ==
    ASSUME TypeInv, Clear, NEW f \in FileId, cloud' = [cloud EXCEPT ![f].at = "away"]
    PROVE  ~Makes /\ ~Unmade
<1>1. /\ cloud'[f].at = "away"
      /\ \A g \in FileId \ {f} : cloud'[g] = cloud[g]
  BY DEF TypeInv, CloudFile
<1> QED BY <1>1 DEF Makes, Unmade, Clear

(* A file that somebody writes stays ours or not. *)
LEMMA WrittenFile ==
    ASSUME TypeInv, Clear, NEW f \in FileId, NEW file \in CloudFile,
           file.at = "here", file.mine = cloud[f].mine, Store(f, file),
           f \in Here \cup Unused
    PROVE  ~Makes /\ ~Unmade
<1>1. /\ cloud'[f] = file
      /\ \A g \in FileId \ {f} : cloud'[g] = cloud[g]
  BY DEF TypeInv, Store
<1>2. f \in Unused => ~file.mine
  BY DEF Unused, Clear
<1> QED BY <1>1, <1>2 DEF Makes, Unmade, Clear, Here

(* Overwriting a file, and what is known of the result. *)
Over(c, v, ed) == [c EXCEPT !.at = "here", !.ver = v, !.ed = ed]

LEMMA Overwritten ==
    ASSUME NEW c \in CloudFile, NEW v \in Nat, NEW ed \in Nat
    PROVE  /\ Over(c, v, ed) = [at |-> "here", ver |-> v, ed |-> ed, mine |-> c.mine]
           /\ [at |-> "here", ver |-> v, ed |-> ed, mine |-> c.mine] \in CloudFile
<1>1. c = [at |-> c.at, ver |-> c.ver, ed |-> c.ed, mine |-> c.mine] /\ c.mine \in BOOLEAN
  BY DEF CloudFile
<1> DEFINE p == [c EXCEPT !.at = "here"]
           q == [p EXCEPT !.ver = v]
<1>2. p = [at |-> "here", ver |-> c.ver, ed |-> c.ed, mine |-> c.mine]
  BY <1>1
<1>3. Over(c, v, ed) = [q EXCEPT !.ed = ed]
  BY DEF Over
<1> HIDE DEF p
<1>4. q = [at |-> "here", ver |-> v, ed |-> c.ed, mine |-> c.mine]
  BY <1>2
<1> HIDE DEF q
<1>5. [q EXCEPT !.ed = ed] = [at |-> "here", ver |-> v, ed |-> ed, mine |-> c.mine]
  BY <1>4
<1> QED BY <1>1, <1>3, <1>5 DEF CloudFile

LEMMA ForeignFile ==
    ASSUME TypeInv, ForeignWrite
    PROVE  \E f \in Here \cup Unused, file \in CloudFile :
              /\ f \in FileId
              /\ file = [at |-> "here", ver |-> contents', ed |-> cloud[f].ed + 1, mine |-> cloud[f].mine]
              /\ Store(f, file)
<1>1. PICK f \in Here \cup (IF Unused = {} THEN {} ELSE {NewFile}) :
          Store(f, [cloud[f] EXCEPT !.at = "here", !.ver = contents', !.ed = cloud[f].ed + 1])
  BY DEF ForeignWrite
<1>2. f \in Here \cup Unused /\ f \in FileId
  BY NewFileUnused DEF Here, Unused
<1>3. contents' \in Nat /\ cloud[f].ed + 1 \in Nat /\ cloud[f] \in CloudFile
  BY <1>2 DEF TypeInv, ForeignWrite, NewContent, CloudFile
<1> DEFINE file == Over(cloud[f], contents', cloud[f].ed + 1)
<1>4. /\ file \in CloudFile
      /\ file = [at |-> "here", ver |-> contents', ed |-> cloud[f].ed + 1, mine |-> cloud[f].mine]
  BY <1>3, Overwritten
<1> HIDE DEF file
<1>5. Store(f, file)
  BY <1>1 DEF file, Over
<1> QED BY <1>2, <1>4, <1>5

(* What the server commits. *)
LEMMA CommittedFile ==
    ASSUME TypeInv, NEW h \in Thread, UploadCommits(h)
    PROVE  \E f \in FileId, file \in CloudFile :
              /\ file.at = "here" /\ file.ver \in Uploaded(h)
              /\ Store(f, file)
              /\ GotoWith(h, "stored", [fid |-> f, ver |-> file.ver, ed |-> file.ed])
              /\ \/ SnapOf(h).op = "Create" /\ f \in Unused /\ file.mine
                 \/ SnapOf(h).op = "Update" /\ f \in Here /\ file.mine = cloud[f].mine
<1> DEFINE r == SnapOf(h)
<1>1. r \in SafeRow /\ r.ver \in Nat
  BY ThreadsSafe DEF SafeRow, Row
<1>2. PICK v \in Uploaded(h) :
          \/ /\ r.op = "Create"
             /\ Unused # {}
             /\ Store(NewFile, [at |-> "here", ver |-> v, ed |-> 1, mine |-> TRUE])
             /\ GotoWith(h, "stored", [fid |-> NewFile, ver |-> v, ed |-> 1])
          \/ /\ r.op = "Update"
             /\ cloud[r.fid].at = "here"
             /\ Store(r.fid, [cloud[r.fid] EXCEPT !.ver = v, !.ed = cloud[r.fid].ed + 1])
             /\ GotoWith(h, "stored", [fid |-> r.fid, ver |-> v, ed |-> cloud[r.fid].ed + 1])
  BY DEF UploadCommits
<1>3. v \in Nat
  BY <1>1 DEF TypeInv, Uploaded
<1>4. CASE r.op = "Create"
  <2> DEFINE file == [at |-> "here", ver |-> v, ed |-> 1, mine |-> TRUE]
  <2>1. NewFile \in FileId /\ NewFile \in Unused /\ file \in CloudFile
    BY <1>2, <1>3, <1>4, NewFileUnused DEF CloudFile
  <2> QED BY <1>2, <1>4, <2>1
<1>5. CASE r.op = "Update"
  <2> DEFINE f == r.fid
             ed == cloud[f].ed + 1
             file == [cloud[f] EXCEPT !.ver = v, !.ed = ed]
  <2>1. f \in FileId /\ f \in Here
    BY <1>1, <1>2, <1>5 DEF SafeRow, Here
  <2>2. ed \in Nat /\ cloud[f] \in CloudFile
    BY <2>1 DEF TypeInv, CloudFile
  <2> HIDE DEF f, ed
  <2>3. /\ file \in CloudFile /\ file.at = "here" /\ file.ver = v /\ file.ed = ed
        /\ file.mine = cloud[f].mine
    BY <1>3, <2>1, <2>2 DEF CloudFile, Here
  <2>4. Store(f, file) /\ GotoWith(h, "stored", [fid |-> f, ver |-> v, ed |-> ed])
    BY <1>2, <1>5 DEF f, ed
  <2> HIDE DEF file
  <2> QED BY <1>2, <1>5, <2>1, <2>3, <2>4
<1> QED BY <1>2, <1>4, <1>5
LEMMA OthersKept ==
    ASSUME IInv, NEW h \in Thread, ThreadStep(h) \/ Command(h) \/ (h = Cycle /\ CycleJob)
    PROVE  \A k \in Thread \ {h} : threads'[k] = threads[k]
<1>1. CASE h = Cycle /\ RecoverStartup
  BY <1>1, StartIs DEF RecoverStartup, IInv
<1>2. CASE PickupRefused(h)
  BY <1>2, FinishIs DEF PickupRefused, IInv
<1> QED BY <1>1, <1>2, CareThread, CareCommand, CareCycle DEF CareStep

LEMMA UploadPlace ==
    ASSUME TypeInv, NEW h \in Thread,
           UploadCommits(h) \/ UploadFails(h) \/ UploadAnswered(h)
    PROVE  threads'[h].pc \in {"stored", "idle", "completed", "partial"}
<1>1. UploadCommits(h) => \E got : GotoWith(h, "stored", got)
  BY DEF UploadCommits
<1>2. UploadFails(h) => Finish(h)
  BY DEF UploadFails, SettleError
<1>3. UploadAnswered(h) => Finish(h) \/ Goto(h, "partial") \/ \E got : GotoWith(h, "completed", got)
  BY DEF UploadAnswered, SettleError
<1> QED BY <1>1, <1>2, <1>3, FinishIs, GotoIs, GotoWithIs

(* A thread comes to send a Create only where it found no file of the name. *)
LEMMA SendsOnly ==
    ASSUME IInv, [Next]_vars, NEW k \in Thread, Sends(k)'
    PROVE  Sends(k) \/ Copies = {}
<1>1. ASSUME NEW h \in Thread, threads'[h].pc # "uploading",
             \A j \in Thread \ {h} : threads'[j] = threads[j]
      PROVE  Sends(k)
  BY <1>1 DEF Sends, At, SnapOf
<1>2. ASSUME NEW h \in Thread, ThreadStep(h)
      PROVE  Sends(k) \/ Copies = {}
  <2>1. CASE CheckRemote(h) /\ k = h
    <3>1. CASE Goto(h, "uploading") /\ (SnapOf(h).op = "Create" => Here = {})
      BY <2>1, <3>1, GotoIs DEF IInv, Sends, SnapOf, Copies
    <3>2. CASE threads'[h].pc # "uploading"
      BY <2>1, <3>2 DEF Sends, At
    <3> QED BY <2>1, <3>1, <3>2, CheckRemotePlace, FinishIs, GotoWithIs DEF IInv
  <2>2. CASE ~CheckRemote(h)
    <3>1. Rests(h) => threads'[h].pc # "uploading"
      BY RestsIs DEF IInv, Quiet
    <3>2. UploadCommits(h) \/ UploadFails(h) \/ UploadAnswered(h) => threads'[h].pc # "uploading"
      BY UploadPlace DEF IInv
    <3>3. VerifyRead(h) => threads'[h].pc # "uploading"
      BY VerifyReadPlace, GotoIs, GotoWithIs DEF IInv
    <3>4. RenameRemote(h) => threads'[h].pc # "uploading"
      BY RenamePlace DEF IInv
    <3>5. threads'[h].pc # "uploading"
      BY <1>2, <2>2, <3>1, <3>2, <3>3, <3>4, RestingSteps DEF ThreadStep
    <3> QED BY <1>1, <1>2, <3>5, OthersKept
  <2>3. CASE k # h
    BY <1>2, <2>3, OthersKept DEF Sends, At, SnapOf
  <2> QED BY <2>1, <2>2, <2>3
<1>3. ASSUME NEW h \in Thread, Command(h) \/ (h = Cycle /\ CycleJob)
      PROVE  Sends(k)
  <2>1. threads' = threads \/ threads'[h].pc # "uploading"
    BY <1>3, CommandPlace DEF IInv, Quiet
  <2> QED BY <1>1, <1>3, <2>1, OthersKept DEF Sends, At, SnapOf
<1>4. CASE World \/ UNCHANGED vars
  <2>1. threads' = threads \/ Crash
    BY <1>4 DEF World, LocalEdit, LocalDelete, ForeignWrite, ForeignRemove, NetworkDown, NetworkUp, vars
  <2>2. Crash => threads'[k].pc = "idle"
    BY DEF Crash, IdleThread
  <2> QED BY <2>1, <2>2 DEF Sends, At, SnapOf
<1> QED BY <1>2, <1>3, <1>4, Constants DEF Next

(* What a step does to the cloud. *)
LEMMA CloudStep ==
    ASSUME TypeInv, [Next]_vars
    PROVE  \/ UNCHANGED <<cloud, history>>
           \/ \E f \in FileId : /\ cloud' = [cloud EXCEPT ![f].at = "away"]
                                /\ UNCHANGED history
                                /\ f \in Here \/ \E h \in Thread : f \in threads[h].todo
           \/ ForeignWrite
           \/ \E h \in Thread : UploadCommits(h)
<1>1. ASSUME NEW h \in Thread, ThreadStep(h), ~UploadCommits(h), ~RenameRemote(h)
      PROVE  UNCHANGED <<cloud, history>>
  BY <1>1 DEF ThreadStep, PickupRefused, Admit, Preflight, Gate, CheckSource, CheckRemote, UploadFails,
              UploadAnswered, SettleUpload, PersistPartial, VerifyRead, VerifyCommitted,
              VerifyNotCommitted, VerifyUndecided, Replay, AcceptRetry, RunPrepared,
              RequeueConflict, world
<1>2. ASSUME NEW h \in Thread, RenameRemote(h)
      PROVE  \/ UNCHANGED <<cloud, history>>
             \/ \E f \in FileId : /\ cloud' = [cloud EXCEPT ![f].at = "away"]
                                  /\ UNCHANGED history /\ f \in threads[h].todo
  <2>1. threads[h].todo \subseteq FileId
    BY ThreadsSafe DEF SafeThread, ThreadState
  <2> QED BY <1>2, <2>1 DEF RenameRemote
<1>3. ASSUME NEW h \in Thread, Command(h)
      PROVE  UNCHANGED <<cloud, history>>
  BY <1>3 DEF Command, UploadCommand, RetryTransfer, Overwrite, KeepBoth, Cancel, ClearHistory,
              PrepareRetry, world
<1>4. CASE CycleJob
  BY <1>4 DEF CycleJob, RecoverStartup, PromoteRestart, ResumeVerifying, ResumeWaiting, ResumeBackoff,
              ResumeRow, CancelOrphan, PlanUpload, RetryFailed, PrepareRetry, world
<1>5. CASE ForeignRemove
  <2>1. Here \subseteq FileId
    BY DEF Here
  <2> QED BY <1>5, <2>1 DEF ForeignRemove
<1>6. CASE LocalEdit \/ LocalDelete \/ NetworkDown \/ NetworkUp \/ Crash \/ UNCHANGED vars
  BY <1>6 DEF LocalEdit, LocalDelete, NetworkDown, NetworkUp, Crash, world, vars
<1> QED BY <1>1, <1>2, <1>3, <1>4, <1>5, <1>6 DEF Next, World

LEMMA NextClear ==
    ASSUME IInv, ~overtaken, Clear, [Next]_vars
    PROVE  Clear'
<1> USE DEF IInv
<1>1. \A k \in Thread : Sends(k)' => Sends(k) \/ Copies = {}
  BY SendsOnly
<1>2. CASE UNCHANGED cloud
  BY <1>1, <1>2, ClearKept DEF Makes, Unmade, Clear
<1>3. CASE \E f \in FileId : cloud' = [cloud EXCEPT ![f].at = "away"]
  BY <1>1, <1>3, RemovedFile, ClearKept
<1>4. CASE ForeignWrite
  BY <1>1, <1>4, ForeignFile, WrittenFile, ClearKept
<1>5. ASSUME NEW h \in Thread, UploadCommits(h)
      PROVE  Clear'
  <2>1. PICK f \in FileId, file \in CloudFile :
              /\ file.at = "here" /\ Store(f, file)
              /\ GotoWith(h, "stored", [fid |-> f, ver |-> file.ver, ed |-> file.ed])
              /\ \/ SnapOf(h).op = "Create" /\ f \in Unused /\ file.mine
                 \/ SnapOf(h).op = "Update" /\ f \in Here /\ file.mine = cloud[f].mine
    BY <1>5, CommittedFile
  <2>2. CASE SnapOf(h).op = "Update"
    BY <1>1, <2>1, <2>2, WrittenFile, ClearKept
  <2>3. CASE SnapOf(h).op = "Create"
    <3>1. Sends(h) /\ Copies = {}
      BY <1>5, <2>3 DEF UploadCommits, Sends, Clear
    <3>2. cloud'[f] = file /\ \A g \in FileId \ {f} : cloud'[g] = cloud[g]
      BY <2>1 DEF TypeInv, Store
    <3>3. Copies' \subseteq {f}
      BY <3>1, <3>2 DEF Copies, Here
    <3>4. \A g \in FileId : cloud'[g].at = "none" => ~cloud'[g].mine
      BY <2>1, <3>2 DEF Clear
    <3>5. \A k \in Thread : ~Sends(k)'
      <4>1. threads'[h].pc = "stored" /\ \A k \in Thread \ {h} : threads'[k] = threads[k]
        BY <2>1, GotoWithIs
      <4>2. \A k \in Thread \ {h} : ~Sends(k)
        BY <3>1 DEF Execution, Holds, InExec, ExecPC, Sends, At
      <4> QED BY <4>1, <4>2 DEF Sends, At, SnapOf
    <3>6. OneCopy'
      BY <3>3 DEF OneCopy, Copies
    <3> QED BY <3>4, <3>5, <3>6 DEF Clear, Sends
  <2> QED BY <2>1, <2>2, <2>3
<1> QED BY <1>2, <1>3, <1>4, <1>5, CloudStep

THEOREM ClearPath == Spec => [](IInv /\ (~overtaken => Clear))
<1>1. Init => Clear
  BY DEF Init, Clear, OneCopy, Here, IdleThread, At, Copies
<1>2. IInv /\ (~overtaken => Clear) /\ [Next]_vars => (~overtaken => Clear)'
  BY NextClear, Overtakes
<1> QED BY <1>1, <1>2, Inductive, PTL DEF Spec

(* The cloud never holds two files of one name that uploads of this path    *)
(* created, unless startup recovery took a running upload for interrupted:  *)
(* a thread sends a Create only after it found no file of the name, none is *)
(* made here while it sends because it is alone past the gate, and after a  *)
(* crash or a lost answer the row is verified before it is sent again.      *)
THEOREM SingleCopy == Spec => []NoDuplicateCreate
<1>1. (~overtaken => Clear) => NoDuplicateCreate
  BY DEF Clear, NoDuplicateCreate
<1> QED BY <1>1, ClearPath, PTL
-----------------------------------------------------------------------------
(* The row a step writes is its snapshot's, with another state, revision,   *)
(* result or count.                                                         *)

Same(r, new, to) == new.state = to /\ new.ver = r.ver /\ new.att = r.att /\ new.vrf = r.vrf

LEMMA SteppedSame ==
    ASSUME NEW r \in Row, NEW to, NEW fid
    PROVE  /\ Same(r, Stepped(r, to), to)
           /\ Same(r, WithResult(r, to, fid), to)
           /\ Same(r, [Stepped(r, to) EXCEPT !.conflict = TRUE], to)
BY DEF Same, WithResult, Stepped, Row

(* After an error: the row's next state, with one attempt more or not. *)
ErrorRow(r, d) == [Stepped(r, TargetOf(d)) EXCEPT !.att = IF d.consumesBudget THEN @ + 1 ELSE @]

LEMMA AttemptSame ==
    ASSUME NEW r \in Row, NEW to, NEW n
    PROVE  LET new == [Stepped(r, to) EXCEPT !.att = n]
           IN  new.state = to /\ new.ver = r.ver /\ new.vrf = r.vrf /\ new.att = n
BY DEF Stepped, Row

LEMMA ErrorRowIs ==
    ASSUME NEW r \in Row, NEW d
    PROVE  /\ ErrorRow(r, d).state = TargetOf(d)
           /\ ErrorRow(r, d).ver = r.ver /\ ErrorRow(r, d).vrf = r.vrf
           /\ ErrorRow(r, d).att = IF d.consumesBudget THEN r.att + 1 ELSE r.att
<1>1. Stepped(r, TargetOf(d)).att = r.att
  BY SteppedSame DEF Same
<1>2. ErrorRow(r, d) = [Stepped(r, TargetOf(d)) EXCEPT !.att = IF d.consumesBudget THEN r.att + 1 ELSE r.att]
  BY <1>1 DEF ErrorRow
<1> QED BY <1>2, AttemptSame

(* What a round of verification without a commit writes. *)
RoundRow(r, to) == [WithResult(r, to, NoId) EXCEPT !.vrf = CountRound(r)]

LEMMA RoundRowIs ==
    ASSUME NEW r \in Row, NEW to
    PROVE  /\ RoundRow(r, to).state = to /\ RoundRow(r, to).ver = r.ver
           /\ RoundRow(r, to).att = r.att /\ RoundRow(r, to).vrf = r.vrf + 1
BY DEF RoundRow, CountRound, WithResult, Stepped, Row

TriedRow(r) == [r EXCEPT !.rev = @ + 1, !.vrf = @ + 1]

LEMMA TriedRowIs ==
    ASSUME NEW r \in Row
    PROVE  /\ TriedRow(r).state = r.state /\ TriedRow(r).ver = r.ver
           /\ TriedRow(r).att = r.att /\ TriedRow(r).vrf = r.vrf + 1
BY DEF TriedRow, Row

LEMMA NewBudgetIs ==
    ASSUME NEW r \in Row
    PROVE  /\ NewBudget(r).state = Pending /\ NewBudget(r).ver = r.ver
           /\ NewBudget(r).att = 0 /\ NewBudget(r).vrf = 0
BY DEF NewBudget, Stepped, Row

Writes(h, new) == rows' = rows \/ (Current(h) /\ Put(h, new))

LEMMA TransitionWrites ==
    ASSUME IInv, NEW h \in Thread, ~Idle(h), ~At(h, "prepared"), NEW new,
           Transition(h, new) \/ Patch(h, new)
    PROVE  Writes(h, new)
BY TransitionIs, PatchIs DEF Writes
-----------------------------------------------------------------------------
(* Contents a step takes for a row or a snapshot are ones it knows. *)

Known(h, v) ==
    \/ v = local /\ local # 0
    \/ ~Idle(h) /\ v = SnapOf(h).ver
    \/ \E t \in Task : rows[t].state \in State /\ v = rows[t].ver

Versions(h) ==
    /\ \A t \in Task : rows'[t] = rows[t] \/ rows'[t].state \notin State \/ Known(h, rows'[t].ver)
    /\ \/ UNCHANGED threads
       \/ threads'[h].pc = "idle"
       \/ Known(h, threads'[h].row.ver)

LEMMA VersionsOf ==
    ASSUME IInv, NEW h \in Thread, ~Idle(h), NEW new, new.ver = SnapOf(h).ver, Writes(h, new),
           Finish(h) \/ threads'[h].row.ver = SnapOf(h).ver
    PROVE  Versions(h)
BY FinishIs DEF Writes, Put, Versions, Known, IInv

LEMMA VersionsStill ==
    ASSUME IInv, NEW h \in Thread, ~Idle(h), UNCHANGED rows,
           Finish(h) \/ threads'[h].row.ver = SnapOf(h).ver
    PROVE  Versions(h)
BY FinishIs DEF Versions, Known, IInv

LEMMA VersionsEnd ==
    ASSUME IInv, NEW h \in Thread, ~Idle(h), ~At(h, "prepared"), Finish(h), NEW new,
           new.ver = SnapOf(h).ver, Transition(h, new) \/ Patch(h, new)
    PROVE  Versions(h)
BY TransitionWrites, VersionsOf

LEMMA VersionsGoto ==
    ASSUME IInv, NEW h \in Thread, ~Idle(h), UNCHANGED rows,
           \E pc : Goto(h, pc) \/ \E got : GotoWith(h, pc, got)
    PROVE  Versions(h)
BY VersionsStill, GotoIs, GotoWithIs DEF IInv

LEMMA VersionsReject ==
    ASSUME IInv, NEW h \in Thread, ~Idle(h), ~At(h, "prepared"), NEW to, Reject(h, to)
    PROVE  Versions(h)
<1>1. Stepped(SnapOf(h), to).ver = SnapOf(h).ver
  BY SteppedSame, RowTypes DEF Same, IInv
<1> QED BY <1>1, VersionsEnd DEF Reject

LEMMA VersionsError ==
    ASSUME IInv, NEW h \in Thread, ~Idle(h), ~At(h, "prepared"), NEW e, SettleError(h, e)
    PROVE  Versions(h)
<1> DEFINE d == Classify(e, SnapOf(h).op, SnapOf(h).att)
<1>1. Transition(h, ErrorRow(SnapOf(h), d)) /\ Finish(h)
  BY DEF SettleError, ErrorRow
<1> HIDE DEF d
<1>2. ErrorRow(SnapOf(h), d).ver = SnapOf(h).ver
  BY ErrorRowIs, RowTypes DEF IInv
<1> QED BY <1>1, <1>2, VersionsEnd

LEMMA VersionsGate ==
    ASSUME IInv, NEW h \in Thread, Gate(h)
    PROVE  Versions(h)
<1> DEFINE running == Stepped(SnapOf(h), Running)
<1>1. ~Idle(h) /\ ~At(h, "prepared") /\ SnapOf(h) \in Row
  BY RowTypes DEF Gate, Idle, At, IInv
<1>2. running.ver = SnapOf(h).ver
  BY <1>1, SteppedSame DEF Same
<1>3. CASE GateOpen(h)
  <2>1. Transition(h, running)
    BY <1>3 DEF Gate
  <2>2. Finish(h) \/ GoesOn(h, "source", running)
    BY <1>3 DEF Gate, GoesOn
  <2> HIDE DEF running
  <2>3. Finish(h) \/ threads'[h].row.ver = SnapOf(h).ver
    BY <1>2, <2>2, GoesOnIs DEF IInv
  <2>4. Writes(h, running)
    BY <1>1, <2>1, TransitionWrites
  <2> QED BY <1>1, <1>2, <2>3, <2>4, VersionsOf
<1>4. CASE ~GateOpen(h)
  <2>1. /\ Finish(h)
        /\ rows' = [t \in Task |-> IF t \in RivalResults(h)
                                   THEN Stepped(rows[t], VerifyingRemote) ELSE rows[t]]
    BY <1>4 DEF Gate
  <2>2. ASSUME NEW t \in Task
        PROVE  rows'[t] = rows[t] \/ Known(h, rows'[t].ver)
    <3>1. CASE t \in RivalResults(h)
      <4>1. rows[t].state \in State
        BY <3>1, StateNames DEF RivalResults, RestartsWithResult, InState
      <4>2. Stepped(rows[t], VerifyingRemote).ver = rows[t].ver
        BY SteppedSame, RowTypes DEF Same, IInv
      <4> QED BY <2>1, <3>1, <4>1, <4>2 DEF Known
    <3> QED BY <2>1, <3>1
  <2> QED BY <2>1, <2>2, FinishIs DEF Versions, IInv
<1> QED BY <1>3, <1>4

LEMMA VersionsRemote ==
    ASSUME IInv, NEW h \in Thread, CheckRemote(h)
    PROVE  Versions(h)
<1>1. ~Idle(h) /\ ~At(h, "prepared")
  BY DEF CheckRemote, Idle, At
<1>2. CASE \E e : SettleError(h, e)
  BY <1>1, <1>2, VersionsError
<1>3. CASE Reject(h, RestartRequired)
  BY <1>1, <1>3, VersionsReject
<1>4. CASE UNCHANGED rows /\ \E pc : Goto(h, pc) \/ \E got : GotoWith(h, pc, got)
  BY <1>1, <1>4, VersionsGoto
<1>5. CASE /\ Transition(h, [Stepped(SnapOf(h), RestartRequired) EXCEPT !.conflict = TRUE])
           /\ Finish(h)
  <2> DEFINE new == [Stepped(SnapOf(h), RestartRequired) EXCEPT !.conflict = TRUE]
  <2>1. new.ver = SnapOf(h).ver
    BY SteppedSame, RowTypes DEF Same, IInv
  <2> HIDE DEF new
  <2> QED BY <1>1, <1>5, <2>1, VersionsEnd DEF new
<1>6. CreateCheck(h) => Versions(h)
  BY <1>3, <1>4, <1>5 DEF CreateCheck
<1>7. UpdateCheck(h) => Versions(h)
  BY <1>2, <1>3, <1>4 DEF UpdateCheck
<1> QED BY <1>2, <1>6, <1>7 DEF CheckRemote

LEMMA VersionsSettle ==
    ASSUME IInv, NEW h \in Thread, SettleUpload(h) \/ PersistPartial(h) \/ VerifyCommitted(h)
    PROVE  Versions(h)
<1>1. ~Idle(h) /\ ~At(h, "prepared") /\ Finish(h)
  BY DEF SettleUpload, PersistPartial, VerifyCommitted, Idle, At
<1>2. \/ \E new \in {Done(h), ToVerify(h)} : Transition(h, new)
      \/ UNCHANGED rows
  BY DEF SettleUpload, PersistPartial, VerifyCommitted, Settle, Done, ToVerify
<1> QED BY <1>1, <1>2, SettlementRows, VersionsEnd, VersionsStill DEF IInv

LEMMA VersionsRounds ==
    ASSUME IInv, NEW h \in Thread, VerifyNotCommitted(h) \/ VerifyUndecided(h)
    PROVE  Versions(h)
<1>1. ~Idle(h) /\ ~At(h, "prepared") /\ SnapOf(h) \in Row
  BY RowTypes DEF VerifyNotCommitted, VerifyUndecided, Idle, At, IInv
<1>2. CASE VerifyNotCommitted(h)
  <2>1. PICK to : /\ Transition(h, RoundRow(SnapOf(h), to))
                  /\ Finish(h) \/ GoesOn(h, "replay", RoundRow(SnapOf(h), to))
    BY <1>2 DEF VerifyNotCommitted, GoesOn, RoundRow
  <2>2. RoundRow(SnapOf(h), to).ver = SnapOf(h).ver
    BY <1>1, RoundRowIs
  <2>3. Finish(h) \/ threads'[h].row.ver = SnapOf(h).ver
    BY <2>1, <2>2, GoesOnIs DEF IInv
  <2> QED BY <1>1, <2>1, <2>2, <2>3, TransitionWrites, VersionsOf
<1>3. CASE VerifyUndecided(h)
  <2>1. Reject(h, Failed) \/ (Patch(h, TriedRow(SnapOf(h))) /\ Finish(h))
    BY <1>3 DEF VerifyUndecided, TriedRow
  <2>2. TriedRow(SnapOf(h)).ver = SnapOf(h).ver
    BY <1>1, TriedRowIs
  <2> QED BY <1>1, <2>1, <2>2, VersionsReject, VersionsEnd
<1> QED BY <1>2, <1>3

LEMMA VersionsReplay ==
    ASSUME IInv, NEW h \in Thread, Replay(h)
    PROVE  Versions(h)
<1> DEFINE pending == Stepped(SnapOf(h), Pending)
<1>1. ~Idle(h) /\ ~At(h, "prepared") /\ pending.ver = SnapOf(h).ver
  BY SteppedSame, RowTypes DEF Replay, Idle, At, Same, IInv
<1>2. Transition(h, pending) /\ (Finish(h) \/ GoesOn(h, "pickup", pending))
  BY DEF Replay, GoesOn
<1> HIDE DEF pending
<1>3. Finish(h) \/ threads'[h].row.ver = SnapOf(h).ver
  BY <1>1, <1>2, GoesOnIs DEF IInv
<1> QED BY <1>1, <1>2, <1>3, TransitionWrites, VersionsOf

LEMMA VersionsRetry ==
    ASSUME IInv, NEW h \in Thread, AcceptRetry(h) \/ RequeueConflict(h)
    PROVE  Versions(h)
<1>1. ~Idle(h) /\ ~At(h, "prepared")
  BY DEF AcceptRetry, RequeueConflict, Idle, At
<1>2. CASE Requeue(h)
  <2> DEFINE new == NewBudget(SnapOf(h))
  <2>1. Transition(h, new) /\ (Finish(h) \/ Goto(h, "prepared"))
    BY <1>2 DEF Requeue
  <2>2. new.ver = SnapOf(h).ver
    BY NewBudgetIs, RowTypes DEF IInv
  <2> HIDE DEF new
  <2>3. Finish(h) \/ threads'[h].row.ver = SnapOf(h).ver
    BY <2>1, GotoIs DEF IInv
  <2> QED BY <1>1, <2>1, <2>2, <2>3, TransitionWrites, VersionsOf
<1>3. CASE FailRetry(h)
  <2>1. Stepped(SnapOf(h), Failed).ver = SnapOf(h).ver
    BY SteppedSame, RowTypes DEF Same, IInv
  <2> QED BY <1>1, <1>3, <2>1, VersionsEnd DEF FailRetry
<1> QED BY <1>1, <1>2, <1>3, VersionsReject DEF AcceptRetry, RequeueConflict

LEMMA VersionsThread == ASSUME IInv, NEW h \in Thread, ThreadStep(h) PROVE Versions(h)
<1>1. CASE PickupRefused(h) \/ Admit(h) \/ Preflight(h) \/ CheckSource(h)
  <2>1. ~Idle(h) /\ ~At(h, "prepared")
    BY <1>1 DEF PickupRefused, Admit, Preflight, CheckSource, Idle, At
  <2>2. \/ \E to : Reject(h, to)
        \/ UNCHANGED rows /\ (Finish(h) \/ \E pc : Goto(h, pc))
    BY <1>1 DEF PickupRefused, Admit, Preflight, CheckSource
  <2> QED BY <2>1, <2>2, VersionsReject, VersionsStill, VersionsGoto
<1>2. CASE UploadCommits(h) \/ UploadFails(h) \/ UploadAnswered(h)
  <2>1. ~Idle(h) /\ ~At(h, "prepared")
    BY <1>2 DEF UploadCommits, UploadFails, UploadAnswered, Idle, At
  <2>2. UploadCommits(h) => UNCHANGED rows /\ \E got : GotoWith(h, "stored", got)
    BY DEF UploadCommits
  <2>3. UploadFails(h) => \E e : SettleError(h, e)
    BY DEF UploadFails
  <2>4. UploadAnswered(h) => \/ \E e : SettleError(h, e)
                             \/ UNCHANGED rows /\ Goto(h, "partial")
                             \/ UNCHANGED rows /\ \E got : GotoWith(h, "completed", got)
    BY DEF UploadAnswered
  <2> QED BY <1>2, <2>1, <2>2, <2>3, <2>4, VersionsError, VersionsGoto
<1>3. CASE VerifyRead(h)
  <2>1. ~Idle(h) /\ UNCHANGED rows
    BY <1>3 DEF VerifyRead, Idle, At
  <2>2. \E pc : Goto(h, pc) \/ \E got : GotoWith(h, pc, got)
    BY <1>3, VerifyReadPlace DEF IInv
  <2> QED BY <2>1, <2>2, VersionsGoto
<1>4. CASE RunPrepared(h)
  <2>1. ~Idle(h) /\ UNCHANGED rows /\ threads[h].id \in Task
    BY <1>4, ThreadsSafe DEF RunPrepared, Idle, At, IInv
  <2>2. CASE Finish(h)
    BY <2>1, <2>2, VersionsStill
  <2>3. CASE rows[threads[h].id].state \in Runnable /\ Start(h, "runNow", threads[h].id, rows[threads[h].id])
    <3>1. threads'[h].row = rows[threads[h].id]
      BY <2>3, StartIs DEF IInv
    <3>2. rows[threads[h].id].state \in State
      BY <2>3, StateNames
    <3> QED BY <2>1, <3>1, <3>2 DEF Versions, Known
  <2> QED BY <1>4, <2>2, <2>3 DEF RunPrepared
<1>5. CASE RenameRemote(h)
  <2>1. ~Idle(h) /\ UNCHANGED rows
    BY <1>5 DEF RenameRemote, Idle, At
  <2>2. ASSUME NEW S, threads' = [threads EXCEPT ![h].todo = S]
        PROVE  threads'[h].row = SnapOf(h)
    BY <2>2, ThreadsSafe DEF IInv, TypeInv, SafeThread, ThreadState, SnapOf
  <2>3. Finish(h) \/ \E S : threads' = [threads EXCEPT ![h].todo = S]
    BY <1>5 DEF RenameRemote
  <2> QED BY <2>1, <2>2, <2>3, VersionsStill
<1> QED BY <1>1, <1>2, <1>3, <1>4, <1>5, VersionsGate, VersionsRemote, VersionsSettle,
           VersionsRounds, VersionsReplay, VersionsRetry DEF ThreadStep
LEMMA VersionsPut ==
    ASSUME IInv, NEW h \in Thread, UNCHANGED threads, NEW t \in Task, rows[t].state \in State, NEW to,
           rows' = [rows EXCEPT ![t] = Stepped(rows[t], to)]
    PROVE  Versions(h)
<1>1. Stepped(rows[t], to).ver = rows[t].ver
  BY SteppedSame, RowTypes DEF Same, IInv
<1>2. \A u \in Task : rows'[u] = rows[u] \/ (u = t /\ rows'[u].ver = rows[t].ver)
  BY <1>1 DEF IInv, TypeInv
<1> QED BY <1>2 DEF Versions, Known

LEMMA VersionsLoad ==
    ASSUME IInv, NEW h \in Thread, UNCHANGED rows, NEW t \in Task, rows[t].state \in State,
           UNCHANGED threads \/ \E pc : Start(h, pc, t, rows[t])
    PROVE  Versions(h)
BY StartIs DEF Versions, Known, IInv

LEMMA VersionsOpen ==
    ASSUME IInv, NEW h \in Thread, local # 0, NEW t \in Task, NEW r, r.ver = local, Open(h, t, r)
    PROVE  Versions(h)
<1>1. \A u \in Task : rows'[u] = rows[u] \/ (u = t /\ rows'[u] = r)
  BY DEF Open, IInv, TypeInv
<1>2. threads'[h].row = r
  BY StartIs DEF Open, IInv
<1> QED BY <1>1, <1>2 DEF Versions, Known

LEMMA FreshVersion ==
    ASSUME NEW r \in Row, NEW n
    PROVE  Fresh(n).ver = n.ver /\ Replanned(r, n).ver = n.ver
BY DEF Fresh, Replanned, BlankRow

LEMMA VersionsAsk ==
    ASSUME IInv, NEW h \in Thread, (h = Cycle /\ PlanUpload) \/ UploadCommand(h)
    PROVE  Versions(h)
<1>1. PICK n \in Intent : Enqueue(h, n) /\ n.ver = local
  BY Asked
<1>2. local # 0
  BY DEF PlanUpload, UploadCommand
<1>3. ASSUME NEW t \in RestartsWithResult, UNCHANGED threads,
             rows' = [rows EXCEPT ![t] = Stepped(rows[t], VerifyingRemote)]
      PROVE  Versions(h)
  BY <1>3, VersionsPut, StateNames DEF RestartsWithResult, InState
<1>4. ASSUME NEW t \in InState(Blocking), Start(h, "run", t, rows[t]), UNCHANGED rows
      PROVE  Versions(h)
  <2>1. t \in Task /\ rows[t].state \in State
    BY StateNames DEF InState
  <2> QED BY <1>4, <2>1, VersionsLoad
<1>5. ASSUME NEW t \in Task, Open(h, t, Replanned(rows[t], n)) \/ Open(h, t, Fresh(n))
      PROVE  Versions(h)
  <2>1. Fresh(n).ver = local /\ Replanned(rows[t], n).ver = local
    BY <1>1, FreshVersion, RowTypes DEF IInv
  <2> QED BY <1>2, <1>5, <2>1, VersionsOpen
<1> QED BY <1>1, <1>3, <1>4, <1>5 DEF Enqueue

LEMMA VersionsOther ==
    ASSUME IInv, NEW h \in Thread, Command(h) \/ (h = Cycle /\ CycleJob)
    PROVE  Versions(h)
<1>1. CASE UploadCommand(h) \/ (h = Cycle /\ PlanUpload)
  BY <1>1, VersionsAsk
<1>2. ASSUME NEW t \in InState({Failed, RestartRequired}), PrepareRetry(h, t)
      PROVE  Versions(h)
  <2>1. t \in Task /\ rows[t].state \in State
    BY StateNames DEF InState
  <2>2. \/ \E to : rows' = [rows EXCEPT ![t] = Stepped(rows[t], to)] /\ UNCHANGED threads
        \/ UNCHANGED rows /\ (UNCHANGED threads \/ Start(h, "retry", t, rows[t]))
    BY <1>2 DEF PrepareRetry
  <2> QED BY <2>1, <2>2, VersionsPut, VersionsLoad
<1>3. CASE RetryTransfer(h) \/ (h = Cycle /\ RetryFailed)
  BY <1>2, <1>3 DEF RetryTransfer, RetryFailed, InState
<1>4. CASE Overwrite(h)
  <2>1. PICK t \in NameConflicts :
          threads' = [threads EXCEPT ![h] =
             [pc |-> "overwrite", id |-> t, row |-> rows[t], got |-> NoResult, todo |-> Here]]
    BY <1>4 DEF Overwrite
  <2>2. t \in Task /\ rows[t].state \in State /\ rows' = rows
    BY <1>4, StateNames DEF Overwrite, NameConflicts, InState
  <2>3. threads'[h].row = rows[t]
    BY <2>1 DEF IInv, TypeInv
  <2> QED BY <2>2, <2>3 DEF Versions, Known
<1>5. CASE PromoteRestart \/ CancelOrphan \/ Cancel(h) \/ KeepBoth(h)
  <2>1. PICK t \in Task, to \in {VerifyingRemote, Canceled} : /\ rows[t].state \in {RestartRequired, Failed} /\ UNCHANGED threads
                              /\ rows' = [rows EXCEPT ![t] = Stepped(rows[t], to)]
    BY <1>5 DEF PromoteRestart, CancelOrphan, Cancel, KeepBoth, NameConflicts, RestartsWithResult, InState
  <2> QED BY <2>1, VersionsPut, StateNames
<1>6. CASE ClearHistory(h)
  <2>1. /\ threads' = threads
        /\ \E S : rows' = [t \in Task |-> IF rows[t].state \in S
                                          THEN [BlankRow EXCEPT !.state = "cleared"] ELSE rows[t]]
    BY <1>6 DEF ClearHistory
  <2>2. [BlankRow EXCEPT !.state = "cleared"].state \notin State
    BY StateNames DEF BlankRow
  <2> QED BY <2>1, <2>2 DEF Versions
<1>7. ASSUME NEW t \in Task, rows[t].state \in State, NEW pc, h = Cycle, Start(Cycle, pc, t, rows[t]),
             UNCHANGED rows
      PROVE  Versions(h)
  BY <1>7, VersionsLoad
<1>8. CASE h = Cycle /\ (ResumeVerifying \/ ResumeWaiting \/ ResumeBackoff)
  BY <1>7, <1>8, StateNames DEF ResumeVerifying, ResumeWaiting, ResumeBackoff, ResumeRow, InState
<1>9. CASE h = Cycle /\ RecoverStartup
  <2>1. CASE UNCHANGED <<rows, threads>>
    BY <2>1 DEF Versions
  <2>2. CASE \E t \in InState({Running}) :
                rows' = [rows EXCEPT ![t] = Stepped(rows[t], VerifyingRemote)] /\ UNCHANGED threads
    BY <2>2, VersionsPut, DistinctNames DEF InState
  <2>3. CASE (\E t \in InState({Pending}) : Start(Cycle, "run", t, rows[t])) /\ UNCHANGED rows
    BY <1>7, <1>9, <2>3, DistinctNames DEF InState
  <2> QED BY <1>9, <2>1, <2>2, <2>3 DEF RecoverStartup
<1> QED BY <1>1, <1>3, <1>4, <1>5, <1>6, <1>8, <1>9 DEF Command, CycleJob

(* Contents stay written. *)
LEMMA NumberedRows ==
    ASSUME IInv, Numbered, NEW h \in Thread, contents' \in Nat, contents <= contents',
           Versions(h), \A k \in Thread \ {h} : threads'[k] = threads[k]
    PROVE  /\ \A t \in Task : rows'[t].state \in State => Written(rows[t].ver)'
           /\ \A k \in Thread : ~Idle(k)' => Written(SnapOf(k).ver)'
<1>1. \A v : Written(v) => Written(v)'
  BY DEF Written, Numbered
<1>2. \A v : Known(h, v) => Written(v)
  BY DEF Known, Numbered, Written, IInv, TypeInv
<1>3. \A t \in Task : rows'[t].state \in State => Written(rows[t].ver)'
  <2>1. ASSUME NEW t \in Task, rows'[t].state \in State
        PROVE  Known(h, rows'[t].ver) \/ (rows'[t].ver = rows[t].ver /\ rows[t].state \in State)
    BY <2>1 DEF Versions
  <2> QED BY <1>1, <1>2, <2>1 DEF Numbered
<1>4. \A k \in Thread : ~Idle(k)' => Written(SnapOf(k).ver)'
  BY <1>1, <1>2 DEF Versions, Numbered, Idle, SnapOf
<1> QED BY <1>3, <1>4

LEMMA LocalStep ==
    ASSUME Numbered, [Next]_vars
    PROVE  /\ contents' \in 1 .. MaxContents /\ contents <= contents'
           /\ local' \in 0 .. contents'
           /\ ForeignWrite => Written(contents)'
<1> USE BoundAssumption DEF Numbered
<1>1. CASE LocalEdit \/ ForeignWrite
  <2>1. contents < MaxContents /\ contents' = contents + 1 /\ (local' = contents' \/ local' = local)
    BY <1>1 DEF LocalEdit, ForeignWrite, NewContent
  <2> QED BY <2>1 DEF Written
<1>2. CASE contents' = contents /\ (local' = local \/ local' = 0) /\ ~ForeignWrite
  BY <1>2, SMTT(30)
<1>3. ASSUME NEW h \in Thread, ThreadStep(h)
      PROVE  UNCHANGED <<contents, local>>
  BY <1>3 DEF ThreadStep, PickupRefused, Admit, Preflight, Gate, CheckSource, CheckRemote, UploadCommits, UploadFails,
              UploadAnswered, SettleUpload, PersistPartial, VerifyRead, VerifyCommitted,
              VerifyNotCommitted, VerifyUndecided, Replay, AcceptRetry, RunPrepared, RenameRemote,
              RequeueConflict, world
<1>4. ASSUME NEW h \in Thread, Command(h)
      PROVE  contents' = contents /\ (local' = local \/ local' = 0)
  BY <1>4 DEF Command, UploadCommand, RetryTransfer, Overwrite, KeepBoth, Cancel, ClearHistory,
              PrepareRetry, world
<1>5. CycleJob => UNCHANGED <<contents, local>>
  BY DEF CycleJob, RecoverStartup, PromoteRestart, ResumeVerifying, ResumeWaiting, ResumeBackoff,
         ResumeRow, CancelOrphan, PlanUpload, RetryFailed, PrepareRetry, world
<1>6. LocalDelete \/ ForeignRemove \/ NetworkDown \/ NetworkUp \/ Crash \/ UNCHANGED vars
        => contents' = contents /\ (local' = local \/ local' = 0)
  BY DEF LocalDelete, ForeignRemove, NetworkDown, NetworkUp, Crash, world, vars
<1> QED BY <1>1, <1>2, <1>3, <1>4, <1>5, <1>6 DEF Next, World
-----------------------------------------------------------------------------
(* What is known of the cloud *)

(* Files are not forgotten, and what is in the cloud has been recorded. *)
Recorded ==
    /\ \A f \in FileId : cloud[f].at # "none" => cloud'[f].at # "none"
    /\ history \subseteq history'
    /\ \A f \in FileId : cloud'[f].at # "none" => ResultOf(f)' \in history'
    /\ \A f \in FileId : cloud'[f].at # "none" => Written(cloud[f].ver)'
    /\ \A x \in history' : Written(x.ver)'

LEMMA MoreWritten ==
    ASSUME Numbered, [Next]_vars, NEW v, Written(v)
    PROVE  Written(v)'
BY LocalStep DEF Written, Numbered

LEMMA StoredRecorded ==
    ASSUME TypeInv, Numbered, Witnessed, [Next]_vars, NEW f \in FileId, NEW file, file.at = "here",
           Store(f, file), Written(file.ver)'
    PROVE  Recorded
<1>1. cloud'[f] = file /\ \A g \in FileId \ {f} : cloud'[g] = cloud[g]
  BY DEF TypeInv, Store
<1>2. history' = history \cup {[fid |-> f, ver |-> file.ver, ed |-> file.ed]}
  BY DEF Store
<1>3. \A g \in FileId : cloud'[g].at # "none" => ResultOf(g)' \in history'
  BY <1>1, <1>2 DEF ResultOf, Witnessed
<1>4. \A g \in FileId : cloud'[g].at # "none" => Written(cloud[g].ver)'
  <2>1. ASSUME NEW g \in FileId, g # f, cloud'[g].at # "none"
        PROVE  Written(cloud[g].ver)'
    <3>1. Written(cloud[g].ver) /\ cloud'[g].ver = cloud[g].ver
      BY <1>1, <2>1 DEF Numbered
    <3>2. cloud[g].ver \in 1 .. contents'
      BY <3>1, MoreWritten DEF Written
    <3> QED BY <3>1, <3>2 DEF Written
  <2>2. Written(cloud[f].ver)'
    BY <1>1 DEF Written
  <2> QED BY <2>1, <2>2
<1>5. \A x \in history' : Written(x.ver)'
  <2>1. \A x \in history : x.ver \in 1 .. contents'
    BY MoreWritten DEF Written, Numbered
  <2> QED BY <1>2, <2>1 DEF Written
<1> QED BY <1>1, <1>2, <1>3, <1>4, <1>5 DEF Recorded

LEMMA RemovedRecorded ==
    ASSUME TypeInv, Numbered, Witnessed, [Next]_vars, NEW f \in FileId, cloud[f].at # "none",
           cloud' = [cloud EXCEPT ![f].at = "away"], UNCHANGED history
    PROVE  Recorded
<1>1. \A g \in FileId : /\ cloud'[g].ver = cloud[g].ver /\ cloud'[g].ed = cloud[g].ed
                        /\ cloud'[g].at # "none" <=> cloud[g].at # "none"
  BY DEF TypeInv, CloudFile
<1>2. \A g \in FileId : cloud[g].at # "none" => cloud[g].ver \in 1 .. contents'
  BY MoreWritten DEF Numbered, Written
<1>3. \A x \in history : x.ver \in 1 .. contents'
  BY MoreWritten DEF Written, Numbered
<1> QED BY <1>1, <1>2, <1>3 DEF Recorded, ResultOf, Witnessed, Written

LEMMA CloudRecorded ==
    ASSUME IInv, Numbered, Witnessed, [Next]_vars
    PROVE  Recorded
<1> USE DEF IInv
<1>1. CASE UNCHANGED <<cloud, history>>
  <2>1. \A g \in FileId : cloud[g].at # "none" => cloud[g].ver \in 1 .. contents'
    BY MoreWritten DEF Numbered, Written
  <2>2. \A x \in history : x.ver \in 1 .. contents'
    BY MoreWritten DEF Written, Numbered
  <2> QED BY <1>1, <2>1, <2>2 DEF Recorded, ResultOf, Witnessed, Written
<1>2. ASSUME NEW f \in FileId, cloud' = [cloud EXCEPT ![f].at = "away"], UNCHANGED history,
             f \in Here \/ \E h \in Thread : f \in threads[h].todo
      PROVE  Recorded
  BY <1>2, RemovedRecorded DEF Here, Witnessed
<1>3. CASE ForeignWrite
  <2>1. PICK f \in FileId, file \in CloudFile :
            file.at = "here" /\ file.ver = contents' /\ Store(f, file)
    BY <1>3, ForeignFile
  <2>2. contents' \in 1 .. contents'
    BY LocalStep DEF Numbered
  <2>3. Written(file.ver)'
    BY <2>1, <2>2 DEF Written
  <2> QED BY <2>1, <2>3, StoredRecorded
<1>4. ASSUME NEW h \in Thread, UploadCommits(h)
      PROVE  Recorded
  <2>1. PICK f \in FileId, file \in CloudFile :
            file.at = "here" /\ file.ver \in Uploaded(h) /\ Store(f, file)
    BY <1>4, CommittedFile
  <2>2. Written(SnapOf(h).ver) /\ (local # 0 => Written(local))
    BY <1>4 DEF Numbered, UploadCommits, At, Idle, Written, TypeInv
  <2>3. Written(file.ver)
    BY <2>1, <2>2 DEF Uploaded
  <2>4. Written(file.ver)'
    BY <2>3, MoreWritten DEF Written
  <2> QED BY <2>1, <2>4, StoredRecorded
<1> QED BY <1>1, <1>2, <1>3, <1>4, CloudStep

LEMMA NextNumbered ==
    ASSUME IInv, Numbered, Witnessed, [Next]_vars
    PROVE  Numbered'
<1>1. Recorded
  BY CloudRecorded
<1>2. contents' \in 1 .. MaxContents /\ contents <= contents' /\ local' \in 0 .. contents'
  BY LocalStep
<1>3. contents' \in Nat
  BY <1>2
<1>4. /\ \A t \in Task : rows'[t].state \in State => Written(rows[t].ver)'
      /\ \A k \in Thread : ~Idle(k)' => Written(SnapOf(k).ver)'
  <2>1. ASSUME NEW h \in Thread, ThreadStep(h) \/ Command(h) \/ (h = Cycle /\ CycleJob)
        PROVE  /\ \A t \in Task : rows'[t].state \in State => Written(rows[t].ver)'
               /\ \A k \in Thread : ~Idle(k)' => Written(SnapOf(k).ver)'
    BY <1>2, <1>3, <2>1, VersionsThread, VersionsOther, OthersKept, NumberedRows
  <2>2. CASE UNCHANGED rows /\ (UNCHANGED threads \/ Crash)
    <3>1. Crash => \A k \in Thread : Idle(k)'
      BY DEF Crash, IdleThread, Idle
    <3>2. \A t \in Task : rows[t].state \in State => rows[t].ver \in 1 .. contents'
      BY MoreWritten DEF Numbered, Written
    <3>3. \A k \in Thread : ~Idle(k) => SnapOf(k).ver \in 1 .. contents'
      BY MoreWritten DEF Numbered, Written
    <3> QED BY <2>2, <3>1, <3>2, <3>3 DEF Written, Idle, SnapOf
  <2>3. World \/ UNCHANGED vars => UNCHANGED rows /\ (UNCHANGED threads \/ Crash)
    BY DEF World, Crash, LocalEdit, LocalDelete, ForeignWrite, ForeignRemove, NetworkDown, NetworkUp, vars
  <2> QED BY <2>1, <2>2, <2>3, Constants DEF Next
<1> QED BY <1>1, <1>2, <1>4 DEF Numbered, Recorded
-----------------------------------------------------------------------------
(* What a thread has to show for its upload *)

Shows(h) ==
    /\ threads[h].pc \in {"stored", "completed", "committed"} => threads[h].got \in history
    /\ At(h, "stored") => cloud[threads[h].got.fid].at # "none"
    /\ At(h, "committed") => threads[h].got.ver = SnapOf(h).ver
    /\ \A f \in threads[h].todo : cloud[f].at # "none"

(* The size of a content tells it from the others. *)
SizesTell == \A v, w \in Content : SizeOf[v] = SizeOf[w] => v = w

LEMMA SizeTells ==
    ASSUME SizesTell, Numbered, NEW v, NEW w, Written(v), Written(w), SameSize(v, w)
    PROVE  v = w
<1>1. v \in Content /\ w \in Content
  BY BoundAssumption DEF Written, Numbered, Content
<1> QED BY <1>1 DEF SizesTell, SameSize

LEMMA TodoKept ==
    ASSUME TypeInv, NEW h \in Thread,
           Finish(h) \/ \E pc : Enters(h, pc)
    PROVE  threads'[h].todo \subseteq threads[h].todo
BY FinishIs, GotoIs, GotoWithIs, StartIs, GoesOnIs DEF Enters

LEMMA ShowsKept ==
    ASSUME TypeInv, Witnessed, Recorded, NEW h \in Thread, threads'[h] = threads[h]
    PROVE  Shows(h)'
<1>1. threads[h].todo \subseteq FileId /\ (At(h, "stored") => threads[h].got.fid \in FileId)
  BY ThreadsSafe DEF SafeThread, ThreadState
<1> QED BY <1>1 DEF Shows, Witnessed, Recorded, At, SnapOf

LEMMA ShowsQuiet ==
    ASSUME TypeInv, Witnessed, Recorded, NEW h \in Thread,
           threads'[h].pc \in Quiet, threads'[h].todo \subseteq threads[h].todo
    PROVE  Shows(h)'
<1>1. threads[h].todo \subseteq FileId
  BY ThreadsSafe DEF SafeThread, ThreadState
<1>2. threads'[h].pc \notin {"stored", "completed", "committed"}
  BY DEF Quiet
<1> QED BY <1>1, <1>2 DEF Shows, Witnessed, Recorded, At

LEMMA ShowsResult ==
    ASSUME TypeInv, Witnessed, Recorded, NEW h \in Thread,
           NEW pc \in {"stored", "completed", "committed"}, NEW got \in history', GotoWith(h, pc, got),
           pc = "stored" => cloud'[got.fid].at # "none",
           pc = "committed" => got.ver = SnapOf(h).ver
    PROVE  Shows(h)'
<1>1. threads[h].todo \subseteq FileId
  BY ThreadsSafe DEF SafeThread, ThreadState
<1>2. /\ threads'[h].pc = pc /\ threads'[h].got = got /\ threads'[h].row = SnapOf(h)
      /\ threads'[h].todo = threads[h].todo
  BY GotoWithIs
<1> QED BY <1>1, <1>2 DEF Shows, Witnessed, Recorded, At, SnapOf

LEMMA ShowsThread ==
    ASSUME SizesTell, IInv, Numbered, Witnessed, Recorded, NEW h \in Thread, ThreadStep(h)
    PROVE  Shows(h)'
<1> USE DEF IInv
<1>1. CASE Rests(h)
  <2>1. threads'[h].pc \in Quiet /\ threads'[h].todo \subseteq threads[h].todo
    BY <1>1, RestsIs, TodoKept DEF Rests
  <2> QED BY <2>1, ShowsQuiet
<1>2. CASE Finish(h) \/ \E pc \in Quiet : Goto(h, pc)
  BY <1>1, <1>2 DEF Rests, Enters
<1>3. ASSUME NEW f \in Here, GotoWith(h, "completed", ResultOf(f))
      PROVE  Shows(h)'
  <2>1. ResultOf(f) \in history'
    BY DEF Witnessed, Recorded, Here
  <2> QED BY <1>3, <2>1, ShowsResult
<1>4. CASE CheckRemote(h)
  <2>1. CASE Goto(h, "uploading")
    <3>1. threads'[h].pc = "uploading" /\ threads'[h].todo = threads[h].todo
      BY <2>1, GotoIs
    <3>2. threads[h].todo \subseteq FileId
      BY ThreadsSafe DEF SafeThread, ThreadState
    <3> QED BY <3>1, <3>2 DEF Shows, Witnessed, Recorded, At
  <2>2. \A f \in SoleCandidate(SnapOf(h)) : f \in Here
    BY DEF SoleCandidate, Candidates
  <2> QED BY <1>2, <1>3, <1>4, <2>1, <2>2, CheckRemotePlace
<1>5. CASE UploadCommits(h)
  <2>1. PICK f \in FileId, file \in CloudFile :
            /\ file.at = "here" /\ Store(f, file)
            /\ GotoWith(h, "stored", [fid |-> f, ver |-> file.ver, ed |-> file.ed])
    BY <1>5, CommittedFile
  <2> DEFINE got == [fid |-> f, ver |-> file.ver, ed |-> file.ed]
  <2>2. got \in history' /\ cloud'[f].at # "none" /\ got.fid = f
    BY <2>1 DEF Store, TypeInv
  <2> HIDE DEF got
  <2> QED BY <2>1, <2>2, ShowsResult DEF got
<1>6. CASE UploadAnswered(h)
  <2>1. Finish(h) \/ Goto(h, "partial") \/
          \E got \in {threads[h].got, ResultOf(threads[h].got.fid)} : GotoWith(h, "completed", got)
    BY <1>6 DEF UploadAnswered, SettleError
  <2>2. {threads[h].got, ResultOf(threads[h].got.fid)} \subseteq history'
    <3>1. At(h, "stored") /\ threads[h].got.fid \in FileId
      BY <1>6, ThreadsSafe DEF UploadAnswered
    <3> QED BY <3>1 DEF Witnessed, Recorded, At
  <2> QED BY <1>2, <2>1, <2>2, ShowsResult, QuietPCs
<1>7. CASE VerifyRead(h)
  <2>1. CASE \E pc \in {"ambiguous", "notCommitted", "unavailable"} : Goto(h, pc)
    BY <1>2, <2>1, QuietPCs
  <2>2. ASSUME NEW f \in Here, SameSize(cloud[f].ver, SnapOf(h).ver),
               GotoWith(h, "committed", ResultOf(f))
        PROVE  Shows(h)'
    <3>1. Written(cloud[f].ver) /\ Written(SnapOf(h).ver)
      BY <1>7 DEF Numbered, Here, VerifyRead, At, Idle
    <3>2. cloud[f].ver = SnapOf(h).ver
      BY <2>2, <3>1, SizeTells
    <3>3. ResultOf(f) \in history' /\ ResultOf(f).ver = SnapOf(h).ver
      BY <3>2 DEF Witnessed, Recorded, Here, ResultOf
    <3> QED BY <2>2, <3>3, ShowsResult
  <2> QED BY <1>7, <2>1, <2>2, VerifyReadPlace
<1>8. CASE RenameRemote(h)
  <2>1. ASSUME NEW f, threads' = [threads EXCEPT ![h].todo = threads[h].todo \ {f}]
        PROVE  threads'[h].todo \subseteq threads[h].todo
    BY <2>1, ThreadsSafe DEF TypeInv, SafeThread, ThreadState
  <2>2. threads'[h].todo \subseteq threads[h].todo
    BY <1>8, <2>1, FinishIs DEF RenameRemote
  <2>3. threads'[h].pc \notin {"stored", "completed", "committed"}
    BY <1>8, RenamePlace
  <2>4. threads[h].todo \subseteq FileId
    BY ThreadsSafe DEF SafeThread, ThreadState
  <2> QED BY <2>2, <2>3, <2>4 DEF Shows, Witnessed, Recorded, At
<1>9. UploadFails(h) => Finish(h)
  BY DEF UploadFails, SettleError
<1> QED BY <1>1, <1>2, <1>4, <1>5, <1>6, <1>7, <1>8, <1>9, RestingSteps DEF ThreadStep

LEMMA ShowsOther ==
    ASSUME IInv, Witnessed, Recorded, NEW h \in Thread, Command(h) \/ (h = Cycle /\ CycleJob)
    PROVE  Shows(h)'
<1> USE DEF IInv
<1>1. CASE Overwrite(h)
  <2>1. threads'[h].pc = "overwrite" /\ threads'[h].todo = Here
    BY <1>1 DEF Overwrite, TypeInv
  <2> QED BY <2>1 DEF Shows, Recorded, Here, At
<1>2. ASSUME NEW t, PrepareRetry(h, t)
      PROVE  threads' = threads \/ Start(h, "retry", t, rows[t])
  BY <1>2 DEF PrepareRetry
<1>3. ASSUME NEW n, Enqueue(h, n)
      PROVE  threads' = threads \/ \E t, r : Start(h, "run", t, r)
  BY <1>3 DEF Enqueue, Open
<1>4. ~Overwrite(h) => threads' = threads \/ \E pc, t, r : Start(h, pc, t, r)
  BY <1>2, <1>3 DEF Command, CycleJob, UploadCommand, PlanUpload, RetryTransfer, RetryFailed, KeepBoth,
     Cancel, ClearHistory, PromoteRestart, CancelOrphan, RecoverStartup, ResumeVerifying, ResumeWaiting,
     ResumeBackoff, ResumeRow
<1>5. (\E pc, t, r : Start(h, pc, t, r)) => threads'[h].todo = {}
  BY StartIs
<1>6. threads' = threads \/ threads'[h].pc \in Quiet
  BY CommandPlace
<1>7. CASE threads' = threads
  BY <1>7, ShowsKept
<1> QED BY <1>1, <1>4, <1>5, <1>6, <1>7, ShowsQuiet

(* The baseline changes with the end of a row, to what its thread has to    *)
(* show.                                                                    *)
BaselineStep(h) ==
    /\ threads[h].pc \in {"completed", "committed"}
    /\ ValidResult(SnapOf(h), threads[h].got) \/ At(h, "committed")
    /\ baseline' = [fid |-> threads[h].got.fid, ver |-> SnapOf(h).ver, ed |-> threads[h].got.ed]
    /\ Accepted(h, Done(h)) /\ Transition(h, Done(h)) /\ Finish(h)

LEMMA BaselineSteps ==
    ASSUME [Next]_vars
    PROVE  UNCHANGED baseline \/ \E h \in Thread : BaselineStep(h)
<1>1. ASSUME NEW h \in Thread, SettleUpload(h) \/ VerifyCommitted(h)
      PROVE  UNCHANGED baseline \/ BaselineStep(h)
  BY <1>1, SMTT(30) DEF SettleUpload, VerifyCommitted, Settle, BaselineStep, Done, At
<1>2. ASSUME NEW h \in Thread, ThreadStep(h), ~SettleUpload(h), ~VerifyCommitted(h)
      PROVE  UNCHANGED baseline
  BY <1>2 DEF ThreadStep, PickupRefused, Admit, Preflight, Gate, CheckSource, CheckRemote, UploadCommits, UploadFails,
              UploadAnswered, PersistPartial, VerifyRead, VerifyNotCommitted, VerifyUndecided, Replay,
              AcceptRetry, RunPrepared, RenameRemote, RequeueConflict
<1>3. ASSUME NEW h \in Thread, Command(h)
      PROVE  UNCHANGED baseline
  BY <1>3 DEF Command, UploadCommand, RetryTransfer, Overwrite, KeepBoth, Cancel, ClearHistory, PrepareRetry
<1>4. CycleJob => UNCHANGED baseline
  BY DEF CycleJob, RecoverStartup, PromoteRestart, ResumeVerifying, ResumeWaiting, ResumeBackoff,
         ResumeRow, CancelOrphan, PlanUpload, RetryFailed, PrepareRetry
<1>5. World \/ UNCHANGED vars => UNCHANGED baseline
  BY DEF World, Crash, LocalEdit, LocalDelete, ForeignWrite, ForeignRemove, NetworkDown, NetworkUp, vars
<1> QED BY <1>1, <1>2, <1>3, <1>4, <1>5 DEF Next

(* What is recorded is the result itself. *)
LEMMA BaselineShown ==
    ASSUME SizesTell, IInv, Numbered, Witnessed, NEW h \in Thread, BaselineStep(h)
    PROVE  baseline' = threads[h].got /\ threads[h].got \in history
<1> DEFINE got == threads[h].got
<1>1. got \in history /\ got \in Result
  BY DEF BaselineStep, Witnessed, IInv, TypeInv
<1>2. got = [fid |-> got.fid, ver |-> got.ver, ed |-> got.ed]
  BY <1>1 DEF Result
<1>3. Written(got.ver) /\ Written(SnapOf(h).ver)
  BY <1>1 DEF Numbered, BaselineStep, Idle
<1>4. got.ver = SnapOf(h).ver
  <2>1. CASE At(h, "committed")
    BY <2>1 DEF Witnessed
  <2>2. CASE ValidResult(SnapOf(h), got)
    BY <1>3, <2>2, SizeTells DEF ValidResult
  <2> QED BY <2>1, <2>2 DEF BaselineStep
<1> QED BY <1>1, <1>2, <1>4 DEF BaselineStep

LEMMA NextWitnessed ==
    ASSUME SizesTell, IInv, Numbered, Witnessed, [Next]_vars
    PROVE  Witnessed'
<1> USE DEF IInv
<1>1. Recorded
  BY CloudRecorded
<1>2. \A k \in Thread : Shows(k)'
  <2>1. ASSUME NEW h \in Thread, ThreadStep(h) \/ Command(h) \/ (h = Cycle /\ CycleJob), NEW k \in Thread
        PROVE  Shows(k)'
    <3>1. CASE k = h
      BY <1>1, <2>1, <3>1, ShowsThread, ShowsOther
    <3>2. CASE k # h
      BY <1>1, <2>1, <3>2, OthersKept, ShowsKept
    <3> QED BY <3>1, <3>2
  <2>2. CASE UNCHANGED threads
    BY <1>1, <2>2, ShowsKept
  <2>3. CASE Crash
    BY <2>3 DEF Crash, IdleThread, Shows, At
  <2>4. World \/ UNCHANGED vars => UNCHANGED threads \/ Crash
    BY DEF World, LocalEdit, LocalDelete, ForeignWrite, ForeignRemove, NetworkDown, NetworkUp, vars
  <2> QED BY <2>1, <2>2, <2>3, <2>4, Constants DEF Next
<1>3. NoFalseSuccess'
  BY <1>1, BaselineSteps, BaselineShown DEF NoFalseSuccess, Witnessed, Recorded
<1> QED BY <1>1, <1>2, <1>3 DEF Witnessed, Shows, Recorded

THEOREM Evidence ==
    ASSUME SizesTell
    PROVE  Spec => [](IInv /\ Numbered /\ Witnessed)
<1>1. Init => Numbered
  BY StateNames, BoundAssumption
     DEF Init, Numbered, BlankRow, IdleThread, Idle
<1>2. Init => Witnessed
  BY DEF Init, Witnessed, NoFalseSuccess, NoResult, IdleThread, At
<1>3. IInv /\ Numbered /\ Witnessed /\ [Next]_vars => Numbered' /\ Witnessed'
  BY NextNumbered, NextWitnessed
<1> QED BY <1>1, <1>2, <1>3, Inductive, PTL DEF Spec

(* What the baseline calls synced is true, as far as a size tells contents  *)
(* apart (validate_remote_result compares nothing else): the cloud's file   *)
(* had exactly that content at that editedTime, whether the answer came,    *)
(* was fetched again, or the commit was found by a later verification.      *)
THEOREM SyncedIsTrue ==
    ASSUME SizesTell
    PROVE  Spec => []NoFalseSuccess
<1>1. Witnessed => NoFalseSuccess
  BY DEF Witnessed
<1> QED BY <1>1, Evidence, PTL
-----------------------------------------------------------------------------
(* The budget: every upload that reaches the server is paid for, by an      *)
(* attempt or by a round of verification, before the row is sent again.     *)

LEMMA TightBudget ==
    ASSUME NEW r \in Row, NEW n \in Nat, Tight(r, n)
    PROVE  RowBudget(r, n)
BY Constants DEF RowBudget, Tight, Loose, Row

LEMMA LooseBudget ==
    ASSUME NEW r \in Row, NEW n \in Nat, Loose(r, n), r.state \notin Runnable \cup {Running}
    PROVE  RowBudget(r, n)
BY Constants DEF RowBudget, Loose, Row

LEMMA TightIsLoose ==
    ASSUME NEW r \in Row, NEW n \in Nat, Tight(r, n)
    PROVE  Loose(r, n) /\ Loose(r, n + 1) /\ n + 1 \in Nat
BY Constants DEF Tight, Loose, Row

LEMMA SameBudget ==
    ASSUME NEW r, NEW new, new.att = r.att, new.vrf = r.vrf, NEW n
    PROVE  (Tight(r, n) => Tight(new, n)) /\ (Loose(r, n) => Loose(new, n))
BY DEF Tight, Loose

(* An attempt more pays for an upload more. *)
LEMMA PaidBudget ==
    ASSUME NEW r \in Row, NEW new \in Row, new.att = r.att + 1, new.vrf = r.vrf, NEW n \in Nat
    PROVE  /\ Loose(r, n) /\ r.vrf < MaxReplay => Tight(new, n) /\ Loose(new, n)
           /\ Tight(r, n) => Tight(new, n + 1) /\ Tight(new, n) /\ Loose(new, n + 1)
BY Constants DEF Tight, Loose, Row

BudgetStep(h) ==
    /\ \A t \in Task : RowBudget(rows'[t], Used(t)')
    /\ MaySend(h)' => Tight(SnapOf(h), Used(threads[h].id))'
    /\ \A t \in Task : Used(t)' <= Used(t) \/ (InExec(h) /\ t = threads[h].id)

LEMMA UsedNat ==
    ASSUME TypeInv
    PROVE  \A t \in Task : Used(t) \in Nat
BY DEF TypeInv, Spent, Used

LEMMA RestingNeverSends == \A h : threads[h].pc \notin Before \cup {"replay"} => ~MaySend(h)
BY DEF MaySend, At

(* The obligations of the threads that do not move. *)
LEMMA OtherBudgets ==
    ASSUME IInv, ~overtaken, TypeInv', Budget, NEW h \in Thread, BudgetStep(h),
           \A t \in Task : Grows(rows[t], rows'[t]),
           \A k \in Thread \ {h} : threads'[k] = threads[k]
    PROVE  Budget'
<1>1. ASSUME NEW k \in Thread, k # h, MaySend(k)'
      PROVE  Tight(SnapOf(k), Used(threads[k].id))'
  <2>1. threads'[k] = threads[k]
    BY <1>1
  <2>2. ~Idle(k) /\ ~At(k, "prepared") /\ threads[k].id \in Task
    <3>1. ~Idle(k) /\ ~At(k, "prepared")
      BY <1>1, <2>1 DEF MaySend, At, Idle, Before
    <3> QED BY <3>1, ThreadsSafe DEF IInv
  <2>3. MaySend(k)
    <3>1. CASE threads[k].pc \in Before
      BY <3>1 DEF MaySend
    <3>2. CASE At(k, "replay") /\ Current(k)'
      <4>1. Agrees(threads[k], rows[threads[k].id]) /\ Grows(rows[threads[k].id], rows'[threads[k].id])
        BY <2>2 DEF IInv, Snapshots, Idle
      <4>2. rows[threads[k].id].rev \in Nat /\ rows'[threads[k].id].rev \in Nat /\ SnapOf(k).rev \in Nat
        BY <2>2, RowTypes DEF IInv, TypeInv, SafeRow, Row
      <4>3. rows'[threads[k].id].state \in State /\ rows'[threads[k].id].rev = SnapOf(k).rev
        BY <2>1, <3>2 DEF Current, SnapOf
      <4>4. Current(k)
        BY <2>2, <4>1, <4>2, <4>3, StateNames DEF Agrees, Grows, Current, SnapOf, At
      <4> QED BY <3>2, <4>4 DEF MaySend
    <3> QED BY <1>1, <2>1, <3>1, <3>2 DEF MaySend, At
  <2>4. Tight(SnapOf(k), Used(threads[k].id))
    BY <2>3 DEF Budget
  <2>5. Used(threads[k].id)' <= Used(threads[k].id)
    <3>1. ASSUME InExec(h), threads[k].id = threads[h].id
          PROVE  FALSE
      <4>1. rows[threads[k].id].state = Running
        BY <3>1 DEF IInv, Execution, Owns
      <4>2. ~InExec(k)
        BY <1>1, <3>1 DEF IInv, Execution, Holds, Owns
      <4>3. At(k, "replay") /\ Current(k)
        BY <2>3, <4>2 DEF MaySend, InExec, Before, ExecPC
      <4>4. rows[threads[k].id] = SnapOf(k)
        BY <2>2, <4>3, CurrentIs
      <4> QED BY <2>2, <4>1, <4>3, <4>4, SnapshotAt, DistinctNames DEF At
    <3> QED BY <2>1, <2>2, <3>1 DEF BudgetStep, Used
  <2>6. Used(threads[k].id) \in Nat /\ Used(threads[k].id)' \in Nat
    BY <2>1, <2>2, UsedNat DEF IInv, TypeInv, Used, Spent
  <2>7. SnapOf(k)' = SnapOf(k) /\ SnapOf(k) \in Row
    BY <2>1, RowTypes DEF SnapOf, IInv
  <2> QED BY <2>1, <2>4, <2>5, <2>6, <2>7 DEF Tight, Row
<1> QED BY <1>1 DEF Budget, BudgetStep

(* Who ends with its row paid for. *)
LEMMA BudgetEnd ==
    ASSUME IInv, TypeInv', Budget, NEW h \in Thread, ~Idle(h), ~At(h, "prepared"),
           \A t \in Task : Used(t)' = Used(t),
           Finish(h) \/ threads'[h].pc \notin Before \cup {"replay"},
           NEW new, Writes(h, new),
           rows[threads[h].id] = SnapOf(h) =>
              \/ Tight(new, Used(threads[h].id))
              \/ Loose(new, Used(threads[h].id)) /\ new.state \notin Runnable \cup {Running}
              \/ new.state = Completed
    PROVE  BudgetStep(h)
<1>1. \A t \in Task : Used(t)' = Used(t) /\ Used(t) \in Nat
  BY UsedNat DEF IInv
<1>2. ~MaySend(h)'
  BY FinishIs DEF MaySend, At, Before, IInv
<1>3. threads[h].id \in Task
  BY ThreadsSafe DEF IInv
<1>4. ASSUME NEW t \in Task
      PROVE  RowBudget(rows'[t], Used(t)')
  <2>1. CASE rows'[t] = rows[t]
    BY <1>1, <2>1 DEF Budget
  <2>2. CASE t = threads[h].id /\ Current(h) /\ Put(h, new)
    <3>1. rows[t] = SnapOf(h) /\ rows'[t] = new
      BY <2>2, CurrentIs DEF Put
    <3>2. new \in Row
      BY <3>1 DEF TypeInv, SafeRow
    <3>3. RowBudget(rows[t], Used(t))
      BY DEF Budget
    <3>4. new.state = Completed => RowBudget(new, Used(t))
      BY <3>3, DistinctNames DEF RowBudget, Runnable
    <3> QED BY <1>1, <2>2, <3>1, <3>2, <3>4, TightBudget, LooseBudget
  <2> QED BY <1>3, <2>1, <2>2 DEF Writes, Put
<1> QED BY <1>1, <1>2, <1>4 DEF BudgetStep
LEMMA BudgetGo ==
    ASSUME IInv, TypeInv', Budget, NEW h \in Thread, ~Idle(h), UNCHANGED <<rows, spent>>,
           \/ ~MaySend(h)'
           \/ MaySend(h) /\ threads'[h].id = threads[h].id /\ threads'[h].row = SnapOf(h)
    PROVE  BudgetStep(h)
<1>1. \A t \in Task : Used(t)' = Used(t) /\ Used(t) \in Nat
  BY UsedNat DEF Used, IInv
<1>2. threads[h].id \in Task
  BY ThreadsSafe DEF IInv
<1>3. MaySend(h)' => Tight(SnapOf(h), Used(threads[h].id))'
  BY <1>1, <1>2 DEF Budget, SnapOf, Used
<1> QED BY <1>1, <1>3 DEF BudgetStep, Budget

(* A row in an unchanged state of its budget. *)
LEMMA LooseSnapshot ==
    ASSUME IInv, Budget, NEW h \in Thread, ~Idle(h), rows[threads[h].id] = SnapOf(h)
    PROVE  /\ SnapOf(h).state \in Runnable => Tight(SnapOf(h), Used(threads[h].id))
           /\ SnapOf(h).state \in {Running, VerifyingRemote, RestartRequired, Failed} =>
                 Loose(SnapOf(h), Used(threads[h].id))
           /\ SnapOf(h).state = Running => SnapOf(h).vrf < MaxReplay
<1>1. threads[h].id \in Task
  BY ThreadsSafe DEF IInv
<1> QED BY <1>1 DEF Budget, RowBudget

LEMMA BudgetSame ==
    ASSUME IInv, TypeInv', Budget, NEW h \in Thread, ~Idle(h), ~At(h, "prepared"), UNCHANGED spent,
           Finish(h), NEW new, NEW to, Same(SnapOf(h), new, to), Transition(h, new) \/ Patch(h, new),
           \/ SnapOf(h).state \in Runnable
           \/ /\ SnapOf(h).state \in {Running, VerifyingRemote, RestartRequired, Failed}
              /\ to \notin Runnable \cup {Running}
    PROVE  BudgetStep(h)
<1>1. Writes(h, new)
  BY TransitionWrites
<1>2. rows[threads[h].id] = SnapOf(h) =>
              \/ Tight(new, Used(threads[h].id))
              \/ Loose(new, Used(threads[h].id)) /\ new.state \notin Runnable \cup {Running}
  BY LooseSnapshot, SameBudget DEF Same
<1>3. \A t \in Task : Used(t)' = Used(t)
  BY DEF Used
<1> QED BY <1>1, <1>2, <1>3, BudgetEnd

LEMMA NotRunnable ==
    /\ {Completed, VerifyingRemote, RestartRequired, Failed, Canceled} \cap (Runnable \cup {Running}) = {}
    /\ Pending \in Runnable /\ Running \notin Runnable
BY DistinctNames DEF Runnable

LEMMA BudgetReject ==
    ASSUME IInv, TypeInv', Budget, NEW h \in Thread, ~Idle(h), ~At(h, "prepared"), UNCHANGED spent,
           NEW to, Reject(h, to),
           \/ SnapOf(h).state \in Runnable
           \/ /\ SnapOf(h).state \in {Running, VerifyingRemote, RestartRequired, Failed}
              /\ to \in {RestartRequired, Failed}
    PROVE  BudgetStep(h)
<1>1. Same(SnapOf(h), Stepped(SnapOf(h), to), to)
  BY SteppedSame, RowTypes DEF IInv
<1> QED BY <1>1, BudgetSame, NotRunnable DEF Reject

LEMMA BudgetAdmit ==
    ASSUME IInv, TypeInv', Budget, NEW h \in Thread, Admit(h) \/ Preflight(h)
    PROVE  BudgetStep(h)
<1>1. ~Idle(h) /\ ~At(h, "prepared") /\ threads[h].pc \in RunPC /\ UNCHANGED spent
  BY DEF Admit, Preflight, At, Idle, RunPC
<1>2. SnapOf(h).state \in Runnable
  BY <1>1, SnapshotAt
<1>3. \/ \E to : Reject(h, to)
      \/ UNCHANGED rows /\ (Finish(h) \/ \E pc \in {"preflight", "gate"} : Goto(h, pc))
  BY DEF Admit, Preflight
<1>4. (Finish(h) \/ \E pc \in {"preflight", "gate"} : Goto(h, pc)) => ~MaySend(h)'
  BY FinishIs, GotoIs DEF MaySend, Before, At, IInv
<1> QED BY <1>1, <1>2, <1>3, <1>4, BudgetReject, BudgetGo

LEMMA BudgetGate ==
    ASSUME IInv, TypeInv', Budget, NEW h \in Thread, Gate(h)
    PROVE  BudgetStep(h)
<1> DEFINE running == Stepped(SnapOf(h), Running)
           t == threads[h].id
<1>1. ~Idle(h) /\ ~At(h, "prepared") /\ threads[h].pc \in RunPC /\ UNCHANGED spent
  BY DEF Gate, At, Idle, RunPC
<1>2. SnapOf(h).state \in Runnable /\ SnapOf(h) \in Row /\ t \in Task
  BY <1>1, SnapshotAt, RowTypes, ThreadsSafe DEF IInv
<1>3. \A u \in Task : Used(u)' = Used(u) /\ Used(u) \in Nat
  BY <1>1, UsedNat DEF Used, IInv
<1>4. CASE GateOpen(h) /\ ~Accepted(h, running)
  <2>1. Finish(h) /\ UNCHANGED rows
    BY <1>1, <1>4, TransitionIs DEF Gate
  <2>2. ~MaySend(h)'
    BY <2>1, FinishIs DEF MaySend, Before, At, IInv
  <2> QED BY <1>1, <2>1, <2>2, BudgetGo
<1>5. CASE GateOpen(h) /\ Accepted(h, running)
  <2>1. Put(h, running) /\ rows[t] = SnapOf(h)
    BY <1>1, <1>5, TransitionIs DEF Gate
  <2>2. GoesOn(h, "source", running)
    BY <1>5 DEF Gate, GoesOn
  <2>3. Same(SnapOf(h), running, Running)
    BY <1>2, SteppedSame
  <2> HIDE DEF running
  <2>4. threads'[h].id = t /\ threads'[h].row = running
    BY <2>2, GoesOnIs DEF IInv
  <2>5. Tight(running, Used(t))
    BY <1>1, <1>2, <2>1, <2>3, LooseSnapshot, SameBudget DEF Same
  <2>6. running \in Row
    BY <1>2, <2>1 DEF Put, TypeInv, SafeRow
  <2>7. RowBudget(running, Used(t))
    BY <1>2, <1>3, <2>5, <2>6, TightBudget
  <2>8. \A u \in Task : RowBudget(rows'[u], Used(u)')
    BY <1>3, <2>1, <2>7 DEF Put, Budget
  <2>9. Tight(SnapOf(h), Used(threads[h].id))'
    BY <1>2, <1>3, <2>4, <2>5 DEF SnapOf, Used
  <2> QED BY <1>3, <2>8, <2>9 DEF BudgetStep
<1>6. CASE ~GateOpen(h)
  <2>1. /\ Finish(h)
        /\ rows' = [u \in Task |-> IF u \in RivalResults(h)
                                   THEN Stepped(rows[u], VerifyingRemote) ELSE rows[u]]
    BY <1>6 DEF Gate
  <2>2. ASSUME NEW u \in Task
        PROVE  RowBudget(rows'[u], Used(u)')
    <3>1. CASE u \in RivalResults(h)
      <4>1. rows[u].state = RestartRequired /\ rows[u] \in Row
        BY <3>1, RowTypes DEF RivalResults, RestartsWithResult, InState, IInv
      <4>2. Same(rows[u], rows'[u], VerifyingRemote)
        BY <2>1, <3>1, <4>1, SteppedSame
      <4>3. Loose(rows'[u], Used(u))
        BY <4>1, <4>2, SameBudget DEF Budget, RowBudget, Same
      <4>4. rows'[u] \in Row
        BY DEF TypeInv, SafeRow
      <4> QED BY <1>3, <4>2, <4>3, <4>4, LooseBudget, NotRunnable DEF Same
    <3>2. CASE u \notin RivalResults(h)
      BY <1>3, <2>1, <3>2 DEF Budget
    <3> QED BY <3>1, <3>2
  <2>3. ~MaySend(h)'
    BY <2>1, FinishIs DEF MaySend, Before, At, IInv
  <2> QED BY <1>3, <2>2, <2>3 DEF BudgetStep
<1> QED BY <1>4, <1>5, <1>6
LEMMA RunningBudget ==
    ASSUME NEW r \in Row, NEW n \in Nat, Loose(r, n), r.vrf < MaxReplay, r.state = Running
    PROVE  RowBudget(r, n)
BY Constants, NotRunnable DEF RowBudget, Loose, Row

LEMMA BudgetCheckSource ==
    ASSUME IInv, ~overtaken, TypeInv', Budget, NEW h \in Thread, CheckSource(h)
    PROVE  BudgetStep(h)
<1>1. InExec(h) /\ MaySend(h) /\ UNCHANGED spent
  BY DEF CheckSource, At, InExec, ExecPC, MaySend, Before
<1>2. ~Idle(h) /\ ~At(h, "prepared") /\ SnapOf(h).state = Running
  BY <1>1, ExecAt
<1>3. CASE Goto(h, "remote") /\ UNCHANGED rows
  BY <1>1, <1>2, <1>3, GotoIs, BudgetGo DEF IInv
<1>4. CASE Reject(h, RestartRequired)
  BY <1>1, <1>2, <1>4, BudgetReject
<1> QED BY <1>3, <1>4 DEF CheckSource

(* What the policy says of an error of this thread's request. *)
Verdict(h, e) == Classify(e, SnapOf(h).op, SnapOf(h).att)

(* A request that may have reached the server is paid for before its row    *)
(* runs again.                                                              *)
LostErrors ==
    {TransportError("Timeout", TRUE), StatusError(403, TRUE), StatusError(429, TRUE),
     StatusError(503, TRUE), SessionExpired}

LEMMA LostErrorsPay ==
    ASSUME NEW e \in LostErrors, NEW op \in {"Create", "Update"}, NEW n
    PROVE  LET d == Classify(e, op, n) IN ~d.consumesBudget => TargetOf(d) \in {Failed, VerifyingRemote}
<1>1. CASE e = TransportError("Timeout", TRUE)
  BY <1>1 DEF Classify, ClassifyTransport, TransportError, ModifiesRemote, Permanent, VerifyRemote,
              Decision, TargetOf
<1>2. CASE e \in {StatusError(403, TRUE), StatusError(429, TRUE), StatusError(503, TRUE)}
  BY <1>2 DEF Classify, ClassifyStatus, StatusError, Permanent, Backoff, Decision, TargetOf
<1>3. CASE e = SessionExpired
  BY <1>3 DEF Classify, SessionExpired, Decision, TargetOf
<1>4. \/ e = TransportError("Timeout", TRUE)
      \/ e \in {StatusError(403, TRUE), StatusError(429, TRUE), StatusError(503, TRUE)}
      \/ e = SessionExpired
  BY ZenonT(60) DEF LostErrors
<1> QED BY <1>1, <1>2, <1>3, <1>4, ZenonT(60)

LEMMA ErrorPut ==
    ASSUME IInv, ~overtaken, TypeInv', NEW h \in Thread, InExec(h), NEW e, SettleError(h, e)
    PROVE  LET new == ErrorRow(SnapOf(h), Verdict(h, e)) IN
           /\ Finish(h) /\ Put(h, new) /\ new \in Row
           /\ new.state = TargetOf(Verdict(h, e)) /\ new.vrf = SnapOf(h).vrf
           /\ new.att = IF Verdict(h, e).consumesBudget THEN SnapOf(h).att + 1 ELSE SnapOf(h).att
<1> DEFINE new == ErrorRow(SnapOf(h), Verdict(h, e))
<1>1. Transition(h, new) /\ Finish(h)
  BY DEF SettleError, ErrorRow, Verdict
<1>2. /\ new.state = TargetOf(Verdict(h, e)) /\ new.vrf = SnapOf(h).vrf
      /\ new.att = IF Verdict(h, e).consumesBudget THEN SnapOf(h).att + 1 ELSE SnapOf(h).att
  BY ErrorRowIs, RowTypes DEF IInv
<1>3. TargetOf(Verdict(h, e)) \in State \ {Pending, Running}
  BY DEF TargetOf, State, Pending, Running, WaitingForNetwork, BackingOff, VerifyingRemote, Failed
<1> HIDE DEF new
<1>4. Put(h, new)
  BY <1>1, <1>2, <1>3, ExecCurrent, ExecWrites
<1>5. new \in Row
  BY <1>4, ExecAt DEF Put, TypeInv, SafeRow
<1> QED BY <1>1, <1>2, <1>4, <1>5 DEF new

(* How the execution of a row ends, whatever was sent in this step. *)
LEMMA BudgetExec ==
    ASSUME IInv, ~overtaken, Budget, NEW h \in Thread, InExec(h), ~MaySend(h)', NEW new \in Row, Put(h, new),
           \A t \in Task \ {threads[h].id} : Used(t)' = Used(t),
           NEW n \in Nat, spent'[threads[h].id].uploads = n,
           \/ Tight(new, n)
           \/ Loose(new, n) /\ new.state \notin Runnable \cup {Running}
    PROVE  BudgetStep(h)
<1> DEFINE t == threads[h].id
<1>1. t \in Task
  BY ExecAt
<1>2. RowBudget(new, n)
  BY TightBudget, LooseBudget
<1>3. \A u \in Task : RowBudget(rows'[u], Used(u)')
  BY <1>1, <1>2 DEF Put, Budget, Used
<1>4. \A u \in Task : Used(u)' <= Used(u) \/ (InExec(h) /\ u = threads[h].id)
  BY UsedNat DEF IInv
<1> QED BY <1>3, <1>4 DEF BudgetStep

LEMMA SentIs ==
    ASSUME IInv, NEW h \in Thread, threads[h].id \in Task, CountSent(h)
    PROVE  /\ spent'[threads[h].id].uploads = Used(threads[h].id) + 1
           /\ \A t \in Task \ {threads[h].id} : Used(t)' = Used(t)
           /\ Used(threads[h].id) \in Nat
BY UsedNat DEF CountSent, Used, IInv, TypeInv, Spent

LEMMA TightBefore ==
    ASSUME IInv, ~overtaken, Budget, NEW h \in Thread, threads[h].pc \in Before
    PROVE  /\ InExec(h) /\ MaySend(h) /\ Tight(SnapOf(h), Used(threads[h].id))
           /\ Used(threads[h].id) \in Nat /\ SnapOf(h) \in Row
<1>1. InExec(h) /\ MaySend(h)
  BY DEF InExec, ExecPC, MaySend, Before
<1> QED BY <1>1, ExecAt, UsedNat, RowTypes DEF Budget, IInv

(* An error before the request, or one that says it was not executed. *)
LEMMA BudgetUnsent ==
    ASSUME IInv, ~overtaken, TypeInv', Budget, NEW h \in Thread, threads[h].pc \in Before, NEW e,
           SettleError(h, e), UNCHANGED spent
    PROVE  BudgetStep(h)
<1> DEFINE new == ErrorRow(SnapOf(h), Verdict(h, e))
           n == Used(threads[h].id)
<1>1. InExec(h) /\ Tight(SnapOf(h), n) /\ n \in Nat /\ SnapOf(h) \in Row
  BY TightBefore
<1>2. /\ Finish(h) /\ Put(h, new) /\ new \in Row /\ new.vrf = SnapOf(h).vrf
      /\ new.att = SnapOf(h).att + 1 \/ new.att = SnapOf(h).att
  BY <1>1, ErrorPut
<1> HIDE DEF new
<1>3. Tight(new, n)
  BY <1>1, <1>2, PaidBudget, SameBudget
<1>4. ~MaySend(h)'
  BY <1>2, FinishIs DEF MaySend, Before, At, IInv
<1>5. spent'[threads[h].id].uploads = n /\ \A u \in Task \ {threads[h].id} : Used(u)' = Used(u)
  BY DEF Used
<1> HIDE DEF n
<1> QED BY <1>1, <1>2, <1>3, <1>4, <1>5, BudgetExec

LEMMA BudgetCheckRemote ==
    ASSUME IInv, ~overtaken, TypeInv', Budget, NEW h \in Thread, CheckRemote(h)
    PROVE  BudgetStep(h)
<1>1. threads[h].pc \in Before /\ UNCHANGED spent
  BY DEF CheckRemote, At, Before
<1>2. InExec(h) /\ MaySend(h)
  BY <1>1, TightBefore
<1>3. ~Idle(h) /\ ~At(h, "prepared") /\ SnapOf(h).state = Running
  BY <1>2, ExecAt
<1>4. CASE \E e : SettleError(h, e)
  BY <1>1, <1>4, BudgetUnsent
<1>5. CASE Goto(h, "uploading") /\ UNCHANGED rows
  BY <1>1, <1>2, <1>3, <1>5, GotoIs, BudgetGo DEF IInv
<1>6. CASE Reject(h, RestartRequired)
  BY <1>1, <1>3, <1>6, BudgetReject
<1>7. ASSUME NEW f, UNCHANGED rows, GotoWith(h, "completed", ResultOf(f))
      PROVE  BudgetStep(h)
  <2>1. ~MaySend(h)'
    BY <1>7, GotoWithIs DEF MaySend, Before, At, IInv
  <2> QED BY <1>1, <1>3, <1>7, <2>1, BudgetGo
<1>8. CASE /\ Transition(h, [Stepped(SnapOf(h), RestartRequired) EXCEPT !.conflict = TRUE])
           /\ Finish(h)
  <2>1. Same(SnapOf(h), [Stepped(SnapOf(h), RestartRequired) EXCEPT !.conflict = TRUE], RestartRequired)
    BY SteppedSame, RowTypes DEF IInv
  <2> QED BY <1>1, <1>3, <1>8, <2>1, BudgetSame, NotRunnable
<1>9. CASE CreateCheck(h)
  BY <1>5, <1>6, <1>7, <1>8, <1>9 DEF CreateCheck
<1>10. CASE UpdateCheck(h)
  BY <1>4, <1>5, <1>6, <1>10 DEF UpdateCheck
<1> QED BY <1>4, <1>9, <1>10 DEF CheckRemote

(* A request that reached the server: the row is loose until its end is     *)
(* known, and paid for when it can run again.                               *)
LEMMA BudgetCommits ==
    ASSUME IInv, ~overtaken, TypeInv', Budget, NEW h \in Thread, UploadCommits(h)
    PROVE  BudgetStep(h)
<1> DEFINE t == threads[h].id
           n == Used(t)
<1>1. threads[h].pc \in Before /\ CountSent(h) /\ UNCHANGED rows
  BY DEF UploadCommits, At, Before
<1>2. InExec(h) /\ Tight(SnapOf(h), n) /\ n \in Nat /\ SnapOf(h) \in Row
  BY <1>1, TightBefore
<1>3. t \in Task /\ rows[t] = SnapOf(h) /\ SnapOf(h).state = Running
  BY <1>2, ExecAt, ExecCurrent
<1>4. /\ spent'[t].uploads = n + 1 /\ \A u \in Task \ {t} : Used(u)' = Used(u)
  BY <1>1, <1>3, SentIs
<1>5. ~MaySend(h)'
  <2>1. \E got : GotoWith(h, "stored", got)
    BY DEF UploadCommits
  <2> QED BY <2>1, GotoWithIs DEF MaySend, Before, At, IInv
<1>6. RowBudget(SnapOf(h), n + 1)
  <2>1. Loose(SnapOf(h), n + 1) /\ n + 1 \in Nat
    BY <1>2, TightIsLoose
  <2>2. SnapOf(h).vrf < MaxReplay
    BY <1>2 DEF Tight
  <2> QED BY <1>2, <1>3, <2>1, <2>2, RunningBudget
<1>7. \A u \in Task : RowBudget(rows'[u], Used(u)')
  BY <1>1, <1>3, <1>4, <1>6 DEF Budget, Used
<1>8. \A u \in Task : Used(u)' <= Used(u) \/ (InExec(h) /\ u = threads[h].id)
  BY <1>2, <1>4, UsedNat DEF IInv
<1> QED BY <1>5, <1>7, <1>8 DEF BudgetStep

LEMMA BudgetSent ==
    ASSUME IInv, ~overtaken, TypeInv', Budget, NEW h \in Thread, threads[h].pc \in Before, NEW e \in LostErrors,
           SettleError(h, e), CountSent(h)
    PROVE  BudgetStep(h)
<1> DEFINE t == threads[h].id
           n == Used(t)
           d == Verdict(h, e)
           new == ErrorRow(SnapOf(h), d)
<1>1. InExec(h) /\ Tight(SnapOf(h), n) /\ n \in Nat /\ SnapOf(h) \in Row
  BY TightBefore
<1>2. /\ Finish(h) /\ Put(h, new) /\ new \in Row /\ new.vrf = SnapOf(h).vrf
      /\ new.state = TargetOf(d)
      /\ new.att = IF d.consumesBudget THEN SnapOf(h).att + 1 ELSE SnapOf(h).att
  BY <1>1, ErrorPut
<1>3. ~d.consumesBudget => TargetOf(d) \in {Failed, VerifyingRemote}
  BY <1>1, LostErrorsPay DEF Verdict, Row
<1> HIDE DEF new, d
<1>4. t \in Task
  BY <1>1, ExecAt
<1>5. spent'[t].uploads = n + 1 /\ \A u \in Task \ {t} : Used(u)' = Used(u)
  BY <1>4, SentIs
<1>6. Tight(new, n + 1) \/ (Loose(new, n + 1) /\ new.state \notin Runnable \cup {Running})
  <2>1. CASE d.consumesBudget
    BY <1>1, <1>2, <2>1, PaidBudget
  <2>2. CASE ~d.consumesBudget
    <3>1. Loose(new, n + 1)
      BY <1>1, <1>2, <2>2, TightIsLoose, SameBudget
    <3> QED BY <1>2, <1>3, <2>2, <3>1, NotRunnable
  <2> QED BY <2>1, <2>2
<1>7. ~MaySend(h)'
  BY <1>2, FinishIs DEF MaySend, Before, At, IInv
<1>8. n + 1 \in Nat
  BY <1>1
<1> HIDE DEF n
<1> QED BY <1>1, <1>2, <1>4, <1>5, <1>6, <1>7, <1>8, BudgetExec
LEMMA BudgetFails ==
    ASSUME IInv, ~overtaken, TypeInv', Budget, NEW h \in Thread, UploadFails(h)
    PROVE  BudgetStep(h)
<1>1. threads[h].pc \in Before
  BY DEF UploadFails, At, Before
<1>2. ASSUME NEW e \in RefusedErrors(SnapOf(h).op), SettleError(h, e),
             IF e.reached THEN CountSent(h) ELSE UNCHANGED spent
      PROVE  BudgetStep(h)
  <2>1. CASE e = TransportError("Connect", FALSE)
    <3>1. UNCHANGED spent
      BY <1>2, <2>1 DEF TransportError
    <3> QED BY <1>1, <1>2, <3>1, BudgetUnsent
  <2>2. CASE e # TransportError("Connect", FALSE)
    <3>1. e \in LostErrors /\ e.reached
      BY <2>2 DEF RefusedErrors, LostErrors, TransportError, StatusError, SessionExpired
    <3> QED BY <1>1, <1>2, <3>1, BudgetSent
  <2> QED BY <2>1, <2>2
<1>3. ASSUME NEW e, SettleError(h, e), UNCHANGED spent
      PROVE  BudgetStep(h)
  BY <1>1, <1>3, BudgetUnsent
<1> QED BY <1>2, <1>3 DEF UploadFails

LEMMA BudgetAnswered ==
    ASSUME IInv, ~overtaken, TypeInv', Budget, NEW h \in Thread, UploadAnswered(h)
    PROVE  BudgetStep(h)
<1> DEFINE t == threads[h].id
           n == Used(t)
<1>1. InExec(h) /\ UNCHANGED spent
  BY DEF UploadAnswered, At, InExec, ExecPC
<1>2. /\ ~Idle(h) /\ ~At(h, "prepared") /\ SnapOf(h).state = Running /\ rows[t] = SnapOf(h)
      /\ t \in Task /\ SnapOf(h) \in Row /\ n \in Nat
  BY <1>1, ExecAt, ExecCurrent, RowTypes, UsedNat DEF IInv
<1>3. ASSUME NEW e \in AnswerLostErrors, SettleError(h, e)
      PROVE  BudgetStep(h)
    <3> DEFINE d == Verdict(h, e)
               new == ErrorRow(SnapOf(h), d)
    <3>1. /\ Finish(h) /\ Put(h, new) /\ new \in Row /\ new.vrf = SnapOf(h).vrf
          /\ new.state = TargetOf(d)
          /\ new.att = IF d.consumesBudget THEN SnapOf(h).att + 1 ELSE SnapOf(h).att
      BY <1>1, <1>3, ErrorPut
    <3>2. ~d.consumesBudget => TargetOf(d) \in {Failed, VerifyingRemote}
      <4>1. e \in LostErrors
        BY DEF AnswerLostErrors, LostErrors
      <4> QED BY <1>2, <4>1, LostErrorsPay DEF Verdict, Row
    <3>3. Loose(SnapOf(h), n) /\ SnapOf(h).vrf < MaxReplay
      BY <1>2, LooseSnapshot
    <3> HIDE DEF new, d
    <3>4. Tight(new, n) \/ (Loose(new, n) /\ new.state \notin Runnable \cup {Running})
      <4>1. CASE d.consumesBudget
        BY <1>2, <3>1, <3>3, <4>1, PaidBudget
      <4>2. CASE ~d.consumesBudget
        BY <3>1, <3>2, <3>3, <4>2, SameBudget, NotRunnable
      <4> QED BY <4>1, <4>2
    <3>5. ~MaySend(h)'
      BY <3>1, FinishIs DEF MaySend, Before, At, IInv
    <3>6. spent'[t].uploads = n /\ \A u \in Task \ {t} : Used(u)' = Used(u)
      BY <1>1 DEF Used
    <3> HIDE DEF n
    <3> QED BY <1>1, <1>2, <3>1, <3>4, <3>5, <3>6, BudgetExec
<1>4. ASSUME UNCHANGED rows, NEW pc \in {"completed", "partial"}, NEW got,
             Goto(h, pc) \/ GotoWith(h, pc, got)
      PROVE  BudgetStep(h)
  <2>1. ~MaySend(h)'
    BY <1>4, GotoIs, GotoWithIs DEF MaySend, Before, At, IInv
  <2> QED BY <1>1, <1>2, <1>4, <2>1, BudgetGo
<1> QED BY <1>3, <1>4 DEF UploadAnswered

LEMMA BudgetSettle ==
    ASSUME IInv, TypeInv', Budget, NEW h \in Thread,
           SettleUpload(h) \/ PersistPartial(h) \/ VerifyCommitted(h)
    PROVE  BudgetStep(h)
<1>1. /\ ~Idle(h) /\ ~At(h, "prepared") /\ Finish(h) /\ \A t \in Task : Used(t)' = Used(t)
      /\ threads[h].pc \in ExecPC \cup VerifyPC
  BY DEF SettleUpload, PersistPartial, VerifyCommitted, At, Idle, ExecPC, VerifyPC, Used
<1>2. SnapOf(h).state \in {Running, VerifyingRemote}
  BY <1>1, SnapshotAt
<1>3. CASE Transition(h, Done(h))
  <2>1. Writes(h, Done(h))
    BY <1>1, <1>3, TransitionWrites
  <2> QED BY <1>1, <2>1, SettlementRows, BudgetEnd DEF IInv
<1>4. CASE Transition(h, ToVerify(h)) /\ UNCHANGED spent
  <2>1. Same(SnapOf(h), ToVerify(h), VerifyingRemote)
    BY SettlementRows DEF Same, IInv
  <2> QED BY <1>1, <1>2, <1>4, <2>1, BudgetSame, NotRunnable
<1>5. CASE UNCHANGED rows
  <2>1. ~MaySend(h)'
    BY <1>1, FinishIs DEF MaySend, Before, At, IInv
  <2>2. UNCHANGED spent
    BY DEF SettleUpload, PersistPartial, VerifyCommitted
  <2> QED BY <1>1, <1>5, <2>1, <2>2, BudgetGo
<1> QED BY <1>3, <1>4, <1>5 DEF SettleUpload, PersistPartial, VerifyCommitted, Settle, Done, ToVerify

LEMMA BudgetRead ==
    ASSUME IInv, TypeInv', Budget, NEW h \in Thread, VerifyRead(h)
    PROVE  BudgetStep(h)
<1>1. ~Idle(h) /\ UNCHANGED <<rows, spent>>
  BY DEF VerifyRead, At, Idle
<1>2. \E got : \E pc \in {"ambiguous", "notCommitted", "unavailable", "committed"} :
          Goto(h, pc) \/ GotoWith(h, pc, got)
  BY DEF VerifyRead, VerifyById, VerifyByName, VerifyUpdate, Commits
<1>3. ~MaySend(h)'
  BY <1>2, GotoIs, GotoWithIs DEF MaySend, Before, At, IInv
<1> QED BY <1>1, <1>3, BudgetGo

(* A round of verification pays for the upload that was not committed.      *)
LEMMA BudgetRound ==
    ASSUME IInv, TypeInv', Budget, NEW h \in Thread, VerifyNotCommitted(h)
    PROVE  BudgetStep(h)
<1> DEFINE r == SnapOf(h)
           t == threads[h].id
           n == Used(t)
<1>1. ~Idle(h) /\ ~At(h, "prepared") /\ threads[h].pc \in VerifyPC /\ t \in Task
  BY ThreadsSafe DEF VerifyNotCommitted, At, Idle, VerifyPC, IInv
<1>2. r.state = VerifyingRemote /\ r \in Row /\ n \in Nat
  BY <1>1, SnapshotAt, RowTypes, UsedNat DEF IInv
<1>3. \A u \in Task : Used(u)' = Used(u) /\ Used(u) \in Nat
  <2>1. \A u \in Task : Used(u)' = Used(u)
    <3>1. UNCHANGED spent \/ spent' = [spent EXCEPT ![t].verdicts = @ + 1]
      BY DEF VerifyNotCommitted
    <3> QED BY <1>1, <3>1 DEF Used, IInv, TypeInv, Spent
  <2> QED BY <2>1, UsedNat DEF IInv
<1>4. rows[t] = r => Loose(r, n)
  BY <1>1, <1>2, LooseSnapshot
<1>5. CASE r.vrf + 1 >= MaxReplay
  <2>1. Transition(h, RoundRow(r, Failed)) /\ Finish(h)
    BY <1>5 DEF VerifyNotCommitted, RoundRow, CountRound
  <2> DEFINE new == RoundRow(r, Failed)
  <2>2. new.state = Failed /\ new.att = r.att /\ new.vrf = r.vrf + 1
    BY <1>2, RoundRowIs
  <2> HIDE DEF new
  <2>3. Loose(r, n) => Loose(new, n)
    BY <1>2, <2>2 DEF Loose, Row
  <2>4. Writes(h, new)
    BY <1>1, <2>1, TransitionWrites DEF new
  <2> QED BY <1>1, <1>3, <1>4, <2>1, <2>2, <2>3, <2>4, NotRunnable, BudgetEnd
<1>6. CASE ~(r.vrf + 1 >= MaxReplay)
  <2> DEFINE new == RoundRow(r, RestartRequired)
  <2>1. Transition(h, new) /\ IF Accepted(h, new) THEN GoesOn(h, "replay", new) ELSE Finish(h)
    BY <1>6 DEF VerifyNotCommitted, RoundRow, CountRound, GoesOn
  <2>2. new.state = RestartRequired /\ new.att = r.att /\ new.vrf = r.vrf + 1
    BY <1>2, RoundRowIs
  <2> HIDE DEF new
  <2>3. Loose(r, n) => Tight(new, n)
    BY <1>2, <1>6, <2>2, Constants DEF Loose, Tight, Row
  <2>4. CASE Accepted(h, new)
    <3>1. Put(h, new) /\ rows[t] = r
      BY <1>1, <2>1, <2>4, TransitionIs
    <3>2. Tight(new, n) /\ new \in Row
      BY <1>1, <1>4, <2>3, <3>1 DEF Put, TypeInv, SafeRow
    <3>3. RowBudget(new, n)
      BY <1>2, <3>2, TightBudget
    <3>4. \A u \in Task : RowBudget(rows'[u], Used(u)')
      BY <1>3, <3>1, <3>3 DEF Put, Budget
    <3>5. threads'[h].id = t /\ threads'[h].row = new
      BY <2>1, <2>4, GoesOnIs DEF IInv
    <3>6. Tight(SnapOf(h), Used(threads[h].id))'
      BY <1>1, <1>3, <3>2, <3>5 DEF SnapOf, Used
    <3> QED BY <1>3, <3>4, <3>6 DEF BudgetStep
  <2>5. CASE ~Accepted(h, new)
    <3>1. rows' = rows /\ ~MaySend(h)'
      BY <1>1, <2>1, <2>5, TransitionIs, FinishIs DEF MaySend, Before, At, IInv
    <3> QED BY <1>3, <3>1 DEF BudgetStep, Budget
  <2> QED BY <2>4, <2>5
<1> QED BY <1>5, <1>6

LEMMA BudgetUndecided ==
    ASSUME IInv, TypeInv', Budget, NEW h \in Thread, VerifyUndecided(h)
    PROVE  BudgetStep(h)
<1> DEFINE r == SnapOf(h)
           n == Used(threads[h].id)
           new == TriedRow(r)
<1>1. /\ ~Idle(h) /\ ~At(h, "prepared") /\ threads[h].pc \in VerifyPC /\ UNCHANGED spent
      /\ threads[h].id \in Task
  BY ThreadsSafe DEF VerifyUndecided, At, Idle, VerifyPC, IInv
<1>2. r.state = VerifyingRemote /\ r \in Row /\ n \in Nat
  BY <1>1, SnapshotAt, RowTypes, UsedNat DEF IInv
<1>3. CASE Reject(h, Failed)
  BY <1>1, <1>2, <1>3, BudgetReject
<1>4. new.state = VerifyingRemote /\ new.att = r.att /\ new.vrf = r.vrf + 1
  BY <1>2, TriedRowIs
<1> HIDE DEF new
<1>5. Loose(r, n) => Loose(new, n)
  BY <1>2, <1>4 DEF Loose, Row
<1>6. rows[threads[h].id] = r => Loose(r, n)
  BY <1>1, <1>2, LooseSnapshot
<1>7. \A t \in Task : Used(t)' = Used(t)
  BY <1>1 DEF Used
<1>8. CASE Patch(h, new) /\ Finish(h)
  <2>1. Writes(h, new)
    BY <1>1, <1>8, TransitionWrites
  <2> QED BY <1>1, <1>4, <1>5, <1>6, <1>7, <1>8, <2>1, NotRunnable, BudgetEnd
<1> QED BY <1>3, <1>8 DEF VerifyUndecided, TriedRow, new

LEMMA BudgetReplay ==
    ASSUME IInv, TypeInv', Budget, NEW h \in Thread, Replay(h)
    PROVE  BudgetStep(h)
<1> DEFINE r == SnapOf(h)
           t == threads[h].id
           new == Stepped(r, Pending)
<1>1. ~Idle(h) /\ ~At(h, "prepared") /\ At(h, "replay") /\ t \in Task /\ UNCHANGED spent
  BY ThreadsSafe DEF Replay, At, Idle, IInv
<1>2. Same(r, new, Pending)
  BY SteppedSame, RowTypes DEF IInv
<1> HIDE DEF new
<1>3. \A u \in Task : Used(u)' = Used(u)
  BY <1>1 DEF Used
<1>4. CASE Accepted(h, new)
  <2>1. Current(h) /\ Put(h, new)
    BY <1>1, <1>4, TransitionIs DEF Replay, new
  <2>2. Tight(new, Used(t))
    BY <1>1, <1>2, <2>1, SameBudget DEF Budget, MaySend, Same
  <2>3. GoesOn(h, "pickup", new)
    BY <1>4 DEF Replay, GoesOn, new
  <2>4. threads'[h].pc \notin Before \cup {"replay"}
    BY <2>3, GoesOnIs DEF Before, IInv
  <2> QED BY <1>1, <1>3, <2>1, <2>2, <2>4, BudgetEnd DEF Writes
<1>5. CASE ~Accepted(h, new)
  <2>1. Finish(h) /\ rows' = rows
    BY <1>1, <1>5, TransitionIs DEF Replay, new
  <2>2. ~MaySend(h)'
    BY <2>1, FinishIs DEF MaySend, Before, At, IInv
  <2> QED BY <1>1, <2>1, <2>2, BudgetGo
<1> QED BY <1>4, <1>5

(* A new budget starts with nothing used. *)
LEMMA NoneUsed ==
    ASSUME NEW r \in Row, r.att = 0, r.vrf = 0
    PROVE  Tight(r, 0) /\ RowBudget(r, 0)
<1>1. Tight(r, 0)
  BY Constants DEF Tight
<1> QED BY <1>1, TightBudget

LEMMA BudgetRequeue ==
    ASSUME IInv, TypeInv', Budget, NEW h \in Thread, At(h, "retry") \/ At(h, "overwrite"), Requeue(h)
    PROVE  BudgetStep(h)
<1> DEFINE t == threads[h].id
           new == NewBudget(SnapOf(h))
<1>1. ~Idle(h) /\ ~At(h, "prepared") /\ t \in Task
  BY RetrySnapshot, ThreadsSafe DEF IInv
<1>2. new.att = 0 /\ new.vrf = 0
  BY NewBudgetIs, RowTypes DEF IInv
<1> HIDE DEF new
<1>3. CASE Accepted(h, new)
  <2>1. Put(h, new)
    BY <1>1, <1>3, TransitionIs DEF Requeue, new
  <2>2. Goto(h, "prepared") /\ spent' = [spent EXCEPT ![t] = NothingSpent]
    BY <1>3 DEF Requeue, new
  <2>3. spent'[t].uploads = 0 /\ \A u \in Task \ {t} : Used(u)' = Used(u)
    BY <1>1, <2>2 DEF Used, NothingSpent, IInv, TypeInv
  <2>4. new \in Row
    BY <1>1, <2>1 DEF Put, TypeInv, SafeRow
  <2>5. RowBudget(new, 0)
    BY <1>2, <2>4, NoneUsed
  <2>6. \A u \in Task : RowBudget(rows'[u], Used(u)')
    BY <1>1, <2>1, <2>3, <2>5 DEF Put, Budget, Used
  <2>7. ~MaySend(h)'
    BY <2>2, GotoIs DEF MaySend, Before, At, IInv
  <2>8. \A u \in Task : Used(u)' <= Used(u)
    BY <2>3, UsedNat DEF Used, IInv
  <2> QED BY <2>6, <2>7, <2>8 DEF BudgetStep
<1>4. CASE ~Accepted(h, new)
  <2>1. Finish(h) /\ rows' = rows /\ UNCHANGED spent
    BY <1>1, <1>4, TransitionIs DEF Requeue, new
  <2>2. ~MaySend(h)'
    BY <2>1, FinishIs DEF MaySend, Before, At, IInv
  <2> QED BY <1>1, <2>1, <2>2, BudgetGo
<1> QED BY <1>3, <1>4

LEMMA BudgetRetry ==
    ASSUME IInv, TypeInv', Budget, NEW h \in Thread, AcceptRetry(h) \/ RequeueConflict(h)
    PROVE  BudgetStep(h)
<1>1. At(h, "retry") \/ At(h, "overwrite")
  BY DEF AcceptRetry, RequeueConflict
<1>2. ~Idle(h) /\ ~At(h, "prepared") /\ SnapOf(h).state \in {Failed, RestartRequired}
  BY <1>1, RetrySnapshot
<1>3. CASE Requeue(h)
  BY <1>1, <1>3, BudgetRequeue
<1>4. CASE Reject(h, RestartRequired) /\ UNCHANGED spent
  BY <1>2, <1>4, BudgetReject
<1>5. CASE FailRetry(h) /\ UNCHANGED spent
  <2>1. Same(SnapOf(h), Stepped(SnapOf(h), Failed), Failed)
    BY SteppedSame, RowTypes DEF IInv
  <2>2. Finish(h) /\ (Transition(h, Stepped(SnapOf(h), Failed)) \/ Patch(h, Stepped(SnapOf(h), Failed)))
    BY <1>5 DEF FailRetry
  <2> QED BY <1>2, <1>5, <2>1, <2>2, BudgetSame, NotRunnable
<1> QED BY <1>3, <1>4, <1>5 DEF AcceptRetry, RequeueConflict

LEMMA BudgetRest ==
    ASSUME IInv, TypeInv', Budget, NEW h \in Thread,
           PickupRefused(h) \/ RunPrepared(h) \/ RenameRemote(h)
    PROVE  BudgetStep(h)
<1>1. ~Idle(h) /\ UNCHANGED <<rows, spent>>
  BY DEF PickupRefused, RunPrepared, RenameRemote, At, Idle
<1>2. CASE Finish(h)
  BY <1>1, <1>2, FinishIs, BudgetGo DEF MaySend, Before, At, IInv
<1>3. ASSUME NEW t, NEW r, Start(h, "runNow", t, r)
      PROVE  BudgetStep(h)
  BY <1>1, <1>3, StartIs, BudgetGo DEF MaySend, Before, At, IInv
<1>4. ASSUME NEW S, threads' = [threads EXCEPT ![h].todo = S], At(h, "overwrite")
      PROVE  BudgetStep(h)
  <2>1. threads'[h].pc = "overwrite"
    BY <1>4, ThreadsSafe DEF At, IInv, TypeInv, SafeThread, ThreadState
  <2> QED BY <1>1, <2>1, BudgetGo DEF MaySend, Before, At
<1> QED BY <1>2, <1>3, <1>4 DEF PickupRefused, RunPrepared, RenameRemote

LEMMA BudgetThread ==
    ASSUME IInv, ~overtaken, TypeInv', Budget, NEW h \in Thread, ThreadStep(h)
    PROVE  BudgetStep(h)
BY BudgetAdmit, BudgetGate, BudgetCheckSource, BudgetCheckRemote, BudgetCommits, BudgetFails,
   BudgetAnswered, BudgetSettle, BudgetRead, BudgetRound, BudgetUndecided, BudgetReplay,
   BudgetRetry, BudgetRest DEF ThreadStep
(* A command or a job of the cycle comes from a thread with nothing in hand *)
(* and leaves it where nothing is sent.                                     *)
LEMMA BudgetFresh ==
    ASSUME IInv, Budget, NEW h \in Thread, ~MaySend(h)', UNCHANGED spent,
           \A t \in Task : RowBudget(rows[t], Used(t)) => RowBudget(rows'[t], Used(t))
    PROVE  BudgetStep(h)
<1>1. \A t \in Task : Used(t)' = Used(t) /\ Used(t) \in Nat
  BY UsedNat DEF Used, IInv
<1> QED BY <1>1 DEF BudgetStep, Budget

LEMMA IdleNeverSends == \A h : Idle(h) => ~MaySend(h)
BY DEF Idle, MaySend, At, Before

LEMMA BudgetPut ==
    ASSUME IInv, TypeInv', Budget, NEW t \in Task,
           rows[t].state \in {Running, VerifyingRemote, RestartRequired, Failed},
           NEW to \in {Failed, RestartRequired, VerifyingRemote, Canceled},
           rows' = [rows EXCEPT ![t] = Stepped(rows[t], to)]
    PROVE  \A u \in Task : RowBudget(rows[u], Used(u)) => RowBudget(rows'[u], Used(u))
<1> DEFINE new == Stepped(rows[t], to)
<1>1. rows'[t] = new /\ \A u \in Task \ {t} : rows'[u] = rows[u]
  BY DEF IInv, TypeInv
<1>2. Same(rows[t], new, to)
  BY SteppedSame, RowTypes DEF IInv
<1> HIDE DEF new
<1>3. new \in Row /\ Used(t) \in Nat
  BY <1>1, UsedNat DEF TypeInv, SafeRow, IInv
<1>4. ASSUME RowBudget(rows[t], Used(t))
      PROVE  RowBudget(new, Used(t))
  <2>1. Loose(new, Used(t))
    BY <1>2, <1>4, SameBudget DEF RowBudget, Same
  <2> QED BY <1>2, <1>3, <2>1, LooseBudget, NotRunnable DEF Same
<1> QED BY <1>1, <1>4

LEMMA BudgetOpen ==
    ASSUME IInv, TypeInv', Budget, NEW h \in Thread, NEW t \in Task, NEW r, r.att = 0, r.vrf = 0,
           Open(h, t, r)
    PROVE  BudgetStep(h)
<1>1. rows'[t] = r /\ \A u \in Task \ {t} : rows'[u] = rows[u]
  BY DEF Open, IInv, TypeInv
<1>2. spent'[t].uploads = 0 /\ \A u \in Task \ {t} : Used(u)' = Used(u)
  BY DEF Open, NothingSpent, IInv, TypeInv, Used
<1>3. r \in Row
  BY <1>1 DEF TypeInv, SafeRow
<1>4. RowBudget(r, 0)
  BY <1>3, NoneUsed
<1>5. \A u \in Task : RowBudget(rows'[u], Used(u)')
  BY <1>1, <1>2, <1>4 DEF Budget, Used
<1>6. ~MaySend(h)'
  BY StartIs DEF Open, MaySend, Before, At, IInv
<1>7. \A u \in Task : Used(u)' <= Used(u)
  BY <1>2, UsedNat DEF Used, IInv
<1> QED BY <1>5, <1>6, <1>7 DEF BudgetStep

LEMMA BudgetLoad ==
    ASSUME IInv, Budget, NEW h \in Thread, Idle(h), UNCHANGED <<rows, spent>>,
           \/ UNCHANGED threads
           \/ \E t, r : \E pc \in {"run", "pickup", "verify", "retry"} : Start(h, pc, t, r)
    PROVE  BudgetStep(h)
<1>1. ~MaySend(h)'
  BY StartIs DEF Idle, MaySend, Before, At, IInv
<1> QED BY <1>1, BudgetFresh

LEMMA NewIntentRows ==
    ASSUME NEW n \in Intent, NEW r
    PROVE  /\ Fresh(n).att = 0 /\ Fresh(n).vrf = 0
           /\ Replanned(r, n).att = 0 /\ Replanned(r, n).vrf = 0
BY DEF Fresh, Replanned, BlankRow

LEMMA BudgetAsk ==
    ASSUME IInv, TypeInv', Budget, NEW h \in Thread, Idle(h),
           (h = Cycle /\ PlanUpload) \/ UploadCommand(h)
    PROVE  BudgetStep(h)
<1>1. PICK n \in Intent : Enqueue(h, n)
  BY Asked
<1>2. ASSUME NEW t \in RestartsWithResult, UNCHANGED <<threads, spent>>,
             rows' = [rows EXCEPT ![t] = Stepped(rows[t], VerifyingRemote)]
      PROVE  BudgetStep(h)
  <2>1. t \in Task /\ rows[t].state = RestartRequired
    BY DEF RestartsWithResult, InState
  <2>2. ~MaySend(h)'
    BY <1>2 DEF Idle, MaySend, At, Before
  <2> QED BY <1>2, <2>1, <2>2, BudgetPut, BudgetFresh
<1>3. ASSUME NEW t, Start(h, "run", t, rows[t]), UNCHANGED <<rows, spent>>
      PROVE  BudgetStep(h)
  BY <1>3, BudgetLoad
<1>4. ASSUME NEW t \in Task, NEW r \in {Fresh(n), Replanned(rows[t], n)}, Open(h, t, r)
      PROVE  BudgetStep(h)
  BY <1>4, NewIntentRows, BudgetOpen
<1> QED BY <1>1, <1>2, <1>3, <1>4 DEF Enqueue

LEMMA BudgetOther ==
    ASSUME IInv, TypeInv', Budget, NEW h \in Thread, Idle(h),
           Command(h) \/ (h = Cycle /\ CycleJob)
    PROVE  BudgetStep(h)
<1>1. CASE UploadCommand(h) \/ (h = Cycle /\ PlanUpload)
  BY <1>1, BudgetAsk
<1>2. ASSUME NEW t \in Task, rows[t].state \in {Running, VerifyingRemote, RestartRequired, Failed},
             NEW to \in {Failed, RestartRequired, VerifyingRemote, Canceled},
             rows' = [rows EXCEPT ![t] = Stepped(rows[t], to)], UNCHANGED <<threads, spent>>
      PROVE  BudgetStep(h)
  <2>1. ~MaySend(h)'
    BY <1>2 DEF Idle, MaySend, At, Before
  <2> QED BY <1>2, <2>1, BudgetPut, BudgetFresh
<1>3. CASE RetryTransfer(h) \/ (h = Cycle /\ RetryFailed)
  <2>1. PICK t \in Task : rows[t].state \in {Failed, RestartRequired} /\ PrepareRetry(h, t)
    BY <1>3 DEF RetryTransfer, RetryFailed, InState
  <2>2. /\ UNCHANGED spent
        /\ \/ /\ \E to \in {Failed, RestartRequired} :
                    rows' = [rows EXCEPT ![t] = Stepped(rows[t], to)]
              /\ UNCHANGED threads
           \/ UNCHANGED rows /\ (UNCHANGED threads \/ Start(h, "retry", t, rows[t]))
    BY <2>1 DEF PrepareRetry
  <2> QED BY <1>2, <2>1, <2>2, BudgetLoad
<1>4. CASE Overwrite(h)
  <2>1. \E t : threads' = [threads EXCEPT ![h] =
             [pc |-> "overwrite", id |-> t, row |-> rows[t], got |-> NoResult, todo |-> Here]]
    BY <1>4 DEF Overwrite
  <2>2. threads'[h].pc = "overwrite" /\ UNCHANGED <<rows, spent>>
    BY <1>4, <2>1 DEF Overwrite, IInv, TypeInv
  <2>3. ~MaySend(h)'
    BY <2>2 DEF MaySend, At, Before
  <2> QED BY <2>2, <2>3, BudgetFresh
<1>5. CASE PromoteRestart \/ CancelOrphan \/ Cancel(h) \/ KeepBoth(h)
  <2>1. PICK t \in Task, to \in {VerifyingRemote, Canceled} :
           /\ rows[t].state \in {RestartRequired, Failed}
           /\ UNCHANGED <<threads, spent>>
           /\ rows' = [rows EXCEPT ![t] = Stepped(rows[t], to)]
    BY <1>5 DEF PromoteRestart, CancelOrphan, Cancel, KeepBoth, NameConflicts, RestartsWithResult, InState
  <2> QED BY <1>2, <2>1
<1>6. CASE ClearHistory(h)
  <2> DEFINE cleared == [BlankRow EXCEPT !.state = "cleared"]
  <2>1. /\ UNCHANGED <<threads, spent>>
        /\ \E S : rows' = [t \in Task |-> IF rows[t].state \in S THEN cleared ELSE rows[t]]
    BY <1>6 DEF ClearHistory
  <2>2. cleared.state = "cleared"
    BY DEF BlankRow
  <2> HIDE DEF cleared
  <2>3. \A n : RowBudget(cleared, n) <=> n \in Nat /\ n <= MaxAttempts + MaxReplay
    BY <2>2, DistinctNames DEF RowBudget, Runnable, State
  <2>4. \A t \in Task : RowBudget(rows[t], Used(t)) => RowBudget(rows'[t], Used(t))
    <3>1. \A t \in Task : rows'[t] = rows[t] \/ rows'[t] = cleared
      BY <2>1
    <3> QED BY <2>3, <3>1 DEF RowBudget
  <2>5. ~MaySend(h)'
    BY <2>1 DEF Idle, MaySend, At, Before
  <2> QED BY <2>1, <2>4, <2>5, BudgetFresh
<1>7. CASE h = Cycle /\ (ResumeVerifying \/ ResumeWaiting \/ ResumeBackoff)
  <2>1. UNCHANGED <<rows, spent>> /\ \E t, r : \E pc \in {"pickup", "verify"} : Start(h, pc, t, r)
    BY <1>7 DEF ResumeVerifying, ResumeWaiting, ResumeBackoff, ResumeRow
  <2> QED BY <2>1, BudgetLoad
<1>8. CASE h = Cycle /\ RecoverStartup
  <2>1. CASE UNCHANGED <<rows, threads, spent>>
    BY <2>1, BudgetLoad
  <2>2. CASE (\E t : Start(Cycle, "run", t, rows[t])) /\ UNCHANGED <<rows, spent>>
    BY <1>8, <2>2, BudgetLoad
  <2>3. CASE /\ \E t \in InState({Running}) : rows' = [rows EXCEPT ![t] = Stepped(@, VerifyingRemote)]
             /\ UNCHANGED <<threads, spent>>
    BY <1>2, <2>3 DEF InState
  <2> QED BY <1>8, <2>1, <2>2, <2>3 DEF RecoverStartup
<1> QED BY <1>1, <1>3, <1>4, <1>5, <1>6, <1>7, <1>8 DEF Command, CycleJob

LEMMA IdleBefore ==
    ASSUME NEW h \in Thread, Command(h) \/ (h = Cycle /\ CycleJob)
    PROVE  Idle(h)
BY DEF Command, UploadCommand, RetryTransfer, Overwrite, KeepBoth, Cancel, ClearHistory, CommandFree,
       CycleJob, RecoverStartup, PromoteRestart, ResumeVerifying, ResumeWaiting, ResumeBackoff,
       ResumeRow, CancelOrphan, PlanUpload, RetryFailed, CycleFree

LEMMA OtherStepOf ==
    ASSUME IInv, TypeInv', NEW h \in Thread, Command(h) \/ (h = Cycle /\ CycleJob /\ ~RecoverStartup)
    PROVE  StepOf(h)
<1>1. CASE Command(h)
  BY <1>1, PlanStep, PrepareRetryStep, OverwriteStep, CancelStep, ClearHistoryStep
     DEF Command, RetryTransfer
<1>2. CASE h = Cycle /\ CycleJob /\ ~RecoverStartup
  <2>1. RetryFailed => StepOf(Cycle)
    BY PrepareRetryStep, Constants DEF RetryFailed, InState
  <2> QED BY <1>2, <2>1, PlanStep, ResumeStep, CancelStep, Constants DEF CycleJob
<1> QED BY <1>1, <1>2

LEMMA NextBudget ==
    ASSUME IInv, ~overtaken, Budget, [Next]_vars
    PROVE  Budget'
<1>1. TypeInv'
  BY NextSafe DEF IInv
<1>2. ASSUME NEW h \in Thread, ThreadStep(h)
      PROVE  Budget'
  <2>1. StepOf(h)
    BY <1>1, <1>2, ThreadStepOf
  <2> QED BY <1>1, <1>2, <2>1, BudgetThread, OtherBudgets DEF StepOf
<1>3. ASSUME NEW h \in Thread, Command(h) \/ (h = Cycle /\ CycleJob)
      PROVE  Budget'
  <2>1. BudgetStep(h)
    BY <1>1, <1>3, IdleBefore, BudgetOther
  <2>2. /\ \A t \in Task : Grows(rows[t], rows'[t])
        /\ \A k \in Thread \ {h} : threads'[k] = threads[k]
    BY <1>1, <1>3, OtherStepOf, RecoverGrows DEF StepOf
  <2> QED BY <1>1, <2>1, <2>2, OtherBudgets
<1>4. CASE World \/ UNCHANGED vars
  <2>1. UNCHANGED <<rows, spent>>
    BY <1>4 DEF World, Crash, LocalEdit, LocalDelete, ForeignWrite, ForeignRemove,
                NetworkDown, NetworkUp, vars
  <2>2. UNCHANGED threads \/ \A h \in Thread : threads'[h] = IdleThread
    BY <1>4 DEF World, Crash, LocalEdit, LocalDelete, ForeignWrite, ForeignRemove,
                NetworkDown, NetworkUp, vars
  <2>3. CASE UNCHANGED threads
    BY <2>1, <2>3 DEF Budget, MaySend, At, Current, SnapOf, Used
  <2>4. CASE \A h \in Thread : threads'[h] = IdleThread
    <3>1. \A h \in Thread : ~MaySend(h)'
      BY <2>4 DEF MaySend, At, Before, IdleThread
    <3> QED BY <2>1, <3>1 DEF Budget, Used
  <2> QED BY <2>2, <2>3, <2>4
<1> QED BY <1>2, <1>3, <1>4, Constants DEF Next

LEMMA InitBudget == Init => Budget
<1> SUFFICES ASSUME Init PROVE Budget
  OBVIOUS
<1>1. \A t \in Task : rows[t].state = "absent" /\ Used(t) = 0
  BY DEF Init, BlankRow, NothingSpent, Used
<1>2. \A t \in Task : RowBudget(rows[t], Used(t))
  <2>1. "absent" \notin Runnable \cup {Running, VerifyingRemote, RestartRequired, Failed}
    BY DistinctNames DEF Runnable, State
  <2>2. 0 \in Nat /\ 0 <= MaxAttempts + MaxReplay
    BY Constants
  <2> QED BY <1>1, <2>1, <2>2 DEF RowBudget
<1>3. \A h \in Thread : ~MaySend(h)
  BY DEF Init, IdleThread, MaySend, At, Before
<1> QED BY <1>2, <1>3 DEF Budget

(* However the errors, verifications and replays alternate, the uploads of  *)
(* one row that reach the server are bounded until the user or a new intent *)
(* opens a new budget: an upload is paid for by an attempt or by a round of *)
(* verification before its row runs again, and both are counted.  Unless    *)
(* startup recovery took a running upload for interrupted, whose request    *)
(* may then arrive under a budget opened since.                             *)
THEOREM BoundedUploads == Spec => []UploadBudget
<1>1. Init => (~overtaken => Budget)
  BY InitBudget
<1>2. IInv /\ (~overtaken => Budget) /\ [Next]_vars => (~overtaken => Budget)'
  BY NextBudget, Overtakes
<1>3. (~overtaken => Budget) => UploadBudget
  BY DEF Budget, RowBudget, UploadBudget, Used
<1> QED BY <1>1, <1>2, <1>3, Inductive, PTL DEF Spec

-----------------------------------------------------------------------------
(* TaskRunner keeps the promise of UploadPromise: what each step does to    *)
(* what the promise speaks of.                                              *)

Active == State \ {Completed, Canceled}
Intents == [t \in Task |-> IntentOf(rows[t])]
Sent == {threads[h].id : h \in Uploading}

LEMMA IntentIs ==
    ASSUME NEW r
    PROVE  /\ r.state \in Active => IntentOf(r) = [phase |-> "open", ver |-> r.ver]
           /\ r.state = Completed => IntentOf(r) = [phase |-> "done", ver |-> r.ver]
           /\ r.state \in {Canceled, "cleared"} => IntentOf(r) = [phase |-> "gone", ver |-> 0]
           /\ r.state = "absent" => IntentOf(r) = [phase |-> "none", ver |-> 0]
<1>1. /\ r.state \in Active => PhaseOf(r) = "open"
      /\ r.state = Completed => PhaseOf(r) = "done"
      /\ r.state \in {Canceled, "cleared"} => PhaseOf(r) = "gone"
      /\ r.state = "absent" => PhaseOf(r) = "none"
  BY DEF PhaseOf, Active, State, Pending, Running, WaitingForNetwork, BackingOff, VerifyingRemote,
         RestartRequired, Completed, Failed, Canceled
<1> QED BY <1>1 DEF IntentOf

LEMMA ActiveNames ==
    /\ {Pending, Running, WaitingForNetwork, BackingOff, VerifyingRemote, RestartRequired, Failed}
          = Active
    /\ Runnable \cup Blocking \subseteq Active
    /\ Live = InState(Active)
BY DEF Active, State, Runnable, Blocking, Live, InState, Pending, Running, WaitingForNetwork, BackingOff,
       VerifyingRemote, RestartRequired, Completed, Failed, Canceled

(* Rows that stay with their intent. *)
Steady ==
    \A t \in Task : \/ rows'[t] = rows[t]
                    \/ /\ rows[t].state \in Active /\ rows'[t].state \in Active
                       /\ rows'[t].ver = rows[t].ver

LEMMA SteadyIntents ==
    ASSUME Steady
    PROVE  Intents' = Intents
BY IntentIs DEF Steady, Intents

Moves(h) ==
    \/ rows' = rows
    \/ \E new : /\ new.ver = SnapOf(h).ver /\ new.state \in Active
                /\ Transition(h, new) \/ Patch(h, new)

LEMMA SnapshotActive ==
    ASSUME IInv, NEW h \in Thread, ~Idle(h), ~At(h, "prepared")
    PROVE  SnapOf(h).state \in Active
<1>1. threads[h].pc \in RunPC \cup ExecPC \cup VerifyPC \cup {"replay", "retry", "overwrite"}
  BY ThreadsSafe DEF IInv, SafeThread, ThreadState, PC, RunPC, VerifyPC, Idle, At
<1> QED BY <1>1, SnapshotAt, RetrySnapshot, ActiveNames DEF At

LEMMA MovesSteady ==
    ASSUME IInv, NEW h \in Thread, ~Idle(h), ~At(h, "prepared"), Moves(h)
    PROVE  Steady
<1>1. ASSUME NEW new, new.ver = SnapOf(h).ver, new.state \in Active, Transition(h, new) \/ Patch(h, new)
      PROVE  Steady
  <2>1. Writes(h, new)
    BY <1>1, TransitionWrites
  <2>2. CASE Current(h) /\ Put(h, new)
    <3>1. rows[threads[h].id] = SnapOf(h)
      BY <2>2, CurrentIs
    <3> QED BY <1>1, <2>2, <3>1, SnapshotActive DEF Put, Steady
  <2> QED BY <2>1, <2>2 DEF Writes, Steady
<1> QED BY <1>1 DEF Moves, Steady

LEMMA MovesSame ==
    ASSUME NEW h \in Thread, NEW new, NEW to \in Active, Same(SnapOf(h), new, to),
           Transition(h, new) \/ Patch(h, new)
    PROVE  Moves(h)
BY DEF Moves, Same

LEMMA RejectMoves ==
    ASSUME TypeInv, NEW h \in Thread, NEW to \in Active, Reject(h, to)
    PROVE  Moves(h)
BY MovesSame, SteppedSame, RowTypes DEF Reject

LEMMA ErrorMoves ==
    ASSUME TypeInv, NEW h \in Thread, NEW e, SettleError(h, e)
    PROVE  Moves(h)
<1> DEFINE new == ErrorRow(SnapOf(h), Verdict(h, e))
<1>1. Transition(h, new)
  BY DEF SettleError, ErrorRow, Verdict
<1>2. new.state = TargetOf(Verdict(h, e)) /\ new.ver = SnapOf(h).ver
  BY ErrorRowIs, RowTypes
<1>3. TargetOf(Verdict(h, e)) \in Active
  BY ActiveNames DEF TargetOf
<1> HIDE DEF new
<1> QED BY <1>1, <1>2, <1>3 DEF Moves

LEMMA GateSteady ==
    ASSUME IInv, NEW h \in Thread, Gate(h)
    PROVE  Steady
<1>1. CASE GateOpen(h)
  <2>1. ~Idle(h) /\ ~At(h, "prepared") /\ Transition(h, Stepped(SnapOf(h), Running))
    BY <1>1 DEF Gate, At, Idle
  <2>2. Moves(h)
    BY <2>1, MovesSame, SteppedSame, RowTypes, ActiveNames DEF IInv
  <2> QED BY <2>1, <2>2, MovesSteady
<1>2. CASE ~GateOpen(h)
  <2>1. rows' = [u \in Task |-> IF u \in RivalResults(h)
                                THEN Stepped(rows[u], VerifyingRemote) ELSE rows[u]]
    BY <1>2 DEF Gate
  <2>2. ASSUME NEW u \in Task, u \in RivalResults(h)
        PROVE  /\ rows[u].state = RestartRequired
               /\ Same(rows[u], Stepped(rows[u], VerifyingRemote), VerifyingRemote)
    BY <2>2, SteppedSame, RowTypes DEF RivalResults, RestartsWithResult, InState, IInv
  <2> QED BY <2>1, <2>2, ActiveNames DEF Steady, Same
<1> QED BY <1>1, <1>2

LEMMA RunMoves ==
    ASSUME TypeInv, NEW h \in Thread,
           PickupRefused(h) \/ Admit(h) \/ Preflight(h) \/ CheckSource(h) \/ CheckRemote(h)
    PROVE  Moves(h)
<1>1. PickupRefused(h) \/ Admit(h) \/ Preflight(h) \/ CheckSource(h) =>
        rows' = rows \/ \E to \in {Failed, RestartRequired, WaitingForNetwork} : Reject(h, to)
  BY DEF PickupRefused, Admit, Preflight, CheckSource
<1>2. CheckRemote(h) =>
        \/ rows' = rows
        \/ Reject(h, RestartRequired)
        \/ \E e : SettleError(h, e)
        \/ Transition(h, [Stepped(SnapOf(h), RestartRequired) EXCEPT !.conflict = TRUE])
  BY DEF CheckRemote, CreateCheck, UpdateCheck
<1>3. Same(SnapOf(h), [Stepped(SnapOf(h), RestartRequired) EXCEPT !.conflict = TRUE], RestartRequired)
  BY SteppedSame, RowTypes
<1>4. Transition(h, [Stepped(SnapOf(h), RestartRequired) EXCEPT !.conflict = TRUE]) => Moves(h)
  BY <1>3, MovesSame, ActiveNames
<1>5. rows' = rows => Moves(h)
  BY DEF Moves
<1> QED BY <1>1, <1>2, <1>4, <1>5, RejectMoves, ErrorMoves, ActiveNames

LEMMA UploadMoves ==
    ASSUME TypeInv, NEW h \in Thread,
           UploadCommits(h) \/ UploadFails(h) \/ UploadAnswered(h) \/ PersistPartial(h)
    PROVE  Moves(h)
<1>1. UploadCommits(h) \/ UploadFails(h) \/ UploadAnswered(h) => rows' = rows \/ \E e : SettleError(h, e)
  BY DEF UploadCommits, UploadFails, UploadAnswered
<1>2. PersistPartial(h) => Transition(h, ToVerify(h))
  BY DEF PersistPartial, ToVerify
<1>3. Same(SnapOf(h), ToVerify(h), VerifyingRemote)
  BY SettlementRows DEF Same
<1>4. rows' = rows => Moves(h)
  BY DEF Moves
<1> QED BY <1>1, <1>2, <1>3, <1>4, ErrorMoves, MovesSame, ActiveNames

LEMMA VerifyMoves ==
    ASSUME IInv, NEW h \in Thread,
           VerifyRead(h) \/ VerifyNotCommitted(h) \/ VerifyUndecided(h) \/ Replay(h)
    PROVE  Moves(h)
<1>1. CASE VerifyRead(h)
  BY <1>1 DEF VerifyRead, Moves
<1>2. CASE VerifyNotCommitted(h)
  <2>1. PICK to \in {Failed, RestartRequired} : Transition(h, RoundRow(SnapOf(h), to))
    BY <1>2 DEF VerifyNotCommitted, RoundRow
  <2>2. RoundRow(SnapOf(h), to).state = to /\ RoundRow(SnapOf(h), to).ver = SnapOf(h).ver
    BY RoundRowIs, RowTypes DEF IInv
  <2> QED BY <2>1, <2>2, ActiveNames DEF Moves
<1>3. CASE VerifyUndecided(h)
  <2>1. Reject(h, Failed) \/ Patch(h, TriedRow(SnapOf(h)))
    BY <1>3 DEF VerifyUndecided, TriedRow
  <2>2. TriedRow(SnapOf(h)).state = SnapOf(h).state /\ TriedRow(SnapOf(h)).ver = SnapOf(h).ver
    BY TriedRowIs, RowTypes DEF IInv
  <2>3. SnapOf(h).state \in Active
    BY <1>3, SnapshotActive DEF VerifyUndecided, Idle, At
  <2>4. Patch(h, TriedRow(SnapOf(h))) => Moves(h)
    BY <2>2, <2>3 DEF Moves
  <2> QED BY <2>1, <2>4, RejectMoves, ActiveNames DEF IInv
<1>4. CASE Replay(h)
  BY <1>4, MovesSame, SteppedSame, RowTypes, ActiveNames DEF Replay, IInv
<1> QED BY <1>1, <1>2, <1>3, <1>4

LEMMA RetryMoves ==
    ASSUME TypeInv, NEW h \in Thread, AcceptRetry(h) \/ RequeueConflict(h)
    PROVE  Moves(h)
<1>1. \/ Transition(h, NewBudget(SnapOf(h)))
      \/ Reject(h, RestartRequired)
      \/ Transition(h, Stepped(SnapOf(h), Failed)) \/ Patch(h, Stepped(SnapOf(h), Failed))
  BY DEF AcceptRetry, RequeueConflict, Requeue, FailRetry
<1>2. Transition(h, NewBudget(SnapOf(h))) => Moves(h)
  BY NewBudgetIs, RowTypes, ActiveNames DEF Moves
<1> QED BY <1>1, <1>2, RejectMoves, MovesSame, SteppedSame, RowTypes, ActiveNames

(* Only a settlement ends an intent. *)
LEMMA ThreadSteady ==
    ASSUME IInv, NEW h \in Thread, ThreadStep(h), ~SettleUpload(h), ~VerifyCommitted(h)
    PROVE  Steady
<1>1. CASE Gate(h)
  BY <1>1, GateSteady
<1>2. CASE RunPrepared(h) \/ RenameRemote(h)
  BY <1>2 DEF RunPrepared, RenameRemote, Steady
<1>3. CASE ~Gate(h) /\ ~RunPrepared(h) /\ ~RenameRemote(h)
  <2>1. Moves(h)
    BY <1>3, RunMoves, UploadMoves, VerifyMoves, RetryMoves, SMTT(30) DEF ThreadStep, IInv
  <2>2. ~Idle(h) /\ ~At(h, "prepared")
    BY <1>3 DEF ThreadStep, PickupRefused, Admit, Preflight, CheckSource, CheckRemote, UploadCommits, UploadFails,
                UploadAnswered, SettleUpload, PersistPartial, VerifyRead, VerifyCommitted,
                VerifyNotCommitted, VerifyUndecided, Replay, AcceptRetry, RequeueConflict, At, Idle
  <2> QED BY <2>1, <2>2, MovesSteady
<1> QED BY <1>1, <1>2, <1>3

LEMMA SettlementEnds ==
    ASSUME IInv, NEW h \in Thread, SettleUpload(h) \/ VerifyCommitted(h)
    PROVE  (UNCHANGED baseline /\ Steady) \/ BaselineStep(h)
<1>1. ~Idle(h) /\ ~At(h, "prepared")
  BY DEF SettleUpload, VerifyCommitted, At, Idle
<1>2. \/ BaselineStep(h)
      \/ UNCHANGED baseline /\ (rows' = rows \/ Transition(h, ToVerify(h)))
  BY DEF SettleUpload, VerifyCommitted, Settle, BaselineStep, Done, ToVerify, At, Transition
<1>3. Same(SnapOf(h), ToVerify(h), VerifyingRemote)
  BY SettlementRows DEF Same, IInv
<1>4. rows' = rows \/ Transition(h, ToVerify(h)) => Moves(h)
  BY <1>3, MovesSame, ActiveNames DEF Moves
<1> QED BY <1>1, <1>2, <1>4, MovesSteady

-----------------------------------------------------------------------------
(* Who is sending *)

LEMMA SentAlone ==
    ASSUME IInv, ~overtaken, NEW h \in Thread, InExec(h)
    PROVE  Sent = IF h \in Uploading THEN {threads[h].id} ELSE {}
<1>1. \A k \in Uploading : k = h
  BY DEF IInv, Execution, Holds, Uploading, InExec, ExecPC
<1> QED BY <1>1 DEF Sent, Uploading

LEMMA SentRunning ==
    ASSUME IInv, ~overtaken, NEW t \in Sent
    PROVE  t \in Task /\ rows[t].state = Running /\ \A u \in Task : rows[u].state \in Active => u = t
<1>1. PICK h \in Thread : h \in Uploading /\ t = threads[h].id
  BY DEF Sent, Uploading
<1>2. InExec(h)
  BY <1>1 DEF Uploading, InExec, ExecPC
<1>3. t \in Task /\ rows[t].state = Running
  BY <1>1, <1>2, ExecAt, ExecCurrent
<1> QED BY <1>3, ActiveNames DEF IInv, SingleIntent, InState

LEMMA SentKept ==
    ASSUME NEW h \in Thread, \A k \in Thread \ {h} : threads'[k] = threads[k],
           \/ threads'[h] = threads[h]
           \/ h \notin Uploading /\ threads'[h].pc \notin {"uploading", "stored"}
    PROVE  Sent' = Sent
<1>1. \A k \in Thread : k \in Uploading' <=> k \in Uploading
  BY DEF Uploading
<1>2. \A k \in Uploading : threads'[k].id = threads[k].id
  BY DEF Uploading
<1> QED BY <1>1, <1>2 DEF Sent, Uploading

-----------------------------------------------------------------------------
(* The steps of the promise *)

LEMMA PromiseStutters ==
    ASSUME Intents' = Intents, Sent' = Sent, Copies' = Copies, UNCHANGED <<history, baseline>>
    PROVE  UNCHANGED Promise!vars
BY DEF Promise!vars, Intents, Sent, Copies

LEMMA PromiseSend ==
    ASSUME NEW t \in Task, rows[t].state \in Active, Sent = {}, Sent' = {t},
           Intents' = Intents, Copies' = Copies, UNCHANGED <<history, baseline>>
    PROVE  Promise!Next
<1>1. Intents[t].phase = "open"
  BY IntentIs DEF Intents
<1>2. Promise!Send(t)
  BY <1>1 DEF Promise!Send, Promise!Phase, Intents, Sent, Copies
<1> QED BY <1>2 DEF Promise!Next

LEMMA PromiseReturn ==
    ASSUME Sent # {}, Sent' = {},
           Intents' = Intents, Copies' = Copies, UNCHANGED <<history, baseline>>
    PROVE  Promise!Next
<1>1. Promise!Return
  BY DEF Promise!Return, Intents, Sent, Copies
<1> QED BY <1>1 DEF Promise!Next

LEMMA PromiseWrite ==
    ASSUME history \subseteq history', Sent' = Sent,
           Intents' = Intents, Copies' = Copies, UNCHANGED baseline
    PROVE  Promise!Next
<1>1. Promise!Write
  BY DEF Promise!Write, Intents, Sent, Copies
<1> QED BY <1>1 DEF Promise!Next

LEMMA PromiseCreate ==
    ASSUME history \subseteq history', Sent # {}, Sent' = Sent, Copies = {},
           NEW f \in FileId, Copies' = {f}, Intents' = Intents, UNCHANGED baseline
    PROVE  Promise!Next
<1>1. Promise!Create
  BY DEF Promise!Create, Intents, Sent, Copies
<1> QED BY <1>1 DEF Promise!Next

LEMMA PromiseRemove ==
    ASSUME Copies # {}, Copies' = {}, Sent' = Sent, Intents' = Intents, UNCHANGED <<history, baseline>>
    PROVE  Promise!Next
<1>1. Promise!Remove
  BY DEF Promise!Remove, Intents, Sent, Copies
<1> QED BY <1>1 DEF Promise!Next
LEMMA PromiseAsk ==
    ASSUME NEW t \in Task, NEW v \in Content,
           \/ Intents[t].phase = "none" /\ \A u \in Task : Intents[u].phase # "open"
           \/ Intents[t].phase = "open" /\ t \notin Sent,
           Intents' = [Intents EXCEPT ![t] = [phase |-> "open", ver |-> v]],
           Sent' = Sent, Copies' = Copies, UNCHANGED <<history, baseline>>
    PROVE  Promise!Next
<1>1. Promise!Ask(t)
  BY DEF Promise!Ask, Promise!Phase, Promise!Opened, Promise!cloudSide, Intents, Sent, Copies
<1> QED BY <1>1 DEF Promise!Next

LEMMA PromiseSucceed ==
    ASSUME NEW t \in Task, Intents[t].phase = "open", Sent = {},
           Intents' = [Intents EXCEPT ![t].phase = "done"],
           baseline' \in history, baseline'.ver = Intents[t].ver,
           Sent' = Sent, Copies' = Copies, UNCHANGED history
    PROVE  Promise!Next
<1>1. Promise!Succeed(t)
  BY DEF Promise!Succeed, Promise!Phase, Promise!cloudSide, Intents, Sent, Copies
<1> QED BY <1>1 DEF Promise!Next

LEMMA PromiseDrop ==
    ASSUME NEW S \in SUBSET {t \in Task \ Sent : Intents[t].phase # "none"},
           Intents' = [t \in Task |-> IF t \in S THEN [phase |-> "gone", ver |-> 0] ELSE Intents[t]],
           Sent' = Sent, Copies' = Copies, UNCHANGED <<history, baseline>>
    PROVE  Promise!Next
<1>1. Promise!Drop
  BY DEF Promise!Drop, Promise!Phase, Promise!cloudSide, Intents, Sent, Copies
<1> QED BY <1>1 DEF Promise!Next

-----------------------------------------------------------------------------
(* Every step of a thread is one of them, or changes nothing they speak of. *)

PromiseStep == Promise!Next \/ UNCHANGED Promise!vars

LEMMA ThreadWorld ==
    ASSUME NEW h \in Thread, ThreadStep(h), ~UploadCommits(h), ~RenameRemote(h)
    PROVE  UNCHANGED <<cloud, history>>
BY DEF ThreadStep, PickupRefused, Admit, Preflight, Gate, CheckSource, CheckRemote, UploadFails,
       UploadAnswered, SettleUpload, PersistPartial, VerifyRead, VerifyCommitted,
       VerifyNotCommitted, VerifyUndecided, Replay, AcceptRetry, RunPrepared,
       RequeueConflict, world

LEMMA ThreadBaseline ==
    ASSUME NEW h \in Thread, ThreadStep(h), ~SettleUpload(h), ~VerifyCommitted(h)
    PROVE  UNCHANGED baseline
BY DEF ThreadStep, PickupRefused, Admit, Preflight, Gate, CheckSource, CheckRemote, UploadCommits, UploadFails,
       UploadAnswered, PersistPartial, VerifyRead, VerifyNotCommitted, VerifyUndecided, Replay,
       AcceptRetry, RunPrepared, RenameRemote, RequeueConflict

LEMMA SameCopies ==
    ASSUME UNCHANGED cloud
    PROVE  Copies' = Copies
BY DEF Copies, Here

(* A file that goes away takes the only copy along, or none. *)
LEMMA AwayCopies ==
    ASSUME TypeInv, Clear, NEW f \in FileId, cloud' = [cloud EXCEPT ![f].at = "away"]
    PROVE  Copies' = Copies \/ (Copies # {} /\ Copies' = {})
<1>1. /\ cloud'[f].at = "away"
      /\ \A g \in FileId \ {f} : cloud'[g] = cloud[g]
  BY DEF TypeInv, CloudFile
<1>2. Copies' = Copies \ {f}
  BY <1>1 DEF Copies, Here
<1>3. \A g \in Copies, k \in Copies : g = k
  BY DEF Clear, OneCopy, Copies
<1> QED BY <1>2, <1>3

LEMMA CommitsKeeps ==
    ASSUME IInv, ~overtaken, Clear, NEW h \in Thread, UploadCommits(h)
    PROVE  PromiseStep
<1> USE DEF IInv
<1>1. PICK f \in FileId, file \in CloudFile :
              /\ file.at = "here" /\ Store(f, file)
              /\ GotoWith(h, "stored", [fid |-> f, ver |-> file.ver, ed |-> file.ed])
              /\ \/ SnapOf(h).op = "Create" /\ f \in Unused /\ file.mine
                 \/ SnapOf(h).op = "Update" /\ f \in Here /\ file.mine = cloud[f].mine
  BY CommittedFile
<1>2. InExec(h) /\ h \in Uploading
  BY DEF UploadCommits, At, InExec, ExecPC, Uploading
<1>3. /\ threads'[h].pc = "stored" /\ threads'[h].id = threads[h].id
      /\ \A k \in Thread \ {h} : threads'[k] = threads[k]
  BY <1>1, GotoWithIs
<1>4. Sent' = Sent /\ Sent # {}
  BY <1>2, <1>3 DEF Sent, Uploading
<1>5. Intents' = Intents /\ UNCHANGED baseline
  BY SteadyIntents DEF UploadCommits, Steady
<1>6. history \subseteq history'
  BY <1>1 DEF Store
<1>7. cloud'[f] = file /\ \A g \in FileId \ {f} : cloud'[g] = cloud[g]
  BY <1>1 DEF TypeInv, Store
<1>8. CASE SnapOf(h).op = "Create"
  <2>1. Copies = {}
    BY <1>8 DEF UploadCommits, Clear
  <2>2. Copies' = {f}
    BY <1>1, <1>7, <1>8, <2>1 DEF Copies, Here
  <2> QED BY <1>4, <1>5, <1>6, <2>1, <2>2, PromiseCreate DEF PromiseStep
<1>9. CASE SnapOf(h).op = "Update"
  <2>1. Copies' = Copies
    BY <1>1, <1>7, <1>9 DEF Copies, Here
  <2> QED BY <1>4, <1>5, <1>6, <2>1, PromiseWrite DEF PromiseStep
<1> QED BY <1>1, <1>8, <1>9

LEMMA AnswerKeeps ==
    ASSUME IInv, ~overtaken, NEW h \in Thread, UploadFails(h) \/ UploadAnswered(h)
    PROVE  PromiseStep
<1>0. ThreadStep(h)
  BY DEF ThreadStep
<1>1. InExec(h) /\ h \in Uploading
  BY DEF UploadFails, UploadAnswered, At, InExec, ExecPC, Uploading
<1>2. Sent # {}
  BY <1>1, SentAlone
<1>3. threads'[h].pc \in {"idle", "completed", "partial"}
  <2>1. UploadFails(h) => Finish(h)
    BY DEF UploadFails, SettleError
  <2>2. UploadAnswered(h) => Finish(h) \/ Goto(h, "partial") \/ \E got : GotoWith(h, "completed", got)
    BY DEF UploadAnswered, SettleError
  <2> QED BY <2>1, <2>2, FinishIs, GotoIs, GotoWithIs DEF IInv
<1>4. \A k \in Thread \ {h} : threads'[k] = threads[k] /\ k \notin Uploading
  BY <1>0, <1>1, OthersKept DEF IInv, Execution, Holds, Uploading, InExec, ExecPC
<1>5. Sent' = {}
  BY <1>3, <1>4 DEF Sent, Uploading
<1>6. UNCHANGED <<cloud, history, baseline>>
  BY DEF UploadFails, UploadAnswered, world
<1>7. Steady
  <2>1. Moves(h)
    BY UploadMoves DEF IInv
  <2> QED BY <1>1, <2>1, ExecAt, MovesSteady
<1> QED BY <1>2, <1>5, <1>6, <1>7, SteadyIntents, SameCopies, PromiseReturn DEF PromiseStep

LEMMA CheckKeeps ==
    ASSUME IInv, ~overtaken, NEW h \in Thread, CheckRemote(h)
    PROVE  PromiseStep
<1>1. ThreadStep(h) /\ InExec(h) /\ h \notin Uploading
  BY DEF ThreadStep, CheckRemote, At, InExec, ExecPC, Uploading
<1>2. Sent = {} /\ threads[h].id \in Task /\ rows[threads[h].id].state \in Active
  BY <1>1, SentAlone, ExecAt, ExecCurrent, ActiveNames
<1>3. UNCHANGED <<cloud, history, baseline>>
  BY DEF CheckRemote, world
<1>4. Intents' = Intents
  <2>1. Moves(h)
    BY RunMoves DEF IInv
  <2> QED BY <1>1, <2>1, ExecAt, MovesSteady, SteadyIntents
<1>5. \A k \in Thread \ {h} : threads'[k] = threads[k]
  BY <1>1, OthersKept
<1>6. CASE Goto(h, "uploading")
  <2>1. threads'[h].pc = "uploading" /\ threads'[h].id = threads[h].id
    BY <1>6, GotoIs DEF IInv
  <2>2. \A k \in Thread \ {h} : k \notin Uploading
    BY <1>1 DEF IInv, Execution, Holds, Uploading, InExec, ExecPC
  <2>3. Sent' = {threads[h].id}
    BY <1>5, <2>1, <2>2 DEF Sent, Uploading
  <2> QED BY <1>2, <1>3, <1>4, <2>3, SameCopies, PromiseSend DEF PromiseStep
<1>7. CASE threads'[h].pc \notin {"uploading", "stored"}
  <2>1. Sent' = Sent
    BY <1>1, <1>5, <1>7, SentKept
  <2> QED BY <1>3, <1>4, <2>1, SameCopies, PromiseStutters DEF PromiseStep
<1>8. CASE Finish(h) \/ \E got : GotoWith(h, "completed", got)
  BY <1>7, <1>8, FinishIs, GotoWithIs DEF IInv
<1> QED BY <1>6, <1>8, CheckRemotePlace

LEMMA SettleKeeps ==
    ASSUME SizesTell, IInv, ~overtaken, Numbered, Witnessed, NEW h \in Thread,
           SettleUpload(h) \/ VerifyCommitted(h)
    PROVE  PromiseStep
<1> DEFINE t == threads[h].id
<1>1. /\ ~Idle(h) /\ ~At(h, "prepared") /\ h \notin Uploading /\ Finish(h)
      /\ ThreadStep(h) /\ UNCHANGED <<cloud, history>>
  BY DEF SettleUpload, VerifyCommitted, At, Idle, Uploading, ThreadStep, world
<1>2. Sent' = Sent /\ Copies' = Copies
  BY <1>1, OthersKept, FinishIs, SentKept, SameCopies DEF IInv
<1>3. CASE UNCHANGED baseline /\ Steady
  BY <1>1, <1>2, <1>3, SteadyIntents, PromiseStutters DEF PromiseStep
<1>4. CASE BaselineStep(h)
  <2>1. t \in Task /\ rows[t] = SnapOf(h) /\ Put(h, Done(h))
    BY <1>1, <1>4, TransitionIs DEF BaselineStep
  <2>2. SnapOf(h).state \in Active
    BY <1>1, SnapshotActive
  <2>3. Sent = {}
    <3>1. CASE At(h, "completed")
      BY <1>1, <3>1, SentAlone DEF InExec, ExecPC, At
    <3>2. CASE At(h, "committed")
      <4>1. SnapOf(h).state = VerifyingRemote
        BY <3>2, SnapshotAt DEF At, VerifyPC
      <4> QED BY <2>1, <2>2, <4>1, SentRunning, DistinctNames
    <3> QED BY <1>4, <3>1, <3>2 DEF BaselineStep, At
  <2>4. Intents[t] = [phase |-> "open", ver |-> SnapOf(h).ver]
    BY <2>1, <2>2, IntentIs DEF Intents
  <2>5. IntentOf(Done(h)) = [phase |-> "done", ver |-> SnapOf(h).ver]
    BY SettlementRows, IntentIs DEF IInv
  <2>6. Intents' = [Intents EXCEPT ![t].phase = "done"]
    <3>1. Intents' = [Intents EXCEPT ![t] = [phase |-> "done", ver |-> SnapOf(h).ver]]
      BY <2>1, <2>5 DEF Intents, Put
    <3>2. [Intents[t] EXCEPT !.phase = "done"] = [phase |-> "done", ver |-> SnapOf(h).ver]
      BY <2>4
    <3> QED BY <3>1, <3>2
  <2>7. baseline' \in history
    BY <1>4, BaselineShown
  <2>8. baseline'.ver = SnapOf(h).ver
    BY <1>4 DEF BaselineStep
  <2>9. Intents[t].phase = "open" /\ Intents[t].ver = SnapOf(h).ver
    BY <2>4
  <2> HIDE DEF t
  <2> QED BY <1>1, <1>2, <2>1, <2>3, <2>6, <2>7, <2>8, <2>9, PromiseSucceed DEF PromiseStep, t
<1> QED BY <1>3, <1>4, SettlementEnds

LEMMA RenameKeeps ==
    ASSUME IInv, Clear, NEW h \in Thread, RenameRemote(h)
    PROVE  PromiseStep
<1>1. ThreadStep(h) /\ h \notin Uploading /\ UNCHANGED <<rows, history, baseline>>
  BY DEF ThreadStep, RenameRemote, At, Uploading
<1>2. Sent' = Sent
  BY <1>1, OthersKept, RenamePlace, SentKept DEF IInv
<1>3. Intents' = Intents
  BY <1>1, SteadyIntents DEF Steady
<1>4. Copies' = Copies \/ (Copies # {} /\ Copies' = {})
  <2>1. UNCHANGED cloud \/ \E f \in threads[h].todo : cloud' = [cloud EXCEPT ![f].at = "away"]
    BY DEF RenameRemote
  <2>2. threads[h].todo \subseteq FileId
    BY ThreadsSafe DEF SafeThread, ThreadState, IInv
  <2> QED BY <2>1, <2>2, SameCopies, AwayCopies DEF IInv
<1> QED BY <1>1, <1>2, <1>3, <1>4, PromiseStutters, PromiseRemove DEF PromiseStep

LEMMA OtherKeeps ==
    ASSUME IInv, NEW h \in Thread, ThreadStep(h),
           ~UploadCommits(h), ~UploadFails(h), ~UploadAnswered(h), ~CheckRemote(h),
           ~SettleUpload(h), ~VerifyCommitted(h), ~RenameRemote(h)
    PROVE  PromiseStep
<1>1. Intents' = Intents /\ UNCHANGED <<cloud, history, baseline>>
  BY ThreadSteady, SteadyIntents, ThreadWorld, ThreadBaseline
<1>2. h \notin Uploading
  BY DEF ThreadStep, PickupRefused, Admit, Preflight, Gate, CheckSource, PersistPartial, VerifyRead,
         VerifyNotCommitted, VerifyUndecided, Replay, AcceptRetry, RunPrepared, RequeueConflict,
         At, Uploading
<1>3. threads'[h].pc \notin {"uploading", "stored"}
  <2>1. CASE VerifyRead(h)
    BY <2>1, VerifyReadPlace, GotoIs, GotoWithIs DEF IInv
  <2>2. CASE ~VerifyRead(h)
    <3>1. Rests(h)
      BY <2>2, RestingSteps DEF ThreadStep
    <3> QED BY <3>1, RestsIs, FinishIs DEF IInv, Quiet, Rests
  <2> QED BY <2>1, <2>2
<1>4. Sent' = Sent
  BY <1>2, <1>3, OthersKept, SentKept
<1> QED BY <1>1, <1>4, SameCopies, PromiseStutters DEF PromiseStep
(* The intents of commands and jobs. *)
LEMMA IntentStates ==
    ASSUME TypeInv, NEW t \in Task
    PROVE  /\ Intents[t].phase = "open" <=> rows[t].state \in Active
           /\ rows[t].state = "absent" => Intents[t].phase = "none"
           /\ rows[t].state \in State => Intents[t].phase # "none"
<1>1. rows[t].state \in Active \cup {Completed, Canceled, "cleared", "absent"}
  BY RowTypes DEF Row, Active
<1>2. {Completed, Canceled, "cleared", "absent"} \cap Active = {} /\ Active \subseteq State
  BY DistinctNames DEF Active
<1> QED BY <1>1, <1>2, IntentIs, DistinctNames DEF Intents

LEMMA PutIntents ==
    ASSUME TypeInv, NEW t \in Task, rows[t].state \in Active, NEW to \in Active,
           rows' = [rows EXCEPT ![t] = Stepped(rows[t], to)]
    PROVE  Steady
<1>1. Same(rows[t], Stepped(rows[t], to), to)
  BY SteppedSame, RowTypes
<1> QED BY <1>1 DEF Steady, Same, TypeInv

LEMMA DropKeeps ==
    ASSUME TypeInv, IInv, ~overtaken, NEW S \in SUBSET Task, UNCHANGED <<cloud, history, baseline>>, Sent' = Sent,
           \A t \in S : /\ rows[t].state \in State \ {Running}
                        /\ rows'[t].state \in {Canceled, "cleared"},
           \A t \in Task \ S : rows'[t] = rows[t]
    PROVE  PromiseStep
<1>1. \A t \in S : t \notin Sent /\ Intents[t].phase # "none"
  BY SentRunning, IntentStates
<1>2. Intents' = [t \in Task |-> IF t \in S THEN [phase |-> "gone", ver |-> 0] ELSE Intents[t]]
  BY IntentIs DEF Intents
<1>3. S \in SUBSET {t \in Task \ Sent : Intents[t].phase # "none"}
  BY <1>1
<1> QED BY <1>2, <1>3, SameCopies, PromiseDrop DEF PromiseStep

LEMMA SteadyKeeps ==
    ASSUME Steady, Sent' = Sent, UNCHANGED <<cloud, history, baseline>>
    PROVE  PromiseStep
BY SteadyIntents, SameCopies, PromiseStutters DEF PromiseStep

LEMMA OpenKeeps ==
    ASSUME IInv, ~overtaken, NEW h \in Thread, NEW t \in Task, NEW r, r.state = Pending, r.ver \in Content,
           \/ rows[t].state = "absent" /\ Insertable
           \/ rows[t].state \in Active \ {Running},
           Open(h, t, r), Sent' = Sent, UNCHANGED <<cloud, history, baseline>>
    PROVE  PromiseStep
<1>1. rows'[t] = r /\ \A u \in Task \ {t} : rows'[u] = rows[u]
  BY DEF Open, IInv, TypeInv
<1>2. Intents' = [Intents EXCEPT ![t] = [phase |-> "open", ver |-> r.ver]]
  BY <1>1, IntentIs, ActiveNames DEF Intents
<1>3. CASE rows[t].state = "absent" /\ Insertable
  <2>1. \A u \in Task : rows[u].state \notin Active
    BY <1>3, ActiveNames DEF Insertable, InState, Blocking
  <2>2. Intents[t].phase = "none" /\ \A u \in Task : Intents[u].phase # "open"
    BY <1>3, <2>1, IntentStates DEF IInv
  <2> QED BY <1>2, <2>2, SameCopies, PromiseAsk DEF PromiseStep
<1>4. CASE rows[t].state \in Active \ {Running}
  <2>1. Intents[t].phase = "open" /\ t \notin Sent
    BY <1>4, IntentStates, SentRunning DEF IInv
  <2> QED BY <1>2, <2>1, SameCopies, PromiseAsk DEF PromiseStep
<1> QED BY <1>3, <1>4

LEMMA NewIntentStates ==
    ASSUME NEW n \in Intent, NEW r
    PROVE  /\ Fresh(n).state = Pending /\ Fresh(n).ver = n.ver
           /\ Replanned(r, n).state = Pending /\ Replanned(r, n).ver = n.ver
BY DEF Fresh, Replanned, BlankRow

LEMMA AskKeeps ==
    ASSUME IInv, ~overtaken, Numbered, NEW h \in Thread, (h = Cycle /\ PlanUpload) \/ UploadCommand(h),
           Sent' = Sent, UNCHANGED <<cloud, history, baseline>>
    PROVE  PromiseStep
<1>1. PICK n \in Intent : Enqueue(h, n) /\ n.ver = local
  BY Asked
<1>2. n.ver \in Content
  <2>1. local # 0
    BY DEF PlanUpload, UploadCommand
  <2>2. MaxContents \in Nat /\ local \in Nat /\ contents \in Nat
    BY BoundAssumption DEF IInv, TypeInv
  <2>3. local <= contents /\ contents <= MaxContents
    BY <2>2 DEF Numbered
  <2>4. local \in 1 .. MaxContents
    BY <2>1, <2>2, <2>3
  <2> QED BY <1>1, <2>4 DEF Content
<1>3. \A t \in Task : rows[t].state # Running
  BY <1>1 DEF Enqueue, InState
<1>4. ASSUME NEW t \in RestartsWithResult,
             rows' = [rows EXCEPT ![t] = Stepped(rows[t], VerifyingRemote)]
      PROVE  PromiseStep
  BY <1>4, PutIntents, SteadyKeeps, ActiveNames DEF RestartsWithResult, InState, IInv
<1>5. CASE UNCHANGED rows
  BY <1>5, SteadyKeeps DEF Steady
<1>6. ASSUME NEW t \in Task, Replannable(t), Open(h, t, Replanned(rows[t], n))
      PROVE  PromiseStep
  <2>1. rows[t].state \in Active \ {Running}
    BY <1>3, <1>6, ActiveNames DEF Replannable
  <2> QED BY <1>2, <1>6, <2>1, NewIntentStates, OpenKeeps
<1>7. ASSUME NEW t \in Task, Insertable, rows[t].state = "absent", Open(h, t, Fresh(n))
      PROVE  PromiseStep
  BY <1>2, <1>7, NewIntentStates, OpenKeeps
<1> QED BY <1>1, <1>4, <1>5, <1>6, <1>7 DEF Enqueue

LEMMA CommandKeeps ==
    ASSUME IInv, ~overtaken, Numbered, NEW h \in Thread, Command(h) \/ (h = Cycle /\ CycleJob)
    PROVE  PromiseStep
<1>1. h \notin Uploading
  BY IdleBefore DEF Idle, Uploading
<1>2. Sent' = Sent
  <2>1. threads'[h] = threads[h] \/ threads'[h].pc \notin {"uploading", "stored"}
    BY CommandPlace DEF IInv, Quiet
  <2> QED BY <1>1, <2>1, OthersKept, SentKept
<1>3. UNCHANGED <<cloud, history, baseline>>
  <2>1. Command(h) => UNCHANGED <<cloud, history, baseline>>
    BY DEF Command, UploadCommand, RetryTransfer, Overwrite, KeepBoth, Cancel, ClearHistory,
           PrepareRetry, world
  <2>2. CycleJob => UNCHANGED <<cloud, history, baseline>>
    BY DEF CycleJob, RecoverStartup, PromoteRestart, ResumeVerifying, ResumeWaiting, ResumeBackoff,
           ResumeRow, CancelOrphan, PlanUpload, RetryFailed, PrepareRetry, world
  <2> QED BY <2>1, <2>2
<1>4. CASE UNCHANGED rows
  BY <1>2, <1>3, <1>4, SteadyKeeps DEF Steady
<1>5. ASSUME NEW t \in Task, rows[t].state \in Active, NEW to \in Active,
             rows' = [rows EXCEPT ![t] = Stepped(rows[t], to)]
      PROVE  PromiseStep
  BY <1>2, <1>3, <1>5, PutIntents, SteadyKeeps DEF IInv
<1>6. CASE UploadCommand(h) \/ (h = Cycle /\ PlanUpload)
  BY <1>2, <1>3, <1>6, AskKeeps
<1>7. CASE RetryTransfer(h) \/ (h = Cycle /\ RetryFailed)
  <2>1. PICK t \in Task : rows[t].state \in {Failed, RestartRequired} /\ PrepareRetry(h, t)
    BY <1>7 DEF RetryTransfer, RetryFailed, InState
  <2>2. UNCHANGED rows \/ \E to \in {Failed, RestartRequired} :
                             rows' = [rows EXCEPT ![t] = Stepped(rows[t], to)]
    BY <2>1 DEF PrepareRetry
  <2> QED BY <1>4, <1>5, <2>1, <2>2, ActiveNames
<1>8. CASE Overwrite(h) \/ (h = Cycle /\ (ResumeVerifying \/ ResumeWaiting \/ ResumeBackoff))
  BY <1>4, <1>8 DEF Overwrite, ResumeVerifying, ResumeWaiting, ResumeBackoff, ResumeRow
<1>9. CASE PromoteRestart \/ RecoverStartup
  <2>1. \/ UNCHANGED rows
        \/ \E t \in Task : /\ rows[t].state \in {RestartRequired, Running}
                           /\ rows' = [rows EXCEPT ![t] = Stepped(rows[t], VerifyingRemote)]
    BY <1>9 DEF PromoteRestart, RecoverStartup, RestartsWithResult, InState
  <2> QED BY <1>4, <1>5, <2>1, ActiveNames
<1>10. CASE CancelOrphan \/ Cancel(h) \/ KeepBoth(h)
  <2>1. PICK t \in Task : /\ rows[t].state \in {RestartRequired, Failed}
                          /\ rows' = [rows EXCEPT ![t] = Stepped(rows[t], Canceled)]
    BY <1>10 DEF CancelOrphan, Cancel, KeepBoth, NameConflicts, InState
  <2> DEFINE new == Stepped(rows[t], Canceled)
  <2>5. new.state = Canceled
    BY SteppedSame, RowTypes DEF IInv, Same
  <2>6. rows' = [rows EXCEPT ![t] = new] /\ rows \in [Task -> SafeRow]
    BY <2>1 DEF IInv, TypeInv
  <2> HIDE DEF new
  <2>2. rows'[t].state = Canceled /\ \A u \in Task \ {t} : rows'[u] = rows[u]
    BY <2>5, <2>6
  <2>3. rows[t].state \in State \ {Running}
    BY <2>1, StateNames, DistinctNames
  <2>4. {t} \in SUBSET Task
    OBVIOUS
  <2> QED BY <1>2, <1>3, <2>2, <2>3, <2>4, DropKeeps DEF IInv
<1>11. CASE ClearHistory(h)
  <2>1. PICK S \in {{Completed}, {Failed, Canceled}, {Completed, Failed, Canceled}} :
            rows' = [t \in Task |-> IF rows[t].state \in S
                                    THEN [BlankRow EXCEPT !.state = "cleared"] ELSE rows[t]]
    BY <1>11 DEF ClearHistory
  <2>2. [BlankRow EXCEPT !.state = "cleared"].state = "cleared"
    BY DEF BlankRow
  <2>3. S \subseteq State \ {Running}
    BY StateNames, DistinctNames
  <2>4. InState(S) \in SUBSET Task
    BY DEF InState
  <2>5. /\ \A t \in InState(S) : rows[t].state \in State \ {Running} /\ rows'[t].state = "cleared"
        /\ \A t \in Task \ InState(S) : rows'[t] = rows[t]
    BY <2>1, <2>2, <2>3 DEF InState
  <2> QED BY <1>2, <1>3, <2>4, <2>5, DropKeeps DEF IInv
<1> QED BY <1>6, <1>7, <1>8, <1>9, <1>10, <1>11 DEF Command, CycleJob

LEMMA WorldKeeps ==
    ASSUME IInv, Clear, World \/ UNCHANGED vars
    PROVE  PromiseStep
<1> USE DEF IInv
<1>1. Intents' = Intents /\ UNCHANGED baseline
  <2>1. UNCHANGED <<rows, baseline>>
    BY DEF World, LocalEdit, LocalDelete, ForeignWrite, ForeignRemove, NetworkDown, NetworkUp, Crash, vars
  <2> QED BY <2>1, SteadyIntents DEF Steady
<1>2. Crash \/ Sent' = Sent
  <2>1. Crash \/ UNCHANGED threads
    BY DEF World, LocalEdit, LocalDelete, ForeignWrite, ForeignRemove, NetworkDown, NetworkUp, vars
  <2> QED BY <2>1 DEF Sent, Uploading
<1>3. CASE Crash
  <2>1. Sent' = {} /\ UNCHANGED <<cloud, history>>
    BY <1>3 DEF Crash, Sent, Uploading, IdleThread, world
  <2> QED BY <1>1, <2>1, SameCopies, PromiseReturn, PromiseStutters DEF PromiseStep
<1>4. CASE ForeignWrite
  <2>1. PICK f \in Here \cup Unused, file \in CloudFile :
              /\ f \in FileId
              /\ file = [at |-> "here", ver |-> contents', ed |-> cloud[f].ed + 1, mine |-> cloud[f].mine]
              /\ Store(f, file)
    BY <1>4, ForeignFile
  <2>2. cloud'[f] = file /\ \A g \in FileId \ {f} : cloud'[g] = cloud[g]
    BY <2>1 DEF TypeInv, Store
  <2>3. file.at = "here" /\ file.mine = cloud[f].mine
    BY <2>1
  <2>4. f \in Unused => ~cloud[f].mine
    BY DEF Unused, Clear
  <2>5. Copies' = Copies
    BY <2>1, <2>2, <2>3, <2>4 DEF Copies, Here
  <2>6. history \subseteq history' /\ Sent' = Sent
    BY <1>2, <1>4, <2>1 DEF Store, ForeignWrite, Sent, Uploading
  <2> QED BY <1>1, <2>5, <2>6, PromiseWrite DEF PromiseStep
<1>5. CASE ForeignRemove
  <2>1. PICK f \in FileId : cloud' = [cloud EXCEPT ![f].at = "away"]
    BY <1>5 DEF ForeignRemove, Here
  <2>2. UNCHANGED history /\ Sent' = Sent
    BY <1>5 DEF ForeignRemove, Sent, Uploading
  <2> QED BY <1>1, <2>1, <2>2, AwayCopies, PromiseRemove, PromiseStutters DEF PromiseStep
<1>6. CASE LocalEdit \/ LocalDelete \/ NetworkDown \/ NetworkUp \/ UNCHANGED vars
  <2>1. UNCHANGED <<cloud, history, threads>>
    BY <1>6 DEF LocalEdit, LocalDelete, NetworkDown, NetworkUp, vars
  <2>2. Sent' = Sent
    BY <2>1 DEF Sent, Uploading
  <2> QED BY <1>1, <2>1, <2>2, SameCopies, PromiseStutters DEF PromiseStep
<1> QED BY <1>3, <1>4, <1>5, <1>6 DEF World

LEMMA NextKeeps ==
    ASSUME SizesTell, IInv, ~overtaken, Clear, Numbered, Witnessed, [Next]_vars
    PROVE  PromiseStep
<1>1. ASSUME NEW h \in Thread, ThreadStep(h)
      PROVE  PromiseStep
  BY <1>1, CommitsKeeps, AnswerKeeps, CheckKeeps, SettleKeeps, RenameKeeps, OtherKeeps
<1> QED BY <1>1, CommandKeeps, WorldKeeps, Constants DEF Next

LEMMA InitKeeps == Init => Promise!Init
<1> SUFFICES ASSUME Init PROVE Promise!Init
  OBVIOUS
<1>1. Intents = [t \in Task |-> [phase |-> "none", ver |-> 0]]
  <2>1. \A t \in Task : rows[t].state = "absent"
    BY DEF Init, BlankRow
  <2> QED BY <2>1, IntentIs DEF Intents
<1>2. Sent = {} /\ Copies = {} /\ history = {} /\ baseline = NoResult
  BY DEF Init, IdleThread, Sent, Uploading, Copies, Here
<1> QED BY <1>1, <1>2 DEF Promise!Init, Intents, Sent, Copies

(* TaskRunner implements UploadPromise: every transaction and every await   *)
(* of the rows, threads, verifications, replays, crashes and commands of a  *)
(* path is one step of the promise or changes nothing it speaks of, until   *)
(* startup recovery takes a running upload for interrupted.                 *)
THEOREM Refinement ==
    ASSUME SizesTell
    PROVE  Spec => KeepsPromise
<1>1. Init => Promise!Init
  BY InitKeeps
<1>2. /\ IInv /\ (~overtaken => Clear)
      /\ IInv /\ Numbered /\ Witnessed
      /\ [Next]_vars
      => [Promise!Next \/ overtaken']_(Promise!vars)
  BY NextKeeps, Overtakes DEF PromiseStep
<1> QED BY <1>1, <1>2, ClearPath, Evidence, PTL DEF Spec, KeepsPromise
=============================================================================
