-------------------------- MODULE SyncCycleProofs ----------------------------
(***************************************************************************)
(* The coordinator's safety properties for any callers, workers and        *)
(* bounds.  Base (types, ownership, roles) is inductive by itself; over it *)
(* lie four groups, each inductive with Base: Exclusion and Quiet; Owing   *)
(* (a refresh and STARTUP are carried until they are spent); Riders (who   *)
(* waits for which sequence, and where its failure is remembered); and     *)
(* Scheduling with Covered (the worker a flag stands for).                 *)
(***************************************************************************)
EXTENDS SyncCycle, SequenceTheorems, TLAPS

Held == CyclePC \cup {"gates"}

(* Failures are remembered in order, of sequences that are answered. *)
Sequences ==
    /\ pending # {} => requested > 0
    /\ \A i \in 1..Len(failures) : failures[i].to <= completed
    /\ \A h \in Thread : threads[h].seq <= requested
    /\ \A h \in Thread : threads[h].pc \in Held =>
          threads[h].through \in 1..requested /\ completed <= threads[h].through

TypeInv == TypeOK /\ Sequences

(* Whoever runs a cycle is the owner, and nobody else is. *)
Ownership ==
    /\ \A h \in Thread : threads[h].pc \in OwnerPC <=> owner = h
    /\ \A h \in Thread : threads[h].pc \in OwnerPC \ {"unlock"} => syncing

(* Callers and workers go different ways. *)
Roles ==
    /\ \A w \in Worker : threads[w].seq = 0 /\ threads[w].pc \notin {"start", "answer", "arm"}
    /\ \A c \in Caller : /\ threads[c].pc \notin {"sleep", "clear", "recheck"}
                         /\ c # Boot => threads[c].pc \notin {"start", "arm"}

(* Nothing happens before start() asks for the first cycle. *)
BeforeStart ==
    At(Boot, "start") =>
      /\ requested = 0 /\ pending = {} /\ ringing = {} /\ ~started
      /\ \A h \in Thread \ {Boot} : Idle(h)

Becomes(h, p, s, b, n, r) ==
    /\ threads' \in [Thread -> Task]
    /\ threads'[h].pc = p /\ threads'[h].seq = s /\ threads'[h].bits = b
    /\ threads'[h].through = n /\ threads'[h].res = r
    /\ \A k \in Thread \ {h} : threads'[k] = threads[k]

LEMMA PCNames ==
    /\ PC = {"refresh", "recover", "resume", "plan", "loop", "gates", "unlock",
             "start", "idle", "lock", "answer", "sleep", "clear", "recheck", "arm"}
    /\ OwnerPC = {"refresh", "recover", "resume", "plan", "loop", "gates", "unlock"}
    /\ CyclePC = {"refresh", "recover", "resume", "plan"}
    /\ Held = {"refresh", "recover", "resume", "plan", "gates"}
    /\ Result = {"ok", "recoverable", "fatal"}
BY DEF PC, OwnerPC, CyclePC, Held, Result

LEMMA BitSets ==
    /\ Manual \subseteq Bit /\ AutoRefresh \subseteq Bit /\ NetworkRecovery \subseteq Bit
    /\ Startup \subseteq Bit /\ Watcher \subseteq Bit /\ Rebuild \subseteq Bit
BY DEF Manual, AutoRefresh, NetworkRecovery, Startup, Watcher, Rebuild, Bit

LEMMA Fields ==
  ASSUME NEW t \in Task
  PROVE  /\ t.pc \in PC /\ t.seq \in 0..MaxRequests /\ t.bits \in SUBSET Bit
         /\ t.through \in 0..MaxRequests /\ t.res \in Result
BY DEF Task

LEMMA Blank ==
    /\ IdleTask \in Task
    /\ IdleTask.pc = "idle" /\ IdleTask.seq = 0 /\ IdleTask.bits = {}
    /\ IdleTask.through = 0 /\ IdleTask.res = "ok"
BY PCNames, CycleBoundAssumption DEF IdleTask, Task, Result

LEMMA Replaced ==
  ASSUME threads \in [Thread -> Task], NEW h \in Thread, NEW u \in Task,
         threads' = [threads EXCEPT ![h] = u]
  PROVE  Becomes(h, u.pc, u.seq, u.bits, u.through, u.res)
BY DEF Becomes

LEMMA GotoMoves ==
  ASSUME TypeOK, NEW h \in Thread, NEW p \in PC, Goto(h, p)
  PROVE  Becomes(h, p, threads[h].seq, threads[h].bits, threads[h].through, threads[h].res)
<1> DEFINE u == [threads[h] EXCEPT !.pc = p]
<1>1. threads' = [threads EXCEPT ![h] = u]
  BY DEF Goto
<1>2. threads \in [Thread -> Task] /\ threads[h] \in Task /\ threads[h].seq \in 0..MaxRequests
  BY Fields DEF TypeOK
<1>3. u \in Task /\ u.pc = p /\ u.seq = threads[h].seq /\ u.bits = threads[h].bits /\ u.through = threads[h].through /\ u.res = threads[h].res
  BY <1>2, Blank, PCNames, CycleBoundAssumption DEF Task
<1> HIDE DEF u
<1> QED BY <1>1, <1>2, <1>3, Replaced

LEMMA RestMoves ==
  ASSUME TypeOK, NEW h \in Thread, Rest(h)
  PROVE  Becomes(h, "idle", 0, {}, 0, "ok")
<1> DEFINE u == IdleTask
<1>1. threads' = [threads EXCEPT ![h] = u]
  BY DEF Rest
<1>2. threads \in [Thread -> Task] /\ threads[h] \in Task /\ threads[h].seq \in 0..MaxRequests
  BY Fields DEF TypeOK
<1>3. u \in Task /\ u.pc = "idle" /\ u.seq = 0 /\ u.bits = {} /\ u.through = 0 /\ u.res = "ok"
  BY <1>2, Blank, PCNames, CycleBoundAssumption DEF Task
<1> HIDE DEF u
<1> QED BY <1>1, <1>2, <1>3, Replaced

LEMMA AwaitMoves ==
  ASSUME TypeOK, NEW h \in Thread, NEW s \in 0..MaxRequests, AwaitOwner(h, s)
  PROVE  Becomes(h, "lock", s, {}, 0, "ok")
<1> DEFINE u == [IdleTask EXCEPT !.pc = "lock", !.seq = s]
<1>1. threads' = [threads EXCEPT ![h] = u]
  BY DEF AwaitOwner
<1>2. threads \in [Thread -> Task] /\ threads[h] \in Task /\ threads[h].seq \in 0..MaxRequests
  BY Fields DEF TypeOK
<1>3. u \in Task /\ u.pc = "lock" /\ u.seq = s /\ u.bits = {} /\ u.through = 0 /\ u.res = "ok"
  BY <1>2, Blank, PCNames, CycleBoundAssumption DEF Task
<1> HIDE DEF u
<1> QED BY <1>1, <1>2, <1>3, Replaced

LEMMA LeaveMoves ==
  ASSUME TypeOK, NEW h \in Thread, NEW r \in Result, Leave(h, r)
  PROVE  Becomes(h, "unlock", threads[h].seq, {}, 0, r)
<1> DEFINE u == [IdleTask EXCEPT !.pc = "unlock", !.seq = threads[h].seq, !.res = r]
<1>1. threads' = [threads EXCEPT ![h] = u]
  BY DEF Leave
<1>2. threads \in [Thread -> Task] /\ threads[h] \in Task /\ threads[h].seq \in 0..MaxRequests
  BY Fields DEF TypeOK
<1>3. u \in Task /\ u.pc = "unlock" /\ u.seq = threads[h].seq /\ u.bits = {} /\ u.through = 0 /\ u.res = r
  BY <1>2, Blank, PCNames, CycleBoundAssumption DEF Task
<1> HIDE DEF u
<1> QED BY <1>1, <1>2, <1>3, Replaced

LEMMA CycleOkMoves ==
  ASSUME TypeOK, NEW h \in Thread, CycleOk(h)
  PROVE  Becomes(h, "loop", threads[h].seq, {}, 0, "ok")
<1> DEFINE u == [IdleTask EXCEPT !.pc = "loop", !.seq = threads[h].seq]
<1>1. threads' = [threads EXCEPT ![h] = u]
  BY DEF CycleOk
<1>2. threads \in [Thread -> Task] /\ threads[h] \in Task /\ threads[h].seq \in 0..MaxRequests
  BY Fields DEF TypeOK
<1>3. u \in Task /\ u.pc = "loop" /\ u.seq = threads[h].seq /\ u.bits = {} /\ u.through = 0 /\ u.res = "ok"
  BY <1>2, Blank, PCNames, CycleBoundAssumption DEF Task
<1> HIDE DEF u
<1> QED BY <1>1, <1>2, <1>3, Replaced

(* complete() answers everything up to through, and no failure it forgets   *)
(* is above expired.                                                        *)
LEMMA Completes ==
  ASSUME TypeInv, NEW h \in Thread, threads[h].pc \in Held, NEW ok \in BOOLEAN, Complete(h, ok)
  PROVE  /\ completed' = threads[h].through
         /\ expired' \in 0..completed'
         /\ failures' \in Seq(Failure) /\ Len(failures') <= FailureHistory
         /\ \A i \in 1..Len(failures') : failures'[i].to <= completed'
         /\ verdict' \in [Caller -> {"none", "ok", "failed"}]
         /\ riding' = {}
<1> DEFINE n == threads[h].through
           new == [from |-> completed + 1, to |-> n]
           all == IF ok THEN failures ELSE Append(failures, new)
<1>1. /\ n \in 1..requested /\ completed <= n /\ requested \in 0..MaxRequests
      /\ completed \in 0..requested /\ expired \in 0..completed
      /\ failures \in Seq(Failure) /\ Len(failures) <= FailureHistory
      /\ \A i \in 1..Len(failures) : failures[i].to <= completed
      /\ MaxRequests \in Nat /\ FailureHistory \in Nat \ {0}
  BY CycleBoundAssumption DEF TypeInv, TypeOK, Sequences
<1>2. new \in Failure /\ new.to = n
  <2>1. n \in 1..MaxRequests /\ completed + 1 \in 1..(MaxRequests + 1)
    BY <1>1
  <2> QED BY <2>1 DEF Failure, Sequence
<1>3. /\ completed' = IF n > completed THEN n ELSE completed
      /\ failures' = IF Len(all) > FailureHistory THEN Tail(all) ELSE all
      /\ expired' = IF Len(all) > FailureHistory /\ all[1].to > expired THEN all[1].to ELSE expired
      /\ riding' = {}
  BY DEF Complete, Forget
<1>4. verdict' \in [Caller -> {"none", "ok", "failed"}]
  BY DEF Complete, TypeInv, TypeOK
<1>5. completed' = n
  BY <1>1, <1>3
<1> HIDE DEF new
<1>6. all \in Seq(Failure) /\ Len(all) \in Nat /\ Len(all) <= FailureHistory + 1
  BY <1>1, <1>2
<1>7. \A i \in 1..Len(all) : all[i].to <= n /\ all[i] \in Failure
  <2>0. \A i \in 1..Len(failures) : failures[i].to <= n /\ failures[i] \in Failure
    <3>1. \A i \in 1..Len(failures) : failures[i] \in Failure
      BY <1>1
    <3>2. \A f \in Failure : f.to \in Int
      BY <1>1 DEF Failure, Sequence
    <3> QED BY <1>1, <3>1, <3>2
  <2>1. CASE ok
    BY <2>0, <2>1
  <2>2. CASE ~ok
    <3>1. /\ all = Append(failures, new) /\ Len(all) = Len(failures) + 1
          /\ \A i \in 1..Len(failures) : all[i] = failures[i]
          /\ all[Len(failures) + 1] = new
      BY <1>1, <1>2, <2>2, AppendProperties
    <3>3. \A i \in 1..Len(all) : i \in 1..Len(failures) \/ i = Len(failures) + 1
      BY <1>1, <3>1
    <3>4. n <= n
      BY <1>1
    <3> QED BY <1>2, <2>0, <3>1, <3>3, <3>4
  <2> QED BY <2>1, <2>2
<1> HIDE DEF all
<1>8. CASE Len(all) > FailureHistory
  <2>1. /\ Tail(all) \in Seq(Failure) /\ Len(Tail(all)) = Len(all) - 1
        /\ \A i \in 1..Len(Tail(all)) : Tail(all)[i] = all[i + 1]
    BY <1>1, <1>6, <1>8
  <2>2. 1 \in 1..Len(all)
    BY <1>1, <1>6, <1>8
  <2>3. expired' \in 0..n
    BY <1>1, <1>3, <1>7, <2>2 DEF Failure, Sequence
  <2>4. \A i \in 1..Len(Tail(all)) : Tail(all)[i].to <= n
    BY <1>6, <1>7, <2>1
  <2> QED BY <1>1, <1>3, <1>4, <1>5, <1>6, <1>8, <2>1, <2>3, <2>4
<1>9. CASE ~(Len(all) > FailureHistory)
  BY <1>1, <1>3, <1>4, <1>5, <1>6, <1>7, <1>9
<1> QED BY <1>8, <1>9
-----------------------------------------------------------------------------
(* What a step of a cycle does to the coordinator. *)
(* A cycle's step leaves these alone, and adds to what is asked for. *)
Grows ==
    /\ pending' \subseteq Bit /\ pending \subseteq pending'
    /\ requested' \in requested..MaxRequests
    /\ pending' # {} => requested' > 0
    /\ waiting' \subseteq Caller /\ stalled' \in BOOLEAN
    /\ trusted' \in BOOLEAN /\ recovered' \in BOOLEAN /\ dropped' \in BOOLEAN
    /\ faults' \in 0..MaxFaults
CycleStep(h) == Aborts(h) \/ Refresh(h) \/ Recover(h) \/ Resume(h) \/ Plan(h)
Passes(h) ==
    /\ \E p \in CyclePC : Goto(h, p)
    /\ UNCHANGED <<completed, expired, failures, verdict, riding, syncing>>
Fails(h) == \E r \in Result : Complete(h, FALSE) /\ Leave(h, r)

LEMMA CycleSteps ==
  ASSUME TypeOK, Sequences, NEW h \in Thread, CycleStep(h)
  PROVE  /\ threads[h].pc \in CyclePC
         /\ UNCHANGED <<owner, folder, asking, life, net>>
         /\ Grows
         /\ Passes(h) \/ CycleOk(h) \/ Fails(h)
<1>0. /\ pending \subseteq Bit /\ requested \in 0..MaxRequests /\ waiting \subseteq Caller
      /\ stalled \in BOOLEAN /\ trusted \in BOOLEAN /\ recovered \in BOOLEAN
      /\ dropped \in BOOLEAN /\ faults \in 0..MaxFaults /\ riding \subseteq Caller
      /\ threads[h].bits \subseteq Bit /\ started \in BOOLEAN
      /\ MaxRequests \in Nat /\ MaxFaults \in Nat
      /\ pending # {} => requested > 0
      /\ threads[h].pc \in CyclePC => requested > 0
  BY Fields, CycleBoundAssumption, PCNames DEF TypeOK, Sequences
<1> USE DEF KeepBits, Keep, Restore, Returned, Bits, Request, Fault
<1>1. ASSUME NEW res \in Result, CycleFails(h, res)
      PROVE  Fails(h) /\ stalled' \in BOOLEAN
  BY <1>0, <1>1 DEF CycleFails, Fails, Strands
<1>a. "fatal" \in Result /\ "recoverable" \in Result /\ "refresh" \in CyclePC
      /\ "recover" \in CyclePC /\ "resume" \in CyclePC /\ "plan" \in CyclePC
  BY PCNames
<1>2. CASE Aborts(h)
  <2>1. threads[h].pc \in CyclePC /\ UNCHANGED <<owner, folder, asking, life, net>>
    BY <1>a, <1>2 DEF Aborts, At
  <2>2. Passes(h) \/ CycleOk(h) \/ \E res \in Result : CycleFails(h, res)
    BY <1>a, <1>2 DEF Aborts, Passes
  <2>3. pending' \subseteq Bit /\ pending \subseteq pending' /\ waiting' \subseteq Caller
    BY <1>0, <1>2, BitSets DEF Aborts
  <2>4. requested' \in requested..MaxRequests
    BY <1>0, <1>2 DEF Aborts
  <2>5. stalled' \in BOOLEAN
    BY <1>0, <1>1, <1>a, <1>2 DEF Aborts
  <2>6. faults' \in 0..MaxFaults
    BY <1>0, <1>2 DEF Aborts
  <2>8. trusted' \in BOOLEAN
    BY <1>0, <1>2 DEF Aborts
  <2>9. dropped' \in BOOLEAN
    BY <1>0, <1>2 DEF Aborts
  <2>10. recovered' \in BOOLEAN
    BY <1>0, <1>2 DEF Aborts
  <2>7. requested' > 0
    BY <1>0, <2>1, <2>4
  <2> QED BY <1>1, <2>1, <2>2, <2>3, <2>4, <2>5, <2>6, <2>7, <2>8, <2>9, <2>10 DEF Grows
<1>3. CASE Refresh(h)
  <2>1. threads[h].pc \in CyclePC /\ UNCHANGED <<owner, folder, asking, life, net>>
    BY <1>a, <1>3 DEF Refresh, At
  <2>2. Passes(h) \/ CycleOk(h) \/ \E res \in Result : CycleFails(h, res)
    BY <1>a, <1>3 DEF Refresh, FailsAndRestores, Postponed, StoreFails, Passes
  <2>3. pending' \subseteq Bit /\ pending \subseteq pending' /\ waiting' \subseteq Caller
    BY <1>0, <1>3, BitSets DEF Refresh, FailsAndRestores, Postponed, StoreFails
  <2>4. requested' \in requested..MaxRequests
    BY <1>0, <1>3 DEF Refresh, FailsAndRestores, Postponed, StoreFails
  <2>5. stalled' \in BOOLEAN
    BY <1>0, <1>1, <1>a, <1>3 DEF Refresh, FailsAndRestores, Postponed, StoreFails
  <2>6. faults' \in 0..MaxFaults
    BY <1>0, <1>3 DEF Refresh, FailsAndRestores, Postponed, StoreFails
  <2>8. trusted' \in BOOLEAN
    BY <1>0, <1>3 DEF Refresh, FailsAndRestores, Postponed, StoreFails
  <2>9. dropped' \in BOOLEAN
    BY <1>0, <1>3 DEF Refresh, FailsAndRestores, Postponed, StoreFails
  <2>10. recovered' \in BOOLEAN
    BY <1>0, <1>3 DEF Refresh, FailsAndRestores, Postponed, StoreFails
  <2>7. requested' > 0
    BY <1>0, <2>1, <2>4
  <2> QED BY <1>1, <2>1, <2>2, <2>3, <2>4, <2>5, <2>6, <2>7, <2>8, <2>9, <2>10 DEF Grows
<1>4. CASE Recover(h)
  <2>1. threads[h].pc \in CyclePC /\ UNCHANGED <<owner, folder, asking, life, net>>
    BY <1>a, <1>4 DEF Recover, At
  <2>2. Passes(h) \/ CycleOk(h) \/ \E res \in Result : CycleFails(h, res)
    BY <1>a, <1>4 DEF Recover, FailsAndRestores, CheckpointFails, StoreFails, Passes
  <2>3. pending' \subseteq Bit /\ pending \subseteq pending' /\ waiting' \subseteq Caller
    BY <1>0, <1>4, BitSets DEF Recover, FailsAndRestores, CheckpointFails, StoreFails
  <2>4. requested' \in requested..MaxRequests
    BY <1>0, <1>4 DEF Recover, FailsAndRestores, CheckpointFails, StoreFails
  <2>5. stalled' \in BOOLEAN
    BY <1>0, <1>1, <1>a, <1>4 DEF Recover, FailsAndRestores, CheckpointFails, StoreFails
  <2>6. faults' \in 0..MaxFaults
    BY <1>0, <1>4 DEF Recover, FailsAndRestores, CheckpointFails, StoreFails
  <2>8. trusted' \in BOOLEAN
    BY <1>0, <1>4 DEF Recover, FailsAndRestores, CheckpointFails, StoreFails
  <2>9. dropped' \in BOOLEAN
    BY <1>0, <1>4 DEF Recover, FailsAndRestores, CheckpointFails, StoreFails
  <2>10. recovered' \in BOOLEAN
    BY <1>0, <1>4 DEF Recover, FailsAndRestores, CheckpointFails, StoreFails
  <2>7. requested' > 0
    BY <1>0, <2>1, <2>4
  <2> QED BY <1>1, <2>1, <2>2, <2>3, <2>4, <2>5, <2>6, <2>7, <2>8, <2>9, <2>10 DEF Grows
<1>5. CASE Resume(h)
  <2>1. threads[h].pc \in CyclePC /\ UNCHANGED <<owner, folder, asking, life, net>>
    BY <1>a, <1>5 DEF Resume, At
  <2>2. Passes(h) \/ CycleOk(h) \/ \E res \in Result : CycleFails(h, res)
    BY <1>a, <1>5 DEF Resume, CheckpointFails, Postponed, Passes
  <2>3. pending' \subseteq Bit /\ pending \subseteq pending' /\ waiting' \subseteq Caller
    BY <1>0, <1>5, BitSets DEF Resume, CheckpointFails, Postponed
  <2>4. requested' \in requested..MaxRequests
    BY <1>0, <1>5 DEF Resume, CheckpointFails, Postponed
  <2>5. stalled' \in BOOLEAN
    BY <1>0, <1>1, <1>a, <1>5 DEF Resume, CheckpointFails, Postponed
  <2>6. faults' \in 0..MaxFaults
    BY <1>0, <1>5 DEF Resume, CheckpointFails, Postponed
  <2>8. trusted' \in BOOLEAN
    BY <1>0, <1>5 DEF Resume, CheckpointFails, Postponed
  <2>9. dropped' \in BOOLEAN
    BY <1>0, <1>5 DEF Resume, CheckpointFails, Postponed
  <2>10. recovered' \in BOOLEAN
    BY <1>0, <1>5 DEF Resume, CheckpointFails, Postponed
  <2>7. requested' > 0
    BY <1>0, <2>1, <2>4
  <2> QED BY <1>1, <2>1, <2>2, <2>3, <2>4, <2>5, <2>6, <2>7, <2>8, <2>9, <2>10 DEF Grows
<1>6. CASE Plan(h)
  <2>1. threads[h].pc \in CyclePC /\ UNCHANGED <<owner, folder, asking, life, net>>
    BY <1>a, <1>6 DEF Plan, At
  <2>2. Passes(h) \/ CycleOk(h) \/ \E res \in Result : CycleFails(h, res)
    BY <1>a, <1>6 DEF Plan, CheckpointFails, Passes
  <2>3. pending' \subseteq Bit /\ pending \subseteq pending' /\ waiting' \subseteq Caller
    BY <1>0, <1>6, BitSets DEF Plan, CheckpointFails
  <2>4. requested' \in requested..MaxRequests
    BY <1>0, <1>6 DEF Plan, CheckpointFails
  <2>5. stalled' \in BOOLEAN
    BY <1>0, <1>1, <1>a, <1>6 DEF Plan, CheckpointFails
  <2>6. faults' \in 0..MaxFaults
    BY <1>0, <1>6 DEF Plan, CheckpointFails
  <2>8. trusted' \in BOOLEAN
    BY <1>0, <1>6 DEF Plan, CheckpointFails
  <2>9. dropped' \in BOOLEAN
    BY <1>0, <1>6 DEF Plan, CheckpointFails
  <2>10. recovered' \in BOOLEAN
    BY <1>0, <1>6 DEF Plan, CheckpointFails
  <2>7. requested' > 0
    BY <1>0, <2>1, <2>4
  <2> QED BY <1>1, <2>1, <2>2, <2>3, <2>4, <2>5, <2>6, <2>7, <2>8, <2>9, <2>10 DEF Grows
<1> QED BY <1>2, <1>3, <1>4, <1>5, <1>6 DEF CycleStep
-----------------------------------------------------------------------------
(* The effect of each of the other steps. *)
LEMMA AcquireMoves ==
  ASSUME TypeOK, NEW h \in Thread, Acquire(h)
  PROVE  LET t == threads[h] IN
         /\ t.pc = "lock" /\ owner = NoThread
         /\ UNCHANGED <<coordinator, folder, asking, life, net, trusted, recovered, faults, ghosts>>
         /\ \/ /\ t.seq > 0 /\ t.seq <= completed
               /\ Becomes(h, "answer", t.seq, t.bits, t.through, IF Succeeded(t.seq) THEN "ok" ELSE "fatal")
               /\ UNCHANGED <<owner, syncing>>
            \/ /\ t.seq = 0 \/ t.seq > completed
               /\ Becomes(h, "loop", t.seq, t.bits, t.through, t.res)
               /\ owner' = h /\ syncing' = TRUE
<1> DEFINE t == threads[h]
           r == IF Succeeded(t.seq) THEN "ok" ELSE "fatal"
           u == [t EXCEPT !.pc = "answer", !.res = r]
<1>1. /\ t.pc = "lock" /\ owner = NoThread /\ t \in Task /\ threads \in [Thread -> Task]
      /\ UNCHANGED <<coordinator, folder, asking, life, net, trusted, recovered, faults, ghosts>>
      /\ r \in Result
  BY PCNames DEF Acquire, At, TypeOK
<1>2. \/ /\ t.seq > 0 /\ Answered(t.seq) /\ threads' = [threads EXCEPT ![h] = u] /\ UNCHANGED <<owner, syncing>>
      \/ /\ ~(t.seq > 0 /\ Answered(t.seq)) /\ owner' = h /\ syncing' = TRUE /\ Goto(h, "loop")
  BY DEF Acquire
<1>3. /\ u \in Task /\ u.pc = "answer" /\ u.seq = t.seq /\ u.bits = t.bits
      /\ u.through = t.through /\ u.res = r
  BY <1>1, PCNames DEF Task
<1> HIDE DEF u, r
<1>4. t.seq \in Nat /\ completed \in Nat
  BY <1>1, Fields, CycleBoundAssumption DEF TypeOK
<1>5. CASE t.seq > 0 /\ Answered(t.seq)
  <2>1. Becomes(h, "answer", t.seq, t.bits, t.through, r) /\ UNCHANGED <<owner, syncing>>
    BY <1>1, <1>2, <1>3, <1>5, Replaced
  <2> QED BY <1>1, <1>4, <1>5, <2>1 DEF r, Answered
<1>6. CASE ~(t.seq > 0 /\ Answered(t.seq))
  <2>1. Becomes(h, "loop", t.seq, t.bits, t.through, t.res) /\ owner' = h /\ syncing' = TRUE
    BY <1>2, <1>6, GotoMoves, PCNames
  <2>2. t.seq = 0 \/ t.seq > completed
    BY <1>4, <1>6 DEF Answered
  <2> QED BY <1>1, <2>1, <2>2
<1> QED BY <1>5, <1>6

LEMMA TakeMoves ==
  ASSUME TypeOK, NEW h \in Thread, Take(h)
  PROVE  LET t == threads[h] IN
         /\ t.pc = "loop"
         /\ UNCHANGED <<requested, completed, expired, failures, owner, folder, asking, life,
                        net, trusted, recovered, faults, verdict, stalled, dropped>>
         /\ \/ /\ pending = {} /\ Becomes(h, "unlock", t.seq, {}, 0, "ok") /\ syncing' = FALSE
               /\ UNCHANGED <<pending, waiting, riding>>
            \/ /\ pending # {} /\ Becomes(h, "gates", t.seq, pending, requested, t.res)
               /\ pending' = {} /\ riding' = waiting /\ waiting' = {} /\ UNCHANGED syncing
<1> DEFINE t == threads[h]
           u == [t EXCEPT !.pc = "gates", !.bits = pending, !.through = requested]
<1>1. /\ t.pc = "loop" /\ t \in Task /\ threads \in [Thread -> Task]
      /\ requested \in 0..MaxRequests /\ pending \subseteq Bit
      /\ UNCHANGED <<requested, completed, expired, failures, owner, folder, asking, life,
                     net, trusted, recovered, faults, verdict, stalled, dropped>>
  BY DEF Take, At, TypeOK
<1>2. \/ pending = {} /\ Leave(h, "ok") /\ UNCHANGED <<pending, waiting, riding>>
      \/ /\ pending # {} /\ threads' = [threads EXCEPT ![h] = u] /\ pending' = {}
         /\ riding' = waiting /\ waiting' = {} /\ UNCHANGED syncing
  BY DEF Take
<1>3. /\ u \in Task /\ u.pc = "gates" /\ u.seq = t.seq /\ u.bits = pending
      /\ u.through = requested /\ u.res = t.res
  BY <1>1, PCNames DEF Task
<1> HIDE DEF u
<1> QED BY <1>1, <1>2, <1>3, Replaced, LeaveMoves, PCNames DEF Leave

LEMMA GatesMoves ==
  ASSUME TypeOK, NEW h \in Thread, Gates(h)
  PROVE  LET t == threads[h] IN
         /\ t.pc = "gates"
         /\ UNCHANGED <<requested, completed, expired, failures, owner, folder, asking, life, net,
                        trusted, recovered, faults, verdict, stalled, dropped>>
         /\ \/ /\ Becomes(h, "unlock", t.seq, {}, 0, "ok") /\ syncing' = FALSE /\ riding' = {}
               /\ \/ shutdown /\ UNCHANGED <<pending, waiting>>
                  \/ /\ folderSyncing \/ ~online
                     /\ pending' = pending \cup t.bits /\ waiting' = waiting \cup riding
            \/ /\ ~shutdown /\ ~folderSyncing
               /\ Becomes(h, "refresh", t.seq, t.bits, t.through, t.res)
               /\ UNCHANGED <<pending, waiting, syncing, riding>>
<1>1. /\ threads[h].pc = "gates"
      /\ UNCHANGED <<requested, completed, expired, failures, owner, folder, asking, life, net,
                     trusted, recovered, faults, verdict, stalled, dropped>>
  BY DEF Gates, PutBack, Restore, Keep, KeepBits, At
<1>2. CASE shutdown
  <2>1. Leave(h, "ok") /\ UNCHANGED <<pending, waiting>> /\ riding' = {}
    BY <1>2 DEF Gates, Keep, KeepBits, Refuses
  <2> QED BY <1>1, <1>2, <2>1, LeaveMoves, PCNames DEF Leave
<1>3. CASE ~shutdown /\ (folderSyncing \/ ("STARTUP" \notin Bits(h) /\ ~online))
  <2>1. /\ Leave(h, "ok") /\ riding' = {}
        /\ pending' = pending \cup threads[h].bits /\ waiting' = waiting \cup riding
    BY <1>3 DEF Gates, PutBack, Restore, Returned, Bits, Refuses
  <2> QED BY <1>1, <1>3, <2>1, LeaveMoves, PCNames DEF Leave
<1>4. CASE ~shutdown /\ ~(folderSyncing \/ ("STARTUP" \notin Bits(h) /\ ~online))
  <2>1. Goto(h, "refresh") /\ UNCHANGED <<pending, waiting, syncing, riding>>
    BY <1>4 DEF Gates, Keep, KeepBits, Refuses
  <2> QED BY <1>1, <1>4, <2>1, GotoMoves, PCNames
<1> QED BY <1>2, <1>3, <1>4

LEMMA UnlockMoves ==
  ASSUME TypeOK, NEW h \in Thread, Unlock(h)
  PROVE  LET t == threads[h]
             p == IF h \in Caller THEN "answer" ELSE
                  IF t.res = "recoverable" /\ pending # {} THEN "sleep" ELSE "clear"
         IN  /\ t.pc = "unlock" /\ owner' = NoThread
             /\ UNCHANGED <<coordinator, syncing, folder, asking, life, net, trusted, recovered, faults, ghosts>>
             /\ Becomes(h, p, t.seq, t.bits, t.through, t.res)
<1> DEFINE p == IF h \in Caller THEN "answer" ELSE
                IF threads[h].res = "recoverable" /\ pending # {} THEN "sleep" ELSE "clear"
<1>1. /\ threads[h].pc = "unlock" /\ owner' = NoThread /\ Goto(h, p) /\ p \in PC
      /\ UNCHANGED <<coordinator, syncing, folder, asking, life, net, trusted, recovered, faults, ghosts>>
  BY PCNames DEF Unlock, At
<1> QED BY <1>1, GotoMoves

LEMMA AnswerMoves ==
  ASSUME TypeOK, NEW h \in Thread, Answer(h)
  PROVE  LET t == threads[h] IN
         /\ t.pc = "answer"
         /\ UNCHANGED <<coordinator, owner, syncing, folder, asking, shutdown, quiesced, net,
                        trusted, recovered, faults, verdict, dropped>>
         /\ waiting' = waiting \ {h} /\ riding' = riding \ {h}
         /\ \/ Becomes(h, "idle", 0, {}, 0, "ok") /\ UNCHANGED <<started, stalled>>
            \/ /\ h = Boot /\ Becomes(h, "idle", 0, {}, 0, "ok") /\ started' = TRUE
               /\ stalled' = (stalled \/ (pending # {} /\ ~scheduled))
            \/ /\ h = Boot /\ Becomes(h, "arm", t.seq, t.bits, t.through, t.res)
               /\ started' = TRUE /\ UNCHANGED stalled
<1>1. /\ threads[h].pc = "answer"
      /\ UNCHANGED <<coordinator, owner, syncing, folder, asking, shutdown, quiesced, net,
                     trusted, recovered, faults, verdict, dropped>>
      /\ waiting' = waiting \ {h} /\ riding' = riding \ {h}
  BY DEF Answer, At
<1>2. CASE h = Boot /\ (ToldOk(h) \/ Deferrable(h)) /\ ~shutdown
  <2>1. /\ started' = TRUE
        /\ \/ Rest(h) /\ stalled' = (stalled \/ (pending # {} /\ ~scheduled))
           \/ Goto(h, "arm") /\ UNCHANGED stalled
    BY <1>2 DEF Answer
  <2> QED BY <1>1, <1>2, <2>1, RestMoves, GotoMoves, PCNames
<1>3. CASE ~(h = Boot /\ (ToldOk(h) \/ Deferrable(h)) /\ ~shutdown)
  <2>1. Rest(h) /\ UNCHANGED <<started, stalled>>
    BY <1>3 DEF Answer
  <2> QED BY <1>1, <1>3, <2>1, RestMoves
<1> QED BY <1>2, <1>3

LEMMA ArmMoves ==
  ASSUME TypeOK, NEW h \in Thread, Arm(h)
  PROVE  /\ threads[h].pc = "arm" /\ Becomes(h, "idle", 0, {}, 0, "ok")
         /\ UNCHANGED <<coordinator, owner, syncing, folder, scheduled, life, net, trusted,
                        recovered, faults, ghosts>>
         /\ ringing' = IF online /\ pending # {} THEN ringing \cup {"start"} ELSE ringing
<1>1. threads[h].pc = "arm" /\ Rest(h)
  BY DEF Arm, At
<1> QED BY <1>1, RestMoves DEF Arm

LEMMA WakeMoves ==
  ASSUME TypeOK, NEW w \in Thread, Wake(w)
  PROVE  LET t == threads[w] IN
         /\ t.pc = "sleep"
         /\ UNCHANGED <<coordinator, owner, syncing, folder, asking, life, net, trusted,
                        recovered, faults, ghosts>>
         /\ \/ Becomes(w, "lock", 0, {}, 0, "ok")
            \/ Becomes(w, "clear", t.seq, t.bits, t.through, t.res) /\ (~online \/ shutdown)
<1>1. threads[w].pc = "sleep" /\ (AwaitOwner(w, 0) \/ (Goto(w, "clear") /\ (~online \/ shutdown)))
  BY DEF Wake, At
<1>2. 0 \in 0..MaxRequests
  BY CycleBoundAssumption
<1> QED BY <1>1, <1>2, AwaitMoves, GotoMoves, PCNames DEF Wake

LEMMA ClearMoves ==
  ASSUME TypeOK, NEW w \in Thread, Clear(w)
  PROVE  LET t == threads[w] IN
         /\ t.pc = "clear" /\ scheduled' = FALSE
         /\ UNCHANGED <<coordinator, owner, syncing, folder, ringing, life, net, trusted,
                        recovered, faults, ghosts>>
         /\ Becomes(w, "recheck", t.seq, t.bits, t.through, t.res)
<1>1. threads[w].pc = "clear" /\ Goto(w, "recheck")
  BY DEF Clear, At
<1> QED BY <1>1, GotoMoves, PCNames DEF Clear

LEMMA RecheckMoves ==
  ASSUME TypeOK, NEW w \in Thread, Recheck(w)
  PROVE  /\ threads[w].pc = "recheck"
         /\ UNCHANGED <<coordinator, owner, syncing, folder, ringing, life, net, trusted,
                        recovered, faults, ghosts>>
         /\ \/ scheduled' = TRUE /\ ~scheduled /\ Becomes(w, "lock", 0, {}, 0, "ok")
            \/ /\ ~MayContinue(w) \/ scheduled
               /\ Becomes(w, "idle", 0, {}, 0, "ok") /\ UNCHANGED scheduled
<1>1. /\ threads[w].pc = "recheck"
      /\ \/ scheduled' = TRUE /\ ~scheduled /\ AwaitOwner(w, 0)
         \/ (~MayContinue(w) \/ scheduled) /\ Rest(w) /\ UNCHANGED scheduled
  BY DEF Recheck, At
<1>2. 0 \in 0..MaxRequests
  BY CycleBoundAssumption
<1> QED BY <1>1, <1>2, AwaitMoves, RestMoves DEF Recheck

LEMMA RingMoves ==
  ASSUME TypeOK, NEW s \in Source, Ring(s)
  PROVE  /\ s \in ringing /\ ringing' = ringing \ {s}
         /\ UNCHANGED <<coordinator, owner, syncing, folder, life, net, trusted, recovered, faults, ghosts>>
         /\ \/ scheduled /\ UNCHANGED <<scheduled, threads>>
            \/ /\ ~scheduled /\ scheduled' = TRUE
               /\ \E w \in Worker : threads[w].pc = "idle" /\ Becomes(w, "lock", 0, {}, 0, "ok")
<1>1. /\ s \in ringing /\ ringing' = ringing \ {s}
      /\ UNCHANGED <<coordinator, owner, syncing, folder, life, net, trusted, recovered, faults, ghosts>>
  BY DEF Ring
<1>2. CASE scheduled
  BY <1>1, <1>2 DEF Ring
<1>3. CASE ~scheduled
  <2>1. PICK w \in Worker : Idle(w) /\ AwaitOwner(w, 0)
    BY <1>3 DEF Ring
  <2>2. w \in Thread /\ threads[w].pc = "idle" /\ 0 \in 0..MaxRequests
    BY <2>1, CycleBoundAssumption DEF Thread, Idle, At
  <2>3. Becomes(w, "lock", 0, {}, 0, "ok")
    BY <2>1, <2>2, AwaitMoves
  <2>4. scheduled' = TRUE
    BY <1>3 DEF Ring
  <2> QED BY <1>1, <1>3, <2>2, <2>3, <2>4
<1> QED BY <1>2, <1>3

LEMMA CallMoves ==
  ASSUME TypeOK, NEW h \in Caller, NEW bits, Call(h, bits)
  PROVE  /\ h \in Thread /\ (h = Boot \/ started) /\ threads[h].pc \in {"start", "idle"}
         /\ h = Boot => threads[h].pc = "start"
         /\ requested' = requested + 1 /\ requested' \in 1..MaxRequests /\ pending' = pending \cup bits
         /\ stalled' = FALSE /\ waiting' = waiting \cup {h}
         /\ verdict' = [verdict EXCEPT ![h] = "none"]
         /\ Becomes(h, "lock", requested', {}, 0, "ok")
         /\ UNCHANGED <<completed, expired, failures, owner, syncing, folder, asking, life,
                        net, trusted, recovered, faults, riding, dropped>>
<1>1. /\ h \in Thread /\ (h = Boot \/ started) /\ threads[h].pc \in {"start", "idle"}
      /\ h = Boot => threads[h].pc = "start"
  BY DEF Call, At, Idle, Thread
<1>2. /\ requested' = requested + 1 /\ requested' \in 1..MaxRequests /\ pending' = pending \cup bits
      /\ stalled' = FALSE /\ waiting' = waiting \cup {h}
      /\ verdict' = [verdict EXCEPT ![h] = "none"]
      /\ UNCHANGED <<completed, expired, failures, owner, syncing, folder, asking, life,
                     net, trusted, recovered, faults, riding, dropped>>
  BY CycleBoundAssumption DEF Call, Request, TypeOK
<1>3. Becomes(h, "lock", requested', {}, 0, "ok")
  <2>1. AwaitOwner(h, requested') /\ requested' \in 0..MaxRequests
    BY <1>2, CycleBoundAssumption DEF Call
  <2> QED BY <1>1, <2>1, AwaitMoves
<1> QED BY <1>1, <1>2, <1>3
-----------------------------------------------------------------------------
(* Types, ownership and roles. *)
Base == TypeOK /\ Sequences /\ Ownership /\ Roles /\ BeforeStart

(* How a cycle's step leaves its thread and what is answered. *)
LEMMA CycleEffect ==
  ASSUME TypeOK, Sequences, NEW h \in Thread, CycleStep(h)
  PROVE  LET t == threads[h] IN
         /\ threads' \in [Thread -> Task]
         /\ \A k \in Thread \ {h} : threads'[k] = threads[k]
         /\ threads'[h].seq = t.seq
         /\ completed' \in completed..requested /\ expired' \in 0..completed'
         /\ failures' \in Seq(Failure) /\ Len(failures') <= FailureHistory
         /\ \A i \in 1..Len(failures') : failures'[i].to <= completed'
         /\ verdict' \in [Caller -> {"none", "ok", "failed"}] /\ riding' \subseteq Caller
         /\ \/ /\ threads'[h].pc \in CyclePC /\ threads'[h].through = t.through
               /\ UNCHANGED <<completed, expired, failures, verdict, riding, syncing>>
            \/ threads'[h].pc = "loop" /\ completed' = t.through /\ UNCHANGED syncing
            \/ threads'[h].pc = "unlock" /\ completed' = t.through /\ syncing' = FALSE
<1>0. /\ threads[h].pc \in CyclePC /\ threads[h].pc \in Held /\ CyclePC \subseteq PC
      /\ Passes(h) \/ CycleOk(h) \/ Fails(h)
      /\ completed \in 0..requested /\ expired \in 0..completed /\ requested \in 0..MaxRequests
      /\ failures \in Seq(Failure) /\ Len(failures) <= FailureHistory
      /\ \A i \in 1..Len(failures) : failures[i].to <= completed
      /\ verdict \in [Caller -> {"none", "ok", "failed"}] /\ riding \subseteq Caller
      /\ threads[h].through \in completed..requested
  BY CycleSteps, PCNames, CycleBoundAssumption DEF TypeOK, Sequences
<1>1. CASE Passes(h)
  <2>1. PICK q \in CyclePC : Goto(h, q)
    BY <1>1 DEF Passes
  <2>2. Becomes(h, q, threads[h].seq, threads[h].bits, threads[h].through, threads[h].res)
    BY <1>0, <2>1, GotoMoves
  <2>3. UNCHANGED <<completed, expired, failures, verdict, riding, syncing>>
    BY <1>1 DEF Passes
  <2>4. completed \in completed..requested
    BY <1>0, CycleBoundAssumption
  <2> QED BY <1>0, <2>2, <2>3, <2>4 DEF Becomes
<1>2. CASE CycleOk(h)
  <2>1. Complete(h, TRUE) /\ UNCHANGED syncing
    BY <1>2 DEF CycleOk
  <2>2. Becomes(h, "loop", threads[h].seq, {}, 0, "ok")
    BY <1>2, CycleOkMoves
  <2> QED BY <1>0, <2>1, <2>2, Completes DEF Becomes, TypeInv
<1>3. CASE Fails(h)
  <2>1. PICK r \in Result : Complete(h, FALSE) /\ Leave(h, r)
    BY <1>3 DEF Fails
  <2>2. Becomes(h, "unlock", threads[h].seq, {}, 0, r) /\ syncing' = FALSE
    BY <2>1, LeaveMoves DEF Leave
  <2> QED BY <1>0, <2>1, <2>2, Completes DEF Becomes, TypeInv
<1> QED BY <1>0, <1>1, <1>2, <1>3

LEMMA CycleStepBase ==
  ASSUME Base, NEW h \in Thread, CycleStep(h)
  PROVE  Base'
<1>0. TypeOK /\ Sequences
  BY DEF Base
<1>1. /\ threads[h].pc \in CyclePC /\ Grows
      /\ UNCHANGED <<owner, folder, asking, life, net>>
  BY <1>0, CycleSteps
<1>2. TypeOK'
  <2>1. completed' \in 0..requested'
    <3>1. completed' \in completed..requested /\ requested' \in requested..MaxRequests
      BY <1>0, <1>1, CycleEffect DEF Grows
    <3>2. completed \in 0..requested /\ requested \in 0..MaxRequests
      BY <1>0 DEF TypeOK
    <3> QED BY <3>1, <3>2, CycleBoundAssumption
  <2>2. requested' \in 0..MaxRequests
    BY <1>0, <1>1, CycleBoundAssumption DEF Grows, TypeOK
  <2>3. syncing' \in BOOLEAN
    BY <1>0, CycleEffect DEF TypeOK
  <2>4. /\ threads' \in [Thread -> Task] /\ expired' \in 0..completed'
        /\ failures' \in Seq(Failure) /\ Len(failures') <= FailureHistory
        /\ verdict' \in [Caller -> {"none", "ok", "failed"}] /\ riding' \subseteq Caller
    BY <1>0, CycleEffect
  <2> QED BY <1>0, <1>1, <2>1, <2>2, <2>3, <2>4 DEF Grows, TypeOK, folder, asking, life, net
<1>3. Ownership'
  BY <1>0, <1>1, CycleEffect, PCNames DEF Base, Ownership
<1>4. Sequences'
  <2>1. \A k \in Thread : k # h => threads[k].pc \notin Held
    BY <1>1, PCNames DEF Base, Ownership
  <2>2. \A k \in Thread : threads'[k].seq = threads[k].seq /\ threads[k].seq \in 0..MaxRequests
    BY <1>0, CycleEffect, Fields DEF TypeOK
  <2>3. requested \in 0..MaxRequests /\ requested' \in requested..MaxRequests
    BY <1>0, <1>1 DEF TypeOK, Grows
  <2>4. \A k \in Thread : threads'[k].seq <= requested'
    BY <1>0, <2>2, <2>3, CycleBoundAssumption DEF Sequences
  <2>5. ASSUME NEW k \in Thread, threads'[k].pc \in Held
        PROVE  threads'[k].through \in 1..requested' /\ completed' <= threads'[k].through
    <3>1. k = h
      BY <1>0, <2>1, <2>5, CycleEffect
    <3>2. threads'[h].through = threads[h].through /\ completed' = completed
      BY <1>0, <2>5, <3>1, CycleEffect, PCNames
    <3>3. threads[h].through \in 1..requested /\ completed <= threads[h].through
      BY <1>0, <1>1, PCNames DEF Sequences
    <3> QED BY <2>3, <3>1, <3>2, <3>3, CycleBoundAssumption
  <2>6. pending' # {} => requested' > 0
    BY <1>1 DEF Grows
  <2>7. \A i \in 1..Len(failures') : failures'[i].to <= completed'
    BY <1>0, CycleEffect
  <2> QED BY <2>4, <2>5, <2>6, <2>7 DEF Sequences
<1>5. Roles'
  BY <1>0, <1>1, CycleEffect, PCNames, ThreadAssumption DEF Base, Roles, Thread
<1>6. BeforeStart'
  <2>1. h # Boot => ~At(Boot, "start")
    BY <1>1, PCNames DEF Base, BeforeStart, Idle, At
  <2> QED BY <1>0, <1>1, <2>1, CycleEffect, PCNames, ThreadAssumption DEF BeforeStart, At, Thread
<1> QED BY <1>2, <1>3, <1>4, <1>5, <1>6 DEF Base

(* Steps that leave the coordinator's counters and every thread but h alone. *)
LEMMA Moved ==
  ASSUME Base, NEW h \in Thread, NEW p, NEW s, NEW b, NEW n, NEW r, Becomes(h, p, s, b, n, r),
         s = threads[h].seq \/ s = 0, p # "start",
         UNCHANGED <<completed, failures>>,
         requested' = requested, pending' # {} => requested > 0,
         p \in Held => n \in 1..requested /\ completed <= n,
         h # Boot => (threads[Boot].pc = "start" => (p = "idle" /\ pending' = {} /\ ringing' = {} /\ ~started'))
  PROVE  Sequences' /\ BeforeStart'
<1>1. /\ threads'[h].pc = p /\ threads'[h].seq = s /\ threads'[h].through = n
      /\ \A k \in Thread \ {h} : threads'[k] = threads[k]
  BY DEF Becomes
<1>2. threads[h].seq \in 0..requested /\ requested \in 0..MaxRequests /\ completed \in 0..requested
  BY Fields DEF Base, TypeOK, Sequences
<1>3. Sequences'
  <2>1. \A k \in Thread : threads'[k].seq <= requested
    BY <1>1, <1>2, CycleBoundAssumption DEF Base, Sequences
  <2>2. \A k \in Thread : threads'[k].pc \in Held =>
          threads'[k].through \in 1..requested /\ completed <= threads'[k].through
    BY <1>1 DEF Base, Sequences
  <2> QED BY <2>1, <2>2 DEF Base, Sequences
<1>4. BeforeStart'
  BY <1>1, ThreadAssumption DEF Base, BeforeStart, At, Idle, Thread
<1> QED BY <1>3, <1>4

LEMMA AcquireBase ==
  ASSUME Base, NEW h \in Thread, Acquire(h)
  PROVE  Base'
<1> DEFINE t == threads[h]
           r == IF Succeeded(t.seq) THEN "ok" ELSE "fatal"
<1>1. /\ t.pc = "lock" /\ owner = NoThread /\ t \in Task
      /\ UNCHANGED <<coordinator, folder, asking, life, net, trusted, recovered, faults, ghosts>>
  BY AcquireMoves DEF Base, TypeOK
<1>4. \/ /\ t.seq > 0 /\ Becomes(h, "answer", t.seq, t.bits, t.through, r) /\ UNCHANGED <<owner, syncing>>
      \/ /\ Becomes(h, "loop", t.seq, t.bits, t.through, t.res) /\ owner' = h /\ syncing' = TRUE
  BY AcquireMoves DEF Base
<1> HIDE DEF r
<1>5. TypeOK'
  <2>1. threads' \in [Thread -> Task]
    BY <1>4 DEF Becomes
  <2>2. owner' \in Thread \cup {NoThread} /\ syncing' \in BOOLEAN
    BY <1>4 DEF Base, TypeOK
  <2> QED BY <1>1, <2>1, <2>2 DEF Base, TypeOK, coordinator, folder, asking, life, net, ghosts
<1>6. Ownership'
  BY <1>1, <1>4, PCNames, ThreadAssumption DEF Base, Ownership, Becomes, Thread
<1>7. Roles'
  <2>1. h \in Worker => t.seq = 0
    BY DEF Base, Roles
  <2>2. t.seq \in Nat
    BY <1>1, Fields
  <2> QED BY <1>1, <1>4, <2>1, <2>2, ThreadAssumption, PCNames DEF Base, Roles, Becomes, Thread
<1>8. Sequences' /\ BeforeStart'
  <2>1. /\ UNCHANGED <<completed, failures>> /\ requested' = requested /\ pending' = pending
        /\ (pending' # {} => requested > 0)
    BY <1>1 DEF coordinator, Base, Sequences
  <2>2. h # Boot => threads[Boot].pc # "start"
    BY <1>1 DEF Base, BeforeStart, At, Idle
  <2>3. "answer" \notin Held /\ "loop" \notin Held
    BY PCNames
  <2> QED BY <1>4, <2>1, <2>2, <2>3, Moved
<1> QED BY <1>5, <1>6, <1>7, <1>8 DEF Base

LEMMA TakeBase ==
  ASSUME Base, NEW h \in Thread, Take(h)
  PROVE  Base'
<1> DEFINE t == threads[h]
<1>1. /\ t.pc = "loop" /\ requested \in 0..MaxRequests /\ pending \subseteq Bit
      /\ completed \in 0..requested
      /\ waiting \subseteq Caller /\ riding \subseteq Caller /\ syncing \in BOOLEAN
      /\ UNCHANGED <<requested, completed, expired, failures, owner, folder, asking, life,
                     net, trusted, recovered, faults, verdict, stalled, dropped>>
  BY TakeMoves DEF Base, TypeOK
<1>4. \/ /\ Becomes(h, "unlock", t.seq, {}, 0, "ok") /\ syncing' = FALSE
         /\ UNCHANGED <<pending, waiting, riding>>
      \/ /\ pending # {} /\ Becomes(h, "gates", t.seq, pending, requested, t.res)
         /\ pending' = {} /\ riding' = waiting /\ waiting' = {} /\ UNCHANGED syncing
  BY TakeMoves DEF Base
<1>5. TypeOK'
  <2>1. threads' \in [Thread -> Task]
    BY <1>4 DEF Becomes
  <2>2. syncing' \in BOOLEAN /\ pending' \subseteq Bit /\ waiting' \subseteq Caller /\ riding' \subseteq Caller
    BY <1>1, <1>4
  <2> QED BY <1>1, <2>1, <2>2 DEF Base, TypeOK, folder, asking, life, net
<1>6. Ownership'
  BY <1>1, <1>4, PCNames DEF Base, Ownership, Becomes
<1>7. Roles'
  BY <1>1, <1>4, ThreadAssumption, PCNames DEF Base, Roles, Becomes, Thread
<1>8. Sequences' /\ BeforeStart'
  <2>1. UNCHANGED <<completed, failures>> /\ requested' = requested /\ (pending' # {} => requested > 0)
    BY <1>1, <1>4 DEF Base, Sequences
  <2>2. h # Boot => threads[Boot].pc # "start"
    BY <1>1 DEF Base, BeforeStart, At, Idle
  <2>3. "unlock" \notin Held /\ (pending # {} => requested \in 1..requested /\ completed <= requested)
    BY <1>1, PCNames, CycleBoundAssumption DEF Base, Sequences
  <2> QED BY <1>4, <2>1, <2>2, <2>3, Moved
<1> QED BY <1>5, <1>6, <1>7, <1>8 DEF Base

LEMMA GatesBase ==
  ASSUME Base, NEW h \in Thread, Gates(h)
  PROVE  Base'
<1> DEFINE t == threads[h]
<1>1. /\ t.pc = "gates" /\ t.bits \subseteq Bit /\ syncing \in BOOLEAN
      /\ pending \subseteq Bit /\ waiting \subseteq Caller /\ riding \subseteq Caller
      /\ UNCHANGED <<requested, completed, expired, failures, owner, folder, asking, life, net,
                     trusted, recovered, faults, verdict, stalled, dropped>>
  BY GatesMoves, Fields DEF Base, TypeOK
<1>3. /\ pending' \subseteq Bit /\ waiting' \subseteq Caller /\ riding' \subseteq Caller
  BY <1>1, GatesMoves DEF Base
<1>4. \/ Becomes(h, "unlock", t.seq, {}, 0, "ok") /\ syncing' = FALSE
      \/ Becomes(h, "refresh", t.seq, t.bits, t.through, t.res) /\ UNCHANGED syncing
  BY GatesMoves DEF Base
<1>5. TypeOK'
  <2>1. threads' \in [Thread -> Task]
    BY <1>4 DEF Becomes
  <2>2. syncing' \in BOOLEAN
    BY <1>1, <1>4
  <2> QED BY <1>1, <1>3, <2>1, <2>2 DEF Base, TypeOK, folder, asking, life, net
<1>6. Ownership'
  BY <1>1, <1>4, PCNames DEF Base, Ownership, Becomes
<1>7. Roles'
  BY <1>1, <1>4, ThreadAssumption, PCNames DEF Base, Roles, Becomes, Thread
<1>8. Sequences' /\ BeforeStart'
  <2>0. t.through \in 1..requested /\ completed <= t.through /\ requested \in 0..MaxRequests
    BY <1>1, PCNames DEF Base, Sequences, TypeOK
  <2>1. UNCHANGED <<completed, failures>> /\ requested' = requested /\ (pending' # {} => requested > 0)
    BY <1>1, <2>0, CycleBoundAssumption
  <2>2. h # Boot => threads[Boot].pc # "start"
    BY <1>1 DEF Base, BeforeStart, At, Idle
  <2>3. "unlock" \notin Held
    BY PCNames
  <2> QED BY <1>4, <2>0, <2>1, <2>2, <2>3, Moved
<1> QED BY <1>5, <1>6, <1>7, <1>8 DEF Base

LEMMA UnlockBase ==
  ASSUME Base, NEW h \in Thread, Unlock(h)
  PROVE  Base'
<1> DEFINE t == threads[h]
           p == IF h \in Caller THEN "answer" ELSE
                IF t.res = "recoverable" /\ pending # {} THEN "sleep" ELSE "clear"
<1>1. /\ t.pc = "unlock" /\ owner' = NoThread /\ Goto(h, p) /\ p \in PC
      /\ UNCHANGED <<coordinator, syncing, folder, asking, life, net, trusted, recovered, faults, ghosts>>
  BY PCNames DEF Unlock, At
<1>2. Becomes(h, p, t.seq, t.bits, t.through, t.res)
  BY <1>1, GotoMoves DEF Base
<1>3. p \in {"answer", "sleep", "clear"} /\ (p = "answer" <=> h \in Caller)
  OBVIOUS
<1> HIDE DEF p
<1>4. TypeOK'
  <2>1. threads' \in [Thread -> Task]
    BY <1>2 DEF Becomes
  <2> QED BY <1>1, <2>1 DEF Base, TypeOK, coordinator, folder, asking, life, net, ghosts
<1>5. Ownership'
  BY <1>1, <1>2, <1>3, PCNames, ThreadAssumption DEF Base, Ownership, Becomes, Thread
<1>6. Roles'
  BY <1>1, <1>2, <1>3, ThreadAssumption, PCNames DEF Base, Roles, Becomes, Thread
<1>7. Sequences' /\ BeforeStart'
  <2>1. UNCHANGED <<completed, failures>> /\ requested' = requested /\ (pending' # {} => requested > 0)
    BY <1>1 DEF coordinator, Base, Sequences
  <2>2. h # Boot => threads[Boot].pc # "start"
    BY <1>1 DEF Base, BeforeStart, At, Idle
  <2>3. p \notin Held /\ p # "start"
    BY <1>3, PCNames
  <2> QED BY <1>2, <2>1, <2>2, <2>3, Moved
<1> QED BY <1>4, <1>5, <1>6, <1>7 DEF Base

LEMMA AnswerBase ==
  ASSUME Base, NEW h \in Thread, Answer(h)
  PROVE  Base'
<1> DEFINE t == threads[h]
<1>1. /\ t.pc = "answer"
      /\ Rest(h) \/ (h = Boot /\ Goto(h, "arm"))
      /\ UNCHANGED <<coordinator, owner, syncing, folder, asking, shutdown, quiesced, net,
                     trusted, recovered, faults, verdict, dropped>>
  BY DEF Answer, At
<1>2. waiting' \subseteq Caller /\ riding' \subseteq Caller
  BY DEF Answer, Base, TypeOK
<1>3. started' \in BOOLEAN
  BY DEF Answer, Base, TypeOK
<1>4. stalled' \in BOOLEAN
  BY DEF Answer, Base, TypeOK
<1>5. \/ Becomes(h, "idle", 0, {}, 0, "ok")
      \/ h = Boot /\ Becomes(h, "arm", t.seq, t.bits, t.through, t.res)
  BY <1>1, RestMoves, GotoMoves, PCNames DEF Base
<1>6. TypeOK'
  <2>1. threads' \in [Thread -> Task]
    BY <1>5 DEF Becomes
  <2> QED BY <1>1, <1>2, <1>3, <1>4, <2>1 DEF Base, TypeOK, coordinator, folder, asking, net
<1>7. Ownership'
  BY <1>1, <1>5, PCNames DEF Base, Ownership, Becomes
<1>8. Roles'
  BY <1>1, <1>5, ThreadAssumption, PCNames DEF Base, Roles, Becomes, Thread
<1>9. Sequences' /\ BeforeStart'
  <2>1. UNCHANGED <<completed, failures>> /\ requested' = requested /\ (pending' # {} => requested > 0)
    BY <1>1 DEF coordinator, Base, Sequences
  <2>2. h # Boot => threads[Boot].pc # "start"
    BY <1>1 DEF Base, BeforeStart, At, Idle
  <2>3. "idle" \notin Held /\ "arm" \notin Held
    BY PCNames
  <2> QED BY <1>5, <2>1, <2>2, <2>3, Moved
<1> QED BY <1>6, <1>7, <1>8, <1>9 DEF Base

LEMMA ArmBase ==
  ASSUME Base, NEW h \in Thread, Arm(h)
  PROVE  Base'
<1> DEFINE t == threads[h]
<1>1. /\ t.pc = "arm" /\ Rest(h)
      /\ UNCHANGED <<coordinator, owner, syncing, folder, scheduled, life, net, trusted,
                     recovered, faults, ghosts>>
  BY DEF Arm, At
<1>2. ringing' \subseteq Source
  BY DEF Arm, Base, TypeOK, Source
<1>5. Becomes(h, "idle", 0, {}, 0, "ok")
  BY <1>1, RestMoves DEF Base
<1>6. TypeOK'
  <2>1. threads' \in [Thread -> Task]
    BY <1>5 DEF Becomes
  <2> QED BY <1>1, <1>2, <2>1 DEF Base, TypeOK, coordinator, folder, life, net, ghosts
<1>7. Ownership'
  BY <1>1, <1>5, PCNames DEF Base, Ownership, Becomes
<1>8. Roles'
  BY <1>1, <1>5, ThreadAssumption, PCNames DEF Base, Roles, Becomes, Thread
<1>9. Sequences' /\ BeforeStart'
  <2>1. UNCHANGED <<completed, failures>> /\ requested' = requested /\ (pending' # {} => requested > 0)
    BY <1>1 DEF coordinator, Base, Sequences
  <2>2. h # Boot => threads[Boot].pc # "start"
    BY <1>1 DEF Base, BeforeStart, At, Idle
  <2>3. "idle" \notin Held
    BY PCNames
  <2> QED BY <1>5, <2>1, <2>2, <2>3, Moved
<1> QED BY <1>6, <1>7, <1>8, <1>9 DEF Base

LEMMA WakeBase ==
  ASSUME Base, NEW w \in Thread, Wake(w)
  PROVE  Base'
<1> DEFINE t == threads[w]
<1>1. /\ t.pc = "sleep" /\ (AwaitOwner(w, 0) \/ Goto(w, "clear"))
      /\ UNCHANGED <<coordinator, owner, syncing, folder, asking, life, net, trusted, recovered, faults, ghosts>>
  BY DEF Wake, At
<1>2. scheduled' \in BOOLEAN
  BY DEF Wake, Base, TypeOK, asking
<1>3. w \in Worker /\ t.seq = 0 /\ 0 \in 0..MaxRequests
  BY <1>1, CycleBoundAssumption DEF Base, Roles, Thread
<1>4. Becomes(w, "lock", 0, {}, 0, "ok") \/ Becomes(w, "clear", t.seq, t.bits, t.through, t.res)
  BY <1>1, <1>3, RestMoves, GotoMoves, AwaitMoves, PCNames DEF Base
<1>5. TypeOK'
  <2>1. threads' \in [Thread -> Task]
    BY <1>4 DEF Becomes
  <2> QED BY <1>1, <1>2, <2>1 DEF Base, TypeOK, coordinator, folder, life, net, ghosts, asking
<1>6. Ownership'
  BY <1>1, <1>4, PCNames DEF Base, Ownership, Becomes
<1>7. Roles'
  BY <1>1, <1>3, <1>4, ThreadAssumption, PCNames DEF Base, Roles, Becomes, Thread
<1>8. Sequences' /\ BeforeStart'
  <2>1. UNCHANGED <<completed, failures>> /\ requested' = requested /\ (pending' # {} => requested > 0)
    BY <1>1 DEF coordinator, Base, Sequences
  <2>2. w # Boot => threads[Boot].pc # "start"
    BY <1>1 DEF Base, BeforeStart, At, Idle
  <2>3. "lock" \notin Held /\ "clear" \notin Held
    BY PCNames
  <2> QED BY <1>3, <1>4, <2>1, <2>2, <2>3, Moved
<1> QED BY <1>5, <1>6, <1>7, <1>8 DEF Base

LEMMA ClearBase ==
  ASSUME Base, NEW w \in Thread, Clear(w)
  PROVE  Base'
<1> DEFINE t == threads[w]
<1>1. /\ t.pc = "clear" /\ (Goto(w, "recheck"))
      /\ UNCHANGED <<coordinator, owner, syncing, folder, ringing, life, net, trusted, recovered, faults, ghosts>>
  BY DEF Clear, At
<1>2. scheduled' \in BOOLEAN
  BY DEF Clear, Base, TypeOK, asking
<1>3. w \in Worker /\ t.seq = 0 /\ 0 \in 0..MaxRequests
  BY <1>1, CycleBoundAssumption DEF Base, Roles, Thread
<1>4. Becomes(w, "recheck", t.seq, t.bits, t.through, t.res)
  BY <1>1, <1>3, RestMoves, GotoMoves, AwaitMoves, PCNames DEF Base
<1>5. TypeOK'
  <2>1. threads' \in [Thread -> Task]
    BY <1>4 DEF Becomes
  <2> QED BY <1>1, <1>2, <2>1 DEF Base, TypeOK, coordinator, folder, life, net, ghosts
<1>6. Ownership'
  BY <1>1, <1>4, PCNames DEF Base, Ownership, Becomes
<1>7. Roles'
  BY <1>1, <1>3, <1>4, ThreadAssumption, PCNames DEF Base, Roles, Becomes, Thread
<1>8. Sequences' /\ BeforeStart'
  <2>1. UNCHANGED <<completed, failures>> /\ requested' = requested /\ (pending' # {} => requested > 0)
    BY <1>1 DEF coordinator, Base, Sequences
  <2>2. w # Boot => threads[Boot].pc # "start"
    BY <1>1 DEF Base, BeforeStart, At, Idle
  <2>3. "recheck" \notin Held
    BY PCNames
  <2> QED BY <1>3, <1>4, <2>1, <2>2, <2>3, Moved
<1> QED BY <1>5, <1>6, <1>7, <1>8 DEF Base

LEMMA RecheckBase ==
  ASSUME Base, NEW w \in Thread, Recheck(w)
  PROVE  Base'
<1> DEFINE t == threads[w]
<1>1. /\ t.pc = "recheck" /\ (AwaitOwner(w, 0) \/ Rest(w))
      /\ UNCHANGED <<coordinator, owner, syncing, folder, ringing, life, net, trusted, recovered, faults, ghosts>>
  BY DEF Recheck, At
<1>2. scheduled' \in BOOLEAN
  BY DEF Recheck, Base, TypeOK, asking
<1>3. w \in Worker /\ t.seq = 0 /\ 0 \in 0..MaxRequests
  BY <1>1, CycleBoundAssumption DEF Base, Roles, Thread
<1>4. Becomes(w, "lock", 0, {}, 0, "ok") \/ Becomes(w, "idle", 0, {}, 0, "ok")
  BY <1>1, <1>3, RestMoves, GotoMoves, AwaitMoves, PCNames DEF Base
<1>5. TypeOK'
  <2>1. threads' \in [Thread -> Task]
    BY <1>4 DEF Becomes
  <2> QED BY <1>1, <1>2, <2>1 DEF Base, TypeOK, coordinator, folder, life, net, ghosts
<1>6. Ownership'
  BY <1>1, <1>4, PCNames DEF Base, Ownership, Becomes
<1>7. Roles'
  BY <1>1, <1>3, <1>4, ThreadAssumption, PCNames DEF Base, Roles, Becomes, Thread
<1>8. Sequences' /\ BeforeStart'
  <2>1. UNCHANGED <<completed, failures>> /\ requested' = requested /\ (pending' # {} => requested > 0)
    BY <1>1 DEF coordinator, Base, Sequences
  <2>2. w # Boot => threads[Boot].pc # "start"
    BY <1>1 DEF Base, BeforeStart, At, Idle
  <2>3. "lock" \notin Held /\ "idle" \notin Held
    BY PCNames
  <2> QED BY <1>3, <1>4, <2>1, <2>2, <2>3, Moved
<1> QED BY <1>5, <1>6, <1>7, <1>8 DEF Base

LEMMA CallBase ==
  ASSUME Base, NEW h \in Caller, NEW bits \in SUBSET Bit, Call(h, bits)
  PROVE  Base'
<1>1. /\ h \in Thread /\ (h = Boot \/ started) /\ threads[h].pc \in {"start", "idle"}
      /\ requested \in 0..MaxRequests /\ completed \in 0..requested
      /\ requested' = requested + 1 /\ requested' \in 1..MaxRequests /\ pending' = pending \cup bits
      /\ stalled' = FALSE /\ waiting' = waiting \cup {h}
      /\ AwaitOwner(h, requested')
      /\ UNCHANGED <<completed, expired, failures, owner, syncing, folder, asking, life,
                     net, trusted, recovered, faults, riding, dropped>>
  BY CycleBoundAssumption DEF Call, Request, At, Idle, Thread, Base, TypeOK
<1>2. Becomes(h, "lock", requested', {}, 0, "ok")
  BY <1>1, AwaitMoves, CycleBoundAssumption DEF Base
<1>3. TypeOK'
  <2>1. threads' \in [Thread -> Task] /\ waiting' \subseteq Caller /\ pending' \subseteq Bit
    BY <1>1, <1>2 DEF Becomes, Base, TypeOK
  <2>2. verdict' \in [Caller -> {"none", "ok", "failed"}]
    BY DEF Call, Base, TypeOK
  <2>3. completed' \in 0..requested' /\ requested' \in 0..MaxRequests
    BY <1>1, CycleBoundAssumption
  <2>4. stalled' \in BOOLEAN
    BY <1>1
  <2>5. UNCHANGED <<completed, expired, failures, owner, syncing, folder, asking, life,
                    net, trusted, recovered, faults, riding, dropped>>
    BY <1>1
  <2> QED BY <2>1, <2>2, <2>3, <2>4, <2>5 DEF Base, TypeOK, folder, asking, life, net
<1>4. Ownership'
  BY <1>1, <1>2, PCNames DEF Base, Ownership, Becomes
<1>5. Roles'
  BY <1>1, <1>2, ThreadAssumption, PCNames DEF Base, Roles, Becomes, Thread
<1>6. Sequences'
  <2>1. \A k \in Thread : threads'[k].seq <= requested'
    <3>1. \A k \in Thread : threads[k].seq \in 0..requested
      BY Fields DEF Base, TypeOK, Sequences
    <3> QED BY <1>1, <1>2, <3>1, CycleBoundAssumption DEF Becomes
  <2>2. ASSUME NEW k \in Thread, threads'[k].pc \in Held
        PROVE  threads'[k].through \in 1..requested' /\ completed <= threads'[k].through
    <3>1. threads'[k] = threads[k]
      BY <1>2, <2>2, PCNames DEF Becomes
    <3>2. threads[k].through \in 1..requested /\ completed <= threads[k].through
      BY <2>2, <3>1 DEF Base, Sequences
    <3> QED BY <1>1, <3>1, <3>2, CycleBoundAssumption
  <2> QED BY <1>1, <2>1, <2>2, CycleBoundAssumption DEF Base, Sequences
<1>7. BeforeStart'
  <2>1. threads'[Boot].pc # "start"
    BY <1>1, <1>2, ThreadAssumption DEF Becomes, Base, BeforeStart, At, Thread
  <2> QED BY <2>1 DEF BeforeStart, At
<1> QED BY <1>3, <1>4, <1>5, <1>6, <1>7 DEF Base

(* A request from the background changes the coordinator and rings. *)
LEMMA BackgroundBase ==
  ASSUME Base, NEW s \in Source, NEW bits \in SUBSET Bit, RequestBackground(s, bits),
         UNCHANGED <<owner, threads, syncing, folderSyncs, life, trusted, recovered, faults>>,
         folderSyncing' \in BOOLEAN, online' \in BOOLEAN, edge' \in BOOLEAN,
         threads[Boot].pc # "start"
  PROVE  Base'
<1>1. /\ requested \in 0..MaxRequests /\ completed \in 0..requested
      /\ requested' = requested + 1 /\ requested' \in 1..MaxRequests /\ pending' = pending \cup bits
      /\ stalled' = FALSE /\ ringing' = ringing \cup {s}
      /\ UNCHANGED <<completed, expired, failures, scheduled, waiting, riding, verdict, dropped>>
  BY CycleBoundAssumption DEF RequestBackground, Request, Base, TypeOK
<1>2. TypeOK'
  <2>1. completed' \in 0..requested' /\ requested' \in 0..MaxRequests /\ pending' \subseteq Bit
        /\ ringing' \subseteq Source
    BY <1>1, CycleBoundAssumption DEF Base, TypeOK
  <2> QED BY <1>1, <2>1 DEF Base, TypeOK, life
<1>3. Ownership' /\ Roles'
  BY DEF Base, Ownership, Roles
<1>4. Sequences'
  <2>1. \A k \in Thread : threads[k].seq \in 0..requested
    BY Fields DEF Base, TypeOK, Sequences
  <2>2. \A k \in Thread : threads[k].pc \in Held =>
          threads[k].through \in 1..requested /\ completed <= threads[k].through
    BY DEF Base, Sequences
  <2> QED BY <1>1, <2>1, <2>2, CycleBoundAssumption DEF Base, Sequences
<1>5. BeforeStart'
  BY DEF BeforeStart, At
<1> QED BY <1>2, <1>3, <1>4, <1>5 DEF Base

LEMMA SourceBase ==
  ASSUME Base, LocalChange \/ NetworkEdge \/ EndFolderSync
  PROVE  Base'
<1>0. Watcher \in SUBSET Bit /\ NetworkRecovery \in SUBSET Bit /\ {"watcher", "network", "folder"} \subseteq Source
  BY BitSets DEF Source
<1>1. started => threads[Boot].pc # "start"
  BY DEF Base, BeforeStart, At
<1>2. CASE LocalChange
  <2>1. started /\ RequestBackground("watcher", Watcher)
        /\ UNCHANGED <<owner, threads, syncing, folder, life, net, trusted, recovered, faults>>
    BY <1>2 DEF LocalChange
  <2>2. UNCHANGED <<folderSyncs, folderSyncing, online, edge>>
    BY <2>1 DEF folder, net
  <2>3. folderSyncing' \in BOOLEAN /\ online' \in BOOLEAN /\ edge' \in BOOLEAN
    BY <2>2 DEF Base, TypeOK
  <2> QED BY <1>0, <1>1, <2>1, <2>2, <2>3, BackgroundBase
<1>3. CASE NetworkEdge
  <2>1. /\ started /\ edge' = FALSE
        /\ IF online THEN RequestBackground("network", NetworkRecovery)
                     ELSE UNCHANGED <<coordinator, asking, ghosts>>
        /\ UNCHANGED <<owner, threads, syncing, folder, life, online, trusted, recovered, faults>>
    BY <1>3 DEF NetworkEdge
  <2>2. UNCHANGED <<folderSyncs, folderSyncing>>
    BY <2>1 DEF folder
  <2>3. folderSyncing' \in BOOLEAN /\ online' \in BOOLEAN /\ edge' \in BOOLEAN
    BY <2>1, <2>2 DEF Base, TypeOK
  <2>4. CASE online
    BY <1>0, <1>1, <2>1, <2>2, <2>3, <2>4, BackgroundBase
  <2>5. CASE ~online
    <3>1. UNCHANGED <<coordinator, asking, ghosts>>
      BY <2>1, <2>5
    <3>2. TypeOK'
      BY <2>1, <2>2, <2>3, <3>1 DEF Base, TypeOK, coordinator, asking, ghosts, life
    <3>3. Ownership' /\ Roles'
      BY <2>1 DEF Base, Ownership, Roles
    <3>4. Sequences'
      BY <2>1, <3>1 DEF Base, Sequences, coordinator
    <3>5. BeforeStart'
      BY <1>1, <2>1 DEF BeforeStart, At
    <3> QED BY <3>2, <3>3, <3>4, <3>5 DEF Base
  <2> QED BY <2>4, <2>5
<1>4. CASE EndFolderSync
  <2>1. /\ folderSyncing' = FALSE
        /\ IF pending = {} /\ owner = NoThread
           THEN UNCHANGED <<coordinator, asking, ghosts>>
           ELSE RequestBackground("folder", Watcher)
        /\ UNCHANGED <<owner, threads, syncing, folderSyncs, life, net, trusted, recovered, faults>>
    BY <1>4 DEF EndFolderSync
  <2>3. folderSyncing' \in BOOLEAN /\ online' \in BOOLEAN /\ edge' \in BOOLEAN
    BY <2>1 DEF Base, TypeOK, net
  <2>4. CASE ~(pending = {} /\ owner = NoThread)
    <3>1. threads[Boot].pc # "start"
      <4>1. ASSUME threads[Boot].pc = "start" PROVE FALSE
        <5>1. pending = {} /\ \A k \in Thread : threads[k].pc \in {"start", "idle"}
          BY <4>1 DEF Base, BeforeStart, At, Idle
        <5>2. owner \in Thread
          BY <2>4, <5>1 DEF Base, TypeOK
        <5> QED BY <5>1, <5>2, PCNames DEF Base, Ownership
      <4> QED BY <4>1
    <3>2. RequestBackground("folder", Watcher)
      BY <2>1, <2>4
    <3> QED BY <1>0, <2>1, <2>3, <3>1, <3>2, BackgroundBase
  <2>5. CASE pending = {} /\ owner = NoThread
    <3>1. UNCHANGED <<coordinator, asking, ghosts>>
      BY <2>1, <2>5
    <3>2. TypeOK'
      BY <2>1, <2>3, <3>1 DEF Base, TypeOK, coordinator, asking, ghosts, life
    <3>3. Ownership' /\ Roles'
      BY <2>1 DEF Base, Ownership, Roles
    <3>4. Sequences'
      BY <2>1, <3>1 DEF Base, Sequences, coordinator
    <3>5. BeforeStart'
      BY <2>1, <3>1 DEF Base, BeforeStart, At, Idle, coordinator, asking, life
    <3> QED BY <3>2, <3>3, <3>4, <3>5 DEF Base
  <2> QED BY <2>4, <2>5
<1> QED BY <1>2, <1>3, <1>4

LEMMA RingBase ==
  ASSUME Base, NEW s \in Source, Ring(s)
  PROVE  Base'
<1>1. /\ s \in ringing /\ ringing' = ringing \ {s}
      /\ UNCHANGED <<coordinator, owner, syncing, folder, life, net, trusted, recovered, faults, ghosts>>
  BY DEF Ring
<1>2. scheduled' \in BOOLEAN /\ ringing' \subseteq Source
  BY <1>1 DEF Ring, Base, TypeOK
<1>3. threads[Boot].pc # "start"
  BY <1>1 DEF Base, BeforeStart, At
<1>4. CASE scheduled
  <2>1. UNCHANGED <<scheduled, threads>>
    BY <1>4 DEF Ring
  <2>2. TypeOK'
    BY <1>1, <1>2, <2>1 DEF Base, TypeOK, coordinator, folder, life, net, ghosts
  <2>3. Ownership' /\ Roles'
    BY <1>1, <2>1 DEF Base, Ownership, Roles
  <2>4. Sequences'
    BY <1>1, <2>1 DEF Base, Sequences, coordinator
  <2>5. BeforeStart'
    BY <1>3, <2>1 DEF BeforeStart, At
  <2> QED BY <2>2, <2>3, <2>4, <2>5 DEF Base
<1>5. CASE ~scheduled
  <2>1. PICK w \in Worker : Idle(w) /\ AwaitOwner(w, 0)
    BY <1>5 DEF Ring
  <2>2. w \in Thread /\ threads[w].pc = "idle" /\ 0 \in 0..MaxRequests
    BY <2>1, CycleBoundAssumption DEF Thread, Idle, At
  <2>3. Becomes(w, "lock", 0, {}, 0, "ok")
    BY <2>1, <2>2, AwaitMoves DEF Base
  <2>4. TypeOK'
    <3>1. threads' \in [Thread -> Task]
      BY <2>3 DEF Becomes
    <3> QED BY <1>1, <1>2, <3>1 DEF Base, TypeOK, coordinator, folder, life, net, ghosts
  <2>5. Ownership'
    BY <1>1, <2>2, <2>3, PCNames DEF Base, Ownership, Becomes
  <2>6. Roles'
    BY <2>1, <2>2, <2>3, ThreadAssumption, PCNames DEF Base, Roles, Becomes, Thread
  <2>7. Sequences' /\ BeforeStart'
    <3>1. UNCHANGED <<completed, failures>> /\ requested' = requested /\ (pending' # {} => requested > 0)
      BY <1>1 DEF coordinator, Base, Sequences
    <3>2. "lock" \notin Held
      BY PCNames
    <3> QED BY <1>3, <2>2, <2>3, <3>1, <3>2, Moved
  <2> QED BY <2>4, <2>5, <2>6, <2>7 DEF Base
<1> QED BY <1>4, <1>5

LEMMA WorldBase ==
  ASSUME Base, BeginFolderSync \/ NetworkDown \/ NetworkUp \/ Shutdown \/ Quiesce
  PROVE  Base'
<1>1. UNCHANGED <<coordinator, owner, threads, syncing, asking, started, trusted, recovered, ghosts>>
  BY DEF BeginFolderSync, NetworkDown, NetworkUp, Shutdown, Quiesce, net, life
<1>2. folderSyncing' \in BOOLEAN
  BY DEF BeginFolderSync, NetworkDown, NetworkUp, Shutdown, Quiesce, folder, Base, TypeOK
<1>10. folderSyncs' \in 0..MaxFolderSyncs
  BY CycleBoundAssumption DEF BeginFolderSync, NetworkDown, NetworkUp, Shutdown, Quiesce, folder, Base, TypeOK
<1>3. /\ shutdown' \in BOOLEAN /\ quiesced' \in BOOLEAN
  BY DEF BeginFolderSync, NetworkDown, NetworkUp, Shutdown, Quiesce, life, Base, TypeOK
<1>4. /\ online' \in BOOLEAN /\ edge' \in BOOLEAN
  BY DEF BeginFolderSync, NetworkDown, NetworkUp, Shutdown, Quiesce, net, Base, TypeOK
<1>5. faults' \in 0..MaxFaults
  BY CycleBoundAssumption DEF BeginFolderSync, NetworkDown, NetworkUp, Shutdown, Quiesce, Fault, Base, TypeOK
<1>6. TypeOK'
  BY <1>1, <1>2, <1>3, <1>4, <1>5, <1>10 DEF Base, TypeOK, coordinator, asking, ghosts
<1>7. Ownership' /\ Roles'
  BY <1>1 DEF Base, Ownership, Roles
<1>8. Sequences'
  BY <1>1 DEF Base, Sequences, coordinator
<1>9. BeforeStart'
  BY <1>1 DEF Base, BeforeStart, At, Idle, coordinator, asking
<1> QED BY <1>6, <1>7, <1>8, <1>9 DEF Base

LEMMA InitBase == Init => Base
<1> SUFFICES ASSUME Init PROVE Base
  OBVIOUS
<1>1. [IdleTask EXCEPT !.pc = "start"] \in Task /\ [IdleTask EXCEPT !.pc = "start"].pc = "start"
      /\ [IdleTask EXCEPT !.pc = "start"].seq = 0
  BY Blank, PCNames DEF Task
<1>2. Boot \in Thread /\ Boot \in Caller /\ NoThread \notin Thread
  BY ThreadAssumption DEF Thread
<1>3. /\ threads \in [Thread -> Task] /\ threads[Boot].pc = "start"
      /\ \A h \in Thread : threads[h].seq = 0 /\ (h # Boot => threads[h].pc = "idle")
  BY <1>1, <1>2, Blank DEF Init
<1>4. TypeOK
  <2>1. failures \in Seq(Failure) /\ Len(failures) <= FailureHistory
    BY CycleBoundAssumption DEF Init
  <2>2. 0 \in 0..MaxRequests /\ 0 \in 0..MaxFaults /\ 0 \in 0..MaxFolderSyncs /\ 0 \in 0..0
    BY CycleBoundAssumption
  <2> QED BY <1>3, <2>1, <2>2 DEF Init, TypeOK
<1>5. Ownership
  BY <1>2, <1>3, PCNames DEF Init, Ownership
<1>6. Roles
  BY <1>2, <1>3, ThreadAssumption DEF Roles, Thread
<1>7. Sequences
  BY <1>2, <1>3, PCNames DEF Init, Sequences
<1>8. BeforeStart
  BY <1>3 DEF Init, BeforeStart, Idle, At
<1> QED BY <1>4, <1>5, <1>6, <1>7, <1>8 DEF Base

LEMMA BitsAsked ==
    /\ Startup \in SUBSET Bit /\ Boot \in Caller
    /\ \A bits \in {Manual, AutoRefresh} : bits \in SUBSET Bit
BY BitSets, ThreadAssumption

LEMMA NextBase == Base /\ [Next]_vars => Base'
<1> SUFFICES ASSUME Base, [Next]_vars PROVE Base'
  OBVIOUS
<1>1. ASSUME NEW h \in Thread, Step(h) PROVE Base'
  BY <1>1, AcquireBase, TakeBase, GatesBase, UnlockBase, CycleStepBase, AnswerBase, ArmBase,
     WakeBase, ClearBase, RecheckBase DEF Step, CycleStep
<1>2. ASSUME NEW h \in Caller, NEW bits \in SUBSET Bit, Call(h, bits) PROVE Base'
  BY <1>2, CallBase
<1>3. CASE UNCHANGED vars
  <2>1. UNCHANGED <<coordinator, owner, threads, syncing, folder, asking, life, net,
                    trusted, recovered, faults, ghosts>>
    BY <1>3 DEF vars
  <2>2. TypeOK'
    BY <2>1 DEF Base, TypeOK, coordinator, folder, asking, life, net, ghosts
  <2>3. Ownership' /\ Roles'
    BY <2>1 DEF Base, Ownership, Roles
  <2>4. Sequences'
    BY <2>1 DEF Base, Sequences, coordinator
  <2>5. BeforeStart'
    BY <2>1 DEF Base, BeforeStart, At, Idle, coordinator, asking, life
  <2> QED BY <2>2, <2>3, <2>4, <2>5 DEF Base
<1>4. CASE \E s \in Source : Ring(s)
  BY <1>4, RingBase
<1> QED BY <1>1, <1>2, <1>3, <1>4, BitsAsked, SourceBase, WorldBase DEF Next

(* Type correctness, and the ownership of the drain, for any callers,       *)
(* workers and bounds.                                                      *)
THEOREM TypeCorrect == Spec => []TypeOK
<1>1. Spec => []Base
  BY InitBase, NextBase, PTL DEF Spec
<1>2. Base => TypeOK
  BY DEF Base
<1> QED BY <1>1, <1>2, PTL
-----------------------------------------------------------------------------
(* A cycle excludes a folder sync and a quiet engine. *)
LEMMA SourceMoves ==
  ASSUME TypeOK, LocalChange \/ NetworkEdge \/ EndFolderSync
  PROVE  /\ UNCHANGED <<owner, threads, syncing, completed, expired, failures, scheduled, life,
                        trusted, recovered, faults, waiting, riding, verdict, dropped, online>>
         /\ folderSyncing' => folderSyncing
         /\ \/ /\ UNCHANGED <<pending, requested, ringing, stalled>>
               /\ (~online /\ UNCHANGED folderSyncing) \/ (pending = {} /\ UNCHANGED edge)
            \/ /\ requested' = requested + 1 /\ requested < MaxRequests
               /\ pending \subseteq pending' /\ stalled' = FALSE
               /\ "STARTUP" \in pending' => "STARTUP" \in pending
               /\ \E s \in Source : ringing' = ringing \cup {s}
<1>0. {"watcher", "network", "folder"} \subseteq Source
  BY DEF Source
<1>1. ASSUME NEW s \in Source, NEW bits \in {Watcher, NetworkRecovery}, RequestBackground(s, bits)
      PROVE  /\ UNCHANGED <<completed, expired, failures, scheduled, waiting, riding, verdict, dropped>>
             /\ requested' = requested + 1 /\ requested < MaxRequests
             /\ pending \subseteq pending' /\ stalled' = FALSE
             /\ "STARTUP" \in pending' => "STARTUP" \in pending
             /\ \E r \in Source : ringing' = ringing \cup {r}
  BY <1>1 DEF RequestBackground, Request, Watcher, NetworkRecovery
<1>2. CASE LocalChange
  <2>1. /\ RequestBackground("watcher", Watcher)
        /\ UNCHANGED <<owner, threads, syncing, folder, life, net, trusted, recovered, faults>>
    BY <1>2 DEF LocalChange
  <2> QED BY <1>0, <1>1, <2>1 DEF folder, net
<1>3. CASE NetworkEdge
  <2>1. /\ UNCHANGED <<owner, threads, syncing, folder, life, online, trusted, recovered, faults>>
        /\ \/ online /\ RequestBackground("network", NetworkRecovery)
           \/ ~online /\ UNCHANGED <<coordinator, asking, ghosts>>
    BY <1>3 DEF NetworkEdge
  <2> QED BY <1>0, <1>1, <2>1 DEF folder, coordinator, asking, ghosts
<1>4. CASE EndFolderSync
  <2>1. /\ folderSyncing' = FALSE
        /\ UNCHANGED <<owner, threads, syncing, folderSyncs, life, net, trusted, recovered, faults>>
        /\ \/ pending = {} /\ UNCHANGED <<coordinator, asking, ghosts>>
           \/ RequestBackground("folder", Watcher)
    BY <1>4 DEF EndFolderSync
  <2> QED BY <1>0, <1>1, <2>1 DEF net, coordinator, asking, ghosts
<1> QED BY <1>2, <1>3, <1>4

LEMMA WorldMoves ==
  ASSUME BeginFolderSync \/ NetworkDown \/ NetworkUp \/ Shutdown \/ Quiesce
  PROVE  /\ UNCHANGED <<coordinator, owner, threads, syncing, asking, started, trusted,
                        recovered, ghosts>>
         /\ \/ ~syncing /\ folderSyncing' = TRUE /\ UNCHANGED <<shutdown, quiesced, net>>
            \/ online' = FALSE /\ UNCHANGED <<folderSyncing, shutdown, quiesced, edge>>
            \/ online' = TRUE /\ edge' = TRUE /\ UNCHANGED <<folderSyncing, shutdown, quiesced>>
            \/ shutdown' = TRUE /\ UNCHANGED <<folderSyncing, quiesced, net>>
            \/ shutdown /\ owner = NoThread /\ quiesced' = TRUE /\ UNCHANGED <<folderSyncing, shutdown, net>>
BY DEF BeginFolderSync, NetworkDown, NetworkUp, Shutdown, Quiesce, FolderMayBegin, life, folder

(* What a step of a thread can do to the others, and where it may enter a   *)
(* cycle.                                                                   *)
LEMMA StepFrame ==
  ASSUME Base, NEW h \in Thread, Step(h)
  PROVE  /\ \A k \in Thread \ {h} : threads'[k] = threads[k]
         /\ UNCHANGED <<folder, net, shutdown, quiesced>>
         /\ threads'[h].pc \in CyclePC => \/ threads[h].pc \in CyclePC
                                          \/ ~shutdown /\ ~folderSyncing
         /\ threads[h].pc \notin {"start", "idle"}
<1>0. TypeOK /\ Sequences
  BY DEF Base
<1>1. CASE Acquire(h)
  BY <1>0, <1>1, AcquireMoves, PCNames DEF Becomes, life
<1>2. CASE Take(h)
  BY <1>0, <1>2, TakeMoves, PCNames DEF Becomes, life
<1>3. CASE Gates(h)
  BY <1>0, <1>3, GatesMoves, PCNames DEF Becomes, life
<1>4. CASE Unlock(h)
  BY <1>0, <1>4, UnlockMoves, PCNames DEF Becomes, life
<1>5. CASE CycleStep(h)
  <2>1. threads[h].pc \in CyclePC /\ UNCHANGED <<folder, net, life>>
    BY <1>0, <1>5, CycleSteps
  <2> QED BY <1>0, <1>5, <2>1, CycleEffect, PCNames DEF life
<1>6. CASE Answer(h)
  BY <1>0, <1>6, AnswerMoves, PCNames DEF Becomes
<1>7. CASE Arm(h)
  BY <1>0, <1>7, ArmMoves, PCNames DEF Becomes, life
<1>8. CASE Wake(h)
  BY <1>0, <1>8, WakeMoves, PCNames DEF Becomes, life
<1>9. CASE Clear(h)
  BY <1>0, <1>9, ClearMoves, PCNames DEF Becomes, life
<1>10. CASE Recheck(h)
  BY <1>0, <1>10, RecheckMoves, PCNames DEF Becomes, life
<1> QED BY <1>1, <1>2, <1>3, <1>4, <1>5, <1>6, <1>7, <1>8, <1>9, <1>10 DEF Step, CycleStep

(* shutdown() is in force before it counts as quiet. *)
Quiet == quiesced => shutdown /\ \A h \in Thread : ~InCycle(h)

LEMMA ExclusionStep == Base /\ FolderExclusion /\ Quiet /\ [Next]_vars => (FolderExclusion /\ Quiet)'
<1> SUFFICES ASSUME Base, FolderExclusion, Quiet, [Next]_vars
             PROVE  (FolderExclusion /\ Quiet)'
  OBVIOUS
<1>0. TypeOK
  BY DEF Base
<1>1. ASSUME NEW h \in Thread, Step(h) PROVE (FolderExclusion /\ Quiet)'
  <2>1. UNCHANGED <<folderSyncing, shutdown, quiesced>>
    BY <1>1, StepFrame DEF folder
  <2>2. \A k \in Thread : InCycle(k)' => InCycle(k) \/ (~shutdown /\ ~folderSyncing)
    BY <1>1, StepFrame DEF InCycle
  <2> QED BY <2>1, <2>2 DEF FolderExclusion, Quiet
<1>2. ASSUME NEW h \in Caller, NEW bits, Call(h, bits) PROVE (FolderExclusion /\ Quiet)'
  BY <1>0, <1>2, CallMoves, PCNames DEF FolderExclusion, Quiet, InCycle, Becomes, folder, life
<1>3. CASE \E s \in Source : Ring(s)
  <2>1. PICK s \in Source : Ring(s)
    BY <1>3
  <2>2. UNCHANGED <<folderSyncing, shutdown, quiesced>>
    BY <1>0, <2>1, RingMoves DEF folder, life
  <2>3. \A k \in Thread : InCycle(k)' => InCycle(k)
    BY <1>0, <2>1, RingMoves, PCNames DEF InCycle, Becomes, Thread
  <2> QED BY <2>2, <2>3 DEF FolderExclusion, Quiet
<1>4. CASE LocalChange \/ NetworkEdge \/ EndFolderSync
  <2>1. UNCHANGED <<threads, shutdown, quiesced>> /\ (folderSyncing' => folderSyncing)
    BY <1>0, <1>4, SourceMoves DEF life
  <2>2. \A k \in Thread : InCycle(k)' <=> InCycle(k)
    BY <2>1 DEF InCycle
  <2> QED BY <2>1, <2>2 DEF FolderExclusion, Quiet
<1>5. CASE BeginFolderSync \/ NetworkDown \/ NetworkUp \/ Shutdown \/ Quiesce
  <2>1. ~syncing \/ owner = NoThread => \A k \in Thread : ~InCycle(k)
    BY PCNames, ThreadAssumption DEF Base, Ownership, InCycle, Thread
  <2>2. \A k \in Thread : InCycle(k)' <=> InCycle(k)
    BY <1>5, WorldMoves DEF InCycle
  <2>3. folderSyncing' => folderSyncing \/ ~syncing
    BY <1>5, WorldMoves
  <2>4. shutdown => shutdown'
    BY <1>5, WorldMoves
  <2>5. quiesced' => quiesced \/ owner = NoThread
    BY <1>5, WorldMoves
  <2>6. quiesced' => quiesced \/ shutdown
    BY <1>5, WorldMoves
  <2> QED BY <2>1, <2>2, <2>3, <2>4, <2>5, <2>6 DEF FolderExclusion, Quiet
<1>6. CASE UNCHANGED vars
  BY <1>6 DEF vars, FolderExclusion, Quiet, InCycle, folder, life
<1> QED BY <1>1, <1>2, <1>3, <1>4, <1>5, <1>6, ThreadAssumption DEF Next

LEMMA BaseAlways == Spec => []Base
BY InitBase, NextBase, PTL DEF Spec

(* A folder sync and a cycle never write the same tree at once: each is     *)
(* kept out by a flag it reads under a lock of its own (try_begin_folder_   *)
(* sync, run_coordinated_cycle).  Nor does a cycle run once shutdown() has  *)
(* had the owner lock.  For any number of callers and workers.              *)
THEOREM Exclusion == Spec => []FolderExclusion
<1>1. Init => FolderExclusion /\ Quiet
  BY DEF Init, FolderExclusion, Quiet
<1>2. Spec => [](FolderExclusion /\ Quiet)
  BY <1>1, ExclusionStep, BaseAlways, PTL DEF Spec
<1> QED BY <1>2, PTL

(* Once shutdown() holds the owner lock, no cycle runs again.               *)
THEOREM QuietForever == Spec => []QuietAfterShutdown
<1>1. Init => FolderExclusion /\ Quiet
  BY DEF Init, FolderExclusion, Quiet
<1>2. Spec => [](FolderExclusion /\ Quiet)
  BY <1>1, ExclusionStep, BaseAlways, PTL DEF Spec
<1>3. Quiet => QuietAfterShutdown
  BY DEF Quiet, QuietAfterShutdown
<1> QED BY <1>2, <1>3, PTL

(* The three ways a step of a cycle can go: on to the next step, well       *)
(* ended, or failed.                                                        *)
GoesOn(h) ==
    LET t == threads[h] IN
    /\ ~shutdown
    /\ UNCHANGED <<completed, expired, failures, verdict, riding, syncing, waiting, dropped>>
    /\ \/ /\ t.pc = "refresh" /\ Becomes(h, "recover", t.seq, t.bits, t.through, t.res)
          /\ UNCHANGED <<pending, requested, stalled, recovered>>
          /\ trusted' = TRUE
       \/ /\ t.pc = "recover" /\ Becomes(h, "resume", t.seq, t.bits, t.through, t.res)
          /\ UNCHANGED <<pending, requested, stalled, trusted>>
          /\ recovered' = (recovered \/ "STARTUP" \in t.bits)
       \/ /\ t.pc = "resume" /\ Becomes(h, "plan", t.seq, t.bits, t.through, t.res)
          /\ UNCHANGED <<pending, requested, stalled>> \/ Request(AutoRefresh)
          /\ UNCHANGED <<trusted, recovered>>

EndsWell(h) ==
    LET t == threads[h] IN
    /\ ~shutdown
    /\ Complete(h, TRUE) /\ Becomes(h, "loop", t.seq, {}, 0, "ok")
    /\ UNCHANGED <<syncing, trusted, recovered, dropped>>
    /\ \/ /\ t.pc \in {"refresh", "resume"} /\ UNCHANGED <<requested, stalled>>
          /\ pending' = pending \cup t.bits /\ waiting' = waiting \cup riding
       \/ /\ t.pc = "plan" /\ UNCHANGED waiting
          /\ UNCHANGED <<pending, requested, stalled>> \/ Request(Watcher)

BreaksOff(h, r) ==
    LET t == threads[h] IN
    /\ Complete(h, FALSE) /\ Becomes(h, "unlock", t.seq, {}, 0, r)
    /\ syncing' = FALSE /\ stalled' = Strands(h, r, requested')
    /\ \/ /\ UNCHANGED <<pending, requested, waiting, trusted, recovered>>
          /\ \/ dropped' = TRUE
             \/ shutdown /\ UNCHANGED dropped
             \/ t.pc = "plan" /\ UNCHANGED dropped
       \/ /\ UNCHANGED <<requested, recovered, dropped>>
          /\ pending' = pending \cup t.bits /\ waiting' = waiting \cup riding
          /\ \/ t.pc = "refresh" /\ trusted' = FALSE /\ {"INC", "FULL"} \cap t.bits # {}
             \/ t.pc = "recover" /\ UNCHANGED trusted
       \/ /\ requested < MaxRequests /\ requested' = requested + 1
          /\ pending' = pending \cup Rebuild
          /\ trusted' = FALSE /\ UNCHANGED <<waiting, dropped>>
          /\ \/ t.pc = "recover" /\ recovered' = TRUE
             \/ t.pc \in {"resume", "plan"} /\ UNCHANGED recovered

LEMMA AbortsDetail ==
  ASSUME TypeOK, NEW h \in Thread, Aborts(h)
  PROVE  BreaksOff(h, "fatal")
<1>1. /\ shutdown /\ UNCHANGED <<pending, requested, waiting, trusted, recovered, dropped>>
      /\ Complete(h, FALSE) /\ Leave(h, "fatal") /\ stalled' = Strands(h, "fatal", requested')
  BY DEF Aborts, KeepBits, CycleFails
<1>2. Becomes(h, "unlock", threads[h].seq, {}, 0, "fatal") /\ syncing' = FALSE
  BY <1>1, LeaveMoves, PCNames DEF Leave
<1> QED BY <1>1, <1>2 DEF BreaksOff

LEMMA Failing ==
  ASSUME TypeOK, NEW h \in Thread, NEW r \in Result, CycleFails(h, r)
  PROVE  /\ Complete(h, FALSE) /\ Becomes(h, "unlock", threads[h].seq, {}, 0, r)
         /\ syncing' = FALSE /\ stalled' = Strands(h, r, requested')
<1>1. Complete(h, FALSE) /\ Leave(h, r) /\ stalled' = Strands(h, r, requested')
  BY DEF CycleFails
<1> QED BY <1>1, LeaveMoves DEF Leave

LEMMA StoreDetail ==
  ASSUME TypeOK, NEW h \in Thread, StoreFails(h)
  PROVE  BreaksOff(h, "fatal")
<1>1. /\ dropped' = TRUE /\ UNCHANGED <<pending, requested, waiting, trusted, recovered>>
      /\ CycleFails(h, "fatal")
  BY DEF StoreFails, KeepBits
<1> QED BY <1>1, Failing, PCNames DEF BreaksOff

LEMMA CheckpointDetail ==
  ASSUME TypeOK, NEW h \in Thread, CheckpointFails(h), UNCHANGED dropped,
         \/ threads[h].pc = "recover" /\ recovered' = TRUE
         \/ threads[h].pc \in {"resume", "plan"} /\ UNCHANGED recovered
  PROVE  BreaksOff(h, "fatal")
<1>1. /\ requested < MaxRequests /\ requested' = requested + 1
      /\ pending' = pending \cup Rebuild
      /\ trusted' = FALSE /\ UNCHANGED waiting
      /\ CycleFails(h, "fatal")
  BY DEF CheckpointFails
<1> QED BY <1>1, Failing, PCNames DEF BreaksOff

LEMMA PostponedDetail ==
  ASSUME TypeOK, NEW h \in Thread, Postponed(h), ~shutdown,
         threads[h].pc \in {"refresh", "resume"}, UNCHANGED <<trusted, recovered, dropped>>
  PROVE  EndsWell(h)
<1>1. /\ CycleOk(h) /\ pending' = pending \cup threads[h].bits /\ waiting' = waiting \cup riding
      /\ UNCHANGED <<requested, stalled>>
  BY DEF Postponed, Restore, Returned, Bits
<1>2. Complete(h, TRUE) /\ UNCHANGED syncing /\ Becomes(h, "loop", threads[h].seq, {}, 0, "ok")
  BY <1>1, CycleOkMoves DEF CycleOk
<1> QED BY <1>1, <1>2 DEF EndsWell

LEMMA RestoringDetail ==
  ASSUME TypeOK, NEW h \in Thread, NEW r \in Result, FailsAndRestores(h, r),
         UNCHANGED <<recovered, dropped>>,
         \/ threads[h].pc = "refresh" /\ trusted' = FALSE /\ Refreshes(h)
         \/ threads[h].pc = "recover" /\ UNCHANGED trusted
  PROVE  BreaksOff(h, r)
<1>1. /\ pending' = pending \cup threads[h].bits /\ waiting' = waiting \cup riding
      /\ UNCHANGED requested /\ CycleFails(h, r)
  BY DEF FailsAndRestores, Returned, Bits
<1> QED BY <1>1, Failing DEF BreaksOff, Refreshes, Bits

LEMMA RefreshDetail ==
  ASSUME TypeOK, NEW h \in Thread, Refresh(h)
  PROVE  GoesOn(h) \/ EndsWell(h) \/ \E r \in {"recoverable", "fatal"} : BreaksOff(h, r)
<1>0. threads[h].pc = "refresh" /\ ~shutdown /\ trusted \in BOOLEAN
  BY DEF Refresh, At, TypeOK
<1>1. \/ /\ trusted' = TRUE /\ Goto(h, "recover") /\ Keep
         /\ UNCHANGED <<completed, expired, failures, verdict, riding, syncing, recovered, dropped>>
      \/ /\ Refreshes(h) /\ trusted' = FALSE /\ UNCHANGED <<recovered, dropped>>
         /\ \E r \in {"recoverable", "fatal"} : FailsAndRestores(h, r)
      \/ Postponed(h) /\ UNCHANGED <<trusted, recovered, dropped>>
      \/ StoreFails(h)
  BY <1>0 DEF Refresh, RefreshGate
<1>2. CASE /\ trusted' = TRUE /\ Goto(h, "recover") /\ Keep
           /\ UNCHANGED <<completed, expired, failures, verdict, riding, syncing, recovered, dropped>>
  <2>1. Becomes(h, "recover", threads[h].seq, threads[h].bits, threads[h].through, threads[h].res)
    BY <1>2, GotoMoves, PCNames
  <2> QED BY <1>0, <1>2, <2>1 DEF GoesOn, Keep, KeepBits
<1>3. CASE /\ Refreshes(h) /\ trusted' = FALSE /\ UNCHANGED <<recovered, dropped>>
           /\ \E r \in {"recoverable", "fatal"} : FailsAndRestores(h, r)
  BY <1>0, <1>3, RestoringDetail, PCNames
<1>4. CASE Postponed(h) /\ UNCHANGED <<trusted, recovered, dropped>>
  BY <1>0, <1>4, PostponedDetail
<1> QED BY <1>1, <1>2, <1>3, <1>4, StoreDetail

LEMMA RecoverDetail ==
  ASSUME TypeOK, NEW h \in Thread, Recover(h)
  PROVE  GoesOn(h) \/ \E r \in {"recoverable", "fatal"} : BreaksOff(h, r)
<1>0. threads[h].pc = "recover" /\ ~shutdown
  BY DEF Recover, At
<1>1. \/ FailsAndRestores(h, "fatal") /\ UNCHANGED <<trusted, recovered, dropped>>
      \/ StoreFails(h)
      \/ /\ recovered' = (recovered \/ "STARTUP" \in Bits(h)) /\ UNCHANGED dropped
         /\ \/ /\ Goto(h, "resume") /\ Keep
               /\ UNCHANGED <<completed, expired, failures, verdict, riding, syncing, trusted>>
            \/ "STARTUP" \in Bits(h) /\ CheckpointFails(h)
  BY DEF Recover
<1>2. CASE FailsAndRestores(h, "fatal") /\ UNCHANGED <<trusted, recovered, dropped>>
  BY <1>0, <1>2, RestoringDetail, PCNames
<1>3. CASE /\ recovered' = (recovered \/ "STARTUP" \in Bits(h)) /\ UNCHANGED dropped
           /\ Goto(h, "resume") /\ Keep
           /\ UNCHANGED <<completed, expired, failures, verdict, riding, syncing, trusted>>
  <2>1. Becomes(h, "resume", threads[h].seq, threads[h].bits, threads[h].through, threads[h].res)
    BY <1>3, GotoMoves, PCNames
  <2> QED BY <1>0, <1>3, <2>1 DEF GoesOn, Keep, KeepBits, Bits
<1>4. CASE /\ recovered' = (recovered \/ "STARTUP" \in Bits(h)) /\ UNCHANGED dropped
           /\ "STARTUP" \in Bits(h) /\ CheckpointFails(h)
  BY <1>0, <1>4, CheckpointDetail
<1> QED BY <1>1, <1>2, <1>3, <1>4, StoreDetail

LEMMA ResumeDetail ==
  ASSUME TypeOK, NEW h \in Thread, Resume(h)
  PROVE  GoesOn(h) \/ EndsWell(h) \/ BreaksOff(h, "fatal")
<1>0. threads[h].pc = "resume" /\ ~shutdown /\ UNCHANGED <<recovered, dropped>>
  BY DEF Resume, At
<1>1. \/ Postponed(h) /\ UNCHANGED trusted
      \/ /\ Goto(h, "plan") /\ (Keep \/ (Request(AutoRefresh) /\ UNCHANGED waiting))
         /\ UNCHANGED <<completed, expired, failures, verdict, riding, syncing, trusted>>
      \/ CheckpointFails(h)
  BY DEF Resume
<1>2. CASE Postponed(h) /\ UNCHANGED trusted
  BY <1>0, <1>2, PostponedDetail
<1>3. CASE /\ Goto(h, "plan") /\ (Keep \/ (Request(AutoRefresh) /\ UNCHANGED waiting))
           /\ UNCHANGED <<completed, expired, failures, verdict, riding, syncing, trusted>>
  <2>1. Becomes(h, "plan", threads[h].seq, threads[h].bits, threads[h].through, threads[h].res)
    BY <1>3, GotoMoves, PCNames
  <2> QED BY <1>0, <1>3, <2>1 DEF GoesOn, Keep, KeepBits
<1>4. CASE CheckpointFails(h)
  BY <1>0, <1>4, CheckpointDetail
<1> QED BY <1>1, <1>2, <1>3, <1>4

LEMMA PlanDetail ==
  ASSUME TypeOK, NEW h \in Thread, Plan(h)
  PROVE  EndsWell(h) \/ BreaksOff(h, "fatal")
<1>0. threads[h].pc = "plan" /\ ~shutdown /\ UNCHANGED <<recovered, dropped>>
  BY DEF Plan, At
<1>1. \/ CycleOk(h) /\ (Keep \/ (Request(Watcher) /\ UNCHANGED waiting)) /\ UNCHANGED trusted
      \/ KeepBits /\ CycleFails(h, "fatal") /\ UNCHANGED trusted
      \/ CheckpointFails(h)
  BY DEF Plan
<1>2. CASE CycleOk(h) /\ (Keep \/ (Request(Watcher) /\ UNCHANGED waiting)) /\ UNCHANGED trusted
  <2>1. Complete(h, TRUE) /\ UNCHANGED syncing /\ Becomes(h, "loop", threads[h].seq, {}, 0, "ok")
    BY <1>2, CycleOkMoves DEF CycleOk
  <2> QED BY <1>0, <1>2, <2>1 DEF EndsWell, Keep, KeepBits
<1>3. CASE KeepBits /\ CycleFails(h, "fatal") /\ UNCHANGED trusted
  BY <1>0, <1>3, Failing, PCNames DEF BreaksOff, KeepBits
<1>4. CASE CheckpointFails(h)
  BY <1>0, <1>4, CheckpointDetail
<1> QED BY <1>1, <1>2, <1>3, <1>4

LEMMA CycleDetail ==
  ASSUME TypeOK, Sequences, NEW h \in Thread, CycleStep(h)
  PROVE  /\ threads[h].pc \in CyclePC /\ UNCHANGED <<owner, folder, asking, life, net>>
         /\ GoesOn(h) \/ EndsWell(h) \/ \E r \in {"recoverable", "fatal"} : BreaksOff(h, r)
BY CycleSteps, AbortsDetail, RefreshDetail, RecoverDetail, ResumeDetail, PlanDetail DEF CycleStep
-----------------------------------------------------------------------------
(* The refresh and the recovery that are owed. *)
(* A bit is carried while it is pending or held by a cycle that has not got *)
(* beyond the given steps.                                                  *)
Carried(b, S) ==
    b \in pending \/ \E h \in Thread : threads[h].pc \in S /\ b \in threads[h].bits

BeforeRefreshed == {"gates", "refresh"}
BeforeRecovered == {"gates", "refresh", "recover"}

(* Where a carried bit is spent: by the refresh that makes the tree         *)
(* trusted, by the recovery.                                                *)
Spent(h, S) ==
    \/ S = BeforeRefreshed /\ threads[h].pc = "refresh" /\ trusted' = TRUE
    \/ S = BeforeRecovered /\ threads[h].pc = "recover" /\ ("STARTUP" \in threads[h].bits => recovered')

LEMMA CarriedCycle ==
  ASSUME Base, NEW h \in Thread, CycleStep(h), NEW b, b \in threads[h].bits,
         NEW S \in {BeforeRefreshed, BeforeRecovered}, threads[h].pc \in S,
         ~shutdown', ~dropped'
  PROVE  Carried(b, S)' \/ Spent(h, S)
<1>0. TypeOK /\ Sequences
  BY DEF Base
<1>1. threads[h].pc \in CyclePC /\ ~shutdown
  BY <1>0, CycleDetail DEF life
<1>2. CASE GoesOn(h)
  <2>1. CASE threads[h].pc = "refresh"
    <3>1. trusted' = TRUE /\ threads'[h].pc = "recover" /\ threads'[h].bits = threads[h].bits
      BY <1>2, <2>1 DEF GoesOn, Becomes
    <3>2. S = BeforeRecovered => threads'[h].pc \in S
      BY <3>1 DEF BeforeRecovered
    <3> QED BY <2>1, <3>1, <3>2 DEF Carried, Spent
  <2>2. CASE threads[h].pc = "recover"
    <3>1. S = BeforeRecovered
      BY <2>2 DEF BeforeRefreshed
    <3>2. "STARTUP" \in threads[h].bits => recovered'
      BY <1>2, <2>2 DEF GoesOn
    <3> QED BY <2>2, <3>1, <3>2 DEF Spent
  <2> QED BY <1>2, <2>1, <2>2 DEF GoesOn, BeforeRefreshed, BeforeRecovered
<1>3. CASE EndsWell(h)
  <2>1. threads[h].pc # "plan"
    BY DEF BeforeRefreshed, BeforeRecovered
  <2>2. pending' = pending \cup threads[h].bits
    BY <1>3, <2>1 DEF EndsWell
  <2> QED BY <2>2 DEF Carried
<1>4. ASSUME NEW r \in {"recoverable", "fatal"}, BreaksOff(h, r)
      PROVE  Carried(b, S)' \/ Spent(h, S)
  <2>1. threads[h].pc \notin {"plan", "resume"}
    BY DEF BeforeRefreshed, BeforeRecovered
  <2>2. \/ pending' = pending \cup threads[h].bits
        \/ threads[h].pc = "recover" /\ recovered' = TRUE
    BY <1>1, <1>4, <2>1 DEF BreaksOff
  <2>3. CASE pending' = pending \cup threads[h].bits
    BY <2>3 DEF Carried
  <2>4. CASE threads[h].pc = "recover" /\ recovered' = TRUE
    BY <2>4 DEF Spent, BeforeRefreshed
  <2> QED BY <2>2, <2>3, <2>4
<1> QED BY <1>0, <1>2, <1>3, <1>4, CycleDetail

LEMMA CarriedOn ==
  ASSUME Base, [Next]_vars, NEW b, NEW S \in {BeforeRefreshed, BeforeRecovered},
         Carried(b, S), ~shutdown', ~dropped'
  PROVE  \/ Carried(b, S)'
         \/ \E h \in Thread : CycleStep(h) /\ b \in threads[h].bits /\ Spent(h, S)
<1>0. TypeOK /\ Sequences
  BY DEF Base
<1>a. S \subseteq BeforeRecovered /\ "gates" \in S /\ "refresh" \in S
  BY DEF BeforeRefreshed, BeforeRecovered
<1>1. ASSUME UNCHANGED <<pending, threads>> PROVE Carried(b, S)'
  BY <1>1 DEF Carried
<1>2. ASSUME b \notin pending', NEW h \in Thread, \A k \in Thread \ {h} : threads'[k] = threads[k],
             threads[h].pc \notin S
      PROVE  b \in pending \/ Carried(b, S)'
  <2>1. CASE b \notin pending
    <3>1. PICK k \in Thread : threads[k].pc \in S /\ b \in threads[k].bits
      BY <2>1 DEF Carried
    <3>2. threads'[k] = threads[k]
      BY <1>2, <3>1
    <3> QED BY <3>1, <3>2 DEF Carried
  <2> QED BY <2>1
<1>3. ASSUME NEW h \in Thread, Step(h)
      PROVE  Carried(b, S)' \/ (CycleStep(h) /\ b \in threads[h].bits /\ Spent(h, S))
  <2>1. \A k \in Thread \ {h} : threads'[k] = threads[k]
    BY <1>3, StepFrame
  <2>2. ASSUME pending \subseteq pending', threads[h].pc \notin S PROVE Carried(b, S)'
    BY <1>2, <2>1, <2>2 DEF Carried
  <2>3. CASE Acquire(h)
    BY <1>0, <1>a, <2>2, <2>3, AcquireMoves DEF coordinator, BeforeRecovered
  <2>4. CASE Take(h)
    <3>1. CASE UNCHANGED pending
      <4>1. threads[h].pc = "loop"
        BY <1>0, <2>4, TakeMoves
      <4> QED BY <1>a, <2>2, <3>1, <4>1 DEF BeforeRecovered
    <3>2. CASE ~UNCHANGED pending
      <4>1. threads[h].pc = "loop" /\ threads'[h].pc = "gates" /\ threads'[h].bits = pending
        BY <1>0, <2>4, <3>2, TakeMoves DEF Becomes
      <4>2. b \in pending => Carried(b, S)'
        BY <1>a, <4>1 DEF Carried
      <4>3. threads[h].pc \notin S
        BY <1>a, <4>1 DEF BeforeRecovered
      <4>4. CASE b \in pending'
        BY <4>4 DEF Carried
      <4>5. CASE b \notin pending'
        BY <1>2, <2>1, <4>2, <4>3, <4>5
      <4> QED BY <4>4, <4>5
    <3> QED BY <3>1, <3>2
  <2>5. CASE Gates(h)
    <3>1. threads[h].pc = "gates" /\ pending \subseteq pending' /\ ~shutdown
      BY <1>0, <2>5, GatesMoves DEF life
    <3>2. \/ pending' = pending \cup threads[h].bits
          \/ threads'[h].pc = "refresh" /\ threads'[h].bits = threads[h].bits
      BY <1>0, <2>5, <3>1, GatesMoves DEF Becomes
    <3>3. CASE b \in pending
      BY <3>1, <3>3 DEF Carried
    <3>4. CASE b \notin pending
      <4>1. PICK k \in Thread : threads[k].pc \in S /\ b \in threads[k].bits
        BY <3>4 DEF Carried
      <4>2. CASE k = h
        BY <1>a, <3>2, <4>1, <4>2 DEF Carried
      <4>3. CASE k # h
        BY <2>1, <4>1, <4>3 DEF Carried
      <4> QED BY <4>2, <4>3
    <3> QED BY <3>3, <3>4
  <2>6. CASE Unlock(h)
    BY <1>0, <1>a, <2>2, <2>6, UnlockMoves DEF coordinator, BeforeRecovered
  <2>7. CASE CycleStep(h)
    <3>1. pending \subseteq pending'
      BY <1>0, <2>7, CycleSteps DEF Grows
    <3>2. CASE b \in pending
      BY <3>1, <3>2 DEF Carried
    <3>3. CASE b \notin pending
      <4>1. PICK k \in Thread : threads[k].pc \in S /\ b \in threads[k].bits
        BY <3>3 DEF Carried
      <4>2. CASE k = h
        BY <2>7, <4>1, <4>2, CarriedCycle
      <4>3. CASE k # h
        BY <2>1, <4>1, <4>3 DEF Carried
      <4> QED BY <4>2, <4>3
    <3> QED BY <3>2, <3>3
  <2>8. CASE Answer(h)
    BY <1>0, <1>a, <2>2, <2>8, AnswerMoves DEF coordinator, BeforeRecovered
  <2>9. CASE Arm(h)
    BY <1>0, <1>a, <2>2, <2>9, ArmMoves DEF coordinator, BeforeRecovered
  <2>10. CASE Wake(h)
    BY <1>0, <1>a, <2>2, <2>10, WakeMoves DEF coordinator, BeforeRecovered
  <2>11. CASE Clear(h)
    BY <1>0, <1>a, <2>2, <2>11, ClearMoves DEF coordinator, BeforeRecovered
  <2>12. CASE Recheck(h)
    BY <1>0, <1>a, <2>2, <2>12, RecheckMoves DEF coordinator, BeforeRecovered
  <2> QED BY <1>3, <2>3, <2>4, <2>5, <2>6, <2>7, <2>8, <2>9, <2>10, <2>11, <2>12 DEF Step, CycleStep
<1>4. ASSUME NEW h \in Caller, NEW bits, Call(h, bits) PROVE Carried(b, S)'
  <2>1. /\ h \in Thread /\ threads[h].pc \notin S /\ pending \subseteq pending'
        /\ \A k \in Thread \ {h} : threads'[k] = threads[k]
    BY <1>0, <1>a, <1>4, CallMoves DEF Becomes, BeforeRecovered
  <2> QED BY <1>2, <2>1 DEF Carried
<1>5. CASE \E s \in Source : Ring(s)
  <2>1. PICK s \in Source : Ring(s)
    BY <1>5
  <2>2. UNCHANGED pending
    BY <1>0, <2>1, RingMoves DEF coordinator
  <2>3. CASE UNCHANGED threads
    BY <1>1, <2>2, <2>3
  <2>4. CASE ~UNCHANGED threads
    <3>1. PICK w \in Worker : threads[w].pc = "idle" /\ Becomes(w, "lock", 0, {}, 0, "ok")
      BY <1>0, <2>1, <2>4, RingMoves
    <3>2. w \in Thread /\ threads[w].pc \notin S /\ \A k \in Thread \ {w} : threads'[k] = threads[k]
      BY <1>a, <3>1 DEF Becomes, Thread, BeforeRecovered
    <3> QED BY <1>2, <2>2, <3>2 DEF Carried
  <2> QED BY <2>3, <2>4
<1>6. CASE LocalChange \/ NetworkEdge \/ EndFolderSync
  <2>1. UNCHANGED threads /\ pending \subseteq pending'
    BY <1>0, <1>6, SourceMoves
  <2> QED BY <2>1 DEF Carried
<1>7. CASE BeginFolderSync \/ NetworkDown \/ NetworkUp \/ Shutdown \/ Quiesce
  BY <1>1, <1>7, WorldMoves DEF coordinator
<1>8. CASE UNCHANGED vars
  BY <1>1, <1>8 DEF vars, coordinator
<1> QED BY <1>3, <1>4, <1>5, <1>6, <1>7, <1>8, ThreadAssumption DEF Next

(* Until start() has asked, nothing changes but the world around it; then   *)
(* its request carries everything.                                          *)
LEMMA StartAsks ==
  ASSUME Base, [Next]_vars, At(Boot, "start")
  PROVE  At(Boot, "start")' \/ Startup \subseteq pending'
<1>0. TypeOK /\ \A k \in Thread : threads[k].pc \in {"start", "idle"}
  BY DEF Base, BeforeStart, Idle, At
<1>1. ASSUME NEW h \in Thread, Step(h) PROVE FALSE
  BY <1>0, <1>1, StepFrame
<1>2. CASE Call(Boot, Startup)
  <2>1. pending' = pending \cup Startup
    BY <1>0, <1>2, CallMoves, ThreadAssumption
  <2> QED BY <2>1
<1>3. ASSUME NEW h \in Caller \ {Boot}, NEW bits, Call(h, bits) PROVE FALSE
  BY <1>0, <1>3, CallMoves DEF Base, BeforeStart
<1>4. ASSUME NEW s \in Source, Ring(s) PROVE FALSE
  BY <1>0, <1>4, RingMoves DEF Base, BeforeStart
<1>5. CASE LocalChange \/ NetworkEdge \/ EndFolderSync
  BY <1>0, <1>5, SourceMoves DEF At
<1>6. CASE BeginFolderSync \/ NetworkDown \/ NetworkUp \/ Shutdown \/ Quiesce
  BY <1>6, WorldMoves DEF At
<1>7. CASE UNCHANGED vars
  BY <1>7 DEF vars, At
<1> QED BY <1>1, <1>2, <1>3, <1>4, <1>5, <1>6, <1>7 DEF Next

(* Flags that are only ever set, or set by one step. *)
LEMMA Flags ==
  ASSUME Base, [Next]_vars
  PROVE  /\ shutdown => shutdown'
         /\ dropped => dropped'
         /\ recovered => recovered'
         /\ \/ UNCHANGED <<trusted, recovered, dropped>>
            \/ \E h \in Thread : CycleStep(h)
<1>0. TypeOK /\ Sequences
  BY DEF Base
<1>1. ASSUME NEW h \in Thread, CycleStep(h)
      PROVE  UNCHANGED shutdown /\ (dropped => dropped') /\ (recovered => recovered')
  <2>1. UNCHANGED shutdown
    BY <1>0, <1>1, CycleSteps DEF life
  <2>2. CASE GoesOn(h)
    <3>1. UNCHANGED dropped
      BY <2>2 DEF GoesOn
    <3>2. recovered => recovered'
      BY <2>2 DEF GoesOn
    <3> QED BY <2>1, <3>1, <3>2
  <2>3. CASE EndsWell(h)
    BY <2>1, <2>3 DEF EndsWell
  <2>4. ASSUME NEW r \in {"recoverable", "fatal"}, BreaksOff(h, r)
        PROVE  (dropped => dropped') /\ (recovered => recovered')
    <3>1. dropped => dropped'
      BY <2>4 DEF BreaksOff
    <3>2. recovered => recovered'
      BY <2>4 DEF BreaksOff
    <3> QED BY <3>1, <3>2
  <2> QED BY <1>0, <1>1, <2>1, <2>2, <2>3, <2>4, CycleDetail
<1>2. ASSUME NEW h \in Thread, Step(h), ~CycleStep(h)
      PROVE  UNCHANGED <<trusted, recovered, dropped, shutdown>>
  BY <1>0, <1>2, AcquireMoves, TakeMoves, GatesMoves, UnlockMoves, AnswerMoves, ArmMoves,
     WakeMoves, ClearMoves, RecheckMoves DEF Step, CycleStep, life, ghosts
<1>3. ASSUME NEW h \in Caller, NEW bits, Call(h, bits)
      PROVE  UNCHANGED <<trusted, recovered, dropped, shutdown>>
  BY <1>0, <1>3, CallMoves DEF life
<1>4. ASSUME NEW s \in Source, Ring(s)
      PROVE  UNCHANGED <<trusted, recovered, dropped, shutdown>>
  BY <1>0, <1>4, RingMoves DEF life, ghosts
<1>5. CASE LocalChange \/ NetworkEdge \/ EndFolderSync
  <2>1. UNCHANGED <<trusted, recovered, dropped, life>>
    BY <1>0, <1>5, SourceMoves
  <2> QED BY <2>1 DEF life
<1>6. CASE BeginFolderSync \/ NetworkDown \/ NetworkUp \/ Shutdown \/ Quiesce
  <2>1. UNCHANGED <<trusted, recovered, dropped>>
    BY <1>6, WorldMoves DEF ghosts
  <2>2. shutdown => shutdown'
    BY <1>6, WorldMoves
  <2> QED BY <2>1, <2>2
<1>7. CASE UNCHANGED vars
  BY <1>7 DEF vars, life, ghosts
<1> QED BY <1>1, <1>2, <1>3, <1>4, <1>5, <1>6, <1>7, ThreadAssumption DEF Next

(* A cycle that has got beyond the refresh has a trusted tree, and while    *)
(* the tree is not trusted a refresh is carried.                            *)
PastRefresh == \A h \in Thread : threads[h].pc \in CyclePC \ {"refresh"} => trusted
BackOwed ==
    ~trusted /\ ~shutdown /\ ~dropped =>
      At(Boot, "start") \/ Carried("INC", BeforeRefreshed) \/ Carried("FULL", BeforeRefreshed)

(* The last run's transfers are recovered before a cycle resumes any, and   *)
(* until then STARTUP is carried.                                           *)
PastRecover == \A h \in Thread : threads[h].pc \in {"resume", "plan"} => recovered \/ dropped
StartupOwed ==
    ~recovered /\ ~shutdown /\ ~dropped =>
      At(Boot, "start") \/ Carried("STARTUP", BeforeRecovered)

(* STARTUP is pending only between two cycles. *)
Aside == "STARTUP" \in pending => \A h \in Thread : threads[h].pc \notin Held

Owing == PastRefresh /\ BackOwed /\ PastRecover /\ StartupOwed /\ Aside

(* Nobody but h is in a cycle when h is. *)
LEMMA OnlyOne ==
  ASSUME Base, NEW h \in Thread, threads[h].pc \in OwnerPC, NEW k \in Thread, k # h
  PROVE  threads[k].pc \notin OwnerPC
BY DEF Base, Ownership

LEMMA PastStep == Base /\ Owing /\ [Next]_vars => PastRefresh' /\ PastRecover'
<1> SUFFICES ASSUME Base, Owing, [Next]_vars PROVE PastRefresh' /\ PastRecover'
  OBVIOUS
<1>0. TypeOK /\ Sequences /\ Base'
  BY NextBase DEF Base
<1>1. ASSUME UNCHANGED <<trusted, recovered, dropped>>,
             \A k \in Thread : threads'[k].pc \in CyclePC => threads'[k].pc = "refresh" \/ threads'[k] = threads[k]
      PROVE  PastRefresh' /\ PastRecover'
  BY <1>1, PCNames DEF Owing, PastRefresh, PastRecover
<1>2. ASSUME NEW h \in Thread, CycleStep(h) PROVE PastRefresh' /\ PastRecover'
  <2>1. threads[h].pc \in CyclePC /\ \A k \in Thread \ {h} : threads'[k] = threads[k] /\ threads[k].pc \notin CyclePC
    BY <1>0, <1>2, CycleSteps, CycleEffect, OnlyOne, PCNames
  <2>2. CASE GoesOn(h)
    <3>1. threads[h].pc = "refresh" => trusted' /\ threads'[h].pc = "recover"
      BY <2>2 DEF GoesOn, Becomes
    <3>2. threads[h].pc = "recover" => UNCHANGED trusted /\ threads'[h].pc = "resume"
      BY <2>2 DEF GoesOn, Becomes
    <3>3. threads[h].pc = "resume" => UNCHANGED <<trusted, recovered, dropped>>
      BY <2>2 DEF GoesOn
    <3>4. threads[h].pc = "recover" => recovered' \/ dropped'
      <4>1. CASE recovered
        BY <4>1, Flags
      <4>2. CASE dropped
        BY <4>2, Flags
      <4>3. CASE ~recovered /\ ~dropped /\ threads[h].pc = "recover"
        <5>1. ~shutdown /\ pending' = pending /\ recovered' = (recovered \/ "STARTUP" \in threads[h].bits)
          BY <2>2, <4>3 DEF GoesOn
        <5>2. At(Boot, "start") => FALSE
          BY <2>1, PCNames DEF Base, BeforeStart, Idle, At
        <5>3. "STARTUP" \notin pending
          BY <2>1, PCNames DEF Owing, Aside
        <5>4. \A k \in Thread \ {h} : threads[k].pc \notin BeforeRecovered
          BY <2>1, OnlyOne, PCNames DEF BeforeRecovered
        <5>5. Carried("STARTUP", BeforeRecovered)
          BY <4>3, <5>1, <5>2 DEF Owing, StartupOwed
        <5> QED BY <5>1, <5>3, <5>4, <5>5 DEF Carried
      <4> QED BY <4>1, <4>2, <4>3
    <3>5. threads[h].pc \in {"refresh", "recover", "resume"}
      BY <2>2 DEF GoesOn
    <3> QED BY <2>1, <3>1, <3>2, <3>3, <3>4, <3>5, PCNames DEF Owing, PastRefresh, PastRecover
  <2>3. CASE ~GoesOn(h)
    <3>1. threads'[h].pc \in {"loop", "unlock"}
      BY <1>0, <1>2, <2>3, CycleDetail DEF EndsWell, BreaksOff, Becomes
    <3> QED BY <2>1, <3>1, PCNames DEF PastRefresh, PastRecover
  <2> QED BY <2>2, <2>3
<1>3. ASSUME NEW h \in Thread, Step(h), ~CycleStep(h)
      PROVE  \A k \in Thread : threads'[k].pc \in CyclePC => threads'[k].pc = "refresh" \/ threads'[k] = threads[k]
  <2>1. \A k \in Thread \ {h} : threads'[k] = threads[k]
    BY <1>3, StepFrame
  <2>2. threads'[h].pc \in CyclePC => threads'[h].pc = "refresh"
    <3> SUFFICES threads'[h].pc \in {"answer", "loop", "gates", "refresh", "unlock", "sleep",
                                     "clear", "idle", "arm", "lock", "recheck"}
      BY PCNames
    <3>1. CASE Acquire(h)
      BY <1>0, <3>1, AcquireMoves DEF Becomes
    <3>2. CASE Take(h)
      BY <1>0, <3>2, TakeMoves DEF Becomes
    <3>3. CASE Gates(h)
      BY <1>0, <3>3, GatesMoves DEF Becomes
    <3>4. CASE Unlock(h)
      BY <1>0, <3>4, UnlockMoves DEF Becomes
    <3>5. CASE Answer(h)
      BY <1>0, <3>5, AnswerMoves DEF Becomes
    <3>6. CASE Arm(h) \/ Wake(h) \/ Clear(h) \/ Recheck(h)
      BY <1>0, <3>6, ArmMoves, WakeMoves, ClearMoves, RecheckMoves DEF Becomes
    <3> QED BY <1>3, <3>1, <3>2, <3>3, <3>4, <3>5, <3>6 DEF Step, CycleStep
  <2> QED BY <2>1, <2>2
<1>4. ASSUME NEW h \in Thread, Step(h), ~CycleStep(h) PROVE UNCHANGED <<trusted, recovered, dropped>>
  BY <1>0, <1>4, AcquireMoves, TakeMoves, GatesMoves, UnlockMoves, AnswerMoves, ArmMoves,
     WakeMoves, ClearMoves, RecheckMoves DEF Step, CycleStep, ghosts
<1>5. ASSUME NEW h \in Caller, NEW bits, Call(h, bits) PROVE PastRefresh' /\ PastRecover'
  BY <1>0, <1>1, <1>5, CallMoves, PCNames DEF Becomes
<1>6. ASSUME NEW s \in Source, Ring(s) PROVE PastRefresh' /\ PastRecover'
  <2>1. UNCHANGED <<trusted, recovered, dropped>>
    BY <1>0, <1>6, RingMoves DEF ghosts
  <2>2. \A k \in Thread : threads'[k].pc \in CyclePC => threads'[k] = threads[k]
    BY <1>0, <1>6, RingMoves, PCNames DEF Becomes, Thread
  <2> QED BY <1>1, <2>1, <2>2
<1>7. CASE LocalChange \/ NetworkEdge \/ EndFolderSync
  BY <1>0, <1>1, <1>7, SourceMoves
<1>8. CASE BeginFolderSync \/ NetworkDown \/ NetworkUp \/ Shutdown \/ Quiesce
  BY <1>1, <1>8, WorldMoves DEF ghosts
<1>9. CASE UNCHANGED vars
  BY <1>1, <1>9 DEF vars, ghosts
<1> QED BY <1>1, <1>2, <1>3, <1>4, <1>5, <1>6, <1>7, <1>8, <1>9, ThreadAssumption DEF Next

LEMMA OwedStep == Base /\ Owing /\ [Next]_vars => BackOwed'
<1> SUFFICES ASSUME Base, Owing, [Next]_vars, ~trusted', ~shutdown', ~dropped',
                    ~At(Boot, "start")'
             PROVE  Carried("INC", BeforeRefreshed)' \/ Carried("FULL", BeforeRefreshed)'
  BY DEF BackOwed
<1>0. TypeOK /\ Sequences /\ ~shutdown /\ ~dropped
  BY Flags DEF Base
<1>1. CASE At(Boot, "start")
  BY <1>1, StartAsks DEF Startup, Carried
<1>2. CASE ~At(Boot, "start") /\ ~trusted
  <2>1. PICK b \in {"INC", "FULL"} : Carried(b, BeforeRefreshed)
    BY <1>0, <1>2 DEF Owing, BackOwed
  <2>2. \A h \in Thread : ~Spent(h, BeforeRefreshed)
    BY DEF Spent, BeforeRefreshed, BeforeRecovered
  <2> QED BY <2>1, <2>2, CarriedOn
<1>3. CASE trusted
  <2>1. PICK h \in Thread : CycleStep(h)
    BY <1>3, Flags
  <2>2. ~GoesOn(h)
    BY <1>3 DEF GoesOn
  <2>3. ~EndsWell(h)
    BY <1>3 DEF EndsWell
  <2>4. PICK r \in {"recoverable", "fatal"} : BreaksOff(h, r)
    BY <1>0, <2>1, <2>2, <2>3, CycleDetail
  <2>5. \/ pending' = pending \cup threads[h].bits /\ {"INC", "FULL"} \cap threads[h].bits # {}
        \/ pending' = pending \cup Rebuild
    BY <1>3, <2>4 DEF BreaksOff
  <2> QED BY <2>5 DEF Carried, Rebuild
<1> QED BY <1>1, <1>2, <1>3

LEMMA StartupStep == Base /\ Owing /\ [Next]_vars => StartupOwed'
<1> SUFFICES ASSUME Base, Owing, [Next]_vars, ~recovered', ~shutdown', ~dropped',
                    ~At(Boot, "start")'
             PROVE  Carried("STARTUP", BeforeRecovered)'
  BY DEF StartupOwed
<1>0. ~shutdown /\ ~dropped /\ ~recovered
  BY Flags
<1>1. CASE At(Boot, "start")
  BY <1>1, StartAsks DEF Startup, Carried
<1>2. CASE ~At(Boot, "start")
  <2>1. Carried("STARTUP", BeforeRecovered)
    BY <1>0, <1>2 DEF Owing, StartupOwed
  <2>2. \A h \in Thread : "STARTUP" \in threads[h].bits => ~Spent(h, BeforeRecovered)
    BY DEF Spent, BeforeRefreshed, BeforeRecovered
  <2> QED BY <2>1, <2>2, CarriedOn
<1> QED BY <1>1, <1>2

LEMMA AsideStep == Base /\ Owing /\ [Next]_vars => Aside'
<1> SUFFICES ASSUME Base, Owing, [Next]_vars PROVE Aside'
  OBVIOUS
<1>0. TypeOK /\ Sequences
  BY DEF Base
<1>1. ASSUME "STARTUP" \in pending' => "STARTUP" \in pending,
             \A k \in Thread : threads'[k].pc \in Held => threads[k].pc \in Held
      PROVE  Aside'
  BY <1>1 DEF Owing, Aside
<1>2. ASSUME NEW h \in Thread, CycleStep(h) PROVE Aside'
  <2>1. threads[h].pc \in CyclePC /\ \A k \in Thread \ {h} : threads'[k] = threads[k] /\ threads[k].pc \notin Held
    BY <1>0, <1>2, CycleSteps, CycleEffect, OnlyOne, PCNames
  <2>2. CASE GoesOn(h)
    <3>1. "STARTUP" \in pending' => "STARTUP" \in pending
      BY <2>2 DEF GoesOn, Request, AutoRefresh
    <3> QED BY <1>1, <2>1, <3>1, PCNames
  <2>3. CASE ~GoesOn(h)
    <3>1. threads'[h].pc \in {"loop", "unlock"}
      BY <1>0, <1>2, <2>3, CycleDetail DEF EndsWell, BreaksOff, Becomes
    <3> QED BY <2>1, <3>1, PCNames DEF Aside
  <2> QED BY <2>2, <2>3
<1>3. ASSUME NEW h \in Thread, Take(h) PROVE Aside'
  <2>1. pending' = {}
    BY <1>0, <1>3, TakeMoves
  <2> QED BY <2>1 DEF Aside
<1>4. ASSUME NEW h \in Thread, Gates(h) PROVE Aside'
  <2>1. threads[h].pc = "gates" /\ \A k \in Thread \ {h} : threads'[k] = threads[k]
    BY <1>0, <1>4, GatesMoves DEF Becomes
  <2>2. CASE UNCHANGED pending
    BY <1>1, <2>1, <2>2, PCNames
  <2>3. CASE ~UNCHANGED pending
    <3>1. threads'[h].pc = "unlock"
      BY <1>0, <1>4, <2>3, GatesMoves DEF Becomes
    <3>2. \A k \in Thread \ {h} : threads[k].pc \notin Held
      BY <2>1, OnlyOne, PCNames
    <3> QED BY <2>1, <3>1, <3>2, PCNames DEF Aside
  <2> QED BY <2>2, <2>3
<1>5. ASSUME NEW h \in Thread, Acquire(h) \/ Unlock(h) PROVE Aside'
  BY <1>0, <1>1, <1>5, AcquireMoves, UnlockMoves, PCNames DEF Becomes, coordinator
<1>6. ASSUME NEW h \in Thread, Answer(h) PROVE Aside'
  BY <1>0, <1>1, <1>6, AnswerMoves, PCNames DEF Becomes, coordinator
<1>7. ASSUME NEW h \in Thread, Arm(h) \/ Wake(h) \/ Clear(h) \/ Recheck(h) PROVE Aside'
  BY <1>0, <1>1, <1>7, ArmMoves, WakeMoves, ClearMoves, RecheckMoves, PCNames DEF Becomes, coordinator
<1>8. ASSUME Call(Boot, Startup) PROVE Aside'
  <2>1. \A k \in Thread : threads'[k].pc \in {"idle", "lock"}
    <3>1. /\ threads[Boot].pc = "start" /\ threads'[Boot].pc = "lock"
          /\ \A k \in Thread \ {Boot} : threads'[k] = threads[k]
      BY <1>0, <1>8, CallMoves, ThreadAssumption DEF Becomes
    <3> QED BY <3>1 DEF Base, BeforeStart, At, Idle
  <2> QED BY <2>1, PCNames DEF Aside
<1>9. ASSUME NEW h \in Caller, NEW bits \in {Manual, AutoRefresh}, Call(h, bits) PROVE Aside'
  <2>1. "STARTUP" \in pending' => "STARTUP" \in pending
    <3>1. pending' = pending \cup bits
      BY <1>0, <1>9, CallMoves
    <3> QED BY <3>1 DEF Manual, AutoRefresh
  <2>2. \A k \in Thread : threads'[k].pc \in Held => threads[k].pc \in Held
    BY <1>0, <1>9, CallMoves, PCNames DEF Becomes
  <2> QED BY <1>1, <2>1, <2>2
<1>10. ASSUME NEW s \in Source, Ring(s) PROVE Aside'
  <2>1. UNCHANGED pending
    BY <1>0, <1>10, RingMoves DEF coordinator
  <2>2. \A k \in Thread : threads'[k].pc \in Held => threads[k].pc \in Held
    BY <1>0, <1>10, RingMoves, PCNames DEF Becomes, Thread
  <2> QED BY <1>1, <2>1, <2>2
<1>11. CASE LocalChange \/ NetworkEdge \/ EndFolderSync
  <2>1. UNCHANGED threads /\ ("STARTUP" \in pending' => "STARTUP" \in pending)
    BY <1>0, <1>11, SourceMoves
  <2> QED BY <1>1, <2>1
<1>12. CASE BeginFolderSync \/ NetworkDown \/ NetworkUp \/ Shutdown \/ Quiesce
  BY <1>1, <1>12, WorldMoves DEF coordinator
<1>13. CASE UNCHANGED vars
  BY <1>1, <1>13 DEF vars, coordinator
<1> QED BY <1>2, <1>3, <1>4, <1>5, <1>6, <1>7, <1>8, <1>9, <1>10, <1>11, <1>12, <1>13
        DEF Next, Step, CycleStep

LEMMA OwingAlways == Spec => []Owing
<1>1. Init => Owing
  <2>1. ASSUME Init PROVE At(Boot, "start") /\ \A h \in Thread : threads[h].pc \notin CyclePC
    <3>1. \A h \in Thread : threads[h].pc \in {"start", "idle"}
      BY <2>1, Blank DEF Init
    <3>2. At(Boot, "start")
      BY <2>1, Blank, ThreadAssumption DEF Init, At, Thread, IdleTask
    <3> QED BY <3>1, <3>2, PCNames
  <2> QED BY <2>1, PCNames DEF Owing, PastRefresh, BackOwed, PastRecover, StartupOwed, Aside, Init
<1>2. Base /\ Owing /\ [Next]_vars => Owing'
  BY PastStep, OwedStep, StartupStep, AsideStep DEF Owing
<1> QED BY <1>1, <1>2, BaseAlways, PTL DEF Spec

(* While the cloud tree is not trusted, whatever the coordinator will run   *)
(* next includes a refresh: no sequence of failures, postponements and      *)
(* restored bits leaves a drain with bits it can only put off again.        *)
THEOREM RefreshAlwaysOwed == Spec => []RefreshOwed
<1>1. Base /\ Owing => RefreshOwed
  <2> SUFFICES ASSUME Base, Owing, ~trusted, ~shutdown, ~dropped, Owed # {}
               PROVE  {"INC", "FULL"} \cap Owed # {}
    BY DEF RefreshOwed
  <2>1. \A b : b \in Owed <=> Carried(b, BeforeRefreshed)
    BY DEF Owed, Carried, BeforeRefreshed, Bits
  <2>2. ~At(Boot, "start")
    BY <2>1 DEF Base, BeforeStart, Carried, BeforeRefreshed, At, Idle
  <2> QED BY <2>1, <2>2 DEF Owing, BackOwed
<1> QED BY <1>1, BaseAlways, OwingAlways, PTL

(* No cycle plans before the transfers of the last run were recovered,      *)
(* however start() was put off, unless the store itself failed.             *)
THEOREM RecoveredFirst == Spec => []RecoveredBeforePlanning
<1>1. Owing => RecoveredBeforePlanning
  BY DEF Owing, PastRecover, RecoveredBeforePlanning, At
<1> QED BY <1>1, OwingAlways, PTL
-----------------------------------------------------------------------------
(* Answers. *)
(* A sequence whose answer is a failure, remembered or expired. *)
HiddenBy(s, e, f) == s <= e \/ \E i \in 1..Len(f) : f[i].from <= s /\ s <= f[i].to

LEMMA Hides ==
  ASSUME TypeInv, NEW h \in Thread, threads[h].pc \in Held, NEW ok \in BOOLEAN, Complete(h, ok),
         NEW s \in 0..MaxRequests,
         \/ HiddenBy(s, expired, failures)
         \/ ~ok /\ completed < s /\ s <= threads[h].through
  PROVE  HiddenBy(s, expired', failures')
<1> DEFINE n == threads[h].through
           new == [from |-> completed + 1, to |-> n]
           all == IF ok THEN failures ELSE Append(failures, new)
<1>1. /\ n \in 1..requested /\ requested \in 0..MaxRequests
      /\ completed \in 0..requested /\ expired \in 0..completed
      /\ failures \in Seq(Failure) /\ s \in Nat /\ FailureHistory \in Nat
      /\ MaxRequests \in Nat
  BY CycleBoundAssumption DEF TypeInv, TypeOK, Sequences
<1>2. new \in Failure /\ new.to = n /\ new.from = completed + 1
  <2>1. n \in 1..MaxRequests /\ completed + 1 \in 1..(MaxRequests + 1)
    BY <1>1
  <2> QED BY <2>1 DEF Failure, Sequence
<1>3. /\ failures' = IF Len(all) > FailureHistory THEN Tail(all) ELSE all
      /\ expired' = IF Len(all) > FailureHistory /\ all[1].to > expired THEN all[1].to ELSE expired
  BY DEF Complete, Forget
<1> HIDE DEF new
<1>4. all \in Seq(Failure) /\ Len(all) \in Nat
  BY <1>1, <1>2
<1>5. HiddenBy(s, expired, all)
  <2>1. CASE ok
    BY <2>1
  <2>2. CASE ~ok
    <3>1. /\ Len(failures) \in Nat /\ Len(all) = Len(failures) + 1
          /\ \A i \in 1..Len(failures) : all[i] = failures[i] /\ i \in 1..Len(all)
          /\ all[Len(failures) + 1] = new /\ Len(failures) + 1 \in 1..Len(all)
      BY <1>1, <1>2, <2>2, AppendProperties
    <3>2. CASE HiddenBy(s, expired, failures)
      BY <3>1, <3>2 DEF HiddenBy
    <3>3. CASE completed < s /\ s <= n
      <4>1. new.from <= s /\ s <= new.to
        BY <1>1, <1>2, <3>3
      <4> QED BY <3>1, <4>1 DEF HiddenBy
    <3> QED BY <2>2, <3>2, <3>3
  <2> QED BY <2>1, <2>2
<1> HIDE DEF all
<1>6. CASE Len(all) > FailureHistory
  <2>1. /\ Len(Tail(all)) = Len(all) - 1
        /\ \A i \in 1..Len(Tail(all)) : Tail(all)[i] = all[i + 1]
        /\ failures' = Tail(all)
    BY <1>1, <1>3, <1>4, <1>6
  <2>2. all[1].to \in Nat /\ expired \in Nat
    <3>1. 1 \in 1..Len(all)
      BY <1>1, <1>4, <1>6
    <3>2. all[1] \in Failure
      BY <1>4, <3>1
    <3>3. \A f \in Failure : f.to \in Nat
      BY <1>1 DEF Failure, Sequence
    <3> QED BY <1>1, <3>2, <3>3
  <2>3. expired <= expired' /\ all[1].to <= expired' /\ expired' \in Nat
    BY <1>3, <1>6, <2>2
  <2>4. CASE s <= expired
    BY <1>1, <2>2, <2>3, <2>4 DEF HiddenBy
  <2>5. CASE \E i \in 1..Len(all) : all[i].from <= s /\ s <= all[i].to
    <3>1. PICK i \in 1..Len(all) : all[i].from <= s /\ s <= all[i].to
      BY <2>5
    <3>2. CASE i = 1
      <4>1. s <= expired'
        BY <1>1, <2>2, <2>3, <3>1, <3>2
      <4> QED BY <4>1 DEF HiddenBy
    <3>3. CASE i # 1
      <4>1. i - 1 \in 1..Len(Tail(all)) /\ Tail(all)[i - 1] = all[i]
        BY <1>4, <2>1, <3>3
      <4> QED BY <2>1, <3>1, <4>1 DEF HiddenBy
    <3> QED BY <3>2, <3>3
  <2> QED BY <1>5, <2>4, <2>5 DEF HiddenBy
<1>7. CASE ~(Len(all) > FailureHistory)
  BY <1>3, <1>5, <1>7
<1> QED BY <1>6, <1>7

(* Callers whose request no cycle has answered: they wait for the next      *)
(* cycle or ride with the present one, and a caller whose first cycle       *)
(* failed will find its sequence among the failures.                        *)
Riders ==
    /\ \A c \in Caller : c \in waiting \cup riding =>
          /\ threads[c].pc \notin {"start", "idle", "arm"}
          /\ verdict[c] = "none" => completed < threads[c].seq
    /\ riding # {} => \E h \in Thread : threads[h].pc \in Held
    /\ \A h \in Thread : threads[h].pc \in Held =>
          /\ \A c \in riding : threads[c].seq <= threads[h].through
          /\ \A c \in waiting : threads[h].through < threads[c].seq
    /\ \A c \in Caller : verdict[c] = "failed" => HiddenBy(threads[c].seq, expired, failures)

LEMMA RidersFrame ==
  ASSUME Riders, UNCHANGED <<completed, expired, failures, verdict, waiting, riding>>,
         \A c \in Caller : /\ threads'[c].seq = threads[c].seq
                           /\ threads'[c].pc \in {"start", "idle", "arm"} => threads'[c].pc = threads[c].pc,
         \A h \in Thread : /\ threads'[h].pc \in Held <=> threads[h].pc \in Held
                           /\ threads'[h].pc \in Held => threads'[h].through = threads[h].through,
         waiting \subseteq Caller, riding \subseteq Caller
  PROVE  Riders'
<1>1. \A c \in Caller : c \in waiting' \cup riding' =>
          /\ threads'[c].pc \notin {"start", "idle", "arm"}
          /\ verdict'[c] = "none" => completed' < threads'[c].seq
  BY DEF Riders
<1>2. riding' # {} => \E h \in Thread : threads'[h].pc \in Held
  BY DEF Riders
<1>3. \A h \in Thread : threads'[h].pc \in Held =>
          /\ \A c \in riding' : threads'[c].seq <= threads'[h].through
          /\ \A c \in waiting' : threads'[h].through < threads'[c].seq
  BY DEF Riders
<1>4. \A c \in Caller : verdict'[c] = "failed" => HiddenBy(threads'[c].seq, expired', failures')
  BY DEF Riders
<1> QED BY <1>1, <1>2, <1>3, <1>4 DEF Riders

(* A cycle that ends, well or not. *)
LEMMA RidersAnswered ==
  ASSUME Base, Riders, NEW h \in Thread, threads[h].pc \in Held, NEW ok \in BOOLEAN, Complete(h, ok),
         \A k \in Thread \ {h} : threads'[k] = threads[k],
         threads'[h].pc \in {"loop", "unlock"}, threads'[h].seq = threads[h].seq,
         waiting' = waiting \/ waiting' = waiting \cup riding
  PROVE  Riders'
<1>0. /\ TypeInv /\ Caller \subseteq Thread /\ waiting \subseteq Caller /\ riding \subseteq Caller
      /\ \A c \in Thread : threads[c].seq \in 0..MaxRequests /\ threads'[c].seq = threads[c].seq
      /\ verdict \in [Caller -> {"none", "ok", "failed"}]
  BY Fields DEF Base, TypeInv, TypeOK, Thread
<1>1. /\ completed' = threads[h].through /\ riding' = {}
      /\ verdict' = [c \in Caller |-> IF c \in riding /\ verdict[c] = "none"
                                      THEN IF ok THEN "ok" ELSE "failed" ELSE verdict[c]]
  BY <1>0, Completes DEF Complete
<1>2. \A k \in Thread : threads'[k].pc \notin Held
  BY OnlyOne, PCNames
<1>3. \A c \in Caller : c \in waiting' \cup riding' =>
          /\ threads'[c].pc \notin {"start", "idle", "arm"}
          /\ verdict'[c] = "none" => completed' < threads'[c].seq
  <2> SUFFICES ASSUME NEW c \in Caller, c \in waiting \cup riding
               PROVE  /\ threads'[c].pc \notin {"start", "idle", "arm"}
                      /\ verdict'[c] = "none" => completed' < threads'[c].seq
    BY <1>1
  <2>1. threads'[c].pc \notin {"start", "idle", "arm"}
    BY <1>0 DEF Riders
  <2>2. ASSUME verdict'[c] = "none" PROVE completed' < threads'[c].seq
    <3>1. c \in waiting
      BY <1>1, <2>2
    <3> QED BY <1>0, <1>1, <3>1 DEF Riders
  <2> QED BY <2>1, <2>2
<1>4. \A c \in Caller : verdict'[c] = "failed" => HiddenBy(threads'[c].seq, expired', failures')
  <2> SUFFICES ASSUME NEW c \in Caller, verdict'[c] = "failed"
               PROVE  HiddenBy(threads[c].seq, expired', failures')
    BY <1>0
  <2>1. \/ verdict[c] = "failed"
        \/ ~ok /\ c \in riding /\ verdict[c] = "none"
    BY <1>1
  <2>2. \/ HiddenBy(threads[c].seq, expired, failures)
        \/ ~ok /\ completed < threads[c].seq /\ threads[c].seq <= threads[h].through
    BY <2>1 DEF Riders
  <2>3. threads[c].seq \in 0..MaxRequests
    BY <1>0
  <2> QED BY <1>0, <2>2, <2>3, Hides
<1> QED BY <1>1, <1>2, <1>3, <1>4 DEF Riders
LEMMA RidersCycle ==
  ASSUME Base, Riders, NEW h \in Thread, CycleStep(h)
  PROVE  Riders'
<1>0. /\ TypeOK /\ Sequences /\ Caller \subseteq Thread
      /\ waiting \subseteq Caller /\ riding \subseteq Caller
  BY DEF Base, TypeOK, Thread
<1>1. threads[h].pc \in CyclePC /\ threads[h].pc \in Held
  BY <1>0, CycleSteps, PCNames
<1>2. \A k \in Thread \ {h} : threads'[k] = threads[k]
  BY <1>0, CycleEffect
<1>3. CASE GoesOn(h)
  <2>1. /\ UNCHANGED <<completed, expired, failures, verdict, waiting, riding>>
        /\ threads'[h].seq = threads[h].seq /\ threads'[h].through = threads[h].through
        /\ threads'[h].pc \in {"recover", "resume", "plan"}
    BY <1>3 DEF GoesOn, Becomes
  <2>2. threads'[h].pc \in Held /\ threads'[h].pc \notin {"start", "idle", "arm"}
    BY <2>1, PCNames
  <2>3. \A c \in Caller : /\ threads'[c].seq = threads[c].seq
                          /\ threads'[c].pc \in {"start", "idle", "arm"} => threads'[c].pc = threads[c].pc
    BY <1>0, <1>2, <2>1, <2>2
  <2>4. \A k \in Thread : /\ threads'[k].pc \in Held <=> threads[k].pc \in Held
                          /\ threads'[k].pc \in Held => threads'[k].through = threads[k].through
    BY <1>1, <1>2, <2>1, <2>2
  <2> QED BY <1>0, <2>1, <2>3, <2>4, RidersFrame
<1>4. CASE EndsWell(h)
  <2>1. /\ Complete(h, TRUE) /\ threads'[h].pc = "loop" /\ threads'[h].seq = threads[h].seq
        /\ waiting' = waiting \/ waiting' = waiting \cup riding
    BY <1>4 DEF EndsWell, Becomes
  <2> QED BY <1>1, <1>2, <2>1, RidersAnswered
<1>5. ASSUME NEW r \in {"recoverable", "fatal"}, BreaksOff(h, r) PROVE Riders'
  <2>1. /\ Complete(h, FALSE) /\ threads'[h].pc = "unlock" /\ threads'[h].seq = threads[h].seq
        /\ waiting' = waiting \/ waiting' = waiting \cup riding
    BY <1>5 DEF BreaksOff, Becomes
  <2> QED BY <1>1, <1>2, <2>1, RidersAnswered
<1> QED BY <1>0, <1>3, <1>4, <1>5, CycleDetail

LEMMA RidersTake ==
  ASSUME Base, Riders, NEW h \in Thread, Take(h)
  PROVE  Riders'
<1>0. /\ TypeOK /\ Caller \subseteq Thread /\ waiting \subseteq Caller /\ riding \subseteq Caller
      /\ \A c \in Thread : threads[c].seq <= requested
  BY DEF Base, TypeOK, Thread, Sequences
<1>1. /\ threads[h].pc = "loop" /\ \A k \in Thread \ {h} : threads'[k] = threads[k]
      /\ threads'[h].seq = threads[h].seq
      /\ UNCHANGED <<completed, expired, failures, verdict>>
  BY <1>0, TakeMoves DEF Becomes
<1>2. \A k \in Thread : threads[k].pc \notin Held
  BY <1>1, OnlyOne, PCNames
<1>3. \A c \in Caller : threads'[c].seq = threads[c].seq
  BY <1>0, <1>1
<1>4. CASE pending = {}
  <2>1. threads'[h].pc = "unlock" /\ UNCHANGED <<waiting, riding>>
    BY <1>0, <1>4, TakeMoves DEF Becomes
  <2>2. \A k \in Thread : threads'[k].pc \notin Held
    BY <1>1, <1>2, <2>1, PCNames
  <2>3. \A c \in Caller : threads'[c].pc \in {"start", "idle", "arm"} => threads'[c].pc = threads[c].pc
    BY <1>0, <1>1, <2>1
  <2> QED BY <1>0, <1>1, <1>2, <1>3, <2>1, <2>2, <2>3, RidersFrame
<1>5. CASE pending # {}
  <2>1. /\ threads'[h].pc = "gates" /\ threads'[h].through = requested
        /\ riding' = waiting /\ waiting' = {}
    BY <1>0, <1>5, TakeMoves DEF Becomes
  <2>2. \A k \in Thread : threads'[k].pc \in Held => k = h
    BY <1>1, <1>2
  <2>3. threads'[h].pc \in Held
    BY <2>1, PCNames
  <2>4. \A c \in Caller : threads'[c].pc \in {"start", "idle", "arm"} => threads'[c].pc = threads[c].pc
    BY <1>0, <1>1, <2>1
  <2>5. \A c \in Caller : c \in waiting' \cup riding' =>
          /\ threads'[c].pc \notin {"start", "idle", "arm"}
          /\ verdict'[c] = "none" => completed' < threads'[c].seq
    BY <1>1, <1>3, <2>1, <2>4 DEF Riders
  <2>6. \A k \in Thread : threads'[k].pc \in Held =>
          /\ \A c \in riding' : threads'[c].seq <= threads'[k].through
          /\ \A c \in waiting' : threads'[k].through < threads'[c].seq
    BY <1>0, <1>3, <2>1, <2>2
  <2>7. \A c \in Caller : verdict'[c] = "failed" => HiddenBy(threads'[c].seq, expired', failures')
    BY <1>1, <1>3 DEF Riders
  <2> QED BY <2>3, <2>5, <2>6, <2>7 DEF Riders
<1> QED BY <1>4, <1>5

LEMMA RidersGates ==
  ASSUME Base, Riders, NEW h \in Thread, Gates(h)
  PROVE  Riders'
<1>0. /\ TypeOK /\ Caller \subseteq Thread /\ waiting \subseteq Caller /\ riding \subseteq Caller
  BY DEF Base, TypeOK, Thread
<1>1. /\ threads[h].pc = "gates" /\ \A k \in Thread \ {h} : threads'[k] = threads[k]
      /\ threads'[h].seq = threads[h].seq
      /\ UNCHANGED <<completed, expired, failures, verdict>>
  BY <1>0, GatesMoves DEF Becomes
<1>2. threads[h].pc \in Held /\ \A k \in Thread : k # h => threads[k].pc \notin Held
  BY <1>1, OnlyOne, PCNames
<1>3. \A c \in Caller : threads'[c].seq = threads[c].seq
  BY <1>0, <1>1
<1>4. CASE threads'[h].pc = "refresh"
  <2>1. threads'[h].through = threads[h].through /\ UNCHANGED <<waiting, riding>>
    BY <1>0, <1>4, GatesMoves DEF Becomes
  <2>2. threads'[h].pc \in Held
    BY <1>4, PCNames
  <2>3. \A c \in Caller : threads'[c].pc \in {"start", "idle", "arm"} => threads'[c].pc = threads[c].pc
    BY <1>0, <1>1, <1>4
  <2>4. \A k \in Thread : /\ threads'[k].pc \in Held <=> threads[k].pc \in Held
                          /\ threads'[k].pc \in Held => threads'[k].through = threads[k].through
    BY <1>1, <1>2, <2>1, <2>2
  <2> QED BY <1>0, <1>1, <1>3, <2>1, <2>3, <2>4, RidersFrame
<1>5. CASE threads'[h].pc # "refresh"
  <2>1. /\ threads'[h].pc = "unlock" /\ riding' = {}
        /\ waiting' = waiting \/ waiting' = waiting \cup riding
    BY <1>0, <1>5, GatesMoves DEF Becomes
  <2>2. \A k \in Thread : threads'[k].pc \notin Held
    BY <1>1, <1>2, <2>1, PCNames
  <2>4. \A c \in Caller : threads'[c].pc \in {"start", "idle", "arm"} => threads'[c].pc = threads[c].pc
    BY <1>0, <1>1, <2>1
  <2>5. \A c \in Caller : c \in waiting' \cup riding' =>
          /\ threads'[c].pc \notin {"start", "idle", "arm"}
          /\ verdict'[c] = "none" => completed' < threads'[c].seq
    BY <1>1, <1>3, <2>1, <2>4 DEF Riders
  <2>7. \A c \in Caller : verdict'[c] = "failed" => HiddenBy(threads'[c].seq, expired', failures')
    BY <1>1, <1>3 DEF Riders
  <2> QED BY <2>1, <2>2, <2>5, <2>7 DEF Riders
<1> QED BY <1>4, <1>5

LEMMA RidersCall ==
  ASSUME Base, Riders, NEW h \in Caller, NEW bits, Call(h, bits)
  PROVE  Riders'
<1>0. /\ TypeOK /\ Caller \subseteq Thread /\ waiting \subseteq Caller /\ riding \subseteq Caller
      /\ verdict \in [Caller -> {"none", "ok", "failed"}] /\ MaxRequests \in Nat
      /\ requested \in 0..MaxRequests /\ completed \in 0..requested
  BY CycleBoundAssumption DEF Base, TypeOK, Thread
<1>1. /\ threads[h].pc \in {"start", "idle"} /\ requested' = requested + 1
      /\ waiting' = waiting \cup {h} /\ verdict' = [verdict EXCEPT ![h] = "none"]
      /\ UNCHANGED <<completed, expired, failures, riding>>
  BY <1>0, CallMoves
<1>2. /\ threads'[h].pc = "lock" /\ threads'[h].seq = requested'
      /\ \A k \in Thread \ {h} : threads'[k] = threads[k]
  BY <1>0, CallMoves DEF Becomes
<1>3. h \notin waiting \cup riding
  BY <1>1 DEF Riders
<1>4. \A k \in Thread : threads'[k].pc \in Held <=> (k # h /\ threads[k].pc \in Held)
  BY <1>2, PCNames
<1>5. threads[h].pc \notin Held
  BY <1>1, PCNames
<1>6. \A c \in Caller : c \in waiting' \cup riding' =>
          /\ threads'[c].pc \notin {"start", "idle", "arm"}
          /\ verdict'[c] = "none" => completed' < threads'[c].seq
  <2> SUFFICES ASSUME NEW c \in Caller, c \in waiting' \cup riding'
               PROVE  /\ threads'[c].pc \notin {"start", "idle", "arm"}
                      /\ verdict'[c] = "none" => completed' < threads'[c].seq
    OBVIOUS
  <2>1. CASE c = h
    BY <1>0, <1>1, <1>2, <2>1
  <2>2. CASE c # h
    <3>1. c \in waiting \cup riding /\ threads'[c] = threads[c] /\ verdict'[c] = verdict[c]
      BY <1>0, <1>1, <1>2, <2>2
    <3> QED BY <1>1, <3>1 DEF Riders
  <2> QED BY <2>1, <2>2
<1>7. riding' # {} => \E k \in Thread : threads'[k].pc \in Held
  BY <1>1, <1>4, <1>5 DEF Riders
<1>8. \A k \in Thread : threads'[k].pc \in Held =>
          /\ \A c \in riding' : threads'[c].seq <= threads'[k].through
          /\ \A c \in waiting' : threads'[k].through < threads'[c].seq
  <2> SUFFICES ASSUME NEW k \in Thread, threads'[k].pc \in Held
               PROVE  /\ \A c \in riding' : threads'[c].seq <= threads'[k].through
                      /\ \A c \in waiting' : threads'[k].through < threads'[c].seq
    OBVIOUS
  <2>1. k # h /\ threads'[k] = threads[k] /\ threads[k].pc \in Held
    BY <1>2, <1>4
  <2>2. threads[k].through \in 1..requested
    BY <2>1 DEF Base, Sequences
  <2>3. \A c \in riding : threads'[c] = threads[c]
    BY <1>0, <1>2, <1>3
  <2>4. \A c \in waiting : threads'[c] = threads[c]
    BY <1>0, <1>2, <1>3
  <2>5. threads[k].through < threads'[h].seq
    BY <1>0, <1>1, <1>2, <2>2
  <2> QED BY <1>1, <2>1, <2>3, <2>4, <2>5 DEF Riders
<1>9. \A c \in Caller : verdict'[c] = "failed" => HiddenBy(threads'[c].seq, expired', failures')
  <2> SUFFICES ASSUME NEW c \in Caller, verdict'[c] = "failed"
               PROVE  HiddenBy(threads'[c].seq, expired', failures')
    OBVIOUS
  <2>1. c # h /\ verdict[c] = "failed" /\ threads'[c] = threads[c]
    BY <1>0, <1>1, <1>2
  <2> QED BY <1>1, <2>1 DEF Riders
<1> QED BY <1>6, <1>7, <1>8, <1>9 DEF Riders

(* A caller that goes away is no longer in line. *)
LEMMA RidersGone ==
  ASSUME Base, Riders, NEW h \in Thread, Answer(h) \/ Arm(h)
  PROVE  Riders'
<1>0. /\ TypeOK /\ Caller \subseteq Thread /\ waiting \subseteq Caller /\ riding \subseteq Caller
      /\ expired \in Nat
  BY CycleBoundAssumption DEF Base, TypeOK, Thread
<1>1. /\ threads[h].pc \in {"answer", "arm"} /\ \A k \in Thread \ {h} : threads'[k] = threads[k]
      /\ threads'[h].seq = threads[h].seq \/ threads'[h].seq = 0
      /\ threads'[h].pc \in {"idle", "arm"}
  BY <1>0, AnswerMoves, ArmMoves DEF Becomes
<1>2. UNCHANGED <<completed, expired, failures, verdict>>
  BY <1>0, AnswerMoves, ArmMoves DEF coordinator, ghosts
<1>3. waiting' = waiting \ {h} /\ riding' = riding \ {h}
  <2>1. CASE Answer(h)
    BY <1>0, <2>1, AnswerMoves
  <2>2. CASE Arm(h)
    <3>1. threads[h].pc = "arm" /\ UNCHANGED <<waiting, riding>>
      BY <1>0, <2>2, ArmMoves DEF ghosts
    <3>2. h \notin waiting \cup riding
      BY <1>0, <3>1 DEF Riders
    <3> QED BY <3>1, <3>2
  <2> QED BY <2>1, <2>2
<1>4. \A c \in waiting' \cup riding' : c \in waiting \cup riding /\ threads'[c] = threads[c]
  BY <1>0, <1>1, <1>3
<1>5. \A k \in Thread : threads'[k].pc \in Held <=> threads[k].pc \in Held
  BY <1>1, PCNames
<1>6. \A k \in Thread : threads'[k].pc \in Held => threads'[k] = threads[k]
  BY <1>1, PCNames
<1>7. \A c \in Caller : verdict'[c] = "failed" => HiddenBy(threads'[c].seq, expired', failures')
  <2> SUFFICES ASSUME NEW c \in Caller, verdict[c] = "failed"
               PROVE  HiddenBy(threads'[c].seq, expired, failures)
    BY <1>2
  <2>1. CASE threads'[c].seq = threads[c].seq
    BY <2>1 DEF Riders
  <2>2. CASE threads'[c].seq # threads[c].seq
    <3>1. threads'[c].seq = 0
      BY <1>0, <1>1, <2>2
    <3>2. 0 <= expired
      BY <1>0
    <3> QED BY <3>1, <3>2 DEF HiddenBy
  <2> QED BY <2>1, <2>2
<1>8. riding' # {} => \E k \in Thread : threads'[k].pc \in Held
  BY <1>3, <1>5 DEF Riders
<1>9. \A k \in Thread : threads'[k].pc \in Held =>
          /\ \A c \in riding' : threads'[c].seq <= threads'[k].through
          /\ \A c \in waiting' : threads'[k].through < threads'[c].seq
  BY <1>3, <1>4, <1>5, <1>6 DEF Riders
<1>10. \A c \in Caller : c \in waiting' \cup riding' =>
          /\ threads'[c].pc \notin {"start", "idle", "arm"}
          /\ verdict'[c] = "none" => completed' < threads'[c].seq
  BY <1>2, <1>4 DEF Riders
<1> QED BY <1>7, <1>8, <1>9, <1>10 DEF Riders

LEMMA RidersStep == Base /\ Riders /\ [Next]_vars => Riders'
<1> SUFFICES ASSUME Base, Riders, [Next]_vars PROVE Riders'
  OBVIOUS
<1>0. /\ TypeOK /\ Caller \subseteq Thread /\ waiting \subseteq Caller /\ riding \subseteq Caller
  BY DEF Base, TypeOK, Thread
<1>1. ASSUME NEW h \in Thread, Acquire(h) \/ Unlock(h) PROVE Riders'
  <2>1. /\ threads[h].pc \in {"lock", "unlock"}
        /\ threads'[h].pc \in {"answer", "loop", "sleep", "clear"}
        /\ threads'[h].seq = threads[h].seq /\ \A k \in Thread \ {h} : threads'[k] = threads[k]
    BY <1>0, <1>1, AcquireMoves, UnlockMoves DEF Becomes
  <2>2. UNCHANGED <<completed, expired, failures, verdict, waiting, riding>>
    BY <1>0, <1>1, AcquireMoves, UnlockMoves DEF coordinator, ghosts
  <2>3. \A c \in Caller : /\ threads'[c].seq = threads[c].seq
                          /\ threads'[c].pc \in {"start", "idle", "arm"} => threads'[c].pc = threads[c].pc
    BY <1>0, <2>1
  <2>4. \A k \in Thread : /\ threads'[k].pc \in Held <=> threads[k].pc \in Held
                          /\ threads'[k].pc \in Held => threads'[k].through = threads[k].through
    BY <2>1, PCNames
  <2> QED BY <1>0, <2>2, <2>3, <2>4, RidersFrame
<1>2. ASSUME NEW h \in Thread, Wake(h) \/ Clear(h) \/ Recheck(h) PROVE Riders'
  <2>1. /\ threads[h].pc \in {"sleep", "clear", "recheck"}
        /\ threads'[h].pc \in {"lock", "clear", "recheck", "idle"}
        /\ \A k \in Thread \ {h} : threads'[k] = threads[k]
    BY <1>0, <1>2, WakeMoves, ClearMoves, RecheckMoves DEF Becomes
  <2>2. UNCHANGED <<completed, expired, failures, verdict, waiting, riding>>
    BY <1>0, <1>2, WakeMoves, ClearMoves, RecheckMoves DEF coordinator, ghosts
  <2>3. h \notin Caller
    BY <2>1 DEF Base, Roles
  <2>4. \A c \in Caller : threads'[c] = threads[c]
    BY <1>0, <2>1, <2>3
  <2>5. \A k \in Thread : /\ threads'[k].pc \in Held <=> threads[k].pc \in Held
                          /\ threads'[k].pc \in Held => threads'[k].through = threads[k].through
    BY <2>1, PCNames
  <2> QED BY <1>0, <2>2, <2>4, <2>5, RidersFrame
<1>3. ASSUME NEW h \in Caller, NEW bits, Call(h, bits) PROVE Riders'
  BY <1>3, RidersCall
<1>4. ASSUME NEW s \in Source, Ring(s) PROVE Riders'
  <2>1. UNCHANGED <<completed, expired, failures, verdict, waiting, riding>>
    BY <1>0, <1>4, RingMoves DEF coordinator, ghosts
  <2>2. CASE UNCHANGED threads
    BY <1>0, <2>1, <2>2, RidersFrame
  <2>3. CASE ~UNCHANGED threads
    <3>1. PICK w \in Worker : threads[w].pc = "idle" /\ Becomes(w, "lock", 0, {}, 0, "ok")
      BY <1>0, <1>4, <2>3, RingMoves
    <3>2. w \notin Caller /\ w \in Thread
      BY <3>1, ThreadAssumption DEF Thread
    <3>3. threads'[w].pc = "lock" /\ \A k \in Thread \ {w} : threads'[k] = threads[k]
      BY <3>1 DEF Becomes
    <3>4. \A c \in Caller : threads'[c] = threads[c]
      BY <1>0, <3>2, <3>3
    <3>5. \A k \in Thread : /\ threads'[k].pc \in Held <=> threads[k].pc \in Held
                            /\ threads'[k].pc \in Held => threads'[k].through = threads[k].through
      BY <3>1, <3>3, PCNames
    <3> QED BY <1>0, <2>1, <3>4, <3>5, RidersFrame
  <2> QED BY <2>2, <2>3
<1>5. CASE LocalChange \/ NetworkEdge \/ EndFolderSync
  <2>1. UNCHANGED <<completed, expired, failures, verdict, waiting, riding, threads>>
    BY <1>0, <1>5, SourceMoves
  <2> QED BY <1>0, <2>1, RidersFrame
<1>6. CASE BeginFolderSync \/ NetworkDown \/ NetworkUp \/ Shutdown \/ Quiesce
  <2>1. UNCHANGED <<completed, expired, failures, verdict, waiting, riding, threads>>
    BY <1>6, WorldMoves DEF coordinator, ghosts
  <2> QED BY <1>0, <2>1, RidersFrame
<1>7. CASE UNCHANGED vars
  <2>1. UNCHANGED <<completed, expired, failures, verdict, waiting, riding, threads>>
    BY <1>7 DEF vars, coordinator, ghosts
  <2> QED BY <1>0, <2>1, RidersFrame
<1> QED BY <1>1, <1>2, <1>3, <1>4, <1>5, <1>6, <1>7, RidersCycle, RidersTake, RidersGates,
           RidersGone, ThreadAssumption DEF Next, Step, CycleStep

(* No caller is told that its cycle went well when the first cycle to serve *)
(* its request failed: not when another task ran that cycle, and not when   *)
(* the failure has left the history complete() keeps (128 entries).         *)
THEOREM HonestSuccess == Spec => []NoFalseOk
<1>1. Init => Riders
  BY DEF Init, Riders
<1>2. Spec => []Riders
  BY <1>1, RidersStep, BaseAlways, PTL DEF Spec
<1>3. Base /\ Riders => NoFalseOk
  <2> SUFFICES ASSUME Base, Riders, NEW c \in Caller, ToldOk(c), verdict[c] = "failed"
               PROVE  FALSE
    BY DEF NoFalseOk
  <2>1. HiddenBy(threads[c].seq, expired, failures)
    BY DEF Riders
  <2>2. threads[c].seq \in Nat /\ expired \in Nat /\ DOMAIN failures = 1..Len(failures)
    BY Fields, CycleBoundAssumption DEF Base, TypeOK, Thread
  <2>3. Succeeded(threads[c].seq)
    BY DEF ToldOk
  <2> QED BY <2>1, <2>2, <2>3 DEF HiddenBy, Succeeded
<1> QED BY <1>2, <1>3, BaseAlways, PTL
-----------------------------------------------------------------------------
(* Workers. *)
(* The flag and the worker it stands for. *)
Working(w) == threads[w].pc \in OwnerPC \cup {"lock", "sleep", "clear"}
Scheduling ==
    /\ \A w \in Worker : Working(w) => scheduled
    /\ \A v, w \in Worker : Working(v) /\ Working(w) => v = w
    /\ scheduled => \E w \in Worker : Working(w)

(* A thread on its way to what is pending now: it will take the bits, or    *)
(* look once more before it rests.                                          *)
Newer(h) == threads[h].res = "ok" \/ completed < requested
Covers(h) ==
    \/ threads[h].pc \in Held \cup {"loop"}
    \/ At(h, "lock") /\ (h \in Worker \/ completed < threads[h].seq)
    \/ At(h, "sleep")
    \/ h \in Worker /\ At(h, "unlock") /\ (threads[h].res # "fatal" \/ completed < requested)
    \/ h \in Worker /\ At(h, "clear") /\ Newer(h)
    \/ h \in Worker /\ At(h, "recheck") /\ ~scheduled /\ Newer(h)
    \/ At(h, "arm") /\ ~scheduled

Waits == pending # {} /\ online /\ ~folderSyncing /\ ~shutdown /\ ~stalled /\ ~edge
Counted == scheduled \/ (started /\ ringing = {})
Covered == Waits /\ Counted => \E h \in Thread : Covers(h)

(* A thread that does not move goes on covering. *)
LEMMA StillCovers ==
  ASSUME Base, NEW k \in Thread, Covers(k), threads'[k] = threads[k],
         UNCHANGED completed, requested' \in Nat, requested <= requested',
         scheduled' => scheduled
  PROVE  Covers(k)'
<1>0. requested \in Nat /\ completed \in Nat
  BY CycleBoundAssumption DEF Base, TypeOK
<1>1. completed < requested => completed' < requested'
  BY <1>0
<1> QED BY <1>1 DEF Covers, At, Newer

LEMMA AcquireLoops ==
  ASSUME TypeOK, NEW h \in Thread, Acquire(h), threads[h].seq = 0 \/ completed < threads[h].seq
  PROVE  threads'[h].pc = "loop"
<1>1. threads[h].seq \in Nat /\ completed \in Nat
  BY Fields, CycleBoundAssumption DEF TypeOK
<1>2. ~(threads[h].seq > 0 /\ threads[h].seq <= completed)
  BY <1>1
<1>3. Becomes(h, "loop", threads[h].seq, threads[h].bits, threads[h].through, threads[h].res)
  BY <1>2, AcquireMoves
<1> QED BY <1>3 DEF Becomes

LEMMA SchedulingStep == Base /\ Scheduling /\ [Next]_vars => Scheduling'
<1> SUFFICES ASSUME Base, Scheduling, [Next]_vars PROVE Scheduling'
  OBVIOUS
<1>0. TypeOK /\ Sequences /\ Worker \subseteq Thread
  BY DEF Base, Thread
<1>1. ASSUME UNCHANGED scheduled, \A w \in Worker : Working(w)' <=> Working(w)
      PROVE  Scheduling'
  BY <1>1 DEF Scheduling
<1>2. ASSUME NEW h \in Thread, \A k \in Thread \ {h} : threads'[k] = threads[k],
             h \in Worker => (Working(h)' <=> Working(h))
      PROVE  \A w \in Worker : Working(w)' <=> Working(w)
  BY <1>0, <1>2 DEF Working
<1>3. ASSUME NEW h \in Thread, Acquire(h) \/ Take(h) \/ Gates(h) \/ Unlock(h)
      PROVE  Scheduling'
  <2>1. UNCHANGED scheduled
    BY <1>0, <1>3, AcquireMoves, TakeMoves, GatesMoves, UnlockMoves DEF asking
  <2>2. \A k \in Thread \ {h} : threads'[k] = threads[k]
    BY <1>3, StepFrame DEF Step
  <2>3. Working(h)
    BY <1>0, <1>3, AcquireMoves, TakeMoves, GatesMoves, UnlockMoves, PCNames DEF Working
  <2>4. ASSUME h \in Worker PROVE Working(h)'
    <3>1. threads[h].seq = 0 /\ h \notin Caller
      BY <2>4, ThreadAssumption DEF Base, Roles
    <3>2. CASE Acquire(h)
      BY <1>0, <3>1, <3>2, AcquireLoops, PCNames DEF Working
    <3>3. CASE Take(h)
      BY <1>0, <3>3, TakeMoves, PCNames DEF Working, Becomes
    <3>4. CASE Gates(h)
      BY <1>0, <3>4, GatesMoves, PCNames DEF Working, Becomes
    <3>5. CASE Unlock(h)
      BY <1>0, <3>1, <3>5, UnlockMoves, PCNames DEF Working, Becomes
    <3> QED BY <1>3, <3>2, <3>3, <3>4, <3>5
  <2> QED BY <1>1, <1>2, <2>1, <2>2, <2>3, <2>4
<1>4. ASSUME NEW h \in Thread, CycleStep(h) PROVE Scheduling'
  <2>1. UNCHANGED scheduled /\ threads[h].pc \in CyclePC
    BY <1>0, <1>4, CycleSteps DEF asking
  <2>2. /\ threads'[h].pc \in CyclePC \cup {"loop", "unlock"}
        /\ \A k \in Thread \ {h} : threads'[k] = threads[k]
    BY <1>0, <1>4, CycleEffect
  <2>3. Working(h) /\ Working(h)'
    BY <2>1, <2>2, PCNames DEF Working
  <2> QED BY <1>1, <1>2, <2>1, <2>2, <2>3
<1>5. ASSUME NEW h \in Thread, Answer(h) \/ Arm(h) PROVE Scheduling'
  <2>1. UNCHANGED scheduled
    BY <1>0, <1>5, AnswerMoves, ArmMoves DEF asking
  <2>2. \A k \in Thread \ {h} : threads'[k] = threads[k]
    BY <1>0, <1>5, AnswerMoves, ArmMoves DEF Becomes
  <2>3. threads[h].pc \in {"answer", "arm"}
    BY <1>0, <1>5, AnswerMoves, ArmMoves
  <2>4. h \notin Worker
    BY <2>3 DEF Base, Roles
  <2> QED BY <1>1, <1>2, <2>1, <2>2, <2>4
<1>6. ASSUME NEW h \in Thread, Wake(h) PROVE Scheduling'
  <2>1. UNCHANGED scheduled
    BY <1>0, <1>6, WakeMoves DEF asking
  <2>2. /\ \A k \in Thread \ {h} : threads'[k] = threads[k]
        /\ threads[h].pc = "sleep" /\ threads'[h].pc \in {"lock", "clear"}
    BY <1>0, <1>6, WakeMoves DEF Becomes
  <2> QED BY <1>1, <1>2, <2>1, <2>2 DEF Working
<1>7. ASSUME NEW h \in Thread, Clear(h) PROVE Scheduling'
  <2>1. /\ \A k \in Thread \ {h} : threads'[k] = threads[k]
        /\ scheduled' = FALSE
        /\ threads[h].pc = "clear" /\ threads'[h].pc = "recheck"
    BY <1>0, <1>7, ClearMoves DEF Becomes
  <2>2. h \in Worker
    BY <2>1 DEF Base, Roles, Thread
  <2>3. Working(h) /\ ~Working(h)'
    BY <2>1, PCNames DEF Working
  <2>4. \A w \in Worker : ~Working(w)'
    BY <1>0, <2>1, <2>2, <2>3 DEF Scheduling, Working
  <2>5. ~scheduled'
    BY <2>1
  <2> QED BY <2>4, <2>5 DEF Scheduling
<1>8. ASSUME NEW w \in Worker, ~scheduled, scheduled' = TRUE, Becomes(w, "lock", 0, {}, 0, "ok")
      PROVE  Scheduling'
  <2>1. Working(w)' /\ \A k \in Thread \ {w} : threads'[k] = threads[k]
    BY <1>8 DEF Becomes, Working
  <2>2. \A v \in Worker : ~Working(v)
    BY <1>8 DEF Scheduling
  <2>3. \A v \in Worker : Working(v)' => v = w
    BY <1>0, <2>1, <2>2 DEF Working
  <2> QED BY <1>8, <2>1, <2>3 DEF Scheduling
<1>9. ASSUME NEW h \in Thread, Recheck(h) PROVE Scheduling'
  <2>1. threads[h].pc = "recheck"
    BY <1>0, <1>9, RecheckMoves
  <2>2. h \in Worker
    BY <2>1 DEF Base, Roles, Thread
  <2>3. CASE scheduled' = TRUE /\ ~scheduled /\ Becomes(h, "lock", 0, {}, 0, "ok")
    BY <1>8, <2>2, <2>3
  <2>4. CASE Becomes(h, "idle", 0, {}, 0, "ok") /\ UNCHANGED scheduled
    <3>1. \A k \in Thread \ {h} : threads'[k] = threads[k]
      BY <2>4 DEF Becomes
    <3>2. ~Working(h) /\ ~Working(h)'
      BY <2>1, <2>4, PCNames DEF Becomes, Working
    <3> QED BY <1>1, <1>2, <2>4, <3>1, <3>2
  <2> QED BY <1>0, <1>9, <2>3, <2>4, RecheckMoves
<1>10. ASSUME NEW h \in Caller, NEW bits, Call(h, bits) PROVE Scheduling'
  <2>1. UNCHANGED scheduled /\ h \in Thread /\ h \notin Worker
    BY <1>0, <1>10, CallMoves, ThreadAssumption DEF asking
  <2>2. \A k \in Thread \ {h} : threads'[k] = threads[k]
    BY <1>0, <1>10, CallMoves DEF Becomes
  <2> QED BY <1>1, <1>2, <2>1, <2>2
<1>11. ASSUME NEW s \in Source, Ring(s) PROVE Scheduling'
  <2>1. CASE UNCHANGED <<scheduled, threads>>
    BY <1>1, <2>1 DEF Working
  <2>2. CASE ~UNCHANGED <<scheduled, threads>>
    BY <1>0, <1>8, <1>11, <2>2, RingMoves
  <2> QED BY <2>1, <2>2
<1>12. CASE LocalChange \/ NetworkEdge \/ EndFolderSync
  <2>1. UNCHANGED <<threads, scheduled>>
    BY <1>0, <1>12, SourceMoves
  <2> QED BY <1>1, <2>1 DEF Working
<1>13. CASE BeginFolderSync \/ NetworkDown \/ NetworkUp \/ Shutdown \/ Quiesce
  <2>1. UNCHANGED <<threads, scheduled>>
    BY <1>13, WorldMoves DEF asking
  <2> QED BY <1>1, <2>1 DEF Working
<1>14. CASE UNCHANGED vars
  <2>1. UNCHANGED <<threads, scheduled>>
    BY <1>14 DEF vars, asking
  <2> QED BY <1>1, <2>1 DEF Working
<1> QED BY <1>3, <1>4, <1>5, <1>6, <1>7, <1>9, <1>10, <1>11, <1>12, <1>13, <1>14,
           ThreadAssumption DEF Next, Step, CycleStep

LEMMA CoveredStep == Base /\ Scheduling /\ Covered /\ [Next]_vars => Covered'
<1> SUFFICES ASSUME Base, Scheduling, Covered, [Next]_vars, Waits', Counted'
             PROVE  \E h \in Thread : Covers(h)'
  BY DEF Covered
<1>0. /\ TypeOK /\ Sequences /\ Caller \subseteq Thread /\ Worker \subseteq Thread
      /\ requested \in Nat /\ completed \in Nat /\ MaxRequests \in Nat
      /\ pending' # {} /\ online' /\ ~folderSyncing' /\ ~shutdown' /\ ~stalled' /\ ~edge'
  BY CycleBoundAssumption DEF Base, TypeOK, Thread, Waits
<1>1. ASSUME NEW h \in Thread, Acquire(h) PROVE \E k \in Thread : Covers(k)'
  <2>1. /\ threads[h].pc = "lock" /\ \A k \in Thread \ {h} : threads'[k] = threads[k]
        /\ UNCHANGED <<coordinator, folder, asking, life, net, ghosts>>
    BY <1>0, <1>1, AcquireMoves DEF Becomes
  <2>2. PICK k \in Thread : Covers(k)
    BY <2>1 DEF Covered, Waits, Counted, coordinator, folder, asking, life, net, ghosts
  <2>3. CASE k # h
    BY <1>0, <2>1, <2>2, <2>3, StillCovers DEF coordinator, asking
  <2>4. CASE k = h
    <3>1. h \in Worker \/ completed < threads[h].seq
      BY <2>1, <2>2, <2>4, PCNames DEF Covers, At
    <3>2. threads[h].seq \in Nat /\ (h \in Worker => threads[h].seq = 0)
      BY <1>0, Fields DEF Base, TypeOK, Roles
    <3>3. threads'[h].pc = "loop"
      BY <1>0, <1>1, <3>1, <3>2, AcquireLoops
    <3> QED BY <3>3 DEF Covers
  <2> QED BY <2>3, <2>4
<1>2. ASSUME NEW h \in Thread, Take(h) PROVE FALSE
  BY <1>0, <1>2, TakeMoves
<1>3. ASSUME NEW h \in Thread, Gates(h) PROVE \E k \in Thread : Covers(k)'
  <2>1. ~shutdown /\ ~folderSyncing /\ online
    BY <1>0, <1>3, GatesMoves DEF life, folder, net
  <2>2. threads'[h].pc = "refresh"
    BY <1>0, <1>3, <2>1, GatesMoves DEF Becomes
  <2> QED BY <2>2, PCNames DEF Covers
<1>4. ASSUME NEW h \in Thread, Unlock(h) PROVE \E k \in Thread : Covers(k)'
  <2>1. /\ threads[h].pc = "unlock" /\ \A k \in Thread \ {h} : threads'[k] = threads[k]
        /\ UNCHANGED <<coordinator, folder, asking, life, net, ghosts>>
    BY <1>0, <1>4, UnlockMoves DEF Becomes
  <2>2. PICK k \in Thread : Covers(k)
    BY <2>1 DEF Covered, Waits, Counted, coordinator, folder, asking, life, net, ghosts
  <2>3. CASE k # h
    BY <1>0, <2>1, <2>2, <2>3, StillCovers DEF coordinator, asking
  <2>4. CASE k = h
    <3>1. h \in Worker /\ (threads[h].res # "fatal" \/ completed < requested) /\ h \notin Caller
      BY <2>1, <2>2, <2>4, PCNames, ThreadAssumption DEF Covers, At
    <3>2. pending # {} /\ UNCHANGED <<completed, requested>>
      BY <1>0, <2>1 DEF coordinator
    <3>3. CASE threads[h].res = "recoverable"
      <4>1. threads'[h].pc = "sleep"
        BY <1>0, <1>4, <3>1, <3>2, <3>3, UnlockMoves DEF Becomes
      <4> QED BY <4>1 DEF Covers, At
    <3>4. CASE threads[h].res # "recoverable"
      <4>1. threads'[h].pc = "clear" /\ threads'[h].res = threads[h].res
        BY <1>0, <1>4, <3>1, <3>4, UnlockMoves DEF Becomes
      <4>2. threads[h].res \in {"ok", "fatal"}
        BY <1>0, <3>4, Fields, PCNames DEF TypeOK
      <4>3. threads'[h].res = "ok" \/ completed' < requested'
        BY <3>1, <3>2, <4>1, <4>2
      <4> QED BY <3>1, <4>1, <4>3 DEF Covers, At, Newer
    <3> QED BY <3>3, <3>4
  <2> QED BY <2>3, <2>4
<1>5. ASSUME NEW h \in Thread, CycleStep(h) PROVE \E k \in Thread : Covers(k)'
  <2>1. threads[h].pc \in CyclePC /\ threads[h].pc \in Held
    BY <1>0, <1>5, CycleSteps, PCNames
  <2>2. CASE GoesOn(h)
    <3>1. threads'[h].pc \in {"recover", "resume", "plan"}
      BY <2>2 DEF GoesOn, Becomes
    <3> QED BY <3>1, PCNames DEF Covers
  <2>3. CASE EndsWell(h)
    <3>1. threads'[h].pc = "loop"
      BY <2>3 DEF EndsWell, Becomes
    <3> QED BY <3>1 DEF Covers
  <2>4. ASSUME NEW r \in {"recoverable", "fatal"}, BreaksOff(h, r) PROVE Covers(h)'
    <3>1. /\ Complete(h, FALSE) /\ threads'[h].pc = "unlock" /\ threads'[h].res = r
          /\ stalled' = Strands(h, r, requested')
      BY <2>4 DEF BreaksOff, Becomes
    <3>2. h \in Worker /\ (r = "fatal" => requested' # threads[h].through)
      BY <1>0, <3>1 DEF Strands, Thread
    <3>3. completed' = threads[h].through
      BY <1>0, <2>1, <3>1, Completes DEF TypeInv
    <3>4. threads[h].through \in 1..requested /\ requested' \in requested..MaxRequests
      BY <1>0, <1>5, <2>1, CycleSteps DEF Sequences, Grows
    <3>5. r = "fatal" => completed' < requested'
      BY <1>0, <3>2, <3>3, <3>4
    <3> QED BY <3>1, <3>2, <3>5 DEF Covers, At
  <2> QED BY <1>0, <1>5, <2>2, <2>3, <2>4, CycleDetail
<1>6. ASSUME NEW h \in Thread, Answer(h) PROVE \E k \in Thread : Covers(k)'
  <2>1. /\ threads[h].pc = "answer" /\ \A k \in Thread \ {h} : threads'[k] = threads[k]
        /\ UNCHANGED <<coordinator, folder, asking, shutdown, net>>
    BY <1>0, <1>6, AnswerMoves DEF Becomes
  <2>2. ~stalled
    BY <1>0, <1>6, AnswerMoves
  <2>3. CASE threads'[h].pc = "arm" /\ ~scheduled
    <3>1. ~scheduled'
      BY <2>1, <2>3 DEF asking
    <3> QED BY <2>3, <3>1 DEF Covers, At
  <2>4. CASE ~(threads'[h].pc = "arm" /\ ~scheduled)
    <3>1. scheduled \/ (UNCHANGED started)
      BY <1>0, <1>6, <2>1, <2>4, AnswerMoves DEF Becomes, coordinator
    <3>2. PICK k \in Thread : Covers(k)
      BY <2>1, <2>2, <3>1 DEF Covered, Waits, Counted, coordinator, folder, asking, net
    <3>3. k # h
      BY <2>1, <3>2, PCNames DEF Covers, At
    <3> QED BY <1>0, <2>1, <3>2, <3>3, StillCovers DEF coordinator, asking
  <2> QED BY <2>3, <2>4
<1>7. ASSUME NEW h \in Thread, Arm(h) PROVE \E k \in Thread : Covers(k)'
  <2>1. /\ threads[h].pc = "arm" /\ \A k \in Thread \ {h} : threads'[k] = threads[k]
        /\ UNCHANGED <<coordinator, folder, scheduled, life, net, ghosts>>
    BY <1>0, <1>7, ArmMoves DEF Becomes
  <2>2. ringing' # {}
    <3>1. online /\ pending # {}
      BY <1>0, <2>1 DEF net, coordinator
    <3> QED BY <1>0, <1>7, <3>1, ArmMoves
  <2>3. scheduled
    BY <2>1, <2>2 DEF Counted
  <2>4. PICK k \in Thread : Covers(k)
    BY <2>1, <2>3 DEF Covered, Waits, Counted, coordinator, folder, life, net, ghosts
  <2>5. k # h
    BY <2>1, <2>3, <2>4, PCNames DEF Covers, At
  <2> QED BY <1>0, <2>1, <2>4, <2>5, StillCovers DEF coordinator
<1>8. ASSUME NEW h \in Thread, Wake(h) PROVE \E k \in Thread : Covers(k)'
  <2>1. online /\ ~shutdown
    BY <1>0, <1>8, WakeMoves DEF net, life
  <2>2. threads[h].pc = "sleep" /\ threads'[h].pc = "lock"
    BY <1>0, <1>8, <2>1, WakeMoves DEF Becomes
  <2>3. h \in Worker
    BY <2>2 DEF Base, Roles, Thread
  <2> QED BY <2>2, <2>3 DEF Covers, At
<1>9. ASSUME NEW h \in Thread, Clear(h) PROVE \E k \in Thread : Covers(k)'
  <2>1. /\ threads[h].pc = "clear" /\ \A k \in Thread \ {h} : threads'[k] = threads[k]
        /\ threads'[h].pc = "recheck" /\ threads'[h].res = threads[h].res
        /\ UNCHANGED <<coordinator, folder, ringing, life, net, ghosts>> /\ scheduled' = FALSE
    BY <1>0, <1>9, ClearMoves DEF Becomes
  <2>2. started /\ ringing = {}
    BY <2>1 DEF Counted, life
  <2>3. PICK k \in Thread : Covers(k)
    BY <2>1, <2>2 DEF Covered, Waits, Counted, coordinator, folder, life, net, ghosts
  <2>4. CASE k = h
    <3>1. h \in Worker /\ Newer(h)
      BY <2>1, <2>3, <2>4, PCNames DEF Covers, At
    <3>2. Newer(h)'
      BY <2>1, <3>1 DEF Newer, coordinator
    <3> QED BY <2>1, <3>1, <3>2 DEF Covers, At
  <2>5. CASE k # h
    BY <1>0, <2>1, <2>3, <2>5, StillCovers DEF coordinator
  <2> QED BY <2>4, <2>5
<1>10. ASSUME NEW h \in Thread, Recheck(h) PROVE \E k \in Thread : Covers(k)'
  <2>1. threads[h].pc = "recheck" /\ UNCHANGED <<coordinator, folder, ringing, life, net, ghosts>>
    BY <1>0, <1>10, RecheckMoves
  <2>2. h \in Worker
    BY <2>1 DEF Base, Roles, Thread
  <2>3. CASE Becomes(h, "lock", 0, {}, 0, "ok")
    BY <2>2, <2>3 DEF Covers, At, Becomes
  <2>4. CASE /\ ~MayContinue(h) \/ scheduled
             /\ Becomes(h, "idle", 0, {}, 0, "ok") /\ UNCHANGED scheduled
    <3>1. PICK k \in Thread : Covers(k)
      BY <2>1, <2>4 DEF Covered, Waits, Counted, coordinator, folder, life, net, ghosts
    <3>2. CASE k = h
      <4>1. ~scheduled /\ Newer(h)
        BY <2>1, <3>1, <3>2, PCNames DEF Covers, At
      <4>2. ~scheduled'
        BY <2>4, <4>1
      <4>3. started /\ pending # {} /\ online /\ ~folderSyncing /\ ~shutdown
        BY <1>0, <2>1, <4>2 DEF Counted, coordinator, folder, life, net
      <4>4. MayContinue(h)
        BY <1>0, <4>1, <4>3 DEF MayContinue, Newer
      <4> QED BY <2>4, <4>1, <4>4
    <3>3. CASE k # h
      <4>1. threads'[k] = threads[k]
        BY <2>4, <3>3 DEF Becomes
      <4> QED BY <1>0, <2>1, <2>4, <3>1, <4>1, StillCovers DEF coordinator
    <3> QED BY <3>2, <3>3
  <2> QED BY <1>0, <1>10, <2>3, <2>4, RecheckMoves
<1>11. ASSUME NEW h \in Caller, NEW bits, Call(h, bits) PROVE \E k \in Thread : Covers(k)'
  <2>1. /\ threads'[h].pc = "lock" /\ threads'[h].seq = requested'
        /\ requested' = requested + 1 /\ UNCHANGED completed
    BY <1>0, <1>11, CallMoves DEF Becomes
  <2>2. completed <= requested
    BY DEF Base, TypeOK
  <2>3. completed' < threads'[h].seq
    BY <1>0, <2>1, <2>2
  <2> QED BY <1>0, <2>1, <2>3 DEF Covers, At
<1>12. ASSUME NEW s \in Source, Ring(s) PROVE \E k \in Thread : Covers(k)'
  <2>1. CASE scheduled
    <3>1. UNCHANGED <<coordinator, folder, life, net, ghosts, scheduled, threads>>
      BY <1>0, <1>12, <2>1, RingMoves
    <3>2. PICK k \in Thread : Covers(k)
      BY <2>1, <3>1 DEF Covered, Waits, Counted, coordinator, folder, life, net, ghosts
    <3> QED BY <1>0, <3>1, <3>2, StillCovers DEF coordinator
  <2>2. CASE ~scheduled
    <3>1. PICK w \in Worker : Becomes(w, "lock", 0, {}, 0, "ok")
      BY <1>0, <1>12, <2>2, RingMoves
    <3> QED BY <1>0, <3>1 DEF Covers, At, Becomes
  <2> QED BY <2>1, <2>2
<1>13. CASE LocalChange \/ NetworkEdge \/ EndFolderSync
  <2>1. UNCHANGED <<threads, completed, scheduled, online>>
    BY <1>0, <1>13, SourceMoves
  <2>2. /\ requested' = requested + 1
        /\ ringing' # {}
    <3>1. CASE pending' = pending /\ requested' = requested /\ ringing' = ringing /\ stalled' = stalled
      BY <1>0, <1>13, <3>1, SourceMoves
    <3>2. CASE ~(pending' = pending /\ requested' = requested /\ ringing' = ringing /\ stalled' = stalled)
      BY <1>0, <1>13, <3>2, SourceMoves
    <3> QED BY <3>1, <3>2
  <2>3. PICK w \in Worker : Working(w)
    BY <2>1, <2>2 DEF Counted, Scheduling
  <2>4. completed' < requested'
    <3>1. completed <= requested
      BY DEF Base, TypeOK
    <3> QED BY <1>0, <2>1, <2>2, <3>1
  <2>5. threads'[w].pc \in OwnerPC \cup {"lock", "sleep", "clear"}
    BY <2>1, <2>3 DEF Working
  <2>6. Covers(w)'
    BY <2>3, <2>4, <2>5, PCNames DEF Covers, At, Newer
  <2> QED BY <1>0, <2>3, <2>6
<1>14. CASE BeginFolderSync \/ NetworkDown \/ NetworkUp \/ Shutdown \/ Quiesce
  <2>1. UNCHANGED <<coordinator, threads, asking, started, ghosts>>
    BY <1>14, WorldMoves
  <2>2. UNCHANGED <<folderSyncing, shutdown, net>>
    BY <1>0, <1>14, WorldMoves
  <2>3. PICK k \in Thread : Covers(k)
    BY <2>1, <2>2 DEF Covered, Waits, Counted, coordinator, asking, net, ghosts
  <2> QED BY <1>0, <2>1, <2>3, StillCovers DEF coordinator, asking
<1>15. CASE UNCHANGED vars
  <2>1. UNCHANGED <<coordinator, threads, asking, life, ghosts, folder, net>>
    BY <1>15 DEF vars
  <2>2. PICK k \in Thread : Covers(k)
    BY <2>1 DEF Covered, Waits, Counted, coordinator, asking, life, folder, net, ghosts
  <2> QED BY <1>0, <2>1, <2>2, StillCovers DEF coordinator, asking
<1> QED BY <1>1, <1>2, <1>3, <1>4, <1>5, <1>6, <1>7, <1>8, <1>9, <1>10, <1>11, <1>12, <1>13,
           <1>14, <1>15, ThreadAssumption DEF Next, Step, CycleStep

(* A request that could be served does not wait for a worker that has gone  *)
(* to rest: between the flag a worker clears and its second look, the       *)
(* request taken and the bell not yet rung, the sleep and the wake-up,      *)
(* somebody is always on the way to it (schedule_background_drain), the     *)
(* cases "stalled" names aside.  For any number of callers and workers.     *)
THEOREM NobodyStranded == Spec => []NotStranded
<1>1. Init => Scheduling /\ Covered
  <2> SUFFICES ASSUME Init PROVE Scheduling /\ Covered
    OBVIOUS
  <2>1. \A w \in Worker : threads[w].pc \in {"start", "idle"}
    BY Blank DEF Init, Thread
  <2>2. ~scheduled /\ pending = {}
    BY DEF Init
  <2> QED BY <2>1, <2>2, PCNames DEF Scheduling, Covered, Working, Waits
<1>2. Spec => [](Scheduling /\ Covered)
  <2>1. Base /\ (Scheduling /\ Covered) /\ [Next]_vars => (Scheduling /\ Covered)'
    BY SchedulingStep, CoveredStep
  <2> QED BY <1>1, <2>1, BaseAlways, PTL DEF Spec
<1>3. Covered => NotStranded
  <2> SUFFICES ASSUME Covered, pending # {}, started, online, ~folderSyncing, ~shutdown,
                      ringing = {}, ~edge, ~stalled
               PROVE  \E h \in Thread : Awake(h)
    BY DEF NotStranded
  <2>1. PICK h \in Thread : Covers(h)
    BY DEF Covered, Waits, Counted
  <2>2. threads[h].pc # "idle"
    BY <2>1, PCNames DEF Covers, At
  <2> QED BY <2>2 DEF Awake, Idle, At
<1> QED BY <1>2, <1>3, PTL
=============================================================================
