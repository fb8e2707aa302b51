------------------------ MODULE ActivityTrackerProofs ------------------------
(***************************************************************************)
(* The lease discipline of ActivityTracker, for any set of guards and      *)
(* paths.  The inductive invariant is IInv: exclusion is kept only because *)
(* the maps the code consults say exactly what the live guards say         *)
(* (AccountingExact), and quiescence only because nobody waits at an open  *)
(* gate.                                                                   *)
(***************************************************************************)
EXTENDS ActivityTracker, FiniteSetTheorems, TLAPS

(* wait_idle is only called behind close(). *)
WaiterBehindClose == waiter # "off" => ~accepting

IInv ==
    /\ TypeOK
    /\ LeaseExclusion
    /\ AccountingExact
    /\ QuiescentAfterWait
    /\ NoLostWakeup
    /\ WaiterBehindClose

-----------------------------------------------------------------------------
(* A path overlaps itself. *)
LEMMA OverlapReflexive == \A p \in Path : Overlap(p, p)
BY DEF Overlap, IsPrefix

LEMMA GuardStateKinds ==
    /\ Free \in GuardState
    /\ SharedNoPath \in GuardState
    /\ \A p \in Path : SharedOn(p) \in GuardState /\ ExclusiveOn(p) \in GuardState
    /\ \A s \in GuardState :
          \/ s = Free
          \/ s = SharedNoPath
          \/ \E p \in Path : s = SharedOn(p)
          \/ \E p \in Path : s = ExclusiveOn(p)
BY DEF GuardState

(* The guards in any given condition are finitely many. *)
LEMMA HoldersFinite ==
    /\ IsFiniteSet(Held)
    /\ Cardinality(Held) \in Nat
    /\ \A p \in Path : /\ IsFiniteSet(SharedHolders(p))
                       /\ Cardinality(SharedHolders(p)) \in Nat
<1>1. Held \in SUBSET Guard /\ \A p \in Path : SharedHolders(p) \in SUBSET Guard
  BY DEF Held, SharedHolders
<1>2. ASSUME NEW S \in SUBSET Guard
      PROVE  IsFiniteSet(S) /\ Cardinality(S) \in Nat
  BY GuardAssumption, FS_Subset, FS_CardinalityType
<1> QED BY <1>1, <1>2

-----------------------------------------------------------------------------
LEMMA InitIInv == Init => IInv
<1> SUFFICES ASSUME Init PROVE IInv
  OBVIOUS
<1>1. \A g \in Guard : guards[g] = Free
  BY DEF Init
<1>2. TypeOK
  BY GuardStateKinds DEF Init, TypeOK
<1>3. LeaseExclusion
  BY <1>1 DEF LeaseExclusion, Free
<1>4. AccountingExact
  <2>1. Held = {} /\ \A p \in Path : SharedHolders(p) = {}
    BY <1>1 DEF Held, SharedHolders, Free, SharedOn
  <2>2. {p \in Path : \E g \in Guard : guards[g] = ExclusiveOn(p)} = {}
    BY <1>1 DEF Free, ExclusiveOn
  <2> QED BY <2>1, <2>2, FS_EmptySet DEF Init, AccountingExact
<1>5. QuiescentAfterWait /\ NoLostWakeup /\ WaiterBehindClose
  BY DEF Init, QuiescentAfterWait, NoLostWakeup, WaiterBehindClose
<1> QED BY <1>2, <1>3, <1>4, <1>5 DEF IInv

-----------------------------------------------------------------------------
(* Taking a guard with no path. *)
LEMMA BeginIInv ==
    ASSUME IInv, NEW g \in Guard, Begin(g)
    PROVE  IInv'
<1> USE DEF IInv
<1>1. /\ guards[g] = Free /\ accepting /\ guards' = [guards EXCEPT ![g] = SharedNoPath]
      /\ count' = count + 1
      /\ UNCHANGED <<accepting, activePaths, exclusivePaths, waiter, woken>>
  BY DEF Begin
<1>2. TypeOK'
  BY <1>1, GuardStateKinds DEF TypeOK
<1>3. LeaseExclusion'
  BY <1>1 DEF LeaseExclusion, TypeOK, SharedNoPath, PathOf
<1>4. AccountingExact'
  <2>1. Held' = Held \cup {g} /\ g \notin Held
    BY <1>1 DEF Held, TypeOK, Free, SharedNoPath
  <2>2. Cardinality(Held') = Cardinality(Held) + 1
    BY <2>1, HoldersFinite, FS_AddElement
  <2>3. \A p \in Path : SharedHolders(p)' = SharedHolders(p)
    BY <1>1 DEF SharedHolders, TypeOK, Free, SharedOn, SharedNoPath
  <2>4. \A p \in Path : (\E h \in Guard : guards'[h] = ExclusiveOn(p))
                            <=> (\E h \in Guard : guards[h] = ExclusiveOn(p))
    BY <1>1 DEF TypeOK, Free, ExclusiveOn, SharedNoPath
  <2> QED BY <1>1, <2>2, <2>3, <2>4 DEF AccountingExact
<1>5. QuiescentAfterWait' /\ WaiterBehindClose' /\ NoLostWakeup'
  BY <1>1 DEF QuiescentAfterWait, NoLostWakeup, WaiterBehindClose, TypeOK
<1> QED BY <1>2, <1>3, <1>4, <1>5

(* Taking a shared guard: no exclusive path may overlap, and every *)
(* exclusive guard's path is in exclusivePaths.                    *)
LEMMA BeginSharedIInv ==
    ASSUME IInv, NEW g \in Guard, NEW p \in Path, BeginShared(g, p)
    PROVE  IInv'
<1> USE DEF IInv
<1>1. /\ guards[g] = Free /\ accepting /\ guards' = [guards EXCEPT ![g] = SharedOn(p)]
      /\ activePaths' = [activePaths EXCEPT ![p] = @ + 1]
      /\ count' = count + 1
      /\ UNCHANGED <<accepting, exclusivePaths, waiter, woken>>
  BY DEF BeginShared
<1>2. TypeOK'
  BY <1>1, GuardStateKinds DEF TypeOK
<1>3. LeaseExclusion'
  <2> SUFFICES ASSUME NEW a \in Guard, NEW b \in Guard, a # b,
                      guards'[a].kind = "exclusive",
                      guards'[b].kind \in {"shared", "exclusive"}
               PROVE  ~Overlap(guards'[a].path, guards'[b].path)
    BY DEF LeaseExclusion, PathOf
  <2>1. a # g /\ guards'[a] = guards[a]
    BY <1>1 DEF TypeOK, SharedOn
  <2>2. CASE b = g
    <3>1. guards'[b].path = p
      BY <1>1, <2>2 DEF TypeOK, SharedOn
    <3>2. PICK q \in Path : guards[a] = ExclusiveOn(q)
      BY <2>1, GuardStateKinds DEF TypeOK, Free, SharedNoPath, SharedOn
    <3>3. q \in exclusivePaths /\ guards'[a].path = q
      BY <2>1, <3>2 DEF AccountingExact, ExclusiveOn
    <3> QED BY <3>1, <3>3 DEF BeginShared, LeasedExclusively, Overlap
  <2>3. CASE b # g
    BY <1>1, <2>1, <2>3 DEF LeaseExclusion, PathOf, TypeOK
  <2> QED BY <2>2, <2>3
<1>4. AccountingExact'
  <2>1. Held' = Held \cup {g} /\ g \notin Held
    BY <1>1 DEF Held, TypeOK, Free, SharedOn
  <2>2. Cardinality(Held') = Cardinality(Held) + 1
    BY <2>1, HoldersFinite, FS_AddElement
  <2>3. SharedHolders(p)' = SharedHolders(p) \cup {g} /\ g \notin SharedHolders(p)
    BY <1>1 DEF SharedHolders, TypeOK, Free, SharedOn
  <2>4. Cardinality(SharedHolders(p)') = Cardinality(SharedHolders(p)) + 1
    BY <2>3, HoldersFinite, FS_AddElement
  <2>5. \A q \in Path : q # p => SharedHolders(q)' = SharedHolders(q)
    BY <1>1 DEF SharedHolders, TypeOK, Free, SharedOn
  <2>6. \A q \in Path : activePaths'[q] = Cardinality(SharedHolders(q)')
    BY <1>1, <2>4, <2>5 DEF AccountingExact, TypeOK
  <2>7. \A q \in Path : (\E h \in Guard : guards'[h] = ExclusiveOn(q))
                            <=> (\E h \in Guard : guards[h] = ExclusiveOn(q))
    BY <1>1 DEF TypeOK, Free, ExclusiveOn, SharedOn
  <2> QED BY <1>1, <2>2, <2>6, <2>7 DEF AccountingExact
<1>5. QuiescentAfterWait' /\ WaiterBehindClose' /\ NoLostWakeup'
  BY <1>1 DEF QuiescentAfterWait, NoLostWakeup, WaiterBehindClose, TypeOK
<1> QED BY <1>2, <1>3, <1>4, <1>5

(* Taking an exclusive guard: neither an exclusive path nor an active one   *)
(* may overlap, and an active path is one with a positive count.            *)
LEMMA BeginExclusiveIInv ==
    ASSUME IInv, NEW g \in Guard, NEW p \in Path, BeginExclusive(g, p)
    PROVE  IInv'
<1> USE DEF IInv
<1>1. /\ guards[g] = Free /\ accepting /\ guards' = [guards EXCEPT ![g] = ExclusiveOn(p)]
      /\ exclusivePaths' = exclusivePaths \cup {p}
      /\ count' = count + 1
      /\ UNCHANGED <<accepting, activePaths, waiter, woken>>
  BY DEF BeginExclusive
<1>2. TypeOK'
  BY <1>1, GuardStateKinds DEF TypeOK
<1>3. ASSUME NEW h \in Guard, h # g, guards[h].kind \in {"shared", "exclusive"}
      PROVE  ~Overlap(guards[h].path, p) /\ ~Overlap(p, guards[h].path)
  <2>1. CASE \E q \in Path : guards[h] = SharedOn(q)
    <3>1. PICK q \in Path : guards[h] = SharedOn(q)
      BY <2>1
    <3>2. SharedHolders(q) # {}
      BY <3>1 DEF SharedHolders
    <3>3. activePaths[q] > 0
      BY <3>2, HoldersFinite, FS_EmptySet DEF AccountingExact, TypeOK
    <3> QED BY <3>1, <3>3 DEF BeginExclusive, SharedOn, Overlap
  <2>2. CASE \E q \in Path : guards[h] = ExclusiveOn(q)
    BY <2>2 DEF AccountingExact, ExclusiveOn, BeginExclusive, LeasedExclusively, Overlap
  <2> QED BY <1>3, <2>1, <2>2, GuardStateKinds DEF TypeOK, Free, SharedNoPath
<1>4. LeaseExclusion'
  BY <1>1, <1>3 DEF LeaseExclusion, PathOf, TypeOK, ExclusiveOn
<1>5. AccountingExact'
  <2>1. Held' = Held \cup {g} /\ g \notin Held
    BY <1>1 DEF Held, TypeOK, Free, ExclusiveOn
  <2>2. Cardinality(Held') = Cardinality(Held) + 1
    BY <2>1, HoldersFinite, FS_AddElement
  <2>3. \A q \in Path : SharedHolders(q)' = SharedHolders(q)
    BY <1>1 DEF SharedHolders, TypeOK, Free, SharedOn, ExclusiveOn
  <2>4. \A q \in Path : (\E h \in Guard : guards'[h] = ExclusiveOn(q))
                            <=> (q = p \/ \E h \in Guard : guards[h] = ExclusiveOn(q))
    BY <1>1 DEF TypeOK, Free, ExclusiveOn
  <2> QED BY <1>1, <2>2, <2>3, <2>4 DEF AccountingExact
<1>6. QuiescentAfterWait' /\ WaiterBehindClose' /\ NoLostWakeup'
  BY <1>1 DEF QuiescentAfterWait, NoLostWakeup, WaiterBehindClose, TypeOK
<1> QED BY <1>2, <1>4, <1>5, <1>6

(* Dropping a guard: the path it gives back can belong to no other          *)
(* exclusive guard, because a path overlaps itself.                         *)
LEMMA DropIInv ==
    ASSUME IInv, NEW g \in Guard, Drop(g)
    PROVE  IInv'
<1> USE DEF IInv
<1>1. /\ guards[g] # Free /\ guards' = [guards EXCEPT ![g] = Free]
      /\ count' = Decrement(count)
      /\ UNCHANGED <<accepting, waiter>>
  BY DEF Drop
<1>2. Held' = Held \ {g} /\ g \in Held
  BY <1>1 DEF Held, TypeOK
<1>3. Cardinality(Held') = Cardinality(Held) - 1
  BY <1>2, HoldersFinite, FS_RemoveElement
<1>4. count > 0 /\ count' = count - 1 /\ count' = Cardinality(Held')
  BY <1>1, <1>2, <1>3, HoldersFinite, FS_EmptySet DEF AccountingExact, Decrement, TypeOK
<1>5. LeaseExclusion'
  BY <1>1 DEF LeaseExclusion, PathOf, TypeOK, Free
<1>6. /\ activePaths' \in [Path -> Nat]
      /\ \A q \in Path : activePaths'[q] = Cardinality(SharedHolders(q)')
  <2>1. CASE \E p \in Path : guards[g] = SharedOn(p)
    <3>1. PICK p \in Path : guards[g] = SharedOn(p)
      BY <2>1
    <3>2. activePaths' = [activePaths EXCEPT ![p] = Decrement(@)]
      BY <3>1 DEF Drop, SharedOn
    <3>3. SharedHolders(p)' = SharedHolders(p) \ {g} /\ g \in SharedHolders(p)
      BY <1>1, <3>1 DEF SharedHolders, TypeOK, Free, SharedOn
    <3>4. Cardinality(SharedHolders(p)') = Cardinality(SharedHolders(p)) - 1
      BY <3>3, HoldersFinite, FS_RemoveElement
    <3>5. \A q \in Path : q # p => SharedHolders(q)' = SharedHolders(q)
      BY <1>1, <3>1 DEF SharedHolders, TypeOK, Free, SharedOn
    <3>6. Cardinality(SharedHolders(p)) # 0
      BY <3>3, HoldersFinite, FS_EmptySet
    <3> QED BY <3>2, <3>4, <3>5, <3>6, HoldersFinite DEF AccountingExact, Decrement, TypeOK
  <2>2. CASE ~ \E p \in Path : guards[g] = SharedOn(p)
    <3>1. activePaths' = activePaths
      BY <2>2, GuardStateKinds DEF Drop, TypeOK, Free, SharedNoPath, ExclusiveOn
    <3>2. \A q \in Path : SharedHolders(q)' = SharedHolders(q)
      BY <1>1, <2>2 DEF SharedHolders, TypeOK, Free, SharedOn
    <3> QED BY <3>1, <3>2 DEF AccountingExact, TypeOK
  <2> QED BY <2>1, <2>2
<1>7. exclusivePaths' = {q \in Path : \E h \in Guard : guards'[h] = ExclusiveOn(q)}
  <2>1. CASE \E p \in Path : guards[g] = ExclusiveOn(p)
    <3>1. PICK p \in Path : guards[g] = ExclusiveOn(p)
      BY <2>1
    <3>2. exclusivePaths' = exclusivePaths \ {p}
      BY <3>1 DEF Drop, ExclusiveOn
    <3>3. \A h \in Guard : h # g => guards[h] # ExclusiveOn(p)
      BY <3>1, OverlapReflexive DEF LeaseExclusion, PathOf, ExclusiveOn
    <3>4. \A q \in Path : (\E h \in Guard : guards'[h] = ExclusiveOn(q))
                  <=> (q # p /\ \E h \in Guard : guards[h] = ExclusiveOn(q))
      BY <1>1, <3>1, <3>3 DEF TypeOK, Free, ExclusiveOn
    <3> QED BY <3>2, <3>4 DEF AccountingExact
  <2>2. CASE ~ \E p \in Path : guards[g] = ExclusiveOn(p)
    <3>1. exclusivePaths' = exclusivePaths
      BY <2>2, GuardStateKinds DEF Drop, TypeOK, Free, SharedNoPath, SharedOn
    <3>2. \A q \in Path : (\E h \in Guard : guards'[h] = ExclusiveOn(q))
                  <=> (\E h \in Guard : guards[h] = ExclusiveOn(q))
      BY <1>1, <2>2 DEF TypeOK, Free, ExclusiveOn
    <3> QED BY <3>1, <3>2 DEF AccountingExact
  <2> QED BY <2>1, <2>2
<1>8. woken' \in BOOLEAN /\ (count' = 0 /\ waiter = "waiting" => woken')
      /\ (woken => woken')
  BY DEF Drop, NotifyIdle, TypeOK
<1>9. TypeOK' /\ AccountingExact'
  BY <1>1, <1>4, <1>6, <1>7, <1>8, GuardStateKinds DEF TypeOK, AccountingExact
<1>10. QuiescentAfterWait' /\ WaiterBehindClose'
  BY <1>1, <1>2 DEF QuiescentAfterWait, WaiterBehindClose
<1>11. NoLostWakeup'
  BY <1>1, <1>4, <1>8, <1>9 DEF NoLostWakeup, TypeOK
<1> QED BY <1>5, <1>9, <1>10, <1>11

(* Closing the gate and waiting touch no lease; wait_idle returns only      *)
(* after it has read a count of zero behind the closed gate.                *)
LEMMA CloseWaitIInv ==
    ASSUME IInv, Close \/ Wait
    PROVE  IInv'
<1> USE DEF IInv
<1>1. UNCHANGED <<count, activePaths, exclusivePaths, guards>>
  BY DEF Close, Wait, WaitRegister, WaitCheck, WaitWake, tracker
<1>2. TypeOK'
  BY <1>1 DEF TypeOK, Close, Wait, WaitRegister, WaitCheck, WaitWake, tracker
<1>3. LeaseExclusion' /\ AccountingExact'
  <2>1. Held' = Held /\ \A p \in Path : SharedHolders(p)' = SharedHolders(p)
    BY <1>1 DEF Held, SharedHolders
  <2> QED BY <1>1, <2>1 DEF LeaseExclusion, PathOf, AccountingExact
<1>4. count = 0 => Held = {}
  BY HoldersFinite, FS_EmptySet DEF AccountingExact
<1>5. Held' = Held
  BY <1>1 DEF Held
<1>6. QuiescentAfterWait' /\ WaiterBehindClose' /\ NoLostWakeup'
  BY <1>1, <1>4, <1>5
     DEF QuiescentAfterWait, NoLostWakeup, WaiterBehindClose, TypeOK,
         Close, Wait, WaitRegister, WaitCheck, WaitWake, tracker
<1> QED BY <1>2, <1>3, <1>6

LEMMA StutterIInv ==
    ASSUME IInv, UNCHANGED vars
    PROVE  IInv'
<1>1. Held' = Held /\ \A p \in Path : SharedHolders(p)' = SharedHolders(p)
  BY DEF vars, Held, SharedHolders
<1> QED BY <1>1 DEF IInv, vars, TypeOK, LeaseExclusion, PathOf, AccountingExact,
                    QuiescentAfterWait, NoLostWakeup, WaiterBehindClose

-----------------------------------------------------------------------------
(* The inductive invariant holds of every behaviour. *)
THEOREM Inductive == Spec => []IInv
<1>1. IInv /\ [Next]_vars => IInv'
  BY BeginIInv, BeginSharedIInv, BeginExclusiveIInv, DropIInv, CloseWaitIInv, StutterIInv
     DEF Next
<1> QED BY InitIInv, <1>1, PTL DEF Spec

(* The fields of the tracker keep their types for any guards and paths. *)
THEOREM TypeCorrect == Spec => []TypeOK
<1>1. IInv => TypeOK
  BY DEF IInv
<1> QED BY Inductive, <1>1, PTL

(* An exclusive lease never coexists with an overlapping one, whatever the  *)
(* path tree and however many handles, cycles and transfers are live.       *)
THEOREM ExclusiveLeases == Spec => []LeaseExclusion
<1>1. IInv => LeaseExclusion
  BY DEF IInv
<1> QED BY Inductive, <1>1, PTL

(* count, active_paths and exclusive_paths are exactly those of the live    *)
(* guards, so saturating_sub never hides a double release.                  *)
THEOREM ExactAccounting == Spec => []AccountingExact
<1>1. IInv => AccountingExact
  BY DEF IInv
<1> QED BY Inductive, <1>1, PTL

(* After wait_idle has returned no activity is left, and none can begin. *)
THEOREM QuiescentShutdown == Spec => []QuiescentAfterWait
<1>1. IInv => QuiescentAfterWait
  BY DEF IInv
<1> QED BY Inductive, <1>1, PTL

(* wait_idle never sleeps past the last release. *)
THEOREM WakeupNotLost == Spec => []NoLostWakeup
<1>1. IInv => NoLostWakeup
  BY DEF IInv
<1> QED BY Inductive, <1>1, PTL
=============================================================================
