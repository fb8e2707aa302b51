----------------------- MODULE CloudCheckpointProofs -----------------------
(***************************************************************************)
(* A tree that may be planned from is not older than what made the engine  *)
(* distrust the one before.  The trees themselves are left to TLC: a path  *)
(* is a recursive function of the cloud, and what a page of changes does   *)
(* to a tree is a fold over it.                                            *)
(*                                                                         *)
(* The invariant follows one number through the cycle: the position in the *)
(* log at which the tree was last distrusted is never beyond the end of    *)
(* the log, and a candidate that is about to be committed stands at a      *)
(* position that is not before it.  It is enough because whatever          *)
(* distrusts a tree also takes the candidate from the cycle.               *)
(***************************************************************************)
EXTENDS CloudCheckpoint, TLAPS

Positions == [parent : Folder \cup {Root, Gone}, ver : Nat]
Changed == [id : Id, parent : Folder \cup {Root, Gone}, ver : Nat]

(* The log is the history of the cloud. *)
History == cloud \in [Id -> Positions] /\ log \in Seq(Changed)

(* What EXCEPT is applied to has the fields it keeps. *)
Shapes ==
    /\ "cursor" \in DOMAIN live /\ "cursor" \in DOMAIN saved
    /\ "pc" \in DOMAIN cyc
    /\ cyc.pc = "commit" => "cursor" \in DOMAIN cyc.made
    /\ cyc.pc = "settle" => cyc.own.op \in {"put", "move", "remove"}

(* The tree that is trusted, and the one that will be, are not behind. *)
Behind ==
    /\ since \in 0 .. Len(log)
    /\ trusted \in BOOLEAN
    /\ trusted => live.cursor \in Int /\ live.cursor >= since
    /\ cyc.pc = "commit" => cyc.made.cursor \in Int /\ cyc.made.cursor >= since

Inv == History /\ Shapes /\ Behind

-----------------------------------------------------------------------------
(* The operators of the model *)

LEMMA StartPosition == Start \in [Id -> Positions]
  BY CheckpointAssumption DEF CheckpointAssumption, Positions

(* A write makes the log longer and moves nothing else but the cloud. *)
LEMMA WritesGrow ==
  ASSUME History, NEW i \in Id, NEW d \in Folder \cup {Root, Gone}, NEW v \in Nat, Writes(i, d, v)
  PROVE  History' /\ Len(log') = Len(log) + 1 /\ Len(log) \in Nat
<1>1. Change(i, d, v) \in Changed
  BY DEF Change, Changed
<1>2. [parent |-> d, ver |-> v] \in Positions
  BY DEF Positions
<1>3. cloud' \in [Id -> Positions]
  BY <1>2 DEF Writes, History
<1>4. log' \in Seq(Changed) /\ Len(log') = Len(log) + 1 /\ Len(log) \in Nat
  BY <1>1 DEF Writes, History
<1> QED
  BY <1>3, <1>4 DEF History

LEMMA Placed == ASSUME History, NEW i \in Id PROVE cloud[i].parent \in Folder \cup {Root, Gone} /\ cloud[i].ver \in Nat
  BY DEF History, Positions

(* So does whatever another client, or this one, does in the cloud. *)
LEMMA CreateGrows ==
  ASSUME History, NEW i \in Id, NEW d \in Folder \cup {Root}, CreateThere(i, d)
  PROVE  History' /\ Len(log') = Len(log) + 1 /\ Len(log) \in Nat
  BY WritesGrow DEF CreateThere

LEMMA EditGrows ==
  ASSUME History, NEW i \in Id, EditThere(i)
  PROVE  History' /\ Len(log') = Len(log) + 1 /\ Len(log) \in Nat
<1>1. Writes(i, cloud[i].parent, cloud[i].ver + 1)
  BY DEF EditThere
<1>2. cloud[i].parent \in Folder \cup {Root, Gone} /\ cloud[i].ver + 1 \in Nat
  BY Placed
<1> QED
  BY <1>1, <1>2, WritesGrow

LEMMA MoveGrows ==
  ASSUME History, NEW i \in Id, NEW d \in Folder \cup {Root}, MoveThere(i, d)
  PROVE  History' /\ Len(log') = Len(log) + 1 /\ Len(log) \in Nat
<1>1. Writes(i, d, cloud[i].ver)
  BY DEF MoveThere
<1> QED
  BY <1>1, Placed, WritesGrow

LEMMA DeleteGrows ==
  ASSUME History, NEW i \in Id, DeleteThere(i)
  PROVE  History' /\ Len(log') = Len(log) + 1 /\ Len(log) \in Nat
<1>1. Writes(i, Gone, cloud[i].ver)
  BY DEF DeleteThere
<1> QED
  BY <1>1, Placed, WritesGrow

(* A cycle that neither commits nor settles has nothing to keep. *)
Uncommitted(c) == "pc" \in DOMAIN c /\ c.pc \notin {"commit", "settle"}

LEMMA Beginnings ==
  /\ Uncommitted(Idle) /\ Uncommitted(Listing)
  /\ \A kind, from, tree, root, off : Uncommitted(Reading(kind, from, tree, root, off))
  /\ \A from : Uncommitted(CatchingUp(from))
  BY DEF Uncommitted, Idle, Listing, Reading, CatchingUp

(* Going on with the next batch, or with the replay. *)
LEMMA TurnsOn == ASSUME NEW c, Uncommitted(c) PROVE Uncommitted(Turn(c))
<1>1. CASE c.batch # {}
  BY <1>1 DEF Turn
<1>2. CASE c.batch = {} /\ c.queue # {}
  BY <1>2 DEF Turn, Uncommitted
<1>3. CASE c.batch = {} /\ c.queue = {}
  BY <1>3, Beginnings DEF Turn
<1> QED
  BY <1>1, <1>2, <1>3

(* A folder that is met while a listing passes by leaves the cycle where it is. *)
LEMMA MovingKeeps ==
  ASSUME NEW i, "pc" \in DOMAIN cyc, Moving(i)
  PROVE  /\ "pc" \in DOMAIN cyc' /\ cyc'.pc = cyc.pc
         /\ cyc.pc # "list" => cyc' = cyc
<1>1. CASE cyc.pc = "list"
  BY <1>1 DEF Moving
<1>2. CASE cyc.pc # "list"
  BY <1>2 DEF Moving
<1> QED
  BY <1>1, <1>2

(* A result of this client's own enters the tree and leaves the cursor. *)
LEMMA CursorKept ==
  ASSUME "cursor" \in DOMAIN live
  PROVE  /\ \A t : LET c == [live EXCEPT !.tree = t] IN "cursor" \in DOMAIN c /\ c.cursor = live.cursor
         /\ \A t, o : LET c == [live EXCEPT !.tree = t, !.off = o] IN "cursor" \in DOMAIN c /\ c.cursor = live.cursor
         /\ \A w : "cursor" \in DOMAIN Committed(w) /\ Committed(w).cursor = live.cursor
  BY DEF Committed

-----------------------------------------------------------------------------
(* The steps *)

(* A step that leaves the log and the tree alone, and commits nothing. *)
LEMMA Aside ==
  ASSUME Inv, UNCHANGED <<cloud, log, since, trusted>>, Uncommitted(cyc'),
         "cursor" \in DOMAIN live', live'.cursor = live.cursor, "cursor" \in DOMAIN saved'
  PROVE  Inv'
<1>1. History'
  BY DEF Inv, History
<1>2. Shapes'
  BY DEF Inv, Shapes, Uncommitted
<1>3. Behind'
  BY DEF Inv, Behind, Uncommitted
<1> QED
  BY <1>1, <1>2, <1>3 DEF Inv

(* A step that distrusts the tree takes the candidate along. *)
LEMMA Distrusted ==
  ASSUME Inv, UNCHANGED <<cloud, log>>, Distrust, Uncommitted(cyc'),
         "cursor" \in DOMAIN live', "cursor" \in DOMAIN saved'
  PROVE  Inv'
<1>1. History'
  BY DEF Inv, History
<1>2. Shapes'
  BY DEF Inv, Shapes, Uncommitted
<1>3. Len(log) \in Nat
  BY DEF Inv, History
<1>4. since' \in 0 .. Len(log') /\ trusted' = FALSE
  BY <1>3 DEF Distrust
<1>5. Behind'
  BY <1>4 DEF Behind, Uncommitted
<1> QED
  BY <1>1, <1>2, <1>5 DEF Inv

(* A step of the cloud: the log grows, and what was not behind still is not. *)
LEMMA Grown ==
  ASSUME Inv, History', Len(log') = Len(log) + 1, UNCHANGED <<live, trusted, saved, since>>,
         "pc" \in DOMAIN cyc', cyc'.pc = "commit" => cyc' = cyc,
         cyc'.pc = "settle" => cyc' = cyc \/ cyc'.own.op \in {"put", "move", "remove"}
  PROVE  Inv'
<1>1. Shapes'
  BY DEF Inv, Shapes
<1>2. Len(log) \in Nat
  BY DEF Inv, History
<1>3. Behind'
  BY <1>2 DEF Inv, Behind
<1> QED
  BY <1>1, <1>3 DEF Inv

LEMMA OthersStep == ASSUME Inv, Others PROVE Inv'
<1>1. History
  BY DEF Inv
<1>2. "pc" \in DOMAIN cyc
  BY DEF Inv, Shapes
<1>3. UNCHANGED <<live, trusted, saved, since>>
  BY DEF Others
<1>4. CASE (\E i \in Id, d \in Folder \cup {Root} : CreateThere(i, d)) /\ UNCHANGED cyc
  BY <1>1, <1>2, <1>3, <1>4, CreateGrows, Grown
<1>5. CASE (\E i \in Id : EditThere(i)) /\ UNCHANGED cyc
  BY <1>1, <1>2, <1>3, <1>5, EditGrows, Grown
<1>6. CASE (\E i \in Id : DeleteThere(i)) /\ UNCHANGED cyc
  BY <1>1, <1>2, <1>3, <1>6, DeleteGrows, Grown
<1>7. ASSUME NEW i \in Id, NEW d \in Folder \cup {Root}, MoveThere(i, d), Moving(i) PROVE Inv'
  <2>1. "pc" \in DOMAIN cyc' /\ (cyc'.pc # "list" => cyc' = cyc)
    BY <1>2, <1>7, MovingKeeps
  <2> QED
    BY <1>1, <1>3, <1>7, <2>1, MoveGrows, Grown
<1> QED
  BY <1>4, <1>5, <1>6, <1>7 DEF Others

LEMMA LoadStep == ASSUME Inv, Load PROVE Inv'
<1>1. Uncommitted(cyc')
  BY Beginnings DEF Load
<1>2. "cursor" \in DOMAIN live' /\ "cursor" \in DOMAIN saved'
  BY DEF Load, Inv, Shapes
<1> QED
  BY <1>1, <1>2, Distrusted DEF Load

LEMMA RefreshStep == ASSUME Inv, Refresh \/ RefreshFull PROVE Inv'
<1>1. Uncommitted(cyc')
  BY Beginnings DEF Refresh, RefreshFull
<1>2. UNCHANGED <<cloud, log, live, saved, since, trusted>>
  BY DEF Refresh, RefreshFull
<1> QED
  BY <1>1, <1>2, Aside DEF Inv, Shapes

LEMMA ListStep == ASSUME Inv, NEW node, List(node) PROVE Inv'
<1>1. Uncommitted(cyc)
  BY DEF List, Inv, Shapes, Uncommitted
<1>2. Uncommitted(Listed(node))
  BY <1>1 DEF Listed, Uncommitted
<1>3. Uncommitted(cyc')
  BY <1>2, TurnsOn DEF List
<1> QED
  BY <1>3, Aside DEF List, Inv, Shapes

(* Ending with an error. *)
LEMMA RefreshFailsStep == ASSUME Inv, RefreshFails PROVE Inv'
  BY Beginnings, Distrusted DEF RefreshFails, Inv, Shapes

(* Falling back to a full refresh, or failing. *)
LEMMA FallsStep == ASSUME Inv, Falls, "cursor" \in DOMAIN saved' PROVE Inv'
<1>1. Uncommitted(cyc') /\ Distrust /\ UNCHANGED <<cloud, log, live>>
  BY Beginnings DEF Falls
<1> QED
  BY <1>1, Distrusted DEF Inv, Shapes

LEMMA ListFailsStep == ASSUME Inv, NEW node, ListFails(node) PROVE Inv'
<1>1. CASE RefreshFails
  BY <1>1, RefreshFailsStep
<1>2. CASE /\ cyc' = Turn([cyc EXCEPT !.batch = @ \ {node}, !.queue = @ \cup {[node EXCEPT !.retries = @ + 1]}])
           /\ UNCHANGED <<cloud, log, live, trusted, saved, sinceFull, startup, bg, since>>
  <2>1. Uncommitted([cyc EXCEPT !.batch = @ \ {node}, !.queue = @ \cup {[node EXCEPT !.retries = @ + 1]}])
    BY DEF ListFails, Inv, Shapes, Uncommitted
  <2>2. Uncommitted(cyc')
    BY <1>2, <2>1, TurnsOn
  <2> QED
    BY <1>2, <2>2, Aside DEF Inv, Shapes
<1> QED
  BY <1>1, <1>2 DEF ListFails

LEMMA ReadPageStep == ASSUME Inv, NEW k, ReadPage(k) PROVE Inv'
<1>1. PICK page \in Pages(k) : cyc' = [cyc EXCEPT !.cursor = k, !.changes = @ \o page]
  BY DEF ReadPage
<1>2. Uncommitted(cyc')
  BY <1>1 DEF ReadPage, Inv, Shapes, Uncommitted
<1> QED
  BY <1>2, Aside DEF ReadPage, Inv, Shapes

(* The candidate stands at the end of the log. *)
LEMMA ReadLastStep == ASSUME Inv, ReadLast PROVE Inv'
<1>1. CASE Falls /\ UNCHANGED saved
  BY <1>1, FallsStep DEF Inv, Shapes
<1>2. ASSUME NEW t, NEW kind, NEW changed, NEW root, NEW off,
             cyc' = [pc |-> "commit", kind |-> kind, changed |-> changed, made |-> Checkpoint(t, Len(log), root, off)],
             UNCHANGED <<cloud, log, live, trusted, saved, sinceFull, startup, bg, since>>
      PROVE  Inv'
  <2>1. Len(log) \in Nat /\ since \in 0 .. Len(log)
    BY DEF Inv, History, Behind
  <2>2. cyc'.made.cursor = Len(log) /\ "cursor" \in DOMAIN cyc'.made /\ "pc" \in DOMAIN cyc'
    BY <1>2 DEF Checkpoint
  <2>3. History' /\ Shapes'
    BY <1>2, <2>2 DEF Inv, History, Shapes
  <2>4. Behind'
    BY <1>2, <2>1, <2>2 DEF Inv, Behind
  <2> QED
    BY <2>3, <2>4 DEF Inv
<1>3. PICK page \in Pages(Len(log)), index \in Indexes(Base.tree) :
        LET changes == cyc.changes \o page
            made == ApplyChanges(Base.tree, index, Base.root, changes)
        IN  IF made.ok /\ Distinct(made.tree)
            THEN /\ cyc' = [pc |-> "commit", kind |-> cyc.kind, changed |-> changes # <<>>,
                            made |-> Checkpoint(made.tree, Len(log), Base.root, Base.off)]
                 /\ UNCHANGED <<cloud, log, live, trusted, saved, sinceFull, startup, bg, since>>
            ELSE Falls /\ UNCHANGED saved
  BY DEF ReadLast
<1> DEFINE changes == cyc.changes \o page
           made == ApplyChanges(Base.tree, index, Base.root, changes)
<1>4. CASE made.ok /\ Distinct(made.tree)
  <2>1. cyc' = [pc |-> "commit", kind |-> cyc.kind, changed |-> changes # <<>>,
                made |-> Checkpoint(made.tree, Len(log), Base.root, Base.off)]
    BY <1>3, <1>4
  <2>2. UNCHANGED <<cloud, log, live, trusted, saved, sinceFull, startup, bg, since>>
    BY <1>3, <1>4
  <2> HIDE DEF made, changes
  <2> QED
    BY <1>2, <2>1, <2>2
<1>5. CASE ~(made.ok /\ Distinct(made.tree))
  BY <1>1, <1>3, <1>5
<1> QED
  BY <1>4, <1>5

LEMMA ReadFailsStep == ASSUME Inv, ReadFails PROVE Inv'
  BY RefreshFailsStep, FallsStep DEF ReadFails, Inv, Shapes

(* What is installed is the candidate. *)
LEMMA CommitRefreshStep == ASSUME Inv, CommitRefresh PROVE Inv'
<1>1. cyc.pc = "commit" /\ live' = cyc.made /\ cyc' = Idle /\ trusted' = TRUE /\ UNCHANGED <<cloud, log, since>>
  BY DEF CommitRefresh
<1>2. "cursor" \in DOMAIN cyc.made /\ cyc.made.cursor \in Int /\ cyc.made.cursor >= since
  BY <1>1 DEF Inv, Shapes, Behind
<1>3. saved' \in {cyc.made, saved}
  BY DEF CommitRefresh
<1>4. "cursor" \in DOMAIN saved'
  BY <1>2, <1>3 DEF Inv, Shapes
<1>5. History'
  BY <1>1 DEF Inv, History
<1>6. Shapes'
  BY <1>1, <1>2, <1>4, Beginnings DEF Shapes, Uncommitted
<1>7. Behind'
  BY <1>1, <1>2, Beginnings DEF Inv, Behind, Uncommitted
<1> QED
  BY <1>5, <1>6, <1>7 DEF Inv

LEMMA CommitFailsStep == ASSUME Inv, CommitFails PROVE Inv'
<1>1. "cursor" \in DOMAIN saved'
  BY DEF CommitFails, Inv, Shapes
<1> QED
  BY <1>1, FallsStep DEF CommitFails

LEMMA WorkStep == ASSUME Inv, Work PROVE Inv'
<1>1. History
  BY DEF Inv
<1>2. UNCHANGED <<live, trusted, saved, since>>
  BY DEF Work
<1>3. History' /\ Len(log') = Len(log) + 1
  BY <1>1, EditGrows, CreateGrows, MoveGrows, DeleteGrows DEF Work, Upload, Create, Move
<1>4. "pc" \in DOMAIN cyc' /\ cyc'.pc = "settle" /\ cyc'.own.op \in {"put", "move", "remove"}
  BY DEF Work, Wrote
<1> QED
  BY <1>2, <1>3, <1>4, Grown

LEMMA SettleStep == ASSUME Inv, Settle PROVE Inv'
<1>1. Uncommitted(cyc') /\ UNCHANGED <<cloud, log, trusted, since>>
  BY Beginnings DEF Settle
<1>2. "cursor" \in DOMAIN live /\ "cursor" \in DOMAIN saved
  BY DEF Inv, Shapes
<1> DEFINE w == cyc.own
<1>3. \/ UNCHANGED <<live, saved>>
      \/ live' = Committed(w) /\ saved' = live'
      \/ (\E t : live' = [live EXCEPT !.tree = t]) /\ UNCHANGED saved
      \/ (\E t, o : live' = [live EXCEPT !.tree = t, !.off = o]) /\ UNCHANGED saved
  <2>1. w.op \in {"put", "move", "remove"}
    BY DEF Settle, Inv, Shapes
  <2>2. CASE w.op = "move" /\ Refused(w)
    BY <2>2 DEF Settle
  <2>3. CASE w.op = "move" /\ ~Refused(w)
    BY <2>3 DEF Settle
  <2>4. CASE w.op = "put"
    BY <2>4 DEF Settle
  <2>5. CASE w.op = "remove"
    BY <2>5 DEF Settle
  <2> QED
    BY <2>1, <2>2, <2>3, <2>4, <2>5
<1> QED
  BY <1>1, <1>2, <1>3, CursorKept, Aside

LEMMA SettleFailsStep == ASSUME Inv, SettleFails PROVE Inv'
<1>1. "cursor" \in DOMAIN saved'
  BY CursorKept DEF SettleFails, Inv, Shapes
<1> QED
  BY <1>1, Beginnings, Distrusted DEF SettleFails, Inv, Shapes

LEMMA BesideStep == ASSUME Inv, Beside PROVE Inv'
<1>1. History
  BY DEF Inv
<1>2. UNCHANGED <<live, trusted, saved, since>>
  BY DEF Beside
<1>3. History' /\ Len(log') = Len(log) + 1
  BY <1>1, EditGrows, CreateGrows, MoveGrows, DeleteGrows DEF Beside, Upload, Create, Move
<1>4. "pc" \in DOMAIN cyc
  BY DEF Inv, Shapes
<1>5. UNCHANGED cyc \/ \E i \in Id : Moving(i)
  BY DEF Beside
<1>6. "pc" \in DOMAIN cyc' /\ (cyc'.pc # "list" => cyc' = cyc)
  BY <1>4, <1>5, MovingKeeps
<1> QED
  BY <1>2, <1>3, <1>6, Grown

LEMMA SettleBesideStep == ASSUME Inv, SettleBeside PROVE Inv'
<1>1. PICK t, o : live' = [live EXCEPT !.tree = t, !.off = o]
  BY DEF SettleBeside
<1>2. "cursor" \in DOMAIN live' /\ live'.cursor = live.cursor
  BY <1>1, CursorKept DEF Inv, Shapes
<1>3. History' /\ Shapes'
  BY <1>2 DEF SettleBeside, Inv, History, Shapes
<1>4. Behind'
  BY <1>2 DEF SettleBeside, Inv, Behind
<1> QED
  BY <1>3, <1>4 DEF Inv

LEMMA CrashStep == ASSUME Inv, Crash PROVE Inv'
<1>1. saved' = saved \/ (cyc.pc = "commit" /\ saved' = cyc.made) \/ \E w : saved' = Committed(w)
  BY DEF Crash
<1>2. "cursor" \in DOMAIN saved'
  BY <1>1, CursorKept DEF Inv, Shapes
<1>3. "cursor" \in DOMAIN live'
  BY DEF Crash, NoCheckpoint, Checkpoint
<1> QED
  BY <1>2, <1>3, Beginnings, Distrusted DEF Crash

-----------------------------------------------------------------------------

LEMMA InitInv == Init => Inv
<1> SUFFICES ASSUME Init PROVE Inv
  OBVIOUS
<1>1. History
  BY StartPosition DEF Init, History
<1>2. Shapes
  BY Beginnings DEF Init, Shapes, NoCheckpoint, Checkpoint, Uncommitted
<1>3. Len(log) = 0 /\ since = 0 /\ trusted = FALSE
  BY DEF Init
<1>4. cyc.pc # "commit"
  BY Beginnings DEF Init, Uncommitted
<1>5. Behind
  <2>1. 0 \in 0 .. 0 /\ FALSE \in BOOLEAN
    OBVIOUS
  <2> QED
    BY <1>3, <1>4, <2>1 DEF Behind
<1> QED
  BY <1>1, <1>2, <1>5 DEF Inv

LEMMA StepInv == Inv /\ [Next]_vars => Inv'
<1> SUFFICES ASSUME Inv, [Next]_vars PROVE Inv'
  OBVIOUS
<1>1. CASE Fetch
  BY <1>1, LoadStep, RefreshStep, ListStep, ListFailsStep, ReadPageStep, ReadLastStep, ReadFailsStep,
     CommitRefreshStep, CommitFailsStep DEF Fetch
<1>2. CASE UNCHANGED vars
  BY <1>2 DEF vars, Inv, History, Shapes, Behind
<1> QED
  BY <1>1, <1>2, OthersStep, WorkStep, SettleStep, SettleFailsStep, BesideStep, SettleBesideStep, CrashStep DEF Next

(* A tree that is planned from has caught up with everything the cloud did   *)
(* before the tree was last loaded from the disk or given up: a checkpoint   *)
(* that a crash or a failed commit left behind, an own result that could not *)
(* be made durable or a replay that did not add up never comes back as a     *)
(* tree to plan from without a refresh from then or later (cache.rs,         *)
(* trusted only in commit_snapshot).                                         *)
THEOREM CaughtUp == Spec => []TrustedHasCaughtUp
<1>1. Inv => TrustedHasCaughtUp
  BY DEF Inv, Behind, TrustedHasCaughtUp
<1> QED
  BY <1>1, InitInv, StepInv, PTL DEF Spec
=============================================================================
