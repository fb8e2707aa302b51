--------------------------- MODULE LocalCopyProofs ---------------------------
(***************************************************************************)
(* Proofs about LocalCopy, for any number of writes, free-ups, downloads   *)
(* and faults.  The types hold always; the rest needs Gated, for a write   *)
(* in the middle of a free-up or a download breaks it.  A step is first    *)
(* put in terms of fields (the Does lemmas), then shown to keep each part  *)
(* of the inductive invariant Inv from the whole.                          *)
(***************************************************************************)
EXTENDS LocalCopy, TLAPS

Baseline == [st : {"synced", "cloudonly"}, local : Content, time : Nat, cloud : Content]

(* The phases of a free-up before and after the file is out of the way, of  *)
(* a download and of the repair at a start.                                 *)
Checking == {"remote", "recheck", "mark", "stage"}
Behind == {"stub", "owner", "state", "commit", "drop", "clear", "back"}
Staged == Behind \cup {"unmark", "baseline"}
Fetching == {"receive", "verify", "check", "install", "tag", "settle"}
Repairing == {"row", "demark"}

CheckJob == [pc : Checking, base : Baseline]
StageJob == [pc : Staged, base : Baseline, old : Objects, then : {"idle", "baseline"}]
FetchJob == [pc : Fetching, version : Content]
RepairJob == [pc : Repairing]
Jobs == {Idle} \cup CheckJob \cup StageJob \cup FetchJob \cup RepairJob
Rows == {NoRow} \cup [at : {TRUE}, expect : Content, update : BOOLEAN, snapshot : Content \X Nat]
Temps == {NoTmp} \cup [at : {TRUE}, version : Content, data : Content]

(* A download that has received holds what it received. *)
Received == job.pc \in {"verify", "check", "install"} => tmp.at

Types == TypeOK /\ job \in Jobs /\ row \in Rows /\ tmp \in Temps /\ Received

-----------------------------------------------------------------------------
(* What a phase says of the job, and a step of it leaves *)

LEMMA JobIs ==
  ASSUME job \in Jobs
  PROVE  /\ job.pc \in Checking => job \in CheckJob
         /\ job.pc \in Staged => job \in StageJob
         /\ job.pc \in Fetching => job \in FetchJob
         /\ job.pc \in Repairing => job \in RepairJob
         /\ job.pc = "idle" <=> job = Idle
         /\ job.pc \in {"idle"} \cup Checking \cup Staged \cup Fetching \cup Repairing
BY DEF Jobs, Idle, CheckJob, StageJob, FetchJob, RepairJob, Checking, Staged, Behind, Fetching, Repairing

LEMMA GotoCheck ==
  ASSUME job \in CheckJob, NEW p \in Checking, Goto(p)
  PROVE  job' \in CheckJob /\ job'.pc = p /\ job'.base = job.base
BY DEF Goto, CheckJob

LEMMA GotoStage ==
  ASSUME job \in StageJob, NEW p \in Staged, Goto(p)
  PROVE  job' \in StageJob /\ job'.pc = p /\ job'.base = job.base /\ job'.old = job.old /\ job'.then = job.then
BY DEF Goto, StageJob

LEMMA GotoFetch ==
  ASSUME job \in FetchJob, NEW p \in Fetching, Goto(p)
  PROVE  job' \in FetchJob /\ job'.pc = p /\ job'.version = job.version
BY DEF Goto, FetchJob

LEMMA Nats == MaxWrites \in Nat /\ MaxRuns \in Nat /\ MaxFaults \in Nat /\ Gated \in BOOLEAN
BY LocalCopyAssumption

TypeParts ==
    /\ file \in Objects /\ hidden \in SUBSET Objects /\ copies \in SUBSET Content /\ seen \in SUBSET Content
    /\ cloud \in Content /\ rec \in Baseline /\ job \in Jobs /\ row \in Rows /\ tmp \in Temps
    /\ ~up => job.pc \in {"idle"} \cup Repairing
    /\ job.pc \in Fetching => row.at
    /\ up \in BOOLEAN /\ abandoned \in BOOLEAN /\ writes \in 0 .. MaxWrites /\ runs \in 0 .. MaxRuns
    /\ faults \in 0 .. MaxFaults /\ Received

LEMMA TypesAre == Types <=> TypeParts
BY DEF Types, TypeOK, Baseline, Repairing, Fetching, TypeParts
LEMMA TypesBe == TypeParts' => Types'
BY TypesAre, PTL

LEMMA FieldsOf ==
  ASSUME NEW f \in Objects
  PROVE  /\ f.at \in BOOLEAN /\ f.ph \in BOOLEAN /\ f.own \in BOOLEAN /\ f.mark \in BOOLEAN
         /\ f.data \in Content /\ f.data \in Nat /\ f.time \in Nat
BY Nats DEF Objects, Content

LEMMA RowOf ==
  ASSUME rec \in Baseline
  PROVE  /\ rec.st \in {"synced", "cloudonly"} /\ rec.local \in Content /\ rec.cloud \in Content
         /\ rec.local \in Nat /\ rec.cloud \in Nat /\ rec.time \in Nat
BY Nats DEF Baseline, Content

LEMMA IntentOf ==
  ASSUME row \in Rows, row.at
  PROVE  /\ row.expect \in Content /\ row.update \in BOOLEAN
         /\ row.snapshot[1] \in Content /\ row.snapshot[2] \in Nat
<1>1. ~NoRow.at
  BY DEF NoRow
<1>2. row # NoRow
  BY <1>1
<1>3. row \in [at : {TRUE}, expect : Content, update : BOOLEAN, snapshot : Content \X Nat]
  BY <1>2 DEF Rows
<1>4. row.snapshot \in Content \X Nat
  BY <1>3
<1> QED BY <1>3, <1>4

LEMMA PartialOf ==
  ASSUME tmp \in Temps
  PROVE  tmp.at => tmp.version \in Content /\ tmp.data \in Content
<1>1. ~NoTmp.at
  BY DEF NoTmp
<1>2. tmp.at => tmp # NoTmp
  BY <1>1
<1>3. tmp.at => tmp \in [at : {TRUE}, version : Content, data : Content]
  BY <1>2 DEF Temps
<1> QED BY <1>3

(* A new file, the same file with other marks, and no file. *)
Made(g, data, own) ==
    /\ g \in Objects /\ g.at /\ g.data = data /\ g.time = Now
    /\ g.ph = FALSE /\ g.own = own /\ g.mark = FALSE
Same(f, g, ph, own, mark) ==
    /\ g \in Objects /\ g.at = f.at /\ g.data = f.data /\ g.time = f.time
    /\ g.ph = ph /\ g.own = own /\ g.mark = mark
Away(g) == g \in Objects /\ ~g.at /\ ~g.ph /\ g.data = Empty /\ g.time = 0

LEMMA NowIs ==
  ASSUME Types
  PROVE  Now \in Nat /\ Now = writes + runs + faults + 1
BY TypesAre, Nats DEF Now, TypeParts

LEMMA MadeOf ==
  ASSUME Types, NEW d \in Content, NEW b \in BOOLEAN
  PROVE  Made(Object(d, Now, b), d, b)
BY NowIs DEF Made, Object, Objects

LEMMA NothingIs == Away(Nothing)
<1>1. Empty \in Content
  BY Nats DEF Content, Empty
<1>2. /\ Object(Empty, 0, FALSE) \in Objects /\ Object(Empty, 0, FALSE).ph = FALSE
      /\ Object(Empty, 0, FALSE).data = Empty /\ Object(Empty, 0, FALSE).time = 0
  BY <1>1 DEF Object, Objects
<1>3. \A f \in Objects : LET g == [f EXCEPT !.at = FALSE] IN
        g \in Objects /\ ~g.at /\ g.ph = f.ph /\ g.data = f.data /\ g.time = f.time
  BY DEF Objects
<1> QED BY <1>2, <1>3 DEF Away, Nothing

LEMMA SameOf ==
  ASSUME NEW f \in Objects, NEW b \in BOOLEAN
  PROVE  /\ Same(f, [f EXCEPT !.own = b], f.ph, b, f.mark)
         /\ Same(f, [f EXCEPT !.ph = b], b, f.own, f.mark)
         /\ Same(f, [f EXCEPT !.mark = b], f.ph, f.own, b)
         /\ Same(f, [f EXCEPT !.own = FALSE, !.mark = FALSE], f.ph, FALSE, FALSE)
BY DEF Same, Objects

LEMMA Literals ==
  /\ Empty \in Content
  /\ NoRow \in Rows /\ ~NoRow.at /\ NoTmp \in Temps /\ ~NoTmp.at
  /\ Idle \in Jobs /\ Idle.pc = "idle"
  /\ \A b \in Baseline : \A p \in Checking : [pc |-> p, base |-> b] \in CheckJob
  /\ \A b \in Baseline : \A f \in Objects : [pc |-> "stub", base |-> b, old |-> f, then |-> "idle"] \in StageJob
  /\ \A v \in Content : [pc |-> "receive", version |-> v] \in FetchJob
  /\ \A p \in Repairing : [pc |-> p] \in RepairJob
BY Nats DEF Empty, Content, Rows, NoRow, Temps, NoTmp, Jobs, Idle, CheckJob, StageJob, FetchJob, RepairJob,
            Checking, Staged, Behind, Fetching, Repairing

-----------------------------------------------------------------------------
(* What each step does *)

Checks(p) == job' \in CheckJob /\ job'.pc = p /\ job'.base = job.base
Holds(p) == job' \in StageJob /\ job'.pc = p /\ job'.base = job.base /\ job'.old = job.old
Fetches(p) == job' \in FetchJob /\ job'.pc = p /\ job'.version = job.version
KeepsRow(s) ==
    /\ rec' \in Baseline /\ rec'.st = s
    /\ rec'.local = rec.local /\ rec'.time = rec.time /\ rec'.cloud = rec.cloud
NewRow(c) ==
    /\ rec' \in Baseline /\ rec'.st = "synced"
    /\ rec'.local = file.data /\ rec'.time = file.time /\ rec'.cloud = c
Faulted == faults < MaxFaults /\ faults' = faults + 1 /\ UNCHANGED <<writes, runs>>

LEMMA RowSets ==
  ASSUME rec \in Baseline
  PROVE  /\ rec' = [rec EXCEPT !.st = "cloudonly"] => KeepsRow("cloudonly")
         /\ rec' = [rec EXCEPT !.st = "synced"] => KeepsRow("synced")
         /\ file \in Objects /\ rec' = [rec EXCEPT !.st = "synced", !.local = file.data, !.time = file.time]
               => NewRow(rec.cloud)
<1>1. rec' = [rec EXCEPT !.st = "cloudonly"] => KeepsRow("cloudonly")
  BY DEF Baseline, KeepsRow
<1>2. rec' = [rec EXCEPT !.st = "synced"] => KeepsRow("synced")
  BY DEF Baseline, KeepsRow
<1>3. file \in Objects /\ rec' = [rec EXCEPT !.st = "synced", !.local = file.data, !.time = file.time]
        => NewRow(rec.cloud)
  BY FieldsOf DEF Baseline, NewRow
<1> QED BY <1>1, <1>2, <1>3

LEMMA RowMade ==
  ASSUME file \in Objects, NEW c \in Content,
         rec' = [st |-> "synced", local |-> file.data, time |-> file.time, cloud |-> c]
  PROVE  NewRow(c)
BY FieldsOf DEF Baseline, NewRow

LEMMA DoesFreeUpStart ==
  ASSUME Types, FreeUpStart
  PROVE  /\ up /\ job = Idle /\ runs < MaxRuns /\ runs' = runs + 1 /\ ~row.at
         /\ rec.st = "synced" /\ Unchanged(file, rec) /\ rec.local # Empty
         /\ job' \in CheckJob /\ job'.pc = "remote" /\ job'.base = rec
         /\ UNCHANGED <<file, hidden, copies, tmp, abandoned, rec, cloud, seen, row, up, writes,
                        faults>>
BY TypesAre, JobIs, Literals DEF FreeUpStart, Clean, Checking, disk, counts, TypeParts

LEMMA DoesFreeUpRemote ==
  ASSUME Types, FreeUpRemote
  PROVE  /\ job.pc = "remote"
         /\ Checks("recheck") \/ job' = Idle
         /\ UNCHANGED <<file, hidden, copies, tmp, abandoned, rec, cloud, seen, row, up, writes,
                        runs, faults>>
BY TypesAre, JobIs, GotoCheck DEF FreeUpRemote, Checking, Checks, disk, counts, TypeParts

LEMMA DoesFreeUpRecheck ==
  ASSUME Types, FreeUpRecheck
  PROVE  /\ job.pc = "recheck"
         /\ \/ Unchanged(file, job.base) /\ ~row.at /\ rec = job.base /\ Checks("mark")
            \/ job' = Idle
         /\ UNCHANGED <<file, hidden, copies, tmp, abandoned, rec, cloud, seen, row, up, writes,
                        runs, faults>>
BY TypesAre, JobIs, GotoCheck DEF FreeUpRecheck, Checking, Checks, disk, counts, TypeParts

LEMMA DoesFreeUpMark ==
  ASSUME Types, FreeUpMark
  PROVE  /\ job.pc = "mark" /\ file.at /\ Checks("stage")
         /\ Same(file, file', file.ph, file.own, TRUE)
         /\ UNCHANGED <<abandoned, hidden, copies, tmp, rec, cloud, seen, row, up, writes, runs,
                        faults>>
BY TypesAre, JobIs, SameOf, GotoCheck DEF FreeUpMark, Checking, Checks, disk, counts,
   TypeParts

LEMMA DoesFreeUpStage ==
  ASSUME Types, FreeUpStage
  PROVE  /\ job.pc = "stage" /\ file.at /\ hidden' = hidden \cup {file} /\ Away(file')
         /\ job' \in StageJob /\ job'.pc = "stub" /\ job'.base = job.base /\ job'.old = file
         /\ UNCHANGED <<abandoned, copies, tmp, rec, cloud, seen, row, up, writes, runs, faults>>
BY TypesAre, JobIs, NothingIs, Literals DEF FreeUpStage, Checking, CheckJob, disk, counts,
   TypeParts

LEMMA DoesFreeUpStub ==
  ASSUME Types, FreeUpStub
  PROVE  /\ job.pc = "stub" /\ ~file.at /\ Holds("owner") /\ Made(file', Empty, FALSE)
         /\ UNCHANGED <<abandoned, hidden, copies, tmp, rec, cloud, seen, row, up, writes, runs,
                        faults>>
BY TypesAre, JobIs, MadeOf, GotoStage, Literals DEF FreeUpStub, Staged, Behind, Holds, disk,
   counts, TypeParts

LEMMA DoesFreeUpOwner ==
  ASSUME Types, FreeUpOwner
  PROVE  /\ job.pc = "owner" /\ file.at /\ Holds("state")
         /\ Same(file, file', file.ph, TRUE, file.mark)
         /\ UNCHANGED <<abandoned, hidden, copies, tmp, rec, cloud, seen, row, up, writes, runs,
                        faults>>
BY TypesAre, JobIs, SameOf, GotoStage DEF FreeUpOwner, Staged, Behind, Holds, disk, counts,
   TypeParts

LEMMA DoesFreeUpState ==
  ASSUME Types, FreeUpState
  PROVE  /\ job.pc = "state" /\ file.at /\ Holds("commit")
         /\ Same(file, file', TRUE, file.own, file.mark)
         /\ UNCHANGED <<abandoned, hidden, copies, tmp, rec, cloud, seen, row, up, writes, runs,
                        faults>>
BY TypesAre, JobIs, SameOf, GotoStage DEF FreeUpState, Staged, Behind, Holds, disk, counts,
   TypeParts

LEMMA DoesFreeUpCommit ==
  ASSUME Types, FreeUpCommit
  PROVE  /\ job.pc = "commit"
         /\ \/ rec.st = "synced" /\ KeepsRow("cloudonly") /\ Holds("drop")
            \/ rec' = rec /\ Holds("clear")
         /\ UNCHANGED <<file, hidden, copies, tmp, abandoned, cloud, seen, row, up, writes, runs,
                        faults>>
BY TypesAre, JobIs, GotoStage, RowSets DEF FreeUpCommit, Staged, Behind, Holds, disk,
   counts, TypeParts

LEMMA DoesFreeUpDrop ==
  ASSUME Types, FreeUpDrop
  PROVE  /\ job.pc = "drop" /\ hidden' = hidden \ {job.old} /\ job' = Idle
         /\ UNCHANGED <<abandoned, file, copies, tmp, rec, cloud, seen, row, up, writes, runs,
                        faults>>
BY TypesAre, JobIs DEF FreeUpDrop, disk, counts, TypeParts

LEMMA DoesFreeUpFails ==
  ASSUME Types, FreeUpFails
  PROVE  /\ Faulted
         /\ \/ /\ job.pc \in {"remote", "mark", "stage"} /\ job' = Idle
               /\ file' = file \/ Same(file, file', file.ph, file.own, FALSE)
            \/ /\ job.pc \in {"stub", "owner", "state", "commit", "drop"} /\ Holds("clear")
               /\ file' = file \/ (job.pc \in {"owner", "state"} /\ Away(file'))
         /\ UNCHANGED <<abandoned, hidden, copies, tmp, rec, cloud, seen, row, up>>
<1>0. Faulted /\ UNCHANGED <<abandoned, hidden, copies, tmp, rec, cloud, seen, row, up>>
  BY DEF FreeUpFails, Fail, Faulted
<1>1. CASE /\ job.pc \in {"remote", "mark", "stage"} /\ job' = Idle
           /\ file' = IF job.pc = "stage" THEN [file EXCEPT !.mark = FALSE] ELSE file
  <2>1. Same(file, [file EXCEPT !.mark = FALSE], file.ph, file.own, FALSE)
    BY SameOf, TypesAre DEF TypeParts
  <2> QED BY <1>0, <1>1, <2>1
<1>2. CASE /\ job.pc \in {"stub", "owner", "state"} /\ Goto("clear")
           /\ file' \in IF job.pc = "stub" THEN {file} ELSE {Nothing, file}
  <2>1. Holds("clear")
    BY <1>2, TypesAre, JobIs, GotoStage DEF Holds, Staged, Behind, TypeParts
  <2> QED BY <1>0, <1>2, <2>1, NothingIs
<1>3. CASE job.pc = "commit" /\ Goto("clear") /\ UNCHANGED file
  <2>1. Holds("clear")
    BY <1>3, TypesAre, JobIs, GotoStage DEF Holds, Staged, Behind, TypeParts
  <2> QED BY <1>0, <1>3, <2>1
<1>4. CASE job.pc = "drop" /\ job' = [job EXCEPT !.pc = "clear", !.then = "baseline"] /\ UNCHANGED file
  <2>1. job \in StageJob
    BY <1>4, TypesAre, JobIs DEF Staged, Behind, TypeParts
  <2>2. Holds("clear")
    BY <1>4, <2>1 DEF Holds, StageJob, Staged, Behind
  <2> QED BY <1>0, <1>4, <2>2
<1> QED BY <1>1, <1>2, <1>3, <1>4 DEF FreeUpFails

LEMMA DoesRestoreClear ==
  ASSUME Types, RestoreClear
  PROVE  /\ job.pc = "clear"
         /\ \/ /\ file.at /\ ~OwnPlaceholder(file) /\ file' = file
               /\ job' = Idle /\ abandoned' = TRUE
            \/ /\ ~file.at \/ OwnPlaceholder(file)
               /\ Away(file') /\ Holds("back") /\ abandoned' = abandoned
         /\ UNCHANGED <<hidden, copies, tmp, rec, cloud, seen, row, up, writes, runs, faults>>
BY TypesAre, JobIs, NothingIs, GotoStage DEF RestoreClear, Staged, Behind, Holds, disk,
   counts, TypeParts

LEMMA DoesRestoreBack ==
  ASSUME Types, RestoreBack
  PROVE  /\ job.pc = "back"
         /\ job.old \in Objects
         /\ \/ file.at /\ file' = file /\ hidden' = hidden /\ job' = Idle /\ abandoned' = TRUE
            \/ /\ ~file.at /\ file' = job.old /\ hidden' = hidden \ {job.old}
               /\ Holds("unmark") /\ abandoned' = abandoned
         /\ UNCHANGED <<copies, tmp, rec, cloud, seen, row, up, writes, runs, faults>>
BY TypesAre, JobIs, GotoStage DEF RestoreBack, Staged, Behind, StageJob, Holds, disk,
   counts, TypeParts

LEMMA DoesRestoreUnmark ==
  ASSUME Types, RestoreUnmark
  PROVE  /\ job.pc = "unmark" /\ file.at /\ Same(file, file', file.ph, file.own, FALSE)
         /\ Holds("baseline") \/ job' = Idle
         /\ UNCHANGED <<abandoned, hidden, copies, tmp, rec, cloud, seen, row, up, writes, runs,
                        faults>>
BY TypesAre, JobIs, SameOf, GotoStage DEF RestoreUnmark, Staged, Behind, Holds, disk,
   counts, TypeParts

LEMMA DoesRestoreBaseline ==
  ASSUME Types, RestoreBaseline
  PROVE  /\ job.pc = "baseline" /\ job' = Idle
         /\ rec' = rec \/ KeepsRow("synced")
         /\ UNCHANGED <<file, hidden, copies, tmp, abandoned, cloud, seen, row, up, writes, runs,
                        faults>>
BY TypesAre, JobIs, RowSets DEF RestoreBaseline, disk, counts, TypeParts

LEMMA DoesRestoreFails ==
  ASSUME Types, RestoreFails
  PROVE  /\ Faulted /\ abandoned' = TRUE /\ job' = Idle
         /\ \/ job.pc = "unmark" /\ Away(file') /\ hidden' = hidden \cup {file}
            \/ job.pc \in {"clear", "back", "baseline"} /\ file' = file /\ hidden' = hidden
         /\ UNCHANGED <<copies, tmp, rec, cloud, seen, row, up>>
BY TypesAre, JobIs, NothingIs DEF RestoreFails, Fail, disk, counts, Faulted, TypeParts

LEMMA DoesDownloadAsk ==
  ASSUME Types, DownloadAsk
  PROVE  /\ up /\ ~row.at /\ runs < MaxRuns /\ runs' = runs + 1
         /\ row' \in Rows /\ row'.at /\ row'.expect = cloud
         /\ row'.snapshot[1] = file.data /\ row'.snapshot[2] = file.time
         /\ UNCHANGED <<file, hidden, copies, tmp, abandoned, rec, cloud, seen, job, up, writes,
                        faults>>
<1>1. /\ file \in Objects /\ cloud \in Content /\ file.data \in Content /\ file.time \in Nat
      /\ file.at \in BOOLEAN /\ file.ph \in BOOLEAN
  BY TypesAre, FieldsOf DEF TypeParts
<1>2. row' = [at |-> TRUE, expect |-> cloud, update |-> file.at /\ ~(file.ph /\ file.data = Empty),
              snapshot |-> <<file.data, file.time>>]
  BY DEF DownloadAsk
<1>3. row' \in Rows /\ row'.at /\ row'.expect = cloud /\ row'.snapshot = <<file.data, file.time>>
  BY <1>1, <1>2 DEF Rows
<1> QED BY <1>3 DEF DownloadAsk, disk

LEMMA DoesDownloadStart ==
  ASSUME Types, DownloadStart
  PROVE  /\ up /\ job = Idle /\ row.at
         /\ \/ file.at /\ file.ph /\ file.data # Empty /\ copies' = copies \cup {file.data} /\ Away(file')
            \/ ~(file.at /\ file.ph /\ file.data # Empty) /\ copies' = copies /\ file' = file
         /\ \/ /\ cloud = row.expect /\ row' = row
               /\ job' \in FetchJob /\ job'.pc = "receive" /\ job'.version = cloud
               /\ (tmp.at /\ tmp.version = cloud /\ tmp' = tmp) \/ tmp' = NoTmp
            \/ job' = Idle /\ tmp' = NoTmp /\ row' = NoRow
         /\ UNCHANGED <<abandoned, hidden, rec, cloud, seen, up, writes, runs, faults>>
BY TypesAre, JobIs, NothingIs, Literals DEF DownloadStart, disk, counts, TypeParts

LEMMA DoesDownloadReceive ==
  ASSUME Types, DownloadReceive
  PROVE  /\ job.pc = "receive" /\ Fetches("verify")
         /\ \/ tmp.at /\ tmp' = tmp
            \/ ~tmp.at /\ tmp' \in Temps /\ tmp'.at /\ tmp'.version = job.version /\ tmp'.data = cloud
         /\ UNCHANGED <<abandoned, file, hidden, copies, rec, cloud, seen, row, up, writes, runs,
                        faults>>
<1>1. Fetches("verify") /\ job.version \in Content
  BY TypesAre, JobIs, GotoFetch DEF DownloadReceive, Fetches, Fetching, FetchJob, TypeParts
<1>2. ~tmp.at => /\ [at |-> TRUE, version |-> job.version, data |-> cloud] \in Temps
                 /\ tmp' = [at |-> TRUE, version |-> job.version, data |-> cloud]
  BY <1>1, TypesAre DEF DownloadReceive, Temps, TypeParts
<1> QED BY <1>1, <1>2 DEF DownloadReceive, counts

LEMMA DoesDownloadVerify ==
  ASSUME Types, DownloadVerify
  PROVE  /\ job.pc = "verify"
         /\ \/ cloud = job.version /\ Fetches("check") /\ tmp' = tmp /\ row' = row
            \/ job' = Idle /\ tmp' = NoTmp /\ row' = NoRow
         /\ UNCHANGED <<abandoned, file, hidden, copies, rec, cloud, seen, up, writes, runs,
                        faults>>
BY TypesAre, JobIs, GotoFetch DEF DownloadVerify, Fetching, Fetches, disk, counts, TypeParts

LEMMA DoesDownloadCheck ==
  ASSUME Types, DownloadCheck
  PROVE  /\ job.pc = "check"
         /\ \/ Installable(file, row) /\ Fetches("install") /\ row' = row
            \/ job' = Idle /\ row' = NoRow
         /\ UNCHANGED <<file, hidden, copies, tmp, abandoned, rec, cloud, seen, up, writes, runs,
                        faults>>
BY TypesAre, JobIs, GotoFetch DEF DownloadCheck, Fetching, Fetches, disk, counts, TypeParts

LEMMA DoesDownloadInstall ==
  ASSUME Types, DownloadInstall
  PROVE  /\ job.pc = "install" /\ Fetches("tag") /\ Made(file', tmp.data, FALSE) /\ tmp' = NoTmp
         /\ UNCHANGED <<abandoned, hidden, copies, rec, cloud, seen, row, up, writes, runs,
                        faults>>
<1>1. Fetches("tag")
  BY TypesAre, JobIs, GotoFetch DEF DownloadInstall, Fetches, Fetching, TypeParts
<1>2. tmp.data \in Content
  BY TypesAre, PartialOf DEF DownloadInstall, Received, TypeParts
<1>3. Made(Object(tmp.data, Now, FALSE), tmp.data, FALSE)
  BY <1>2, MadeOf
<1> QED BY <1>1, <1>3 DEF DownloadInstall, counts

LEMMA DoesDownloadTag ==
  ASSUME Types, DownloadTag
  PROVE  /\ job.pc = "tag" /\ file.at /\ Fetches("settle")
         /\ Same(file, file', file.ph, TRUE, file.mark)
         /\ UNCHANGED <<abandoned, hidden, copies, tmp, rec, cloud, seen, row, up, writes, runs,
                        faults>>
BY TypesAre, JobIs, SameOf, GotoFetch DEF DownloadTag, Fetching, Fetches, disk, counts,
   TypeParts

LEMMA DoesDownloadSettle ==
  ASSUME Types, DownloadSettle
  PROVE  /\ job.pc = "settle" /\ file.at /\ row.at /\ job' = Idle /\ row' = NoRow
         /\ NewRow(row.expect)
         /\ UNCHANGED <<file, hidden, copies, tmp, abandoned, cloud, seen, up, writes, runs,
                        faults>>
BY TypesAre, JobIs, RowMade, IntentOf DEF DownloadSettle, Fetching, disk, counts, TypeParts

LEMMA DoesDownloadFails ==
  ASSUME Types, DownloadFails
  PROVE  /\ Faulted /\ job' = Idle
         /\ \/ job.pc \in {"receive", "verify"} /\ row' = row
            \/ job.pc \in Fetching /\ row' = NoRow
         /\ UNCHANGED <<file, hidden, copies, tmp, abandoned, rec, cloud, seen, up>>
BY TypesAre, JobIs DEF DownloadFails, Fail, Fetching, disk, counts, Faulted, TypeParts

LEMMA DoesUpload ==
  ASSUME Types, Upload
  PROVE  /\ up /\ job = Idle /\ ~row.at /\ file.at /\ ~file.ph /\ ~Clean(file) /\ cloud = rec.cloud
         /\ cloud' = file.data /\ seen' = seen \cup {file.data} /\ NewRow(file.data)
         /\ Same(file, file', file.ph, TRUE, file.mark)
         /\ UNCHANGED <<abandoned, hidden, copies, tmp, job, row, up, writes, runs, faults>>
BY TypesAre, JobIs, SameOf, RowMade, FieldsOf DEF Upload, disk, counts, TypeParts

LEMMA DoesUserWrite ==
  ASSUME Types, UserWrite
  PROVE  /\ writes < MaxWrites /\ (Gated => job = Idle) /\ writes' = writes + 1
         /\ file' \in Objects /\ file'.at /\ file'.data = writes + 2 /\ file'.time = Now
         /\ (Gated => ~file'.ph)
         /\ \/ file.at /\ file'.ph = (file.ph /\ ~Gated) /\ file'.own = file.own
            \/ ~file.at /\ file'.ph = FALSE /\ file'.own = FALSE
         /\ UNCHANGED <<abandoned, hidden, copies, tmp, rec, cloud, seen, job, row, up, runs,
                        faults>>
<1>1. /\ writes < MaxWrites /\ (Gated => job = Idle) /\ writes' = writes + 1
      /\ UNCHANGED <<abandoned, hidden, copies, tmp, rec, cloud, seen, job, row, up, runs, faults>>
  BY DEF UserWrite, MayWrite
<1>2. writes + 2 \in Content /\ Now \in Nat /\ file \in Objects /\ file.ph \in BOOLEAN /\ Gated \in BOOLEAN
  BY <1>1, TypesAre, Nats, NowIs, FieldsOf DEF Content, TypeParts
<1>3. CASE file.at
  <2>1. PICK b \in BOOLEAN : b = (file.ph /\ ~Gated)
    BY <1>2
  <2>2. file' = [file EXCEPT !.data = writes + 2, !.time = Now, !.ph = b]
    BY <1>3, <2>1 DEF UserWrite, Written
  <2>3. /\ file' \in Objects /\ file'.at = file.at /\ file'.data = writes + 2 /\ file'.time = Now
        /\ file'.ph = b /\ file'.own = file.own
    BY <1>2, <2>2 DEF Objects
  <2> QED BY <1>1, <1>3, <2>1, <2>3
<1>4. CASE ~file.at
  <2>1. file' = Object(writes + 2, Now, FALSE)
    BY <1>4 DEF UserWrite, Written
  <2>2. Made(file', writes + 2, FALSE)
    BY <1>2, <2>1, MadeOf
  <2> QED BY <1>1, <1>4, <2>2 DEF Made
<1> QED BY <1>3, <1>4

LEMMA DoesUserDelete ==
  ASSUME Types, UserDelete
  PROVE  /\ writes < MaxWrites /\ (Gated => job = Idle) /\ file.at /\ writes' = writes + 1
         /\ Away(file')
         /\ UNCHANGED <<abandoned, hidden, copies, tmp, rec, cloud, seen, job, row, up, runs,
                        faults>>
BY TypesAre, JobIs, NothingIs DEF UserDelete, MayWrite, disk, counts, TypeParts

LEMMA DoesRemoteWrite ==
  ASSUME Types, RemoteWrite
  PROVE  /\ writes < MaxWrites /\ writes' = writes + 1
         /\ cloud' = writes + 2 /\ cloud' \in Content /\ seen' = seen \cup {writes + 2}
         /\ UNCHANGED <<file, hidden, copies, tmp, abandoned, rec, job, row, up, runs, faults>>
BY TypesAre, Nats DEF RemoteWrite, Written, Content, disk, counts, TypeParts

LEMMA DoesCrash ==
  ASSUME Types, Crash
  PROVE  /\ Faulted /\ up' = FALSE /\ job' = Idle
         /\ UNCHANGED <<file, hidden, copies, tmp, abandoned, rec, cloud, seen, row>>
BY TypesAre, JobIs DEF Crash, Fail, disk, counts, Faulted, TypeParts

LEMMA DoesRecoverStrip ==
  ASSUME Types, NEW h \in hidden, RecoverStrip(h)
  PROVE  /\ ~up /\ job = Idle
         /\ ~(h.own /\ h.mark) \/ (file.at /\ ~file.ph)
         /\ \E g \in Objects : Same(h, g, h.ph, FALSE, FALSE) /\ hidden' = (hidden \ {h}) \cup {g}
         /\ UNCHANGED <<abandoned, file, copies, tmp, rec, cloud, seen, job, row, up, writes,
                        runs, faults>>
<1>1. h \in Objects
  BY TypesAre DEF TypeParts
<1>2. Same(h, [h EXCEPT !.own = FALSE, !.mark = FALSE], h.ph, FALSE, FALSE)
  BY <1>1, SameOf
<1> QED BY <1>2 DEF RecoverStrip, Recovering, Same, counts

LEMMA DoesRecoverSurface ==
  ASSUME Types, NEW h \in hidden, RecoverSurface(h)
  PROVE  /\ ~up /\ job = Idle /\ ~h.own /\ ~h.mark
         /\ hidden' = hidden \ {h} /\ copies' = copies \cup {h.data}
         /\ UNCHANGED <<abandoned, file, tmp, rec, cloud, seen, job, row, up, writes, runs,
                        faults>>
BY TypesAre, JobIs DEF RecoverSurface, Recovering, disk, counts, TypeParts

LEMMA DoesRecoverFinish ==
  ASSUME Types, NEW h \in hidden, RecoverFinish(h)
  PROVE  /\ ~up /\ job = Idle /\ h.own /\ h.mark
         /\ file.at /\ file.ph /\ rec.st = "cloudonly" /\ hidden' = hidden \ {h}
         /\ UNCHANGED <<abandoned, file, copies, tmp, rec, cloud, seen, job, row, up, writes,
                        runs, faults>>
BY TypesAre, JobIs DEF RecoverFinish, Recovering, Committed, disk, counts, TypeParts

LEMMA DoesRecoverUndo ==
  ASSUME Types, NEW h \in hidden, RecoverUndo(h)
  PROVE  /\ ~up /\ job = Idle /\ h.own /\ h.mark /\ file.at /\ file.ph /\ Away(file')
         /\ UNCHANGED <<abandoned, hidden, copies, tmp, rec, cloud, seen, job, row, up, writes,
                        runs, faults>>
BY TypesAre, JobIs, NothingIs DEF RecoverUndo, Recovering, disk, counts, TypeParts

LEMMA DoesRecoverRestore ==
  ASSUME Types, NEW h \in hidden, RecoverRestore(h)
  PROVE  /\ ~up /\ job = Idle /\ h.own /\ h.mark /\ ~file.at
         /\ hidden' = hidden \ {h} /\ file' = h /\ job' \in RepairJob /\ job'.pc = "row"
         /\ UNCHANGED <<abandoned, copies, tmp, rec, cloud, seen, row, up, writes, runs, faults>>
BY TypesAre, JobIs, Literals DEF RecoverRestore, Recovering, Repairing, disk, counts,
   TypeParts

LEMMA DoesRecoverRow ==
  ASSUME Types, RecoverRow
  PROVE  /\ job.pc = "row" /\ file.at /\ NewRow(rec.cloud) /\ job' \in RepairJob /\ job'.pc = "demark"
         /\ UNCHANGED <<file, hidden, copies, tmp, abandoned, cloud, seen, row, up, writes, runs,
                        faults>>
BY TypesAre, JobIs, RowSets, FieldsOf, Literals DEF RecoverRow, Repairing, disk, counts,
   TypeParts

LEMMA DoesRecoverDemark ==
  ASSUME Types, RecoverDemark
  PROVE  /\ job.pc = "demark" /\ file.at /\ job' = Idle /\ Same(file, file', file.ph, file.own, FALSE)
         /\ UNCHANGED <<abandoned, hidden, copies, tmp, rec, cloud, seen, row, up, writes, runs,
                        faults>>
BY TypesAre, JobIs, SameOf DEF RecoverDemark, disk, counts, TypeParts

LEMMA DoesRecoverFails ==
  ASSUME Types, RecoverFails
  PROVE  /\ Faulted /\ job' = Idle
         /\ \/ job.pc = "row" /\ file.at /\ Away(file') /\ hidden' = hidden \cup {file}
            \/ job.pc \in Repairing /\ file' = file /\ hidden' = hidden
         /\ UNCHANGED <<abandoned, copies, tmp, rec, cloud, seen, row, up>>
BY TypesAre, JobIs, NothingIs DEF RecoverFails, Fail, Repairing, disk, counts, Faulted, TypeParts

LEMMA DoesStart ==
  ASSUME Types, Start
  PROVE  /\ ~up /\ job = Idle /\ hidden = {} /\ up' = TRUE
         /\ UNCHANGED <<file, hidden, copies, tmp, abandoned, rec, cloud, seen, job, row, writes,
                        runs, faults>>
BY TypesAre, JobIs DEF Start, Recovering, disk, counts, TypeParts

-----------------------------------------------------------------------------
(* A step keeps the types *)

LEMMA TypesStep ==
  ASSUME Types, [Next]_vars
  PROVE  Types'
<1>1. CASE FreeUpStart
  BY <1>1, DoesFreeUpStart, FieldsOf, TypesAre, TypesBe, Literals, Nats DEF TypeParts,
     Received, Jobs, Checking, Staged, Behind, Fetching, Repairing
<1>2. CASE FreeUpRemote
  <2>1. CASE job.pc = "remote" /\ Checks("recheck") /\ UNCHANGED <<file, hidden, copies, tmp,
           abandoned, rec, cloud, seen, row, up, writes, runs, faults>>
    BY <2>1, TypesAre, TypesBe, Literals, Nats DEF Checks, TypeParts, Received, Jobs,
       Checking, Staged, Behind, Fetching, Repairing
  <2>2. CASE job.pc = "remote" /\ job' = Idle /\ UNCHANGED <<file, hidden, copies, tmp,
           abandoned, rec, cloud, seen, row, up, writes, runs, faults>>
    BY <2>2, TypesAre, TypesBe, Literals, Nats DEF Checks, TypeParts, Received, Jobs,
       Checking, Staged, Behind, Fetching, Repairing
  <2> QED BY <1>2, <2>1, <2>2, DoesFreeUpRemote
<1>3. CASE FreeUpRecheck
  <2>1. CASE job.pc = "recheck" /\ Unchanged(file, job.base) /\ ~row.at /\ rec = job.base /\
           Checks("mark") /\ UNCHANGED <<file, hidden, copies, tmp, abandoned, rec, cloud,
           seen, row, up, writes, runs, faults>>
    BY <2>1, TypesAre, TypesBe, Literals, Nats DEF Checks, TypeParts, Received, Jobs,
       Checking, Staged, Behind, Fetching, Repairing
  <2>2. CASE job.pc = "recheck" /\ job' = Idle /\ UNCHANGED <<file, hidden, copies, tmp,
           abandoned, rec, cloud, seen, row, up, writes, runs, faults>>
    BY <2>2, TypesAre, TypesBe, Literals, Nats DEF Checks, TypeParts, Received, Jobs,
       Checking, Staged, Behind, Fetching, Repairing
  <2> QED BY <1>3, <2>1, <2>2, DoesFreeUpRecheck
<1>4. CASE FreeUpMark
  BY <1>4, DoesFreeUpMark, FieldsOf, TypesAre, TypesBe, Literals, Nats DEF Checks, Same,
     TypeParts, Received, Jobs, Checking, Staged, Behind, Fetching, Repairing
<1>5. CASE FreeUpStage
  BY <1>5, DoesFreeUpStage, FieldsOf, TypesAre, TypesBe, Literals, Nats DEF Away,
     TypeParts, Received, Jobs, Checking, Staged, Behind, Fetching, Repairing
<1>6. CASE FreeUpStub
  BY <1>6, DoesFreeUpStub, FieldsOf, TypesAre, TypesBe, Literals, Nats DEF Holds, Made,
     TypeParts, Received, Jobs, Checking, Staged, Behind, Fetching, Repairing
<1>7. CASE FreeUpOwner
  BY <1>7, DoesFreeUpOwner, FieldsOf, TypesAre, TypesBe, Literals, Nats DEF Holds, Same,
     TypeParts, Received, Jobs, Checking, Staged, Behind, Fetching, Repairing
<1>8. CASE FreeUpState
  BY <1>8, DoesFreeUpState, FieldsOf, TypesAre, TypesBe, Literals, Nats DEF Holds, Same,
     TypeParts, Received, Jobs, Checking, Staged, Behind, Fetching, Repairing
<1>9. CASE FreeUpCommit
  BY <1>9, DoesFreeUpCommit, FieldsOf, TypesAre, TypesBe, Literals, Nats DEF Holds,
     KeepsRow, TypeParts, Received, Jobs, Checking, Staged, Behind, Fetching, Repairing
<1>10. CASE FreeUpDrop
  BY <1>10, DoesFreeUpDrop, FieldsOf, TypesAre, TypesBe, Literals, Nats DEF TypeParts,
     Received, Jobs, Checking, Staged, Behind, Fetching, Repairing
<1>11. CASE FreeUpFails
  <2>1. CASE job.pc \in {"remote", "mark", "stage"} /\ job' = Idle /\ file' = file /\ Faulted /\
           UNCHANGED <<abandoned, hidden, copies, tmp, rec, cloud, seen, row, up>>
    BY <2>1, TypesAre, TypesBe, Literals, Nats DEF Holds, Same, Away, Faulted, TypeParts,
       Received, Jobs, Checking, Staged, Behind, Fetching, Repairing
  <2>2. CASE job.pc \in {"remote", "mark", "stage"} /\ job' = Idle /\ Same(file, file', file.ph,
           file.own, FALSE) /\ Faulted /\ UNCHANGED <<abandoned, hidden, copies, tmp, rec,
           cloud, seen, row, up>>
    BY <2>2, TypesAre, TypesBe, Literals, Nats DEF Holds, Same, Away, Faulted, TypeParts,
       Received, Jobs, Checking, Staged, Behind, Fetching, Repairing
  <2>3. CASE job.pc \in {"stub", "owner", "state", "commit", "drop"} /\ file' = file /\
           Holds("clear") /\ Faulted /\ UNCHANGED <<abandoned, hidden, copies, tmp, rec, cloud,
           seen, row, up>>
    BY <2>3, TypesAre, TypesBe, Literals, Nats DEF Holds, Same, Away, Faulted, TypeParts,
       Received, Jobs, Checking, Staged, Behind, Fetching, Repairing
  <2>4. CASE job.pc \in {"owner", "state"} /\ Away(file') /\ Holds("clear") /\ Faulted /\
           UNCHANGED <<abandoned, hidden, copies, tmp, rec, cloud, seen, row, up>>
    BY <2>4, TypesAre, TypesBe, Literals, Nats DEF Holds, Same, Away, Faulted, TypeParts,
       Received, Jobs, Checking, Staged, Behind, Fetching, Repairing
  <2> QED BY <1>11, <2>1, <2>2, <2>3, <2>4, DoesFreeUpFails
<1>12. CASE RestoreClear
  <2>1. CASE job.pc = "clear" /\ file.at /\ ~OwnPlaceholder(file) /\ file' = file /\ job' = Idle
           /\ abandoned' = TRUE /\ UNCHANGED <<hidden, copies, tmp, rec, cloud, seen, row, up,
           writes, runs, faults>>
    BY <2>1, TypesAre, TypesBe, Literals, Nats DEF Holds, Away, TypeParts, Received, Jobs,
       Checking, Staged, Behind, Fetching, Repairing
  <2>2. CASE job.pc = "clear" /\ (~file.at \/ OwnPlaceholder(file)) /\ Away(file') /\
           Holds("back") /\ abandoned' = abandoned /\ UNCHANGED <<hidden, copies, tmp, rec,
           cloud, seen, row, up, writes, runs, faults>>
    BY <2>2, TypesAre, TypesBe, Literals, Nats DEF Holds, Away, TypeParts, Received, Jobs,
       Checking, Staged, Behind, Fetching, Repairing
  <2> QED BY <1>12, <2>1, <2>2, DoesRestoreClear
<1>13. CASE RestoreBack
  <2>1. CASE job.pc = "back" /\ file.at /\ file' = file /\ hidden' = hidden /\ job' = Idle /\
           abandoned' = TRUE /\ UNCHANGED <<copies, tmp, rec, cloud, seen, row, up, writes,
           runs, faults>>
    BY <2>1, TypesAre, TypesBe, Literals, Nats DEF Holds, TypeParts, Received, Jobs,
       Checking, Staged, Behind, Fetching, Repairing
  <2>2. CASE job.pc = "back" /\ ~file.at /\ file' = job.old /\ job.old \in Objects /\ hidden' =
           hidden \ {job.old} /\ Holds("unmark") /\ abandoned' = abandoned /\ UNCHANGED
           <<copies, tmp, rec, cloud, seen, row, up, writes, runs, faults>>
    BY <2>2, TypesAre, TypesBe, Literals, Nats DEF Holds, TypeParts, Received, Jobs,
       Checking, Staged, Behind, Fetching, Repairing
  <2> QED BY <1>13, <2>1, <2>2, DoesRestoreBack
<1>14. CASE RestoreUnmark
  BY <1>14, DoesRestoreUnmark, FieldsOf, TypesAre, TypesBe, Literals, Nats DEF Holds,
     Same, TypeParts, Received, Jobs, Checking, Staged, Behind, Fetching, Repairing
<1>15. CASE RestoreBaseline
  BY <1>15, DoesRestoreBaseline, FieldsOf, TypesAre, TypesBe, Literals, Nats DEF KeepsRow,
     TypeParts, Received, Jobs, Checking, Staged, Behind, Fetching, Repairing
<1>16. CASE RestoreFails
  <2>1. CASE job.pc = "unmark" /\ Away(file') /\ hidden' = hidden \cup {file} /\ abandoned' =
           TRUE /\ job' = Idle /\ Faulted /\ UNCHANGED <<copies, tmp, rec, cloud, seen, row,
           up>>
    BY <2>1, TypesAre, TypesBe, Literals, Nats DEF Away, Faulted, TypeParts, Received,
       Jobs, Checking, Staged, Behind, Fetching, Repairing
  <2>2. CASE job.pc \in {"clear", "back", "baseline"} /\ UNCHANGED <<file, hidden>> /\ abandoned'
           = TRUE /\ job' = Idle /\ Faulted /\ UNCHANGED <<copies, tmp, rec, cloud, seen, row,
           up>>
    BY <2>2, TypesAre, TypesBe, Literals, Nats DEF Away, Faulted, TypeParts, Received,
       Jobs, Checking, Staged, Behind, Fetching, Repairing
  <2> QED BY <1>16, <2>1, <2>2, DoesRestoreFails
<1>17. CASE DownloadAsk
  BY <1>17, DoesDownloadAsk, FieldsOf, TypesAre, TypesBe, Literals, Nats DEF TypeParts,
     Received, Jobs, Checking, Staged, Behind, Fetching, Repairing
<1>18. CASE DownloadStart
  BY <1>18, DoesDownloadStart, FieldsOf, TypesAre, TypesBe, Literals, Nats DEF Away,
     TypeParts, Received, Jobs, Checking, Staged, Behind, Fetching, Repairing
<1>19. CASE DownloadReceive
  BY <1>19, DoesDownloadReceive, FieldsOf, TypesAre, TypesBe, Literals, Nats DEF Fetches,
     TypeParts, Received, Jobs, Checking, Staged, Behind, Fetching, Repairing
<1>20. CASE DownloadVerify
  BY <1>20, DoesDownloadVerify, FieldsOf, TypesAre, TypesBe, Literals, Nats DEF Fetches,
     TypeParts, Received, Jobs, Checking, Staged, Behind, Fetching, Repairing
<1>21. CASE DownloadCheck
  BY <1>21, DoesDownloadCheck, FieldsOf, TypesAre, TypesBe, Literals, Nats DEF Fetches,
     TypeParts, Received, Jobs, Checking, Staged, Behind, Fetching, Repairing
<1>22. CASE DownloadInstall
  BY <1>22, DoesDownloadInstall, FieldsOf, TypesAre, TypesBe, Literals, Nats DEF Fetches,
     Made, TypeParts, Received, Jobs, Checking, Staged, Behind, Fetching, Repairing
<1>23. CASE DownloadTag
  BY <1>23, DoesDownloadTag, FieldsOf, TypesAre, TypesBe, Literals, Nats DEF Fetches,
     Same, TypeParts, Received, Jobs, Checking, Staged, Behind, Fetching, Repairing
<1>24. CASE DownloadSettle
  BY <1>24, DoesDownloadSettle, FieldsOf, TypesAre, TypesBe, Literals, Nats DEF NewRow,
     TypeParts, Received, Jobs, Checking, Staged, Behind, Fetching, Repairing
<1>25. CASE DownloadFails
  BY <1>25, DoesDownloadFails, FieldsOf, TypesAre, TypesBe, Literals, Nats DEF Faulted,
     TypeParts, Received, Jobs, Checking, Staged, Behind, Fetching, Repairing
<1>26. CASE Upload
  BY <1>26, DoesUpload, FieldsOf, TypesAre, TypesBe, Literals, Nats DEF Same, NewRow,
     TypeParts, Received, Jobs, Checking, Staged, Behind, Fetching, Repairing
<1>27. CASE UserWrite
  BY <1>27, DoesUserWrite, FieldsOf, TypesAre, TypesBe, Literals, Nats DEF TypeParts,
     Received, Jobs, Checking, Staged, Behind, Fetching, Repairing
<1>28. CASE UserDelete
  BY <1>28, DoesUserDelete, FieldsOf, TypesAre, TypesBe, Literals, Nats DEF Away,
     TypeParts, Received, Jobs, Checking, Staged, Behind, Fetching, Repairing
<1>29. CASE RemoteWrite
  BY <1>29, DoesRemoteWrite, FieldsOf, TypesAre, TypesBe, Literals, Nats DEF TypeParts,
     Received, Jobs, Checking, Staged, Behind, Fetching, Repairing
<1>30. CASE Crash
  BY <1>30, DoesCrash, FieldsOf, TypesAre, TypesBe, Literals, Nats DEF Faulted, TypeParts,
     Received, Jobs, Checking, Staged, Behind, Fetching, Repairing
<1>31. ASSUME NEW h \in hidden, RecoverStrip(h) PROVE Types'
  <2>1. PICK g \in Objects : Same(h, g, h.ph, FALSE, FALSE) /\ hidden' = (hidden \ {h})
     \cup {g}
    BY <1>31, DoesRecoverStrip
  <2> QED
    BY <1>31, <2>1, DoesRecoverStrip, TypesAre, TypesBe, Literals, Nats DEF Same,
       TypeParts, Received, Jobs, Checking, Staged, Behind, Fetching, Repairing
<1>32. ASSUME NEW h \in hidden, RecoverSurface(h) PROVE Types'
  BY <1>32, DoesRecoverSurface, FieldsOf, TypesAre, TypesBe, Literals, Nats DEF TypeParts,
     Received, Jobs, Checking, Staged, Behind, Fetching, Repairing
<1>33. ASSUME NEW h \in hidden, RecoverFinish(h) PROVE Types'
  BY <1>33, DoesRecoverFinish, FieldsOf, TypesAre, TypesBe, Literals, Nats DEF TypeParts,
     Received, Jobs, Checking, Staged, Behind, Fetching, Repairing
<1>34. ASSUME NEW h \in hidden, RecoverUndo(h) PROVE Types'
  BY <1>34, DoesRecoverUndo, FieldsOf, TypesAre, TypesBe, Literals, Nats DEF Away,
     TypeParts, Received, Jobs, Checking, Staged, Behind, Fetching, Repairing
<1>35. ASSUME NEW h \in hidden, RecoverRestore(h) PROVE Types'
  BY <1>35, DoesRecoverRestore, FieldsOf, TypesAre, TypesBe, Literals, Nats DEF TypeParts,
     Received, Jobs, Checking, Staged, Behind, Fetching, Repairing
<1>36. CASE RecoverRow
  BY <1>36, DoesRecoverRow, FieldsOf, TypesAre, TypesBe, Literals, Nats DEF NewRow,
     TypeParts, Received, Jobs, Checking, Staged, Behind, Fetching, Repairing
<1>37. CASE RecoverDemark
  BY <1>37, DoesRecoverDemark, FieldsOf, TypesAre, TypesBe, Literals, Nats DEF Same,
     TypeParts, Received, Jobs, Checking, Staged, Behind, Fetching, Repairing
<1>38. CASE Start
  BY <1>38, DoesStart, FieldsOf, TypesAre, TypesBe, Literals, Nats DEF TypeParts,
     Received, Jobs, Checking, Staged, Behind, Fetching, Repairing
<1>39. CASE UNCHANGED vars
  BY <1>39 DEF vars, Types, TypeOK, Received
<1>40. CASE RecoverFails
  BY <1>40, DoesRecoverFails, FieldsOf, TypesAre, TypesBe, Literals, Nats DEF Away, Faulted,
     TypeParts, Received, Jobs, Checking, Staged, Behind, Fetching, Repairing
<1> QED BY <1>1, <1>2, <1>3, <1>4, <1>5, <1>6, <1>7, <1>8, <1>9, <1>10, <1>11, <1>12,
     <1>13, <1>14, <1>15, <1>16, <1>17, <1>18, <1>19, <1>20, <1>21, <1>22, <1>23, <1>24,
     <1>25, <1>26, <1>27, <1>28, <1>29, <1>30, <1>31, <1>32, <1>33, <1>34, <1>35, <1>36,
     <1>37, <1>38, <1>39, <1>40 DEF Next, Recover

-----------------------------------------------------------------------------
(* The inductive invariant *)

Times == writes + runs + faults

(* The contents there are: the cloud has had all but the user's newest. *)
Known ==
    /\ \A c \in seen : c <= writes + 1
    /\ file.data <= writes + 1
    /\ cloud \in seen /\ rec.cloud \in seen /\ rec.local \in seen
    /\ \A h \in hidden : h.data \in seen
    /\ row.at => row.expect \in seen
    /\ tmp.at => tmp.version \in seen

(* The clock: what waits is older than what is written next. *)
Clock ==
    /\ file.time <= Times + 1 /\ rec.time <= Times + 1
    /\ row.at => rec.time <= Times
    /\ \A h \in hidden : h.time <= Times
    /\ job.pc \in Checking \cup {"row"} => file.time <= Times

(* What is hidden is the content of the baseline, with its identity, until  *)
(* recovery sets it free.                                                   *)
Hidden ==
    /\ \A h \in hidden : h.at /\ ~h.ph
    /\ \A h \in hidden : ~(h.own /\ h.mark) => ~up /\ (file.at => ~file.ph)
    /\ ~abandoned => /\ hidden # {} => ~up \/ job.pc \in Behind
                     /\ job.pc \in Behind => hidden = {job.old}
                     /\ \A h \in hidden : h.own /\ h.mark => h.data = rec.cloud

(* What each phase relies on. *)
FreeUpPhases ==
    /\ job.pc \in Checking => up /\ rec.st = "synced" /\ job.base.local # Empty
    /\ job.pc \in {"mark", "stage"} => rec = job.base /\ Unchanged(file, rec) /\ file.own
    /\ job.pc \in {"stage", "unmark"} => file.mark
    /\ job.pc \in Staged => rec.local # Empty /\ job.old.data = rec.local /\ job.old.at /\ ~job.old.ph
                             /\ job.old.own /\ job.old.mark
    /\ job.pc \in Behind => job.old \in hidden
    /\ job.pc \in Behind /\ file.at => file.data = Empty
    /\ job.pc \in {"stub", "back"} => ~file.at
    /\ job.pc = "drop" => rec.st = "cloudonly"
    /\ job.pc \in {"unmark", "baseline"} => file.at /\ ~file.ph /\ file.own /\ file.data = rec.local
DownloadPhases ==
    /\ job.pc \in Fetching => job.version = row.expect
    /\ job.pc \in {"receive", "verify", "check", "install"} /\ tmp.at => tmp.version = job.version
    /\ job.pc \in {"check", "install"} => tmp.data = tmp.version
    /\ job.pc = "install" => Installable(file, row)
    /\ job.pc \in {"tag", "settle"} => ~tmp.at /\ file.at /\ ~file.ph /\ file.data = row.expect
    /\ job.pc = "settle" => file.own
RepairPhases ==
    /\ job.pc \in Repairing => ~up /\ file.at /\ ~file.ph /\ file.own /\ file.mark
    /\ job.pc = "row" => file.data \in seen /\ (~abandoned => file.data = rec.cloud)

(* A file that passes for the one of the baseline carries its identity. *)
Owned == rec.st = "synced" /\ Unchanged(file, rec) => file.own

(* A placeholder is empty and stands for something. *)
Stubs == file.at /\ file.ph => file.data = Empty /\ (rec.st = "cloudonly" \/ hidden # {})

(* A version that differs from what was asked for is newer than all others, *)
(* and a partial file that was received from it will be thrown away.        *)
Fresh ==
    /\ row.at => cloud = row.expect \/ (cloud > row.expect /\ cloud > rec.cloud)
    /\ tmp.at /\ tmp.data # tmp.version => cloud # tmp.version /\ cloud # rec.cloud

RowTrue == ~abandoned => rec.local = rec.cloud

Inv == /\ Known /\ Clock /\ Hidden /\ FreeUpPhases /\ DownloadPhases /\ RepairPhases
       /\ Owned /\ Stubs /\ Fresh /\ RowTrue

LEMMA Plain ==
  ASSUME Types
  PROVE  /\ file \in Objects /\ file.at \in BOOLEAN /\ file.ph \in BOOLEAN /\ file.own \in BOOLEAN
         /\ file.data \in Nat /\ file.time \in Nat
         /\ \A h \in hidden : h \in Objects /\ h.data \in Nat /\ h.time \in Nat
         /\ rec \in Baseline /\ rec.local \in Nat /\ rec.cloud \in Nat /\ rec.time \in Nat
         /\ cloud \in Nat /\ (\A c \in seen : c \in Nat)
         /\ row.at => row.expect \in Nat /\ row.snapshot[1] \in Nat
         /\ tmp.at => tmp.version \in Nat /\ tmp.data \in Nat
         /\ writes \in Nat /\ runs \in Nat /\ faults \in Nat
         /\ ~up => job.pc \in {"idle"} \cup Repairing
         /\ job.pc \in Fetching => row.at
         /\ Received
         /\ Empty = 0 /\ ~NoRow.at /\ ~NoTmp.at /\ Idle.pc = "idle"
<1>1. Content \subseteq Nat
  BY Nats DEF Content
<1>2. writes \in Nat /\ runs \in Nat /\ faults \in Nat
  BY TypesAre, Nats DEF TypeParts
<1>3. \A h \in hidden : h \in Objects /\ h.data \in Nat /\ h.time \in Nat
  BY TypesAre, FieldsOf DEF TypeParts
<1> QED BY <1>1, <1>2, <1>3, TypesAre, FieldsOf, RowOf, IntentOf, PartialOf, Literals
   DEF TypeParts, Empty

-----------------------------------------------------------------------------
(* A step keeps each part of the invariant *)

LEMMA KnownStep ==
  ASSUME Gated, Types, Inv, Types', [Next]_vars
  PROVE  Known'
<1>0. Known /\ FreeUpPhases /\ DownloadPhases /\ RepairPhases
  BY DEF Inv
<1>1. ASSUME UNCHANGED <<file, hidden, seen, cloud, rec, row, tmp, job, writes>> PROVE Known'
  BY <1>0, <1>1 DEF Known
<1>2. CASE Start
  BY <1>1, <1>2, DoesStart
<1>3. CASE FreeUpStart
  BY <1>0, <1>3, DoesFreeUpStart, Plain DEF Known, FreeUpPhases, DownloadPhases,
     RepairPhases, Unchanged, Clean, Checking, Staged, Behind, Fetching, Repairing,
     Received
<1>4. CASE FreeUpRemote
  <2>1. CASE job.pc = "remote" /\ Checks("recheck") /\ UNCHANGED <<file, hidden, copies, tmp,
           abandoned, rec, cloud, seen, row, up, writes, runs, faults>>
    BY <1>0, <2>1, Plain DEF Checks, Known, FreeUpPhases, DownloadPhases, RepairPhases,
       Unchanged, Clean, Checking, Staged, Behind, Fetching, Repairing, Received
  <2>2. CASE job.pc = "remote" /\ job' = Idle /\ UNCHANGED <<file, hidden, copies, tmp,
           abandoned, rec, cloud, seen, row, up, writes, runs, faults>>
    BY <1>0, <2>2, Plain DEF Checks, Known, FreeUpPhases, DownloadPhases, RepairPhases,
       Unchanged, Clean, Checking, Staged, Behind, Fetching, Repairing, Received
  <2> QED BY <1>4, <2>1, <2>2, DoesFreeUpRemote
<1>5. CASE FreeUpRecheck
  <2>1. CASE job.pc = "recheck" /\ Unchanged(file, job.base) /\ ~row.at /\ rec = job.base /\
           Checks("mark") /\ UNCHANGED <<file, hidden, copies, tmp, abandoned, rec, cloud,
           seen, row, up, writes, runs, faults>>
    BY <1>0, <2>1, Plain DEF Checks, Known, FreeUpPhases, DownloadPhases, RepairPhases,
       Unchanged, Clean, Checking, Staged, Behind, Fetching, Repairing, Received
  <2>2. CASE job.pc = "recheck" /\ job' = Idle /\ UNCHANGED <<file, hidden, copies, tmp,
           abandoned, rec, cloud, seen, row, up, writes, runs, faults>>
    BY <1>0, <2>2, Plain DEF Checks, Known, FreeUpPhases, DownloadPhases, RepairPhases,
       Unchanged, Clean, Checking, Staged, Behind, Fetching, Repairing, Received
  <2> QED BY <1>5, <2>1, <2>2, DoesFreeUpRecheck
<1>6. CASE FreeUpMark
  BY <1>0, <1>6, DoesFreeUpMark, Plain DEF Checks, Same, Known, FreeUpPhases,
     DownloadPhases, RepairPhases, Unchanged, Clean, Checking, Staged, Behind, Fetching,
     Repairing, Received
<1>7. CASE FreeUpStage
  BY <1>0, <1>7, DoesFreeUpStage, Plain DEF Away, Known, FreeUpPhases, DownloadPhases,
     RepairPhases, Unchanged, Clean, Checking, Staged, Behind, Fetching, Repairing,
     Received
<1>8. CASE FreeUpStub
  BY <1>0, <1>8, DoesFreeUpStub, Plain DEF Holds, Made, Known, FreeUpPhases,
     DownloadPhases, RepairPhases, Unchanged, Clean, Checking, Staged, Behind, Fetching,
     Repairing, Received
<1>9. CASE FreeUpOwner
  BY <1>0, <1>9, DoesFreeUpOwner, Plain DEF Holds, Same, Known, FreeUpPhases,
     DownloadPhases, RepairPhases, Unchanged, Clean, Checking, Staged, Behind, Fetching,
     Repairing, Received
<1>10. CASE FreeUpState
  BY <1>0, <1>10, DoesFreeUpState, Plain DEF Holds, Same, Known, FreeUpPhases,
     DownloadPhases, RepairPhases, Unchanged, Clean, Checking, Staged, Behind, Fetching,
     Repairing, Received
<1>11. CASE FreeUpCommit
  BY <1>0, <1>11, DoesFreeUpCommit, Plain DEF Holds, KeepsRow, Known, FreeUpPhases,
     DownloadPhases, RepairPhases, Unchanged, Clean, Checking, Staged, Behind, Fetching,
     Repairing, Received
<1>12. CASE FreeUpDrop
  BY <1>0, <1>12, DoesFreeUpDrop, Plain DEF Known, FreeUpPhases, DownloadPhases,
     RepairPhases, Unchanged, Clean, Checking, Staged, Behind, Fetching, Repairing,
     Received
<1>13. CASE FreeUpFails
  <2>1. CASE job.pc \in {"remote", "mark", "stage"} /\ job' = Idle /\ file' = file /\ Faulted /\
           UNCHANGED <<abandoned, hidden, copies, tmp, rec, cloud, seen, row, up>>
    BY <1>0, <2>1, Plain DEF Holds, Same, Away, Faulted, Known, FreeUpPhases,
       DownloadPhases, RepairPhases, Unchanged, Clean, Checking, Staged, Behind, Fetching,
       Repairing, Received
  <2>2. CASE job.pc \in {"remote", "mark", "stage"} /\ job' = Idle /\ Same(file, file', file.ph,
           file.own, FALSE) /\ Faulted /\ UNCHANGED <<abandoned, hidden, copies, tmp, rec,
           cloud, seen, row, up>>
    BY <1>0, <2>2, Plain DEF Holds, Same, Away, Faulted, Known, FreeUpPhases,
       DownloadPhases, RepairPhases, Unchanged, Clean, Checking, Staged, Behind, Fetching,
       Repairing, Received
  <2>3. CASE job.pc \in {"stub", "owner", "state", "commit", "drop"} /\ file' = file /\
           Holds("clear") /\ Faulted /\ UNCHANGED <<abandoned, hidden, copies, tmp, rec, cloud,
           seen, row, up>>
    BY <1>0, <2>3, Plain DEF Holds, Same, Away, Faulted, Known, FreeUpPhases,
       DownloadPhases, RepairPhases, Unchanged, Clean, Checking, Staged, Behind, Fetching,
       Repairing, Received
  <2>4. CASE job.pc \in {"owner", "state"} /\ Away(file') /\ Holds("clear") /\ Faulted /\
           UNCHANGED <<abandoned, hidden, copies, tmp, rec, cloud, seen, row, up>>
    BY <1>0, <2>4, Plain DEF Holds, Same, Away, Faulted, Known, FreeUpPhases,
       DownloadPhases, RepairPhases, Unchanged, Clean, Checking, Staged, Behind, Fetching,
       Repairing, Received
  <2> QED BY <1>13, <2>1, <2>2, <2>3, <2>4, DoesFreeUpFails
<1>14. CASE RestoreClear
  <2>1. CASE job.pc = "clear" /\ file.at /\ ~OwnPlaceholder(file) /\ file' = file /\ job' = Idle
           /\ abandoned' = TRUE /\ UNCHANGED <<hidden, copies, tmp, rec, cloud, seen, row, up,
           writes, runs, faults>>
    BY <1>0, <2>1, Plain DEF Holds, Away, Known, FreeUpPhases, DownloadPhases,
       RepairPhases, Unchanged, Clean, Checking, Staged, Behind, Fetching, Repairing,
       Received
  <2>2. CASE job.pc = "clear" /\ (~file.at \/ OwnPlaceholder(file)) /\ Away(file') /\
           Holds("back") /\ abandoned' = abandoned /\ UNCHANGED <<hidden, copies, tmp, rec,
           cloud, seen, row, up, writes, runs, faults>>
    BY <1>0, <2>2, Plain DEF Holds, Away, Known, FreeUpPhases, DownloadPhases,
       RepairPhases, Unchanged, Clean, Checking, Staged, Behind, Fetching, Repairing,
       Received
  <2> QED BY <1>14, <2>1, <2>2, DoesRestoreClear
<1>15. CASE RestoreBack
  <2>1. CASE job.pc = "back" /\ file.at /\ file' = file /\ hidden' = hidden /\ job' = Idle /\
           abandoned' = TRUE /\ UNCHANGED <<copies, tmp, rec, cloud, seen, row, up, writes,
           runs, faults>>
    BY <1>0, <2>1, Plain DEF Holds, Known, FreeUpPhases, DownloadPhases, RepairPhases,
       Unchanged, Clean, Checking, Staged, Behind, Fetching, Repairing, Received
  <2>2. CASE job.pc = "back" /\ ~file.at /\ file' = job.old /\ job.old \in Objects /\ hidden' =
           hidden \ {job.old} /\ Holds("unmark") /\ abandoned' = abandoned /\ UNCHANGED
           <<copies, tmp, rec, cloud, seen, row, up, writes, runs, faults>>
    BY <1>0, <2>2, Plain DEF Holds, Known, FreeUpPhases, DownloadPhases, RepairPhases,
       Unchanged, Clean, Checking, Staged, Behind, Fetching, Repairing, Received
  <2> QED BY <1>15, <2>1, <2>2, DoesRestoreBack
<1>16. CASE RestoreUnmark
  BY <1>0, <1>16, DoesRestoreUnmark, Plain DEF Holds, Same, Known, FreeUpPhases,
     DownloadPhases, RepairPhases, Unchanged, Clean, Checking, Staged, Behind, Fetching,
     Repairing, Received
<1>17. CASE RestoreBaseline
  BY <1>0, <1>17, DoesRestoreBaseline, Plain DEF KeepsRow, Known, FreeUpPhases,
     DownloadPhases, RepairPhases, Unchanged, Clean, Checking, Staged, Behind, Fetching,
     Repairing, Received
<1>18. CASE RestoreFails
  <2>1. CASE job.pc = "unmark" /\ Away(file') /\ hidden' = hidden \cup {file} /\ abandoned' =
           TRUE /\ job' = Idle /\ Faulted /\ UNCHANGED <<copies, tmp, rec, cloud, seen, row,
           up>>
    BY <1>0, <2>1, Plain DEF Away, Faulted, Known, FreeUpPhases, DownloadPhases,
       RepairPhases, Unchanged, Clean, Checking, Staged, Behind, Fetching, Repairing,
       Received
  <2>2. CASE job.pc \in {"clear", "back", "baseline"} /\ UNCHANGED <<file, hidden>> /\ abandoned'
           = TRUE /\ job' = Idle /\ Faulted /\ UNCHANGED <<copies, tmp, rec, cloud, seen, row,
           up>>
    BY <1>0, <2>2, Plain DEF Away, Faulted, Known, FreeUpPhases, DownloadPhases,
       RepairPhases, Unchanged, Clean, Checking, Staged, Behind, Fetching, Repairing,
       Received
  <2> QED BY <1>18, <2>1, <2>2, DoesRestoreFails
<1>19. CASE DownloadAsk
  BY <1>0, <1>19, DoesDownloadAsk, Plain DEF Known, FreeUpPhases, DownloadPhases,
     RepairPhases, Unchanged, Clean, Checking, Staged, Behind, Fetching, Repairing,
     Received
<1>20. CASE DownloadStart
  BY <1>0, <1>20, DoesDownloadStart, Plain DEF Away, Known, FreeUpPhases, DownloadPhases,
     RepairPhases, Unchanged, Clean, Checking, Staged, Behind, Fetching, Repairing,
     Received
<1>21. CASE DownloadReceive
  BY <1>0, <1>21, DoesDownloadReceive, Plain DEF Fetches, Known, FreeUpPhases,
     DownloadPhases, RepairPhases, Unchanged, Clean, Checking, Staged, Behind, Fetching,
     Repairing, Received
<1>22. CASE DownloadVerify
  BY <1>0, <1>22, DoesDownloadVerify, Plain DEF Fetches, Known, FreeUpPhases,
     DownloadPhases, RepairPhases, Unchanged, Clean, Checking, Staged, Behind, Fetching,
     Repairing, Received
<1>23. CASE DownloadCheck
  BY <1>0, <1>23, DoesDownloadCheck, Plain DEF Fetches, Known, FreeUpPhases,
     DownloadPhases, RepairPhases, Unchanged, Clean, Checking, Staged, Behind, Fetching,
     Repairing, Received
<1>24. CASE DownloadInstall
  BY <1>0, <1>24, DoesDownloadInstall, Plain DEF Fetches, Made, Known, FreeUpPhases,
     DownloadPhases, RepairPhases, Unchanged, Clean, Checking, Staged, Behind, Fetching,
     Repairing, Received
<1>25. CASE DownloadTag
  BY <1>0, <1>25, DoesDownloadTag, Plain DEF Fetches, Same, Known, FreeUpPhases,
     DownloadPhases, RepairPhases, Unchanged, Clean, Checking, Staged, Behind, Fetching,
     Repairing, Received
<1>26. CASE DownloadSettle
  BY <1>0, <1>26, DoesDownloadSettle, Plain DEF NewRow, Known, FreeUpPhases,
     DownloadPhases, RepairPhases, Unchanged, Clean, Checking, Staged, Behind, Fetching,
     Repairing, Received
<1>27. CASE DownloadFails
  BY <1>0, <1>27, DoesDownloadFails, Plain DEF Faulted, Known, FreeUpPhases,
     DownloadPhases, RepairPhases, Unchanged, Clean, Checking, Staged, Behind, Fetching,
     Repairing, Received
<1>28. CASE Upload
  BY <1>0, <1>28, DoesUpload, Plain DEF Same, NewRow, Known, FreeUpPhases, DownloadPhases,
     RepairPhases, Unchanged, Clean, Checking, Staged, Behind, Fetching, Repairing,
     Received
<1>29. CASE UserWrite
  BY <1>0, <1>29, DoesUserWrite, Plain DEF Known, FreeUpPhases, DownloadPhases,
     RepairPhases, Unchanged, Clean, Checking, Staged, Behind, Fetching, Repairing,
     Received
<1>30. CASE UserDelete
  BY <1>0, <1>30, DoesUserDelete, Plain DEF Away, Known, FreeUpPhases, DownloadPhases,
     RepairPhases, Unchanged, Clean, Checking, Staged, Behind, Fetching, Repairing,
     Received
<1>31. CASE RemoteWrite
  BY <1>0, <1>31, DoesRemoteWrite, Plain DEF Known, FreeUpPhases, DownloadPhases,
     RepairPhases, Unchanged, Clean, Checking, Staged, Behind, Fetching, Repairing,
     Received
<1>32. CASE Crash
  BY <1>0, <1>32, DoesCrash, Plain DEF Faulted, Known, FreeUpPhases, DownloadPhases,
     RepairPhases, Unchanged, Clean, Checking, Staged, Behind, Fetching, Repairing,
     Received
<1>33. ASSUME NEW h \in hidden, RecoverStrip(h) PROVE Known'
  <2>1. PICK g \in Objects : Same(h, g, h.ph, FALSE, FALSE) /\ hidden' = (hidden \ {h}) \cup {g}
    BY <1>33, DoesRecoverStrip
  <2>2. \A x \in hidden' : x.data \in seen
    BY <1>0, <2>1 DEF Same, Known
  <2>3. UNCHANGED <<file, rec, cloud, seen, row, tmp, writes>>
    BY <1>33, DoesRecoverStrip
  <2> QED BY <1>0, <2>2, <2>3 DEF Known
<1>34. ASSUME NEW h \in hidden, RecoverSurface(h) PROVE Known'
  BY <1>0, <1>34, DoesRecoverSurface, Plain DEF Known, FreeUpPhases, DownloadPhases,
     RepairPhases, Unchanged, Clean, Checking, Staged, Behind, Fetching, Repairing,
     Received
<1>35. ASSUME NEW h \in hidden, RecoverFinish(h) PROVE Known'
  BY <1>0, <1>35, DoesRecoverFinish, Plain DEF Known, FreeUpPhases, DownloadPhases,
     RepairPhases, Unchanged, Clean, Checking, Staged, Behind, Fetching, Repairing,
     Received
<1>36. ASSUME NEW h \in hidden, RecoverUndo(h) PROVE Known'
  BY <1>0, <1>36, DoesRecoverUndo, Plain DEF Away, Known, FreeUpPhases, DownloadPhases,
     RepairPhases, Unchanged, Clean, Checking, Staged, Behind, Fetching, Repairing,
     Received
<1>37. ASSUME NEW h \in hidden, RecoverRestore(h) PROVE Known'
  BY <1>0, <1>37, DoesRecoverRestore, Plain DEF Known, FreeUpPhases, DownloadPhases,
     RepairPhases, Unchanged, Clean, Checking, Staged, Behind, Fetching, Repairing,
     Received
<1>38. CASE RecoverRow
  BY <1>0, <1>38, DoesRecoverRow, Plain DEF NewRow, Known, FreeUpPhases, DownloadPhases,
     RepairPhases, Unchanged, Clean, Checking, Staged, Behind, Fetching, Repairing,
     Received
<1>39. CASE RecoverDemark
  BY <1>0, <1>39, DoesRecoverDemark, Plain DEF Same, Known, FreeUpPhases, DownloadPhases,
     RepairPhases, Unchanged, Clean, Checking, Staged, Behind, Fetching, Repairing,
     Received
<1>40. CASE UNCHANGED vars
  BY <1>1, <1>40 DEF vars
<1>41. CASE RecoverFails
  BY <1>0, <1>41, DoesRecoverFails, Plain DEF Away, Faulted, Known, FreeUpPhases, DownloadPhases,
     RepairPhases, Unchanged, Clean, Checking, Staged, Behind, Fetching, Repairing,
     Received
<1> QED BY <1>2, <1>3, <1>4, <1>5, <1>6, <1>7, <1>8, <1>9, <1>10, <1>11, <1>12, <1>13,
     <1>14, <1>15, <1>16, <1>17, <1>18, <1>19, <1>20, <1>21, <1>22, <1>23, <1>24, <1>25,
     <1>26, <1>27, <1>28, <1>29, <1>30, <1>31, <1>32, <1>33, <1>34, <1>35, <1>36, <1>37,
     <1>38, <1>39, <1>40, <1>41 DEF Next, Recover


LEMMA ClockStep ==
  ASSUME Gated, Types, Inv, Types', [Next]_vars
  PROVE  Clock'
<1>0. Clock /\ FreeUpPhases
  BY DEF Inv
<1>1. ASSUME UNCHANGED <<file, rec, row, hidden, job, writes, runs, faults>> PROVE Clock'
  BY <1>0, <1>1 DEF Clock, Times
<1>2. CASE Start
  BY <1>1, <1>2, DoesStart
<1>3. CASE FreeUpStart
  BY <1>0, <1>3, DoesFreeUpStart, Plain DEF Clock, FreeUpPhases, Times, Now, Checking,
     Staged, Behind, Fetching, Repairing
<1>4. CASE FreeUpRemote
  <2>1. CASE job.pc = "remote" /\ Checks("recheck") /\ UNCHANGED <<file, hidden, copies, tmp,
           abandoned, rec, cloud, seen, row, up, writes, runs, faults>>
    BY <1>0, <2>1, Plain DEF Checks, Clock, FreeUpPhases, Times, Now, Checking, Staged,
       Behind, Fetching, Repairing
  <2>2. CASE job.pc = "remote" /\ job' = Idle /\ UNCHANGED <<file, hidden, copies, tmp,
           abandoned, rec, cloud, seen, row, up, writes, runs, faults>>
    BY <1>0, <2>2, Plain DEF Checks, Clock, FreeUpPhases, Times, Now, Checking, Staged,
       Behind, Fetching, Repairing
  <2> QED BY <1>4, <2>1, <2>2, DoesFreeUpRemote
<1>5. CASE FreeUpRecheck
  <2>1. CASE job.pc = "recheck" /\ Unchanged(file, job.base) /\ ~row.at /\ rec = job.base /\
           Checks("mark") /\ UNCHANGED <<file, hidden, copies, tmp, abandoned, rec, cloud,
           seen, row, up, writes, runs, faults>>
    BY <1>0, <2>1, Plain DEF Checks, Clock, FreeUpPhases, Times, Now, Checking, Staged,
       Behind, Fetching, Repairing
  <2>2. CASE job.pc = "recheck" /\ job' = Idle /\ UNCHANGED <<file, hidden, copies, tmp,
           abandoned, rec, cloud, seen, row, up, writes, runs, faults>>
    BY <1>0, <2>2, Plain DEF Checks, Clock, FreeUpPhases, Times, Now, Checking, Staged,
       Behind, Fetching, Repairing
  <2> QED BY <1>5, <2>1, <2>2, DoesFreeUpRecheck
<1>6. CASE FreeUpMark
  BY <1>0, <1>6, DoesFreeUpMark, Plain DEF Checks, Same, Clock, FreeUpPhases, Times, Now,
     Checking, Staged, Behind, Fetching, Repairing
<1>7. CASE FreeUpStage
  BY <1>0, <1>7, DoesFreeUpStage, Plain DEF Away, Clock, FreeUpPhases, Times, Now,
     Checking, Staged, Behind, Fetching, Repairing
<1>8. CASE FreeUpStub
  BY <1>0, <1>8, DoesFreeUpStub, Plain DEF Holds, Made, Clock, FreeUpPhases, Times, Now,
     Checking, Staged, Behind, Fetching, Repairing
<1>9. CASE FreeUpOwner
  BY <1>0, <1>9, DoesFreeUpOwner, Plain DEF Holds, Same, Clock, FreeUpPhases, Times, Now,
     Checking, Staged, Behind, Fetching, Repairing
<1>10. CASE FreeUpState
  BY <1>0, <1>10, DoesFreeUpState, Plain DEF Holds, Same, Clock, FreeUpPhases, Times, Now,
     Checking, Staged, Behind, Fetching, Repairing
<1>11. CASE FreeUpCommit
  BY <1>0, <1>11, DoesFreeUpCommit, Plain DEF Holds, KeepsRow, Clock, FreeUpPhases, Times,
     Now, Checking, Staged, Behind, Fetching, Repairing
<1>12. CASE FreeUpDrop
  BY <1>0, <1>12, DoesFreeUpDrop, Plain DEF Clock, FreeUpPhases, Times, Now, Checking,
     Staged, Behind, Fetching, Repairing
<1>13. CASE FreeUpFails
  <2>1. CASE job.pc \in {"remote", "mark", "stage"} /\ job' = Idle /\ file' = file /\ Faulted /\
           UNCHANGED <<abandoned, hidden, copies, tmp, rec, cloud, seen, row, up>>
    BY <1>0, <2>1, Plain DEF Holds, Same, Away, Faulted, Clock, FreeUpPhases, Times, Now,
       Checking, Staged, Behind, Fetching, Repairing
  <2>2. CASE job.pc \in {"remote", "mark", "stage"} /\ job' = Idle /\ Same(file, file', file.ph,
           file.own, FALSE) /\ Faulted /\ UNCHANGED <<abandoned, hidden, copies, tmp, rec,
           cloud, seen, row, up>>
    BY <1>0, <2>2, Plain DEF Holds, Same, Away, Faulted, Clock, FreeUpPhases, Times, Now,
       Checking, Staged, Behind, Fetching, Repairing
  <2>3. CASE job.pc \in {"stub", "owner", "state", "commit", "drop"} /\ file' = file /\
           Holds("clear") /\ Faulted /\ UNCHANGED <<abandoned, hidden, copies, tmp, rec, cloud,
           seen, row, up>>
    BY <1>0, <2>3, Plain DEF Holds, Same, Away, Faulted, Clock, FreeUpPhases, Times, Now,
       Checking, Staged, Behind, Fetching, Repairing
  <2>4. CASE job.pc \in {"owner", "state"} /\ Away(file') /\ Holds("clear") /\ Faulted /\
           UNCHANGED <<abandoned, hidden, copies, tmp, rec, cloud, seen, row, up>>
    BY <1>0, <2>4, Plain DEF Holds, Same, Away, Faulted, Clock, FreeUpPhases, Times, Now,
       Checking, Staged, Behind, Fetching, Repairing
  <2> QED BY <1>13, <2>1, <2>2, <2>3, <2>4, DoesFreeUpFails
<1>14. CASE RestoreClear
  <2>1. CASE job.pc = "clear" /\ file.at /\ ~OwnPlaceholder(file) /\ file' = file /\ job' = Idle
           /\ abandoned' = TRUE /\ UNCHANGED <<hidden, copies, tmp, rec, cloud, seen, row, up,
           writes, runs, faults>>
    BY <1>0, <2>1, Plain DEF Holds, Away, Clock, FreeUpPhases, Times, Now, Checking,
       Staged, Behind, Fetching, Repairing
  <2>2. CASE job.pc = "clear" /\ (~file.at \/ OwnPlaceholder(file)) /\ Away(file') /\
           Holds("back") /\ abandoned' = abandoned /\ UNCHANGED <<hidden, copies, tmp, rec,
           cloud, seen, row, up, writes, runs, faults>>
    BY <1>0, <2>2, Plain DEF Holds, Away, Clock, FreeUpPhases, Times, Now, Checking,
       Staged, Behind, Fetching, Repairing
  <2> QED BY <1>14, <2>1, <2>2, DoesRestoreClear
<1>15. CASE RestoreBack
  <2>1. CASE job.pc = "back" /\ file.at /\ file' = file /\ hidden' = hidden /\ job' = Idle /\
           abandoned' = TRUE /\ UNCHANGED <<copies, tmp, rec, cloud, seen, row, up, writes,
           runs, faults>>
    BY <1>0, <2>1, Plain DEF Holds, Clock, FreeUpPhases, Times, Now, Checking, Staged,
       Behind, Fetching, Repairing
  <2>2. CASE job.pc = "back" /\ ~file.at /\ file' = job.old /\ job.old \in Objects /\ hidden' =
           hidden \ {job.old} /\ Holds("unmark") /\ abandoned' = abandoned /\ UNCHANGED
           <<copies, tmp, rec, cloud, seen, row, up, writes, runs, faults>>
    BY <1>0, <2>2, Plain DEF Holds, Clock, FreeUpPhases, Times, Now, Checking, Staged,
       Behind, Fetching, Repairing
  <2> QED BY <1>15, <2>1, <2>2, DoesRestoreBack
<1>16. CASE RestoreUnmark
  BY <1>0, <1>16, DoesRestoreUnmark, Plain DEF Holds, Same, Clock, FreeUpPhases, Times,
     Now, Checking, Staged, Behind, Fetching, Repairing
<1>17. CASE RestoreBaseline
  BY <1>0, <1>17, DoesRestoreBaseline, Plain DEF KeepsRow, Clock, FreeUpPhases, Times,
     Now, Checking, Staged, Behind, Fetching, Repairing
<1>18. CASE RestoreFails
  <2>1. CASE job.pc = "unmark" /\ Away(file') /\ hidden' = hidden \cup {file} /\ abandoned' =
           TRUE /\ job' = Idle /\ Faulted /\ UNCHANGED <<copies, tmp, rec, cloud, seen, row,
           up>>
    BY <1>0, <2>1, Plain DEF Away, Faulted, Clock, FreeUpPhases, Times, Now, Checking,
       Staged, Behind, Fetching, Repairing
  <2>2. CASE job.pc \in {"clear", "back", "baseline"} /\ UNCHANGED <<file, hidden>> /\ abandoned'
           = TRUE /\ job' = Idle /\ Faulted /\ UNCHANGED <<copies, tmp, rec, cloud, seen, row,
           up>>
    BY <1>0, <2>2, Plain DEF Away, Faulted, Clock, FreeUpPhases, Times, Now, Checking,
       Staged, Behind, Fetching, Repairing
  <2> QED BY <1>18, <2>1, <2>2, DoesRestoreFails
<1>19. CASE DownloadAsk
  BY <1>0, <1>19, DoesDownloadAsk, Plain DEF Clock, FreeUpPhases, Times, Now, Checking,
     Staged, Behind, Fetching, Repairing
<1>20. CASE DownloadStart
  BY <1>0, <1>20, DoesDownloadStart, Plain DEF Away, Clock, FreeUpPhases, Times, Now,
     Checking, Staged, Behind, Fetching, Repairing
<1>21. CASE DownloadReceive
  BY <1>0, <1>21, DoesDownloadReceive, Plain DEF Fetches, Clock, FreeUpPhases, Times, Now,
     Checking, Staged, Behind, Fetching, Repairing
<1>22. CASE DownloadVerify
  BY <1>0, <1>22, DoesDownloadVerify, Plain DEF Fetches, Clock, FreeUpPhases, Times, Now,
     Checking, Staged, Behind, Fetching, Repairing
<1>23. CASE DownloadCheck
  BY <1>0, <1>23, DoesDownloadCheck, Plain DEF Fetches, Clock, FreeUpPhases, Times, Now,
     Checking, Staged, Behind, Fetching, Repairing
<1>24. CASE DownloadInstall
  BY <1>0, <1>24, DoesDownloadInstall, Plain DEF Fetches, Made, Clock, FreeUpPhases,
     Times, Now, Checking, Staged, Behind, Fetching, Repairing
<1>25. CASE DownloadTag
  BY <1>0, <1>25, DoesDownloadTag, Plain DEF Fetches, Same, Clock, FreeUpPhases, Times,
     Now, Checking, Staged, Behind, Fetching, Repairing
<1>26. CASE DownloadSettle
  BY <1>0, <1>26, DoesDownloadSettle, Plain DEF NewRow, Clock, FreeUpPhases, Times, Now,
     Checking, Staged, Behind, Fetching, Repairing
<1>27. CASE DownloadFails
  BY <1>0, <1>27, DoesDownloadFails, Plain DEF Faulted, Clock, FreeUpPhases, Times, Now,
     Checking, Staged, Behind, Fetching, Repairing
<1>28. CASE Upload
  BY <1>0, <1>28, DoesUpload, Plain DEF Same, NewRow, Clock, FreeUpPhases, Times, Now,
     Checking, Staged, Behind, Fetching, Repairing
<1>29. CASE UserWrite
  BY <1>0, <1>29, DoesUserWrite, Plain DEF Clock, FreeUpPhases, Times, Now, Checking,
     Staged, Behind, Fetching, Repairing
<1>30. CASE UserDelete
  BY <1>0, <1>30, DoesUserDelete, Plain DEF Away, Clock, FreeUpPhases, Times, Now,
     Checking, Staged, Behind, Fetching, Repairing
<1>31. CASE RemoteWrite
  BY <1>0, <1>31, DoesRemoteWrite, Plain DEF Clock, FreeUpPhases, Times, Now, Checking,
     Staged, Behind, Fetching, Repairing
<1>32. CASE Crash
  BY <1>0, <1>32, DoesCrash, Plain DEF Faulted, Clock, FreeUpPhases, Times, Now, Checking,
     Staged, Behind, Fetching, Repairing
<1>33. ASSUME NEW h \in hidden, RecoverStrip(h) PROVE Clock'
  <2>1. PICK g \in Objects : Same(h, g, h.ph, FALSE, FALSE) /\ hidden' = (hidden \ {h})
     \cup {g}
    BY <1>33, DoesRecoverStrip
  <2> QED
    BY <1>0, <1>33, <2>1, DoesRecoverStrip, Plain DEF Same, Clock, FreeUpPhases, Times,
       Now, Checking, Staged, Behind, Fetching, Repairing
<1>34. ASSUME NEW h \in hidden, RecoverSurface(h) PROVE Clock'
  BY <1>0, <1>34, DoesRecoverSurface, Plain DEF Clock, FreeUpPhases, Times, Now, Checking,
     Staged, Behind, Fetching, Repairing
<1>35. ASSUME NEW h \in hidden, RecoverFinish(h) PROVE Clock'
  BY <1>0, <1>35, DoesRecoverFinish, Plain DEF Clock, FreeUpPhases, Times, Now, Checking,
     Staged, Behind, Fetching, Repairing
<1>36. ASSUME NEW h \in hidden, RecoverUndo(h) PROVE Clock'
  BY <1>0, <1>36, DoesRecoverUndo, Plain DEF Away, Clock, FreeUpPhases, Times, Now,
     Checking, Staged, Behind, Fetching, Repairing
<1>37. ASSUME NEW h \in hidden, RecoverRestore(h) PROVE Clock'
  BY <1>0, <1>37, DoesRecoverRestore, Plain DEF Clock, FreeUpPhases, Times, Now, Checking,
     Staged, Behind, Fetching, Repairing
<1>38. CASE RecoverRow
  BY <1>0, <1>38, DoesRecoverRow, Plain DEF NewRow, Clock, FreeUpPhases, Times, Now,
     Checking, Staged, Behind, Fetching, Repairing
<1>39. CASE RecoverDemark
  BY <1>0, <1>39, DoesRecoverDemark, Plain DEF Same, Clock, FreeUpPhases, Times, Now,
     Checking, Staged, Behind, Fetching, Repairing
<1>40. CASE UNCHANGED vars
  BY <1>1, <1>40 DEF vars
<1>41. CASE RecoverFails
  BY <1>0, <1>41, DoesRecoverFails, Plain DEF Away, Faulted, Clock, FreeUpPhases, Times, Now,
     Checking, Staged, Behind, Fetching, Repairing
<1> QED BY <1>2, <1>3, <1>4, <1>5, <1>6, <1>7, <1>8, <1>9, <1>10, <1>11, <1>12, <1>13,
     <1>14, <1>15, <1>16, <1>17, <1>18, <1>19, <1>20, <1>21, <1>22, <1>23, <1>24, <1>25,
     <1>26, <1>27, <1>28, <1>29, <1>30, <1>31, <1>32, <1>33, <1>34, <1>35, <1>36, <1>37,
     <1>38, <1>39, <1>40, <1>41 DEF Next, Recover


LEMMA HiddenStep ==
  ASSUME Gated, Types, Inv, Types', [Next]_vars
  PROVE  Hidden'
<1>0. Hidden /\ FreeUpPhases /\ RowTrue /\ Known
  BY DEF Inv
<1>1. ASSUME UNCHANGED <<hidden, up, file, abandoned, job, rec>> PROVE Hidden'
  BY <1>0, <1>1 DEF Hidden
<1>2. CASE DownloadAsk \/ RemoteWrite
  BY <1>1, <1>2, DoesDownloadAsk, DoesRemoteWrite
<1>3. CASE FreeUpStart
  BY <1>0, <1>3, DoesFreeUpStart, Plain DEF Hidden, FreeUpPhases, RowTrue, Known,
     Unchanged, Checking, Staged, Behind, Fetching, Repairing
<1>4. CASE FreeUpRemote
  <2>1. CASE job.pc = "remote" /\ Checks("recheck") /\ UNCHANGED <<file, hidden, copies, tmp,
           abandoned, rec, cloud, seen, row, up, writes, runs, faults>>
    BY <1>0, <2>1, Plain DEF Checks, Hidden, FreeUpPhases, RowTrue, Known, Unchanged,
       Checking, Staged, Behind, Fetching, Repairing
  <2>2. CASE job.pc = "remote" /\ job' = Idle /\ UNCHANGED <<file, hidden, copies, tmp,
           abandoned, rec, cloud, seen, row, up, writes, runs, faults>>
    BY <1>0, <2>2, Plain DEF Checks, Hidden, FreeUpPhases, RowTrue, Known, Unchanged,
       Checking, Staged, Behind, Fetching, Repairing
  <2> QED BY <1>4, <2>1, <2>2, DoesFreeUpRemote
<1>5. CASE FreeUpRecheck
  <2>1. CASE job.pc = "recheck" /\ Unchanged(file, job.base) /\ ~row.at /\ rec = job.base /\
           Checks("mark") /\ UNCHANGED <<file, hidden, copies, tmp, abandoned, rec, cloud,
           seen, row, up, writes, runs, faults>>
    BY <1>0, <2>1, Plain DEF Checks, Hidden, FreeUpPhases, RowTrue, Known, Unchanged,
       Checking, Staged, Behind, Fetching, Repairing
  <2>2. CASE job.pc = "recheck" /\ job' = Idle /\ UNCHANGED <<file, hidden, copies, tmp,
           abandoned, rec, cloud, seen, row, up, writes, runs, faults>>
    BY <1>0, <2>2, Plain DEF Checks, Hidden, FreeUpPhases, RowTrue, Known, Unchanged,
       Checking, Staged, Behind, Fetching, Repairing
  <2> QED BY <1>5, <2>1, <2>2, DoesFreeUpRecheck
<1>6. CASE FreeUpMark
  BY <1>0, <1>6, DoesFreeUpMark, Plain DEF Checks, Same, Hidden, FreeUpPhases, RowTrue,
     Known, Unchanged, Checking, Staged, Behind, Fetching, Repairing
<1>7. CASE FreeUpStage
  BY <1>0, <1>7, DoesFreeUpStage, Plain DEF Away, Hidden, FreeUpPhases, RowTrue, Known,
     Unchanged, Checking, Staged, Behind, Fetching, Repairing
<1>8. CASE FreeUpStub
  BY <1>0, <1>8, DoesFreeUpStub, Plain DEF Holds, Made, Hidden, FreeUpPhases, RowTrue,
     Known, Unchanged, Checking, Staged, Behind, Fetching, Repairing
<1>9. CASE FreeUpOwner
  BY <1>0, <1>9, DoesFreeUpOwner, Plain DEF Holds, Same, Hidden, FreeUpPhases, RowTrue,
     Known, Unchanged, Checking, Staged, Behind, Fetching, Repairing
<1>10. CASE FreeUpState
  BY <1>0, <1>10, DoesFreeUpState, Plain DEF Holds, Same, Hidden, FreeUpPhases, RowTrue,
     Known, Unchanged, Checking, Staged, Behind, Fetching, Repairing
<1>11. CASE FreeUpCommit
  BY <1>0, <1>11, DoesFreeUpCommit, Plain DEF Holds, KeepsRow, Hidden, FreeUpPhases,
     RowTrue, Known, Unchanged, Checking, Staged, Behind, Fetching, Repairing
<1>12. CASE FreeUpDrop
  BY <1>0, <1>12, DoesFreeUpDrop, Plain DEF Hidden, FreeUpPhases, RowTrue, Known,
     Unchanged, Checking, Staged, Behind, Fetching, Repairing
<1>13. CASE FreeUpFails
  <2>1. CASE job.pc \in {"remote", "mark", "stage"} /\ job' = Idle /\ file' = file /\ Faulted /\
           UNCHANGED <<abandoned, hidden, copies, tmp, rec, cloud, seen, row, up>>
    BY <1>0, <2>1, Plain DEF Holds, Same, Away, Faulted, Hidden, FreeUpPhases, RowTrue,
       Known, Unchanged, Checking, Staged, Behind, Fetching, Repairing
  <2>2. CASE job.pc \in {"remote", "mark", "stage"} /\ job' = Idle /\ Same(file, file', file.ph,
           file.own, FALSE) /\ Faulted /\ UNCHANGED <<abandoned, hidden, copies, tmp, rec,
           cloud, seen, row, up>>
    BY <1>0, <2>2, Plain DEF Holds, Same, Away, Faulted, Hidden, FreeUpPhases, RowTrue,
       Known, Unchanged, Checking, Staged, Behind, Fetching, Repairing
  <2>3. CASE job.pc \in {"stub", "owner", "state", "commit", "drop"} /\ file' = file /\
           Holds("clear") /\ Faulted /\ UNCHANGED <<abandoned, hidden, copies, tmp, rec, cloud,
           seen, row, up>>
    BY <1>0, <2>3, Plain DEF Holds, Same, Away, Faulted, Hidden, FreeUpPhases, RowTrue,
       Known, Unchanged, Checking, Staged, Behind, Fetching, Repairing
  <2>4. CASE job.pc \in {"owner", "state"} /\ Away(file') /\ Holds("clear") /\ Faulted /\
           UNCHANGED <<abandoned, hidden, copies, tmp, rec, cloud, seen, row, up>>
    BY <1>0, <2>4, Plain DEF Holds, Same, Away, Faulted, Hidden, FreeUpPhases, RowTrue,
       Known, Unchanged, Checking, Staged, Behind, Fetching, Repairing
  <2> QED BY <1>13, <2>1, <2>2, <2>3, <2>4, DoesFreeUpFails
<1>14. CASE RestoreClear
  <2>1. CASE job.pc = "clear" /\ file.at /\ ~OwnPlaceholder(file) /\ file' = file /\ job' = Idle
           /\ abandoned' = TRUE /\ UNCHANGED <<hidden, copies, tmp, rec, cloud, seen, row, up,
           writes, runs, faults>>
    BY <1>0, <2>1, Plain DEF Holds, Away, Hidden, FreeUpPhases, RowTrue, Known, Unchanged,
       Checking, Staged, Behind, Fetching, Repairing
  <2>2. CASE job.pc = "clear" /\ (~file.at \/ OwnPlaceholder(file)) /\ Away(file') /\
           Holds("back") /\ abandoned' = abandoned /\ UNCHANGED <<hidden, copies, tmp, rec,
           cloud, seen, row, up, writes, runs, faults>>
    BY <1>0, <2>2, Plain DEF Holds, Away, Hidden, FreeUpPhases, RowTrue, Known, Unchanged,
       Checking, Staged, Behind, Fetching, Repairing
  <2> QED BY <1>14, <2>1, <2>2, DoesRestoreClear
<1>15. CASE RestoreBack
  <2>1. CASE job.pc = "back" /\ file.at /\ file' = file /\ hidden' = hidden /\ job' = Idle /\
           abandoned' = TRUE /\ UNCHANGED <<copies, tmp, rec, cloud, seen, row, up, writes,
           runs, faults>>
    BY <1>0, <2>1, Plain DEF Holds, Hidden, FreeUpPhases, RowTrue, Known, Unchanged,
       Checking, Staged, Behind, Fetching, Repairing
  <2>2. CASE job.pc = "back" /\ ~file.at /\ file' = job.old /\ job.old \in Objects /\ hidden' =
           hidden \ {job.old} /\ Holds("unmark") /\ abandoned' = abandoned /\ UNCHANGED
           <<copies, tmp, rec, cloud, seen, row, up, writes, runs, faults>>
    BY <1>0, <2>2, Plain DEF Holds, Hidden, FreeUpPhases, RowTrue, Known, Unchanged,
       Checking, Staged, Behind, Fetching, Repairing
  <2> QED BY <1>15, <2>1, <2>2, DoesRestoreBack
<1>16. CASE RestoreUnmark
  BY <1>0, <1>16, DoesRestoreUnmark, Plain DEF Holds, Same, Hidden, FreeUpPhases, RowTrue,
     Known, Unchanged, Checking, Staged, Behind, Fetching, Repairing
<1>17. CASE RestoreBaseline
  BY <1>0, <1>17, DoesRestoreBaseline, Plain DEF KeepsRow, Hidden, FreeUpPhases, RowTrue,
     Known, Unchanged, Checking, Staged, Behind, Fetching, Repairing
<1>18. CASE RestoreFails
  <2>1. CASE job.pc = "unmark" /\ Away(file') /\ hidden' = hidden \cup {file} /\ abandoned' =
           TRUE /\ job' = Idle /\ Faulted /\ UNCHANGED <<copies, tmp, rec, cloud, seen, row,
           up>>
    BY <1>0, <2>1, Plain DEF Away, Faulted, Hidden, FreeUpPhases, RowTrue, Known,
       Unchanged, Checking, Staged, Behind, Fetching, Repairing
  <2>2. CASE job.pc \in {"clear", "back", "baseline"} /\ UNCHANGED <<file, hidden>> /\ abandoned'
           = TRUE /\ job' = Idle /\ Faulted /\ UNCHANGED <<copies, tmp, rec, cloud, seen, row,
           up>>
    BY <1>0, <2>2, Plain DEF Away, Faulted, Hidden, FreeUpPhases, RowTrue, Known,
       Unchanged, Checking, Staged, Behind, Fetching, Repairing
  <2> QED BY <1>18, <2>1, <2>2, DoesRestoreFails
<1>19. CASE DownloadStart
  BY <1>0, <1>19, DoesDownloadStart, Plain DEF Away, Hidden, FreeUpPhases, RowTrue, Known,
     Unchanged, Checking, Staged, Behind, Fetching, Repairing
<1>20. CASE DownloadReceive
  BY <1>0, <1>20, DoesDownloadReceive, Plain DEF Fetches, Hidden, FreeUpPhases, RowTrue,
     Known, Unchanged, Checking, Staged, Behind, Fetching, Repairing
<1>21. CASE DownloadVerify
  BY <1>0, <1>21, DoesDownloadVerify, Plain DEF Fetches, Hidden, FreeUpPhases, RowTrue,
     Known, Unchanged, Checking, Staged, Behind, Fetching, Repairing
<1>22. CASE DownloadCheck
  BY <1>0, <1>22, DoesDownloadCheck, Plain DEF Fetches, Hidden, FreeUpPhases, RowTrue,
     Known, Unchanged, Checking, Staged, Behind, Fetching, Repairing
<1>23. CASE DownloadInstall
  BY <1>0, <1>23, DoesDownloadInstall, Plain DEF Fetches, Made, Hidden, FreeUpPhases,
     RowTrue, Known, Unchanged, Checking, Staged, Behind, Fetching, Repairing
<1>24. CASE DownloadTag
  BY <1>0, <1>24, DoesDownloadTag, Plain DEF Fetches, Same, Hidden, FreeUpPhases, RowTrue,
     Known, Unchanged, Checking, Staged, Behind, Fetching, Repairing
<1>25. CASE DownloadSettle
  BY <1>0, <1>25, DoesDownloadSettle, Plain DEF NewRow, Hidden, FreeUpPhases, RowTrue,
     Known, Unchanged, Checking, Staged, Behind, Fetching, Repairing
<1>26. CASE DownloadFails
  BY <1>0, <1>26, DoesDownloadFails, Plain DEF Faulted, Hidden, FreeUpPhases, RowTrue,
     Known, Unchanged, Checking, Staged, Behind, Fetching, Repairing
<1>27. CASE Upload
  BY <1>0, <1>27, DoesUpload, Plain DEF Same, NewRow, Hidden, FreeUpPhases, RowTrue,
     Known, Unchanged, Checking, Staged, Behind, Fetching, Repairing
<1>28. CASE UserWrite
  BY <1>0, <1>28, DoesUserWrite, Plain DEF Hidden, FreeUpPhases, RowTrue, Known,
     Unchanged, Checking, Staged, Behind, Fetching, Repairing
<1>29. CASE UserDelete
  BY <1>0, <1>29, DoesUserDelete, Plain DEF Away, Hidden, FreeUpPhases, RowTrue, Known,
     Unchanged, Checking, Staged, Behind, Fetching, Repairing
<1>30. CASE Crash
  BY <1>0, <1>30, DoesCrash, Plain DEF Faulted, Hidden, FreeUpPhases, RowTrue, Known,
     Unchanged, Checking, Staged, Behind, Fetching, Repairing
<1>31. ASSUME NEW h \in hidden, RecoverStrip(h) PROVE Hidden'
  <2>1. PICK g \in Objects : Same(h, g, h.ph, FALSE, FALSE) /\ hidden' = (hidden \ {h}) \cup {g}
    BY <1>31, DoesRecoverStrip
  <2>2. ~up /\ job = Idle /\ UNCHANGED <<abandoned, file, rec, job, up>>
    BY <1>31, DoesRecoverStrip
  <2>3. file.at => ~file.ph
    BY <1>0, <1>31, DoesRecoverStrip DEF Hidden
  <2>4. g.at /\ ~g.ph /\ ~g.own
    BY <1>0, <2>1 DEF Same, Hidden
  <2>5. job.pc \notin Behind
    BY <2>2, Plain DEF Behind
  <2> QED BY <1>0, <2>1, <2>2, <2>3, <2>4, <2>5 DEF Hidden
<1>32. ASSUME NEW h \in hidden, RecoverSurface(h) PROVE Hidden'
  BY <1>0, <1>32, DoesRecoverSurface, Plain DEF Hidden, FreeUpPhases, RowTrue, Known,
     Unchanged, Checking, Staged, Behind, Fetching, Repairing
<1>33. ASSUME NEW h \in hidden, RecoverFinish(h) PROVE Hidden'
  BY <1>0, <1>33, DoesRecoverFinish, Plain DEF Hidden, FreeUpPhases, RowTrue, Known,
     Unchanged, Checking, Staged, Behind, Fetching, Repairing
<1>34. ASSUME NEW h \in hidden, RecoverUndo(h) PROVE Hidden'
  BY <1>0, <1>34, DoesRecoverUndo, Plain DEF Away, Hidden, FreeUpPhases, RowTrue, Known,
     Unchanged, Checking, Staged, Behind, Fetching, Repairing
<1>35. ASSUME NEW h \in hidden, RecoverRestore(h) PROVE Hidden'
  BY <1>0, <1>35, DoesRecoverRestore, Plain DEF Hidden, FreeUpPhases, RowTrue, Known,
     Unchanged, Checking, Staged, Behind, Fetching, Repairing
<1>36. CASE RecoverRow
  BY <1>0, <1>36, DoesRecoverRow, Plain DEF NewRow, Hidden, FreeUpPhases, RowTrue, Known,
     Unchanged, Checking, Staged, Behind, Fetching, Repairing
<1>37. CASE RecoverDemark
  BY <1>0, <1>37, DoesRecoverDemark, Plain DEF Same, Hidden, FreeUpPhases, RowTrue, Known,
     Unchanged, Checking, Staged, Behind, Fetching, Repairing
<1>38. CASE Start
  BY <1>0, <1>38, DoesStart, Plain DEF Hidden, FreeUpPhases, RowTrue, Known, Unchanged,
     Checking, Staged, Behind, Fetching, Repairing
<1>39. CASE UNCHANGED vars
  BY <1>1, <1>39 DEF vars
<1>40. CASE RecoverFails
  <2>1. RepairPhases
    BY DEF Inv
  <2>2. CASE job.pc = "row" /\ file.at /\ Away(file') /\ hidden' = hidden \cup {file}
    BY <1>0, <1>40, <2>1, <2>2, DoesRecoverFails, Plain DEF Away, Hidden, RepairPhases, Repairing, Behind
  <2>3. CASE job.pc \in Repairing /\ file' = file /\ hidden' = hidden
    BY <1>0, <1>40, <2>1, <2>3, DoesRecoverFails, Plain DEF Hidden, RepairPhases, Repairing, Behind
  <2> QED BY <1>40, <2>2, <2>3, DoesRecoverFails
<1> QED BY <1>2, <1>3, <1>4, <1>5, <1>6, <1>7, <1>8, <1>9, <1>10, <1>11, <1>12, <1>13,
     <1>14, <1>15, <1>16, <1>17, <1>18, <1>19, <1>20, <1>21, <1>22, <1>23, <1>24, <1>25,
     <1>26, <1>27, <1>28, <1>29, <1>30, <1>31, <1>32, <1>33, <1>34, <1>35, <1>36, <1>37,
     <1>38, <1>39, <1>40 DEF Next, Recover


LEMMA FreeUpPhasesStep ==
  ASSUME Gated, Types, Inv, Types', [Next]_vars
  PROVE  FreeUpPhases'
<1>0. FreeUpPhases /\ Hidden /\ Owned
  BY DEF Inv
<1>1. ASSUME UNCHANGED <<job, up, rec, file, hidden>> PROVE FreeUpPhases'
  BY <1>0, <1>1 DEF FreeUpPhases, Unchanged
<1>2. CASE DownloadAsk \/ RemoteWrite
  BY <1>1, <1>2, DoesDownloadAsk, DoesRemoteWrite
<1>3. CASE FreeUpStart
  BY <1>0, <1>3, DoesFreeUpStart, Plain DEF FreeUpPhases, Hidden, Owned, Unchanged, Clean,
     OwnPlaceholder, Checking, Staged, Behind, Fetching, Repairing
<1>4. CASE FreeUpRemote
  <2>1. CASE job.pc = "remote" /\ Checks("recheck") /\ UNCHANGED <<file, hidden, copies, tmp,
           abandoned, rec, cloud, seen, row, up, writes, runs, faults>>
    BY <1>0, <2>1, Plain DEF Checks, FreeUpPhases, Hidden, Owned, Unchanged, Clean,
       OwnPlaceholder, Checking, Staged, Behind, Fetching, Repairing
  <2>2. CASE job.pc = "remote" /\ job' = Idle /\ UNCHANGED <<file, hidden, copies, tmp,
           abandoned, rec, cloud, seen, row, up, writes, runs, faults>>
    BY <1>0, <2>2, Plain DEF Checks, FreeUpPhases, Hidden, Owned, Unchanged, Clean,
       OwnPlaceholder, Checking, Staged, Behind, Fetching, Repairing
  <2> QED BY <1>4, <2>1, <2>2, DoesFreeUpRemote
<1>5. CASE FreeUpRecheck
  <2>1. CASE job.pc = "recheck" /\ Unchanged(file, job.base) /\ ~row.at /\ rec = job.base /\
           Checks("mark") /\ UNCHANGED <<file, hidden, copies, tmp, abandoned, rec, cloud,
           seen, row, up, writes, runs, faults>>
    BY <1>0, <2>1, Plain DEF Checks, FreeUpPhases, Hidden, Owned, Unchanged, Clean,
       OwnPlaceholder, Checking, Staged, Behind, Fetching, Repairing
  <2>2. CASE job.pc = "recheck" /\ job' = Idle /\ UNCHANGED <<file, hidden, copies, tmp,
           abandoned, rec, cloud, seen, row, up, writes, runs, faults>>
    BY <1>0, <2>2, Plain DEF Checks, FreeUpPhases, Hidden, Owned, Unchanged, Clean,
       OwnPlaceholder, Checking, Staged, Behind, Fetching, Repairing
  <2> QED BY <1>5, <2>1, <2>2, DoesFreeUpRecheck
<1>6. CASE FreeUpMark
  BY <1>0, <1>6, DoesFreeUpMark, Plain DEF Checks, Same, FreeUpPhases, Hidden, Owned,
     Unchanged, Clean, OwnPlaceholder, Checking, Staged, Behind, Fetching, Repairing
<1>7. CASE FreeUpStage
  BY <1>0, <1>7, DoesFreeUpStage, Plain DEF Away, FreeUpPhases, Hidden, Owned, Unchanged,
     Clean, OwnPlaceholder, Checking, Staged, Behind, Fetching, Repairing
<1>8. CASE FreeUpStub
  BY <1>0, <1>8, DoesFreeUpStub, Plain DEF Holds, Made, FreeUpPhases, Hidden, Owned,
     Unchanged, Clean, OwnPlaceholder, Checking, Staged, Behind, Fetching, Repairing
<1>9. CASE FreeUpOwner
  BY <1>0, <1>9, DoesFreeUpOwner, Plain DEF Holds, Same, FreeUpPhases, Hidden, Owned,
     Unchanged, Clean, OwnPlaceholder, Checking, Staged, Behind, Fetching, Repairing
<1>10. CASE FreeUpState
  BY <1>0, <1>10, DoesFreeUpState, Plain DEF Holds, Same, FreeUpPhases, Hidden, Owned,
     Unchanged, Clean, OwnPlaceholder, Checking, Staged, Behind, Fetching, Repairing
<1>11. CASE FreeUpCommit
  BY <1>0, <1>11, DoesFreeUpCommit, Plain DEF Holds, KeepsRow, FreeUpPhases, Hidden,
     Owned, Unchanged, Clean, OwnPlaceholder, Checking, Staged, Behind, Fetching,
     Repairing
<1>12. CASE FreeUpDrop
  BY <1>0, <1>12, DoesFreeUpDrop, Plain DEF FreeUpPhases, Hidden, Owned, Unchanged, Clean,
     OwnPlaceholder, Checking, Staged, Behind, Fetching, Repairing
<1>13. CASE FreeUpFails
  <2>1. CASE job.pc \in {"remote", "mark", "stage"} /\ job' = Idle /\ file' = file /\ Faulted /\
           UNCHANGED <<abandoned, hidden, copies, tmp, rec, cloud, seen, row, up>>
    BY <1>0, <2>1, Plain DEF Holds, Same, Away, Faulted, FreeUpPhases, Hidden, Owned,
       Unchanged, Clean, OwnPlaceholder, Checking, Staged, Behind, Fetching, Repairing
  <2>2. CASE job.pc \in {"remote", "mark", "stage"} /\ job' = Idle /\ Same(file, file', file.ph,
           file.own, FALSE) /\ Faulted /\ UNCHANGED <<abandoned, hidden, copies, tmp, rec,
           cloud, seen, row, up>>
    BY <1>0, <2>2, Plain DEF Holds, Same, Away, Faulted, FreeUpPhases, Hidden, Owned,
       Unchanged, Clean, OwnPlaceholder, Checking, Staged, Behind, Fetching, Repairing
  <2>3. CASE job.pc \in {"stub", "owner", "state", "commit", "drop"} /\ file' = file /\
           Holds("clear") /\ Faulted /\ UNCHANGED <<abandoned, hidden, copies, tmp, rec, cloud,
           seen, row, up>>
    BY <1>0, <2>3, Plain DEF Holds, Same, Away, Faulted, FreeUpPhases, Hidden, Owned,
       Unchanged, Clean, OwnPlaceholder, Checking, Staged, Behind, Fetching, Repairing
  <2>4. CASE job.pc \in {"owner", "state"} /\ Away(file') /\ Holds("clear") /\ Faulted /\
           UNCHANGED <<abandoned, hidden, copies, tmp, rec, cloud, seen, row, up>>
    BY <1>0, <2>4, Plain DEF Holds, Same, Away, Faulted, FreeUpPhases, Hidden, Owned,
       Unchanged, Clean, OwnPlaceholder, Checking, Staged, Behind, Fetching, Repairing
  <2> QED BY <1>13, <2>1, <2>2, <2>3, <2>4, DoesFreeUpFails
<1>14. CASE RestoreClear
  <2>1. CASE job.pc = "clear" /\ file.at /\ ~OwnPlaceholder(file) /\ file' = file /\ job' = Idle
           /\ abandoned' = TRUE /\ UNCHANGED <<hidden, copies, tmp, rec, cloud, seen, row, up,
           writes, runs, faults>>
    BY <1>0, <2>1, Plain DEF Holds, Away, FreeUpPhases, Hidden, Owned, Unchanged, Clean,
       OwnPlaceholder, Checking, Staged, Behind, Fetching, Repairing
  <2>2. CASE job.pc = "clear" /\ (~file.at \/ OwnPlaceholder(file)) /\ Away(file') /\
           Holds("back") /\ abandoned' = abandoned /\ UNCHANGED <<hidden, copies, tmp, rec,
           cloud, seen, row, up, writes, runs, faults>>
    BY <1>0, <2>2, Plain DEF Holds, Away, FreeUpPhases, Hidden, Owned, Unchanged, Clean,
       OwnPlaceholder, Checking, Staged, Behind, Fetching, Repairing
  <2> QED BY <1>14, <2>1, <2>2, DoesRestoreClear
<1>15. CASE RestoreBack
  <2>1. CASE job.pc = "back" /\ file.at /\ file' = file /\ hidden' = hidden /\ job' = Idle /\
           abandoned' = TRUE /\ UNCHANGED <<copies, tmp, rec, cloud, seen, row, up, writes,
           runs, faults>>
    BY <1>0, <2>1, Plain DEF Holds, FreeUpPhases, Hidden, Owned, Unchanged, Clean,
       OwnPlaceholder, Checking, Staged, Behind, Fetching, Repairing
  <2>2. CASE job.pc = "back" /\ ~file.at /\ file' = job.old /\ job.old \in Objects /\ hidden' =
           hidden \ {job.old} /\ Holds("unmark") /\ abandoned' = abandoned /\ UNCHANGED
           <<copies, tmp, rec, cloud, seen, row, up, writes, runs, faults>>
    BY <1>0, <2>2, Plain DEF Holds, FreeUpPhases, Hidden, Owned, Unchanged, Clean,
       OwnPlaceholder, Checking, Staged, Behind, Fetching, Repairing
  <2> QED BY <1>15, <2>1, <2>2, DoesRestoreBack
<1>16. CASE RestoreUnmark
  BY <1>0, <1>16, DoesRestoreUnmark, Plain DEF Holds, Same, FreeUpPhases, Hidden, Owned,
     Unchanged, Clean, OwnPlaceholder, Checking, Staged, Behind, Fetching, Repairing
<1>17. CASE RestoreBaseline
  BY <1>0, <1>17, DoesRestoreBaseline, Plain DEF KeepsRow, FreeUpPhases, Hidden, Owned,
     Unchanged, Clean, OwnPlaceholder, Checking, Staged, Behind, Fetching, Repairing
<1>18. CASE RestoreFails
  <2>1. CASE job.pc = "unmark" /\ Away(file') /\ hidden' = hidden \cup {file} /\ abandoned' =
           TRUE /\ job' = Idle /\ Faulted /\ UNCHANGED <<copies, tmp, rec, cloud, seen, row,
           up>>
    BY <1>0, <2>1, Plain DEF Away, Faulted, FreeUpPhases, Hidden, Owned, Unchanged, Clean,
       OwnPlaceholder, Checking, Staged, Behind, Fetching, Repairing
  <2>2. CASE job.pc \in {"clear", "back", "baseline"} /\ UNCHANGED <<file, hidden>> /\ abandoned'
           = TRUE /\ job' = Idle /\ Faulted /\ UNCHANGED <<copies, tmp, rec, cloud, seen, row,
           up>>
    BY <1>0, <2>2, Plain DEF Away, Faulted, FreeUpPhases, Hidden, Owned, Unchanged, Clean,
       OwnPlaceholder, Checking, Staged, Behind, Fetching, Repairing
  <2> QED BY <1>18, <2>1, <2>2, DoesRestoreFails
<1>19. CASE DownloadStart
  BY <1>0, <1>19, DoesDownloadStart, Plain DEF Away, FreeUpPhases, Hidden, Owned,
     Unchanged, Clean, OwnPlaceholder, Checking, Staged, Behind, Fetching, Repairing
<1>20. CASE DownloadReceive
  BY <1>0, <1>20, DoesDownloadReceive, Plain DEF Fetches, FreeUpPhases, Hidden, Owned,
     Unchanged, Clean, OwnPlaceholder, Checking, Staged, Behind, Fetching, Repairing
<1>21. CASE DownloadVerify
  BY <1>0, <1>21, DoesDownloadVerify, Plain DEF Fetches, FreeUpPhases, Hidden, Owned,
     Unchanged, Clean, OwnPlaceholder, Checking, Staged, Behind, Fetching, Repairing
<1>22. CASE DownloadCheck
  BY <1>0, <1>22, DoesDownloadCheck, Plain DEF Fetches, FreeUpPhases, Hidden, Owned,
     Unchanged, Clean, OwnPlaceholder, Checking, Staged, Behind, Fetching, Repairing
<1>23. CASE DownloadInstall
  BY <1>0, <1>23, DoesDownloadInstall, Plain DEF Fetches, Made, FreeUpPhases, Hidden,
     Owned, Unchanged, Clean, OwnPlaceholder, Checking, Staged, Behind, Fetching,
     Repairing
<1>24. CASE DownloadTag
  BY <1>0, <1>24, DoesDownloadTag, Plain DEF Fetches, Same, FreeUpPhases, Hidden, Owned,
     Unchanged, Clean, OwnPlaceholder, Checking, Staged, Behind, Fetching, Repairing
<1>25. CASE DownloadSettle
  BY <1>0, <1>25, DoesDownloadSettle, Plain DEF NewRow, FreeUpPhases, Hidden, Owned,
     Unchanged, Clean, OwnPlaceholder, Checking, Staged, Behind, Fetching, Repairing
<1>26. CASE DownloadFails
  BY <1>0, <1>26, DoesDownloadFails, Plain DEF Faulted, FreeUpPhases, Hidden, Owned,
     Unchanged, Clean, OwnPlaceholder, Checking, Staged, Behind, Fetching, Repairing
<1>27. CASE Upload
  BY <1>0, <1>27, DoesUpload, Plain DEF Same, NewRow, FreeUpPhases, Hidden, Owned,
     Unchanged, Clean, OwnPlaceholder, Checking, Staged, Behind, Fetching, Repairing
<1>28. CASE UserWrite
  BY <1>0, <1>28, DoesUserWrite, Plain DEF FreeUpPhases, Hidden, Owned, Unchanged, Clean,
     OwnPlaceholder, Checking, Staged, Behind, Fetching, Repairing
<1>29. CASE UserDelete
  BY <1>0, <1>29, DoesUserDelete, Plain DEF Away, FreeUpPhases, Hidden, Owned, Unchanged,
     Clean, OwnPlaceholder, Checking, Staged, Behind, Fetching, Repairing
<1>30. CASE Crash
  BY <1>0, <1>30, DoesCrash, Plain DEF Faulted, FreeUpPhases, Hidden, Owned, Unchanged,
     Clean, OwnPlaceholder, Checking, Staged, Behind, Fetching, Repairing
<1>31. ASSUME NEW h \in hidden, RecoverStrip(h) PROVE FreeUpPhases'
  <2>1. PICK g \in Objects : Same(h, g, h.ph, FALSE, FALSE) /\ hidden' = (hidden \ {h})
     \cup {g}
    BY <1>31, DoesRecoverStrip
  <2> QED
    BY <1>0, <1>31, <2>1, DoesRecoverStrip, Plain DEF Same, FreeUpPhases, Hidden, Owned,
       Unchanged, Clean, OwnPlaceholder, Checking, Staged, Behind, Fetching, Repairing
<1>32. ASSUME NEW h \in hidden, RecoverSurface(h) PROVE FreeUpPhases'
  BY <1>0, <1>32, DoesRecoverSurface, Plain DEF FreeUpPhases, Hidden, Owned, Unchanged,
     Clean, OwnPlaceholder, Checking, Staged, Behind, Fetching, Repairing
<1>33. ASSUME NEW h \in hidden, RecoverFinish(h) PROVE FreeUpPhases'
  BY <1>0, <1>33, DoesRecoverFinish, Plain DEF FreeUpPhases, Hidden, Owned, Unchanged,
     Clean, OwnPlaceholder, Checking, Staged, Behind, Fetching, Repairing
<1>34. ASSUME NEW h \in hidden, RecoverUndo(h) PROVE FreeUpPhases'
  BY <1>0, <1>34, DoesRecoverUndo, Plain DEF Away, FreeUpPhases, Hidden, Owned, Unchanged,
     Clean, OwnPlaceholder, Checking, Staged, Behind, Fetching, Repairing
<1>35. ASSUME NEW h \in hidden, RecoverRestore(h) PROVE FreeUpPhases'
  BY <1>0, <1>35, DoesRecoverRestore, Plain DEF FreeUpPhases, Hidden, Owned, Unchanged,
     Clean, OwnPlaceholder, Checking, Staged, Behind, Fetching, Repairing
<1>36. CASE RecoverRow
  BY <1>0, <1>36, DoesRecoverRow, Plain DEF NewRow, FreeUpPhases, Hidden, Owned,
     Unchanged, Clean, OwnPlaceholder, Checking, Staged, Behind, Fetching, Repairing
<1>37. CASE RecoverDemark
  BY <1>0, <1>37, DoesRecoverDemark, Plain DEF Same, FreeUpPhases, Hidden, Owned,
     Unchanged, Clean, OwnPlaceholder, Checking, Staged, Behind, Fetching, Repairing
<1>38. CASE Start
  BY <1>0, <1>38, DoesStart, Plain DEF FreeUpPhases, Hidden, Owned, Unchanged, Clean,
     OwnPlaceholder, Checking, Staged, Behind, Fetching, Repairing
<1>39. CASE UNCHANGED vars
  BY <1>1, <1>39 DEF vars
<1>40. CASE RecoverFails
  BY <1>0, <1>40, DoesRecoverFails, Plain DEF Away, Faulted, FreeUpPhases, Hidden, Owned,
     Unchanged, Clean, OwnPlaceholder, Checking, Staged, Behind, Fetching, Repairing
<1> QED BY <1>2, <1>3, <1>4, <1>5, <1>6, <1>7, <1>8, <1>9, <1>10, <1>11, <1>12, <1>13,
     <1>14, <1>15, <1>16, <1>17, <1>18, <1>19, <1>20, <1>21, <1>22, <1>23, <1>24, <1>25,
     <1>26, <1>27, <1>28, <1>29, <1>30, <1>31, <1>32, <1>33, <1>34, <1>35, <1>36, <1>37,
     <1>38, <1>39, <1>40 DEF Next, Recover


LEMMA DownloadPhasesStep ==
  ASSUME Gated, Types, Inv, Types', [Next]_vars
  PROVE  DownloadPhases'
<1>0. DownloadPhases /\ Fresh
  BY DEF Inv
<1>1. ASSUME UNCHANGED <<job, row, tmp, file>> PROVE DownloadPhases'
  BY <1>0, <1>1 DEF DownloadPhases, Installable, OwnPlaceholder
<1>2. CASE RemoteWrite \/ Start
  BY <1>1, <1>2, DoesRemoteWrite, DoesStart
<1>3. CASE FreeUpStart
  BY <1>0, <1>3, DoesFreeUpStart, Plain DEF DownloadPhases, Fresh, Checking, Staged,
     Behind, Fetching, Repairing, Received, Installable
<1>4. CASE FreeUpRemote
  <2>1. CASE job.pc = "remote" /\ Checks("recheck") /\ UNCHANGED <<file, hidden, copies, tmp,
           abandoned, rec, cloud, seen, row, up, writes, runs, faults>>
    BY <1>0, <2>1, Plain DEF Checks, DownloadPhases, Fresh, Checking, Staged, Behind,
       Fetching, Repairing, Received, Installable
  <2>2. CASE job.pc = "remote" /\ job' = Idle /\ UNCHANGED <<file, hidden, copies, tmp,
           abandoned, rec, cloud, seen, row, up, writes, runs, faults>>
    BY <1>0, <2>2, Plain DEF Checks, DownloadPhases, Fresh, Checking, Staged, Behind,
       Fetching, Repairing, Received, Installable
  <2> QED BY <1>4, <2>1, <2>2, DoesFreeUpRemote
<1>5. CASE FreeUpRecheck
  <2>1. CASE job.pc = "recheck" /\ Unchanged(file, job.base) /\ ~row.at /\ rec = job.base /\
           Checks("mark") /\ UNCHANGED <<file, hidden, copies, tmp, abandoned, rec, cloud,
           seen, row, up, writes, runs, faults>>
    BY <1>0, <2>1, Plain DEF Checks, DownloadPhases, Fresh, Checking, Staged, Behind,
       Fetching, Repairing, Received, Installable
  <2>2. CASE job.pc = "recheck" /\ job' = Idle /\ UNCHANGED <<file, hidden, copies, tmp,
           abandoned, rec, cloud, seen, row, up, writes, runs, faults>>
    BY <1>0, <2>2, Plain DEF Checks, DownloadPhases, Fresh, Checking, Staged, Behind,
       Fetching, Repairing, Received, Installable
  <2> QED BY <1>5, <2>1, <2>2, DoesFreeUpRecheck
<1>6. CASE FreeUpMark
  BY <1>0, <1>6, DoesFreeUpMark, Plain DEF Checks, Same, DownloadPhases, Fresh, Checking,
     Staged, Behind, Fetching, Repairing, Received, Installable
<1>7. CASE FreeUpStage
  BY <1>0, <1>7, DoesFreeUpStage, Plain DEF Away, DownloadPhases, Fresh, Checking, Staged,
     Behind, Fetching, Repairing, Received, Installable
<1>8. CASE FreeUpStub
  BY <1>0, <1>8, DoesFreeUpStub, Plain DEF Holds, Made, DownloadPhases, Fresh, Checking,
     Staged, Behind, Fetching, Repairing, Received, Installable
<1>9. CASE FreeUpOwner
  BY <1>0, <1>9, DoesFreeUpOwner, Plain DEF Holds, Same, DownloadPhases, Fresh, Checking,
     Staged, Behind, Fetching, Repairing, Received, Installable
<1>10. CASE FreeUpState
  BY <1>0, <1>10, DoesFreeUpState, Plain DEF Holds, Same, DownloadPhases, Fresh, Checking,
     Staged, Behind, Fetching, Repairing, Received, Installable
<1>11. CASE FreeUpCommit
  BY <1>0, <1>11, DoesFreeUpCommit, Plain DEF Holds, KeepsRow, DownloadPhases, Fresh,
     Checking, Staged, Behind, Fetching, Repairing, Received, Installable
<1>12. CASE FreeUpDrop
  BY <1>0, <1>12, DoesFreeUpDrop, Plain DEF DownloadPhases, Fresh, Checking, Staged,
     Behind, Fetching, Repairing, Received, Installable
<1>13. CASE FreeUpFails
  <2>1. CASE job.pc \in {"remote", "mark", "stage"} /\ job' = Idle /\ file' = file /\ Faulted /\
           UNCHANGED <<abandoned, hidden, copies, tmp, rec, cloud, seen, row, up>>
    BY <1>0, <2>1, Plain DEF Holds, Same, Away, Faulted, DownloadPhases, Fresh, Checking,
       Staged, Behind, Fetching, Repairing, Received, Installable
  <2>2. CASE job.pc \in {"remote", "mark", "stage"} /\ job' = Idle /\ Same(file, file', file.ph,
           file.own, FALSE) /\ Faulted /\ UNCHANGED <<abandoned, hidden, copies, tmp, rec,
           cloud, seen, row, up>>
    BY <1>0, <2>2, Plain DEF Holds, Same, Away, Faulted, DownloadPhases, Fresh, Checking,
       Staged, Behind, Fetching, Repairing, Received, Installable
  <2>3. CASE job.pc \in {"stub", "owner", "state", "commit", "drop"} /\ file' = file /\
           Holds("clear") /\ Faulted /\ UNCHANGED <<abandoned, hidden, copies, tmp, rec, cloud,
           seen, row, up>>
    BY <1>0, <2>3, Plain DEF Holds, Same, Away, Faulted, DownloadPhases, Fresh, Checking,
       Staged, Behind, Fetching, Repairing, Received, Installable
  <2>4. CASE job.pc \in {"owner", "state"} /\ Away(file') /\ Holds("clear") /\ Faulted /\
           UNCHANGED <<abandoned, hidden, copies, tmp, rec, cloud, seen, row, up>>
    BY <1>0, <2>4, Plain DEF Holds, Same, Away, Faulted, DownloadPhases, Fresh, Checking,
       Staged, Behind, Fetching, Repairing, Received, Installable
  <2> QED BY <1>13, <2>1, <2>2, <2>3, <2>4, DoesFreeUpFails
<1>14. CASE RestoreClear
  <2>1. CASE job.pc = "clear" /\ file.at /\ ~OwnPlaceholder(file) /\ file' = file /\ job' = Idle
           /\ abandoned' = TRUE /\ UNCHANGED <<hidden, copies, tmp, rec, cloud, seen, row, up,
           writes, runs, faults>>
    BY <1>0, <2>1, Plain DEF Holds, Away, DownloadPhases, Fresh, Checking, Staged, Behind,
       Fetching, Repairing, Received, Installable
  <2>2. CASE job.pc = "clear" /\ (~file.at \/ OwnPlaceholder(file)) /\ Away(file') /\
           Holds("back") /\ abandoned' = abandoned /\ UNCHANGED <<hidden, copies, tmp, rec,
           cloud, seen, row, up, writes, runs, faults>>
    BY <1>0, <2>2, Plain DEF Holds, Away, DownloadPhases, Fresh, Checking, Staged, Behind,
       Fetching, Repairing, Received, Installable
  <2> QED BY <1>14, <2>1, <2>2, DoesRestoreClear
<1>15. CASE RestoreBack
  <2>1. CASE job.pc = "back" /\ file.at /\ file' = file /\ hidden' = hidden /\ job' = Idle /\
           abandoned' = TRUE /\ UNCHANGED <<copies, tmp, rec, cloud, seen, row, up, writes,
           runs, faults>>
    BY <1>0, <2>1, Plain DEF Holds, DownloadPhases, Fresh, Checking, Staged, Behind,
       Fetching, Repairing, Received, Installable
  <2>2. CASE job.pc = "back" /\ ~file.at /\ file' = job.old /\ job.old \in Objects /\ hidden' =
           hidden \ {job.old} /\ Holds("unmark") /\ abandoned' = abandoned /\ UNCHANGED
           <<copies, tmp, rec, cloud, seen, row, up, writes, runs, faults>>
    BY <1>0, <2>2, Plain DEF Holds, DownloadPhases, Fresh, Checking, Staged, Behind,
       Fetching, Repairing, Received, Installable
  <2> QED BY <1>15, <2>1, <2>2, DoesRestoreBack
<1>16. CASE RestoreUnmark
  BY <1>0, <1>16, DoesRestoreUnmark, Plain DEF Holds, Same, DownloadPhases, Fresh,
     Checking, Staged, Behind, Fetching, Repairing, Received, Installable
<1>17. CASE RestoreBaseline
  BY <1>0, <1>17, DoesRestoreBaseline, Plain DEF KeepsRow, DownloadPhases, Fresh,
     Checking, Staged, Behind, Fetching, Repairing, Received, Installable
<1>18. CASE RestoreFails
  <2>1. CASE job.pc = "unmark" /\ Away(file') /\ hidden' = hidden \cup {file} /\ abandoned' =
           TRUE /\ job' = Idle /\ Faulted /\ UNCHANGED <<copies, tmp, rec, cloud, seen, row,
           up>>
    BY <1>0, <2>1, Plain DEF Away, Faulted, DownloadPhases, Fresh, Checking, Staged,
       Behind, Fetching, Repairing, Received, Installable
  <2>2. CASE job.pc \in {"clear", "back", "baseline"} /\ UNCHANGED <<file, hidden>> /\ abandoned'
           = TRUE /\ job' = Idle /\ Faulted /\ UNCHANGED <<copies, tmp, rec, cloud, seen, row,
           up>>
    BY <1>0, <2>2, Plain DEF Away, Faulted, DownloadPhases, Fresh, Checking, Staged,
       Behind, Fetching, Repairing, Received, Installable
  <2> QED BY <1>18, <2>1, <2>2, DoesRestoreFails
<1>19. CASE DownloadAsk
  BY <1>0, <1>19, DoesDownloadAsk, Plain DEF DownloadPhases, Fresh, Checking, Staged,
     Behind, Fetching, Repairing, Received, Installable
<1>20. CASE DownloadStart
  BY <1>0, <1>20, DoesDownloadStart, Plain DEF Away, DownloadPhases, Fresh, Checking,
     Staged, Behind, Fetching, Repairing, Received, Installable
<1>21. CASE DownloadReceive
  BY <1>0, <1>21, DoesDownloadReceive, Plain DEF Fetches, DownloadPhases, Fresh, Checking,
     Staged, Behind, Fetching, Repairing, Received, Installable
<1>22. CASE DownloadVerify
  BY <1>0, <1>22, DoesDownloadVerify, Plain DEF Fetches, DownloadPhases, Fresh, Checking,
     Staged, Behind, Fetching, Repairing, Received, Installable
<1>23. CASE DownloadCheck
  BY <1>0, <1>23, DoesDownloadCheck, Plain DEF Fetches, DownloadPhases, Fresh, Checking,
     Staged, Behind, Fetching, Repairing, Received, Installable
<1>24. CASE DownloadInstall
  BY <1>0, <1>24, DoesDownloadInstall, Plain DEF Fetches, Made, DownloadPhases, Fresh,
     Checking, Staged, Behind, Fetching, Repairing, Received, Installable
<1>25. CASE DownloadTag
  BY <1>0, <1>25, DoesDownloadTag, Plain DEF Fetches, Same, DownloadPhases, Fresh,
     Checking, Staged, Behind, Fetching, Repairing, Received, Installable
<1>26. CASE DownloadSettle
  BY <1>0, <1>26, DoesDownloadSettle, Plain DEF NewRow, DownloadPhases, Fresh, Checking,
     Staged, Behind, Fetching, Repairing, Received, Installable
<1>27. CASE DownloadFails
  BY <1>0, <1>27, DoesDownloadFails, Plain DEF Faulted, DownloadPhases, Fresh, Checking,
     Staged, Behind, Fetching, Repairing, Received, Installable
<1>28. CASE Upload
  BY <1>0, <1>28, DoesUpload, Plain DEF Same, NewRow, DownloadPhases, Fresh, Checking,
     Staged, Behind, Fetching, Repairing, Received, Installable
<1>29. CASE UserWrite
  BY <1>0, <1>29, DoesUserWrite, Plain DEF DownloadPhases, Fresh, Checking, Staged,
     Behind, Fetching, Repairing, Received, Installable
<1>30. CASE UserDelete
  BY <1>0, <1>30, DoesUserDelete, Plain DEF Away, DownloadPhases, Fresh, Checking, Staged,
     Behind, Fetching, Repairing, Received, Installable
<1>31. CASE Crash
  BY <1>0, <1>31, DoesCrash, Plain DEF Faulted, DownloadPhases, Fresh, Checking, Staged,
     Behind, Fetching, Repairing, Received, Installable
<1>32. ASSUME NEW h \in hidden, RecoverStrip(h) PROVE DownloadPhases'
  BY <1>1, <1>32, DoesRecoverStrip
<1>33. ASSUME NEW h \in hidden, RecoverSurface(h) PROVE DownloadPhases'
  BY <1>1, <1>33, DoesRecoverSurface
<1>34. ASSUME NEW h \in hidden, RecoverFinish(h) PROVE DownloadPhases'
  BY <1>1, <1>34, DoesRecoverFinish
<1>35. ASSUME NEW h \in hidden, RecoverUndo(h) PROVE DownloadPhases'
  BY <1>0, <1>35, DoesRecoverUndo, Plain DEF Away, DownloadPhases, Fresh, Checking,
     Staged, Behind, Fetching, Repairing, Received, Installable
<1>36. ASSUME NEW h \in hidden, RecoverRestore(h) PROVE DownloadPhases'
  BY <1>0, <1>36, DoesRecoverRestore, Plain DEF DownloadPhases, Fresh, Checking, Staged,
     Behind, Fetching, Repairing, Received, Installable
<1>37. CASE RecoverRow
  BY <1>0, <1>37, DoesRecoverRow, Plain DEF NewRow, DownloadPhases, Fresh, Checking,
     Staged, Behind, Fetching, Repairing, Received, Installable
<1>38. CASE RecoverDemark
  BY <1>0, <1>38, DoesRecoverDemark, Plain DEF Same, DownloadPhases, Fresh, Checking,
     Staged, Behind, Fetching, Repairing, Received, Installable
<1>39. CASE UNCHANGED vars
  BY <1>1, <1>39 DEF vars
<1>40. CASE RecoverFails
  BY <1>0, <1>40, DoesRecoverFails, Plain DEF Away, Faulted, DownloadPhases, Fresh, Checking,
     Staged, Behind, Fetching, Repairing, Received, Installable
<1> QED BY <1>2, <1>3, <1>4, <1>5, <1>6, <1>7, <1>8, <1>9, <1>10, <1>11, <1>12, <1>13,
     <1>14, <1>15, <1>16, <1>17, <1>18, <1>19, <1>20, <1>21, <1>22, <1>23, <1>24, <1>25,
     <1>26, <1>27, <1>28, <1>29, <1>30, <1>31, <1>32, <1>33, <1>34, <1>35, <1>36, <1>37,
     <1>38, <1>39, <1>40 DEF Next, Recover


LEMMA RepairPhasesStep ==
  ASSUME Gated, Types, Inv, Types', [Next]_vars
  PROVE  RepairPhases'
<1>0. RepairPhases /\ Known /\ Hidden
  BY DEF Inv
<1>1. ASSUME UNCHANGED <<job, file, seen, rec, abandoned, up>> PROVE RepairPhases'
  BY <1>0, <1>1 DEF RepairPhases
<1>2. CASE DownloadAsk
  BY <1>1, <1>2, DoesDownloadAsk
<1>3. CASE FreeUpStart
  BY <1>0, <1>3, DoesFreeUpStart, Plain DEF RepairPhases, Known, Hidden, Checking, Staged,
     Behind, Fetching, Repairing
<1>4. CASE FreeUpRemote
  <2>1. CASE job.pc = "remote" /\ Checks("recheck") /\ UNCHANGED <<file, hidden, copies, tmp,
           abandoned, rec, cloud, seen, row, up, writes, runs, faults>>
    BY <1>0, <2>1, Plain DEF Checks, RepairPhases, Known, Hidden, Checking, Staged,
       Behind, Fetching, Repairing
  <2>2. CASE job.pc = "remote" /\ job' = Idle /\ UNCHANGED <<file, hidden, copies, tmp,
           abandoned, rec, cloud, seen, row, up, writes, runs, faults>>
    BY <1>0, <2>2, Plain DEF Checks, RepairPhases, Known, Hidden, Checking, Staged,
       Behind, Fetching, Repairing
  <2> QED BY <1>4, <2>1, <2>2, DoesFreeUpRemote
<1>5. CASE FreeUpRecheck
  <2>1. CASE job.pc = "recheck" /\ Unchanged(file, job.base) /\ ~row.at /\ rec = job.base /\
           Checks("mark") /\ UNCHANGED <<file, hidden, copies, tmp, abandoned, rec, cloud,
           seen, row, up, writes, runs, faults>>
    BY <1>0, <2>1, Plain DEF Checks, RepairPhases, Known, Hidden, Checking, Staged,
       Behind, Fetching, Repairing
  <2>2. CASE job.pc = "recheck" /\ job' = Idle /\ UNCHANGED <<file, hidden, copies, tmp,
           abandoned, rec, cloud, seen, row, up, writes, runs, faults>>
    BY <1>0, <2>2, Plain DEF Checks, RepairPhases, Known, Hidden, Checking, Staged,
       Behind, Fetching, Repairing
  <2> QED BY <1>5, <2>1, <2>2, DoesFreeUpRecheck
<1>6. CASE FreeUpMark
  BY <1>0, <1>6, DoesFreeUpMark, Plain DEF Checks, Same, RepairPhases, Known, Hidden,
     Checking, Staged, Behind, Fetching, Repairing
<1>7. CASE FreeUpStage
  BY <1>0, <1>7, DoesFreeUpStage, Plain DEF Away, RepairPhases, Known, Hidden, Checking,
     Staged, Behind, Fetching, Repairing
<1>8. CASE FreeUpStub
  BY <1>0, <1>8, DoesFreeUpStub, Plain DEF Holds, Made, RepairPhases, Known, Hidden,
     Checking, Staged, Behind, Fetching, Repairing
<1>9. CASE FreeUpOwner
  BY <1>0, <1>9, DoesFreeUpOwner, Plain DEF Holds, Same, RepairPhases, Known, Hidden,
     Checking, Staged, Behind, Fetching, Repairing
<1>10. CASE FreeUpState
  BY <1>0, <1>10, DoesFreeUpState, Plain DEF Holds, Same, RepairPhases, Known, Hidden,
     Checking, Staged, Behind, Fetching, Repairing
<1>11. CASE FreeUpCommit
  BY <1>0, <1>11, DoesFreeUpCommit, Plain DEF Holds, KeepsRow, RepairPhases, Known,
     Hidden, Checking, Staged, Behind, Fetching, Repairing
<1>12. CASE FreeUpDrop
  BY <1>0, <1>12, DoesFreeUpDrop, Plain DEF RepairPhases, Known, Hidden, Checking, Staged,
     Behind, Fetching, Repairing
<1>13. CASE FreeUpFails
  <2>1. CASE job.pc \in {"remote", "mark", "stage"} /\ job' = Idle /\ file' = file /\ Faulted /\
           UNCHANGED <<abandoned, hidden, copies, tmp, rec, cloud, seen, row, up>>
    BY <1>0, <2>1, Plain DEF Holds, Same, Away, Faulted, RepairPhases, Known, Hidden,
       Checking, Staged, Behind, Fetching, Repairing
  <2>2. CASE job.pc \in {"remote", "mark", "stage"} /\ job' = Idle /\ Same(file, file', file.ph,
           file.own, FALSE) /\ Faulted /\ UNCHANGED <<abandoned, hidden, copies, tmp, rec,
           cloud, seen, row, up>>
    BY <1>0, <2>2, Plain DEF Holds, Same, Away, Faulted, RepairPhases, Known, Hidden,
       Checking, Staged, Behind, Fetching, Repairing
  <2>3. CASE job.pc \in {"stub", "owner", "state", "commit", "drop"} /\ file' = file /\
           Holds("clear") /\ Faulted /\ UNCHANGED <<abandoned, hidden, copies, tmp, rec, cloud,
           seen, row, up>>
    BY <1>0, <2>3, Plain DEF Holds, Same, Away, Faulted, RepairPhases, Known, Hidden,
       Checking, Staged, Behind, Fetching, Repairing
  <2>4. CASE job.pc \in {"owner", "state"} /\ Away(file') /\ Holds("clear") /\ Faulted /\
           UNCHANGED <<abandoned, hidden, copies, tmp, rec, cloud, seen, row, up>>
    BY <1>0, <2>4, Plain DEF Holds, Same, Away, Faulted, RepairPhases, Known, Hidden,
       Checking, Staged, Behind, Fetching, Repairing
  <2> QED BY <1>13, <2>1, <2>2, <2>3, <2>4, DoesFreeUpFails
<1>14. CASE RestoreClear
  <2>1. CASE job.pc = "clear" /\ file.at /\ ~OwnPlaceholder(file) /\ file' = file /\ job' = Idle
           /\ abandoned' = TRUE /\ UNCHANGED <<hidden, copies, tmp, rec, cloud, seen, row, up,
           writes, runs, faults>>
    BY <1>0, <2>1, Plain DEF Holds, Away, RepairPhases, Known, Hidden, Checking, Staged,
       Behind, Fetching, Repairing
  <2>2. CASE job.pc = "clear" /\ (~file.at \/ OwnPlaceholder(file)) /\ Away(file') /\
           Holds("back") /\ abandoned' = abandoned /\ UNCHANGED <<hidden, copies, tmp, rec,
           cloud, seen, row, up, writes, runs, faults>>
    BY <1>0, <2>2, Plain DEF Holds, Away, RepairPhases, Known, Hidden, Checking, Staged,
       Behind, Fetching, Repairing
  <2> QED BY <1>14, <2>1, <2>2, DoesRestoreClear
<1>15. CASE RestoreBack
  <2>1. CASE job.pc = "back" /\ file.at /\ file' = file /\ hidden' = hidden /\ job' = Idle /\
           abandoned' = TRUE /\ UNCHANGED <<copies, tmp, rec, cloud, seen, row, up, writes,
           runs, faults>>
    BY <1>0, <2>1, Plain DEF Holds, RepairPhases, Known, Hidden, Checking, Staged, Behind,
       Fetching, Repairing
  <2>2. CASE job.pc = "back" /\ ~file.at /\ file' = job.old /\ job.old \in Objects /\ hidden' =
           hidden \ {job.old} /\ Holds("unmark") /\ abandoned' = abandoned /\ UNCHANGED
           <<copies, tmp, rec, cloud, seen, row, up, writes, runs, faults>>
    BY <1>0, <2>2, Plain DEF Holds, RepairPhases, Known, Hidden, Checking, Staged, Behind,
       Fetching, Repairing
  <2> QED BY <1>15, <2>1, <2>2, DoesRestoreBack
<1>16. CASE RestoreUnmark
  BY <1>0, <1>16, DoesRestoreUnmark, Plain DEF Holds, Same, RepairPhases, Known, Hidden,
     Checking, Staged, Behind, Fetching, Repairing
<1>17. CASE RestoreBaseline
  BY <1>0, <1>17, DoesRestoreBaseline, Plain DEF KeepsRow, RepairPhases, Known, Hidden,
     Checking, Staged, Behind, Fetching, Repairing
<1>18. CASE RestoreFails
  <2>1. CASE job.pc = "unmark" /\ Away(file') /\ hidden' = hidden \cup {file} /\ abandoned' =
           TRUE /\ job' = Idle /\ Faulted /\ UNCHANGED <<copies, tmp, rec, cloud, seen, row,
           up>>
    BY <1>0, <2>1, Plain DEF Away, Faulted, RepairPhases, Known, Hidden, Checking, Staged,
       Behind, Fetching, Repairing
  <2>2. CASE job.pc \in {"clear", "back", "baseline"} /\ UNCHANGED <<file, hidden>> /\ abandoned'
           = TRUE /\ job' = Idle /\ Faulted /\ UNCHANGED <<copies, tmp, rec, cloud, seen, row,
           up>>
    BY <1>0, <2>2, Plain DEF Away, Faulted, RepairPhases, Known, Hidden, Checking, Staged,
       Behind, Fetching, Repairing
  <2> QED BY <1>18, <2>1, <2>2, DoesRestoreFails
<1>19. CASE DownloadStart
  BY <1>0, <1>19, DoesDownloadStart, Plain DEF Away, RepairPhases, Known, Hidden,
     Checking, Staged, Behind, Fetching, Repairing
<1>20. CASE DownloadReceive
  BY <1>0, <1>20, DoesDownloadReceive, Plain DEF Fetches, RepairPhases, Known, Hidden,
     Checking, Staged, Behind, Fetching, Repairing
<1>21. CASE DownloadVerify
  BY <1>0, <1>21, DoesDownloadVerify, Plain DEF Fetches, RepairPhases, Known, Hidden,
     Checking, Staged, Behind, Fetching, Repairing
<1>22. CASE DownloadCheck
  BY <1>0, <1>22, DoesDownloadCheck, Plain DEF Fetches, RepairPhases, Known, Hidden,
     Checking, Staged, Behind, Fetching, Repairing
<1>23. CASE DownloadInstall
  BY <1>0, <1>23, DoesDownloadInstall, Plain DEF Fetches, Made, RepairPhases, Known,
     Hidden, Checking, Staged, Behind, Fetching, Repairing
<1>24. CASE DownloadTag
  BY <1>0, <1>24, DoesDownloadTag, Plain DEF Fetches, Same, RepairPhases, Known, Hidden,
     Checking, Staged, Behind, Fetching, Repairing
<1>25. CASE DownloadSettle
  BY <1>0, <1>25, DoesDownloadSettle, Plain DEF NewRow, RepairPhases, Known, Hidden,
     Checking, Staged, Behind, Fetching, Repairing
<1>26. CASE DownloadFails
  BY <1>0, <1>26, DoesDownloadFails, Plain DEF Faulted, RepairPhases, Known, Hidden,
     Checking, Staged, Behind, Fetching, Repairing
<1>27. CASE Upload
  BY <1>0, <1>27, DoesUpload, Plain DEF Same, NewRow, RepairPhases, Known, Hidden,
     Checking, Staged, Behind, Fetching, Repairing
<1>28. CASE UserWrite
  BY <1>0, <1>28, DoesUserWrite, Plain DEF RepairPhases, Known, Hidden, Checking, Staged,
     Behind, Fetching, Repairing
<1>29. CASE UserDelete
  BY <1>0, <1>29, DoesUserDelete, Plain DEF Away, RepairPhases, Known, Hidden, Checking,
     Staged, Behind, Fetching, Repairing
<1>30. CASE RemoteWrite
  BY <1>0, <1>30, DoesRemoteWrite, Plain DEF RepairPhases, Known, Hidden, Checking,
     Staged, Behind, Fetching, Repairing
<1>31. CASE Crash
  BY <1>0, <1>31, DoesCrash, Plain DEF Faulted, RepairPhases, Known, Hidden, Checking,
     Staged, Behind, Fetching, Repairing
<1>32. ASSUME NEW h \in hidden, RecoverStrip(h) PROVE RepairPhases'
  BY <1>1, <1>32, DoesRecoverStrip
<1>33. ASSUME NEW h \in hidden, RecoverSurface(h) PROVE RepairPhases'
  BY <1>1, <1>33, DoesRecoverSurface
<1>34. ASSUME NEW h \in hidden, RecoverFinish(h) PROVE RepairPhases'
  BY <1>1, <1>34, DoesRecoverFinish
<1>35. ASSUME NEW h \in hidden, RecoverUndo(h) PROVE RepairPhases'
  BY <1>0, <1>35, DoesRecoverUndo, Plain DEF Away, RepairPhases, Known, Hidden, Checking,
     Staged, Behind, Fetching, Repairing
<1>36. ASSUME NEW h \in hidden, RecoverRestore(h) PROVE RepairPhases'
  BY <1>0, <1>36, DoesRecoverRestore, Plain DEF RepairPhases, Known, Hidden, Checking,
     Staged, Behind, Fetching, Repairing
<1>37. CASE RecoverRow
  BY <1>0, <1>37, DoesRecoverRow, Plain DEF NewRow, RepairPhases, Known, Hidden, Checking,
     Staged, Behind, Fetching, Repairing
<1>38. CASE RecoverDemark
  BY <1>0, <1>38, DoesRecoverDemark, Plain DEF Same, RepairPhases, Known, Hidden,
     Checking, Staged, Behind, Fetching, Repairing
<1>39. CASE UNCHANGED vars
  BY <1>1, <1>39 DEF vars
<1>40. CASE RecoverFails
  BY <1>0, <1>40, DoesRecoverFails, Plain DEF Away, Faulted, RepairPhases, Known, Hidden,
     Checking, Staged, Behind, Fetching, Repairing
<1>41. CASE Start
  BY <1>0, <1>41, DoesStart, Plain DEF RepairPhases, Repairing
<1> QED BY <1>2, <1>3, <1>4, <1>5, <1>6, <1>7, <1>8, <1>9, <1>10, <1>11, <1>12, <1>13,
     <1>14, <1>15, <1>16, <1>17, <1>18, <1>19, <1>20, <1>21, <1>22, <1>23, <1>24, <1>25,
     <1>26, <1>27, <1>28, <1>29, <1>30, <1>31, <1>32, <1>33, <1>34, <1>35, <1>36, <1>37,
     <1>38, <1>39, <1>40, <1>41 DEF Next, Recover


LEMMA OwnedStep ==
  ASSUME Gated, Types, Inv, Types', [Next]_vars
  PROVE  Owned'
<1>0. Owned /\ Clock /\ Known /\ FreeUpPhases /\ DownloadPhases /\ RepairPhases
  BY DEF Inv
<1>1. ASSUME UNCHANGED <<file, rec>> PROVE Owned'
  BY <1>0, <1>1 DEF Owned, Unchanged
<1>2. CASE FreeUpStart \/ FreeUpRemote \/ FreeUpRecheck \/ FreeUpDrop \/ DownloadAsk \/
           DownloadReceive \/ DownloadVerify \/ DownloadCheck \/ DownloadFails \/
           RemoteWrite \/ Crash \/ Start
  BY <1>1, <1>2, DoesFreeUpStart, DoesFreeUpRemote, DoesFreeUpRecheck, DoesFreeUpDrop,
     DoesDownloadAsk, DoesDownloadReceive, DoesDownloadVerify, DoesDownloadCheck,
     DoesDownloadFails, DoesRemoteWrite, DoesCrash, DoesStart
<1>3. CASE FreeUpMark
  BY <1>0, <1>3, DoesFreeUpMark, Plain DEF Checks, Same, Owned, Clock, Known,
     FreeUpPhases, DownloadPhases, RepairPhases, Times, Now, Unchanged, Clean, Checking,
     Staged, Behind, Fetching, Repairing
<1>4. CASE FreeUpStage
  BY <1>0, <1>4, DoesFreeUpStage, Plain DEF Away, Owned, Clock, Known, FreeUpPhases,
     DownloadPhases, RepairPhases, Times, Now, Unchanged, Clean, Checking, Staged, Behind,
     Fetching, Repairing
<1>5. CASE FreeUpStub
  BY <1>0, <1>5, DoesFreeUpStub, Plain DEF Holds, Made, Owned, Clock, Known, FreeUpPhases,
     DownloadPhases, RepairPhases, Times, Now, Unchanged, Clean, Checking, Staged, Behind,
     Fetching, Repairing
<1>6. CASE FreeUpOwner
  BY <1>0, <1>6, DoesFreeUpOwner, Plain DEF Holds, Same, Owned, Clock, Known,
     FreeUpPhases, DownloadPhases, RepairPhases, Times, Now, Unchanged, Clean, Checking,
     Staged, Behind, Fetching, Repairing
<1>7. CASE FreeUpState
  BY <1>0, <1>7, DoesFreeUpState, Plain DEF Holds, Same, Owned, Clock, Known,
     FreeUpPhases, DownloadPhases, RepairPhases, Times, Now, Unchanged, Clean, Checking,
     Staged, Behind, Fetching, Repairing
<1>8. CASE FreeUpCommit
  BY <1>0, <1>8, DoesFreeUpCommit, Plain DEF Holds, KeepsRow, Owned, Clock, Known,
     FreeUpPhases, DownloadPhases, RepairPhases, Times, Now, Unchanged, Clean, Checking,
     Staged, Behind, Fetching, Repairing
<1>9. CASE FreeUpFails
  <2>1. CASE job.pc \in {"remote", "mark", "stage"} /\ job' = Idle /\ file' = file /\ Faulted /\
           UNCHANGED <<abandoned, hidden, copies, tmp, rec, cloud, seen, row, up>>
    BY <1>0, <2>1, Plain DEF Holds, Same, Away, Faulted, Owned, Clock, Known,
       FreeUpPhases, DownloadPhases, RepairPhases, Times, Now, Unchanged, Clean, Checking,
       Staged, Behind, Fetching, Repairing
  <2>2. CASE job.pc \in {"remote", "mark", "stage"} /\ job' = Idle /\ Same(file, file', file.ph,
           file.own, FALSE) /\ Faulted /\ UNCHANGED <<abandoned, hidden, copies, tmp, rec,
           cloud, seen, row, up>>
    BY <1>0, <2>2, Plain DEF Holds, Same, Away, Faulted, Owned, Clock, Known,
       FreeUpPhases, DownloadPhases, RepairPhases, Times, Now, Unchanged, Clean, Checking,
       Staged, Behind, Fetching, Repairing
  <2>3. CASE job.pc \in {"stub", "owner", "state", "commit", "drop"} /\ file' = file /\
           Holds("clear") /\ Faulted /\ UNCHANGED <<abandoned, hidden, copies, tmp, rec, cloud,
           seen, row, up>>
    BY <1>0, <2>3, Plain DEF Holds, Same, Away, Faulted, Owned, Clock, Known,
       FreeUpPhases, DownloadPhases, RepairPhases, Times, Now, Unchanged, Clean, Checking,
       Staged, Behind, Fetching, Repairing
  <2>4. CASE job.pc \in {"owner", "state"} /\ Away(file') /\ Holds("clear") /\ Faulted /\
           UNCHANGED <<abandoned, hidden, copies, tmp, rec, cloud, seen, row, up>>
    BY <1>0, <2>4, Plain DEF Holds, Same, Away, Faulted, Owned, Clock, Known,
       FreeUpPhases, DownloadPhases, RepairPhases, Times, Now, Unchanged, Clean, Checking,
       Staged, Behind, Fetching, Repairing
  <2> QED BY <1>9, <2>1, <2>2, <2>3, <2>4, DoesFreeUpFails
<1>10. CASE RestoreClear
  <2>1. CASE job.pc = "clear" /\ file.at /\ ~OwnPlaceholder(file) /\ file' = file /\ job' = Idle
           /\ abandoned' = TRUE /\ UNCHANGED <<hidden, copies, tmp, rec, cloud, seen, row, up,
           writes, runs, faults>>
    BY <1>0, <2>1, Plain DEF Holds, Away, Owned, Clock, Known, FreeUpPhases,
       DownloadPhases, RepairPhases, Times, Now, Unchanged, Clean, Checking, Staged,
       Behind, Fetching, Repairing
  <2>2. CASE job.pc = "clear" /\ (~file.at \/ OwnPlaceholder(file)) /\ Away(file') /\
           Holds("back") /\ abandoned' = abandoned /\ UNCHANGED <<hidden, copies, tmp, rec,
           cloud, seen, row, up, writes, runs, faults>>
    BY <1>0, <2>2, Plain DEF Holds, Away, Owned, Clock, Known, FreeUpPhases,
       DownloadPhases, RepairPhases, Times, Now, Unchanged, Clean, Checking, Staged,
       Behind, Fetching, Repairing
  <2> QED BY <1>10, <2>1, <2>2, DoesRestoreClear
<1>11. CASE RestoreBack
  <2>1. CASE job.pc = "back" /\ file.at /\ file' = file /\ hidden' = hidden /\ job' = Idle /\
           abandoned' = TRUE /\ UNCHANGED <<copies, tmp, rec, cloud, seen, row, up, writes,
           runs, faults>>
    BY <1>0, <2>1, Plain DEF Holds, Owned, Clock, Known, FreeUpPhases, DownloadPhases,
       RepairPhases, Times, Now, Unchanged, Clean, Checking, Staged, Behind, Fetching,
       Repairing
  <2>2. CASE job.pc = "back" /\ ~file.at /\ file' = job.old /\ job.old \in Objects /\ hidden' =
           hidden \ {job.old} /\ Holds("unmark") /\ abandoned' = abandoned /\ UNCHANGED
           <<copies, tmp, rec, cloud, seen, row, up, writes, runs, faults>>
    BY <1>0, <2>2, Plain DEF Holds, Owned, Clock, Known, FreeUpPhases, DownloadPhases,
       RepairPhases, Times, Now, Unchanged, Clean, Checking, Staged, Behind, Fetching,
       Repairing
  <2> QED BY <1>11, <2>1, <2>2, DoesRestoreBack
<1>12. CASE RestoreUnmark
  BY <1>0, <1>12, DoesRestoreUnmark, Plain DEF Holds, Same, Owned, Clock, Known,
     FreeUpPhases, DownloadPhases, RepairPhases, Times, Now, Unchanged, Clean, Checking,
     Staged, Behind, Fetching, Repairing
<1>13. CASE RestoreBaseline
  BY <1>0, <1>13, DoesRestoreBaseline, Plain DEF KeepsRow, Owned, Clock, Known,
     FreeUpPhases, DownloadPhases, RepairPhases, Times, Now, Unchanged, Clean, Checking,
     Staged, Behind, Fetching, Repairing
<1>14. CASE RestoreFails
  <2>1. CASE job.pc = "unmark" /\ Away(file') /\ hidden' = hidden \cup {file} /\ abandoned' =
           TRUE /\ job' = Idle /\ Faulted /\ UNCHANGED <<copies, tmp, rec, cloud, seen, row,
           up>>
    BY <1>0, <2>1, Plain DEF Away, Faulted, Owned, Clock, Known, FreeUpPhases,
       DownloadPhases, RepairPhases, Times, Now, Unchanged, Clean, Checking, Staged,
       Behind, Fetching, Repairing
  <2>2. CASE job.pc \in {"clear", "back", "baseline"} /\ UNCHANGED <<file, hidden>> /\ abandoned'
           = TRUE /\ job' = Idle /\ Faulted /\ UNCHANGED <<copies, tmp, rec, cloud, seen, row,
           up>>
    BY <1>0, <2>2, Plain DEF Away, Faulted, Owned, Clock, Known, FreeUpPhases,
       DownloadPhases, RepairPhases, Times, Now, Unchanged, Clean, Checking, Staged,
       Behind, Fetching, Repairing
  <2> QED BY <1>14, <2>1, <2>2, DoesRestoreFails
<1>15. CASE DownloadStart
  BY <1>0, <1>15, DoesDownloadStart, Plain DEF Away, Owned, Clock, Known, FreeUpPhases,
     DownloadPhases, RepairPhases, Times, Now, Unchanged, Clean, Checking, Staged, Behind,
     Fetching, Repairing
<1>16. CASE DownloadInstall
  BY <1>0, <1>16, DoesDownloadInstall, Plain DEF Fetches, Made, Owned, Clock, Known,
     FreeUpPhases, DownloadPhases, RepairPhases, Times, Now, Unchanged, Clean, Checking,
     Staged, Behind, Fetching, Repairing
<1>17. CASE DownloadTag
  BY <1>0, <1>17, DoesDownloadTag, Plain DEF Fetches, Same, Owned, Clock, Known,
     FreeUpPhases, DownloadPhases, RepairPhases, Times, Now, Unchanged, Clean, Checking,
     Staged, Behind, Fetching, Repairing
<1>18. CASE DownloadSettle
  BY <1>0, <1>18, DoesDownloadSettle, Plain DEF NewRow, Owned, Clock, Known, FreeUpPhases,
     DownloadPhases, RepairPhases, Times, Now, Unchanged, Clean, Checking, Staged, Behind,
     Fetching, Repairing
<1>19. CASE Upload
  BY <1>0, <1>19, DoesUpload, Plain DEF Same, NewRow, Owned, Clock, Known, FreeUpPhases,
     DownloadPhases, RepairPhases, Times, Now, Unchanged, Clean, Checking, Staged, Behind,
     Fetching, Repairing
<1>20. CASE UserWrite
  BY <1>0, <1>20, DoesUserWrite, Plain DEF Owned, Clock, Known, FreeUpPhases,
     DownloadPhases, RepairPhases, Times, Now, Unchanged, Clean, Checking, Staged, Behind,
     Fetching, Repairing
<1>21. CASE UserDelete
  BY <1>0, <1>21, DoesUserDelete, Plain DEF Away, Owned, Clock, Known, FreeUpPhases,
     DownloadPhases, RepairPhases, Times, Now, Unchanged, Clean, Checking, Staged, Behind,
     Fetching, Repairing
<1>22. ASSUME NEW h \in hidden, RecoverStrip(h) PROVE Owned'
  BY <1>1, <1>22, DoesRecoverStrip
<1>23. ASSUME NEW h \in hidden, RecoverSurface(h) PROVE Owned'
  BY <1>1, <1>23, DoesRecoverSurface
<1>24. ASSUME NEW h \in hidden, RecoverFinish(h) PROVE Owned'
  BY <1>1, <1>24, DoesRecoverFinish
<1>25. ASSUME NEW h \in hidden, RecoverUndo(h) PROVE Owned'
  BY <1>0, <1>25, DoesRecoverUndo, Plain DEF Away, Owned, Clock, Known, FreeUpPhases,
     DownloadPhases, RepairPhases, Times, Now, Unchanged, Clean, Checking, Staged, Behind,
     Fetching, Repairing
<1>26. ASSUME NEW h \in hidden, RecoverRestore(h) PROVE Owned'
  BY <1>0, <1>26, DoesRecoverRestore, Plain DEF Owned, Clock, Known, FreeUpPhases,
     DownloadPhases, RepairPhases, Times, Now, Unchanged, Clean, Checking, Staged, Behind,
     Fetching, Repairing
<1>27. CASE RecoverRow
  BY <1>0, <1>27, DoesRecoverRow, Plain DEF NewRow, Owned, Clock, Known, FreeUpPhases,
     DownloadPhases, RepairPhases, Times, Now, Unchanged, Clean, Checking, Staged, Behind,
     Fetching, Repairing
<1>28. CASE RecoverDemark
  BY <1>0, <1>28, DoesRecoverDemark, Plain DEF Same, Owned, Clock, Known, FreeUpPhases,
     DownloadPhases, RepairPhases, Times, Now, Unchanged, Clean, Checking, Staged, Behind,
     Fetching, Repairing
<1>29. CASE UNCHANGED vars
  BY <1>1, <1>29 DEF vars
<1>30. CASE RecoverFails
  BY <1>0, <1>30, DoesRecoverFails, Plain DEF Away, Faulted, Owned, Clock, Known, FreeUpPhases,
     DownloadPhases, RepairPhases, Times, Now, Unchanged, Clean, Checking, Staged, Behind,
     Fetching, Repairing
<1> QED BY <1>2, <1>3, <1>4, <1>5, <1>6, <1>7, <1>8, <1>9, <1>10, <1>11, <1>12, <1>13,
     <1>14, <1>15, <1>16, <1>17, <1>18, <1>19, <1>20, <1>21, <1>22, <1>23, <1>24, <1>25,
     <1>26, <1>27, <1>28, <1>29, <1>30 DEF Next, Recover


LEMMA StubsStep ==
  ASSUME Gated, Types, Inv, Types', [Next]_vars
  PROVE  Stubs'
<1>0. Stubs /\ Hidden /\ FreeUpPhases /\ DownloadPhases /\ RepairPhases
  BY DEF Inv
<1>1. ASSUME UNCHANGED <<file, hidden, rec>> PROVE Stubs'
  BY <1>0, <1>1 DEF Stubs
<1>2. CASE FreeUpStart \/ FreeUpRemote \/ FreeUpRecheck \/ DownloadAsk \/ DownloadReceive
           \/ DownloadVerify \/ DownloadCheck \/ DownloadFails \/ RemoteWrite \/ Crash \/
           Start
  BY <1>1, <1>2, DoesFreeUpStart, DoesFreeUpRemote, DoesFreeUpRecheck, DoesDownloadAsk,
     DoesDownloadReceive, DoesDownloadVerify, DoesDownloadCheck, DoesDownloadFails,
     DoesRemoteWrite, DoesCrash, DoesStart
<1>3. CASE FreeUpMark
  BY <1>0, <1>3, DoesFreeUpMark, Plain DEF Checks, Same, Stubs, Hidden, FreeUpPhases,
     DownloadPhases, RepairPhases, Unchanged, OwnPlaceholder, Checking, Staged, Behind,
     Fetching, Repairing
<1>4. CASE FreeUpStage
  BY <1>0, <1>4, DoesFreeUpStage, Plain DEF Away, Stubs, Hidden, FreeUpPhases,
     DownloadPhases, RepairPhases, Unchanged, OwnPlaceholder, Checking, Staged, Behind,
     Fetching, Repairing
<1>5. CASE FreeUpStub
  BY <1>0, <1>5, DoesFreeUpStub, Plain DEF Holds, Made, Stubs, Hidden, FreeUpPhases,
     DownloadPhases, RepairPhases, Unchanged, OwnPlaceholder, Checking, Staged, Behind,
     Fetching, Repairing
<1>6. CASE FreeUpOwner
  BY <1>0, <1>6, DoesFreeUpOwner, Plain DEF Holds, Same, Stubs, Hidden, FreeUpPhases,
     DownloadPhases, RepairPhases, Unchanged, OwnPlaceholder, Checking, Staged, Behind,
     Fetching, Repairing
<1>7. CASE FreeUpState
  BY <1>0, <1>7, DoesFreeUpState, Plain DEF Holds, Same, Stubs, Hidden, FreeUpPhases,
     DownloadPhases, RepairPhases, Unchanged, OwnPlaceholder, Checking, Staged, Behind,
     Fetching, Repairing
<1>8. CASE FreeUpCommit
  BY <1>0, <1>8, DoesFreeUpCommit, Plain DEF Holds, KeepsRow, Stubs, Hidden, FreeUpPhases,
     DownloadPhases, RepairPhases, Unchanged, OwnPlaceholder, Checking, Staged, Behind,
     Fetching, Repairing
<1>9. CASE FreeUpDrop
  BY <1>0, <1>9, DoesFreeUpDrop, Plain DEF Stubs, Hidden, FreeUpPhases, DownloadPhases,
     RepairPhases, Unchanged, OwnPlaceholder, Checking, Staged, Behind, Fetching,
     Repairing
<1>10. CASE FreeUpFails
  <2>1. CASE job.pc \in {"remote", "mark", "stage"} /\ job' = Idle /\ file' = file /\ Faulted /\
           UNCHANGED <<abandoned, hidden, copies, tmp, rec, cloud, seen, row, up>>
    BY <1>0, <2>1, Plain DEF Holds, Same, Away, Faulted, Stubs, Hidden, FreeUpPhases,
       DownloadPhases, RepairPhases, Unchanged, OwnPlaceholder, Checking, Staged, Behind,
       Fetching, Repairing
  <2>2. CASE job.pc \in {"remote", "mark", "stage"} /\ job' = Idle /\ Same(file, file', file.ph,
           file.own, FALSE) /\ Faulted /\ UNCHANGED <<abandoned, hidden, copies, tmp, rec,
           cloud, seen, row, up>>
    BY <1>0, <2>2, Plain DEF Holds, Same, Away, Faulted, Stubs, Hidden, FreeUpPhases,
       DownloadPhases, RepairPhases, Unchanged, OwnPlaceholder, Checking, Staged, Behind,
       Fetching, Repairing
  <2>3. CASE job.pc \in {"stub", "owner", "state", "commit", "drop"} /\ file' = file /\
           Holds("clear") /\ Faulted /\ UNCHANGED <<abandoned, hidden, copies, tmp, rec, cloud,
           seen, row, up>>
    BY <1>0, <2>3, Plain DEF Holds, Same, Away, Faulted, Stubs, Hidden, FreeUpPhases,
       DownloadPhases, RepairPhases, Unchanged, OwnPlaceholder, Checking, Staged, Behind,
       Fetching, Repairing
  <2>4. CASE job.pc \in {"owner", "state"} /\ Away(file') /\ Holds("clear") /\ Faulted /\
           UNCHANGED <<abandoned, hidden, copies, tmp, rec, cloud, seen, row, up>>
    BY <1>0, <2>4, Plain DEF Holds, Same, Away, Faulted, Stubs, Hidden, FreeUpPhases,
       DownloadPhases, RepairPhases, Unchanged, OwnPlaceholder, Checking, Staged, Behind,
       Fetching, Repairing
  <2> QED BY <1>10, <2>1, <2>2, <2>3, <2>4, DoesFreeUpFails
<1>11. CASE RestoreClear
  <2>1. CASE job.pc = "clear" /\ file.at /\ ~OwnPlaceholder(file) /\ file' = file /\ job' = Idle
           /\ abandoned' = TRUE /\ UNCHANGED <<hidden, copies, tmp, rec, cloud, seen, row, up,
           writes, runs, faults>>
    BY <1>0, <2>1, Plain DEF Holds, Away, Stubs, Hidden, FreeUpPhases, DownloadPhases,
       RepairPhases, Unchanged, OwnPlaceholder, Checking, Staged, Behind, Fetching,
       Repairing
  <2>2. CASE job.pc = "clear" /\ (~file.at \/ OwnPlaceholder(file)) /\ Away(file') /\
           Holds("back") /\ abandoned' = abandoned /\ UNCHANGED <<hidden, copies, tmp, rec,
           cloud, seen, row, up, writes, runs, faults>>
    BY <1>0, <2>2, Plain DEF Holds, Away, Stubs, Hidden, FreeUpPhases, DownloadPhases,
       RepairPhases, Unchanged, OwnPlaceholder, Checking, Staged, Behind, Fetching,
       Repairing
  <2> QED BY <1>11, <2>1, <2>2, DoesRestoreClear
<1>12. CASE RestoreBack
  <2>1. CASE job.pc = "back" /\ file.at /\ file' = file /\ hidden' = hidden /\ job' = Idle /\
           abandoned' = TRUE /\ UNCHANGED <<copies, tmp, rec, cloud, seen, row, up, writes,
           runs, faults>>
    BY <1>0, <2>1, Plain DEF Holds, Stubs, Hidden, FreeUpPhases, DownloadPhases,
       RepairPhases, Unchanged, OwnPlaceholder, Checking, Staged, Behind, Fetching,
       Repairing
  <2>2. CASE job.pc = "back" /\ ~file.at /\ file' = job.old /\ job.old \in Objects /\ hidden' =
           hidden \ {job.old} /\ Holds("unmark") /\ abandoned' = abandoned /\ UNCHANGED
           <<copies, tmp, rec, cloud, seen, row, up, writes, runs, faults>>
    BY <1>0, <2>2, Plain DEF Holds, Stubs, Hidden, FreeUpPhases, DownloadPhases,
       RepairPhases, Unchanged, OwnPlaceholder, Checking, Staged, Behind, Fetching,
       Repairing
  <2> QED BY <1>12, <2>1, <2>2, DoesRestoreBack
<1>13. CASE RestoreUnmark
  BY <1>0, <1>13, DoesRestoreUnmark, Plain DEF Holds, Same, Stubs, Hidden, FreeUpPhases,
     DownloadPhases, RepairPhases, Unchanged, OwnPlaceholder, Checking, Staged, Behind,
     Fetching, Repairing
<1>14. CASE RestoreBaseline
  BY <1>0, <1>14, DoesRestoreBaseline, Plain DEF KeepsRow, Stubs, Hidden, FreeUpPhases,
     DownloadPhases, RepairPhases, Unchanged, OwnPlaceholder, Checking, Staged, Behind,
     Fetching, Repairing
<1>15. CASE RestoreFails
  <2>1. CASE job.pc = "unmark" /\ Away(file') /\ hidden' = hidden \cup {file} /\ abandoned' =
           TRUE /\ job' = Idle /\ Faulted /\ UNCHANGED <<copies, tmp, rec, cloud, seen, row,
           up>>
    BY <1>0, <2>1, Plain DEF Away, Faulted, Stubs, Hidden, FreeUpPhases, DownloadPhases,
       RepairPhases, Unchanged, OwnPlaceholder, Checking, Staged, Behind, Fetching,
       Repairing
  <2>2. CASE job.pc \in {"clear", "back", "baseline"} /\ UNCHANGED <<file, hidden>> /\ abandoned'
           = TRUE /\ job' = Idle /\ Faulted /\ UNCHANGED <<copies, tmp, rec, cloud, seen, row,
           up>>
    BY <1>0, <2>2, Plain DEF Away, Faulted, Stubs, Hidden, FreeUpPhases, DownloadPhases,
       RepairPhases, Unchanged, OwnPlaceholder, Checking, Staged, Behind, Fetching,
       Repairing
  <2> QED BY <1>15, <2>1, <2>2, DoesRestoreFails
<1>16. CASE DownloadStart
  BY <1>0, <1>16, DoesDownloadStart, Plain DEF Away, Stubs, Hidden, FreeUpPhases,
     DownloadPhases, RepairPhases, Unchanged, OwnPlaceholder, Checking, Staged, Behind,
     Fetching, Repairing
<1>17. CASE DownloadInstall
  BY <1>0, <1>17, DoesDownloadInstall, Plain DEF Fetches, Made, Stubs, Hidden,
     FreeUpPhases, DownloadPhases, RepairPhases, Unchanged, OwnPlaceholder, Checking,
     Staged, Behind, Fetching, Repairing
<1>18. CASE DownloadTag
  BY <1>0, <1>18, DoesDownloadTag, Plain DEF Fetches, Same, Stubs, Hidden, FreeUpPhases,
     DownloadPhases, RepairPhases, Unchanged, OwnPlaceholder, Checking, Staged, Behind,
     Fetching, Repairing
<1>19. CASE DownloadSettle
  BY <1>0, <1>19, DoesDownloadSettle, Plain DEF NewRow, Stubs, Hidden, FreeUpPhases,
     DownloadPhases, RepairPhases, Unchanged, OwnPlaceholder, Checking, Staged, Behind,
     Fetching, Repairing
<1>20. CASE Upload
  BY <1>0, <1>20, DoesUpload, Plain DEF Same, NewRow, Stubs, Hidden, FreeUpPhases,
     DownloadPhases, RepairPhases, Unchanged, OwnPlaceholder, Checking, Staged, Behind,
     Fetching, Repairing
<1>21. CASE UserWrite
  BY <1>0, <1>21, DoesUserWrite, Plain DEF Stubs, Hidden, FreeUpPhases, DownloadPhases,
     RepairPhases, Unchanged, OwnPlaceholder, Checking, Staged, Behind, Fetching,
     Repairing
<1>22. CASE UserDelete
  BY <1>0, <1>22, DoesUserDelete, Plain DEF Away, Stubs, Hidden, FreeUpPhases,
     DownloadPhases, RepairPhases, Unchanged, OwnPlaceholder, Checking, Staged, Behind,
     Fetching, Repairing
<1>23. ASSUME NEW h \in hidden, RecoverStrip(h) PROVE Stubs'
  <2>1. PICK g \in Objects : Same(h, g, h.ph, FALSE, FALSE) /\ hidden' = (hidden \ {h})
     \cup {g}
    BY <1>23, DoesRecoverStrip
  <2> QED
    BY <1>0, <1>23, <2>1, DoesRecoverStrip, Plain DEF Same, Stubs, Hidden, FreeUpPhases,
       DownloadPhases, RepairPhases, Unchanged, OwnPlaceholder, Checking, Staged, Behind,
       Fetching, Repairing
<1>24. ASSUME NEW h \in hidden, RecoverSurface(h) PROVE Stubs'
  BY <1>0, <1>24, DoesRecoverSurface, Plain DEF Stubs, Hidden, FreeUpPhases,
     DownloadPhases, RepairPhases, Unchanged, OwnPlaceholder, Checking, Staged, Behind,
     Fetching, Repairing
<1>25. ASSUME NEW h \in hidden, RecoverFinish(h) PROVE Stubs'
  BY <1>0, <1>25, DoesRecoverFinish, Plain DEF Stubs, Hidden, FreeUpPhases,
     DownloadPhases, RepairPhases, Unchanged, OwnPlaceholder, Checking, Staged, Behind,
     Fetching, Repairing
<1>26. ASSUME NEW h \in hidden, RecoverUndo(h) PROVE Stubs'
  BY <1>0, <1>26, DoesRecoverUndo, Plain DEF Away, Stubs, Hidden, FreeUpPhases,
     DownloadPhases, RepairPhases, Unchanged, OwnPlaceholder, Checking, Staged, Behind,
     Fetching, Repairing
<1>27. ASSUME NEW h \in hidden, RecoverRestore(h) PROVE Stubs'
  BY <1>0, <1>27, DoesRecoverRestore, Plain DEF Stubs, Hidden, FreeUpPhases,
     DownloadPhases, RepairPhases, Unchanged, OwnPlaceholder, Checking, Staged, Behind,
     Fetching, Repairing
<1>28. CASE RecoverRow
  BY <1>0, <1>28, DoesRecoverRow, Plain DEF NewRow, Stubs, Hidden, FreeUpPhases,
     DownloadPhases, RepairPhases, Unchanged, OwnPlaceholder, Checking, Staged, Behind,
     Fetching, Repairing
<1>29. CASE RecoverDemark
  BY <1>0, <1>29, DoesRecoverDemark, Plain DEF Same, Stubs, Hidden, FreeUpPhases,
     DownloadPhases, RepairPhases, Unchanged, OwnPlaceholder, Checking, Staged, Behind,
     Fetching, Repairing
<1>30. CASE UNCHANGED vars
  BY <1>1, <1>30 DEF vars
<1>31. CASE RecoverFails
  BY <1>0, <1>31, DoesRecoverFails, Plain DEF Away, Faulted, Stubs, Hidden, FreeUpPhases,
     DownloadPhases, RepairPhases, Unchanged, OwnPlaceholder, Checking, Staged, Behind,
     Fetching, Repairing
<1> QED BY <1>2, <1>3, <1>4, <1>5, <1>6, <1>7, <1>8, <1>9, <1>10, <1>11, <1>12, <1>13,
     <1>14, <1>15, <1>16, <1>17, <1>18, <1>19, <1>20, <1>21, <1>22, <1>23, <1>24, <1>25,
     <1>26, <1>27, <1>28, <1>29, <1>30, <1>31 DEF Next, Recover


LEMMA FreshStep ==
  ASSUME Gated, Types, Inv, Types', [Next]_vars
  PROVE  Fresh'
<1>0. Fresh /\ Known /\ DownloadPhases
  BY DEF Inv
<1>1. ASSUME UNCHANGED <<cloud, row, tmp, rec>> PROVE Fresh'
  BY <1>0, <1>1 DEF Fresh
<1>2. CASE FreeUpStart \/ FreeUpRemote \/ FreeUpRecheck \/ FreeUpMark \/ FreeUpStage \/
           FreeUpStub \/ FreeUpOwner \/ FreeUpState \/ FreeUpDrop \/ FreeUpFails \/
           RestoreClear \/ RestoreBack \/ RestoreUnmark \/ RestoreFails \/ DownloadTag \/
           UserWrite \/ UserDelete \/ Crash \/ RecoverDemark \/ RecoverFails \/ Start
  BY <1>1, <1>2, DoesFreeUpStart, DoesFreeUpRemote, DoesFreeUpRecheck, DoesFreeUpMark,
     DoesFreeUpStage, DoesFreeUpStub, DoesFreeUpOwner, DoesFreeUpState, DoesFreeUpDrop,
     DoesFreeUpFails, DoesRestoreClear, DoesRestoreBack, DoesRestoreUnmark,
     DoesRestoreFails, DoesDownloadTag, DoesUserWrite, DoesUserDelete, DoesCrash,
     DoesRecoverDemark, DoesRecoverFails, DoesStart
<1>3. CASE FreeUpCommit
  BY <1>0, <1>3, DoesFreeUpCommit, Plain DEF Holds, KeepsRow, Fresh, Known,
     DownloadPhases, Checking, Staged, Behind, Fetching, Repairing
<1>4. CASE RestoreBaseline
  BY <1>0, <1>4, DoesRestoreBaseline, Plain DEF KeepsRow, Fresh, Known, DownloadPhases,
     Checking, Staged, Behind, Fetching, Repairing
<1>5. CASE DownloadAsk
  BY <1>0, <1>5, DoesDownloadAsk, Plain DEF Fresh, Known, DownloadPhases, Checking,
     Staged, Behind, Fetching, Repairing
<1>6. CASE DownloadStart
  BY <1>0, <1>6, DoesDownloadStart, Plain DEF Away, Fresh, Known, DownloadPhases,
     Checking, Staged, Behind, Fetching, Repairing
<1>7. CASE DownloadReceive
  BY <1>0, <1>7, DoesDownloadReceive, Plain DEF Fetches, Fresh, Known, DownloadPhases,
     Checking, Staged, Behind, Fetching, Repairing
<1>8. CASE DownloadVerify
  BY <1>0, <1>8, DoesDownloadVerify, Plain DEF Fetches, Fresh, Known, DownloadPhases,
     Checking, Staged, Behind, Fetching, Repairing
<1>9. CASE DownloadCheck
  BY <1>0, <1>9, DoesDownloadCheck, Plain DEF Fetches, Fresh, Known, DownloadPhases,
     Checking, Staged, Behind, Fetching, Repairing
<1>10. CASE DownloadInstall
  BY <1>0, <1>10, DoesDownloadInstall, Plain DEF Fetches, Made, Fresh, Known,
     DownloadPhases, Checking, Staged, Behind, Fetching, Repairing
<1>11. CASE DownloadSettle
  BY <1>0, <1>11, DoesDownloadSettle, Plain DEF NewRow, Fresh, Known, DownloadPhases,
     Checking, Staged, Behind, Fetching, Repairing
<1>12. CASE DownloadFails
  BY <1>0, <1>12, DoesDownloadFails, Plain DEF Faulted, Fresh, Known, DownloadPhases,
     Checking, Staged, Behind, Fetching, Repairing
<1>13. CASE Upload
  BY <1>0, <1>13, DoesUpload, Plain DEF Same, NewRow, Fresh, Known, DownloadPhases,
     Checking, Staged, Behind, Fetching, Repairing
<1>14. CASE RemoteWrite
  BY <1>0, <1>14, DoesRemoteWrite, Plain DEF Fresh, Known, DownloadPhases, Checking,
     Staged, Behind, Fetching, Repairing
<1>15. ASSUME NEW h \in hidden, RecoverStrip(h) PROVE Fresh'
  BY <1>1, <1>15, DoesRecoverStrip
<1>16. ASSUME NEW h \in hidden, RecoverSurface(h) PROVE Fresh'
  BY <1>1, <1>16, DoesRecoverSurface
<1>17. ASSUME NEW h \in hidden, RecoverFinish(h) PROVE Fresh'
  BY <1>1, <1>17, DoesRecoverFinish
<1>18. ASSUME NEW h \in hidden, RecoverUndo(h) PROVE Fresh'
  BY <1>1, <1>18, DoesRecoverUndo
<1>19. ASSUME NEW h \in hidden, RecoverRestore(h) PROVE Fresh'
  BY <1>1, <1>19, DoesRecoverRestore
<1>20. CASE RecoverRow
  BY <1>0, <1>20, DoesRecoverRow, Plain DEF NewRow, Fresh, Known, DownloadPhases,
     Checking, Staged, Behind, Fetching, Repairing
<1>21. CASE UNCHANGED vars
  BY <1>1, <1>21 DEF vars
<1> QED BY <1>2, <1>3, <1>4, <1>5, <1>6, <1>7, <1>8, <1>9, <1>10, <1>11, <1>12, <1>13,
     <1>14, <1>15, <1>16, <1>17, <1>18, <1>19, <1>20, <1>21 DEF Next, Recover


LEMMA RowTrueStep ==
  ASSUME Gated, Types, Inv, Types', [Next]_vars
  PROVE  RowTrue'
<1>0. RowTrue /\ DownloadPhases /\ RepairPhases
  BY DEF Inv
<1>1. ASSUME UNCHANGED <<abandoned, rec>> PROVE RowTrue'
  BY <1>0, <1>1 DEF RowTrue
<1>2. CASE FreeUpStart \/ FreeUpRemote \/ FreeUpRecheck \/ FreeUpMark \/ FreeUpStage \/
           FreeUpStub \/ FreeUpOwner \/ FreeUpState \/ FreeUpDrop \/ FreeUpFails \/
           RestoreUnmark \/ DownloadAsk \/ DownloadStart \/ DownloadReceive \/
           DownloadVerify \/ DownloadCheck \/ DownloadInstall \/ DownloadTag \/
           DownloadFails \/ UserWrite \/ UserDelete \/ RemoteWrite \/ Crash \/
           RecoverDemark \/ RecoverFails \/ Start
  BY <1>1, <1>2, DoesFreeUpStart, DoesFreeUpRemote, DoesFreeUpRecheck, DoesFreeUpMark,
     DoesFreeUpStage, DoesFreeUpStub, DoesFreeUpOwner, DoesFreeUpState, DoesFreeUpDrop,
     DoesFreeUpFails, DoesRestoreUnmark, DoesDownloadAsk, DoesDownloadStart,
     DoesDownloadReceive, DoesDownloadVerify, DoesDownloadCheck, DoesDownloadInstall,
     DoesDownloadTag, DoesDownloadFails, DoesUserWrite, DoesUserDelete, DoesRemoteWrite,
     DoesCrash, DoesRecoverDemark, DoesRecoverFails, DoesStart
<1>3. CASE FreeUpCommit
  BY <1>0, <1>3, DoesFreeUpCommit, Plain DEF Holds, KeepsRow, RowTrue, DownloadPhases,
     RepairPhases, Checking, Staged, Behind, Fetching, Repairing
<1>4. CASE RestoreClear
  <2>1. CASE job.pc = "clear" /\ file.at /\ ~OwnPlaceholder(file) /\ file' = file /\ job' = Idle
           /\ abandoned' = TRUE /\ UNCHANGED <<hidden, copies, tmp, rec, cloud, seen, row, up,
           writes, runs, faults>>
    BY <1>0, <2>1, Plain DEF Holds, Away, RowTrue, DownloadPhases, RepairPhases, Checking,
       Staged, Behind, Fetching, Repairing
  <2>2. CASE job.pc = "clear" /\ (~file.at \/ OwnPlaceholder(file)) /\ Away(file') /\
           Holds("back") /\ abandoned' = abandoned /\ UNCHANGED <<hidden, copies, tmp, rec,
           cloud, seen, row, up, writes, runs, faults>>
    BY <1>0, <2>2, Plain DEF Holds, Away, RowTrue, DownloadPhases, RepairPhases, Checking,
       Staged, Behind, Fetching, Repairing
  <2> QED BY <1>4, <2>1, <2>2, DoesRestoreClear
<1>5. CASE RestoreBack
  <2>1. CASE job.pc = "back" /\ file.at /\ file' = file /\ hidden' = hidden /\ job' = Idle /\
           abandoned' = TRUE /\ UNCHANGED <<copies, tmp, rec, cloud, seen, row, up, writes,
           runs, faults>>
    BY <1>0, <2>1, Plain DEF Holds, RowTrue, DownloadPhases, RepairPhases, Checking,
       Staged, Behind, Fetching, Repairing
  <2>2. CASE job.pc = "back" /\ ~file.at /\ file' = job.old /\ job.old \in Objects /\ hidden' =
           hidden \ {job.old} /\ Holds("unmark") /\ abandoned' = abandoned /\ UNCHANGED
           <<copies, tmp, rec, cloud, seen, row, up, writes, runs, faults>>
    BY <1>0, <2>2, Plain DEF Holds, RowTrue, DownloadPhases, RepairPhases, Checking,
       Staged, Behind, Fetching, Repairing
  <2> QED BY <1>5, <2>1, <2>2, DoesRestoreBack
<1>6. CASE RestoreBaseline
  BY <1>0, <1>6, DoesRestoreBaseline, Plain DEF KeepsRow, RowTrue, DownloadPhases,
     RepairPhases, Checking, Staged, Behind, Fetching, Repairing
<1>7. CASE RestoreFails
  <2>1. CASE job.pc = "unmark" /\ Away(file') /\ hidden' = hidden \cup {file} /\ abandoned' =
           TRUE /\ job' = Idle /\ Faulted /\ UNCHANGED <<copies, tmp, rec, cloud, seen, row,
           up>>
    BY <1>0, <2>1, Plain DEF Away, Faulted, RowTrue, DownloadPhases, RepairPhases,
       Checking, Staged, Behind, Fetching, Repairing
  <2>2. CASE job.pc \in {"clear", "back", "baseline"} /\ UNCHANGED <<file, hidden>> /\ abandoned'
           = TRUE /\ job' = Idle /\ Faulted /\ UNCHANGED <<copies, tmp, rec, cloud, seen, row,
           up>>
    BY <1>0, <2>2, Plain DEF Away, Faulted, RowTrue, DownloadPhases, RepairPhases,
       Checking, Staged, Behind, Fetching, Repairing
  <2> QED BY <1>7, <2>1, <2>2, DoesRestoreFails
<1>8. CASE DownloadSettle
  BY <1>0, <1>8, DoesDownloadSettle, Plain DEF NewRow, RowTrue, DownloadPhases,
     RepairPhases, Checking, Staged, Behind, Fetching, Repairing
<1>9. CASE Upload
  BY <1>0, <1>9, DoesUpload, Plain DEF Same, NewRow, RowTrue, DownloadPhases,
     RepairPhases, Checking, Staged, Behind, Fetching, Repairing
<1>10. ASSUME NEW h \in hidden, RecoverStrip(h) PROVE RowTrue'
  BY <1>1, <1>10, DoesRecoverStrip
<1>11. ASSUME NEW h \in hidden, RecoverSurface(h) PROVE RowTrue'
  BY <1>1, <1>11, DoesRecoverSurface
<1>12. ASSUME NEW h \in hidden, RecoverFinish(h) PROVE RowTrue'
  BY <1>1, <1>12, DoesRecoverFinish
<1>13. ASSUME NEW h \in hidden, RecoverUndo(h) PROVE RowTrue'
  BY <1>1, <1>13, DoesRecoverUndo
<1>14. ASSUME NEW h \in hidden, RecoverRestore(h) PROVE RowTrue'
  BY <1>1, <1>14, DoesRecoverRestore
<1>15. CASE RecoverRow
  BY <1>0, <1>15, DoesRecoverRow, Plain DEF NewRow, RowTrue, DownloadPhases, RepairPhases,
     Checking, Staged, Behind, Fetching, Repairing
<1>16. CASE UNCHANGED vars
  BY <1>1, <1>16 DEF vars
<1> QED BY <1>2, <1>3, <1>4, <1>5, <1>6, <1>7, <1>8, <1>9, <1>10, <1>11, <1>12, <1>13,
     <1>14, <1>15, <1>16 DEF Next, Recover

-----------------------------------------------------------------------------
(* No content is lost *)

(* The file's content stays on the disk, or the cloud has had it, or it is  *)
(* what the download was asked over; the other contents are copies, which   *)
(* stay, and hidden, which the cloud has had.                               *)
FileKept ==
    file.at => \/ file'.at /\ file'.data = file.data
               \/ file.data \in seen \cup AskedOver \cup {Empty}
               \/ \E h \in hidden' : h.data = file.data
               \/ file.data \in copies'
Keeps == writes' # writes \/ (copies \subseteq copies' /\ FileKept)

LEMMA KeepsStep ==
  ASSUME Gated, Types, Inv, [Next]_vars
  PROVE  Keeps
<1>0. Known /\ FreeUpPhases /\ DownloadPhases /\ Stubs
  BY DEF Inv
<1>1. CASE FreeUpStart
  BY <1>0, <1>1, DoesFreeUpStart, Plain DEF Keeps, FileKept
<1>2. CASE FreeUpRemote
  <2>1. CASE job.pc = "remote" /\ Checks("recheck") /\ UNCHANGED <<file, hidden, copies, tmp,
           abandoned, rec, cloud, seen, row, up, writes, runs, faults>>
    BY <1>0, <2>1, Plain DEF Keeps, FileKept
  <2>2. CASE job.pc = "remote" /\ job' = Idle /\ UNCHANGED <<file, hidden, copies, tmp,
           abandoned, rec, cloud, seen, row, up, writes, runs, faults>>
    BY <1>0, <2>2, Plain DEF Keeps, FileKept
  <2> QED BY <1>2, <2>1, <2>2, DoesFreeUpRemote
<1>3. CASE FreeUpRecheck
  <2>1. CASE job.pc = "recheck" /\ Unchanged(file, job.base) /\ ~row.at /\ rec = job.base /\
           Checks("mark") /\ UNCHANGED <<file, hidden, copies, tmp, abandoned, rec, cloud,
           seen, row, up, writes, runs, faults>>
    BY <1>0, <2>1, Plain DEF Keeps, FileKept
  <2>2. CASE job.pc = "recheck" /\ job' = Idle /\ UNCHANGED <<file, hidden, copies, tmp,
           abandoned, rec, cloud, seen, row, up, writes, runs, faults>>
    BY <1>0, <2>2, Plain DEF Keeps, FileKept
  <2> QED BY <1>3, <2>1, <2>2, DoesFreeUpRecheck
<1>4. CASE FreeUpMark
  BY <1>0, <1>4, DoesFreeUpMark, Plain DEF Same, Keeps, FileKept, Known, FreeUpPhases,
     Stubs
<1>5. CASE FreeUpStage
  BY <1>0, <1>5, DoesFreeUpStage, Plain DEF Away, Keeps, FileKept, Known, FreeUpPhases,
     Stubs
<1>6. CASE FreeUpStub
  BY <1>0, <1>6, DoesFreeUpStub, Plain DEF Made, Keeps, FileKept, Known, FreeUpPhases,
     Stubs
<1>7. CASE FreeUpOwner
  BY <1>0, <1>7, DoesFreeUpOwner, Plain DEF Same, Keeps, FileKept, Known, FreeUpPhases,
     Stubs
<1>8. CASE FreeUpState
  BY <1>0, <1>8, DoesFreeUpState, Plain DEF Same, Keeps, FileKept, Known, FreeUpPhases,
     Stubs
<1>9. CASE FreeUpCommit
  BY <1>0, <1>9, DoesFreeUpCommit, Plain DEF Keeps, FileKept
<1>10. CASE FreeUpDrop
  BY <1>0, <1>10, DoesFreeUpDrop, Plain DEF Keeps, FileKept
<1>11. CASE FreeUpFails
  <2>1. CASE job.pc \in {"remote", "mark", "stage"} /\ job' = Idle /\ file' = file /\ Faulted /\
           UNCHANGED <<abandoned, hidden, copies, tmp, rec, cloud, seen, row, up>>
    BY <1>0, <2>1, Plain DEF Same, Away, Keeps, FileKept, Known, FreeUpPhases, Stubs,
       Behind
  <2>2. CASE job.pc \in {"remote", "mark", "stage"} /\ job' = Idle /\ Same(file, file', file.ph,
           file.own, FALSE) /\ Faulted /\ UNCHANGED <<abandoned, hidden, copies, tmp, rec,
           cloud, seen, row, up>>
    BY <1>0, <2>2, Plain DEF Same, Away, Keeps, FileKept, Known, FreeUpPhases, Stubs,
       Behind
  <2>3. CASE job.pc \in {"stub", "owner", "state", "commit", "drop"} /\ file' = file /\
           Holds("clear") /\ Faulted /\ UNCHANGED <<abandoned, hidden, copies, tmp, rec, cloud,
           seen, row, up>>
    BY <1>0, <2>3, Plain DEF Same, Away, Keeps, FileKept, Known, FreeUpPhases, Stubs,
       Behind
  <2>4. CASE job.pc \in {"owner", "state"} /\ Away(file') /\ Holds("clear") /\ Faulted /\
           UNCHANGED <<abandoned, hidden, copies, tmp, rec, cloud, seen, row, up>>
    BY <1>0, <2>4, Plain DEF Same, Away, Keeps, FileKept, Known, FreeUpPhases, Stubs,
       Behind
  <2> QED BY <1>11, <2>1, <2>2, <2>3, <2>4, DoesFreeUpFails
<1>12. CASE RestoreClear
  <2>1. CASE job.pc = "clear" /\ file.at /\ ~OwnPlaceholder(file) /\ file' = file /\ job' = Idle
           /\ abandoned' = TRUE /\ UNCHANGED <<hidden, copies, tmp, rec, cloud, seen, row, up,
           writes, runs, faults>>
    BY <1>0, <2>1, Plain DEF Away, Keeps, FileKept, Known, FreeUpPhases, Stubs,
       OwnPlaceholder, Behind
  <2>2. CASE job.pc = "clear" /\ (~file.at \/ OwnPlaceholder(file)) /\ Away(file') /\
           Holds("back") /\ abandoned' = abandoned /\ UNCHANGED <<hidden, copies, tmp, rec,
           cloud, seen, row, up, writes, runs, faults>>
    BY <1>0, <2>2, Plain DEF Away, Keeps, FileKept, Known, FreeUpPhases, Stubs,
       OwnPlaceholder, Behind
  <2> QED BY <1>12, <2>1, <2>2, DoesRestoreClear
<1>13. CASE RestoreBack
  <2>1. CASE job.pc = "back" /\ file.at /\ file' = file /\ hidden' = hidden /\ job' = Idle /\
           abandoned' = TRUE /\ UNCHANGED <<copies, tmp, rec, cloud, seen, row, up, writes,
           runs, faults>>
    BY <1>0, <2>1, Plain DEF Keeps, FileKept, Known, FreeUpPhases, Stubs, Behind
  <2>2. CASE job.pc = "back" /\ ~file.at /\ file' = job.old /\ job.old \in Objects /\ hidden' =
           hidden \ {job.old} /\ Holds("unmark") /\ abandoned' = abandoned /\ UNCHANGED
           <<copies, tmp, rec, cloud, seen, row, up, writes, runs, faults>>
    BY <1>0, <2>2, Plain DEF Keeps, FileKept, Known, FreeUpPhases, Stubs, Behind
  <2> QED BY <1>13, <2>1, <2>2, DoesRestoreBack
<1>14. CASE RestoreUnmark
  BY <1>0, <1>14, DoesRestoreUnmark, Plain DEF Same, Keeps, FileKept, Known, FreeUpPhases,
     Stubs
<1>15. CASE RestoreBaseline
  BY <1>0, <1>15, DoesRestoreBaseline, Plain DEF Keeps, FileKept
<1>16. CASE RestoreFails
  <2>1. CASE job.pc = "unmark" /\ Away(file') /\ hidden' = hidden \cup {file} /\ abandoned' =
           TRUE /\ job' = Idle /\ Faulted /\ UNCHANGED <<copies, tmp, rec, cloud, seen, row,
           up>>
    BY <1>0, <2>1, Plain DEF Away, Keeps, FileKept, Known, FreeUpPhases, Stubs
  <2>2. CASE job.pc \in {"clear", "back", "baseline"} /\ UNCHANGED <<file, hidden>> /\ abandoned'
           = TRUE /\ job' = Idle /\ Faulted /\ UNCHANGED <<copies, tmp, rec, cloud, seen, row,
           up>>
    BY <1>0, <2>2, Plain DEF Away, Keeps, FileKept, Known, FreeUpPhases, Stubs
  <2> QED BY <1>16, <2>1, <2>2, DoesRestoreFails
<1>17. CASE DownloadAsk
  BY <1>0, <1>17, DoesDownloadAsk, Plain DEF Keeps, FileKept
<1>18. CASE DownloadStart
  BY <1>0, <1>18, DoesDownloadStart, Plain DEF Away, Keeps, FileKept, Known, FreeUpPhases,
     Stubs, Behind
<1>19. CASE DownloadReceive
  BY <1>0, <1>19, DoesDownloadReceive, Plain DEF Keeps, FileKept
<1>20. CASE DownloadVerify
  BY <1>0, <1>20, DoesDownloadVerify, Plain DEF Keeps, FileKept
<1>21. CASE DownloadCheck
  BY <1>0, <1>21, DoesDownloadCheck, Plain DEF Keeps, FileKept
<1>22. CASE DownloadInstall
  <2>1. job.pc = "install" /\ Installable(file, row) /\ row.at /\ copies' = copies
    BY <1>0, <1>22, DoesDownloadInstall, Plain DEF DownloadPhases, Fetching
  <2>2. file.at => file.data \in AskedOver \cup {Empty}
    <3>1. CASE row.update
      <4>1. <<file.data, file.time>> = row.snapshot
        BY <2>1, <3>1 DEF Installable
      <4> QED BY <2>1, <3>1, <4>1 DEF AskedOver
    <3>2. CASE ~row.update
      BY <2>1, <3>2 DEF Installable
    <3> QED BY <3>1, <3>2
  <2> QED BY <2>1, <2>2 DEF Keeps, FileKept
<1>23. CASE DownloadTag
  BY <1>0, <1>23, DoesDownloadTag, Plain DEF Same, Keeps, FileKept, Known, FreeUpPhases,
     Stubs
<1>24. CASE DownloadSettle
  BY <1>0, <1>24, DoesDownloadSettle, Plain DEF Keeps, FileKept
<1>25. CASE DownloadFails
  BY <1>0, <1>25, DoesDownloadFails, Plain DEF Keeps, FileKept
<1>26. CASE Upload
  BY <1>0, <1>26, DoesUpload, Plain DEF Same, Keeps, FileKept, Known, FreeUpPhases, Stubs
<1>27. CASE UserWrite
  BY <1>0, <1>27, DoesUserWrite, Plain DEF Keeps, FileKept, Known, FreeUpPhases, Stubs
<1>28. CASE UserDelete
  BY <1>0, <1>28, DoesUserDelete, Plain DEF Away, Keeps, FileKept, Known, FreeUpPhases,
     Stubs
<1>29. CASE RemoteWrite
  BY <1>0, <1>29, DoesRemoteWrite, Plain DEF Keeps, FileKept
<1>30. CASE Crash
  BY <1>0, <1>30, DoesCrash, Plain DEF Keeps, FileKept
<1>31. ASSUME NEW h \in hidden, RecoverStrip(h) PROVE Keeps
  BY <1>0, <1>31, DoesRecoverStrip, Plain DEF Same, Keeps, FileKept
<1>32. ASSUME NEW h \in hidden, RecoverSurface(h) PROVE Keeps
  BY <1>0, <1>32, DoesRecoverSurface, Plain DEF Keeps, FileKept
<1>33. ASSUME NEW h \in hidden, RecoverFinish(h) PROVE Keeps
  BY <1>0, <1>33, DoesRecoverFinish, Plain DEF Keeps, FileKept
<1>34. ASSUME NEW h \in hidden, RecoverUndo(h) PROVE Keeps
  BY <1>0, <1>34, DoesRecoverUndo, Plain DEF Away, Keeps, FileKept, Known, FreeUpPhases,
     Stubs, Behind
<1>35. ASSUME NEW h \in hidden, RecoverRestore(h) PROVE Keeps
  BY <1>0, <1>35, DoesRecoverRestore, Plain DEF Keeps, FileKept, Known, FreeUpPhases,
     Stubs
<1>36. CASE RecoverRow
  BY <1>0, <1>36, DoesRecoverRow, Plain DEF Keeps, FileKept
<1>37. CASE RecoverDemark
  BY <1>0, <1>37, DoesRecoverDemark, Plain DEF Same, Keeps, FileKept, Known, FreeUpPhases,
     Stubs
<1>38. CASE Start
  BY <1>0, <1>38, DoesStart, Plain DEF Keeps, FileKept
<1>39. CASE UNCHANGED vars
  BY <1>39 DEF vars, Keeps, FileKept
<1>40. CASE RecoverFails
  BY <1>0, <1>40, DoesRecoverFails, Plain DEF Away, Faulted, Keeps, FileKept, Known, FreeUpPhases,
     Stubs
<1> QED BY <1>1, <1>2, <1>3, <1>4, <1>5, <1>6, <1>7, <1>8, <1>9, <1>10, <1>11, <1>12,
     <1>13, <1>14, <1>15, <1>16, <1>17, <1>18, <1>19, <1>20, <1>21, <1>22, <1>23, <1>24,
     <1>25, <1>26, <1>27, <1>28, <1>29, <1>30, <1>31, <1>32, <1>33, <1>34, <1>35, <1>36,
     <1>37, <1>38, <1>39, <1>40 DEF Next, Recover

-----------------------------------------------------------------------------
LEMMA InitTypes == Init => Types
<1> SUFFICES ASSUME Init PROVE Types
  OBVIOUS
<1>1. 1 \in Content /\ 0 \in 0 .. MaxWrites /\ 0 \in 0 .. MaxRuns /\ 0 \in 0 .. MaxFaults
  BY Nats DEF Content
<1>2. Object(1, 1, TRUE) \in Objects
  BY <1>1 DEF Object, Objects
<1>3. [st |-> "synced", local |-> 1, time |-> 1, cloud |-> 1] \in Baseline
  BY <1>1 DEF Baseline
<1>4. TypeParts
  BY <1>1, <1>2, <1>3, Literals DEF Init, TypeParts, Fetching, Received
<1> QED BY <1>4, TypesAre

LEMMA InitInv == Init => Inv
<1> SUFFICES ASSUME Init PROVE Inv
  OBVIOUS
<1>1. /\ file.at /\ file.data = 1 /\ file.time = 1 /\ file.ph = FALSE /\ file.own
      /\ rec.st = "synced" /\ rec.local = 1 /\ rec.time = 1 /\ rec.cloud = 1
  BY DEF Init, Object
<1>2. /\ hidden = {} /\ cloud = 1 /\ seen = {1} /\ up /\ ~abandoned
      /\ writes = 0 /\ runs = 0 /\ faults = 0 /\ job.pc = "idle" /\ ~row.at /\ ~tmp.at
  BY Literals DEF Init
<1>3. Known /\ Clock /\ Owned /\ Stubs /\ Fresh /\ RowTrue
  BY <1>1, <1>2 DEF Known, Clock, Owned, Stubs, Fresh, RowTrue, Times, Checking
<1>4. Hidden
  BY <1>1, <1>2 DEF Hidden, Behind
<1>5. FreeUpPhases /\ DownloadPhases /\ RepairPhases
  BY <1>1, <1>2 DEF FreeUpPhases, DownloadPhases, RepairPhases, Checking, Staged, Behind, Fetching, Repairing
<1> QED BY <1>3, <1>4, <1>5 DEF Inv

LEMMA InvStep ==
  ASSUME Gated, Types, Inv, [Next]_vars
  PROVE  Types' /\ Inv'
<1>1. Types'
  BY TypesStep
<1> QED
  BY <1>1, KnownStep, ClockStep, HiddenStep, FreeUpPhasesStep, DownloadPhasesStep, RepairPhasesStep,
     OwnedStep, StubsStep, FreshStep, RowTrueStep DEF Inv

LEMMA Typed == Spec => []Types
BY InitTypes, TypesStep, PTL DEF Spec

LEMMA Inductive ==
  ASSUME Gated
  PROVE  Spec => [](Types /\ Inv)
<1>1. Types /\ Inv /\ [Next]_vars => (Types /\ Inv)'
  BY InvStep
<1> QED BY <1>1, InitTypes, InitInv, PTL DEF Spec

(* Every variable keeps its type, with or without leases, for any number of *)
(* writes, free-ups, downloads, crashes and failing calls.                  *)
THEOREM TypeCorrect == Spec => []TypeOK
<1>1. Types => TypeOK
  BY DEF Types
<1> QED BY <1>1, Typed, PTL

(* Where programs respect the path leases, a placeholder that nothing is    *)
(* under way for is recorded as cloud-only, or its content is still kept    *)
(* (free_up_one, restore_staged_free_up, recover_interrupted_free_up).      *)
THEOREM WholeOrNotAtAll ==
    ASSUME Gated
    PROVE  Spec => []AllOrNothing
<1>1. Inv => AllOrNothing
  BY DEF Inv, Stubs, AllOrNothing
<1> QED BY <1>1, Inductive, PTL

(* A row that says synced names the content that the cloud has under that   *)
(* version, until a restore has failed (record_clean_baseline, rollback_free_up_baseline). *)
THEOREM RowsTellTheTruth ==
    ASSUME Gated
    PROVE  Spec => []BaselineTrue
<1>1. Inv => BaselineTrue
  BY DEF Inv, RowTrue, BaselineTrue
<1> QED BY <1>1, Inductive, PTL

(* No step of free-up, restore or recovery destroys a content that the      *)
(* cloud has never had, and a download destroys none but the one it was     *)
(* asked over (free_up_one, verify_local_destination): what is written      *)
(* after the intent is safe, what was written before the snapshot is not.   *)
THEOREM NothingDestroyed ==
    ASSUME Gated
    PROVE  Spec => NoContentLost
<1>1. Types /\ Inv /\ [Next]_vars
        => [writes' = writes => OnDisk \ OnDisk' \subseteq seen \cup AskedOver \cup {Empty}]_vars
  <2> SUFFICES ASSUME Types, Inv, [Next]_vars, writes' = writes, NEW c \in OnDisk, c \notin OnDisk'
               PROVE  c \in seen \cup AskedOver \cup {Empty}
    OBVIOUS
  <2>1. copies \subseteq copies' /\ FileKept
    BY KeepsStep DEF Keeps
  <2>2. \A h \in hidden : h.data \in seen
    BY DEF Inv, Known
  <2>3. CASE c \in copies \/ (\E h \in hidden : c = h.data)
    BY <2>1, <2>2, <2>3 DEF OnDisk
  <2>4. CASE file.at /\ c = file.data
    BY <2>1, <2>4 DEF OnDisk, FileKept
  <2> QED BY <2>3, <2>4 DEF OnDisk
<1> QED BY <1>1, Inductive, PTL DEF Spec, NoContentLost
=============================================================================
