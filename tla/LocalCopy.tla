------------------------------ MODULE LocalCopy ------------------------------
(***************************************************************************)
(* The local copy of one cloud file: how free-up replaces it by a          *)
(* placeholder (src/src/commands/free_up.rs), how a download puts it back  *)
(* (src/src/drive/download_api.rs, src/src/sync/hydration.rs), and how the *)
(* next start repairs what a crash left half done (mount/manager.rs).      *)
(*                                                                         *)
(* Every system call that changes the directory or the database is a step  *)
(* of its own, and may fail; a crash may come between any two.  A content  *)
(* is a number, new whenever the user or another client writes.            *)
(***************************************************************************)
EXTENDS Naturals, FiniteSets

CONSTANTS
    Gated,      \* the user's writes respect path leases (the Linux mount)
    MaxWrites,  \* bound: contents written by the user and by other clients
    MaxRuns,    \* bound: free-ups and downloads started
    MaxFaults   \* bound: crashes and failing system calls

ASSUME LocalCopyAssumption ==
    Gated \in BOOLEAN /\ {MaxWrites, MaxRuns, MaxFaults} \subseteq Nat

VARIABLES
    file,       \* what is at the path, Nothing if there is none
    hidden,     \* .hwcloud_freeup-* files beside it
    copies,     \* visible recovery copies: their contents
    tmp,        \* the download's .tmp file and the version its metadata names
    rec,        \* the baseline row: status, content of the last sync, version
    cloud,      \* the version in the cloud
    seen,       \* the contents the cloud has had
    job,        \* the running free-up, download or recovery
    row,        \* the intent of a download that is not over
    up,         \* the engine is started
    abandoned,  \* a restore has failed and left its content hidden
    writes, runs, faults

vars == <<file, hidden, copies, tmp, rec, cloud, seen, job, row, up, abandoned,
          writes, runs, faults>>
disk == <<file, hidden, copies, tmp, abandoned>>
counts == <<writes, runs, faults>>

-----------------------------------------------------------------------------
(* Data *)

Empty == 0
Content == 0 .. MaxWrites + 1
(* time: when it was written; ph: its state says placeholder; own: it       *)
(* carries the fileId; mark: it carries the free-up's recovery path.        *)
Object(data, time, own) ==
    [at |-> TRUE, data |-> data, time |-> time, ph |-> FALSE, own |-> own, mark |-> FALSE]
Nothing == [Object(Empty, 0, FALSE) EXCEPT !.at = FALSE]
Objects == [at : BOOLEAN, data : Content, time : Nat, ph : BOOLEAN, own : BOOLEAN,
            mark : BOOLEAN]
(* The modification time of what is written now: it tells writes apart. *)
Now == writes + runs + faults + 1

Idle == [pc |-> "idle"]
NoTmp == [at |-> FALSE]
NoRow == [at |-> FALSE]

OwnPlaceholder(f) == f.at /\ f.ph /\ f.own
(* The file is the one the row was written for: same size, same time. *)
Unchanged(f, r) == f.at /\ ~f.ph /\ f.data = r.local /\ f.time = r.time
Clean(f) == rec.st = "synced" /\ Unchanged(f, rec)
OnDisk == (IF file.at THEN {file.data} ELSE {}) \cup {h.data : h \in hidden} \cup copies

Init ==
    /\ file = Object(1, 1, TRUE)
    /\ hidden = {} /\ copies = {} /\ tmp = NoTmp
    /\ rec = [st |-> "synced", local |-> 1, time |-> 1, cloud |-> 1]
    /\ cloud = 1 /\ seen = {1}
    /\ job = Idle /\ row = NoRow /\ up = TRUE /\ abandoned = FALSE
    /\ writes = 0 /\ runs = 0 /\ faults = 0

Goto(pc) == job' = [job EXCEPT !.pc = pc]
Fail == faults < MaxFaults /\ faults' = faults + 1 /\ UNCHANGED <<writes, runs>>

-----------------------------------------------------------------------------
(* Free-up: free_up_one, under an exclusive path lease *)

FreeUpStart ==
    /\ up /\ job = Idle /\ runs < MaxRuns
    /\ ~row.at /\ Clean(file) /\ rec.local # Empty
    /\ runs' = runs + 1
    /\ job' = [pc |-> "remote", base |-> rec]
    /\ UNCHANGED <<disk, rec, cloud, seen, row, up, writes, faults>>

(* The cloud must still hold the version of the baseline. *)
FreeUpRemote ==
    /\ job.pc = "remote"
    /\ IF cloud = job.base.cloud THEN Goto("recheck") ELSE job' = Idle
    /\ UNCHANGED <<disk, rec, cloud, seen, row, up, counts>>

FreeUpRecheck ==
    /\ job.pc = "recheck"
    /\ IF Unchanged(file, job.base) /\ ~row.at /\ rec = job.base
       THEN Goto("mark") ELSE job' = Idle
    /\ UNCHANGED <<disk, rec, cloud, seen, row, up, counts>>

(* The recovery path is written and flushed before the file moves. *)
FreeUpMark ==
    /\ job.pc = "mark" /\ file.at
    /\ file' = [file EXCEPT !.mark = TRUE]
    /\ Goto("stage")
    /\ UNCHANGED <<abandoned, hidden, copies, tmp, rec, cloud, seen, row, up, counts>>

FreeUpStage ==
    /\ job.pc = "stage" /\ file.at
    /\ hidden' = hidden \cup {file}
    /\ job' = [pc |-> "stub", base |-> job.base, old |-> file, then |-> "idle"]
    /\ file' = Nothing
    /\ UNCHANGED <<abandoned, copies, tmp, rec, cloud, seen, row, up, counts>>

(* create_placeholder_strict: the empty file, its fileId, its state. *)
FreeUpStub ==
    /\ job.pc = "stub" /\ ~file.at
    /\ file' = Object(Empty, Now, FALSE)
    /\ Goto("owner")
    /\ UNCHANGED <<abandoned, hidden, copies, tmp, rec, cloud, seen, row, up, counts>>
FreeUpOwner ==
    /\ job.pc = "owner" /\ file.at
    /\ file' = [file EXCEPT !.own = TRUE]
    /\ Goto("state")
    /\ UNCHANGED <<abandoned, hidden, copies, tmp, rec, cloud, seen, row, up, counts>>
FreeUpState ==
    /\ job.pc = "state" /\ file.at
    /\ file' = [file EXCEPT !.ph = TRUE]
    /\ Goto("commit")
    /\ UNCHANGED <<abandoned, hidden, copies, tmp, rec, cloud, seen, row, up, counts>>

FreeUpCommit ==
    /\ job.pc = "commit"
    /\ IF rec.st = "synced" /\ rec.time = job.base.time
       THEN rec' = [rec EXCEPT !.st = "cloudonly"] /\ Goto("drop")
       ELSE UNCHANGED rec /\ Goto("clear")
    /\ UNCHANGED <<disk, cloud, seen, row, up, counts>>

FreeUpDrop ==
    /\ job.pc = "drop"
    /\ hidden' = hidden \ {job.old}
    /\ job' = Idle
    /\ UNCHANGED <<abandoned, file, copies, tmp, rec, cloud, seen, row, up, counts>>

(* A call fails: nothing moved yet; the unfinished placeholder is removed, *)
(* if it can be, and the file restored; the same after a failed commit, and*)
(* after a failed removal the baseline goes back too.                      *)
FreeUpFails ==
    /\ Fail
    /\ \/ /\ job.pc \in {"remote", "mark", "stage"}
          /\ file' = IF job.pc = "stage" THEN [file EXCEPT !.mark = FALSE] ELSE file
          /\ job' = Idle
       \/ /\ job.pc \in {"stub", "owner", "state"}
          /\ file' \in IF job.pc = "stub" THEN {file} ELSE {Nothing, file}
          /\ Goto("clear")
       \/ /\ job.pc = "commit" /\ Goto("clear") /\ UNCHANGED file
       \/ /\ job.pc = "drop" /\ UNCHANGED file
          /\ job' = [job EXCEPT !.pc = "clear", !.then = "baseline"]
    /\ UNCHANGED <<abandoned, hidden, copies, tmp, rec, cloud, seen, row, up>>

(* restore_staged_free_up: never over anything but the own placeholder. *)
RestoreClear ==
    /\ job.pc = "clear"
    /\ IF file.at /\ ~OwnPlaceholder(file)
       THEN job' = Idle /\ abandoned' = TRUE /\ UNCHANGED file
       ELSE Goto("back") /\ file' = Nothing /\ UNCHANGED abandoned
    /\ UNCHANGED <<hidden, copies, tmp, rec, cloud, seen, row, up, counts>>

RestoreBack ==
    /\ job.pc = "back"
    /\ IF file.at
       THEN job' = Idle /\ abandoned' = TRUE /\ UNCHANGED <<file, hidden>>
       ELSE /\ file' = job.old /\ hidden' = hidden \ {job.old}
            /\ Goto("unmark") /\ UNCHANGED abandoned
    /\ UNCHANGED <<copies, tmp, rec, cloud, seen, row, up, counts>>

RestoreUnmark ==
    /\ job.pc = "unmark" /\ file.at
    /\ file' = [file EXCEPT !.mark = FALSE]
    /\ IF job.then = "baseline" THEN Goto("baseline") ELSE job' = Idle
    /\ UNCHANGED <<abandoned, hidden, copies, tmp, rec, cloud, seen, row, up, counts>>

(* rollback_free_up_baseline: only while nobody else changed the row. *)
RestoreBaseline ==
    /\ job.pc = "baseline"
    /\ rec' = IF rec.st = "cloudonly" /\ rec.time = job.base.time THEN [rec EXCEPT !.st = "synced"] ELSE rec
    /\ job' = Idle
    /\ UNCHANGED <<disk, cloud, seen, row, up, counts>>

(* A failing restore leaves the content hidden until the next start; a mark *)
(* that cannot be removed sends the file back there.                        *)
RestoreFails ==
    /\ Fail
    /\ job.pc \in {"clear", "back", "unmark", "baseline"}
    /\ IF job.pc = "unmark"
       THEN file' = Nothing /\ hidden' = hidden \cup {file}
       ELSE UNCHANGED <<file, hidden>>
    /\ job' = Idle /\ abandoned' = TRUE
    /\ UNCHANGED <<copies, tmp, rec, cloud, seen, row, up>>

-----------------------------------------------------------------------------
(* Downloads, under a shared path lease *)

(* The intent is written: over an empty placeholder or nothing (Download),  *)
(* or over whatever else is there, whose time and size become the snapshot  *)
(* (DownloadUpdate).  The planner looked for an edit when it decided, long  *)
(* before; ensure_local never looks.                                        *)
DownloadAsk ==
    /\ up /\ ~row.at /\ runs < MaxRuns
    /\ runs' = runs + 1
    /\ row' = [at |-> TRUE, expect |-> cloud, update |-> file.at /\ ~(file.ph /\ file.data = Empty),
               snapshot |-> <<file.data, file.time>>]
    /\ UNCHANGED <<disk, rec, cloud, seen, job, up, writes, faults>>

(* A placeholder somebody wrote into is set aside first; the metadata must *)
(* match the intent, and a partial file of another version is thrown away. *)
DownloadStart ==
    /\ up /\ job = Idle /\ row.at
    /\ IF file.at /\ file.ph /\ file.data # Empty
       THEN copies' = copies \cup {file.data} /\ file' = Nothing
       ELSE UNCHANGED <<copies, file>>
    /\ IF cloud = row.expect
       THEN /\ job' = [pc |-> "receive", version |-> cloud]
            /\ tmp' = IF tmp.at /\ tmp.version = cloud THEN tmp ELSE NoTmp
            /\ UNCHANGED row
       ELSE job' = Idle /\ tmp' = NoTmp /\ row' = NoRow
    /\ UNCHANGED <<abandoned, hidden, rec, cloud, seen, up, counts>>

(* The bytes are those of the moment; a complete partial file is not       *)
(* fetched again.                                                          *)
DownloadReceive ==
    /\ job.pc = "receive"
    /\ tmp' = IF tmp.at THEN tmp
              ELSE [at |-> TRUE, version |-> job.version, data |-> cloud]
    /\ Goto("verify")
    /\ UNCHANGED <<abandoned, file, hidden, copies, rec, cloud, seen, row, up, counts>>

DownloadVerify_Once ==
    /\ job.pc = "verify" /\ Goto("check")
    /\ UNCHANGED <<disk, rec, cloud, seen, row, up, counts>>
(* The metadata is fetched again: nothing may have changed meanwhile. *)
DownloadVerify ==
    /\ job.pc = "verify"
    /\ IF cloud = job.version THEN Goto("check") /\ UNCHANGED <<tmp, row>>
       ELSE job' = Idle /\ tmp' = NoTmp /\ row' = NoRow
    /\ UNCHANGED <<abandoned, file, hidden, copies, rec, cloud, seen, up, counts>>

Installable_Anything(f, r) == TRUE
(* verify_local_destination *)
Installable(f, r) ==
    IF r.update THEN f.at /\ <<f.data, f.time>> = r.snapshot
    ELSE ~f.at \/ (f.ph /\ f.data = Empty)

DownloadCheck ==
    /\ job.pc = "check"
    /\ IF Installable(file, row) THEN Goto("install") /\ UNCHANGED row
       ELSE job' = Idle /\ row' = NoRow
    /\ UNCHANGED <<disk, rec, cloud, seen, up, counts>>

DownloadInstall ==
    /\ job.pc = "install"
    /\ file' = Object(tmp.data, Now, FALSE)
    /\ tmp' = NoTmp
    /\ Goto("tag")
    /\ UNCHANGED <<abandoned, hidden, copies, rec, cloud, seen, row, up, counts>>

DownloadTag ==
    /\ job.pc = "tag" /\ file.at
    /\ file' = [file EXCEPT !.own = TRUE]
    /\ Goto("settle")
    /\ UNCHANGED <<abandoned, hidden, copies, tmp, rec, cloud, seen, row, up, counts>>

DownloadSettle ==
    /\ job.pc = "settle" /\ file.at
    /\ rec' = [st |-> "synced", local |-> file.data, time |-> file.time,
               cloud |-> row.expect]
    /\ job' = Idle /\ row' = NoRow
    /\ UNCHANGED <<disk, cloud, seen, up, counts>>

(* An outage keeps the intent and the partial file for the next attempt,   *)
(* any other failure ends the intent.                                      *)
DownloadFails ==
    /\ Fail
    /\ job.pc \in {"receive", "verify", "install", "tag", "settle"}
    /\ job' = Idle
    /\ row' \in IF job.pc \in {"receive", "verify"} THEN {row, NoRow} ELSE {NoRow}
    /\ UNCHANGED <<disk, rec, cloud, seen, up>>

-----------------------------------------------------------------------------
(* The upload of a changed file (module TaskRunner), in one step *)
Upload ==
    /\ up /\ job = Idle /\ ~row.at
    /\ file.at /\ ~file.ph /\ ~Clean(file) /\ cloud = rec.cloud
    /\ cloud' = file.data /\ seen' = seen \cup {file.data}
    /\ rec' = [st |-> "synced", local |-> file.data, time |-> file.time,
               cloud |-> file.data]
    /\ file' = [file EXCEPT !.own = TRUE]
    /\ UNCHANGED <<abandoned, hidden, copies, tmp, job, row, up, counts>>

-----------------------------------------------------------------------------
(* The user and the other clients *)

MayWrite == writes < MaxWrites /\ (Gated => job = Idle)
Written == writes + 2

(* Through the mount a placeholder is filled or truncated first and is none *)
(* afterwards; in a plain directory it keeps its state.                     *)
UserWrite ==
    /\ MayWrite
    /\ writes' = writes + 1
    /\ file' = IF file.at THEN [file EXCEPT !.data = Written, !.time = Now, !.ph = @ /\ ~Gated]
               ELSE Object(Written, Now, FALSE)
    /\ UNCHANGED <<abandoned, hidden, copies, tmp, rec, cloud, seen, job, row, up, runs, faults>>

UserDelete ==
    /\ MayWrite /\ file.at
    /\ writes' = writes + 1
    /\ file' = Nothing
    /\ UNCHANGED <<abandoned, hidden, copies, tmp, rec, cloud, seen, job, row, up, runs, faults>>

RemoteWrite ==
    /\ writes < MaxWrites
    /\ writes' = writes + 1
    /\ cloud' = Written /\ seen' = seen \cup {Written}
    /\ UNCHANGED <<disk, rec, job, row, up, runs, faults>>

-----------------------------------------------------------------------------
(* Crash, start and recover_interrupted_free_up *)

Crash ==
    /\ up \/ job # Idle
    /\ Fail
    /\ up' = FALSE /\ job' = Idle
    /\ UNCHANGED <<disk, rec, cloud, seen, row>>

Recovering == ~up /\ job = Idle

(* The staged file left without its identity, or with something else at    *)
(* its path, becomes a visible copy.                                       *)
RecoverStrip(h) ==
    /\ Recovering /\ h \in hidden
    /\ ~(h.own /\ h.mark) \/ (file.at /\ ~file.ph)
    /\ h.own \/ h.mark
    /\ hidden' = (hidden \ {h}) \cup {[h EXCEPT !.own = FALSE, !.mark = FALSE]}
    /\ UNCHANGED <<abandoned, file, copies, tmp, rec, cloud, seen, job, row, up, counts>>
RecoverSurface(h) ==
    /\ Recovering /\ h \in hidden /\ ~h.own /\ ~h.mark
    /\ hidden' = hidden \ {h} /\ copies' = copies \cup {h.data}
    /\ UNCHANGED <<abandoned, file, tmp, rec, cloud, seen, job, row, up, counts>>

Committed_AnyRow == file.own
(* A committed free-up is finished; any other placeholder makes way. *)
Committed == file.own /\ rec.st = "cloudonly"
RecoverFinish(h) ==
    /\ Recovering /\ h \in hidden /\ h.own /\ h.mark
    /\ file.at /\ file.ph /\ Committed
    /\ hidden' = hidden \ {h}
    /\ UNCHANGED <<abandoned, file, copies, tmp, rec, cloud, seen, job, row, up, counts>>
RecoverUndo_OnlyOthers(h) ==
    /\ Recovering /\ h \in hidden /\ h.own /\ h.mark
    /\ file.at /\ file.ph /\ ~file.own
    /\ file' = Nothing
    /\ UNCHANGED <<abandoned, hidden, copies, tmp, rec, cloud, seen, job, row, up, counts>>
RecoverUndo(h) ==
    /\ Recovering /\ h \in hidden /\ h.own /\ h.mark
    /\ file.at /\ file.ph /\ ~Committed
    /\ file' = Nothing
    /\ UNCHANGED <<abandoned, hidden, copies, tmp, rec, cloud, seen, job, row, up, counts>>

(* restore_free_up_staging: the file, then the row, then the mark. *)
RecoverRestore(h) ==
    /\ Recovering /\ h \in hidden /\ h.own /\ h.mark /\ ~file.at
    /\ hidden' = hidden \ {h} /\ file' = h
    /\ job' = [pc |-> "row"]
    /\ UNCHANGED <<abandoned, copies, tmp, rec, cloud, seen, row, up, counts>>
RecoverRow ==
    /\ job.pc = "row" /\ file.at
    /\ rec' = [rec EXCEPT !.st = "synced", !.local = file.data, !.time = file.time]
    /\ job' = [pc |-> "demark"]
    /\ UNCHANGED <<disk, cloud, seen, row, up, counts>>
RecoverDemark ==
    /\ job.pc = "demark" /\ file.at
    /\ file' = [file EXCEPT !.mark = FALSE]
    /\ job' = Idle
    /\ UNCHANGED <<abandoned, hidden, copies, tmp, rec, cloud, seen, row, up, counts>>
(* A row that cannot be written sends the file back to hiding, if that can  *)
(* be done; a mark that cannot be removed stays.                            *)
RecoverFails ==
    /\ Fail
    /\ \/ /\ job.pc = "row" /\ file.at
          /\ hidden' = hidden \cup {file} /\ file' = Nothing
       \/ job.pc \in {"row", "demark"} /\ UNCHANGED <<file, hidden>>
    /\ job' = Idle
    /\ UNCHANGED <<abandoned, copies, tmp, rec, cloud, seen, row, up>>

Start ==
    /\ Recovering /\ hidden = {}
    /\ up' = TRUE
    /\ UNCHANGED <<disk, rec, cloud, seen, job, row, counts>>

Recover ==
    \/ \E h \in hidden :
          RecoverStrip(h) \/ RecoverSurface(h) \/ RecoverFinish(h) \/ RecoverUndo(h)
             \/ RecoverRestore(h)
    \/ RecoverRow \/ RecoverDemark \/ Start

-----------------------------------------------------------------------------
Next ==
    \/ FreeUpStart \/ FreeUpRemote \/ FreeUpRecheck \/ FreeUpMark \/ FreeUpStage
    \/ FreeUpStub \/ FreeUpOwner \/ FreeUpState \/ FreeUpCommit \/ FreeUpDrop \/ FreeUpFails
    \/ RestoreClear \/ RestoreBack \/ RestoreUnmark \/ RestoreBaseline \/ RestoreFails
    \/ DownloadAsk \/ DownloadStart \/ DownloadReceive \/ DownloadVerify \/ DownloadCheck
    \/ DownloadInstall \/ DownloadTag \/ DownloadSettle \/ DownloadFails
    \/ Upload \/ UserWrite \/ UserDelete \/ RemoteWrite
    \/ Crash \/ Recover \/ RecoverFails

Spec == Init /\ [][Next]_vars
(* Whoever starts the application again runs its recovery to the end. *)
FairSpec == Spec /\ WF_vars(Recover)

-----------------------------------------------------------------------------
(* Properties *)

(* Every variable keeps its type; nothing but recovery runs before the start. *)
TypeOK ==
    /\ file \in Objects /\ hidden \subseteq Objects
    /\ copies \subseteq Content /\ seen \subseteq Content /\ cloud \in Content
    /\ rec \in [st : {"synced", "cloudonly"}, local : Content, time : Nat,
               cloud : Content]
    /\ ~up => job.pc \in {"idle", "row", "demark"}
    /\ row.at \/ job.pc \notin {"receive", "verify", "check", "install", "tag", "settle"}
    /\ {up, abandoned} \subseteq BOOLEAN /\ writes \in 0 .. MaxWrites /\ runs \in 0 .. MaxRuns
    /\ faults \in 0 .. MaxFaults

(* A content leaves the disk only by the user's doing, or when the cloud   *)
(* has had it, or when it is the very content a download was asked to      *)
(* replace: neither free-up nor any rollback or recovery destroys an only  *)
(* copy, and a download destroys none that came after it was asked for.    *)
AskedOver == IF job.pc = "install" /\ row.update THEN {row.snapshot[1]} ELSE {}
NoContentLost ==
    [][writes' = writes => OnDisk \ OnDisk' \subseteq seen \cup AskedOver \cup {Empty}]_vars

(* The stronger wish, that a download replaces nothing but what the cloud  *)
(* has had: the code does not keep it, the intent takes its snapshot of    *)
(* whatever is there when it is written.                                   *)
NoEditReplaced ==
    [][writes' = writes => OnDisk \ OnDisk' \subseteq seen \cup {Empty}]_vars

(* A free-up is done whole or not at all: when nothing runs, a placeholder *)
(* is recorded as cloud-only, or the content it stands for is still kept.  *)
AllOrNothing ==
    job = Idle /\ file.at /\ file.ph => rec.st = "cloudonly" \/ hidden # {}

(* A row that says synced tells the truth: the content it was recorded with *)
(* is the cloud version it names, so an unchanged file never hides an edit. *)
(* A content that a failed restore left behind is the exception: the next   *)
(* start may bring it back over a later version's row.                      *)
BaselineTrue == rec.st = "synced" /\ ~abandoned => rec.local = rec.cloud

(* What a crash left hidden is given back, or its free-up finished, by the *)
(* next start.                                                             *)
GivenBack == (~up /\ hidden # {}) ~> hidden = {}

(* An empty file the user never made is never uploaded over the content. *)
NoPhantom == cloud # Empty
=============================================================================
