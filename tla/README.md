# PetalLink in TLA+

PetalLink (`src/src`, Rust, with a Vue front end in `src/app`) keeps a local
mount directory and a Huawei Drive in step. These modules describe the parts of
its engine whose correctness depends on the order of events: tasks, commands,
the network, crashes and the cloud all interleave at every `await`. Each module
is translated from the Rust source; `PROJECT.json` names, for every definition,
the lines it stands for.

    tlc -workers 2 -config MCTaskRunner.cfg MCTaskRunner.tla
    tlapm TaskRunnerProofs.tla

## 1. The system

| Component | State it keeps | Operations | What is hard about it | What makes it correct |
|---|---|---|---|---|
| Transfer life cycle (`sync/transfer_state.rs`) | – | the table of legal transitions | two notions of "occupies the path" | terminal states have no successor |
| Retry policy (`sync/retry_policy.rs`) | – | error → decision | a write whose answer is lost must be verified, not repeated | budgets bound every loop |
| Transfer queue (`data/repository/transfer_queue.rs`) | SQLite rows with a state and a revision | insert, transition, patch, replan, clear | snapshots loaded several awaits ago | compare-and-set on (id, revision) |
| Task runner (`sync/task_runner/`) | none in memory: the rows | admit, run, settle, verify, replay, recover, retry, cancel | crashes, lost answers, several askers per path | one intent per path, no duplicate, no false success, everything settles |
| Transfer operations (`sync/executor/transfer_operations.rs`) | – | preflight, upload, verify by id or by name | the local and the cloud file change meanwhile | nothing is overwritten or created blindly |
| Conflict and retry commands (`sync/engine/conflict_actions.rs`, `retry.rs`) | – | overwrite, keep both, retry, cancel | several awaits between the check and the requeue | same as the task runner's |
| Activity gate (`sync/engine/coordination.rs`) | counters and sets under a mutex | begin, begin_exclusive, drop, close, wait_idle | saturating counters, a notification before the wait | leases exclude, shutdown waits for everyone |
| Cycle coordinator (`coordination.rs`, `cycle.rs`, `lifecycle.rs`) | request bits, sequence numbers, failure history, owner lock, flags | request, drain, restore, complete, background worker, folder sync, start, shutdown | requests put back, workers that are leaving, folder sync against a cycle | Ok is true, nothing asked for is lost, nothing runs after shutdown |
| Cloud checkpoint (`cloud_tree.rs`, `cache.rs`, `changes_api.rs`) | cursor, tree, trusted | full and incremental refresh, commit | a candidate tree against the persisted one | an untrusted tree is never planned on |
| Reconciliation, results, filters (`sync/engine/`) | – | observe, plan, execute, settle | the observation is old when the action runs | actions of an occupied path are dropped |
| Planner (`planner.rs`, `conflict.rs`, `stability.rs`) | – | three-way decision | many combinations | no edit is lost |
| Action executor (`executor/actions.rs`, `local_delete.rs`) | – | folders, deletes, moves, conflict copies | a failed step in a batch | later steps do not depend on it |
| Path recovery (`path_recovery.rs`) | journal columns | repair an interrupted rename or move | checkpoint written, database not | repaired forward |
| Hydration, FUSE (`hydration.rs`, `virtual_fs/`) | inode table, open handles | lookup, open, read, rename | several readers of one placeholder | one download, lookup counts exact |
| Engine ownership (`runtime.rs`) | the current engine | install, replace, take | commands hold leases of the old engine | the old one is quiet before the new one starts |
| Network guard (`core/net_guard.rs`) | level, run of successes, probe generation | observe, report failure | stale probes | two successes for an Online edge |
| Authentication (`auth/`) | token pair, single flight | refresh, sign out | a refresh that outlives a sign-out | one refresh, no resurrected token |
| Drive client (`drive/`) | upload sessions | requests, replays after 401, resumable uploads | ranges and sessions | bytes uploaded once |
| Status (`status_aggregator.rs`, `publication.rs`) | revisions | recompute, publish | several publishers | revisions grow |
| Mount, watcher, configuration, migrations, commands, platform, front end | | | mostly I/O or argument checking | |

**How they interact.** A watcher event, a network edge, a timer or a command
*requests* a cycle from the coordinator. Whoever owns the coordinator's lock
runs it: refresh the cloud tree, recover paths and the transfers of the last
run, resume rows that wait, plan. Planned uploads are *enqueued* with the task
runner, which is also called directly by commands (upload, retry, overwrite,
keep both). The Linux mount asks for downloads
by the same queue and takes the same leases; freeing space does it the other way
round. Every such operation holds a guard of the activity gate;
`shutdown()` closes the gate, takes the owner lock once and waits in
`wait_idle()`. Rows, baseline and checkpoint are shared through SQLite.
Signing in or out and changing settings replace the engine: they take it out of
its slot, shut it down, unmount, wait until it is quiet, and only then clear what
it worked with. Every request to the drive carries the token that the window's
and the engine's requests refresh together.

## 2. Modules

| Module | Models |
|---|---|
| `TransferState` | the nine states, `can_transition`, blocking and runnable states |
| `RetryPolicy` | `classify_transfer_error` with every branch |
| `TaskRunner` (extends both) | the upload rows of one path, the threads that move them, the cloud, the local file, the baseline |
| `UploadPromise` | what the uploads of one path promise: the abstract specification |
| `UploadRefinement` (extends `TaskRunner`) | the mapping from `TaskRunner` to `UploadPromise` |
| `ActivityTracker` | the activity gate |
| `SyncCycle` | the coordinator, its callers and workers, folder sync, start, shutdown |
| `InodeTable` | the inode table of the Linux mount, as functions |
| `VirtualDrive` (uses `InodeTable`) | the requests of the kernel against a download and a free-up |
| `LocalCopy` | free-up, download and the next start's recovery of one file, system call by system call |
| `SyncPlan` | planner, healing of baselines, rename detection and filters, as functions |
| `Reconciliation` (extends `SyncPlan`) | whole cycles: recovery, scan, plan, execution, settlement; the user, other clients and commands |
| `CloudCheckpoint` | the engine's picture of the cloud: listing, change log, persistence, trust |
| `TokenRefresh` | the two copies of the login token, one refresh at a time, the replay after 401 |
| `EngineOwnership` | the slot of the engine, the two gates, the FUSE session |
| `AccountSwitch` (extends both) | the commands that change the account or the settings |
| `MC*` | small instances for TLC |
| `ActivityTrackerProofs`, `SyncCycleProofs`, `TaskRunnerProofs`, `LocalCopyProofs`, `CloudCheckpointProofs`, `AccountSwitchProofs`, `VirtualDriveProofs`, `ReconciliationProofs` | theorems about the module of that name, for every value of the constants; `TaskRunnerProofs` also shows that `TaskRunner` implements `UploadPromise` |

How they fit together: `SyncCycle` says *when* a cycle runs, `Reconciliation`
what it does, `CloudCheckpoint` where its tree comes from, `TaskRunner` how the
uploads it begins end, `LocalCopy` how its downloads do, `VirtualDrive` who else
touches the directory meanwhile, `AccountSwitch` how all of that is stopped and
started again. What one module leaves to another is a free choice in it: a cycle
of `SyncCycle` ends in any way, a transfer of `Reconciliation` at any time.

### ActivityTracker
One variable per field of `ActivityState`; `guards` is the set of live
`ActivityGuard` values. `begin`, `begin_exclusive`, `close` and `Drop` hold the
mutex and are one step each. `wait_idle` is three steps: the `Notified` future
is made, the count is read, the future completes. Paths are sequences of names
and overlap as in `core/paths.rs`.

### TaskRunner
*State.* `rows` is `transfer_queue`, `baseline` the SYNCED row of `sync_items`;
both survive `Crash`. `threads` is what is lost: for each task of the runtime
where it is and the *snapshot* of the row it works with. `cloud` has every file
that had this name and parent, `local` the content of the local file. Contents
are numbered: a (mtime, size) snapshot or a hash identifies one, `SizeOf` is
what a size alone tells.

*Steps.* One database transaction is one step, and every await lies between
steps, so `Enqueue`, `Gate`, `Settle`, `VerifyNotCommitted` … are the
transactions of `enqueue_and_run`, `transition_to_running_or_block`,
`settle_success`, `resume_verifying_task`. `Transition` is refused, as in the
code, when the revision moved on or the edge is illegal, and then changes
nothing. An upload is three steps: on its way (`uploading`), committed by the
server (`stored`), answered; either half can fail. The cycle's own jobs
(resume, verify, recover, plan, retry) are actions of the thread `Cycle`, one at
a time; commands run in the other threads and do not wait for `RecoverStartup`,
since a `STARTUP` request that was put back lets them in before it.

*Who holds the path.* A thread is in `run` where its caller's activity covers
`run_expected`, and in `pickup` or `runNow` where `run_expected` has to begin one
of its own: after `prepare_retry`, after the second half of a replay, after a
conflict decision. While no thread holds an activity of the path
(`NoActivityPC`), a rename, an unlink, a free-up or a folder sync may have it, and
the pickup is refused (`PickupRefused`, and `RecoverStartup` for a row it was to
run): the thread ends, its row stays `Pending`. The gate of an engine that ends
refuses too; that thread gets no further before `Crash`. Whoever has the path
is one fault: nothing else of it concerns the rows.
*Ghosts.* `refused` has the rows, by revision, that this process could not pick
up (`Stranded`); `overtaken` is set when `RecoverStartup` comes while a thread
executes; `spent` and `history` count and record.

*Left out.* Downloads (`LocalCopy`); resumable sessions except
their expiry error; the clock: a deadline is an action that may happen, and the
30-day creation window of `verify_remote` always matches; a baseline whose
`editedTime` the cloud never returned; the branch of `recover_startup` for several live
rows of one path, which `SingleIntent` shows cannot arise (it is there for old
databases); I/O errors of SQLite other than in `settle_success`; the
concurrency semaphore. Contents written by different hands have different
sizes in the runs: `validate_remote_result` takes size as the contract
(`settlement.rs:217`), and with equal sizes and no hash `NoFalseSuccess` would
not hold. A request the client gave up is decided by the server before its
outcome is verified.

### SyncCycle
The fields of `CycleCoordinatorState`, the owner lock, the engine's flags, and a
program counter per task: callers of `run_sync_cycle` (`Boot` is `start()`) and
workers spawned by `schedule_background_drain`. A worker that has cleared its
flag still looks again (`Recheck`) while the next one runs, hence two. The steps
of a cycle end in every way the code lets them: going on, failing with and
without the bits restored, put off within the cycle (`Postponed`), or with a
rebuild requested (`CheckpointFails`).
*Left out.* The bits `RETRY`, `REPLAN` and `BACKOFF`, which choose what planning
does, and the back-off scheduler, one more source of requests; the wrap of u64
sequences. Listeners begin with `started`.
*Ghosts.* `waiting`, `riding` and `verdict` follow a caller's bits into the
cycle that serves them; `stalled` marks what the code leaves to the next
request, be it after a failure or because `start()` does not ring for it; `dropped` a store failure that ends a cycle with `?` before anything
was restored.

### UploadPromise and UploadRefinement
The promise has five variables and no thread, retry, verification or crash: the
phase of every intent (`none`, `open`, `done`, `gone`), the request being sent,
the files made here that are still there, every version a file of the name ever
had, and what is recorded as synced. Under the mapping a row that can still act
is an open intent (`Failed` too: it can be retried), the threads past the remote
checks are sending, `cloud`'s own files are the copies, `baseline` is what is
synced. `KeepsPromise` is the abstract `Spec`; a revision, a verification, a
requeue and a crash of an idle row are stutters, a crash of an upload is
`Return`.

### InodeTable and VirtualDrive
`InodeTable` is `inode_table.rs` as functions on a record. `VirtualDrive` has the
backing directory as paths to objects (a descriptor keeps its object whatever
happens to the name), the open handles with their leases, and for each request
where it waits: for the namespace lock, for a path lease, for the download.
`Ask` begins a request of any kind with any path, `Run` takes one step of it; a
read of a pending handle promotes it. The engine's side is the download task
(`TaskInstall`, `TaskFail`) and `FreeUp`. The per-path hydration lock is left
out: it only spares duplicate downloads. Also left out: fsync, access, statfs,
readdir, checks of names, and moves the database does not know yet
(`validate_pending_move_destination` is one path here).

### LocalCopy
The path, the hidden `.hwcloud_freeup-*` file, recovery copies, the `.tmp` of a
download, the row and the cloud's version, one system call per action; each may
fail, and a crash may come between any two. `Restore*` is the rollback of a
failed free-up, `Recover*` the next start, `Download*` the transfer from intent
to settlement. `Gated = TRUE` is the Linux mount, where programs take leases;
with `FALSE` (a plain directory) a write between the last check and the rename,
or through an open descriptor afterwards, goes with the freed file and
`NoContentLost` does not hold (`free_up.rs:387`).
`DownloadAsk` is the transaction that makes the row. It takes whatever is at the
path for what is to be replaced: the planner's comparison is older, and
`ensure_local` makes none. An edit that came before it is replaced, which is the
exception of `NoContentLost` (`AskedOver`) and number 4 of section 5; one that
comes after it is noticed. `RecoverFails` is the next start that cannot write
the row and hides the file again.

### SyncPlan and Reconciliation
A path is a sequence of names, a content a number that also stands for size and
time, 0 a placeholder; a cloud version is a content and the number of moves
since, which is what `editedTime` tells apart. `SyncPlan` decides;
`Reconciliation` carries out: path recovery, scan, plan and filters (one step),
one step per action, the checkpoint, the settlement of the results. `User`,
`Others` and `Asked` (delete, move and rename by command, step by step) act in
between.
Whether a path is a directory is fixed, and so is whether an identity is a
folder: a move from one kind of place to the other is not offered. The names are
those of a file system: `SyncPlanAssumption` asks that what is above a path be a
directory, and that what can be in a directory can be in any other.
*Left out.* The `pending:` rows, type conflicts of a file and a directory, skip
patterns, the purge of tombstones; twins of one name in one folder. Making a
backup copy is one step; a conflict is two. A transfer left over is abandoned
and planned again. A task's parent is given by path. Healing picks any of two
rows. A cycle's own structural actions hold shared path activities, which
exclude writes through the mount. Identities are tried in a fixed order. Files
without a row that a command touches are another client's doing.
*Ghosts.* `written` is what somebody wrote and nobody replaced or deleted;
`lapsed`, `removed` and `astray` are the exceptions the properties name, and
each has its line in section 5. A row is `madeup` when a version was written into
it without its content: by a move, or because a download by the user came
between a conflict and its settlement (`cyc.filled`).

### CloudCheckpoint
Identities with a parent and a version; the log of their changes; a checkpoint
is a tree and a cursor, in memory and on disk. A full refresh lists one folder
per step and replays the log from before the listing; an incremental one reads
page by page; `CommitRefresh` persists, installs and decides on trust. `Beside`
is a retry or a command whose result enters the tree at any later time. The
ghosts `off` and `late` serve the exceptions of `NothingPassedOver` only: what a
checkpoint may have wrong although the log is read, and whether a refresh came
between a call and its result.
*Left out.* The listing of one folder is one step; a rename is a move (names are
fixed per identity); two files of one name, restoring from the recycle bin, the
purge of tombstones, parsing.

### TokenRefresh, EngineOwnership and AccountSwitch
Tokens are numbered as issued and descend from a sign-in; `mem` and `disk` are
`current` and `token.bin`, `flight` the active refresh, `call` where each
caller's request is. An engine is in the slot, or taken out and being drained;
it has a request, a FUSE session, files open. A command of `AccountSwitch` is
the list of its steps (`Steps`), others run between any two; `Restarted` is what
`lib.rs` does at the start of the process.
*Left out.* The browser, its callback, PKCE and the cancelling of a sign-in
(a sign-in succeeds or fails as one step before it changes anything); the guard
that turns a sign-out away while transfers run (it is a check before the first
step); the fields of the settings other than the directory. Every engine
activity is one request. Every sign-in is of another account, the worst case. A
file that an application keeps open keeps its lease until it is closed. With the
tokens used up every refresh fails.

## 3. Runs

| Run | Shows | Bounds |
|---|---|---|
| `activity` | leases, exact accounting, `wait_idle` neither early nor asleep for ever | 3 guards; a directory, a file in it, another file: nesting, equality and disjointness; a third guard lets one leave while two remain |
| `tasks` | one intent, one owner unless its pickup was refused, one uploader, one cloud file, a truthful baseline; every step is one of `UploadPromise` | 2 rows, 4 file ids, cycle + one command thread, 1 fault (a failure, a refusal, an outage or a crash), 2 contents (one edit, here or elsewhere), 2 intents or retries; `MaxAttempts` 1, `MaxVerify` 3, `MaxReplay` 2 instead of 5, 60, 5: the loops run out within the run |
| `tasks_live` | the upload budget, and that every row in hand is settled, or was refused | 4 faults, so that errors, verifications and replays alternate up to their limits |
| `cycle` | folder syncs and cycles exclude each other, Ok means served, no refresh is forgotten, recovery before planning, nobody stranded, quiet after shutdown, every caller answered | start, one command, 2 workers, failure history 1 instead of 128, 2 requests, 1 fault, 1 folder sync; the safety properties also once with 3 requests and 2 faults (13 million states) |
| `drive` | writers and readers keep the file they opened, pending handles stay with theirs, the inode table stays exact | 2 names, 2 requests at a time, 4 calls, 2 handles: every pair of requests against a download and a free-up, and an open before and after them |
| `drive_frozen` (violation) | an opener and an unlink wait for each other for ever | as `drive` |
| `localcopy` | all or nothing, true rows, no content lost but what a download was asked over, what is hidden is given back | 3 writes, 3 runs of free-up or download, 3 faults: a crash in a recovery after a failed rollback |
| `reconcile` | edits survive, baselines are true, one path per identity in the tree, only what a user deleted is deleted | a folder, a file in or beside it, a second file; 3 operations by anybody at any step, 1 fault: an edit here, an edit there and a move of the same file |
| `checkpoint` | no change is passed over, in memory and on disk; trust only after catching up | a folder in a folder with a file, and one made later; 2 operations, 1 late result, 1 fault, a full refresh after 1 incremental one instead of 300 |
| `checkpoint_live` | the tree ends as the cloud | 1 operation, 2 faults |
| `session` | engines take turns, the file is never behind the memory, every command ends | 3 commands, two at a time, 2 engines, 2 tokens, 1 fault: sign in, choose a directory, and any third command against requests, a refresh, the restore and a restart |
| `session_signed_out` (violation) | a refresh brings the token back after the sign-out | as `session` |

Larger instances were run once without an error: `checkpoint` with `Threshold`
2 (450,000 states), `Converges` with two operations and no fault (67,608),
`session`'s invariants with 4 commands, 3 engines and 3 tokens (7.1 million),
`reconcile` with `Torn = TRUE` and 2 operations (160,673), `tasks` with 3 contents
(3.8 million states without the ghost `spent`: edits on both sides), with 2 faults
(6.6 million) and with 3 intents or retries (2.6 million). The instances in
`MCTaskRunnerStranded.cfg`, `MCLocalCopyReplaced.cfg`,
`MCTaskRunnerEarly.cfg`, `MCTaskRunnerBlind.cfg`, `MCSyncCycleHonest.cfg`,
`MCSyncCycleHandover.cfg`, `MCLocalCopyPhantom.cfg`, `MCReconciliationConflict.cfg`,
`MCReconciliationTorn.cfg` and `MCCloudCheckpointTorn.cfg` show disagreements of
section 5.

`CHECK_DEADLOCK FALSE` where the system rests when nobody asks for anything and
the bounds are used up. Every counter that could grow for ever (`faults`,
`asks`, `contents`, `requested`, `folderSyncs`, `calls`, `writes`, `runs`,
`ops`, `switches`, tokens and engines) is bounded by a constant in a guard; none
of the code's own limits is removed, only made smaller. Type invariants are
checked in `activity` and `tasks`; the `TypeOK` of `SyncCycle`, `AccountSwitch`
and `LocalCopy` is proved.

**Fairness.** `ActivityTracker`: the shutdown task is polled and a guard is
dropped when its operation ends (RAII); nobody need acquire one. `TaskRunner`:
threads are polled; the cycle is scheduled while a row has a deadline or the
network comes back (`ResumeVerifying`, `ResumeWaiting`, `ResumeBackoff`,
`RecoverStartup`); outages end. Intents, retries and commands are owed by
nobody, and so is a second attempt at a refused pickup: `Settles` exempts it. `SyncCycle`: every task is polled, and callers get the owner lock in
turn because tokio's mutex is FIFO (strong fairness of `Acquire`). Nothing is
assumed of the watcher or the user, and in `SyncCycle` of the network.
`LocalCopy`: whoever starts the application again runs its recovery to the end.
`CloudCheckpoint`: the refresh timer asks again and again, and calls and late
results come back. `AccountSwitch`: tasks are polled, requests and refreshes end
(an HTTP time-out at the latest, and the leader's guard if it is dropped), and
applications close their files; nobody need begin a command or send a request.

## 4. Proofs

TLC answers for the instances above; these theorems hold for every value of the
constants. Each proof module states its inductive invariant, shows that `Init`
implies it and every action preserves it, and derives the properties from it.
Every inductive invariant was first checked by TLC as an invariant of the run's
instance. A step is put in plain terms once (what it leaves in which thread, row
or field) and each part of an invariant is proved from those lemmas.

`ActivityTrackerProofs`: from `IsFiniteSet(Guard)` and `Path \subseteq Seq(Name)`,
all safety properties of `ActivityTracker` (`TypeCorrect`, `ExclusiveLeases`,
`ExactAccounting`, `QuiescentShutdown`, `WakeupNotLost`). The inductive
invariant adds `WaiterBehindClose`: `wait_idle` is only called behind `close()`.

`SyncCycleProofs`: any callers, workers, requests, faults and folder syncs, any
length of the failure history but 0; all safety properties of `SyncCycle`.
`Base` (types, `Sequences`, `Ownership`, `Roles`, `BeforeStart`) is inductive
alone, and over it:

- `FolderExclusion` with `Quiet` (after `quiesced` nobody is in a cycle):
  `Exclusion`, `QuietForever`.
- `Owing`: whoever is past the refresh has a trusted tree, whoever resumes
  transfers has recovered them, and what is owed (`INC` or `FULL`, `STARTUP`) is
  pending or in the hands of a cycle that can still spend it. It needs `Aside`,
  STARTUP is never pending while a cycle runs: were it put back during one, that
  cycle would plan before the recovery. `RefreshAlwaysOwed`, `RecoveredFirst`.
- `Riders`: a caller waits for the next cycle or rides with the present one, on
  the right side of its sequence number, and a failure that concerns it is in
  the history or under the high-water mark of what was dropped from it.
  `HonestSuccess`.
- `Scheduling` (the flag stands for one worker) and `Covered` (while something
  is pending and could run, some thread will take it or look once more).
  `NobodyStranded`; its exceptions are those of `stalled`.

`TaskRunnerProofs`: any rows, threads, files, contents, faults and intents, from
the named assumptions of `TaskRunner` and `RetryPolicy`: the limits are positive,
`MaxReplay < MaxVerify`, the `No...` values are none of the others and the cycle
is one of the threads. Two invariants, the second on top of the first:

1. `TypeInv /\ SingleIntent`, inductive with or without early commands; hence
   `TypeCorrect` and `OneIntent`. `TypeOK` alone is not inductive: the counters
   stay within `MaxAttempts` and `MaxVerify` because a row which may be verified
   again has room for one more verification (a `RestartRequired` row with a
   result can come back that way), and because `classify_transfer_error` charges
   an attempt only below the limit. `SingleIntent` follows from one fact per
   action: no step but an insertion makes a dead row live, and an insertion
   finds no live row.
2. `IInv`, which adds `Snapshots` and `Execution`; hence `SoleUploader`. `Snapshots` is what
   compare-and-set is worth: a row still at the revision a thread loaded is the
   row the thread saw, since revisions only grow. `Execution`: a thread
   past the gate owns the `Running` row and is the only one, as long as no
   recovery came while one was (`~overtaken`). That every step is
   one of a single thread that moves rows forward and touches no `Running` row
   but its own (`StepOf`) is shown action by action, and that such a step keeps
   both (`StepOfKeeps`) once.

The rest of what `TaskRunner` promises is proved over `IInv`, of every behaviour,
early commands included. What a late recovery breaks (section 5, number 5)
is exempted in the properties themselves: `SoleUploader`, `SingleCopy` and
`BoundedUploads` speak of the states before it (`~overtaken`), and in `Refinement`
a step is one of the promise until it comes. `RowsOwned` and `NoFalseSuccess` hold
after it, too.

- `HeldRowsOwned`. `RowsOwned` is inductive over `IInv`: nobody but its thread
  can write a `Running` row unless recovery takes it for a leftover, and then it
  is no longer `Running`; every way out of the executing chain writes the row;
  and who makes a row `Pending` goes on to run it or is refused, which makes it
  `Stranded`, the property's exception. A step either takes care of what its
  thread had in hand (`CareStep`) or comes from a thread that had nothing.
- `SingleCopy`, from `Clear`: a thread is about to send a Create only where it
  found none of our files; none appears meanwhile since it is the only one past
  the gate.
- `SyncedIsTrue`, from `Numbered` and `Witnessed`: whatever a thread takes for its
  result is in the history of the cloud with that content. It assumes
  `SizesTell`, contents of one size are one content: the size is all
  `validate_remote_result` and a verification without hash compare, and without
  it the property is false.
- `BoundedUploads`, from `Budget`: a row that can run has paid for all its uploads
  (`Tight`), by attempts or rounds of verification, and one that has just been
  sent or is being verified owes one at most (`Loose`). Hence the bound
  `MaxAttempts + MaxReplay` whatever the order of errors, verifications and
  replays.
- `Refinement`: `Spec => KeepsPromise`. Every action is matched with a step of
  `UploadPromise` or leaves open intents, sender, copies, history and baseline
  alone; it needs `Clear`, `Numbered` and `Witnessed`, and so `SizesTell`.

`LocalCopyProofs`: any numbers of writes, runs and faults. `TypeCorrect` always;
`WholeOrNotAtAll`, `RowsTellTheTruth` and `NothingDestroyed` if `Gated` (the Linux
mount, where programs take leases; TLC finds all three violated otherwise).
`NothingDestroyed` is `NoContentLost` with its exception `AskedOver`: a download
may replace the content that was there when it was asked for.
`Inv` says for every phase of free-up, download and repair what is at the path,
among the hidden files and in the row (`FreeUpPhases`, `DownloadPhases`,
`RepairPhases`), that what waits is older than what is written next (`Clock`,
`Known`), which file bears the owner's mark (`Owned`), when a placeholder stands
for a hidden file or a cloud-only row (`Stubs`, `Hidden`), and that a partial
file of another version is noticed (`Fresh`).

`CloudCheckpointProofs`: `CaughtUp`, for any identities, log, page order and
faults. `Behind` follows one number: the position at which the tree was last
distrusted is within the log, and a candidate about to be committed stands
beyond it, since whatever distrusts the tree also takes the candidate from the
cycle.

`AccountSwitchProofs`: any callers, engines, tokens, commands and faults.
`TypeCorrect`, `OneEngineAtATime`, `FileFirst`. `Base`: types, tokens and engines
are issued in order, a command is at one of its steps. `Turns`: the engine being
replaced was taken from the slot by the command that waits for it, and no other
is alive or has a request. `Order`: the token in memory, and each one on its way
there, is on the disk or older than the one there.

`VirtualDriveProofs`: any requests, handles and names, and any bounds that hold the
first directory and file (`DriveAssumption`). `TypesHold`, `TableExact`,
`WritersHold`, `PendingStayFaithful`, `ReadersSeeContent`. None of the properties is
inductive: a writer's file stays under its inode because of what the opener knew
before it had the handle. `Inv` therefore says of every request what it holds
where it is (`Places`), and of an opener what it still knows (`Known`): its path is
the inode's while it holds the namespace or a lease, and afterwards, when it
waits for its exclusive lease with neither, wherever the object it checked is,
the inode leads there, or will as soon as the rename under way has told the
table (`Following`). `Leases` (an exclusive lease lies apart from all others)
and `Namespace` (who has it for writing has it alone) are what keeps the others
out. Over lemmas on paths and the table (`InsertKeeps`, `RemoveKeeps`,
`RenameKeeps`: what a rename carries, spares and kills) and on leases
(`RequestTakes`, `HandleTakes`, `TaskTakes`), each action shows what it does for its
own request and handle, and that it is `Calm` for the rest: a covered path keeps
its inode and its file, an exclusive one its object.

`ReconciliationProofs`: any tree of names, any identities, operations and faults.
`InvHolds`, `TreeHasOnePath`, `BaselinesAreTruthful`. A row gets its version when
the cloud answers and its content when the batch is settled, so that
`BaselineTruthful` depends on everything that can happen in between. `Inv` is
`OnePathInTree` with

- `Sound`: what every variable holds. An identity is a file's or a folder's for
  ever, and a path, a row, a task, an action or a result that carries it is of
  that kind; a result carries the version it was given for.
- `Disjoint`: the paths of a cycle's structural actions and settled conflicts are
  leased, and no command's lease overlaps with one.
- `Waiting` and `Single`: of what is planned, under way and settled at one path
  there is one. It is why a conflict's content is not planned over again.
- `Resolved`: what a conflict left at its path is still there, or is a
  placeholder, or was filled by the user's own download, until it is settled.

The plan and its filters are shown to hand on only actions that fit (`Sane`), the
repair of baselines only rows that do; what a fold over results or rows returns
is obtained from a chain of its steps (`FoldExists`, `FoldInduct`), so that an
invariant of one step is one of the fold. Then every action is shown to keep
`Core`, the user's and the others' as steps that leave a leased path alone.

Model-checked only:

- liveness, out of the prover's reach: `ShutdownCompletes`, `Settles`,
  `CallsReturn`, `GivenBack`, `Converges`, `SwitchEnds`;
- `NothingPassedOver` of `CloudCheckpoint`: what is at a path is a recursive
  function of the parents of what is there, and that the log replayed on an old
  listing gives the new one is an induction over both. Beyond the run, 4 operations were checked
  once without the full refresh, from a tree that has caught up (15.6 million
  states);
- `EditsKept` and `CloudDeletesAreUsers` of `Reconciliation`: they speak of the
  contents of the whole system, so an inductive invariant has to say of each of
  the planner's decisions where the other copy of every edit is at that moment.
  Random behaviours of an instance with two folders and two files were also
  simulated, which is how number 17 of section 5 was met.

## 5. Disagreements found

With a run:

1. *Deadlock of the mount* (`drive_frozen`, `linux.rs:847`). An opener that has
   downloaded its placeholder waits for the namespace lock with its shared lease;
   an unlink holds the namespace and waits for that lease.
2. *Sign-out undone* (`session_signed_out`, `token_refresher.rs:298`). A refresh
   led or awaited by a request of the window ends after the sign-out and stores
   its token.

Stated in the modules and found violated by TLC; the file names the instance.

3. *A row nobody runs* (`MCTaskRunnerStranded.cfg`, `PendingRuns`,
   `execution.rs:105`). `run_expected` begins its activity after the row was made
   `Pending`. When another operation has the path the refusal is only logged
   (`retry.rs:62`, `cycle.rs:453`), and no `resume_*` function, new intent, cancel
   or retry takes a `Pending` row before the next start. `conflict_actions.rs:15`
   says the task is run at once, `docs/release-notes/v1.1.11.md:6` that every record
   that is stuck has a way out.
4. *Edit under a download* (`MCLocalCopyReplaced.cfg`, `NoEditReplaced`,
   `transfer_operations.rs:784`). The snapshot of the download's target is taken
   when it is enqueued, not when it was planned, as `preflight.rs:154` says; a
   content written before that is replaced although it was never uploaded.
   `NoEditOverwritten` of `Reconciliation` is the same over whole cycles.
5. *Late start-up recovery* (`MCTaskRunnerEarly.cfg`, `OneCopy`, `recovery.rs:496`). A
   `STARTUP` request that was put back lets commands in before
   `recover_startup`, which then takes a row this process is executing for a
   leftover; the verification finds nothing yet, and a second file is created.
   The other properties name it as their exception (`overtaken`).
6. *Update without precondition* (`MCTaskRunnerBlind.cfg`,
   `transfer_operations.rs:357`). The checked version and the overwritten one can
   differ; `transfer_operations.rs:244` says neither overwrites blindly.
7. *Ok for a request put back* (`MCSyncCycleHonest.cfg`, `cycle.rs:415`). A cycle
   that goes offline after the drain's gates answers Ok for a request that is
   pending again; `cycle.rs:156` says it gets an error.
8. *One counter for two limits* (`GivesUpAfterReplays` of `TaskRunner`,
   `recovery.rs:247`). Inconclusive verifications use up the replay rounds.
9. *Conflict won here, answer lost* (`MCReconciliationConflict.cfg`,
   `ConflictKeepsBoth`, `actions.rs:954`). The copy of the cloud's version goes
   when the upload returns an error, also when it was committed.
10. *Renames that delete* (`MCReconciliationTorn.cfg`, `RenamesAreNotDeletes`). A
   file renamed to a name that is taken in the cloud, or while the scan passes
   by, is deleted in the cloud.
11. *Folder moved past the listing* (`MCCloudCheckpointTorn.cfg`,
   `TrustedIsTrue`, `cloud_tree.rs:271`). It is never listed itself, so the
   trusted tree lacks what is in it. Likewise: an item met twice and then deleted
   survives once; deleting a folder here drops what others had moved out of it
   (`results.rs:440`); a late insert or rekey puts an older entry over a newer
   one (`retry.rs:58`). The next full refresh heals all of these.
12. *Placeholder without its mark* (`MCLocalCopyPhantom.cfg`, `NoPhantom`,
    `manager.rs:312`). A crash between the two leaves an empty file that is
    uploaded.
13. *Made-up baselines* (`NoFabricatedBaseline`, `path_recovery.rs:456`,
    `results.rs:388`, `reconciliation.rs:233`). A move writes the cloud's new
    version into the row without its content; `path_recovery.rs:5` says it does
    not.
14. *Two accounts in one database* (`OneAccount`; `MCAccountSwitchSignedOut.cfg`
    with that invariant and `MaxFaults = 2`, `commands/auth.rs:57`). A restore
    that fails for the network shows the page to sign in while the engine works
    on; a sign-in changes the token before it stops that engine. A crash between
    the two, or a `config_save` that writes after the reset, leaves a directory
    configured for the next account. `docs/概要设计文档.md:766` promises a clean
    switch.
15. *A token refreshed twice* (`RefreshOnce`, same instance, `service.rs:112`). The
    restore puts the token it read before into memory over a newer one.
16. *Request left pending by `start()`* (`MCSyncCycleHandover.cfg`, `HandedOver`,
    `lifecycle.rs:313`). A worker that finds its bits deferred by a folder sync
    clears its flag without ringing again; if the folder sync begins and ends in
    the moment in which `start()` has its answer and has not yet set `started`,
    nobody rings, since `start()` only does so for a deferred STARTUP. The next
    request serves it. `cycle.rs:121` says a new sequence is handed over once.
17. *Upload over a moved placeholder's cloud content* (`NoEditOverwritten`,
    `transfer_operations.rs:784`). A placeholder is moved away and another file put
    at its name: the row still pairs that path with the cloud's file, and the
    update sends the new file as its content.
18. *Download under a settlement* (`cyc.filled`, `hydration.rs:176`). Opening a
    placeholder takes a shared lease, as a cycle's conflict does. What the
    download brings between the conflict and the settlement is taken for the
    content the conflict's version had.
19. *Copies with attributes.* Two rows may come to have one identity with both
    files bearing its attribute: three operations on two folders do it. Path
    recovery and the recognition of renames then leave both alone.

Met while modelling and named as exceptions or choices of the models: deletions
by a path that has another identity by then (`planner.rs:105`, `:373`,
`local_delete.rs:64`); two rows of one identity isolated for ever
(`path_recovery.rs:225`); twins the planner and the healing each leave to the
other (`planner.rs:212`, `reconciliation.rs:215`); a file with a cloud identity
and no row adopted as synced (`reconciliation.rs:266`); a settlement that reads
the metadata of a placeholder again (`results.rs:270`); a directory whose mtime
blocks its deletion (`local_delete.rs:32`); a move by command that takes along
whatever the tree has at the old path (`cache.rs:233`); an overwrite that renames
the files of a name one by one (`conflict_actions.rs:33`); any refusal by the
token endpoint at start-up, a 5xx included, signing out (`service.rs:84`);
`tray_set_visible` loading and saving the settings without `CONFIG_SAVE_LOCK`.

## 6. Not modelled, and what is next

Not modelled: `StatusAggregator` (computing, numbering and sending a status is one
critical section); the probe of `net_guard.rs` beyond its level and its edge;
resumable upload sessions (one request here); the watcher's debouncing;
migrations and the encoding of settings; the desktop and the front end. A request
that the server commits after the client verified it as not committed
(`recovery.rs:243`) would need the server's own time limits.

Next: `EditsKept`, with one lemma for each decision of `SyncPlan`; then modules for `StatusRevisions` and `UploadSession`.
