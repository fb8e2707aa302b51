---------------------------- MODULE AccountSwitch ----------------------------
(***************************************************************************)
(* Signing in and out while an engine works: the commands that change the  *)
(* account or the settings (src/src/commands/auth.rs, config.rs,           *)
(* platform.rs), the start of the process (src/src/lib.rs) and of its      *)
(* window, over the tokens of TokenRefresh and the engines of              *)
(* EngineOwnership.                                                        *)
(*                                                                         *)
(* A command is the sequence of its steps; between any two of them others  *)
(* run.  What an engine does is a request whose answer it writes into the  *)
(* database: rows is the set of sign-ins whose files the database speaks   *)
(* of.                                                                     *)
(***************************************************************************)
EXTENDS TokenRefresh, EngineOwnership, Sequences

CONSTANTS
    Account,        \* the window's sign-in and sign-out
    Settings,       \* config_save, one at a time (CONFIG_SAVE_LOCK)
    MaxSwitches,    \* bound: commands
    MaxFaults       \* bound: failing calls, expiries, ends of the process

(* Callers are the engines and the window. *)
Window == 0
ASSUME CallerAssumption == Caller = {Window} \cup Engine
ASSUME CommandAssumption == Account # Settings /\ Owner = {Account, Settings}
ASSUME SwitchBoundAssumption == {MaxSwitches, MaxFaults} \subseteq Nat

VARIABLES
    rows,       \* sync_items and transfer_queue: of whose files
    configured, \* config.json: mount_configured
    window,     \* what the window shows, and how far auth_restore is
    loaded,     \* the token auth_restore has read
    cmd,        \* the commands that run
    signedOut,  \* ghost: signed out, and not signed in since
    switches, faults

switchVars == <<rows, configured, window, loaded, cmd, signedOut, switches, faults>>
vars == <<tokenVars, ownerVars, switchVars>>

(* From "take" to "drain" it is drop_runtime_async; "replace" ends it in    *)
(* replace_runtime_with_mount.                                              *)
Steps ==
    [login  |-> <<"authorize", "hold", "take", "shutdown", "unmount", "drain", "clear", "reset">>,
     logout |-> <<"take", "shutdown", "unmount", "drain", "clear", "reset", "forget", "drop">>,
     wipe   |-> <<"take", "shutdown", "unmount", "drain", "forget", "clear", "reset", "relaunch">>,
     mount  |-> <<"write", "install">>,
     params |-> <<"write", "take", "shutdown", "unmount", "replace">>,
     move   |-> <<"write", "take", "shutdown", "unmount", "drain", "relaunch">>]

Kinds == DOMAIN Steps
NoCommand == [kind |-> "none", step |-> 0, old |-> 0, new |-> 0]

Init ==
    /\ TokenInit
    /\ OwnerInit
    /\ rows = {}
    /\ configured = FALSE
    /\ window = "start"
    /\ loaded = 0
    /\ cmd = [k \in Owner |-> NoCommand]
    /\ signedOut = FALSE
    /\ switches = 0
    /\ faults = 0

Free(k) == cmd[k].kind = "none"
Doing(k, s) == ~Free(k) /\ Steps[cmd[k].kind][cmd[k].step] = s

After(k) == IF cmd[k].step = Len(Steps[cmd[k].kind]) THEN NoCommand
                                                     ELSE [cmd[k] EXCEPT !.step = @ + 1]
Advance(k) == cmd' = [cmd EXCEPT ![k] = After(k)]
AdvanceWith(k, f, v) ==
    cmd' = [cmd EXCEPT ![k] = [After(k) EXCEPT !.old = IF f = "old" THEN v ELSE @,
                                               !.new = IF f = "new" THEN v ELSE @]]
Abort(k) == cmd' = [cmd EXCEPT ![k] = NoCommand]

Fault == faults < MaxFaults /\ faults' = faults + 1

Begin(k, kind) ==
    /\ Free(k)
    /\ switches < MaxSwitches
    /\ switches' = switches + 1
    /\ cmd' = [cmd EXCEPT ![k] = [kind |-> kind, step |-> 1, old |-> 0, new |-> 0]]
    /\ UNCHANGED <<tokenVars, ownerVars, rows, configured, window, loaded,
                   signedOut, faults>>

-----------------------------------------------------------------------------
(* The window *)

SignIn == window = "out" /\ Begin(Account, "login")
SignOut == window = "in" /\ \E kind \in {"logout", "wipe"} : Begin(Account, kind)

(* config_save compares what it loads with what it is given.  A directory     *)
(* that is new on Linux changes the mount too, so it goes the way of a move.  *)
ConfigSave ==
    /\ window = "in"
    /\ \/ \E kind \in {"mount", "move"} : Begin(Settings, kind)
       \/ configured /\ Begin(Settings, "params")

(* auth_restore reads the file, *)
RestoreLoad ==
    /\ window = "start"
    /\ loaded' = disk
    /\ window' = IF disk = 0 THEN "out" ELSE "loaded"
    /\ UNCHANGED <<tokenVars, ownerVars, rows, configured, cmd, signedOut, switches, faults>>

(* remembers what it has read, *)
RestoreHold ==
    /\ window = "loaded"
    /\ HoldNew(loaded)
    /\ window' = "held"
    /\ UNCHANGED <<ownerVars, rows, configured, loaded, cmd, signedOut, switches, faults>>

(* and refreshes it when it is about to expire. *)
RestoreRefresh ==
    /\ window = "held"
    /\ \/ window' = "in" /\ UNCHANGED <<flight, call>>
       \/ Join(Window, 0) /\ window' = "restoring"
    /\ UNCHANGED <<mem, disk, issued, stale, replaced, ownerVars, rows, configured,
                   loaded, cmd, signedOut, switches, faults>>

(* A failure of the network leaves the token; any other one signs out.  The *)
(* window shows the page to sign in in both cases, and the engine works on. *)
RestoreEnds ==
    /\ window = "restoring"
    /\ \/ /\ call[Window].pc = "sent"
          /\ End(Window)
          /\ window' = "in"
          /\ UNCHANGED <<mem, disk>>
       \/ /\ Idle(Window)
          /\ window' = "out"
          /\ \/ UNCHANGED <<mem, disk>>
             \/ mem' = 0 /\ disk' = 0
          /\ UNCHANGED call
    /\ UNCHANGED <<issued, stale, flight, replaced, ownerVars, rows, configured,
                   loaded, cmd, signedOut, switches, faults>>

-----------------------------------------------------------------------------
(* The steps of a command *)

(* authorize fails in many ways, all before it has changed anything. *)
Authorize(k) ==
    /\ Doing(k, "authorize")
    /\ \/ /\ KeepNew
          /\ signedOut' = FALSE
          /\ AdvanceWith(k, "new", NextToken)
       \/ Abort(k) /\ UNCHANGED <<tokenVars, signedOut>>
    /\ UNCHANGED <<ownerVars, rows, configured, window, loaded, switches, faults>>

Hold(k) ==
    /\ Doing(k, "hold")
    /\ HoldNew(cmd[k].new)
    /\ Advance(k)
    /\ UNCHANGED <<ownerVars, rows, configured, window, loaded, signedOut, switches, faults>>

Take(k) ==
    /\ Doing(k, "take")
    /\ TakeOut(k)
    /\ AdvanceWith(k, "old", slot)
    /\ UNCHANGED <<tokenVars, rows, configured, window, loaded, signedOut, switches, faults>>

StopAdmission(k) ==
    /\ Doing(k, "shutdown")
    /\ ShutDown(cmd[k].old)
    /\ Advance(k)
    /\ UNCHANGED <<tokenVars, rows, configured, window, loaded, signedOut, switches, faults>>

StopFuse(k) ==
    /\ Doing(k, "unmount")
    /\ Unmount
    /\ Advance(k)
    /\ UNCHANGED <<tokenVars, rows, configured, window, loaded, signedOut, switches, faults>>

Drained_Unwaited(e) == TRUE
(* SyncEngine::shutdown: the cycle's owner lock and every activity. *)
Drained(e) == e = 0 \/ (Idle(e) /\ e \notin leases)

Drain(k) ==
    /\ Doing(k, "drain")
    /\ Drained(cmd[k].old)
    /\ LetGo
    /\ Advance(k)
    /\ UNCHANGED <<tokenVars, slot, engine, rows, configured, window, loaded, signedOut,
                   switches, faults>>

(* ensure_engine_started_owned does nothing without a configured directory. *)
EnsureStarted ==
    \/ configured /\ Ensure
    \/ UNCHANGED <<slot, engine>>

(* replace_runtime_with_mount installs the new engine in the same           *)
(* replacement.                                                             *)
Replace(k) ==
    /\ Doing(k, "replace")
    /\ Drained(cmd[k].old)
    /\ EnsureStarted
    /\ LetGo
    /\ Advance(k)
    /\ UNCHANGED <<tokenVars, rows, configured, window, loaded, signedOut, switches, faults>>

Install(k) ==
    /\ Doing(k, "install")
    /\ \/ MayInstall /\ EnsureStarted
       \/ ~MayInstall /\ UNCHANGED <<slot, engine>>
    /\ Advance(k)
    /\ UNCHANGED <<tokenVars, replacing, gate, fuse, leases, rows, configured, window,
                   loaded, signedOut, switches, faults>>

Write(k) ==
    /\ Doing(k, "write")
    /\ configured' \in IF cmd[k].kind = "move" THEN BOOLEAN ELSE {TRUE}
    /\ Advance(k)
    /\ UNCHANGED <<tokenVars, ownerVars, rows, window, loaded, signedOut, switches, faults>>

(* clear_account_caches and reset_account_config, whose errors are ignored. *)
ClearCaches(k) ==
    /\ Doing(k, "clear")
    /\ \/ rows' = {} /\ UNCHANGED faults
       \/ Fault /\ UNCHANGED rows
    /\ Advance(k)
    /\ UNCHANGED <<tokenVars, ownerVars, configured, window, loaded, signedOut, switches>>

ResetConfig(k) ==
    /\ Doing(k, "reset")
    /\ \/ configured' = FALSE /\ UNCHANGED faults
       \/ Fault /\ UNCHANGED configured
    /\ Advance(k)
    /\ window' = IF cmd[k].kind = "login" THEN "in" ELSE window
    /\ UNCHANGED <<tokenVars, ownerVars, rows, loaded, signedOut, switches>>

(* AuthService::logout; app_clear_cache ignores that the file stays. *)
Forget(k) ==
    /\ Doing(k, "forget")
    /\ \/ ClearDisk /\ Advance(k) /\ UNCHANGED faults
       \/ /\ Fault
          /\ IF cmd[k].kind = "wipe" THEN Advance(k) ELSE Abort(k)
          /\ UNCHANGED tokenVars
    /\ UNCHANGED <<ownerVars, rows, configured, window, loaded, signedOut, switches>>

DropToken(k) ==
    /\ Doing(k, "drop")
    /\ ClearMemory
    /\ signedOut' = TRUE
    /\ window' = "out"
    /\ Advance(k)
    /\ UNCHANGED <<ownerVars, rows, configured, loaded, switches, faults>>

-----------------------------------------------------------------------------
(* The process ends and starts again: memory, engines and commands are      *)
(* gone.  setup sweeps up what is left of an account whose token is gone,   *)
(* and starts the engine of a configured directory.                         *)
Restarted ==
    LET swept == disk = 0 /\ configured
        here == configured /\ ~swept
    IN  /\ TokensAfterRestart
        /\ configured' = here
        /\ rows' = IF swept THEN {} ELSE rows
        /\ slot' = IF here /\ NextEngine \in Engine THEN NextEngine ELSE 0
        /\ engine' = [e \in Engine |->
              IF e = slot' THEN [st |-> "starting", down |-> FALSE]
              ELSE IF engine[e].st = "none" THEN engine[e]
              ELSE [st |-> "over", down |-> TRUE]]
        /\ replacing' = 0
        /\ gate' = NoOwner
        /\ fuse' = 0
        /\ leases' = {}
        /\ window' = "start"
        /\ loaded' = 0
        /\ cmd' = [k \in Owner |-> NoCommand]
        /\ UNCHANGED <<signedOut, switches>>

Relaunch(k) == Doing(k, "relaunch") /\ Restarted /\ UNCHANGED faults
Crash == Fault /\ Restarted

-----------------------------------------------------------------------------
(* Requests: every activity of an engine is one. *)

Request(c) ==
    /\ IF c = Window THEN window = "in" ELSE Alive(c)
    /\ Send(c)
    /\ UNCHANGED <<ownerVars, switchVars>>

(* What an engine has got for its request goes into the database. *)
Settle(c) ==
    /\ c = Window => window # "restoring"
    /\ Succeeds(c)
    /\ rows' = IF c = Window THEN rows ELSE rows \cup {issued[call[c].tok]}
    /\ UNCHANGED <<ownerVars, configured, window, loaded, cmd, signedOut, switches, faults>>

Replay(c) ==
    /\ c = Window => window # "restoring"
    /\ Refused(c)
    /\ UNCHANGED <<ownerVars, switchVars>>

TokenAnswered == Answered /\ UNCHANGED <<ownerVars, switchVars>>
TokenSaved == Save /\ UNCHANGED <<ownerVars, switchVars>>
TokenPublished == Publish /\ UNCHANGED <<ownerVars, switchVars>>

(* Out of tokens every refresh fails. *)
TokenFails ==
    /\ RefreshFails
    /\ \/ Fault
       \/ NextToken \notin Token /\ UNCHANGED faults
    /\ UNCHANGED <<ownerVars, rows, configured, window, loaded, cmd, signedOut, switches>>

TokenExpires ==
    /\ Expire
    /\ Fault
    /\ UNCHANGED <<ownerVars, rows, configured, window, loaded, cmd, signedOut, switches>>

-----------------------------------------------------------------------------
EngineStarts(e) == Started(e) /\ UNCHANGED <<tokenVars, switchVars>>
FuseStarts(e) == InstallFuse(e) /\ UNCHANGED <<tokenVars, switchVars>>
FileOpened(e) == Open(e) /\ UNCHANGED <<tokenVars, switchVars>>
FileClosed(e) == Close(e) /\ UNCHANGED <<tokenVars, switchVars>>

CommandStep(k) ==
    \/ Authorize(k)
    \/ Hold(k)
    \/ Take(k)
    \/ StopAdmission(k)
    \/ StopFuse(k)
    \/ Drain(k)
    \/ Replace(k)
    \/ Install(k)
    \/ Write(k)
    \/ ClearCaches(k)
    \/ ResetConfig(k)
    \/ Forget(k)
    \/ DropToken(k)
    \/ Relaunch(k)

WindowStep ==
    \/ RestoreLoad
    \/ RestoreHold
    \/ RestoreRefresh
    \/ RestoreEnds

RefreshStep ==
    \/ TokenAnswered
    \/ TokenSaved
    \/ TokenPublished
    \/ TokenFails

CallStep(c) ==
    \/ Settle(c)
    \/ Replay(c)

Next ==
    \/ SignIn
    \/ SignOut
    \/ ConfigSave
    \/ WindowStep
    \/ \E k \in Owner : CommandStep(k)
    \/ \E c \in Caller : Request(c)
    \/ \E c \in Caller : CallStep(c)
    \/ RefreshStep
    \/ TokenExpires
    \/ \E e \in Engine : EngineStarts(e)
    \/ \E e \in Engine : FuseStarts(e)
    \/ \E e \in Engine : FileOpened(e)
    \/ \E e \in Engine : FileClosed(e)
    \/ Crash

Spec == Init /\ [][Next]_vars

(* Tasks run, the servers answer or the request times out, and applications *)
(* close their files; nobody has to begin a command or send a request.      *)
Fairness ==
    /\ \A k \in Owner : WF_vars(CommandStep(k))
    /\ WF_vars(WindowStep)
    /\ WF_vars(RefreshStep)
    /\ \A c \in Caller : WF_vars(CallStep(c))
    /\ \A e \in Engine : WF_vars(FileClosed(e))

FairSpec == Spec /\ Fairness

-----------------------------------------------------------------------------
TypeOK ==
    /\ TokenTypeOK
    /\ OwnerTypeOK
    /\ rows \subseteq 1..MaxTokens
    /\ configured \in BOOLEAN
    /\ window \in {"start", "loaded", "held", "restoring", "in", "out"}
    /\ loaded \in 0..MaxTokens
    /\ cmd \in [Owner -> [kind : Kinds \cup {"none"}, step : 0..8,
                          old : 0..MaxEngines, new : 0..MaxTokens]]
    /\ signedOut \in BOOLEAN
    /\ switches \in 0..MaxSwitches
    /\ faults \in 0..MaxFaults

(* Two engines never work side by side on one directory and one database:   *)
(* one that has a request under way, a FUSE session or a file open in it is *)
(* the engine of the slot, or the one that the replacement under way has    *)
(* taken out and waits for (runtime.rs:598-632, lifecycle.rs:201-217: a     *)
(* late start, a mount installed during a replacement, a request that       *)
(* outlives its engine).                                                    *)
Acts(e) == ~Idle(e) \/ fuse = e \/ e \in leases

EnginesTakeTurns ==
    \A e \in Engine : Acts(e) =>
        IF gate = NoOwner THEN e = slot ELSE e = cmd[gate].old

(* The file is never behind the memory within one sign-in: a process that   *)
(* ends finds the token the server gave last, however refreshes, sign-ins   *)
(* and the start of the window interleave (token_refresher.rs:214 and the   *)
(* order of its last lines).                                                *)
DiskNotBehind ==
    mem # 0 /\ disk # 0 /\ issued[mem] = issued[disk] => disk >= mem

(* Every command that changes the account or the settings ends: it waits    *)
(* for the replacement before it, for the refresh its engine's requests     *)
(* wait for, and for the files applications have open, and none of these    *)
(* waits for it (lifecycle.rs:201-217, token_refresher.rs:105-137).         *)
SwitchEnds == \A k \in Owner : ~Free(k) ~> Free(k)

-----------------------------------------------------------------------------
(* What the code does not keep. *)

(* Who has signed out stays signed out: no token is left or comes back.  A  *)
(* refresh that began before stores its token after (token_refresher.rs:298 *)
(* does not look whether it is still wanted).                               *)
SignedOutStaysOut == signedOut => mem = 0 /\ disk = 0

(* The database speaks of one account's files.  auth_login changes the      *)
(* token before it stops the engine of the account before                   *)
(* (commands/auth.rs:57-61), which goes on with the new token.              *)
OneAccount == Cardinality(rows) <= 1

(* A token is refreshed at most once.  auth_restore puts what it has read   *)
(* before into memory over what a refresh of the engine has put there       *)
(* (service.rs:110-112).                                                    *)
RefreshOnce == flight.pc = "asked" => flight.from \notin replaced
=============================================================================
