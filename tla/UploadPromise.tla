---------------------------- MODULE UploadPromise ----------------------------
(***************************************************************************)
(* What the upload tasks of one path promise to the rest of the program,   *)
(* without threads, rows' states, retries, verifications or crashes:       *)
(*                                                                         *)
(*   - one intent at a time is open, and an intent that ended stays ended; *)
(*   - requests are sent for the open intent only, one at a time;          *)
(*   - a request makes a file only while no other one made here is left;   *)
(*   - what is recorded as synced changes together with the end of the     *)
(*     intent, to something the cloud has really held, with the content    *)
(*     this intent was to upload.                                          *)
(*                                                                         *)
(* UploadRefinement shows TaskRunner to implement it.                      *)
(***************************************************************************)
EXTENDS Integers

CONSTANTS
    Task,       \* the ids of the intents
    FileId,     \* the ids of the files of the name
    Content,    \* what an intent may be to upload
    NoResult    \* nothing is recorded as synced

VARIABLES
    intent,     \* [phase, ver] of every intent
    sending,    \* the intent whose request the cloud may still commit
    copies,     \* the files of this name made here that are still there
    kept,       \* every [fid, ver, ed] a file of the name ever had
    synced      \* the one recorded as synced

vars == <<intent, sending, copies, kept, synced>>
cloudSide == <<sending, copies, kept>>

Phase(t) == intent[t].phase
Opened == {t \in Task : Phase(t) = "open"}

Init ==
    /\ intent = [t \in Task |-> [phase |-> "none", ver |-> 0]]
    /\ sending = {}
    /\ copies = {}
    /\ kept = {}
    /\ synced = NoResult

(* A new intent, or other content for the one that is open: an ended one    *)
(* never comes back.                                                        *)
Ask(t) ==
    /\ \/ Phase(t) = "none" /\ Opened = {}
       \/ Phase(t) = "open" /\ t \notin sending
    /\ \E v \in Content :
          intent' = [intent EXCEPT ![t] = [phase |-> "open", ver |-> v]]
    /\ UNCHANGED <<cloudSide, synced>>

Send(t) ==
    /\ Phase(t) = "open"
    /\ sending = {}
    /\ sending' = {t}
    /\ UNCHANGED <<intent, copies, kept, synced>>

(* The cloud commits what is being sent as a new file, or anybody writes    *)
(* one that there is or makes one of his own.                               *)
Create ==
    /\ sending # {}
    /\ copies = {}
    /\ \E f \in FileId : copies' = {f}
    /\ kept \subseteq kept'
    /\ UNCHANGED <<intent, sending, synced>>

Write ==
    /\ kept \subseteq kept'
    /\ UNCHANGED <<intent, sending, copies, synced>>

Remove ==
    /\ copies # {}
    /\ copies' = {}
    /\ UNCHANGED <<intent, sending, kept, synced>>

(* The request ended, with its answer, without one or with the process. *)
Return ==
    /\ sending # {}
    /\ sending' = {}
    /\ UNCHANGED <<intent, copies, kept, synced>>

Succeed(t) ==
    /\ Phase(t) = "open"
    /\ sending = {}
    /\ intent' = [intent EXCEPT ![t].phase = "done"]
    /\ synced' \in kept
    /\ synced'.ver = intent[t].ver
    /\ UNCHANGED cloudSide

(* Canceled by the user or an orphan, or the history is cleared. *)
Drop ==
    /\ \E S \in SUBSET {t \in Task \ sending : Phase(t) # "none"} :
          intent' = [t \in Task |->
                        IF t \in S THEN [phase |-> "gone", ver |-> 0] ELSE intent[t]]
    /\ UNCHANGED <<cloudSide, synced>>

Next ==
    \/ Write \/ Create \/ Remove \/ Return
    \/ \E t \in Task : Ask(t) \/ Send(t) \/ Succeed(t)
    \/ Drop

Spec == Init /\ [][Next]_vars
=============================================================================
