-------------------------- MODULE UploadRefinement ---------------------------
(***************************************************************************)
(* TaskRunner implements UploadPromise.  An intent is open while its row   *)
(* can still act (Failed included: it can be retried), a request is being  *)
(* sent from the moment the remote checks are over until its answer.       *)
(***************************************************************************)
EXTENDS TaskRunner

PhaseOf(r) ==
    CASE r.state = "absent" -> "none"
      [] r.state = Completed -> "done"
      [] r.state \in {Canceled, "cleared"} -> "gone"
      [] OTHER -> "open"

IntentOf(r) ==
    [phase |-> PhaseOf(r),
     ver |-> IF PhaseOf(r) \in {"open", "done"} THEN r.ver ELSE 0]

Promise == INSTANCE UploadPromise WITH
    intent  <- [t \in Task |-> IntentOf(rows[t])],
    sending <- {threads[h].id : h \in Uploading},
    copies  <- {f \in Here : cloud[f].mine},
    kept    <- history,
    synced  <- baseline

(* The rows, threads, verifications, replays, crashes and commands of a     *)
(* path keep the promise of UploadPromise: every transaction and every      *)
(* await of task_runner/ is one of its steps or changes nothing it speaks   *)
(* of, until startup recovery takes a running upload for interrupted.       *)
KeepsPromise == Promise!Init /\ [][Promise!Next \/ overtaken']_(Promise!vars)
=============================================================================
