---------------------------- MODULE TransferState ----------------------------
(***************************************************************************)
(* The life cycle of one row of transfer_queue                             *)
(* (src/src/sync/transfer_state.rs): its states, the transitions           *)
(* transition_transfer lets through, and the two notions of a state that   *)
(* keeps other work off the row's path.                                    *)
(***************************************************************************)

Pending == "Pending"
Running == "Running"
WaitingForNetwork == "WaitingForNetwork"
BackingOff == "BackingOff"
VerifyingRemote == "VerifyingRemote"
RestartRequired == "RestartRequired"
Completed == "Completed"
Failed == "Failed"
Canceled == "Canceled"

State == {Pending, Running, WaitingForNetwork, BackingOff, VerifyingRemote,
          RestartRequired, Completed, Failed, Canceled}

Successors(s) ==
    CASE s = Pending ->
            {Running, WaitingForNetwork, RestartRequired, Failed, Canceled}
      [] s = Running ->
            {WaitingForNetwork, BackingOff, VerifyingRemote, RestartRequired,
             Completed, Failed, Canceled}
      [] s \in {WaitingForNetwork, BackingOff} ->
            {Running, RestartRequired, Failed, Canceled}
      [] s = VerifyingRemote ->
            {Running, WaitingForNetwork, BackingOff, RestartRequired,
             Completed, Failed, Canceled}
      [] s = RestartRequired -> {Pending, VerifyingRemote, Failed, Canceled}
      [] s = Failed -> {Pending, RestartRequired, Canceled}
      [] OTHER -> {}

CanTransition(from, to) == to \in Successors(from)

(* TransferState::occupies_path without its RestartRequired case, and       *)
(* is_path_blocking_state: work on the path is in hand.                     *)
Blocking == {Pending, Running, WaitingForNetwork, BackingOff, VerifyingRemote}

(* run_expected starts a row from these states only. *)
Runnable == {Pending, WaitingForNetwork, BackingOff}
=============================================================================
