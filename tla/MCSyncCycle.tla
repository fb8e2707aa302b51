---------------------------- MODULE MCSyncCycle ----------------------------
(* The instance of SyncCycle that TLC checks: start(), one command that     *)
(* awaits its cycle, and two background workers, since a worker that has    *)
(* cleared its flag overlaps the one spawned next.                          *)
EXTENDS SyncCycle
CONSTANTS boot, user, w1, w2
MCCaller == {boot, user}
MCWorker == {w1, w2}
=============================================================================
