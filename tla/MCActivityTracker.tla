-------------------------- MODULE MCActivityTracker --------------------------
(* Three guards over a directory, a file in it and an unrelated file. *)
EXTENDS ActivityTracker

CONSTANTS g1, g2, g3

MCGuard == {g1, g2, g3}
MCName == {"projects", "report", "photos"}
MCPath == {<<"projects">>, <<"projects", "report">>, <<"photos">>}
=============================================================================
