--------------------------- MODULE MCReconciliation ---------------------------
(* The instance of Reconciliation that TLC checks: a folder, a file in it and *)
(* a place beside it to move the file to.                                    *)
EXTENDS Reconciliation
CONSTANTS i1, i2, i3
MCName == {"d", "x"}
MCPath == {<<"d">>, <<"d", "x">>, <<"x">>}
MCDirs == {<<"d">>}
MCId == {i1, i2, i3}
=============================================================================
