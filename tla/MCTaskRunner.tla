----------------------------- MODULE MCTaskRunner -----------------------------
(* One path, the cycle and one thread of user commands.  Contents 1, 2, ... *)
(* have different sizes.                                                    *)
EXTENDS UploadRefinement, TLC

CONSTANTS t1, t2, f1, f2, f3, f4, cycle, user

MCTask == {t1, t2}
OneTask == {t1}
MCFileId == {f1, f2, f3, f4}
MCThread == {cycle, user}
SizesDiffer == [v \in 1..MaxContents |-> v]
Alike == Permutations(MCTask)
=============================================================================
