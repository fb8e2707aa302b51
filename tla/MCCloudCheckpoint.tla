------------------------- MODULE MCCloudCheckpoint -------------------------
(* The instance of CloudCheckpoint that TLC checks: a folder in a folder,   *)
(* a file in the inner one, and a file of the same name that is not there   *)
(* yet.                                                                     *)
EXTENDS CloudCheckpoint
CONSTANTS outer, inner, file, later
MCId == {outer, inner, file, later}
MCFolder == {outer, inner}
MCNameOf == [i \in MCId |-> CASE i = outer -> "a" [] i = inner -> "b" [] OTHER -> "x"]
MCStart == [i \in MCId |-> CASE i = outer -> [parent |-> Root, ver |-> 1]
                             [] i = inner -> [parent |-> outer, ver |-> 1]
                             [] i = file -> [parent |-> inner, ver |-> 1]
                             [] OTHER -> [parent |-> Gone, ver |-> 0]]
=============================================================================
