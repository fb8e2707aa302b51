--------------------------- MODULE MCVirtualDrive ---------------------------
(* The instance of VirtualDrive that TLC checks: two requests at a time and *)
(* two handles over a tree two levels deep, with the cloud file in a        *)
(* directory that can itself be renamed.                                    *)
EXTENDS VirtualDrive, TLC
CONSTANTS n1, n2, r1, r2, h1, h2
MCName == {n1, n2}
MCRequest == {r1, r2}
MCHandle == {h1, h2}
MCP0 == <<n1, n1>>
Alike == Permutations(MCRequest) \cup Permutations(MCHandle)
=============================================================================
