----------------------------- MODULE MCLocalCopy -----------------------------
(* The instance of LocalCopy that TLC checks: three free-ups or downloads, *)
(* three writes and three faults.                                            *)
EXTENDS LocalCopy
=============================================================================
