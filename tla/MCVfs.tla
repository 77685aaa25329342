------------------------------- MODULE MCVfs -------------------------------
(* Two names, an array of two superblocks, mounts nested two deep; one     *)
(* inode with both functions, one that can be opened but not closed, and   *)
(* two callers.                                                            *)
EXTENDS Vfs, TLC

CONSTANTS n1, n2

MCOps == n1 :> {"open", "close"} @@ n2 :> {"open"}
=============================================================================
