---------------------------- MODULE MCRecursiveLs ----------------------------
(* Small instances of RecursiveLs for TLC: every graph of two directories. *)
EXTENDS RecursiveLs

CONSTANTS home, data

MCDirs == {home, data}
===============================================================================
