------------------------------ MODULE MCTaskWait ------------------------------
(* Small instances of TaskWait for TLC: intervals that divide the timeouts,  *)
(* that do not, and that are longer.                                         *)
EXTENDS TaskWait
===============================================================================
