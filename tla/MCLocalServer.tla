---------------------------- MODULE MCLocalServer ----------------------------
(* A small instance of LocalServer for TLC.  Liveness rules out symmetry. *)
EXTENDS LocalServer

CONSTANTS c1, c2, c3

MCConns == {c1, c2, c3}
===============================================================================
