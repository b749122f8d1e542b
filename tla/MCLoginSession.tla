---------------------------- MODULE MCLoginSession ----------------------------
(* Small instances of LoginSession for TLC. *)
EXTENDS LoginSession, TLC

CONSTANTS auth, timers

MCMinContract == [rs \in ResourceServers |-> IF rs = auth THEN 0 ELSE 2]
MCContracts == 0..3
Symmetry == Permutations(Identities) \cup Permutations(Procs)
===============================================================================
