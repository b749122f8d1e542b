---------------------------- MODULE MCAuthRemedies ----------------------------
(* Small instances of AuthRemedies for TLC: one endpoint with one collection,  *)
(* and one or two flows.                                                       *)
EXTENDS AuthRemedies

CONSTANTS gcs1, coll1, flow1, flow2

MCEndpoints == {gcs1}
MCCollections == {coll1}
MCOwner == [collection \in MCCollections |-> gcs1]
MCRevocable == {flow1, "auth"}
===============================================================================
