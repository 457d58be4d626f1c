---------------------------- MODULE MCDeployment ----------------------------
(***************************************************************************)
(* Deployment for TLC: generator and fraud start together, and             *)
(* subscriber-service is rolled out once, with a cell more in its catalog. *)
(***************************************************************************)
EXTENDS Deployment

MCCatalog == [v \in Versions |-> IF v = 0 THEN {"+90"} ELSE {"+90", "ist-1"}]

=============================================================================
