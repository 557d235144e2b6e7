---------------------------- MODULE MCTaskEvents ----------------------------
(* The run gives the constants of TaskEvents small values; it checks a liveness *)
(* property as well and uses no symmetry.                                       *)
EXTENDS TaskEvents
=============================================================================
