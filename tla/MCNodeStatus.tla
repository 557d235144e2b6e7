---------------------------- MODULE MCNodeStatus ----------------------------
(* Two directories: a, whose node may run on two hosts, and b. *)
EXTENDS NodeStatus, TLC

CONSTANTS a1, a2, b1, a, b

MCNodes == {a1, a2, b1}
MCDirs == {a, b}
MCShort == (a1 :> a) @@ (a2 :> a) @@ (b1 :> b)
=============================================================================
