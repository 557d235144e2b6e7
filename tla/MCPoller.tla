------------------------------ MODULE MCPoller ------------------------------
(* Servers, identities and clients are interchangeable: no definition orders  *)
(* or chooses them.  Only the runs of safety properties use the symmetry.     *)
EXTENDS Poller, TLC

Symmetry == Permutations(Servers) \cup Permutations(Idents) \cup Permutations(Clients)
=============================================================================
