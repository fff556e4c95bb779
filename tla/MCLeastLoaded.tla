---------------------------- MODULE MCLeastLoaded ----------------------------
(***************************************************************************)
(* LeastLoaded for TLC, with interchangeable requests.                     *)
(***************************************************************************)
EXTENDS LeastLoaded, TLC

Symmetry == Permutations(Requests)
=============================================================================
