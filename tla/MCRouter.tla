------------------------------- MODULE MCRouter -------------------------------
(***************************************************************************)
(* Router for TLC.  The requests are interchangeable model values; the     *)
(* backends are numbered in the order of the pool.                         *)
(***************************************************************************)
EXTENDS Router, TLC

Symmetry == Permutations(Requests)
=============================================================================
