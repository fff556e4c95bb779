----------------------------- MODULE MCWindowLog -----------------------------
(***************************************************************************)
(* CircuitBreaker with its log for TLC.  The callers are interchangeable   *)
(* model values.                                                           *)
(***************************************************************************)
EXTENDS WindowLog, TLC

Symmetry == Permutations(Callers)
=============================================================================
