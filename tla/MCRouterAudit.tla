---------------------------- MODULE MCRouterAudit ----------------------------
(***************************************************************************)
(* RouterAudit for TLC.                                                    *)
(***************************************************************************)
EXTENDS RouterAudit, TLC

Symmetry == Permutations(Requests)
=============================================================================
