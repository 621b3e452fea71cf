------------------------------ MODULE MCWorker ------------------------------
(***************************************************************************)
(* Instances of Worker for TLC.                                            *)
(***************************************************************************)
EXTENDS Worker, TLC

CONSTANTS m1, m2, m3

Symmetry == Permutations(Messages)
=============================================================================
