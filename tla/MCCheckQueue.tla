--------------------------- MODULE MCCheckQueue ---------------------------
(***************************************************************************)
(* Instances of CheckQueue for TLC.                                        *)
(***************************************************************************)
EXTENDS CheckQueue, TLC

CONSTANTS w1, w2, w3

PoolSymmetry == Permutations(Workers)
============================================================================
