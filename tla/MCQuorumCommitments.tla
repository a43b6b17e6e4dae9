------------------------ MODULE MCQuorumCommitments ------------------------
(***************************************************************************)
(* Instances of QuorumCommitments: two competing first blocks of a cycle   *)
(* and commitments by two or three members.                                *)
(***************************************************************************)
EXTENDS QuorumCommitments, TLC

CONSTANTS a, b, t1

BaseSymmetry == Permutations({a, b})
============================================================================
