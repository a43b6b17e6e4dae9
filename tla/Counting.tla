------------------------------- MODULE Counting ------------------------------
(***************************************************************************)
(* What the proofs use of a finite set.  That every finite set has it is   *)
(* the theorem FiniteIsCounted of CheckQueueProofs; a module that assumes  *)
(* it of a constant spares the proofs about it the theorems of the library *)
(* about finite sets and well-founded relations.                           *)
(***************************************************************************)
EXTENDS Naturals, FiniteSets

\* The subsets of S have a size, sizes add up, and a set of numbers that are not
\* greater than the size of S has a least one.
Counted(S) ==
  /\ \A T \in SUBSET S : Cardinality(T) \in Nat /\ (Cardinality(T) = 0 <=> T = {})
  /\ \A x \in S : Cardinality({x}) = 1
  /\ \A T, U \in SUBSET S :
       T \cap U = {} => Cardinality(T \cup U) = Cardinality(T) + Cardinality(U)
  /\ \A N \in SUBSET (0 .. Cardinality(S)) : N # {} => \E m \in N : \A n \in N : m <= n

=============================================================================
