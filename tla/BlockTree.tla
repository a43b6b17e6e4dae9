------------------------------ MODULE BlockTree ------------------------------
(***************************************************************************)
(* The tree of all block headers the network may produce, as the code sees *)
(* it through CBlockIndex: pprev, nHeight, GetAncestor and LastCommon-     *)
(* Ancestor.  Every block carries one unit of proof, so nChainWork is      *)
(* nHeight.                                                                *)
(***************************************************************************)
EXTENDS Counting

CONSTANTS Blocks,   \* every block header
          Genesis,  \* chainparams.GenesisBlock()
          Parent    \* CBlockIndex::pprev of every other block

\* Following pprev from any block ends at the genesis block: every set of blocks
\* has a member that is the genesis block or whose parent is outside the set.
ASSUME TreeAssumption ==
  /\ IsFiniteSet(Blocks)
  /\ Genesis \in Blocks
  /\ Parent \in [Blocks \ {Genesis} -> Blocks]
  /\ \A S \in SUBSET Blocks : S # {} => \E b \in S : b = Genesis \/ Parent[b] \notin S

\* The blocks are finitely many.
ASSUME BlocksAreCounted == Counted(Blocks)

\* The block and all its ancestors, following pprev down to the genesis block.
PathTo[b \in Blocks] == IF b = Genesis THEN {b} ELSE {b} \cup PathTo[Parent[b]]

\* The same as a table, which TLC computes once.
Chain == [b \in Blocks |-> PathTo[b]]

\* CBlockIndex::nHeight (and nChainWork).
Height(b) == Cardinality(Chain[b]) - 1

\* The blocks of S at the greatest height; a single block when S is a part of
\* one chain.
Highest(S) == CHOOSE b \in S : \A x \in S : Height(x) <= Height(b)

\* CChain::FindFork and LastCommonAncestor.
Fork(a, b) == Highest(Chain[a] \cap Chain[b])

Children(b) == {x \in Blocks \ {Genesis} : Parent[x] = b}

\* CChainLocksHandler::InternalHasConflictingChainLock for a lock on block l:
\* the blocks that are not higher than l and are not an ancestor of it.
ConflictsWith(l) == {b \in Blocks : Height(b) <= Height(l) /\ b \notin Chain[l]}

=============================================================================
