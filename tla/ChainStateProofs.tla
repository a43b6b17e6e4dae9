-------------------------- MODULE ChainStateProofs ---------------------------
(***************************************************************************)
(* The marks and the active chain of ChainState, proved for every finite   *)
(* block tree and every environment.  Each action of ChainState has a      *)
(* lemma of its own that does not depend on what happens to the best       *)
(* ChainLock, so that the proofs about ChainLocks use the same lemmas.     *)
(***************************************************************************)
EXTENDS ChainState, Integers, TLAPS

\* A leaf is given to Zenon unless it names another prover.
USE ZenonT(30)

-----------------------------------------------------------------------------
(***************************************************************************)
(* What chains, heights and forks of the block tree obey, for every finite *)
(* tree.  Facts about all blocks are proved by looking at a block of a set *)
(* of counterexamples whose parent is outside the set (TreeAssumption).    *)
(***************************************************************************)

\* A set that contains the parent of each of its blocks.
Closed(S) == \A x \in S : x # Genesis => Parent[x] \in S

\* The smallest such set around a block.
Ancestry == [b \in Blocks |-> {x \in Blocks : \A S \in SUBSET Blocks :
                                               (b \in S /\ Closed(S)) => x \in S}]

\* The ancestry of a block is closed and contains the block.
LEMMA AncestryClosed ==
  \A b \in Blocks : b \in Ancestry[b] /\ Closed(Ancestry[b]) /\ Ancestry[b] \subseteq Blocks
BY TreeAssumption DEF Ancestry, Closed

\* The ancestry of a block is the block and the ancestry of its parent.
LEMMA AncestryStep ==
  \A b \in Blocks : Ancestry[b] = IF b = Genesis THEN {b} ELSE {b} \cup Ancestry[Parent[b]]
<1> SUFFICES ASSUME NEW b \in Blocks
             PROVE Ancestry[b] = IF b = Genesis THEN {b} ELSE {b} \cup Ancestry[Parent[b]]
  OBVIOUS
<1>1. CASE b = Genesis
  <2>1. Closed({b}) /\ {b} \in SUBSET Blocks
    BY <1>1 DEF Closed
  <2>2. Ancestry[b] \subseteq {b}
    BY <2>1 DEF Ancestry
  <2> QED
    BY <2>2, <1>1, AncestryClosed
<1>2. CASE b # Genesis
  <2> DEFINE S == {b} \cup Ancestry[Parent[b]]
  <2>0. Parent[b] \in Blocks
    BY <1>2, TreeAssumption
  <2>1. Closed(S) /\ S \in SUBSET Blocks
    BY <2>0, AncestryClosed DEF Closed
  <2>2. Ancestry[b] \subseteq S
    <3>1. b \in S
      OBVIOUS
    <3> HIDE DEF S
    <3> QED
      BY <2>1, <3>1 DEF Ancestry
  <2>3. ASSUME NEW x \in Ancestry[Parent[b]] PROVE x \in Ancestry[b]
    <3>1. \A T \in SUBSET Blocks : (b \in T /\ Closed(T)) => Parent[b] \in T
      BY <1>2 DEF Closed
    <3> QED
      BY <2>0, <3>1, <2>3 DEF Ancestry
  <2> QED
    BY <2>2, <2>3, <1>2, AncestryClosed
<1> QED
  BY <1>1, <1>2

\* The definition of PathTo has a solution, so that Chain obeys its equation.
LEMMA ChainEquation ==
  \A b \in Blocks : Chain[b] = IF b = Genesis THEN {b} ELSE {b} \cup Chain[Parent[b]]
<1> DEFINE Def(f) == [b \in Blocks |-> IF b = Genesis THEN {b} ELSE {b} \cup f[Parent[b]]]
<1>1. Ancestry = Def(Ancestry)
  BY AncestryStep DEF Ancestry
<1>2. PathTo = CHOOSE f : f = Def(f)
  BY DEF PathTo
<1>3. PathTo = Def(PathTo)
  <2> HIDE DEF Def
  <2> QED
    BY <1>1, <1>2
<1>4. Chain = PathTo
  BY <1>3 DEF Chain
<1> QED
  BY <1>3, <1>4, TreeAssumption

\* A chain holds its block, the genesis block and known blocks only.
LEMMA ChainBasics ==
  /\ Chain \in [Blocks -> SUBSET Blocks]
  /\ \A b \in Blocks : b \in Chain[b] /\ Chain[b] \subseteq Blocks
  /\ Chain[Genesis] = {Genesis}
  /\ \A b \in Blocks \ {Genesis} :
       Parent[b] \in Blocks /\ Parent[b] \in Chain[b] /\ Chain[b] = {b} \cup Chain[Parent[b]]
<1>1. \A b \in Blocks : Chain[b] \subseteq Blocks
  <2> DEFINE S == {b \in Blocks : ~(Chain[b] \subseteq Blocks)}
  <2>1. SUFFICES ASSUME S # {} PROVE FALSE
    OBVIOUS
  <2>2. PICK b \in S : b = Genesis \/ Parent[b] \notin S
    BY <2>1, TreeAssumption
  <2>3. b \in Blocks /\ ~(Chain[b] \subseteq Blocks)
    BY <2>2
  <2>4. b # Genesis
    BY <2>3, ChainEquation
  <2>5. Parent[b] \in Blocks /\ Chain[Parent[b]] \subseteq Blocks
    BY <2>2, <2>3, <2>4, TreeAssumption
  <2> QED
    BY <2>3, <2>4, <2>5, ChainEquation
<1>2. \A b \in Blocks : b \in Chain[b]
  BY ChainEquation
<1>3. Chain = [b \in Blocks |-> Chain[b]]
  BY DEF Chain
<1>5. Chain[Genesis] = {Genesis}
  BY ChainEquation, TreeAssumption
<1>6. \A b \in Blocks \ {Genesis} :
        Parent[b] \in Blocks /\ Parent[b] \in Chain[b] /\ Chain[b] = {b} \cup Chain[Parent[b]]
  <2> SUFFICES ASSUME NEW b \in Blocks, b # Genesis
               PROVE /\ Parent[b] \in Blocks
                     /\ Parent[b] \in Chain[b]
                     /\ Chain[b] = {b} \cup Chain[Parent[b]]
    OBVIOUS
  <2>1. Parent[b] \in Blocks
    BY TreeAssumption
  <2>2. Chain[b] = {b} \cup Chain[Parent[b]]
    BY ChainEquation
  <2> QED
    BY <2>1, <2>2, <1>2
<1>7. Chain \in [Blocks -> SUBSET Blocks]
  BY <1>1, <1>3
<1> QED
  BY <1>1, <1>2, <1>5, <1>6, <1>7

\* The genesis block is on every chain.
LEMMA GenesisOnChain ==
  \A b \in Blocks : Genesis \in Chain[b]
<1> DEFINE S == {b \in Blocks : Genesis \notin Chain[b]}
<1>1. SUFFICES ASSUME S # {} PROVE FALSE
  OBVIOUS
<1>2. PICK b \in S : b = Genesis \/ Parent[b] \notin S
  BY <1>1, TreeAssumption
<1> QED
  BY SMTT(30), <1>2, ChainBasics, TreeAssumption

\* An ancestor of an ancestor is an ancestor.
LEMMA ChainTransitive ==
  \A b \in Blocks : \A x \in Chain[b] : Chain[x] \subseteq Chain[b]
<1> DEFINE S == {b \in Blocks : ~(\A x \in Chain[b] : Chain[x] \subseteq Chain[b])}
<1>1. SUFFICES ASSUME S # {} PROVE FALSE
  OBVIOUS
<1>2. PICK b \in S : b = Genesis \/ Parent[b] \notin S
  BY <1>1, TreeAssumption
<1> QED
  BY SMTT(30), <1>2, ChainBasics, TreeAssumption

\* No block is on the chain of its parent.
LEMMA ParentIsBelow ==
  \A b \in Blocks \ {Genesis} : b \notin Chain[Parent[b]]
<1> DEFINE S == {b \in Blocks \ {Genesis} : b \in Chain[Parent[b]]}
<1>1. SUFFICES ASSUME S # {} PROVE FALSE
  OBVIOUS
<1>2. PICK b \in S : b = Genesis \/ Parent[b] \notin S
  BY <1>1, TreeAssumption
<1> DEFINE p == Parent[b]
<1>3. b \in Blocks \ {Genesis} /\ p \in Blocks /\ b \in Chain[p] /\ p \in Chain[b]
  BY <1>2, ChainBasics
<1>4. p # Genesis
  BY <1>3, ChainBasics
<1>5. b # p
  BY <1>2, <1>3
<1>6. b \in Chain[Parent[p]] /\ Parent[p] \in Blocks
  BY SMTT(30), <1>3, <1>4, <1>5, ChainBasics
<1>7. p \in Chain[Parent[p]]
  BY <1>3, <1>6, ChainTransitive
<1> QED
  BY <1>2, <1>3, <1>4, <1>7

\* Two blocks that are ancestors of each other are the same.
LEMMA ChainAntisymmetric ==
  \A a, b \in Blocks : (a \in Chain[b] /\ b \in Chain[a]) => a = b
<1> SUFFICES ASSUME NEW a \in Blocks, NEW b \in Blocks, a \in Chain[b], b \in Chain[a], a # b
             PROVE FALSE
  OBVIOUS
<1>1. b # Genesis
  BY ChainBasics
<1>2. a \in Chain[Parent[b]] /\ Parent[b] \in Blocks
  BY SMTT(30), <1>1, ChainBasics
<1>3. b \in Chain[Parent[b]]
  BY <1>2, ChainTransitive
<1> QED
  BY <1>1, <1>3, ParentIsBelow

\* Of two blocks of one chain, one is an ancestor of the other.
LEMMA ChainLinear ==
  \A b \in Blocks : \A x, y \in Chain[b] : x \in Chain[y] \/ y \in Chain[x]
<1> DEFINE S == {b \in Blocks : ~(\A x, y \in Chain[b] : x \in Chain[y] \/ y \in Chain[x])}
<1>1. SUFFICES ASSUME S # {} PROVE FALSE
  OBVIOUS
<1>2. PICK b \in S : b = Genesis \/ Parent[b] \notin S
  BY <1>1, TreeAssumption
<1>3. b \in Blocks
  BY <1>2
<1>4. PICK x \in Chain[b], y \in Chain[b] : x \notin Chain[y] /\ y \notin Chain[x]
  BY <1>2
<1>5. x # b /\ y # b
  BY <1>3, <1>4
<1>6. b # Genesis
  BY <1>4, <1>5, ChainBasics
<1>7. x \in Chain[Parent[b]] /\ y \in Chain[Parent[b]] /\ Parent[b] \in Blocks
  BY SMTT(30), <1>3, <1>5, <1>6, ChainBasics
<1> QED
  BY <1>2, <1>4, <1>6, <1>7

\* A set of blocks is not larger than a set that contains it.
LEMMA BlockSets ==
  /\ \A S \in SUBSET Blocks :
       Cardinality(S) \in Nat /\ Cardinality(S) <= Cardinality(Blocks) /\ (Cardinality(S) = 0 <=> S = {})
  /\ \A S, T \in SUBSET Blocks : (S \subseteq T /\ S # T) => Cardinality(S) < Cardinality(T)
<1>1. \A S \in SUBSET Blocks : Cardinality(S) \in Nat /\ (Cardinality(S) = 0 <=> S = {})
  BY BlocksAreCounted DEF Counted
<1>2. ASSUME NEW T \in SUBSET Blocks, NEW S \in SUBSET T
      PROVE Cardinality(T) = Cardinality(S) + Cardinality(T \ S)
  <2>1. T = S \cup (T \ S) /\ S \cap (T \ S) = {}
    OBVIOUS
  <2>2. S \in SUBSET Blocks /\ T \ S \in SUBSET Blocks
    OBVIOUS
  <2> QED
    BY <2>1, <2>2, BlocksAreCounted DEF Counted
<1>3. \A S \in SUBSET Blocks : Cardinality(S) <= Cardinality(Blocks)
  <2> TAKE S \in SUBSET Blocks
  <2>1. Cardinality(Blocks) = Cardinality(S) + Cardinality(Blocks \ S)
    BY <1>2
  <2> QED
    BY SMTT(30), <2>1, <1>1
<1>4. ASSUME NEW T \in SUBSET Blocks, NEW S \in SUBSET T, S # T
      PROVE Cardinality(S) < Cardinality(T)
  <2>1. T \ S # {} /\ T \ S \in SUBSET Blocks /\ S \in SUBSET Blocks
    BY <1>4
  <2>2. Cardinality(T) = Cardinality(S) + Cardinality(T \ S)
    BY <1>2
  <2>3. Cardinality(T \ S) \in Nat \ {0} /\ Cardinality(S) \in Nat
    BY <2>1, <1>1
  <2> QED
    BY SMTT(30), <2>2, <2>3
<1> QED
  BY <1>1, <1>3, <1>4

\* The height of a block is one more than that of its parent, and less than the
\* number of blocks.
LEMMA HeightBasics ==
  /\ \A b \in Blocks : Height(b) \in Nat /\ Height(b) < Cardinality(Blocks)
  /\ Cardinality(Blocks) \in Nat
  /\ \A b \in Blocks \ {Genesis} : Height(b) = Height(Parent[b]) + 1
<1>1. Cardinality(Blocks) \in Nat
  BY BlockSets
<1>2. ASSUME NEW b \in Blocks
      PROVE Cardinality(Chain[b]) \in Nat \ {0} /\ Cardinality(Chain[b]) <= Cardinality(Blocks)
  <2>1. Chain[b] \in SUBSET Blocks /\ Chain[b] # {}
    BY ChainBasics
  <2> QED
    BY <2>1, BlockSets
<1>3. ASSUME NEW b \in Blocks \ {Genesis}
      PROVE Cardinality(Chain[b]) = Cardinality(Chain[Parent[b]]) + 1
  <2>1. /\ Chain[Parent[b]] \in SUBSET Blocks /\ {b} \in SUBSET Blocks
        /\ Chain[Parent[b]] \cap {b} = {} /\ Chain[b] = Chain[Parent[b]] \cup {b}
    BY SMTT(30), ChainBasics, ParentIsBelow
  <2>2. Cardinality({b}) = 1
    BY BlocksAreCounted DEF Counted
  <2> QED
    BY SMTT(30), <2>1, <2>2, BlocksAreCounted DEF Counted
<1>4. \A b \in Blocks : Height(b) \in Nat /\ Height(b) < Cardinality(Blocks)
  BY SMTT(30), <1>1, <1>2 DEF Height
<1>5. \A b \in Blocks \ {Genesis} : Height(b) = Height(Parent[b]) + 1
  <2> TAKE b \in Blocks \ {Genesis}
  <2>1. Parent[b] \in Blocks
    BY ChainBasics
  <2>2. Cardinality(Chain[Parent[b]]) \in Nat \ {0}
    BY <2>1, <1>2
  <2> QED
    BY SMTT(30), <2>2, <1>3 DEF Height
<1> QED
  BY <1>1, <1>4, <1>5

\* An ancestor is lower.
LEMMA AncestorIsLower ==
  \A b \in Blocks : \A x \in Chain[b] : x # b => Height(x) < Height(b)
<1> SUFFICES ASSUME NEW b \in Blocks, NEW x \in Chain[b], x # b
             PROVE Height(x) < Height(b)
  OBVIOUS
<1>1. x \in Blocks
  BY ChainBasics
<1>2. Chain[x] \subseteq Chain[b] /\ Chain[x] # Chain[b]
  BY <1>1, ChainTransitive, ChainAntisymmetric, ChainBasics
<1>3. Chain[x] \in SUBSET Blocks /\ Chain[b] \in SUBSET Blocks
  BY <1>1, ChainBasics
<1> QED
  BY SMTT(30), <1>2, <1>3, BlockSets DEF Height

\* On one chain, the block that is not higher is the ancestor.
LEMMA LowerIsAncestor ==
  \A b \in Blocks : \A x, y \in Chain[b] : Height(x) <= Height(y) => x \in Chain[y]
<1> SUFFICES ASSUME NEW b \in Blocks, NEW x \in Chain[b], NEW y \in Chain[b],
                    Height(x) <= Height(y), x \notin Chain[y]
             PROVE FALSE
  OBVIOUS
<1>1. x \in Blocks /\ y \in Blocks
  BY ChainBasics
<1>2. y \in Chain[x]
  BY ChainLinear
<1>3. y # x
  BY <1>1, ChainBasics
<1>4. Height(y) < Height(x)
  BY <1>1, <1>2, <1>3, AncestorIsLower
<1> QED
  BY SMTT(30), <1>1, <1>4, HeightBasics

\* A set of blocks has a highest one, and Highest finds it.
LEMMA HighestIs ==
  ASSUME NEW S \in SUBSET Blocks, S # {}
  PROVE Highest(S) \in S /\ \A x \in S : Height(x) <= Height(Highest(S))
<1> DEFINE N == Cardinality(Blocks)
           gap(x) == N - Height(x)
           G == {gap(x) : x \in S}
<1>1. \A x \in S : Height(x) \in Nat /\ gap(x) \in 0 .. N /\ N \in Nat
  BY SMTT(30), HeightBasics
<1>2. G \in SUBSET (0 .. N) /\ G # {}
  BY <1>1
<1>4. PICK m \in G : \A n \in G : m <= n
  <2> HIDE DEF G
  <2> QED
    BY <1>2, BlocksAreCounted DEF Counted
<1>5. PICK b \in S : m = gap(b)
  OBVIOUS
<1>6. \A x \in S : Height(x) <= Height(b)
  <2> TAKE x \in S
  <2>1. m <= gap(x)
    BY <1>4
  <2> QED
    BY SMTT(30), <2>1, <1>1, <1>5
<1> QED
  BY <1>6 DEF Highest

\* FindFork: the common part of two chains is the chain of the fork.
LEMMA ForkIs ==
  \A a, b \in Blocks : Fork(a, b) \in Blocks /\ Chain[Fork(a, b)] = Chain[a] \cap Chain[b]
<1> SUFFICES ASSUME NEW a \in Blocks, NEW b \in Blocks
             PROVE Fork(a, b) \in Blocks /\ Chain[Fork(a, b)] = Chain[a] \cap Chain[b]
  OBVIOUS
<1> DEFINE S == Chain[a] \cap Chain[b]
           f == Fork(a, b)
<1>1. S \in SUBSET Blocks /\ S # {}
  BY ChainBasics, GenesisOnChain
<1>2. f \in S /\ \A x \in S : Height(x) <= Height(f)
  BY <1>1, HighestIs DEF Fork
<1>3. f \in Blocks
  BY <1>1, <1>2
<1>4. Chain[f] \subseteq S
  BY <1>2, ChainTransitive
<1>5. \A x \in S : x \in Chain[f]
  BY <1>2, LowerIsAncestor
<1> QED
  BY <1>3, <1>4, <1>5

\* Above a proper ancestor there is a next block on the way up.
LEMMA NextOnPath ==
  \A m \in Blocks : \A t \in Chain[m] : t # m => \E c \in Children(t) : c \in Chain[m]
<1> DEFINE P(m) == \A t \in Chain[m] : t # m => \E c \in Children(t) : c \in Chain[m]
           S == {m \in Blocks : ~P(m)}
<1>1. SUFFICES ASSUME S # {} PROVE FALSE
  OBVIOUS
<1>2. PICK m \in S : m = Genesis \/ Parent[m] \notin S
  BY <1>1, TreeAssumption
<1>3. m \in Blocks
  BY <1>2
<1>4. PICK t \in Chain[m] : t # m /\ \A c \in Children(t) : c \notin Chain[m]
  BY <1>2
<1>5. m # Genesis
  BY <1>4, ChainBasics
<1>6. Parent[m] \in Blocks /\ t \in Chain[Parent[m]] /\ Chain[Parent[m]] \subseteq Chain[m]
  BY SMTT(30), <1>3, <1>4, <1>5, ChainBasics
<1>7. t # Parent[m]
  BY <1>3, <1>4, <1>5, ChainBasics DEF Children
<1>8. P(Parent[m])
  BY <1>2, <1>5, <1>6
<1> QED
  BY <1>4, <1>6, <1>7, <1>8

-----------------------------------------------------------------------------
(***************************************************************************)
(* The inductive invariant of ChainState                                   *)
(***************************************************************************)

\* The variables but for the ChainLock's have their types.
ChainType ==
  /\ index \subseteq Blocks
  /\ data \subseteq index
  /\ unlinked \subseteq data
  /\ seqId \in [Blocks -> Nat]
  /\ scripts \subseteq Linked(seqId)
  /\ failedValid \subseteq index
  /\ failedChild \subseteq index
  /\ failedBlocks \subseteq index
  /\ conflict \subseteq index
  /\ candidates \subseteq index
  /\ tip \in index
  /\ act \in Acts
  /\ env \in Environments

\* The index and the fully downloaded blocks are closed under pprev, and the tip
\* is one of the latter.
StoreInv ==
  /\ \A b \in index \ {Genesis} : Parent[b] \in index
  /\ \A b \in Linked(seqId) \ {Genesis} : Parent[b] \in Linked(seqId)
  /\ Linked(seqId) \subseteq data
  /\ unlinked \cap Linked(seqId) = {}
  /\ tip \in Linked(seqId)

\* Sequence numbers are different and not greater than the number of blocks that
\* have one.
NumberInv ==
  /\ \A b \in Blocks : seqId[b] <= Cardinality(Linked(seqId))
  /\ \A a, b \in Linked(seqId) : seqId[a] = seqId[b] => a = b

\* The block ActivateBestChain aims at, kept over a release of cs_main, is an
\* unmarked candidate above the tip; what InvalidateBlock noted is still true.
GoalInv ==
  /\ (act.at \in {"wait", "select", "connect"} /\ act.mostWork # None) =>
       /\ act.mostWork \in candidates
       /\ tip \in Chain[act.mostWork] \ {act.mostWork}
       /\ Chain[act.mostWork] \cap Unusable = {}
  /\ act.at = "reset" => act.block \in index
  /\ act.at = "disconnect" =>
       /\ act.block \in index \ {Genesis}
       /\ act.last \in index
       /\ act.last = act.block \/ act.last \notin Chain[tip]
       /\ act.byWork \subseteq index \cap Linked(seqId)

\* No mark on the active chain; a block that is only marked as a child of an
\* invalid block has a failed parent.
MarkInv ==
  /\ Chain[tip] \cap Unusable = {}
  /\ failedBlocks \subseteq failedValid
  /\ \A x \in failedChild \ failedValid : x # Genesis /\ Parent[x] \in Failed

\* Candidates are fully downloaded and no worse than the tip, nor than the tip the
\* round started from.
CandInv ==
  \A c \in candidates :
    /\ c \in Linked(seqId)
    /\ ~Worse(seqId, c, tip)
    /\ act.at \in {"select", "connect"} => ~Worse(seqId, c, act.start)

ChainInv == ChainType /\ StoreInv /\ NumberInv /\ GoalInv /\ MarkInv /\ CandInv

-----------------------------------------------------------------------------
(***************************************************************************)
(* Chains and the order of candidates                                      *)
(***************************************************************************)

\* A set that is closed under pprev holds the chains of its blocks.
LEMMA ClosedHoldsChains ==
  ASSUME NEW I \in SUBSET Blocks, \A b \in I \ {Genesis} : Parent[b] \in I
  PROVE \A b \in I : Chain[b] \subseteq I
<1> DEFINE S == {b \in I : ~(Chain[b] \subseteq I)}
<1>1. SUFFICES ASSUME S # {} PROVE FALSE
  OBVIOUS
<1>2. PICK b \in S : b = Genesis \/ Parent[b] \notin S
  BY <1>1, TreeAssumption
<1>3. b \in I /\ b \in Blocks /\ ~(Chain[b] \subseteq I)
  BY <1>2
<1>4. b # Genesis
  BY <1>3, ChainBasics
<1>5. Parent[b] \in I /\ Parent[b] \notin S
  BY <1>2, <1>3, <1>4
<1> QED
  BY SMTT(30), <1>3, <1>4, <1>5, ChainBasics

\* The blocks of a chain above one of its blocks, and their parents.
LEMMA AboveOnChain ==
  ASSUME NEW c \in Blocks, NEW f \in Chain[c], NEW y \in Chain[c] \ Chain[f]
  PROVE /\ y \in Blocks \ {Genesis}
        /\ f \in Chain[y]
        /\ f # y
        /\ Parent[y] \in Chain[c]
        /\ Parent[y] = f \/ Parent[y] \notin Chain[f]
<1>1. y \in Blocks /\ f \in Blocks
  BY ChainBasics
<1>2. f \in Chain[y] /\ f # y
  BY <1>1, ChainLinear, ChainBasics
<1>3. y # Genesis
  BY <1>1, GenesisOnChain
<1>4. Parent[y] \in Chain[c] /\ Parent[y] \in Blocks
  BY <1>1, <1>3, ChainBasics, ChainTransitive
<1>5. f \in Chain[Parent[y]]
  BY SMTT(30), <1>1, <1>2, <1>3, ChainBasics
<1> QED
  BY <1>1, <1>2, <1>3, <1>4, <1>5, ChainAntisymmetric

\* CBlockIndexWorkComparator orders the blocks.
LEMMA WorseOrder ==
  ASSUME NEW sid \in [Blocks -> Nat]
  PROVE /\ \A a \in Blocks : ~Worse(sid, a, a)
        /\ \A a, b \in Blocks : Worse(sid, a, b) => ~Worse(sid, b, a)
        /\ \A a, b, c \in Blocks : Worse(sid, a, c) => (Worse(sid, a, b) \/ Worse(sid, b, c))
        /\ \A b \in Blocks : \A a \in Chain[b] : a # b => Worse(sid, a, b)
        /\ \A a, b \in Blocks : ~Worse(sid, a, b) => Height(b) <= Height(a)
<1>1. \A b \in Blocks : Height(b) \in Nat /\ sid[b] \in Nat
  BY HeightBasics
<1>2. \A b \in Blocks : \A a \in Chain[b] : a # b => Worse(sid, a, b)
  BY AncestorIsLower DEF Worse
<1>3. \A a, b, c \in Blocks : Worse(sid, a, c) => (Worse(sid, a, b) \/ Worse(sid, b, c))
  BY SMTT(30), <1>1 DEF Worse
<1>4. \A a, b \in Blocks : ~Worse(sid, a, b) => Height(b) <= Height(a)
  BY SMTT(30), <1>1 DEF Worse
<1>5. \A a, b \in Blocks : Worse(sid, a, b) => ~Worse(sid, b, a)
  BY SMTT(30), <1>1 DEF Worse
<1> QED
  BY <1>2, <1>3, <1>4, <1>5

\* The sets of blocks with a best one: every set that is not empty.
LEMMA BestExists ==
  ASSUME NEW sid \in [Blocks -> Nat], NEW S \in SUBSET Blocks, S # {}
  PROVE \E c \in S : \A x \in S : ~Worse(sid, c, x)
<1> DEFINE h == Highest(S)
           T == {c \in S : Height(c) = Height(h)}
           before(c) == {x \in T : sid[x] < sid[c]}
           N == {Cardinality(before(c)) : c \in T}
<1>1. h \in S /\ \A x \in S : Height(x) <= Height(h)
  BY HighestIs
<1>2. N \in SUBSET (0 .. Cardinality(Blocks)) /\ N # {}
  <2>1. \A c \in T : before(c) \in SUBSET Blocks
    OBVIOUS
  <2>2. h \in T
    BY <1>1
  <2> HIDE DEF before, T
  <2> QED
    BY SMTT(30), <2>1, <2>2, BlockSets
<1>3. PICK m \in N : \A n \in N : m <= n
  <2> HIDE DEF N
  <2> QED
    BY <1>2, BlocksAreCounted DEF Counted
<1>4. PICK c \in T : m = Cardinality(before(c))
  OBVIOUS
<1>5. \A x \in T : ~(sid[x] < sid[c])
  <2> SUFFICES ASSUME NEW x \in T, sid[x] < sid[c] PROVE FALSE
    OBVIOUS
  <2>1. sid[x] \in Nat /\ sid[c] \in Nat /\ \A y \in T : sid[y] \in Nat
    OBVIOUS
  <2>2. x \in before(c) /\ x \notin before(x) /\ before(x) \subseteq before(c)
    BY SMTT(30), <2>1
  <2>3. before(x) \in SUBSET Blocks /\ before(c) \in SUBSET Blocks /\ Cardinality(before(x)) \in N
    OBVIOUS
  <2> HIDE DEF before, N, T
  <2>4. Cardinality(before(x)) < Cardinality(before(c))
    BY <2>2, <2>3, BlockSets
  <2> QED
    BY SMTT(30), <2>3, <2>4, <1>3, <1>4, BlockSets
<1>6. \A x \in S : ~Worse(sid, c, x)
  <2> TAKE x \in S
  <2>1. Height(x) <= Height(c) /\ Height(x) \in Nat /\ Height(c) \in Nat
    BY <1>1, HeightBasics
  <2>2. Height(x) = Height(c) => ~(sid[x] < sid[c])
    BY <1>5
  <2>3. sid[x] \in Nat /\ sid[c] \in Nat
    OBVIOUS
  <2> QED
    BY SMTT(30), <2>1, <2>2, <2>3 DEF Worse
<1> QED
  BY <1>6

-----------------------------------------------------------------------------
(***************************************************************************)
(* What the invariant says in a state                                      *)
(***************************************************************************)

\* The fields of the thread that holds m_chainstate_mutex.
LEMMA ActFields ==
  ASSUME act \in Acts
  PROVE /\ act.at \in {"idle", "wait", "connect", "select", "reset", "disconnect"}
        /\ act.at = "wait" => act.mostWork \in Blocks \cup {None}
        /\ act.at = "select" => act.mostWork \in Blocks \cup {None} /\ act.start \in Blocks
        /\ act.at = "connect" =>
             act.mostWork \in Blocks /\ act.start \in Blocks /\ act.oldTip \in Blocks
        /\ act.at = "reset" => act.block \in Blocks
        /\ act.at = "disconnect" =>
             /\ act.block \in Blocks /\ act.last \in Blocks /\ act.byWork \in SUBSET Blocks
             /\ act = [at |-> "disconnect", block |-> act.block, last |-> act.last,
                       byWork |-> act.byWork]
BY SMTT(30) DEF Acts, Idle

\* The values an action gives to it.
LEMMA ActValues ==
  /\ Idle \in Acts
  /\ \A m \in Blocks \cup {None} : [at |-> "wait", mostWork |-> m] \in Acts
  /\ \A m \in Blocks \cup {None}, s \in Blocks :
       [at |-> "select", mostWork |-> m, start |-> s] \in Acts
  /\ \A m, s, o \in Blocks :
       [at |-> "connect", mostWork |-> m, start |-> s, oldTip |-> o] \in Acts
  /\ \A b \in Blocks : [at |-> "reset", block |-> b] \in Acts
  /\ \A b, l \in Blocks, w \in SUBSET Blocks :
       [at |-> "disconnect", block |-> b, last |-> l, byWork |-> w] \in Acts
BY DEF Acts

\* Chains of known blocks are known, those of downloaded blocks downloaded.
LEMMA StoredChains ==
  ASSUME ChainType, StoreInv
  PROVE /\ \A b \in index : Chain[b] \subseteq index
        /\ \A b \in Linked(seqId) : Chain[b] \subseteq Linked(seqId)
        /\ Linked(seqId) \subseteq index
        /\ Genesis \in Linked(seqId)
        /\ Chain[tip] \subseteq Linked(seqId)
        /\ tip \in Blocks
<1>1. \A b \in index : Chain[b] \subseteq index
  BY ClosedHoldsChains DEF ChainType, StoreInv
<1>2. Linked(seqId) \in SUBSET Blocks
  BY DEF Linked
<1>3. \A b \in Linked(seqId) : Chain[b] \subseteq Linked(seqId)
  BY <1>2, ClosedHoldsChains DEF StoreInv
<1> QED
  BY <1>1, <1>2, <1>3, GenesisOnChain DEF ChainType, StoreInv

\* A marked block has an ancestor, or is itself, invalid in its own right.
LEMMA MarkedHaveRoot ==
  ASSUME ChainType, MarkInv
  PROVE \A b \in Failed : Chain[b] \cap failedValid # {}
<1> DEFINE S == {b \in Failed : Chain[b] \cap failedValid = {}}
<1>1. SUFFICES ASSUME S # {} PROVE FALSE
  OBVIOUS
<1>2. S \in SUBSET Blocks
  BY DEF ChainType, Failed
<1>3. PICK b \in S : b = Genesis \/ Parent[b] \notin S
  BY <1>1, <1>2, TreeAssumption
<1>4. b \in Blocks /\ b \in Failed /\ Chain[b] \cap failedValid = {}
  BY <1>2, <1>3
<1>5. b \in failedChild \ failedValid
  BY <1>4, ChainBasics DEF Failed
<1>6. b # Genesis /\ Parent[b] \in Failed
  BY <1>5 DEF MarkInv
<1>7. Parent[b] \in Blocks /\ Chain[Parent[b]] \subseteq Chain[b]
  BY SMTT(30), <1>4, <1>6, ChainBasics
<1> QED
  BY <1>3, <1>4, <1>6, <1>7

\* FindMostWorkChain's answer is a candidate with no mark on its chain, and no
\* other such candidate is better.
LEMMA MostWorkIs ==
  ASSUME ChainType, StoreInv, MarkInv, MostWork # None
  PROVE /\ MostWork \in Usable
        /\ \A x \in Usable : ~Worse(seqId, MostWork, x)
        /\ MostWork \in candidates
        /\ Chain[MostWork] \cap Unusable = {}
<1>1. Usable # {} /\ Usable \in SUBSET Blocks
  BY DEF MostWork, Usable, ChainType
<1>2. \E c \in Usable : \A x \in Usable : ~Worse(seqId, c, x)
  BY <1>1, BestExists DEF ChainType
<1>3. MostWork \in Usable /\ \A x \in Usable : ~Worse(seqId, MostWork, x)
  BY <1>1, <1>2 DEF MostWork
<1> QED
  BY <1>3 DEF Usable, MarkedOnPath, MarkInv

\* A candidate that is passed over has a marked block on its way to the active
\* chain; the highest one is found.
LEMMA TopMarkIs ==
  ASSUME ChainType, NEW c \in candidates \ Usable
  PROVE /\ TopMark(c) \in Chain[c] \ Chain[tip]
        /\ TopMark(c) \in Unusable
        /\ \A x \in MarkedOnPath(c) : Height(x) <= Height(TopMark(c))
<1>1. MarkedOnPath(c) # {} /\ c \in Blocks
  BY DEF Usable, ChainType
<1>2. MarkedOnPath(c) \in SUBSET Blocks
  BY <1>1, ChainBasics DEF MarkedOnPath
<1> QED
  BY <1>1, <1>2, HighestIs DEF TopMark, MarkedOnPath

\* The block to connect next is the child of the tip on the way to the goal.
LEMMA NextIs ==
  ASSUME ChainType, StoreInv, GoalInv, CandInv, act.at = "connect"
  PROVE /\ NextToConnect \in Blocks \ {Genesis}
        /\ Parent[NextToConnect] = tip
        /\ NextToConnect \in Chain[act.mostWork]
        /\ NextToConnect \in Linked(seqId)
        /\ NextToConnect \in index
        /\ NextToConnect \notin Chain[tip]
        /\ Chain[NextToConnect] = Chain[tip] \cup {NextToConnect}
        /\ Chain[NextToConnect] \subseteq Chain[act.mostWork]
        /\ Height(NextToConnect) = Height(tip) + 1
<1>1. act.mostWork \in Blocks
  BY ActFields DEF ChainType
<1>2. act.mostWork # None
  BY <1>1, ChainStateAssumption
<1>3. act.mostWork \in candidates /\ tip \in Chain[act.mostWork] \ {act.mostWork}
  BY <1>2 DEF GoalInv
<1>4. \E c \in Children(tip) : c \in Chain[act.mostWork]
  BY <1>1, <1>3, NextOnPath
<1>5. NextToConnect \in Children(tip) /\ NextToConnect \in Chain[act.mostWork]
  BY <1>4 DEF NextToConnect
<1>6. NextToConnect \in Blocks \ {Genesis} /\ Parent[NextToConnect] = tip
  BY <1>5 DEF Children
<1>7. NextToConnect \in Linked(seqId) /\ NextToConnect \in index
  BY <1>3, <1>5, StoredChains DEF CandInv
<1> QED
  BY <1>1, <1>5, <1>6, <1>7, ChainBasics, ChainTransitive, ParentIsBelow, HeightBasics

-----------------------------------------------------------------------------
(***************************************************************************)
(* One lemma per action                                                    *)
(***************************************************************************)

\* The empty block index.
LEMMA EmptyInv ==
  ASSUME EmptyIndex PROVE ChainInv
<1> USE DEF EmptyIndex
<1>0. Linked(seqId) = {Genesis}
  BY SMTT(30), TreeAssumption DEF Linked
<1>1. ChainType
  BY <1>0, TreeAssumption, ActValues DEF ChainType
<1>2. StoreInv
  BY <1>0 DEF StoreInv
<1>3. NumberInv
  <2>1. Cardinality(Linked(seqId)) = 1
    BY <1>0, TreeAssumption, BlocksAreCounted DEF Counted
  <2> QED
    BY SMTT(30), <1>0, <2>1 DEF NumberInv
<1>4. GoalInv
  BY DEF GoalInv, Idle
<1>5. MarkInv
  BY DEF MarkInv, Unusable, Failed
<1>6. CandInv
  <2>1. ~Worse(seqId, Genesis, Genesis)
    BY <1>1, TreeAssumption, WorseOrder DEF ChainType
  <2> QED
    BY <2>1, <1>0 DEF CandInv, Idle
<1> QED
  BY <1>1, <1>2, <1>3, <1>4, <1>5, <1>6 DEF ChainInv

\* A header on top of an invalid block: the blocks above the invalid one are
\* marked, none of which is on the active chain or on the way to the goal.
LEMMA HeaderOfInvalidChainInv ==
  ASSUME ChainInv, NEW b \in Blocks \ {Genesis}, AcceptHeaderOfInvalidChain(b)
  PROVE ChainInv'
<1> USE DEF ChainInv
<1>1. PICK f \in InvalidBelow(b) :
        failedChild' = failedChild \cup (Chain[Parent[b]] \ Chain[f])
  BY DEF AcceptHeaderOfInvalidChain
<1> DEFINE p == Parent[b]
           new == Chain[p] \ Chain[f]
<1>2. UNCHANGED <<received, scripts, failedValid, failedBlocks, conflict,
                  candidates, tip, act, env>>
  BY DEF AcceptHeaderOfInvalidChain, locks
<1>3. p \in index /\ p \in Blocks /\ f \in Chain[p] /\ f \in failedBlocks /\ f \in failedValid
  BY DEF AcceptHeaderOfInvalidChain, NewHeader, InvalidBelow, MarkInv, ChainType
<1>4. new \subseteq index
  BY <1>3, StoredChains
<1>5. \A y \in new : y \in Blocks \ {Genesis} /\ f \in Chain[y] /\ (Parent[y] = f \/ Parent[y] \in new)
  BY <1>3, AboveOnChain
<1>6. f \in Unusable
  BY <1>3 DEF Unusable, Failed
<1>7. Unusable' = Unusable \cup new /\ Failed' = Failed \cup new
  BY <1>1, <1>2 DEF Unusable, Failed
<1> HIDE DEF new
<1>8. \A c \in Blocks : Chain[c] \cap Unusable = {} => Chain[c] \cap Unusable' = {}
  BY SMTT(30), <1>5, <1>6, <1>7, ChainTransitive, ChainBasics
<1>9. ChainType'
  BY <1>1, <1>2, <1>4 DEF ChainType, received, Linked, new
<1>10. StoreInv' /\ NumberInv' /\ CandInv'
  BY SMTT(30), <1>2 DEF StoreInv, NumberInv, CandInv, received, Linked, Worse
<1>11. GoalInv'
  <2>1. (act.at \in {"wait", "select", "connect"} /\ act.mostWork # None)
          => act.mostWork \in Blocks
    BY ActFields DEF ChainType
  <2> QED
    BY <1>2, <1>8, <2>1 DEF GoalInv, received
<1>12. MarkInv'
  <2>1. (Chain[tip] \cap Unusable = {})'
    BY <1>2, <1>8 DEF MarkInv, ChainType
  <2>2. ASSUME NEW x \in failedChild' \ failedValid'
        PROVE x # Genesis /\ Parent[x] \in Failed'
    <3>1. CASE x \in failedChild
      BY <3>1, <1>2, <1>7, <2>2 DEF MarkInv
    <3>2. CASE x \in new
      BY <3>2, <1>3, <1>5, <1>7 DEF Failed
    <3> QED
      BY <3>1, <3>2, <2>2, <1>1 DEF new
  <2> QED
    BY <2>1, <2>2, <1>2 DEF MarkInv
<1> QED
  BY <1>9, <1>10, <1>11, <1>12

\* A header that enters the index, marked as conflicting or not.
LEMMA NewHeaderInv ==
  ASSUME ChainInv, NEW b \in Blocks \ {Genesis}, b \notin index, Parent[b] \in index,
         index' = index \cup {b},
         conflict' = conflict \/ conflict' = conflict \cup {b},
         UNCHANGED <<data, unlinked, seqId, scripts, failedValid, failedChild,
                     failedBlocks, candidates, tip, act, env>>
  PROVE ChainInv'
<1> USE DEF ChainInv
<1>1. \A c \in Linked(seqId) : b \notin Chain[c]
  BY StoredChains
<1>2. ChainType'
  BY DEF ChainType, Linked
<1>3. StoreInv' /\ NumberInv' /\ CandInv'
  BY SMTT(30) DEF StoreInv, NumberInv, CandInv, Linked, Worse
<1>4. Unusable' \subseteq Unusable \cup {b}
  BY DEF Unusable, Failed
<1>5. GoalInv'
  BY SMTT(30), <1>1, <1>4 DEF GoalInv, CandInv, Linked
<1>6. MarkInv'
  BY <1>1, <1>4 DEF MarkInv, StoreInv, Failed
<1> QED
  BY <1>2, <1>3, <1>5, <1>6

\* A header that conflicts with the best ChainLock.
LEMMA ConflictingHeaderInv ==
  ASSUME ChainInv, NEW b \in Blocks \ {Genesis}, AcceptConflictingHeader(b)
  PROVE ChainInv'
<1>1. /\ b \notin index /\ Parent[b] \in index /\ index' = index \cup {b}
      /\ conflict' = conflict \cup {b}
      /\ UNCHANGED <<data, unlinked, seqId, scripts, failedValid, failedChild,
                     failedBlocks, candidates, tip, act, env>>
  BY DEF AcceptConflictingHeader, NewHeader, locks
<1> QED
  BY <1>1, NewHeaderInv

\* A header that is accepted.
LEMMA HeaderInv ==
  ASSUME ChainInv, NEW b \in Blocks \ {Genesis}, AcceptBlockHeader(b), UNCHANGED env
  PROVE ChainInv'
<1>1. /\ b \notin index /\ Parent[b] \in index /\ index' = index \cup {b}
      /\ UNCHANGED <<data, unlinked, seqId, scripts, failedValid, failedChild,
                     failedBlocks, conflict, candidates, tip, act, env>>
  BY DEF AcceptBlockHeader, NewHeader, marks
<1> QED
  BY <1>1, NewHeaderInv

\* A block that fails CheckBlock has no data, so that no chain in use contains it.
LEMMA BadBlockInv ==
  ASSUME ChainInv, NEW b \in Blocks \ {Genesis}, AcceptBadBlock(b)
  PROVE ChainInv'
<1> USE DEF ChainInv
<1>1. /\ b \in index \ data
      /\ failedValid' = failedValid \cup {b}
      /\ UNCHANGED <<received, scripts, failedChild, failedBlocks, conflict,
                     candidates, tip, act, env>>
  BY DEF AcceptBadBlock, locks
<1>2. \A c \in Linked(seqId) : b \notin Chain[c]
  BY <1>1, StoredChains DEF StoreInv
<1>3. ChainType'
  BY <1>1 DEF ChainType, Linked, received
<1>4. StoreInv' /\ NumberInv' /\ CandInv'
  BY SMTT(30), <1>1 DEF StoreInv, NumberInv, CandInv, Linked, Worse, received
<1>5. Unusable' = Unusable \cup {b} /\ Failed' = Failed \cup {b}
  BY <1>1 DEF Unusable, Failed
<1>6. GoalInv'
  BY <1>1, <1>2, <1>5 DEF GoalInv, CandInv, Linked, received
<1>7. MarkInv'
  BY <1>1, <1>2, <1>5 DEF MarkInv, StoreInv
<1> QED
  BY <1>3, <1>4, <1>6, <1>7

\* The blocks that are numbered together hang together.
LEMMA UnblockedIs ==
  ASSUME ChainType, StoreInv, NEW b \in index \ data
  PROVE /\ b \in Unblocked(b)
        /\ Unblocked(b) \subseteq index
        /\ Unblocked(b) \subseteq data \cup {b}
        /\ Unblocked(b) \cap Linked(seqId) = {}
        /\ Genesis \notin Unblocked(b)
        /\ \A x \in Unblocked(b) \ {b} : Parent[x] \in Unblocked(b)
<1> DEFINE U == Unblocked(b)
<1>1. b \in U /\ U \subseteq index /\ U \subseteq data \cup {b}
  BY DEF Unblocked, ChainType
<1>2. U \cap Linked(seqId) = {}
  BY DEF Unblocked, StoreInv
<1>4. Genesis \notin U
  BY <1>2, StoredChains
<1>5. ASSUME NEW x \in U \ {b} PROVE Parent[x] \in U
  <2>1. x \in unlinked /\ b \in Chain[x] /\ Chain[x] \ Chain[b] \subseteq unlinked
    BY DEF Unblocked
  <2>2. x \in Blocks /\ b \in Blocks /\ x # Genesis
    BY <1>1, <1>4 DEF ChainType
  <2>3. Parent[x] \in Blocks /\ Chain[x] = {x} \cup Chain[Parent[x]] /\ b \in Chain[Parent[x]]
    BY SMTT(30), <2>1, <2>2, ChainBasics
  <2>4. CASE Parent[x] \in Chain[b]
    <3>1. Parent[x] = b
      BY <2>2, <2>3, <2>4, ChainAntisymmetric
    <3> QED
      BY <3>1, <1>1
  <2>5. CASE Parent[x] \notin Chain[b]
    <3>1. Parent[x] \in unlinked
      BY <2>1, <2>3, <2>5, ChainBasics
    <3>2. Chain[Parent[x]] \ Chain[b] \subseteq unlinked
      BY <2>1, <2>3
    <3> QED
      BY <3>1, <3>2, <2>3 DEF Unblocked
  <2> QED
    BY <2>4, <2>5
<1> QED
  BY <1>1, <1>2, <1>4, <1>5

\* A block whose chain is there gets a number, with the blocks that waited for it.
LEMMA LinkInv ==
  ASSUME ChainInv, NEW b \in index \ data, b # Genesis, Parent[b] \in Linked(seqId),
         CsMainFree, data' = data \cup {b}, LinkBlocks(b),
         UNCHANGED <<index, scripts, marks, tip, act, env>>
  PROVE ChainInv'
<1> USE DEF ChainInv
<1> DEFINE U == Unblocked(b)
           n == Cardinality(Linked(seqId))
<1>1. PICK order \in VisitOrders(U) :
        /\ seqId' = [x \in Blocks |-> IF x \in U THEN n + order[x] ELSE seqId[x]]
        /\ candidates' = candidates \cup {x \in U \ conflict : ~Worse(seqId', x, tip)}
        /\ unlinked' = unlinked \ U
  BY DEF LinkBlocks
<1>2. /\ b \in U /\ U \subseteq index /\ U \subseteq data \cup {b} /\ U \cap Linked(seqId) = {}
      /\ \A x \in U \ {b} : Parent[x] \in U
      /\ U \subseteq Blocks
  BY UnblockedIs DEF ChainType
<1>3. Linked(seqId) \in SUBSET Blocks /\ n \in Nat
  <2>1. Linked(seqId) \in SUBSET Blocks
    BY DEF Linked
  <2> QED
    BY <2>1, BlockSets
<1>4. /\ order \in [U -> 1..Cardinality(U)]
      /\ \A x, y \in U : order[x] = order[y] => x = y
      /\ Cardinality(U) \in Nat
  BY <1>2, BlockSets DEF VisitOrders, Bijection, Injection, IsInjective
<1>5. seqId \in [Blocks -> Nat] /\ seqId' \in [Blocks -> Nat]
  BY SMTT(30), <1>1, <1>3, <1>4 DEF ChainType
<1> HIDE DEF U, n
<1>6. \A x \in U : seqId'[x] = n + order[x] /\ order[x] \in 1..Cardinality(U)
  BY <1>1, <1>2, <1>4
<1>7. \A x \in Blocks \ U : seqId'[x] = seqId[x]
  BY <1>1
<1>8. Linked(seqId') = Linked(seqId) \cup U
  BY SMTT(30), <1>2, <1>3, <1>4, <1>6, <1>7 DEF Linked
<1>9. Cardinality(Linked(seqId')) = n + Cardinality(U)
  <2>1. Cardinality(Linked(seqId) \cup U) = Cardinality(Linked(seqId)) + Cardinality(U)
    BY SMTT(30), <1>2, <1>3, BlocksAreCounted DEF Counted
  <2> QED
    BY <1>8, <2>1 DEF n
<1>10. ChainType'
  BY <1>1, <1>2, <1>5, <1>8 DEF ChainType, marks
<1>11. StoreInv'
  BY <1>1, <1>2, <1>8 DEF StoreInv
<1>12. NumberInv'
  <2>1. ASSUME NEW x \in Blocks PROVE seqId'[x] <= n + Cardinality(U)
    <3>1. CASE x \in U
      BY SMTT(30), <3>1, <1>3, <1>4, <1>6
    <3>2. CASE x \notin U
      <4>1. seqId[x] <= n /\ seqId[x] \in Nat
        BY <1>5 DEF NumberInv, n
      <4> QED
        BY SMTT(30), <3>2, <4>1, <1>3, <1>4, <1>7
    <3> QED
      BY <3>1, <3>2
  <2>2. ASSUME NEW x \in Linked(seqId'), NEW y \in Linked(seqId'), seqId'[x] = seqId'[y]
        PROVE x = y
    <3>0. \A z \in Linked(seqId) : seqId'[z] = seqId[z] /\ seqId[z] <= n /\ seqId[z] \in Nat
      BY <1>2, <1>5, <1>7 DEF NumberInv, n, Linked
    <3>1. CASE x \in U /\ y \in U
      BY SMTT(30), <3>1, <2>2, <1>3, <1>4, <1>6
    <3>2. CASE x \in Linked(seqId) /\ y \in Linked(seqId)
      BY <3>0, <3>2, <2>2 DEF NumberInv
    <3>3. CASE x \in U /\ y \in Linked(seqId)
      BY SMTT(30), <3>0, <3>3, <2>2, <1>3, <1>4, <1>6
    <3>4. CASE y \in U /\ x \in Linked(seqId)
      BY SMTT(30), <3>0, <3>4, <2>2, <1>3, <1>4, <1>6
    <3> QED
      BY <3>1, <3>2, <3>3, <3>4, <1>8
  <2> QED
    BY <1>9, <2>1, <2>2 DEF NumberInv
<1>13. GoalInv'
  BY <1>1, <1>8 DEF GoalInv, Unusable, Failed, marks
<1>14. MarkInv'
  BY DEF MarkInv, Unusable, Failed, marks
<1>15. CandInv'
  <2> SUFFICES ASSUME NEW c \in candidates'
               PROVE c \in Linked(seqId') /\ ~Worse(seqId', c, tip)
    BY DEF CandInv, CsMainFree
  <2>1. CASE c \in candidates
    <3>1. c \in Linked(seqId) /\ tip \in Linked(seqId) /\ ~Worse(seqId, c, tip)
      BY <2>1 DEF CandInv, StoreInv
    <3>2. seqId'[c] = seqId[c] /\ seqId'[tip] = seqId[tip]
      BY <3>1, <1>2, <1>7 DEF Linked
    <3> QED
      BY <3>1, <3>2, <1>8 DEF Worse
  <2>2. CASE c \notin candidates
    BY <2>2, <1>1, <1>8
  <2> QED
    BY <2>1, <2>2
<1> QED
  BY <1>10, <1>11, <1>12, <1>13, <1>14, <1>15

\* AcceptBlock.
LEMMA BlockInv ==
  ASSUME ChainInv, NEW b \in Blocks \ {Genesis}, AcceptBlock(b)
  PROVE ChainInv'
<1> USE DEF ChainInv
<1>1. /\ b \in index \ data
      /\ data' = data \cup {b}
      /\ UNCHANGED <<index, scripts, marks, tip, act, env>>
  BY DEF AcceptBlock, locks
<1>2. CASE Parent[b] \in Linked(seqId)
  <2>1. CsMainFree /\ LinkBlocks(b)
    BY <1>2 DEF AcceptBlock
  <2> QED
    BY <1>1, <1>2, <2>1, LinkInv
<1>3. CASE Parent[b] \notin Linked(seqId)
  <2>1. UNCHANGED <<seqId, candidates>> /\ unlinked \subseteq unlinked'
        /\ unlinked' \subseteq unlinked \cup {b}
    BY <1>3 DEF AcceptBlock
  <2>2. b \notin Linked(seqId)
    BY <1>1, <1>3 DEF StoreInv
  <2>3. ChainType'
    BY <1>1, <2>1 DEF ChainType, marks, Linked
  <2>4. StoreInv' /\ NumberInv' /\ CandInv'
    BY SMTT(30), <1>1, <2>1, <2>2 DEF StoreInv, NumberInv, CandInv, Linked, Worse
  <2>5. GoalInv' /\ MarkInv'
    BY <1>1, <2>1 DEF GoalInv, MarkInv, Unusable, Failed, marks, Linked
  <2> QED
    BY <2>3, <2>4, <2>5
<1> QED
  BY <1>2, <1>3

\* What the inner loop of ActivateBestChain does next.
LEMMA AfterStepIs ==
  ASSUME NEW t \in Blocks, NEW m \in Blocks \cup {None}, NEW s \in Blocks
  PROVE LET a == AfterStep(t, m, s)
        IN /\ a \in Acts
           /\ a.at \in {"idle", "wait", "select"}
           /\ a.at \in {"wait", "select"} => a.mostWork = m
           /\ a.at = "select" => a.start = s /\ Worse(seqId, t, s)
           /\ a.at # "select" => ~Worse(seqId, t, s)
           /\ a.at = "wait" => t # m
<1>1. CASE Worse(seqId, t, s)
  BY <1>1, ActValues DEF AfterStep
<1>2. CASE ~Worse(seqId, t, s) /\ t = m
  BY <1>2, ActValues DEF AfterStep, Idle
<1>3. CASE ~Worse(seqId, t, s) /\ t # m
  BY <1>3, ActValues DEF AfterStep
<1> QED
  BY <1>1, <1>2, <1>3

\* Taking m_chainstate_mutex.
LEMMA ActivateBestChainInv ==
  ASSUME ChainInv, ActivateBestChain PROVE ChainInv'
<1> USE DEF ChainInv
<1>1. /\ act' = [at |-> "wait", mostWork |-> None]
      /\ UNCHANGED <<received, scripts, marks, candidates, tip, env>>
  BY DEF ActivateBestChain, locks
<1>2. act' \in Acts /\ act'.at = "wait" /\ act'.mostWork = None
  BY <1>1, ActValues
<1>3. ChainType'
  BY <1>1, <1>2 DEF ChainType, Linked, received, marks
<1>4. StoreInv' /\ NumberInv' /\ CandInv'
  BY <1>1, <1>2 DEF StoreInv, NumberInv, CandInv, Linked, Worse, received
<1>5. GoalInv' /\ MarkInv'
  BY <1>1, <1>2 DEF GoalInv, MarkInv, Unusable, Failed, marks
<1> QED
  BY <1>3, <1>4, <1>5

\* Taking cs_main for a round.
LEMMA ActivateRoundInv ==
  ASSUME ChainInv, ActivateRound PROVE ChainInv'
<1> USE DEF ChainInv
<1>1. /\ act.at = "wait"
      /\ act' = [at |-> "select", mostWork |-> act.mostWork, start |-> tip]
      /\ UNCHANGED <<received, scripts, marks, candidates, tip, env>>
  BY DEF ActivateRound, locks
<1>2. act.mostWork \in Blocks \cup {None} /\ tip \in Blocks
  BY <1>1, ActFields DEF ChainType
<1>3. act' \in Acts /\ act'.at = "select" /\ act'.mostWork = act.mostWork /\ act'.start = tip
  BY <1>1, <1>2, ActValues
<1>4. ChainType'
  BY <1>1, <1>3 DEF ChainType, Linked, received, marks
<1>5. StoreInv' /\ NumberInv' /\ CandInv'
  BY <1>1, <1>3 DEF StoreInv, NumberInv, CandInv, Linked, Worse, received
<1>6. GoalInv' /\ MarkInv'
  BY <1>1, <1>3 DEF GoalInv, MarkInv, Unusable, Failed, marks
<1> QED
  BY <1>4, <1>5, <1>6

\* FindMostWorkChain marks blocks above marked blocks that are not on the active
\* chain, and drops marked candidates only.
LEMMA FindEffect ==
  ASSUME ChainType, StoreInv, MarkInv, FindMostWorkChain
  PROVE /\ failedChild \subseteq failedChild' /\ failedChild' \subseteq index
        /\ conflict \subseteq conflict' /\ conflict' \subseteq index
        /\ \A y \in (failedChild' \cup conflict') \ Unusable :
             \E t \in Unusable : t \in Chain[y] \ Chain[tip]
        /\ \A y \in failedChild' \ failedChild :
             y # Genesis /\ Parent[y] \in Failed \cup failedChild'
        /\ candidates' \subseteq candidates
        /\ \A y \in candidates \ candidates' :
             /\ y \in failedValid \cup failedChild' \cup conflict'
             /\ \E t \in Unusable : t \in Chain[y] \ Chain[tip]
<1> DEFINE RF == {x \in Rejected : TopMark(x) \in Failed}
           RC == {x \in Rejected : TopMark(x) \notin Failed}
<1>0. /\ failedChild' = failedChild \cup UNION {AboveMark(c) : c \in RF}
      /\ conflict' = conflict \cup UNION {AboveMark(c) : c \in RC}
      /\ candidates' = candidates \ UNION {AboveMark(c) \cup {TopMark(c)} : c \in Rejected}
  BY DEF FindMostWorkChain
<1>1. ASSUME NEW c \in Rejected
      PROVE /\ c \in candidates \ Usable /\ c \in Blocks /\ c \in index
            /\ TopMark(c) \in Chain[c] \ Chain[tip]
            /\ TopMark(c) \in Unusable
            /\ TopMark(c) \in Blocks
            /\ AboveMark(c) \subseteq index
            /\ \A y \in AboveMark(c) :
                 /\ y \in Blocks \ {Genesis} /\ TopMark(c) \in Chain[y]
                 /\ Parent[y] = TopMark(c) \/ Parent[y] \in AboveMark(c)
  <2>1. c \in candidates \ Usable /\ c \in Blocks /\ c \in index
    BY DEF Rejected, ChainType
  <2>2. TopMark(c) \in Chain[c] \ Chain[tip] /\ TopMark(c) \in Unusable
    BY <2>1, TopMarkIs
  <2>3. TopMark(c) \in Blocks /\ AboveMark(c) \subseteq index
    BY <2>1, <2>2, StoredChains, ChainBasics DEF AboveMark
  <2>4. ASSUME NEW y \in AboveMark(c)
        PROVE /\ y \in Blocks \ {Genesis} /\ TopMark(c) \in Chain[y]
              /\ Parent[y] = TopMark(c) \/ Parent[y] \in AboveMark(c)
    <3>1. y \in Chain[c] \ Chain[TopMark(c)]
      BY DEF AboveMark
    <3> QED
      BY <2>1, <2>2, <3>1, AboveOnChain DEF AboveMark
  <2> QED
    BY <2>1, <2>2, <2>3, <2>4
<1>2. failedChild \subseteq failedChild' /\ failedChild' \subseteq index
      /\ conflict \subseteq conflict' /\ conflict' \subseteq index
  BY SMTT(30), <1>0, <1>1 DEF ChainType
<1>3. ASSUME NEW y \in (failedChild' \cup conflict') \ Unusable
      PROVE \E t \in Unusable : t \in Chain[y] \ Chain[tip]
  <2>1. PICK c \in Rejected : y \in AboveMark(c)
    BY <1>0 DEF Unusable, Failed
  <2> QED
    BY <2>1, <1>1
<1>4. ASSUME NEW y \in failedChild' \ failedChild
      PROVE y # Genesis /\ Parent[y] \in Failed \cup failedChild'
  <2>1. PICK c \in RF : y \in AboveMark(c)
    BY <1>0
  <2>2. y # Genesis /\ (Parent[y] = TopMark(c) \/ Parent[y] \in AboveMark(c))
    BY <2>1, <1>1
  <2> QED
    BY <2>1, <2>2, <1>0
<1>5. candidates' \subseteq candidates
  BY <1>0
<1>6. ASSUME NEW y \in candidates \ candidates'
      PROVE /\ y \in failedValid \cup failedChild' \cup conflict'
            /\ \E t \in Unusable : t \in Chain[y] \ Chain[tip]
  <2>1. PICK c \in Rejected : y \in AboveMark(c) \cup {TopMark(c)}
    BY <1>0
  <2>2. TopMark(c) \in Unusable /\ TopMark(c) \in Chain[y] \ Chain[tip]
    BY <2>1, <1>1, ChainBasics
  <2>3. y \in failedValid \cup failedChild' \cup conflict'
    <3>1. CASE y = TopMark(c)
      BY <3>1, <2>2, <1>2 DEF Unusable, Failed
    <3>2. CASE y \in AboveMark(c)
      BY <3>2, <2>1, <1>0
    <3> QED
      BY <3>1, <3>2, <2>1
  <2> QED
    BY <2>2, <2>3
<1> QED
  BY <1>2, <1>3, <1>4, <1>5, <1>6

\* The block a step of ActivateBestChain aims at.
Aim == IF act.mostWork = None THEN MostWork ELSE act.mostWork

\* One step of the inner loop keeps unmarked chains unmarked, drops marked
\* candidates only and aims at an unmarked candidate.
LEMMA SelectEffect ==
  ASSUME ChainInv, ActivateSelect
  PROVE /\ failedChild \subseteq failedChild' /\ failedChild' \subseteq index
        /\ conflict \subseteq conflict' /\ conflict' \subseteq index
        /\ Unusable \subseteq Unusable'
        /\ \A c \in Blocks : Chain[c] \cap Unusable = {} => Chain[c] \cap Unusable' = {}
        /\ \A y \in failedChild' \ failedChild :
             y # Genesis /\ Parent[y] \in Failed \cup failedChild'
        /\ candidates' \subseteq candidates
        /\ \A y \in candidates \ candidates' : y \in Unusable'
        /\ \A y \in candidates : Chain[y] \cap Unusable = {} => y \in candidates'
        /\ Aim # None => /\ Aim \in candidates
                         /\ Aim \in candidates'
                         /\ Aim \in Blocks
                         /\ Chain[Aim] \cap Unusable = {}
                         /\ Chain[Aim] \cap Unusable' = {}
        /\ act.at = "select" /\ act.start \in Blocks /\ tip \in Blocks
        /\ UNCHANGED <<received, scripts, failedValid, failedBlocks, env>>
<1> USE DEF ChainInv
<1>1. /\ act.at = "select" /\ act.start \in Blocks /\ tip \in Blocks
      /\ UNCHANGED <<received, scripts, failedValid, failedBlocks, env>>
  BY ActFields DEF ActivateSelect, locks, ChainType
<1>2. /\ failedChild \subseteq failedChild' /\ failedChild' \subseteq index
      /\ conflict \subseteq conflict' /\ conflict' \subseteq index
      /\ \A y \in (failedChild' \cup conflict') \ Unusable :
           \E t \in Unusable : t \in Chain[y] \ Chain[tip]
      /\ \A y \in failedChild' \ failedChild :
           y # Genesis /\ Parent[y] \in Failed \cup failedChild'
      /\ candidates' \subseteq candidates
      /\ \A y \in candidates \ candidates' :
           /\ y \in failedValid \cup failedChild' \cup conflict'
           /\ \E t \in Unusable : t \in Chain[y] \ Chain[tip]
  <2>1. CASE act.mostWork = None
    <3>1. FindMostWorkChain
      BY <2>1 DEF ActivateSelect
    <3> QED
      BY <3>1, FindEffect
  <2>2. CASE act.mostWork # None
    <3>1. UNCHANGED <<failedChild, conflict, candidates>>
      BY <2>2 DEF ActivateSelect
    <3> QED
      BY <3>1 DEF ChainType, Unusable, Failed
  <2> QED
    BY <2>1, <2>2
<1>3. Unusable' = failedValid \cup failedChild' \cup conflict'
  BY <1>1 DEF Unusable, Failed
<1>4. Unusable \subseteq Unusable'
  BY <1>2, <1>3 DEF Unusable, Failed
<1>5. ASSUME NEW c \in Blocks, Chain[c] \cap Unusable = {}
      PROVE Chain[c] \cap Unusable' = {}
  <2>1. SUFFICES ASSUME NEW y \in Chain[c], y \in Unusable' PROVE FALSE
    OBVIOUS
  <2>2. y \in (failedChild' \cup conflict') \ Unusable
    BY <2>1, <1>3, <1>5 DEF Unusable, Failed
  <2>3. PICK t \in Unusable : t \in Chain[y]
    BY <2>2, <1>2
  <2> QED
    BY <2>3, <1>5, ChainTransitive
<1>6. \A y \in candidates \ candidates' : y \in Unusable'
  BY <1>2, <1>3
<1>7. \A y \in candidates : Chain[y] \cap Unusable = {} => y \in candidates'
  BY <1>2
<1>8. Aim # None => Aim \in candidates /\ Chain[Aim] \cap Unusable = {}
  <2>1. CASE act.mostWork = None
    BY <2>1, MostWorkIs DEF Aim
  <2>2. CASE act.mostWork # None
    BY <2>2, <1>1 DEF Aim, GoalInv
  <2> QED
    BY <2>1, <2>2
<1>9. candidates \subseteq Blocks
  BY DEF ChainType
<1> QED
  BY <1>1, <1>2, <1>4, <1>5, <1>6, <1>7, <1>8, <1>9

\* The step ends the round, or disconnects down to the fork with the goal.
LEMMA SelectCases ==
  ASSUME ActivateSelect
  PROVE \/ /\ Aim \in {None, tip}
           /\ act' = IF tip = act.start \/ Aim = tip THEN Idle
                     ELSE [at |-> "wait", mostWork |-> None]
           /\ UNCHANGED tip
        \/ /\ Aim \notin {None, tip}
           /\ tip' = Fork(tip, Aim)
           /\ act' = [at |-> "connect", mostWork |-> Aim, start |-> act.start, oldTip |-> tip]
BY DEF ActivateSelect, Aim

\* Disconnecting down to the fork with an unmarked candidate.
LEMMA ForkBelow ==
  ASSUME ChainType, StoreInv, CandInv, NEW a \in candidates, a # tip
  PROVE /\ Fork(tip, a) \in index /\ Fork(tip, a) \in Linked(seqId) /\ Fork(tip, a) \in Blocks
        /\ Chain[Fork(tip, a)] = Chain[tip] \cap Chain[a]
        /\ Fork(tip, a) \in Chain[tip]
        /\ Fork(tip, a) \in Chain[a] \ {a}
        /\ \A c \in Blocks : ~Worse(seqId, c, tip) => ~Worse(seqId, c, Fork(tip, a))
<1> DEFINE f == Fork(tip, a)
<1>1. tip \in Blocks /\ a \in Blocks /\ ~Worse(seqId, a, tip) /\ seqId \in [Blocks -> Nat]
  BY DEF ChainType, CandInv
<1>2. f \in Blocks /\ Chain[f] = Chain[tip] \cap Chain[a]
  BY <1>1, ForkIs
<1>3. f \in Chain[tip] /\ f \in Chain[a]
  BY <1>2, ChainBasics
<1>4. f # a
  BY <1>1, <1>3, WorseOrder
<1>5. f \in Linked(seqId) /\ f \in index
  BY <1>3, StoredChains
<1>6. ~Worse(seqId, tip, f)
  BY SMTT(30), <1>1, <1>2, <1>3, WorseOrder
<1>7. \A c \in Blocks : ~Worse(seqId, c, tip) => ~Worse(seqId, c, f)
  BY <1>1, <1>2, <1>6, WorseOrder
<1> QED
  BY <1>2, <1>3, <1>4, <1>5, <1>7

\* One step of the inner loop of ActivateBestChain.
LEMMA SelectInv ==
  ASSUME ChainInv, ActivateSelect PROVE ChainInv'
<1> USE DEF ChainInv
<1>0. ChainType /\ StoreInv /\ NumberInv /\ GoalInv /\ MarkInv /\ CandInv
  OBVIOUS
<1>1. /\ failedChild' \subseteq index /\ conflict' \subseteq index
      /\ \A c \in Blocks : Chain[c] \cap Unusable = {} => Chain[c] \cap Unusable' = {}
      /\ \A y \in failedChild' \ failedChild :
           y # Genesis /\ Parent[y] \in Failed \cup failedChild'
      /\ failedChild \subseteq failedChild'
      /\ candidates' \subseteq candidates
      /\ Aim # None => Aim \in candidates' /\ Aim \in candidates /\ Aim \in Blocks
                       /\ Chain[Aim] \cap Unusable' = {}
      /\ act.at = "select" /\ act.start \in Blocks /\ tip \in Blocks
      /\ UNCHANGED <<received, scripts, failedValid, failedBlocks, env>>
  BY SelectEffect
<1>2. /\ tip' \in index /\ tip' \in Linked(seqId) /\ tip' \in Chain[tip]
      /\ act' \in Acts
      /\ act'.at \in {"idle", "wait", "connect"}
      /\ act'.at = "wait" => act'.mostWork = None
      /\ act'.at = "connect" => /\ act'.mostWork = Aim /\ act'.start = act.start /\ Aim # None
                                /\ tip' \in Chain[Aim] \ {Aim}
      /\ \A c \in Blocks : ~Worse(seqId, c, tip) => ~Worse(seqId, c, tip')
  <2>1. CASE Aim \in {None, tip}
    <3>1. act' \in {Idle, [at |-> "wait", mostWork |-> None]} /\ tip' = tip
      BY <2>1, SelectCases
    <3>2. act' \in Acts /\ act'.at \in {"idle", "wait"} /\ (act'.at = "wait" => act'.mostWork = None)
      BY SMTT(30), <3>1, ActValues DEF Idle
    <3> QED
      BY <3>1, <3>2, <1>1, ChainBasics DEF ChainType, StoreInv
  <2>2. CASE Aim \notin {None, tip}
    <3>1. /\ tip' = Fork(tip, Aim)
          /\ act' = [at |-> "connect", mostWork |-> Aim, start |-> act.start, oldTip |-> tip]
      BY <2>2, SelectCases
    <3>2. act' \in Acts /\ act'.at = "connect" /\ act'.mostWork = Aim /\ act'.start = act.start
      BY <2>2, <3>1, <1>1, ActValues
    <3> QED
      BY <2>2, <3>1, <3>2, <1>1, ForkBelow
  <2> QED
    BY <2>1, <2>2
<1>3. ChainType'
  BY <1>1, <1>2 DEF ChainType, received, Linked
<1>4. StoreInv'
  BY <1>1, <1>2 DEF StoreInv, received, Linked
<1>5. NumberInv'
  BY <1>1 DEF NumberInv, received, Linked
<1>6. GoalInv'
  BY <1>1, <1>2 DEF GoalInv
<1>7. MarkInv'
  <2>1. Chain[tip'] \cap Unusable' = {}
    BY <1>1, <1>2, ChainTransitive DEF MarkInv
  <2>2. ASSUME NEW x \in failedChild' \ failedValid' PROVE x # Genesis /\ Parent[x] \in Failed'
    BY <1>1 DEF MarkInv, Failed
  <2> QED
    BY <2>1, <2>2, <1>1 DEF MarkInv
<1>8. CandInv'
  <2>1. \A c \in candidates' : c \in candidates /\ c \in Blocks
    BY <1>1 DEF ChainType
  <2>2. seqId' = seqId
    BY <1>1 DEF received
  <2> QED
    BY <2>1, <2>2, <1>1, <1>2 DEF CandInv, Linked, Worse
<1> QED
  BY <1>3, <1>4, <1>5, <1>6, <1>7, <1>8

\* A block that does not connect is not on the active chain.
LEMMA ConnectFailsInv ==
  ASSUME ChainInv, ConnectFails PROVE ChainInv'
<1> USE DEF ChainInv
<1> DEFINE w == NextToConnect
<1>1. /\ act.at = "connect"
      /\ failedValid' = failedValid \cup {w}
      /\ failedBlocks' = failedBlocks \cup {w}
      /\ candidates' = candidates \ {w}
      /\ act' = AfterStep(tip, None, act.start)
      /\ UNCHANGED <<received, scripts, failedChild, conflict, tip, env>>
  BY DEF ConnectFails, locks
<1>2. w \in index /\ w \notin Chain[tip]
  BY <1>1, NextIs
<1>3. tip \in Blocks /\ act.start \in Blocks
  BY <1>1, ActFields DEF ChainType
<1>4. /\ act' \in Acts /\ act'.at \in {"idle", "wait", "select"}
      /\ act'.at \in {"wait", "select"} => act'.mostWork = None
      /\ act'.at = "select" => act'.start = act.start
  BY SMTT(30), <1>1, <1>3, AfterStepIs
<1> HIDE DEF w
<1>5. ChainType'
  BY <1>1, <1>2, <1>4 DEF ChainType, received, Linked
<1>6. StoreInv' /\ NumberInv'
  BY <1>1 DEF StoreInv, NumberInv, received, Linked
<1>7. GoalInv'
  BY <1>4 DEF GoalInv
<1>8. MarkInv'
  BY <1>1, <1>2 DEF MarkInv, Unusable, Failed
<1>9. CandInv'
  BY <1>1, <1>4 DEF CandInv, received, Linked, Worse
<1> QED
  BY <1>5, <1>6, <1>7, <1>8, <1>9

\* A block that connects is on the unmarked way to the goal.
LEMMA ConnectTipInv ==
  ASSUME ChainInv, ConnectTip PROVE ChainInv'
<1> USE DEF ChainInv
<1> DEFINE w == NextToConnect
           m == act.mostWork
<1>1. /\ act.at = "connect"
      /\ tip' = w
      /\ scripts' = scripts \cup {w}
      /\ candidates' = {c \in candidates : ~Worse(seqId, c, w)}
      /\ UNCHANGED <<received, marks, env>>
  BY DEF ConnectTip, locks, PruneBlockIndexCandidates
<1>2. /\ w \in Blocks /\ w \in Chain[m] /\ w \in Linked(seqId) /\ w \in index
      /\ Chain[w] \subseteq Chain[m]
  BY <1>1, NextIs
<1>3. m \in Blocks /\ act.start \in Blocks /\ m # None /\ seqId \in [Blocks -> Nat]
  BY <1>1, ActFields, ChainStateAssumption DEF ChainType
<1>4. m \in candidates /\ Chain[m] \cap Unusable = {} /\ ~Worse(seqId, m, act.start)
  BY <1>1, <1>3 DEF GoalInv, CandInv
<1>5. m \in candidates'
  BY SMTT(30), <1>1, <1>2, <1>3, <1>4, WorseOrder
<1>6. /\ act' \in Acts
      /\ act'.at \in {"idle", "wait", "select", "connect"}
      /\ act'.at \in {"wait", "select", "connect"} => act'.mostWork = m /\ w # m
      /\ act'.at \in {"select", "connect"} => act'.start = act.start
  <2>1. CASE w = m \/ Height(w) > Height(act.oldTip)
    <3>1. act' = AfterStep(w, m, act.start)
      BY <2>1 DEF ConnectTip
    <3>2. /\ act' \in Acts /\ act'.at \in {"idle", "wait", "select"}
          /\ act'.at \in {"wait", "select"} => act'.mostWork = m
          /\ act'.at = "select" => act'.start = act.start /\ Worse(seqId, w, act.start)
          /\ act'.at = "wait" => w # m
      BY SMTT(30), <1>2, <1>3, <3>1, AfterStepIs
    <3> QED
      BY <3>2, <1>4
  <2>2. CASE ~(w = m \/ Height(w) > Height(act.oldTip))
    <3>1. act' = act
      BY <2>2 DEF ConnectTip
    <3> QED
      BY <3>1, <2>2, <1>1 DEF ChainType
  <2> QED
    BY <2>1, <2>2
<1> HIDE DEF w, m
<1>7. ChainType'
  BY <1>1, <1>2, <1>6 DEF ChainType, received, marks, Linked
<1>8. StoreInv' /\ NumberInv'
  BY <1>1, <1>2 DEF StoreInv, NumberInv, received, Linked
<1>9. Unusable' = Unusable /\ Failed' = Failed
  BY <1>1 DEF Unusable, Failed, marks
<1>10. GoalInv'
  BY <1>1, <1>2, <1>4, <1>5, <1>6, <1>9 DEF GoalInv
<1>11. MarkInv'
  BY <1>1, <1>2, <1>4, <1>9 DEF MarkInv, marks
<1>12. CandInv'
  BY <1>1, <1>6 DEF CandInv, received, Linked, Worse
<1> QED
  BY <1>7, <1>8, <1>10, <1>11, <1>12

\* A candidate stays no worse than the tip when the tip moves down its chain.
LEMMA LowerTip ==
  ASSUME ChainType, NEW t \in Chain[tip]
  PROVE \A c \in Blocks : ~Worse(seqId, c, tip) => ~Worse(seqId, c, t)
<1>1. tip \in Blocks /\ t \in Blocks /\ seqId \in [Blocks -> Nat]
  BY ChainBasics DEF ChainType
<1>2. ~Worse(seqId, tip, t)
  BY <1>1, WorseOrder
<1> QED
  BY <1>1, <1>2, WorseOrder

\* EnforceBlock marks siblings of the enforced chain, and what it disconnects; the
\* tip it ends at is on the enforced chain or was not touched.
LEMMA EnforceEffect ==
  ASSUME ChainType, StoreInv, NEW b \in index, EnforceBlock(b)
  PROVE LET D == {x \in Chain[tip] : Chain[x] \cap Siblings(b) # {}}
        IN /\ act.at = "idle"
           /\ Siblings(b) \subseteq index /\ D \subseteq index
           /\ (Siblings(b) \cup D) \cap Chain[b] = {}
           /\ conflict' = conflict \cup Siblings(b) \cup D
           /\ tip' \in Chain[tip]
           /\ Chain[tip'] \cap (Siblings(b) \cup D) = {}
           /\ D = {} => tip' = tip
           /\ D # {} => tip' = Fork(tip, b) /\ Chain[tip'] = Chain[tip] \cap Chain[b]
           /\ candidates' = IF Siblings(b) = {} THEN candidates
                            ELSE (candidates \ (Siblings(b) \cup D)) \cup
                                 EligibleFor(tip', Failed \cup conflict')
           /\ act' = IF b \in NotValid THEN [at |-> "reset", block |-> b] ELSE Idle
           /\ UNCHANGED <<received, scripts, failedValid, failedChild, failedBlocks, env>>
<1> DEFINE D == {x \in Chain[tip] : Chain[x] \cap Siblings(b) # {}}
<1>1. /\ act.at = "idle"
      /\ conflict' = conflict \cup Siblings(b) \cup D
      /\ tip' = IF D = {} THEN tip ELSE Fork(tip, b)
      /\ candidates' = IF Siblings(b) = {} THEN candidates
                       ELSE (candidates \ (Siblings(b) \cup D)) \cup
                            EligibleFor(tip', Failed \cup conflict')
      /\ act' = IF b \in NotValid THEN [at |-> "reset", block |-> b] ELSE Idle
      /\ UNCHANGED <<received, scripts, failedValid, failedChild, failedBlocks, env>>
  BY DEF EnforceBlock, MutexFree, locks
<1>2. b \in Blocks /\ tip \in Blocks
  BY DEF ChainType
<1>3. Siblings(b) \subseteq index /\ Siblings(b) \cap Chain[b] = {}
  BY DEF Siblings
<1>4. D \subseteq index
  BY StoredChains
<1>5. D \cap Chain[b] = {}
  BY SMTT(30), <1>2, <1>3, ChainTransitive
<1>6. D = {} => Chain[tip] \cap Siblings(b) = {}
  BY <1>2, ChainBasics
<1>7. /\ tip' \in Chain[tip]
      /\ Chain[tip'] \cap (Siblings(b) \cup D) = {}
      /\ D = {} => tip' = tip
      /\ D # {} => tip' = Fork(tip, b) /\ Chain[tip'] = Chain[tip] \cap Chain[b]
  <2> HIDE DEF D
  <2>1. CASE D = {}
    <3>1. tip' = tip /\ tip \in Chain[tip]
      BY <1>1, <1>2, <2>1, ChainBasics
    <3> QED
      BY <1>6, <2>1, <3>1
  <2>2. CASE D # {}
    <3>1. tip' = Fork(tip, b)
      BY <1>1, <2>2
    <3>2. tip' \in Blocks /\ Chain[tip'] = Chain[tip] \cap Chain[b]
      BY <3>1, <1>2, ForkIs
    <3>3. tip' \in Chain[tip]
      BY <3>2, ChainBasics
    <3> QED
      BY <1>3, <1>5, <2>2, <3>1, <3>2, <3>3
  <2> QED
    BY <2>1, <2>2
<1>8. (Siblings(b) \cup D) \cap Chain[b] = {}
  BY <1>3, <1>5
<1> QED
  BY <1>1, <1>3, <1>4, <1>7, <1>8

\* EnforceBlock.
LEMMA EnforceInv ==
  ASSUME ChainInv, NEW b \in index, EnforceBlock(b) PROVE ChainInv'
<1> USE DEF ChainInv
<1> DEFINE D == {x \in Chain[tip] : Chain[x] \cap Siblings(b) # {}}
           new == Siblings(b) \cup D
<1>1. /\ new \subseteq index
      /\ conflict' = conflict \cup new
      /\ tip' \in Chain[tip]
      /\ Chain[tip'] \cap new = {}
      /\ candidates' = IF Siblings(b) = {} THEN candidates
                       ELSE (candidates \ new) \cup EligibleFor(tip', Failed \cup conflict')
      /\ act' = IF b \in NotValid THEN [at |-> "reset", block |-> b] ELSE Idle
      /\ UNCHANGED <<received, scripts, failedValid, failedChild, failedBlocks, env>>
  BY EnforceEffect
<1> HIDE DEF new
<1>2. tip' \in index /\ tip' \in Linked(seqId) /\ tip \in Blocks /\ b \in Blocks
  BY <1>1, StoredChains DEF ChainType
<1>3. /\ act' \in Acts /\ act'.at \in {"idle", "reset"}
      /\ act'.at = "reset" => act'.block = b
  BY <1>1, <1>2, ActValues DEF Idle
<1>4. \A c \in candidates' : c \in index /\ c \in Linked(seqId) /\ ~Worse(seqId, c, tip')
  <2>1. \A c \in candidates : c \in index /\ c \in Linked(seqId) /\ ~Worse(seqId, c, tip')
    BY <1>1, LowerTip DEF CandInv, ChainType
  <2>2. \A c \in EligibleFor(tip', Failed \cup conflict') :
          c \in index /\ c \in Linked(seqId) /\ ~Worse(seqId, c, tip')
    BY DEF EligibleFor
  <2> QED
    BY <2>1, <2>2, <1>1
<1>5. ChainType'
  BY <1>1, <1>2, <1>3, <1>4 DEF ChainType, received, Linked
<1>6. StoreInv' /\ NumberInv'
  BY SMTT(30), <1>1, <1>2 DEF StoreInv, NumberInv, received, Linked
<1>7. GoalInv'
  BY <1>1, <1>3 DEF GoalInv, received
<1>8. MarkInv'
  <2>1. Chain[tip'] \subseteq Chain[tip]
    BY <1>1, <1>2, ChainTransitive
  <2> QED
    BY <2>1, <1>1 DEF MarkInv, Unusable, Failed
<1>9. CandInv'
  BY <1>1, <1>3, <1>4 DEF CandInv, received, Linked, Worse
<1> QED
  BY <1>5, <1>6, <1>7, <1>8, <1>9

\* ResetBlockFailureFlags only takes marks away, and a block that keeps
\* BLOCK_FAILED_CHILD alone keeps a failed parent.
LEMMA ResetEffect ==
  ASSUME ChainType, StoreInv, MarkInv, NEW b \in index, NEW i \in BOOLEAN,
         ResetBlockFailureFlags(b, i)
  PROVE /\ failedValid' \subseteq Failed /\ failedChild' \subseteq failedChild
        /\ failedBlocks' \subseteq failedValid'
        /\ conflict' \subseteq conflict
        /\ failedValid' \cup failedChild' \cup conflict' \subseteq Unusable
        /\ \A x \in failedChild' \ failedValid' :
             x # Genesis /\ Parent[x] \in failedValid' \cup failedChild'
        /\ \A c \in candidates' : c \in candidates \/ (c \in Linked(seqId) /\ Worse(seqId, tip, c))
        /\ \A c \in candidates \ Unusable : c \in candidates'
        /\ \A c \in candidates \ candidates' : c \in failedValid'
        /\ \A c \in (Unusable \cap Linked(seqId)) \ (failedValid' \cup failedChild' \cup conflict') :
             Worse(seqId, tip, c) => c \in candidates'
<1> DEFINE below == {x \in NotValid : b \in Chain[x]}
           conflicting == IF i THEN conflict \ below ELSE conflict
           above == Chain[b] \cap ((Failed \ below) \cup conflicting)
           cleared == below \cup above
           promoted == {x \in failedChild \ cleared : Parent[x] \in above}
<1>1. /\ failedChild' = failedChild \ cleared
      /\ failedValid' = (failedValid \ cleared) \cup promoted
      /\ failedBlocks' = (failedBlocks \ cleared) \cup promoted
      /\ conflict' = IF i THEN conflict \ cleared ELSE conflict
      /\ candidates' = (candidates \ promoted) \cup
           {x \in (cleared \cap Linked(seqId)) \ conflict' : Worse(seqId, tip, x)}
  BY DEF ResetBlockFailureFlags
<1>2. promoted \subseteq failedChild /\ \A x \in promoted : x \notin cleared
  OBVIOUS
<1>3. ASSUME NEW x \in failedChild' \ failedValid'
      PROVE x # Genesis /\ Parent[x] \in failedValid' \cup failedChild'
  <2>1. x \in failedChild /\ x \notin cleared /\ x \notin promoted /\ x \notin failedValid
    BY <1>1
  <2>2. x # Genesis /\ Parent[x] \in Failed /\ x \in Blocks
    BY <2>1 DEF MarkInv, ChainType
  <2>3. Parent[x] \notin above
    BY <2>1
  <2>4. Parent[x] \notin below
    <3>1. b \in Chain[Parent[x]] => b \in Chain[x]
      BY SMTT(30), <2>2, ChainBasics
    <3>2. x \in NotValid
      BY <2>1 DEF NotValid, Failed
    <3> QED
      BY <3>1, <3>2, <2>1
  <2>5. Parent[x] \notin cleared
    BY <2>3, <2>4
  <2> HIDE DEF cleared, promoted
  <2> QED
    BY <1>1, <2>2, <2>5 DEF Failed
<1>4. /\ failedValid' \subseteq Failed /\ failedChild' \subseteq failedChild
      /\ conflict' \subseteq conflict
      /\ failedBlocks' \subseteq failedValid'
  <2> HIDE DEF cleared, promoted
  <2> QED
    BY <1>1, <1>2 DEF Failed, MarkInv
<1>5. failedValid' \cup failedChild' \cup conflict' \subseteq Unusable
  BY <1>4 DEF Unusable, Failed
<1>6. \A c \in candidates' : c \in candidates \/ (c \in Linked(seqId) /\ Worse(seqId, tip, c))
  <2> HIDE DEF cleared, promoted
  <2> QED
    BY <1>1
<1>7. \A c \in candidates \ candidates' : c \in promoted /\ c \in failedValid' /\ c \in Unusable
  <2> HIDE DEF cleared, promoted
  <2> QED
    BY <1>1, <1>2 DEF Unusable, Failed
<1>8. ASSUME NEW c \in (Unusable \cap Linked(seqId)) \ (failedValid' \cup failedChild' \cup conflict'),
             Worse(seqId, tip, c)
      PROVE c \in candidates'
  <2>1. c \in cleared
    <3> HIDE DEF cleared, promoted
    <3> QED
      BY <1>1, <1>8 DEF Unusable, Failed
  <2> HIDE DEF cleared, promoted
  <2> QED
    BY <2>1, <1>1, <1>8
<1> QED
  BY <1>3, <1>4, <1>5, <1>6, <1>7, <1>8

\* The marks of a block's relatives are taken back.
LEMMA ResetInv ==
  ASSUME ChainInv, NEW b \in index, NEW i \in BOOLEAN, ResetBlockFailureFlags(b, i),
         act.at \notin {"select", "connect"}, act' \in {act, Idle},
         UNCHANGED <<received, scripts, tip, env>>
  PROVE ChainInv'
<1> USE DEF ChainInv
<1>0. ChainType /\ StoreInv /\ NumberInv /\ GoalInv /\ MarkInv /\ CandInv
  OBVIOUS
<1>1. /\ failedValid' \subseteq Failed /\ failedChild' \subseteq failedChild
      /\ failedBlocks' \subseteq failedValid'
      /\ conflict' \subseteq conflict
      /\ failedValid' \cup failedChild' \cup conflict' \subseteq Unusable
      /\ \A x \in failedChild' \ failedValid' :
           x # Genesis /\ Parent[x] \in failedValid' \cup failedChild'
      /\ \A c \in candidates' : c \in candidates \/ (c \in Linked(seqId) /\ Worse(seqId, tip, c))
      /\ \A c \in candidates \ Unusable : c \in candidates'
  BY <1>0, ResetEffect
<1>2. Unusable' \subseteq Unusable
  BY <1>1 DEF Unusable, Failed
<1>3. \A c \in candidates' : c \in index /\ c \in Linked(seqId) /\ ~Worse(seqId, c, tip)
  <2>1. \A c \in candidates : c \in index /\ c \in Linked(seqId) /\ ~Worse(seqId, c, tip)
    BY DEF CandInv, ChainType
  <2>2. \A c \in Linked(seqId) : c \in index /\ c \in Blocks
    BY StoredChains DEF ChainType
  <2>3. tip \in Blocks /\ seqId \in [Blocks -> Nat]
    BY DEF ChainType
  <2> QED
    BY <2>1, <2>2, <2>3, <1>1, WorseOrder
<1>4. ChainType'
  BY <1>1, <1>3, ActValues DEF ChainType, received, Linked, Failed
<1>5. StoreInv' /\ NumberInv'
  BY SMTT(30) DEF StoreInv, NumberInv, received, Linked
<1>6. GoalInv'
  <2>1. CASE act' = Idle
    BY <2>1 DEF GoalInv, Idle
  <2>2. CASE act' = act
    <3>1. (act.at = "wait" /\ act.mostWork # None) =>
            act.mostWork \in candidates' /\ Chain[act.mostWork] \cap Unusable' = {}
      <4>1. SUFFICES ASSUME act.at = "wait", act.mostWork # None
                     PROVE act.mostWork \in candidates' /\ Chain[act.mostWork] \cap Unusable' = {}
        OBVIOUS
      <4>2. act.mostWork \in candidates /\ Chain[act.mostWork] \cap Unusable = {}
            /\ act.mostWork \in Blocks
        BY <4>1 DEF GoalInv, ChainType
      <4> QED
        BY <4>2, <1>1, <1>2, ChainBasics
    <3> QED
      BY <2>2, <3>1 DEF GoalInv, received
  <2> QED
    BY <2>1, <2>2
<1>7. MarkInv'
  BY <1>1, <1>2 DEF MarkInv, Failed
<1>8. CandInv'
  BY SMTT(30), <1>3 DEF CandInv, received, Linked, Worse, Idle
<1> QED
  BY <1>4, <1>5, <1>6, <1>7, <1>8

\* The end of EnforceBlock.
LEMMA EnforceResetInv ==
  ASSUME ChainInv, EnforceReset PROVE ChainInv'
<1>1. /\ act.at = "reset" /\ ResetBlockFailureFlags(act.block, FALSE) /\ act' = Idle
      /\ UNCHANGED <<received, scripts, tip, env>>
  BY DEF EnforceReset, locks
<1>2. act.block \in index
  BY <1>1 DEF ChainInv, GoalInv
<1> QED
  BY <1>1, <1>2, ResetInv

\* reconsiderblock.
LEMMA ReconsiderInv ==
  ASSUME ChainInv, NEW b, ReconsiderBlock(b) PROVE ChainInv'
<1>1. /\ b \in index /\ CsMainFree /\ act' = act
      /\ UNCHANGED <<received, scripts, tip, env>>
  BY DEF ReconsiderBlock, locks
<1>2. PICK i \in BOOLEAN : ResetBlockFailureFlags(b, i)
  BY DEF ReconsiderBlock
<1>3. act.at \notin {"select", "connect"}
  BY <1>1 DEF CsMainFree
<1> QED
  BY <1>1, <1>2, <1>3, ResetInv

\* InvalidateBlock notes the blocks that may become candidates.
LEMMA InvalidateInv ==
  ASSUME ChainInv, NEW b \in Blocks \ {Genesis}, InvalidateBlock(b) PROVE ChainInv'
<1> USE DEF ChainInv
<1> DEFINE w == EligibleFor(Parent[b], Failed) \ Chain[tip]
<1>1. /\ b \in index
      /\ act' = [at |-> "disconnect", block |-> b, last |-> b, byWork |-> w]
      /\ UNCHANGED <<received, scripts, marks, candidates, tip, env>>
  BY DEF InvalidateBlock, locks
<1>2. w \subseteq index \cap Linked(seqId) /\ w \in SUBSET Blocks
  BY DEF EligibleFor, ChainType
<1> HIDE DEF w
<1>3. /\ act' \in Acts /\ act'.at = "disconnect" /\ act'.block = b /\ act'.last = b
      /\ act'.byWork = w
  BY <1>1, <1>2, ActValues
<1>4. ChainType'
  BY <1>1, <1>3 DEF ChainType, received, marks, Linked
<1>5. StoreInv' /\ NumberInv' /\ CandInv'
  BY <1>1, <1>3 DEF StoreInv, NumberInv, CandInv, received, Linked, Worse
<1>6. GoalInv' /\ MarkInv'
  BY <1>1, <1>2, <1>3 DEF GoalInv, MarkInv, Unusable, Failed, marks, received, Linked
<1> QED
  BY <1>4, <1>5, <1>6

\* InvalidateBlock disconnects the tip and marks it.
LEMMA DisconnectInv ==
  ASSUME ChainInv, InvalidateDisconnect PROVE ChainInv'
<1> USE DEF ChainInv
<1> DEFINE p == Parent[tip]
           added == {x \in act.byWork : ~Worse(seqId, x, p)}
<1>1. act.at = "disconnect" /\ act.block \in Chain[tip] /\ tip' = p
      /\ candidates' = (candidates \ {tip}) \cup {p} \cup added
      /\ UNCHANGED <<received, scripts, failedBlocks, conflict, env>>
      /\ failedValid' = (failedValid \cup {tip}) \ ({act.last} \cap {p} \cap failedValid)
      /\ failedChild' = failedChild \cup ({act.last} \cap {p} \cap failedValid)
      /\ act' = [act EXCEPT !.last = tip, !.byWork = @ \ added]
  BY DEF InvalidateDisconnect, locks
<1>2. tip # Genesis /\ tip \in Blocks
  BY <1>1, ChainBasics DEF GoalInv, ChainType
<1>3. /\ p \in Blocks /\ p \in Chain[tip] /\ tip \notin Chain[p] /\ Chain[p] \subseteq Chain[tip]
      /\ p \in index /\ p \in Linked(seqId)
  BY SMTT(30), <1>2, ChainBasics, ParentIsBelow DEF StoreInv, ChainType
<1>4. {act.last} \cap {p} \cap failedValid = {}
  BY <1>3 DEF MarkInv, Unusable, Failed
<1>5. /\ failedValid' = failedValid \cup {tip}
      /\ failedChild' = failedChild
  BY <1>1, <1>4
<1>6. /\ act' \in Acts /\ act'.at = "disconnect" /\ act'.block = act.block /\ act'.last = tip
      /\ act'.byWork = act.byWork \ added
  <2>1. /\ act = [at |-> "disconnect", block |-> act.block, last |-> act.last,
                  byWork |-> act.byWork]
        /\ act.block \in Blocks /\ act.byWork \in SUBSET Blocks
    BY <1>1, ActFields DEF ChainType
  <2> HIDE DEF added
  <2>2. act' = [at |-> "disconnect", block |-> act.block, last |-> tip,
                byWork |-> act.byWork \ added]
    BY <1>1, <2>1
  <2> QED
    BY <1>2, <2>1, <2>2, ActValues
<1>7. \A c \in candidates' : c \in index /\ c \in Linked(seqId) /\ ~Worse(seqId, c, p)
  <2>1. \A c \in candidates : c \in index /\ c \in Linked(seqId) /\ ~Worse(seqId, c, p)
    BY <1>3, LowerTip DEF CandInv, ChainType
  <2>2. ~Worse(seqId, p, p)
    BY <1>3, WorseOrder DEF ChainType
  <2>3. act.byWork \subseteq index \cap Linked(seqId)
    BY <1>1 DEF GoalInv
  <2> QED
    BY <1>1, <1>3, <2>1, <2>2, <2>3
<1> HIDE DEF p, added
<1>8. ChainType'
  BY <1>1, <1>2, <1>3, <1>5, <1>6, <1>7 DEF ChainType, received, Linked
<1>9. StoreInv' /\ NumberInv'
  BY <1>1, <1>3 DEF StoreInv, NumberInv, received, Linked
<1>10. GoalInv'
  BY SMTT(30), <1>1, <1>3, <1>6 DEF GoalInv, received, ChainType, Linked
<1>11. MarkInv'
  <2>1. Unusable' = Unusable \cup {tip} /\ Failed' = Failed \cup {tip}
    BY <1>1, <1>5 DEF Unusable, Failed
  <2> QED
    BY <2>1, <1>1, <1>3, <1>5 DEF MarkInv
<1>12. CandInv'
  BY <1>1, <1>6, <1>7 DEF CandInv, received, Linked, Worse
<1> QED
  BY <1>8, <1>9, <1>10, <1>11, <1>12

\* InvalidateBlock records the lowest disconnected block.
LEMMA FinishInv ==
  ASSUME ChainInv, InvalidateFinish PROVE ChainInv'
<1> USE DEF ChainInv
<1> DEFINE l == act.last
<1>1. /\ act.at = "disconnect" /\ act.block \notin Chain[tip]
      /\ failedValid' = failedValid \cup {l}
      /\ failedBlocks' = failedBlocks \cup {l}
      /\ candidates' = (candidates \ {l}) \cup EligibleFor(tip, Failed \cup {l} \cup conflict)
      /\ act' = Idle
      /\ UNCHANGED <<received, scripts, failedChild, conflict, tip, env>>
  BY DEF InvalidateFinish, locks
<1>2. l \in index /\ l \notin Chain[tip]
  BY <1>1 DEF GoalInv
<1>3. act' \in Acts /\ act'.at = "idle"
  BY <1>1, ActValues DEF Idle
<1>4. \A c \in candidates' : c \in index /\ c \in Linked(seqId) /\ ~Worse(seqId, c, tip)
  BY <1>1 DEF CandInv, ChainType, EligibleFor
<1> HIDE DEF l
<1>5. ChainType'
  BY <1>1, <1>2, <1>3, <1>4 DEF ChainType, received, Linked
<1>6. StoreInv' /\ NumberInv'
  BY <1>1 DEF StoreInv, NumberInv, received, Linked
<1>7. GoalInv'
  BY <1>3 DEF GoalInv
<1>8. MarkInv'
  BY <1>1, <1>2 DEF MarkInv, Unusable, Failed
<1>9. CandInv'
  BY <1>1, <1>3, <1>4 DEF CandInv, received, Linked, Worse
<1> QED
  BY <1>5, <1>6, <1>7, <1>8, <1>9

\* A step that leaves the chain state alone.
LEMMA UnchangedInv ==
  ASSUME ChainInv, UNCHANGED <<received, scripts, marks, candidates, tip, act, env>>
  PROVE ChainInv'
<1> USE DEF ChainInv
<1>1. ChainType'
  BY DEF ChainType, received, marks, Linked
<1>2. StoreInv' /\ NumberInv' /\ CandInv'
  BY SMTT(30) DEF StoreInv, NumberInv, CandInv, received, Linked, Worse
<1>3. GoalInv' /\ MarkInv'
  BY DEF GoalInv, MarkInv, Unusable, Failed, marks, received, Linked
<1> QED
  BY <1>1, <1>2, <1>3

\* The thread that holds m_chainstate_mutex goes on.
LEMMA ActivationInv ==
  ASSUME ChainInv, Activation PROVE ChainInv'
<1>1. CASE ActivateRound
  BY <1>1, ActivateRoundInv
<1>2. CASE ActivateSelect
  BY <1>2, SelectInv
<1>3. CASE ConnectFails
  BY <1>3, ConnectFailsInv
<1>4. CASE ConnectTip
  BY <1>4, ConnectTipInv
<1>5. CASE EnforceReset
  BY <1>5, EnforceResetInv
<1>6. CASE InvalidateDisconnect
  BY <1>6, DisconnectInv
<1>7. CASE InvalidateFinish
  BY <1>7, FinishInv
<1> QED
  BY <1>1, <1>2, <1>3, <1>4, <1>5, <1>6, <1>7 DEF Activation

\* The ChainLock handler's part of TypeOK.
LockBlockType == lockBlock \in Locks \cup {None} /\ isEnabled \in BOOLEAN

\* Every action keeps the invariant.
LEMMA ChainStepInv ==
  ASSUME ChainInv, LockBlockType, [Next]_vars PROVE ChainInv' /\ LockBlockType'
<1>1. CASE \E b \in Blocks \ {Genesis} : AcceptHeaderOfInvalidChain(b)
  BY <1>1, HeaderOfInvalidChainInv DEF AcceptHeaderOfInvalidChain, locks, LockBlockType, Locks
<1>2. CASE \E b \in Blocks \ {Genesis} : AcceptConflictingHeader(b)
  BY <1>2, ConflictingHeaderInv DEF AcceptConflictingHeader, locks, LockBlockType, Locks
<1>3. CASE \E b \in Blocks \ {Genesis} : AcceptBlockHeader(b) /\ UNCHANGED locks
  BY <1>3, HeaderInv DEF locks, LockBlockType, Locks
<1>4. CASE \E b \in Blocks \ {Genesis} : AcceptBadBlock(b)
  BY <1>4, BadBlockInv DEF AcceptBadBlock, locks, LockBlockType, Locks
<1>5. CASE \E b \in Blocks \ {Genesis} : AcceptBlock(b)
  BY <1>5, BlockInv DEF AcceptBlock, locks, LockBlockType, Locks
<1>6. CASE ActivateBestChain
  BY <1>6, ActivateBestChainInv DEF ActivateBestChain, locks, LockBlockType, Locks
<1>7. CASE Activation
  <2>1. UNCHANGED locks
    BY <1>7 DEF Activation, ActivateRound, ActivateSelect, ConnectFails, ConnectTip,
                EnforceReset, InvalidateDisconnect, InvalidateFinish
  <2> QED
    BY <1>7, <2>1, ActivationInv DEF locks, LockBlockType, Locks
<1>8. CASE \E b \in env.mayInvalidate : InvalidateBlock(b)
  <2>1. env.mayInvalidate \subseteq Blocks \ {Genesis}
    BY ChainStateAssumption DEF ChainInv, ChainType, Environment
  <2> QED
    BY <1>8, <2>1, InvalidateInv DEF InvalidateBlock, locks, LockBlockType, Locks
<1>9. CASE \E b \in env.mayReconsider : ReconsiderBlock(b)
  BY <1>9, ReconsiderInv DEF ReconsiderBlock, locks, LockBlockType, Locks
<1>10. CASE \E l \in Locks : NewLock(l)
  BY <1>10, UnchangedInv DEF NewLock, LockBlockType, Locks
<1>11. CASE lockBlock # None /\ EnforceBlock(lockBlock)
  <2>1. lockBlock \in index /\ UNCHANGED locks
    BY <1>11 DEF EnforceBlock
  <2> QED
    BY <1>11, <2>1, EnforceInv DEF locks, LockBlockType, Locks
<1>12. CASE UNCHANGED vars
  BY <1>12, UnchangedInv DEF vars, locks, LockBlockType, Locks
<1> QED
  BY <1>1, <1>2, <1>3, <1>4, <1>5, <1>6, <1>7, <1>8, <1>9, <1>10, <1>11, <1>12 DEF Next

\* The invariant holds throughout.
LEMMA ChainInvariant == Spec => [](ChainInv /\ LockBlockType)
<1>1. Init => ChainInv /\ LockBlockType
  BY EmptyInv DEF Init, EmptyIndex, LockBlockType
<1> QED
  BY <1>1, ChainStepInv, PTL DEF Spec

\* The invariant has the types, sequence numbers bounded by the number of blocks.
LEMMA ChainTypes ==
  ASSUME ChainInv, LockBlockType PROVE TypeOK
<1>1. Cardinality(Linked(seqId)) <= Cardinality(Blocks) /\ Cardinality(Blocks) \in Nat
      /\ Cardinality(Linked(seqId)) \in Nat
  <2>1. Linked(seqId) \in SUBSET Blocks
    BY DEF Linked
  <2> QED
    BY <2>1, BlockSets
<1>2. \A b \in Blocks : seqId[b] \in 0..Cardinality(Blocks)
  <2> TAKE b \in Blocks
  <2>1. seqId[b] \in Nat /\ seqId[b] <= Cardinality(Linked(seqId))
    BY DEF ChainInv, ChainType, NumberInv
  <2> QED
    BY SMTT(30), <2>1, <1>1
<1>3. seqId \in [Blocks -> 0..Cardinality(Blocks)]
  BY <1>2 DEF ChainInv, ChainType
<1> QED
  BY <1>3 DEF ChainInv, ChainType, LockBlockType, TypeOK, Failed

\* The block index keeps its types; sequence numbers stay below the number of
\* blocks.
THEOREM ChainStateTypes == Spec => []TypeOK
BY ChainInvariant, ChainTypes, PTL

\* CheckBlockIndex: every block marked as failed has an ancestor, or is itself,
\* BLOCK_FAILED_VALID, and m_failed_blocks holds only such blocks, whatever
\* failed connections, invalidateblock, reconsiderblock and EnforceBlock did.
THEOREM MarksHaveRoots == Spec => []FailedHaveInvalidRoot
<1>1. ChainInv => FailedHaveInvalidRoot
  BY MarkedHaveRoot DEF ChainInv, MarkInv, FailedHaveInvalidRoot
<1> QED
  BY <1>1, ChainInvariant, PTL

\* No block of the active chain is marked while cs_main is free, although the
\* block ActivateBestChain aims at is kept while other threads mark blocks.
THEOREM ActiveChainStaysUnmarked == Spec => []ActiveChainUnmarked
<1>1. ChainInv => ActiveChainUnmarked
  BY DEF ChainInv, MarkInv, ActiveChainUnmarked
<1> QED
  BY <1>1, ChainInvariant, PTL
=============================================================================
