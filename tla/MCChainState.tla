---------------------------- MODULE MCChainState ----------------------------
(***************************************************************************)
(* Small block trees for ChainState.                                       *)
(***************************************************************************)
EXTENDS ChainState

\* Two branches: a1-a2 and b1-b2, on top of the genesis block g.
TwoBranches ==
  [b \in {"a1", "a2", "b1", "b2"} |->
     CASE b = "a1" -> "g" [] b = "a2" -> "a1" [] b = "b1" -> "g" [] b = "b2" -> "b1"]
TwoBranchBlocks == {"g"} \cup DOMAIN TwoBranches

\* A long and a short branch, and a fork on the long one: a1-a2-a3, a1-c2, b1-b2.
ThreeBranches ==
  [b \in {"a1", "a2", "a3", "b1", "b2", "c2"} |->
     CASE b \in {"a1", "b1"} -> "g" [] b \in {"a2", "c2"} -> "a1"
       [] b = "a3" -> "a2" [] b = "b2" -> "b1"]
ThreeBranchBlocks == {"g"} \cup DOMAIN ThreeBranches

\* A long and a short branch: a1-a2-a3 and b1-b2.
LongBranches == [b \in {"a1", "a2", "a3", "b1", "b2"} |-> ThreeBranches[b]]
LongBranchBlocks == {"g"} \cup DOMAIN LongBranches

Quiet == [badData |-> {}, badBlocks |-> {}, mayInvalidate |-> {}, mayReconsider |-> {},
          locks |-> {}]

\* Blocks that fail and operators that intervene; a ChainLock on a branch that is
\* invalidated and reconsidered
FailuresOrLock ==
  {[Quiet EXCEPT !.badData = {"b2"}, !.badBlocks = {"a3"}, !.mayInvalidate = {"a1"},
                 !.mayReconsider = {"a2"}],
   [Quiet EXCEPT !.mayInvalidate = {"b1"}, !.mayReconsider = {"b1"}, !.locks = {"b1"}]}

InvalidateA1 == {[Quiet EXCEPT !.mayInvalidate = {"a1"}, !.mayReconsider = {"a1"}]}

\* A lock on a third branch, whose data has not come: a1 against b1-b2, and t1.
ThirdBranch ==
  [b \in {"a1", "b1", "b2", "t1"} |-> IF b = "b2" THEN "b1" ELSE "g"]
ThirdBranchBlocks == {"g"} \cup DOMAIN ThirdBranch
LockT1 == {[Quiet EXCEPT !.locks = {"t1"}]}
=============================================================================
