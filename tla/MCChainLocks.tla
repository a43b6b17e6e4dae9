---------------------------- MODULE MCChainLocks ----------------------------
(***************************************************************************)
(* Small block trees for ChainLocks.                                       *)
(***************************************************************************)
EXTENDS ChainLocks, Sequences

\* Two branches: a1-a2 and b1-b2, on top of the genesis block g.
TwoBranches ==
  [b \in {"a1", "a2", "b1", "b2"} |->
     CASE b \in {"a1", "b1"} -> "g" [] b = "a2" -> "a1" [] b = "b2" -> "b1"]
TwoBranchBlocks == {"g"} \cup DOMAIN TwoBranches

\* The smallest reorganisation: a1-a2 against b1.
ShortBranch == [b \in {"a1", "a2", "b1"} |-> TwoBranches[b]]
ShortBranchBlocks == {"g"} \cup DOMAIN ShortBranch

\* Two locks below and at a fork: b1-b2 against b1-c2-c3.
LateFork ==
  [b \in {"b1", "b2", "c2", "c3"} |->
     CASE b = "b1" -> "g" [] b \in {"b2", "c2"} -> "b1" [] b = "c3" -> "c2"]
LateForkBlocks == {"g"} \cup DOMAIN LateFork

LocksOn(L) == {[badData |-> {}, badBlocks |-> {}, mayInvalidate |-> {}, mayReconsider |-> {},
                locks |-> L]}
LockB1 == LocksOn({"b1"})
LockB1B2 == LocksOn({"b1", "b2"})

\* A lock that comes in during a reorganisation: n-s2 against n-u2-u3, with locks
\* on n and on n-t2, and a branch d1-d2 beside them.
Sidings ==
  [b \in {"n", "s2", "u2", "u3", "t2", "d1", "d2"} |->
     CASE b \in {"n", "d1"} -> "g" [] b \in {"s2", "u2", "t2"} -> "n"
       [] b = "u3" -> "u2" [] b = "d2" -> "d1"]
SidingBlocks == {"g"} \cup DOMAIN Sidings
LockNT2 == LocksOn({"n", "t2"})

\* All headers come first, then the data of all blocks but t2, in one order; the
\* first lock comes when s2 is the tip.
HeaderOrder == <<"g", "n", "s2", "u2", "u3", "t2", "d1", "d2">>
DataOrder == <<"g", "n", "s2", "u2", "u3", "d1", "d2">>
InOrder(S, order) == \E k \in 1..Len(order) : S = {order[i] : i \in 1..k}
LocksComeLate ==
  /\ InOrder(index, HeaderOrder)
  /\ InOrder(data, DataOrder)
  /\ data # {"g"} => index = Blocks
  /\ best # None => "s2" \in Chain[tip] \cup failedValid \/ act.at # "idle"
=============================================================================
