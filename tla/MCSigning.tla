----------------------------- MODULE MCSigning -----------------------------
(***************************************************************************)
(* Instances of Signing for TLC.                                           *)
(***************************************************************************)
EXTENDS Signing, TLC

CONSTANTS n1, n2, n3, n4, m1, m2, q1, q2, cl, other

\* Quorums of one, two and three members
QuorumOf1  == q1 :> {n1}
QuorumOf2  == q1 :> {n1, n2}
QuorumOf3  == q1 :> {n1, n2, n3}
TwoOf      == [q \in Quorums |-> 2]

\* One quorum of four members, n4 faulty, three shares needed
QuorumOf4  == q1 :> {n1, n2, n3, n4}
ThreeOf    == [q \in Quorums |-> 3]

\* Two disjoint quorums of one member each: the smallest pair of quorums that
\* different members can select for one id around a new quorum's confirmation
DisjointQuorums == q1 :> {n1} @@ q2 :> {n2}
OneOf           == [q \in Quorums |-> 1]

\* Shares are sent to one recovery member
OnlyN1     == q1 :> {n1}

SelectAny  == [i \in Ids |-> Quorums]
OneCaller  == [i \in Ids |-> {cl}]
AnyCaller  == [i \in Ids |-> Threads]

MsgSymmetry    == Permutations(Msgs)
RelaySymmetry  == Permutations({n2, n3}) \cup Permutations(Msgs)
============================================================================
