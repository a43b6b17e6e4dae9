--------------------------- MODULE MCInstantSend ---------------------------
(***************************************************************************)
(* Instances of InstantSend: transactions A and B spend the same coin, and *)
(* C spends an output of A.                                                *)
(***************************************************************************)
EXTENDS InstantSend, TLC

CONSTANTS g, a1, b1, b2, A, B, C, coin, outA, iA, iC

TreeParent == a1 :> g @@ b1 :> g @@ b2 :> b1
TxPrevout == coin :> Base @@ outA :> A
TxInputs == A :> {coin} @@ B :> {coin} @@ C :> {outA}
BlockTxs == g :> {} @@ a1 :> {A} @@ b1 :> {B} @@ b2 :> {}
LockTxid == iA :> A @@ iC :> C

\* A transaction or a block against an islock, and a ChainLock against both
Conflict == [masternode |-> FALSE, txs |-> {A, B}, trims |-> {}, blocks |-> {a1, b1, b2},
             locks |-> {iA}, sigs |-> {}, chainLocks |-> {b1}]
\* The same with a chain of two locked transactions
Chains == [masternode |-> FALSE, txs |-> {A, C}, trims |-> {}, blocks |-> {b1},
           locks |-> {iA, iC}, sigs |-> {}, chainLocks |-> {b1}]
\* A member of the quorum that votes
Member == [masternode |-> TRUE, txs |-> {A, C}, trims |-> {}, blocks |-> {a1},
           locks |-> {}, sigs |-> {iA, iC}, chainLocks |-> {a1}]
\* A mempool that is full,
Full == [masternode |-> FALSE, txs |-> {A, B, C}, trims |-> {A, C}, blocks |-> {},
         locks |-> {iA}, sigs |-> {}, chainLocks |-> {}]

All == {Conflict, Chains, Member, Full}
Conflicting == {Conflict}
=============================================================================
