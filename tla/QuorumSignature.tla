-------------------------- MODULE QuorumSignature --------------------------
(***************************************************************************)
(* What the signing managers promise to ChainLocks, InstantSend and the    *)
(* other users of recovered signatures, whatever nodes, votes, shares and  *)
(* messages it takes: for every request id at most one signature comes     *)
(* into being, on one message and by one quorum, and a node that reports a *)
(* signature reports that one.  A node may forget what it knew (the        *)
(* database is cleaned up), and learn it again.                            *)
(***************************************************************************)
CONSTANTS
    Nodes,    \* the nodes that run the code
    Ids,      \* request ids
    Sessions, \* what can be signed: records with at least an id
    None

VARIABLES
    produced, \* the sessions that have a signature
    known     \* known[n][i]: the signature that n has for id i

vars == <<produced, known>>

Init ==
    /\ produced = {}
    /\ known = [n \in Nodes |-> [i \in Ids |-> None]]

\* A quorum signs, and no other session of that id is ever signed.
Produce(s) ==
    /\ \A p \in produced : p.id # s.id
    /\ produced' = produced \cup {s}
    /\ UNCHANGED known

\* A node learns a signature.
Learn(n, s) ==
    /\ known[n][s.id] # s
    /\ known' = [known EXCEPT ![n][s.id] = s]
    /\ UNCHANGED produced

\* A node forgets a signature.
Forget(n, i) ==
    /\ known[n][i] # None
    /\ known' = [known EXCEPT ![n][i] = None]
    /\ UNCHANGED produced

Next ==
    \/ \E s \in Sessions \ produced : Produce(s)
    \/ \E s \in produced, n \in Nodes : Learn(n, s)
    \/ \E n \in Nodes, i \in Ids : Forget(n, i)

Spec == Init /\ [][Next]_vars
============================================================================
