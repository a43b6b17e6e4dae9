------------------------------- MODULE MCDKG -------------------------------
(***************************************************************************)
(* Instances of DKG: four members, of which m4 makes errors or is slow.    *)
(***************************************************************************)
EXTENDS DKG

CONSTANTS m1, m2, m3, m4, m5

MCMembers == {m1, m2, m3, m4}
FiveMembers == MCMembers \cup {m5}

\* The faults of a session in which only m4 makes errors
Session(errorsOfM4, unconnected, lost, slow) ==
    [errors |-> [n \in Members |-> IF n = m4 THEN errorsOfM4 ELSE {}],
     unconnected |-> unconnected, lost |-> lost, slow |-> slow]

ReliableSession(errorsOfM4) == Session(errorsOfM4, {}, {}, {})

MCFaultModels ==
    {ReliableSession({"contribution-omit", "commit-omit"}),
     ReliableSession({"contribution-lie", "complain-lie", "justify-omit"}),
     ReliableSession({"contribution-lie", "justify-lie", "commit-lie"}),
     Session({"contribution-lie", "justify-lie"}, {}, {<<m1, m2>>, <<m4, m3>>}, {}),
     Session({"contribution-lie"}, {<<m1, m4>>, <<m2, m4>>, <<m3, m4>>}, {<<m4, m3>>}, {}),
     Session({}, {}, {}, {m4})}

\* m4 sends wrong shares, and m1 finds that it has no connection to m4
UnconnectedSession == {Session({"contribution-lie"}, {<<m1, m4>>}, {}, {})}

\* m4 sends no contribution and complains
BadComplainerSession == {ReliableSession({"contribution-omit", "complain-lie"})}
============================================================================
