----------------------------- MODULE DKGProofs -----------------------------
(***************************************************************************)
(* Proofs about DKG, for every quorum and every set of faults.             *)
(*                                                                         *)
(* What is final rests on what was sent and never changes: a member sends  *)
(* at most one message per phase (SentInv), so a share that was verified   *)
(* against a message stays right (ShareInv), and the commitments that a    *)
(* final commitment counts stay what they were (FinalInv).                 *)
(***************************************************************************)
EXTENDS DKG, TLAPS

\* A leaf is given to Zenon unless it names another prover.
USE ZenonT(30)

USE DEF Contrib, Complain, Justify, Commit, Finalize, Phases

\* n's thread has run the function of phase k
Past(n, k) == phase[n] > k \/ (phase[n] = k /\ run[n] # "sleep")

SentInv ==
    \A n \in Members :
        /\ contribution[n] # None => Past(n, Contrib)
        /\ complaint[n] # None => Past(n, Complain)
        /\ justification[n] # None => Past(n, Justify)
        /\ commitment[n] # None => Past(n, Commit)

HandledInv ==
    \A n, s \in Members :
        /\ s \in handled[n][Contrib] => contribution[s] # None
        /\ s \in handled[n][Complain] => complaint[s] # None
        /\ s \in handled[n][Justify] => justification[s] # None
        /\ s \in handled[n][Commit] => commitment[s] # None

\* The share m gave n, at once or in a justification, is right.
RightShare(n, m) ==
    \/ contribution[m] # None /\ n \in contribution[m]
    \/ justification[m] # None /\ n \in justification[m].for \ justification[m].wrong

ShareInv == \A n, m \in Members : m \in skContributions[n] => RightShare(n, m)

CommitmentInv == \A n \in Members : commitment[n] # None => commitment[n] \subseteq skContributions[n]

FinalInv ==
    \A n \in Members : \A f \in final[n] :
        /\ f.signers \in SUBSET Members
        /\ Cardinality(f.signers) >= MinSize
        /\ \A s \in f.signers : commitment[s] # None /\ commitment[s] = f.valid

DkgInv == TypeOK /\ SentInv /\ HandledInv /\ ShareInv /\ CommitmentInv /\ FinalInv

-----------------------------------------------------------------------------
(* The operators of the model.                                             *)

\* The messages of a phase come from members.
LEMMA MessagesAre ==
    /\ Messages(Contrib) = {s \in Members : contribution[s] # None}
    /\ Messages(Complain) = {s \in Members : complaint[s] # None}
    /\ Messages(Justify) = {s \in Members : justification[s] # None}
    /\ Messages(Commit) = {s \in Members : commitment[s] # None}
BY SMTT(30) DEF Messages

\* What arrives in a phase was sent in it and not handled before.
LEMMA ArrivalsAreMessages ==
    ASSUME NEW n \in Members, NEW k \in Phases, NEW R \in Arrivals(n, k)
    PROVE  R \subseteq Messages(k) \ handled[n][k]
BY DEF Arrivals

\* A lie is about members.
LEMMA LiesAreSubsets ==
    ASSUME NEW n, NEW e, NEW S, NEW L \in Lies(n, e, S)
    PROVE  L \subseteq S
BY DEF Lies

\* A final commitment is signed by those, and at least minSize, who sent the same
\* premature commitment.
LEMMA FinalCommitmentsAre ==
    ASSUME NEW R \in SUBSET Members, \A s \in R : commitment[s] \in SUBSET Members,
           NEW f \in FinalCommitments(R)
    PROVE  /\ f \in FinalCommitment
           /\ f.signers \subseteq R
           /\ Cardinality(f.signers) >= MinSize
           /\ \A s \in f.signers : commitment[s] = f.valid
<1> DEFINE Signers(V) == {s \in R : commitment[s] = V}
<1>1. PICK V \in {commitment[s] : s \in R} :
          Cardinality(Signers(V)) >= MinSize /\ f = [valid |-> V, signers |-> Signers(V)]
  BY DEF FinalCommitments
<1>2. V \in SUBSET Members /\ Signers(V) \in SUBSET Members
  BY <1>1
<1>3. f.valid = V /\ f.signers = Signers(V)
  BY <1>1
<1>4. f \in FinalCommitment
  BY <1>1, <1>2 DEF FinalCommitment
<1> QED BY <1>1, <1>3, <1>4

-----------------------------------------------------------------------------
(* Types.                                                                  *)

\* The types hold at the start.
LEMMA TypeInit == Init => TypeOK
BY SMTT(30) DEF Init, TypeOK

\* Justifications change nothing but what is known of their senders.
LEMMA JustificationsType ==
    ASSUME TypeOK, NEW n \in Members, NEW R \in SUBSET Members, ReceiveJustifications(n, R)
    PROVE  /\ bad' \in [Members -> SUBSET Members]
           /\ weComplain' \in [Members -> SUBSET Members]
           /\ skContributions' \in [Members -> SUBSET Members]
           /\ complaintsFromOthers' \in [Members -> [Members -> SUBSET Members]]
           /\ handled' \in [Members -> [Phases -> SUBSET Members]]
<1>1. JustifiedBy(n, R) \in SUBSET Members
  BY DEF JustifiedBy
<1>2. bad' \in [Members -> SUBSET Members]
  BY <1>1 DEF ReceiveJustifications, TypeOK
<1>3. weComplain' \in [Members -> SUBSET Members] /\ skContributions' \in [Members -> SUBSET Members]
  BY <1>1 DEF ReceiveJustifications, TypeOK
<1>4. handled' \in [Members -> [Phases -> SUBSET Members]]
  BY SMTT(30) DEF ReceiveJustifications, TypeOK
<1>5. complaintsFromOthers' \in [Members -> [Members -> SUBSET Members]]
  <2> DEFINE row == [m \in Members |-> IF m \in JustifiedBy(n, R)
                                       THEN complaintsFromOthers[n][m] \ RightShares(n, m)
                                       ELSE complaintsFromOthers[n][m]]
  <2>1. row \in [Members -> SUBSET Members]
    BY SMTT(30) DEF TypeOK
  <2>2. complaintsFromOthers' = [complaintsFromOthers EXCEPT ![n] = row]
    BY DEF ReceiveJustifications, TypeOK
  <2> HIDE DEF row
  <2> QED BY <2>1, <2>2 DEF TypeOK
<1> QED BY <1>2, <1>3, <1>4, <1>5

\* Every step keeps the types.
LEMMA TypeStep == TypeOK /\ HandledInv /\ [Next]_vars => TypeOK'
<1> SUFFICES ASSUME TypeOK, HandledInv, [Next]_vars PROVE TypeOK'
    OBVIOUS
<1> USE DEF sent, local
<1>1. CASE UpdatedBlockTip
  BY SMTT(30), <1>1 DEF UpdatedBlockTip, TypeOK
<1>2. ASSUME NEW n \in Members, Contribute(n) PROVE TypeOK'
  <2>1. contribution' \in [Members -> (SUBSET Members) \cup {None}]
    <3>1. CASE UNCHANGED contribution
      BY <3>1 DEF TypeOK
    <3>2. ASSUME NEW L \in Lies(n, "contribution-lie", Members \ {n}),
                 contribution' = [contribution EXCEPT ![n] = Members \ L]
          PROVE  contribution' \in [Members -> (SUBSET Members) \cup {None}]
      BY <3>2 DEF TypeOK
    <3> QED BY <1>2, <3>1, <3>2 DEF Contribute
  <2> QED BY <1>2, <2>1 DEF Contribute, Starts, TypeOK
<1>3. ASSUME NEW n \in Members, ReceiveContributions(n) PROVE TypeOK'
  <2>1. PICK R \in Arrivals(n, Contrib) :
            /\ handled' = [handled EXCEPT ![n][Contrib] = @ \cup R]
            /\ \E L \in Lies(n, "complain-lie", R \ {n}) :
                  weComplain' = [weComplain EXCEPT ![n] = @ \cup L]
    BY <1>3 DEF ReceiveContributions
  <2>2. R \in SUBSET Members
    BY SMTT(30), ArrivalsAreMessages, MessagesAre
  <2>3. handled' \in [Members -> [Phases -> SUBSET Members]]
    BY SMTT(30), <2>1, <2>2 DEF TypeOK
  <2>4. weComplain' \in [Members -> SUBSET Members]
    BY SMTT(30), <2>1, <2>2, LiesAreSubsets DEF TypeOK
  <2> QED BY SMTT(30), <1>3, <2>3, <2>4 DEF ReceiveContributions, EnterPhase, TypeOK
<1>4. ASSUME NEW n \in Members, VerifyAndComplain(n) PROVE TypeOK'
  <2>1. /\ bad' \in [Members -> SUBSET Members]
        /\ weComplain' \in [Members -> SUBSET Members]
        /\ skContributions' \in [Members -> SUBSET Members]
    BY SMTT(30), <1>4 DEF VerifyAndComplain, TypeOK, WrongShares, PendingContributions
  <2>2. complaint' \in [Members -> ComplaintMsg \cup {None}]
    <3> DEFINE complain == weComplain[n] \cup WrongShares(n)
               badNow == bad[n] \cup (Members \ handled[n][Contrib])
    <3>1. PICK C \in SUBSET {m \in Members \ {n} : <<n, m>> \in faults.unconnected} :
              LET qc == [bad |-> badNow \cup C, complain |-> complain \ (badNow \cup C)] IN
              complaint' = IF InTime(Complain) /\ (qc.bad # {} \/ qc.complain # {})
                           THEN [complaint EXCEPT ![n] = qc]
                           ELSE complaint
      BY <1>4 DEF VerifyAndComplain
    <3>2. complain \in SUBSET Members /\ badNow \in SUBSET Members
      BY SMTT(30) DEF TypeOK, WrongShares, PendingContributions
    <3> HIDE DEF complain, badNow
    <3>3. [bad |-> badNow \cup C, complain |-> complain \ (badNow \cup C)] \in ComplaintMsg
      BY <3>2 DEF ComplaintMsg
    <3> QED BY <3>1, <3>3 DEF TypeOK
  <2> QED BY <1>4, <2>1, <2>2 DEF VerifyAndComplain, Starts, TypeOK
<1>5. ASSUME NEW n \in Members, ReceiveComplaints(n) PROVE TypeOK'
  <2>1. PICK R \in Arrivals(n, Complain) :
            /\ handled' = [handled EXCEPT ![n][Complain] = @ \cup R]
            /\ complaintsFromOthers' = [complaintsFromOthers EXCEPT ![n] =
                    [m \in Members |-> @[m] \cup {s \in R : m \in complaint[s].complain}]]
    BY <1>5 DEF ReceiveComplaints
  <2>2. R \in SUBSET Members
    BY SMTT(30), ArrivalsAreMessages, MessagesAre
  <2>3. handled' \in [Members -> [Phases -> SUBSET Members]]
    BY SMTT(30), <2>1, <2>2 DEF TypeOK
  <2>4. complaintsFromOthers' \in [Members -> [Members -> SUBSET Members]]
    <3> DEFINE row == [m \in Members |-> complaintsFromOthers[n][m]
                                         \cup {s \in R : m \in complaint[s].complain}]
    <3>1. row \in [Members -> SUBSET Members]
      BY SMTT(30), <2>2 DEF TypeOK
    <3>2. complaintsFromOthers' = [complaintsFromOthers EXCEPT ![n] = row]
      BY <2>1 DEF TypeOK
    <3> HIDE DEF row
    <3> QED BY <3>1, <3>2 DEF TypeOK
  <2> QED BY SMTT(30), <1>5, <2>3, <2>4 DEF ReceiveComplaints, EnterPhase, TypeOK
<1>6. ASSUME NEW n \in Members, EarlyJustifications(n) PROVE TypeOK'
  BY <1>6, JustificationsType, MessagesAre DEF EarlyJustifications, TypeOK
<1>7. ASSUME NEW n \in Members, VerifyAndJustify(n) PROVE TypeOK'
  <2>1. JustifyFor(n, bad[n] \cup VotedBad(n)) \in SUBSET Members /\ VotedBad(n) \in SUBSET Members
    BY SMTT(30) DEF JustifyFor, VotedBad, TypeOK
  <2>2. justification' \in [Members -> JustifyMsg \cup {None}]
    <3>1. CASE UNCHANGED justification
      BY <3>1 DEF TypeOK
    <3>2. CASE \E L \in Lies(n, "justify-lie", JustifyFor(n, bad[n] \cup VotedBad(n)) \ {n}) :
                  justification' = [justification EXCEPT ![n] =
                     [for |-> JustifyFor(n, bad[n] \cup VotedBad(n)), wrong |-> L]]
      <4> DEFINE for == JustifyFor(n, bad[n] \cup VotedBad(n))
      <4>1. PICK L \in Lies(n, "justify-lie", for \ {n}) :
                justification' = [justification EXCEPT ![n] = [for |-> for, wrong |-> L]]
        BY <3>2
      <4>2. L \subseteq for \ {n}
        BY LiesAreSubsets
      <4>3. [for |-> for, wrong |-> L] \in JustifyMsg
        BY <2>1, <4>2 DEF JustifyMsg
      <4> QED BY <4>1, <4>3 DEF TypeOK
    <3> QED BY <1>7, <3>1, <3>2 DEF VerifyAndJustify
  <2>3. bad' \in [Members -> SUBSET Members]
    BY <1>7, <2>1 DEF VerifyAndJustify, TypeOK
  <2> QED BY <1>7, <2>2, <2>3 DEF VerifyAndJustify, Starts, TypeOK
<1>8. ASSUME NEW n \in Members, LateJustifications(n) PROVE TypeOK'
  BY SMTT(30), <1>8, JustificationsType, ArrivalsAreMessages, MessagesAre DEF LateJustifications, EnterPhase, TypeOK
<1>9. ASSUME NEW n \in Members, VerifyAndCommit(n) PROVE TypeOK'
  <2>1. bad' \in [Members -> SUBSET Members]
    BY <1>9 DEF VerifyAndCommit, TypeOK, OpenComplaints
  <2>2. commitment' \in [Members -> (SUBSET Members) \cup {None}]
    <3> DEFINE valid == Members \ (bad[n] \cup OpenComplaints(n))
    <3>1. commitment' = [commitment EXCEPT ![n] = valid] \/ commitment' = commitment
      BY <1>9 DEF VerifyAndCommit
    <3>2. valid \in SUBSET Members /\ commitment \in [Members -> (SUBSET Members) \cup {None}]
      BY DEF TypeOK
    <3> HIDE DEF valid
    <3> QED BY <3>1, <3>2
  <2>3. run' \in [Members -> {"sleep", "wait", "done", "aborted", "crashed"}]
    BY <1>9 DEF VerifyAndCommit, TypeOK
  <2> QED BY <1>9, <2>1, <2>2, <2>3 DEF VerifyAndCommit, TypeOK
<1>10. ASSUME NEW n \in Members, FinalizeCommitments(n) PROVE TypeOK'
  <2>1. PICK R \in Arrivals(n, Commit) :
            /\ handled' = [handled EXCEPT ![n][Commit] = @ \cup R]
            /\ final' = [final EXCEPT ![n] = FinalCommitments(handled'[n][Commit])]
    BY <1>10 DEF FinalizeCommitments
  <2>2. R \in SUBSET Members
    BY SMTT(30), ArrivalsAreMessages, MessagesAre
  <2>3. handled' \in [Members -> [Phases -> SUBSET Members]]
    BY SMTT(30), <2>1, <2>2 DEF TypeOK
  <2>4. \A s \in handled'[n][Commit] : s \in Members /\ commitment[s] \in SUBSET Members
    <3>1. handled'[n][Commit] = handled[n][Commit] \cup R
      BY SMTT(30), <2>1 DEF TypeOK
    <3>2. \A s \in R : commitment[s] # None
      BY SMTT(30), ArrivalsAreMessages, MessagesAre
    <3>3. \A s \in handled[n][Commit] : s \in Members /\ commitment[s] # None
      BY SMTT(30) DEF TypeOK, HandledInv
    <3> QED BY <2>2, <3>1, <3>2, <3>3 DEF TypeOK
  <2>5. FinalCommitments(handled'[n][Commit]) \in SUBSET FinalCommitment
    <3>1. handled'[n][Commit] \in SUBSET Members
      BY SMTT(30), <2>3
    <3> QED BY <2>4, <3>1, FinalCommitmentsAre
  <2>6. final' \in [Members -> SUBSET FinalCommitment]
    BY <2>1, <2>5 DEF TypeOK
  <2> QED BY <1>10, <2>3, <2>6 DEF FinalizeCommitments, TypeOK
<1>11. ASSUME NEW n \in Members, AbortPhase(n) PROVE TypeOK'
  BY <1>11 DEF AbortPhase, TypeOK
<1>12. CASE UNCHANGED vars
  BY <1>12 DEF vars, TypeOK
<1> QED BY <1>1, <1>2, <1>3, <1>4, <1>5, <1>6, <1>7, <1>8, <1>9, <1>10, <1>11, <1>12
           DEF Next, HandleDKGRound

-----------------------------------------------------------------------------
(* What is sent is sent once, and stays.                                   *)

\* Each kind of message is sent by the function of its phase.
LEMMA SentBy ==
    ASSUME [Next]_vars
    PROVE  /\ contribution' = contribution \/ \E n \in Members : Contribute(n)
           /\ complaint' = complaint \/ \E n \in Members : VerifyAndComplain(n)
           /\ justification' = justification \/ \E n \in Members : VerifyAndJustify(n)
           /\ commitment' = commitment \/ \E n \in Members : VerifyAndCommit(n)
<1> USE DEF sent, local
<1>1. contribution' = contribution \/ \E n \in Members : Contribute(n)
  BY DEF Next, HandleDKGRound, UpdatedBlockTip, ReceiveContributions, VerifyAndComplain, ReceiveComplaints,
         EarlyJustifications, VerifyAndJustify, LateJustifications, VerifyAndCommit, FinalizeCommitments,
         AbortPhase, vars
<1>2. complaint' = complaint \/ \E n \in Members : VerifyAndComplain(n)
  BY DEF Next, HandleDKGRound, UpdatedBlockTip, Contribute, ReceiveContributions, ReceiveComplaints,
         EarlyJustifications, VerifyAndJustify, LateJustifications, VerifyAndCommit, FinalizeCommitments,
         AbortPhase, vars
<1>3. justification' = justification \/ \E n \in Members : VerifyAndJustify(n)
  BY DEF Next, HandleDKGRound, UpdatedBlockTip, Contribute, ReceiveContributions, VerifyAndComplain,
         ReceiveComplaints, EarlyJustifications, LateJustifications, VerifyAndCommit, FinalizeCommitments,
         AbortPhase, vars
<1>4. commitment' = commitment \/ \E n \in Members : VerifyAndCommit(n)
  BY DEF Next, HandleDKGRound, UpdatedBlockTip, Contribute, ReceiveContributions, VerifyAndComplain,
         ReceiveComplaints, EarlyJustifications, VerifyAndJustify, LateJustifications, FinalizeCommitments,
         AbortPhase, vars
<1> QED BY <1>1, <1>2, <1>3, <1>4

\* What a member has sent in a phase does not change: only the function of the phase
\* sends, and a thread runs it once.
LEMMA SentStable ==
    ASSUME TypeOK, SentInv, [Next]_vars, NEW s \in Members
    PROVE  /\ contribution[s] # None => contribution'[s] = contribution[s]
           /\ complaint[s] # None => complaint'[s] = complaint[s]
           /\ justification[s] # None => justification'[s] = justification[s]
           /\ commitment[s] # None => commitment'[s] = commitment[s]
<1> USE DEF sent, local
<1>1. ASSUME NEW n \in Members, Contribute(n)
      PROVE  contribution[s] # None => contribution'[s] = contribution[s]
  <2>1. contribution[n] = None
    BY SMTT(30), <1>1 DEF Contribute, Starts, SentInv, Past, TypeOK
  <2> QED BY <1>1, <2>1 DEF Contribute, TypeOK
<1>2. ASSUME NEW n \in Members, VerifyAndComplain(n)
      PROVE  complaint[s] # None => complaint'[s] = complaint[s]
  <2>1. complaint[n] = None
    BY SMTT(30), <1>2 DEF VerifyAndComplain, Starts, SentInv, Past, TypeOK
  <2> QED BY <1>2, <2>1 DEF VerifyAndComplain, TypeOK
<1>3. ASSUME NEW n \in Members, VerifyAndJustify(n)
      PROVE  justification[s] # None => justification'[s] = justification[s]
  <2>1. justification[n] = None
    BY SMTT(30), <1>3 DEF VerifyAndJustify, Starts, SentInv, Past, TypeOK
  <2> QED BY <1>3, <2>1 DEF VerifyAndJustify, TypeOK
<1>4. ASSUME NEW n \in Members, VerifyAndCommit(n)
      PROVE  commitment[s] # None => commitment'[s] = commitment[s]
  <2>1. commitment[n] = None
    BY SMTT(30), <1>4 DEF VerifyAndCommit, SentInv, Past, TypeOK
  <2> QED BY SMTT(30), <1>4, <2>1 DEF VerifyAndCommit, TypeOK
<1> QED BY <1>1, <1>2, <1>3, <1>4, SentBy

\* A thread never goes back to before a function it has run.
LEMMA PastStable ==
    ASSUME TypeOK, [Next]_vars, NEW n \in Members, NEW k \in Phases, Past(n, k)
    PROVE  Past(n, k)'
<1> USE DEF sent, local, Past
<1>1. CASE UNCHANGED <<phase, run>>
  BY <1>1
<1>2. ASSUME NEW m \in Members, phase' = phase,
             \/ run' = [run EXCEPT ![m] = "wait"]
             \/ run' = [run EXCEPT ![m] = "done"]
             \/ run' = [run EXCEPT ![m] = "aborted"]
             \/ run' = [run EXCEPT ![m] = "crashed"]
      PROVE  Past(n, k)'
  BY <1>2 DEF TypeOK
<1>3. ASSUME NEW m \in Members, NEW j \in Phases, phase[m] = j, EnterPhase(m, j + 1)
      PROVE  Past(n, k)'
  BY SMTT(30), <1>3 DEF EnterPhase, TypeOK
<1>4. CASE UpdatedBlockTip \/ UNCHANGED vars \/ \E m \in Members : EarlyJustifications(m)
  BY <1>1, <1>4 DEF UpdatedBlockTip, vars, EarlyJustifications
<1>5. ASSUME NEW m \in Members,
             \/ Contribute(m) \/ VerifyAndComplain(m) \/ VerifyAndJustify(m) \/ VerifyAndCommit(m)
             \/ FinalizeCommitments(m) \/ AbortPhase(m)
      PROVE  Past(n, k)'
  BY <1>2, <1>5 DEF Contribute, VerifyAndComplain, VerifyAndJustify, VerifyAndCommit,
                    FinalizeCommitments, AbortPhase, Starts
<1>6. ASSUME NEW m \in Members, ReceiveContributions(m) PROVE Past(n, k)'
  BY SMTT(30), <1>3, <1>6 DEF ReceiveContributions, NextPhase
<1>7. ASSUME NEW m \in Members, ReceiveComplaints(m) PROVE Past(n, k)'
  BY SMTT(30), <1>3, <1>7 DEF ReceiveComplaints, NextPhase
<1>8. ASSUME NEW m \in Members, LateJustifications(m) PROVE Past(n, k)'
  BY SMTT(30), <1>3, <1>8 DEF LateJustifications, NextPhase
<1> QED BY <1>4, <1>5, <1>6, <1>7, <1>8 DEF Next, HandleDKGRound

\* A message is sent by the function of its phase only.
LEMMA SentStep == TypeOK /\ SentInv /\ [Next]_vars => SentInv'
<1> SUFFICES ASSUME TypeOK, SentInv, [Next]_vars PROVE SentInv'
    OBVIOUS
<1> USE DEF sent, local
<1>1. SUFFICES ASSUME NEW s \in Members
               PROVE  /\ contribution'[s] # None => Past(s, Contrib)'
                      /\ complaint'[s] # None => Past(s, Complain)'
                      /\ justification'[s] # None => Past(s, Justify)'
                      /\ commitment'[s] # None => Past(s, Commit)'
  BY DEF SentInv
<1>2. \A n \in Members : \A k \in Phases : Past(n, k) => Past(n, k)'
  BY PastStable
<1>3. ASSUME NEW n \in Members, Contribute(n) PROVE contribution'[s] # None => Past(s, Contrib)'
  <2>1. CASE s = n
    BY <1>3, <2>1 DEF Contribute, Starts, Past, TypeOK
  <2>2. CASE s # n
    BY SMTT(30), <1>2, <1>3, <2>2 DEF Contribute, SentInv, TypeOK
  <2> QED BY <2>1, <2>2
<1>4. ASSUME NEW n \in Members, VerifyAndComplain(n) PROVE complaint'[s] # None => Past(s, Complain)'
  <2>1. CASE s = n
    BY <1>4, <2>1 DEF VerifyAndComplain, Starts, Past, TypeOK
  <2>2. CASE s # n
    BY SMTT(30), <1>2, <1>4, <2>2 DEF VerifyAndComplain, SentInv, TypeOK
  <2> QED BY <2>1, <2>2
<1>5. ASSUME NEW n \in Members, VerifyAndJustify(n) PROVE justification'[s] # None => Past(s, Justify)'
  <2>1. CASE s = n
    BY <1>5, <2>1 DEF VerifyAndJustify, Starts, Past, TypeOK
  <2>2. CASE s # n
    BY SMTT(30), <1>2, <1>5, <2>2 DEF VerifyAndJustify, SentInv, TypeOK
  <2> QED BY <2>1, <2>2
<1>6. ASSUME NEW n \in Members, VerifyAndCommit(n) PROVE commitment'[s] # None => Past(s, Commit)'
  <2>1. CASE s = n
    BY <1>6, <2>1 DEF VerifyAndCommit, Past, TypeOK
  <2>2. CASE s # n
    BY <1>2, <1>6, <2>2 DEF VerifyAndCommit, SentInv, TypeOK
  <2> QED BY <2>1, <2>2
<1> QED BY SMTT(30), <1>2, <1>3, <1>4, <1>5, <1>6, SentBy DEF SentInv

-----------------------------------------------------------------------------
(* What is handled, verified, committed to and final.                      *)

\* handled[n] grows by messages of the phase n is in, and by nothing else.
LEMMA HandledStep == TypeOK /\ SentInv /\ HandledInv /\ [Next]_vars => HandledInv'
<1> SUFFICES ASSUME TypeOK, SentInv, HandledInv, [Next]_vars PROVE HandledInv'
    OBVIOUS
<1> USE DEF sent, local
<1> DEFINE Grows == \A o \in Members : \A j \in Phases : handled'[o][j] \subseteq handled[o][j] \cup Messages(j)
<1>1. Grows => HandledInv'
  <2> SUFFICES ASSUME Grows, NEW o \in Members, NEW s \in Members
               PROVE  /\ s \in handled'[o][Contrib] => contribution'[s] # None
                      /\ s \in handled'[o][Complain] => complaint'[s] # None
                      /\ s \in handled'[o][Justify] => justification'[s] # None
                      /\ s \in handled'[o][Commit] => commitment'[s] # None
    BY DEF HandledInv
  <2>1. \A j \in Phases : s \in handled'[o][j] => s \in handled[o][j] \/ s \in Messages(j)
    OBVIOUS
  <2>2. /\ s \in Messages(Contrib) => contribution[s] # None
        /\ s \in Messages(Complain) => complaint[s] # None
        /\ s \in Messages(Justify) => justification[s] # None
        /\ s \in Messages(Commit) => commitment[s] # None
    BY MessagesAre
  <2> QED BY SMTT(30), <2>1, <2>2, SentStable DEF HandledInv
<1> HIDE DEF Grows
<1>3. \A n \in Members : \A k \in Phases : \A R \in Arrivals(n, k) : R \in SUBSET Messages(k)
  BY ArrivalsAreMessages
<1>4. ASSUME NEW n \in Members, ReceiveContributions(n) PROVE Grows
  <2>1. PICK R \in Arrivals(n, Contrib) : handled' = [handled EXCEPT ![n][Contrib] = @ \cup R]
    BY <1>4 DEF ReceiveContributions
  <2>2. R \in SUBSET Messages(Contrib)
    BY SMTT(30), <1>3
  <2> QED BY <2>1, <2>2 DEF Grows, TypeOK
<1>5. ASSUME NEW n \in Members, ReceiveComplaints(n) PROVE Grows
  <2>1. PICK R \in Arrivals(n, Complain) : handled' = [handled EXCEPT ![n][Complain] = @ \cup R]
    BY <1>5 DEF ReceiveComplaints
  <2>2. R \in SUBSET Messages(Complain)
    BY SMTT(30), <1>3
  <2> QED BY <2>1, <2>2 DEF Grows, TypeOK
<1>6. ASSUME NEW n \in Members, EarlyJustifications(n) PROVE Grows
  <2>1. PICK R \in SUBSET (Messages(Justify) \ handled[n][Justify]) :
            handled' = [handled EXCEPT ![n][Justify] = @ \cup R]
    BY <1>6 DEF EarlyJustifications, ReceiveJustifications
  <2>2. R \in SUBSET Messages(Justify)
    OBVIOUS
  <2> QED BY <2>1, <2>2 DEF Grows, TypeOK
<1>7. ASSUME NEW n \in Members, LateJustifications(n) PROVE Grows
  <2>1. PICK R \in Arrivals(n, Justify) : handled' = [handled EXCEPT ![n][Justify] = @ \cup R]
    BY <1>7 DEF LateJustifications, ReceiveJustifications
  <2>2. R \in SUBSET Messages(Justify)
    BY SMTT(30), <1>3
  <2> QED BY <2>1, <2>2 DEF Grows, TypeOK
<1>8. ASSUME NEW n \in Members, FinalizeCommitments(n) PROVE Grows
  <2>1. PICK R \in Arrivals(n, Commit) : handled' = [handled EXCEPT ![n][Commit] = @ \cup R]
    BY <1>8 DEF FinalizeCommitments
  <2>2. R \in SUBSET Messages(Commit)
    BY SMTT(30), <1>3
  <2> QED BY <2>1, <2>2 DEF Grows, TypeOK
<1>9. ASSUME handled' = handled PROVE Grows
  BY <1>9 DEF Grows
<1>10. CASE UpdatedBlockTip \/ UNCHANGED vars \/ \E n \in Members :
              \/ Contribute(n) \/ VerifyAndComplain(n) \/ VerifyAndJustify(n) \/ VerifyAndCommit(n)
              \/ AbortPhase(n)
  <2>1. handled' = handled
    BY <1>10 DEF UpdatedBlockTip, vars, Contribute, VerifyAndComplain, VerifyAndJustify,
                 VerifyAndCommit, AbortPhase
  <2> QED BY <1>1, <1>9, <2>1
<1> QED BY <1>1, <1>4, <1>5, <1>6, <1>7, <1>8, <1>10 DEF Next, HandleDKGRound

\* A verified share stays on disk.
LEMMA SharesKept ==
    ASSUME TypeOK, [Next]_vars, NEW n \in Members
    PROVE  skContributions[n] \subseteq skContributions'[n]
<1> USE DEF sent, local
<1>1. ASSUME NEW m \in Members, VerifyAndComplain(m)
      PROVE  skContributions[n] \subseteq skContributions'[n]
  BY <1>1 DEF VerifyAndComplain, TypeOK
<1>2. ASSUME NEW m \in Members, NEW R, ReceiveJustifications(m, R)
      PROVE  skContributions[n] \subseteq skContributions'[n]
  BY <1>2 DEF ReceiveJustifications, TypeOK
<1>3. CASE \E m \in Members : EarlyJustifications(m) \/ LateJustifications(m)
  BY <1>2, <1>3 DEF EarlyJustifications, LateJustifications
<1>4. CASE UpdatedBlockTip \/ UNCHANGED vars \/ \E m \in Members :
              \/ Contribute(m) \/ ReceiveContributions(m) \/ ReceiveComplaints(m) \/ VerifyAndJustify(m)
              \/ VerifyAndCommit(m) \/ FinalizeCommitments(m) \/ AbortPhase(m)
  BY <1>4 DEF UpdatedBlockTip, vars, Contribute, ReceiveContributions, ReceiveComplaints, VerifyAndJustify,
              VerifyAndCommit, FinalizeCommitments, AbortPhase
<1> QED BY <1>1, <1>3, <1>4 DEF Next, HandleDKGRound

\* Only verified shares go to disk: those that fit the contribution, or a justification.
LEMMA ShareStep == TypeOK /\ SentInv /\ HandledInv /\ ShareInv /\ [Next]_vars => ShareInv'
<1> SUFFICES ASSUME TypeOK, SentInv, HandledInv, ShareInv, [Next]_vars, NEW n \in Members, NEW m \in Members,
                    m \in skContributions'[n]
             PROVE  RightShare(n, m)'
    BY DEF ShareInv
<1> USE DEF sent, local
<1>1. RightShare(n, m) => RightShare(n, m)'
  BY SentStable DEF RightShare
<1>2. SUFFICES ASSUME m \notin skContributions[n] PROVE RightShare(n, m)
  BY <1>1 DEF ShareInv
<1>3. ASSUME NEW o \in Members, VerifyAndComplain(o) PROVE RightShare(n, m)
  <2>1. o = n /\ m \in PendingContributions(n) \ WrongShares(n)
    BY <1>2, <1>3 DEF VerifyAndComplain, TypeOK
  <2>2. m \in handled[n][Contrib] /\ n \in contribution[m]
    BY <2>1 DEF PendingContributions, WrongShares
  <2> QED BY <2>2 DEF RightShare, HandledInv
<1>4. ASSUME NEW o \in Members, NEW R \in SUBSET Messages(Justify), ReceiveJustifications(o, R)
      PROVE  RightShare(n, m)
  <2>1. o = n /\ m \in JustifiedBy(n, R) /\ n \in RightShares(n, m)
    BY <1>2, <1>4 DEF ReceiveJustifications, TypeOK
  <2>2. justification[m] # None
    BY <2>1, MessagesAre DEF JustifiedBy
  <2> QED BY <2>1, <2>2 DEF RightShare, RightShares
<1>5. CASE \E o \in Members : EarlyJustifications(o) \/ LateJustifications(o)
  BY SMTT(30), <1>4, <1>5, ArrivalsAreMessages DEF EarlyJustifications, LateJustifications
<1>6. CASE UpdatedBlockTip \/ UNCHANGED vars \/ \E o \in Members :
              \/ Contribute(o) \/ ReceiveContributions(o) \/ ReceiveComplaints(o) \/ VerifyAndJustify(o)
              \/ VerifyAndCommit(o) \/ FinalizeCommitments(o) \/ AbortPhase(o)
  BY <1>2, <1>6 DEF UpdatedBlockTip, vars, Contribute, ReceiveContributions, ReceiveComplaints,
              VerifyAndJustify, VerifyAndCommit, FinalizeCommitments, AbortPhase
<1> QED BY <1>3, <1>5, <1>6 DEF Next, HandleDKGRound

\* A member commits to members whose shares it has.
LEMMA CommitmentStep == TypeOK /\ SentInv /\ CommitmentInv /\ [Next]_vars => CommitmentInv'
<1> SUFFICES ASSUME TypeOK, SentInv, CommitmentInv, [Next]_vars, NEW n \in Members, commitment'[n] # None
             PROVE  commitment'[n] \subseteq skContributions'[n]
    BY DEF CommitmentInv
<1>1. CASE commitment[n] # None
  BY <1>1, SentStable, SharesKept DEF CommitmentInv
<1>2. ASSUME commitment[n] = None, NEW o \in Members, VerifyAndCommit(o)
      PROVE  commitment'[n] \subseteq skContributions'[n]
  BY SMTT(30), <1>2 DEF VerifyAndCommit, TypeOK
<1> QED BY <1>1, <1>2, SentBy

\* FinalizeCommitments counts commitments that stay what they are.
LEMMA FinalStep == TypeOK /\ SentInv /\ HandledInv /\ FinalInv /\ [Next]_vars => FinalInv'
<1> SUFFICES ASSUME TypeOK, SentInv, HandledInv, FinalInv, [Next]_vars PROVE FinalInv'
    OBVIOUS
<1> USE DEF sent, local
<1>1. ASSUME final' = final PROVE FinalInv'
  BY SMTT(30), <1>1, SentStable DEF FinalInv
<1>2. ASSUME NEW n \in Members, FinalizeCommitments(n) PROVE FinalInv'
  <2>1. PICK R \in Arrivals(n, Commit) :
            /\ handled' = [handled EXCEPT ![n][Commit] = @ \cup R]
            /\ final' = [final EXCEPT ![n] = FinalCommitments(handled'[n][Commit])]
    BY <1>2 DEF FinalizeCommitments
  <2>2. handled'[n][Commit] \subseteq Members /\ commitment' = commitment
    BY SMTT(30), <1>2, <2>1, ArrivalsAreMessages, MessagesAre DEF TypeOK, FinalizeCommitments
  <2>3. \A s \in handled'[n][Commit] : commitment[s] # None
    BY <2>2, HandledStep DEF HandledInv
  <2>4. \A s \in handled'[n][Commit] : commitment[s] \in SUBSET Members
    BY <2>2, <2>3 DEF TypeOK
  <2>5. \A f \in final'[n] : /\ f.signers \subseteq handled'[n][Commit]
                             /\ Cardinality(f.signers) >= MinSize
                             /\ \A s \in f.signers : commitment[s] = f.valid
    <3>1. final'[n] = FinalCommitments(handled'[n][Commit])
      BY <2>1 DEF TypeOK
    <3>2. handled'[n][Commit] \in SUBSET Members
      BY <2>2
    <3> QED BY SMTT(30), <2>4, <3>1, <3>2, FinalCommitmentsAre
  <2>6. \A o \in Members : o # n => final'[o] = final[o]
    BY <2>1 DEF TypeOK
  <2> QED BY <2>2, <2>3, <2>5, <2>6 DEF FinalInv
<1>3. CASE UpdatedBlockTip \/ UNCHANGED vars \/ \E n \in Members :
              \/ Contribute(n) \/ ReceiveContributions(n) \/ VerifyAndComplain(n) \/ ReceiveComplaints(n)
              \/ EarlyJustifications(n) \/ VerifyAndJustify(n) \/ LateJustifications(n)
              \/ VerifyAndCommit(n) \/ AbortPhase(n)
  BY <1>1, <1>3 DEF UpdatedBlockTip, vars, Contribute, ReceiveContributions, VerifyAndComplain,
              ReceiveComplaints, EarlyJustifications, VerifyAndJustify, LateJustifications,
              VerifyAndCommit, AbortPhase, Starts
<1> QED BY <1>2, <1>3 DEF Next, HandleDKGRound

\* Nothing is sent, handled or final at the start.
LEMMA DkgInit == Init => DkgInv
<1> SUFFICES ASSUME Init PROVE DkgInv
    OBVIOUS
<1>1. SentInv /\ HandledInv /\ ShareInv /\ CommitmentInv /\ FinalInv
  BY SMTT(30) DEF Init, SentInv, HandledInv, ShareInv, CommitmentInv, FinalInv
<1> QED BY <1>1, TypeInit DEF DkgInv

\* Every step keeps the invariant.
LEMMA DkgStep == DkgInv /\ [Next]_vars => DkgInv'
BY TypeStep, SentStep, HandledStep, ShareStep, CommitmentStep, FinalStep DEF DkgInv

\* The invariant holds throughout, whatever the faults.
LEMMA DkgInvariant == Spec => []DkgInv
BY DkgInit, DkgStep, PTL DEF Spec

\* The members never end up with final commitments to two quorum keys, whoever lies
\* and whatever is lost or late: two groups of minSize signers have a member in
\* common, and FinalizeCommitments counted the one commitment it sent.
THEOREM OneKey == Spec => []OneQuorumKey
<1>1. DkgInv => OneQuorumKey
  <2> SUFFICES ASSUME FinalInv, NEW n \in Members, NEW o \in Members, NEW f \in final[n], NEW g \in final[o]
               PROVE  f.valid = g.valid
    BY DEF OneQuorumKey, DkgInv
  <2>1. /\ f.signers \in SUBSET Members /\ g.signers \in SUBSET Members
        /\ Cardinality(f.signers) >= MinSize /\ Cardinality(g.signers) >= MinSize
    BY DEF FinalInv
  <2>2. /\ Cardinality(Members) \in Nat
        /\ Cardinality(f.signers) \in Nat /\ Cardinality(g.signers) \in Nat
    BY <2>1, MembersAreCounted DEF Counted
  <2>3. Cardinality(f.signers) + Cardinality(g.signers) > Cardinality(Members)
    BY SMTT(30), <2>1, <2>2, DkgAssumption, MajorityAssumption
  <2>4. f.signers \cap g.signers # {}
    <3> DEFINE F == f.signers
               R == g.signers
    <3>1. F \in SUBSET Members /\ R \in SUBSET Members /\ Members = (F \cup R) \cup (Members \ (F \cup R))
      BY <2>1
    <3> SUFFICES ASSUME F \cap R = {} PROVE FALSE
      OBVIOUS
    <3>2. Cardinality(F) + Cardinality(R) > Cardinality(Members)
      BY <2>3
    <3> HIDE DEF F, R
    <3>3. Cardinality(F \cup R) = Cardinality(F) + Cardinality(R)
      BY <3>1, MembersAreCounted DEF Counted
    <3>4. Cardinality(Members) = Cardinality(F \cup R) + Cardinality(Members \ (F \cup R))
      <4> DEFINE A == F \cup R
                 B == Members \ A
      <4>1. A \in SUBSET Members /\ B \in SUBSET Members /\ A \cap B = {} /\ Members = A \cup B
        BY <3>1
      <4> HIDE DEF A, B
      <4>2. Cardinality(A \cup B) = Cardinality(A) + Cardinality(B)
        BY <4>1, MembersAreCounted DEF Counted
      <4>3. Cardinality(Members) = Cardinality(A) + Cardinality(B)
        BY <4>1, <4>2
      <4> QED
        BY <4>3 DEF A, B
    <3>5. /\ Cardinality(F) \in Nat /\ Cardinality(R) \in Nat
          /\ Cardinality(Members \ (F \cup R)) \in Nat
      BY <3>1, MembersAreCounted DEF Counted
    <3> QED BY SMTT(30), <3>2, <3>3, <3>4, <3>5
  <2> QED BY <2>4 DEF FinalInv
<1> QED BY <1>1, DkgInvariant, PTL

\* Those who signed a final commitment can sign for the quorum: each has the right
\* share of every valid member on disk, and there are at least threshold of them.
THEOREM SharesHeld == Spec => []SignersHoldShares
<1>1. DkgInv => SignersHoldShares
  <2> SUFFICES ASSUME DkgInv, NEW n \in Members, NEW f \in final[n]
               PROVE  /\ Cardinality(f.signers) >= SigThreshold
                      /\ \A s \in f.signers : \A m \in f.valid :
                            /\ m \in skContributions[s]
                            /\ \/ s \in contribution[m]
                               \/ justification[m] # None
                                  /\ s \in justification[m].for \ justification[m].wrong
    BY DEF SignersHoldShares
  <2>1. f.signers \in SUBSET Members /\ Cardinality(f.signers) >= MinSize
    BY DEF FinalInv, DkgInv
  <2>2. Cardinality(f.signers) \in Nat /\ Cardinality(Members) \in Nat
    BY <2>1, MembersAreCounted DEF Counted
  <2>3. Cardinality(f.signers) >= SigThreshold
    BY SMTT(30), <2>1, <2>2, DkgAssumption
  <2>4. ASSUME NEW s \in f.signers, NEW m \in f.valid
        PROVE  m \in skContributions[s] /\ RightShare(s, m)
    <3>1. s \in Members /\ f.valid \subseteq skContributions[s]
      BY <2>1 DEF DkgInv, FinalInv, CommitmentInv
    <3> QED BY <3>1 DEF DkgInv, ShareInv, TypeOK
  <2> QED BY <2>3, <2>4 DEF RightShare
<1> QED BY <1>1, DkgInvariant, PTL

-----------------------------------------------------------------------------
(* Nobody who makes no error is left out.  Where messages arrive, the      *)
(* members run in step with the chain tip (StepInv), so everybody handles  *)
(* every message of a phase that is over (PhaseInv).                       *)

\* s contributes, and sends no wrong justification.
Present(s) == faults.errors[s] \cap {"contribution-omit", "justify-lie"} = {}

\* Whoever complains without reason is otherwise a present member.
LiarsPresent ==
    \A f \in FaultModels : \A n \in Members :
        "complain-lie" \in f.errors[n]
            => f.errors[n] \cap {"contribution-omit", "justify-lie"} = {}

\* Those who complain about m
Complainers(m) == {s \in Members : complaint[s] # None /\ m \in complaint[s].complain}

InStep(n) ==
    \/ phase[n] = tip /\ run[n] \in {"sleep", "wait", "crashed"}
    \/ phase[n] = tip - 1 /\ run[n] \in {"wait", "done", "crashed"}

StepInv == \A n \in Members : InStep(n)

HandledAll(n) ==
    /\ phase[n] > Contrib => handled[n][Contrib] = Messages(Contrib)
    /\ phase[n] > Complain => handled[n][Complain] = Messages(Complain)
    /\ phase[n] > Justify => handled[n][Justify] = Messages(Justify)
    /\ phase[n] <= Complain => handled[n][Complain] = {} /\ handled[n][Justify] = {}

PhaseInv == \A n \in Members : HandledAll(n)

ContributionInv ==
    \A n \in Members :
        /\ Past(n, Contrib) /\ Present(n) => contribution[n] # None
        /\ contribution[n] # None /\ Correct(n) => contribution[n] = Members

\* Only a liar complains about a member that makes no error, and nobody votes
\* a present one bad.
ComplaintInv ==
    \A n, m \in Members :
        /\ Correct(m) /\ m \in weComplain[n] => MaySimulate(n, "complain-lie")
        /\ Correct(m) /\ n \in Complainers(m) => MaySimulate(n, "complain-lie")
        /\ complaint[n] # None /\ Present(m) => m \notin complaint[n].bad

\* A member that is not bad justifies itself to all who complain about it.
JustificationInv ==
    \A m \in Members :
        /\ justification[m] # None =>
              /\ justification[m].for \subseteq Complainers(m)
              /\ Present(m) => justification[m].wrong = {}
              /\ Correct(m) => justification[m].for = Complainers(m)
        /\ Correct(m) /\ Past(m, Justify) /\ Complainers(m) # {} => justification[m] # None

KnownInv ==
    \A n, m \in Members :
        /\ phase[n] <= Complain => complaintsFromOthers[n][m] = {}
        /\ phase[n] > Complain /\ m \notin handled[n][Justify] => complaintsFromOthers[n][m] = Complainers(m)
        /\ Correct(m) /\ m \in handled[n][Justify] => complaintsFromOthers[n][m] = {}

\* Before VerifyAndCommit, no present member is bad.
BadInv ==
    \A n, m \in Members : ~ Past(n, Commit) /\ Present(m) => m \notin bad[n]

ValidInv ==
    \A n, m \in Members : commitment[n] # None /\ Correct(m) => m \in commitment[n]

ReliableInv ==
    Reliable => /\ StepInv /\ PhaseInv /\ ContributionInv /\ ComplaintInv /\ JustificationInv
                /\ KnownInv /\ BadInv /\ ValidInv

\* No step changes the faults of the session.
LEMMA FaultsFixed == [Next]_vars => faults' = faults
<1> SUFFICES ASSUME [Next]_vars PROVE faults' = faults
    OBVIOUS
<1>1. CASE UpdatedBlockTip \/ UNCHANGED vars
  BY <1>1 DEF UpdatedBlockTip, vars
<1>2. ASSUME NEW n \in Members, HandleDKGRound(n) PROVE faults' = faults
  BY <1>2 DEF HandleDKGRound, Contribute, ReceiveContributions, VerifyAndComplain, ReceiveComplaints,
              EarlyJustifications, VerifyAndJustify, LateJustifications, VerifyAndCommit,
              FinalizeCommitments, AbortPhase, Starts
<1> QED BY <1>1, <1>2 DEF Next

\* Where no member is slow, the threads are in the phase of the tip, or at the end of
\* the one before, and none of them aborts.
LEMMA StepStep == TypeOK /\ Reliable /\ StepInv /\ [Next]_vars => StepInv'
<1> SUFFICES ASSUME TypeOK, Reliable, StepInv, [Next]_vars, NEW n \in Members PROVE InStep(n)'
    BY DEF StepInv
<1> USE DEF sent, local, StepInv, InStep, TypeOK
<1>1. CASE UpdatedBlockTip
  BY SMTT(30), <1>1 DEF UpdatedBlockTip, Reliable
<1>2. ASSUME NEW m \in Members, NEW k \in Phases, Starts(m, k) PROVE InStep(n)'
  BY <1>2 DEF Starts, Reliable
<1>3. ASSUME NEW m \in Members, NEW k \in Phases, NextPhase(m, k), EnterPhase(m, k + 1), tip' = tip PROVE InStep(n)'
  BY <1>3 DEF NextPhase, EnterPhase
<1>4. ASSUME NEW m \in Members, Contribute(m) \/ VerifyAndComplain(m) \/ VerifyAndJustify(m)
      PROVE  \E k \in Phases : Starts(m, k)
  BY SMTT(30), <1>4 DEF Contribute, VerifyAndComplain, VerifyAndJustify
<1>5. ASSUME NEW m \in Members, ReceiveContributions(m) \/ ReceiveComplaints(m) \/ LateJustifications(m)
      PROVE  \E k \in Phases : NextPhase(m, k) /\ EnterPhase(m, k + 1) /\ tip' = tip
  <2>1. CASE ReceiveContributions(m)
    BY SMTT(30), <2>1 DEF ReceiveContributions
  <2>2. CASE ReceiveComplaints(m)
    BY SMTT(30), <2>2 DEF ReceiveComplaints
  <2>3. CASE LateJustifications(m)
    BY SMTT(30), <2>3 DEF LateJustifications
  <2> QED BY <1>5, <2>1, <2>2, <2>3
<1>6. ASSUME NEW m \in Members, VerifyAndCommit(m) PROVE InStep(n)'
  BY <1>6 DEF VerifyAndCommit, Reliable
<1>7. ASSUME NEW m \in Members, FinalizeCommitments(m) PROVE InStep(n)'
  BY SMTT(30), <1>7 DEF FinalizeCommitments, NextPhase
<1>8. CASE UNCHANGED vars \/ \E m \in Members : EarlyJustifications(m)
  BY <1>8 DEF vars, EarlyJustifications
<1>9. \A m \in Members : ~ AbortPhase(m)
  <2> SUFFICES ASSUME NEW m \in Members, AbortPhase(m) PROVE FALSE
    OBVIOUS
  <2>1. phase[m] \in Int /\ tip \in Int
    BY SMTT(30)
  <2>2. CASE run[m] = "sleep" /\ tip > phase[m]
    <3>1. phase[m] = tip
      BY <2>2
    <3> QED BY SMTT(30), <2>1, <2>2, <3>1
  <2>3. CASE run[m] = "wait" /\ tip > phase[m] + 1
    <3>1. phase[m] = tip \/ phase[m] = tip - 1
      OBVIOUS
    <3> QED BY SMTT(30), <2>1, <2>3, <3>1
  <2> QED BY <2>2, <2>3 DEF AbortPhase
<1> QED BY <1>1, <1>2, <1>3, <1>4, <1>5, <1>6, <1>7, <1>8, <1>9 DEF Next, HandleDKGRound

\* A phase that is over is over for everybody.
LEMMA PhasesOver ==
    ASSUME TypeOK, StepInv, NEW n \in Members, NEW k \in Phases
    PROVE  /\ phase[n] \in Phases /\ tip \in Contrib .. Finalize
           /\ phase[n] <= tip
           /\ tip > k => Past(n, k)
<1>1. phase[n] \in Phases /\ tip \in Contrib .. Finalize
  BY DEF TypeOK
<1>2. CASE phase[n] = tip
  BY SMTT(30), <1>1, <1>2 DEF Past
<1>3. CASE phase[n] = tip - 1 /\ run[n] # "sleep"
  BY SMTT(30), <1>1, <1>3 DEF Past
<1> QED BY <1>2, <1>3 DEF StepInv, InStep

\* No message of a phase is sent once a member has left the phase.
LEMMA NothingLate ==
    ASSUME TypeOK, Reliable, StepInv, [Next]_vars
    PROVE  /\ tip > Contrib => contribution' = contribution
           /\ tip > Complain => complaint' = complaint
           /\ tip > Justify => justification' = justification
<1>1. ASSUME NEW n \in Members, NEW k \in Phases, Starts(n, k) PROVE tip = k
  BY <1>1 DEF Starts, Reliable
<1>2. ASSUME NEW n \in Members, Contribute(n) PROVE tip = Contrib
  BY SMTT(30), <1>1, <1>2 DEF Contribute
<1>3. ASSUME NEW n \in Members, VerifyAndComplain(n) PROVE tip = Complain
  BY SMTT(30), <1>1, <1>3 DEF VerifyAndComplain
<1>4. ASSUME NEW n \in Members, VerifyAndJustify(n) PROVE tip = Justify
  BY SMTT(30), <1>1, <1>4 DEF VerifyAndJustify
<1> QED BY SMTT(30), <1>2, <1>3, <1>4, SentBy

\* Where nothing is lost, a member handles all there is to handle.
LEMMA AllArrive ==
    ASSUME Reliable, NEW n \in Members, NEW k \in Phases, NEW R \in Arrivals(n, k)
    PROVE  R = Messages(k) \ handled[n][k]
BY DEF Arrivals, Reliable

\* Without lost messages, a member leaves a phase with all its messages handled.
LEMMA PhaseStep ==
    ASSUME DkgInv, Reliable, StepInv, PhaseInv, [Next]_vars
    PROVE  PhaseInv'
<1> SUFFICES ASSUME NEW n \in Members PROVE HandledAll(n)'
    BY DEF PhaseInv
<1> USE DEF sent, local, DkgInv
<1>1. TypeOK /\ TypeOK'
  BY TypeStep
<1>2. /\ phase[n] > Contrib => Messages(Contrib)' = Messages(Contrib)
      /\ phase[n] > Complain => Messages(Complain)' = Messages(Complain)
      /\ phase[n] > Justify => Messages(Justify)' = Messages(Justify)
  <2>1. phase[n] <= tip /\ phase[n] \in Int /\ tip \in Int
    BY SMTT(30), PhasesOver
  <2> QED BY SMTT(30), <2>1, NothingLate, MessagesAre DEF Messages
<1>3. ASSUME handled'[n] = handled[n], phase'[n] = phase[n] PROVE HandledAll(n)'
  BY <1>2, <1>3 DEF PhaseInv, HandledAll
<1>4. CASE UpdatedBlockTip \/ UNCHANGED vars \/ \E m \in Members :
              \/ Contribute(m) \/ VerifyAndComplain(m) \/ VerifyAndJustify(m) \/ VerifyAndCommit(m)
              \/ AbortPhase(m)
  <2>1. handled' = handled /\ phase' = phase
    BY <1>4 DEF UpdatedBlockTip, vars, Contribute, VerifyAndComplain, VerifyAndJustify,
                VerifyAndCommit, AbortPhase, Starts
  <2> QED BY <1>3, <2>1
<1>5. ASSUME NEW m \in Members, ReceiveContributions(m) PROVE HandledAll(n)'
  <2>1. PICK R \in Arrivals(m, Contrib) : handled' = [handled EXCEPT ![m][Contrib] = @ \cup R]
    BY <1>5 DEF ReceiveContributions
  <2>2. phase[m] = Contrib /\ phase' = [phase EXCEPT ![m] = Complain] /\ Messages(Contrib)' = Messages(Contrib)
    BY <1>5 DEF ReceiveContributions, NextPhase, EnterPhase, Messages
  <2>3. CASE m = n
    <3>1. R = Messages(Contrib) \ handled[n][Contrib]
      BY SMTT(30), <2>3, AllArrive
    <3>2. handled[n][Contrib] \subseteq Messages(Contrib)
      BY SMTT(30), MessagesAre DEF HandledInv, TypeOK
    <3>3. /\ handled'[n][Contrib] = handled[n][Contrib] \cup R
          /\ handled'[n][Complain] = handled[n][Complain]
          /\ handled'[n][Justify] = handled[n][Justify]
      BY SMTT(30), <2>1, <2>3, <1>1 DEF TypeOK
    <3>4. phase[n] = Contrib /\ phase'[n] = Complain
      BY <2>2, <2>3 DEF TypeOK
    <3> QED BY SMTT(30), <2>2, <3>1, <3>2, <3>3, <3>4 DEF PhaseInv, HandledAll
  <2>4. CASE m # n
    BY <1>3, <2>1, <2>2, <2>4 DEF TypeOK
  <2> QED BY <2>3, <2>4
<1>6. ASSUME NEW m \in Members, ReceiveComplaints(m) PROVE HandledAll(n)'
  <2>1. PICK R \in Arrivals(m, Complain) : handled' = [handled EXCEPT ![m][Complain] = @ \cup R]
    BY <1>6 DEF ReceiveComplaints
  <2>2. phase[m] = Complain /\ phase' = [phase EXCEPT ![m] = Justify] /\ Messages(Complain)' = Messages(Complain)
    BY <1>6 DEF ReceiveComplaints, NextPhase, EnterPhase, Messages
  <2>3. CASE m = n
    <3>1. R = Messages(Complain) \ handled[n][Complain]
      BY SMTT(30), <2>3, AllArrive
    <3>2. handled[n][Complain] \subseteq Messages(Complain)
      BY SMTT(30), MessagesAre DEF HandledInv, TypeOK
    <3>3. /\ handled'[n][Complain] = handled[n][Complain] \cup R
          /\ handled'[n][Contrib] = handled[n][Contrib]
      BY SMTT(30), <2>1, <2>3, <1>1 DEF TypeOK
    <3>4. phase[n] = Complain /\ phase'[n] = Justify
      BY <2>2, <2>3 DEF TypeOK
    <3> QED BY SMTT(30), <1>2, <2>2, <3>1, <3>2, <3>3, <3>4 DEF PhaseInv, HandledAll
  <2>4. CASE m # n
    BY <1>3, <2>1, <2>2, <2>4 DEF TypeOK
  <2> QED BY <2>3, <2>4
<1>7. ASSUME NEW m \in Members, EarlyJustifications(m) PROVE HandledAll(n)'
  <2>1. PICK R : handled' = [handled EXCEPT ![m][Justify] = @ \cup R]
    BY <1>7 DEF EarlyJustifications, ReceiveJustifications
  <2>2. phase[m] = Justify /\ phase' = phase
    BY <1>7 DEF EarlyJustifications
  <2>3. /\ handled'[n][Contrib] = handled[n][Contrib]
        /\ handled'[n][Complain] = handled[n][Complain]
        /\ m # n => handled'[n][Justify] = handled[n][Justify]
    BY SMTT(30), <2>1, <1>1 DEF TypeOK
  <2> QED BY SMTT(30), <1>2, <2>2, <2>3 DEF PhaseInv, HandledAll
<1>8. ASSUME NEW m \in Members, LateJustifications(m) PROVE HandledAll(n)'
  <2>1. PICK R \in Arrivals(m, Justify) : handled' = [handled EXCEPT ![m][Justify] = @ \cup R]
    BY <1>8 DEF LateJustifications, ReceiveJustifications
  <2>2. phase[m] = Justify /\ phase' = [phase EXCEPT ![m] = Commit] /\ Messages(Justify)' = Messages(Justify)
    BY <1>8 DEF LateJustifications, NextPhase, EnterPhase, Messages
  <2>3. CASE m = n
    <3>1. R = Messages(Justify) \ handled[n][Justify]
      BY SMTT(30), <2>3, AllArrive
    <3>2. handled[n][Justify] \subseteq Messages(Justify)
      BY SMTT(30), MessagesAre DEF HandledInv, TypeOK
    <3>3. /\ handled'[n][Justify] = handled[n][Justify] \cup R
          /\ handled'[n][Contrib] = handled[n][Contrib]
          /\ handled'[n][Complain] = handled[n][Complain]
      BY SMTT(30), <2>1, <2>3, <1>1 DEF TypeOK
    <3>4. phase[n] = Justify /\ phase'[n] = Commit
      BY <2>2, <2>3 DEF TypeOK
    <3> QED BY SMTT(30), <1>2, <2>2, <3>1, <3>2, <3>3, <3>4 DEF PhaseInv, HandledAll
  <2>4. CASE m # n
    BY <1>3, <2>1, <2>2, <2>4 DEF TypeOK
  <2> QED BY <2>3, <2>4
<1>9. ASSUME NEW m \in Members, FinalizeCommitments(m) PROVE HandledAll(n)'
  <2>1. PICK R : handled' = [handled EXCEPT ![m][Commit] = @ \cup R]
    BY <1>9 DEF FinalizeCommitments
  <2>2. phase' = phase
    BY <1>9 DEF FinalizeCommitments
  <2>3. /\ handled'[n][Contrib] = handled[n][Contrib]
        /\ handled'[n][Complain] = handled[n][Complain]
        /\ handled'[n][Justify] = handled[n][Justify]
    BY SMTT(30), <2>1, <1>1 DEF TypeOK
  <2> QED BY <1>2, <2>2, <2>3 DEF PhaseInv, HandledAll
<1> QED BY <1>4, <1>5, <1>6, <1>7, <1>8, <1>9 DEF Next, HandleDKGRound

\* A thread gets past the function of a phase by running it.
LEMMA PastBy ==
    ASSUME TypeOK, Reliable, StepInv, [Next]_vars, NEW n \in Members, NEW k \in Phases,
           Past(n, k)', ~ Past(n, k)
    PROVE  /\ k = Contrib => Contribute(n)
           /\ k = Complain => VerifyAndComplain(n)
           /\ k = Justify => VerifyAndJustify(n)
           /\ k = Commit => VerifyAndCommit(n)
<1> USE DEF sent, local
<1>1. ~ (phase'[n] = phase[n] /\ run'[n] = run[n])
  BY DEF Past
<1>2. ASSUME NEW m \in Members, NEW j \in Phases, NextPhase(m, j), EnterPhase(m, j + 1) PROVE FALSE
  <2>1. CASE m # n
    BY <1>1, <1>2, <2>1 DEF EnterPhase, TypeOK
  <2>2. CASE m = n
    <3>1. phase[n] = j /\ run[n] = "wait" /\ phase'[n] = j + 1 /\ run'[n] = "sleep"
      BY <1>2, <2>2 DEF EnterPhase, NextPhase, TypeOK
    <3> QED BY SMTT(30), <3>1 DEF Past
  <2> QED BY <2>1, <2>2
<1>3. \A m \in Members : ~ ReceiveContributions(m)
  BY SMTT(30), <1>2 DEF ReceiveContributions
<1>4. \A m \in Members : ~ ReceiveComplaints(m)
  BY SMTT(30), <1>2 DEF ReceiveComplaints
<1>5. \A m \in Members : ~ LateJustifications(m)
  BY SMTT(30), <1>2 DEF LateJustifications
<1>6. ~ UpdatedBlockTip /\ ~ UNCHANGED vars /\ \A m \in Members : ~ EarlyJustifications(m)
  BY <1>1 DEF UpdatedBlockTip, vars, EarlyJustifications
<1>7. ASSUME NEW m \in Members, NEW j \in Phases, Starts(m, j) PROVE m = n /\ k = j
  <2>1. phase[m] = j /\ run[m] = "sleep" /\ run' = [run EXCEPT ![m] = "wait"] /\ phase' = phase
    BY <1>7 DEF Starts
  <2>2. m = n
    BY <1>1, <2>1 DEF TypeOK
  <2>3. phase'[n] = j /\ phase[n] = j
    BY <2>1, <2>2
  <2> QED BY <2>2, <2>3 DEF Past
<1>8. ASSUME NEW m \in Members, Contribute(m) PROVE m = n /\ k = Contrib
  BY SMTT(30), <1>7, <1>8 DEF Contribute
<1>9. ASSUME NEW m \in Members, VerifyAndComplain(m) PROVE m = n /\ k = Complain
  BY SMTT(30), <1>7, <1>9 DEF VerifyAndComplain
<1>10. ASSUME NEW m \in Members, VerifyAndJustify(m) PROVE m = n /\ k = Justify
  BY SMTT(30), <1>7, <1>10 DEF VerifyAndJustify
<1>11. ASSUME NEW m \in Members, VerifyAndCommit(m) PROVE m = n /\ k = Commit
  <2>1. m = n
    BY <1>1, <1>11 DEF VerifyAndCommit, TypeOK
  <2>2. phase'[n] = Commit /\ phase[n] = Commit
    BY <1>11, <2>1 DEF VerifyAndCommit
  <2> QED BY <2>1, <2>2 DEF Past
<1>12. \A m \in Members : ~ FinalizeCommitments(m)
  <2> SUFFICES ASSUME NEW m \in Members, FinalizeCommitments(m) PROVE FALSE
    OBVIOUS
  <2>1. m = n /\ phase[n] = Commit /\ run[n] = "wait"
    BY <1>1 DEF FinalizeCommitments, NextPhase, TypeOK
  <2> QED BY SMTT(30), <2>1 DEF Past
<1>13. \A m \in Members : ~ AbortPhase(m)
  <2> SUFFICES ASSUME NEW m \in Members, AbortPhase(m) PROVE FALSE
    OBVIOUS
  <2>1. InStep(m)'
    BY StepStep DEF StepInv
  <2>2. run'[m] = "aborted"
    BY DEF AbortPhase, TypeOK
  <2> QED BY <2>1, <2>2 DEF InStep
<1> QED BY SMTT(30), <1>3, <1>4, <1>5, <1>6, <1>8, <1>9, <1>10, <1>11, <1>12, <1>13 DEF Next, HandleDKGRound

\* Whoever omits nothing and lies about nothing sends everybody a right share.
LEMMA ContributionStep ==
    ASSUME DkgInv, Reliable, StepInv, ContributionInv, [Next]_vars
    PROVE  ContributionInv'
<1> SUFFICES ASSUME NEW n \in Members
             PROVE  /\ Past(n, Contrib)' /\ Present(n)' => contribution'[n] # None
                    /\ contribution'[n] # None /\ Correct(n)' => contribution'[n] = Members
    BY DEF ContributionInv
<1>1. faults' = faults
  BY FaultsFixed
<1>2. ASSUME NEW m \in Members, Contribute(m), Present(m) PROVE contribution'[m] # None
  <2>1. tip = Contrib
    BY <1>2 DEF Contribute, Starts, Reliable
  <2>2. ~ MaySimulate(m, "contribution-omit")
    BY <1>2 DEF MaySimulate, Present
  <2>3. PICK L : contribution' = [contribution EXCEPT ![m] = Members \ L]
    BY <1>2, <2>1, <2>2 DEF Contribute, InTime
  <2> QED BY <2>3, DkgAssumption DEF DkgInv, TypeOK
<1>3. ASSUME NEW m \in Members, Contribute(m), Correct(m), contribution'[m] # contribution[m]
      PROVE  contribution'[m] = Members
  <2>1. PICK L \in Lies(m, "contribution-lie", Members \ {m}) :
            contribution' = [contribution EXCEPT ![m] = Members \ L]
    BY <1>3 DEF Contribute
  <2>2. L = {}
    BY <1>3 DEF Lies, Correct, MaySimulate
  <2> QED BY <2>1, <2>2 DEF DkgInv, TypeOK
<1>4. contribution[n] # None => contribution'[n] = contribution[n]
  BY SentStable DEF DkgInv
<1>5. contribution'[n] # contribution[n] => Contribute(n)
  <2> SUFFICES ASSUME contribution'[n] # contribution[n] PROVE Contribute(n)
    OBVIOUS
  <2>1. PICK m \in Members : Contribute(m)
    BY SentBy
  <2>2. m = n
    BY <2>1 DEF Contribute, DkgInv, TypeOK
  <2> QED BY <2>1, <2>2
<1>6. Past(n, Contrib)' /\ Present(n) => contribution'[n] # None
  <2>1. Past(n, Contrib)' /\ ~ Past(n, Contrib) => Contribute(n)
    BY SMTT(30), PastBy DEF DkgInv
  <2> QED BY <1>2, <1>4, <2>1 DEF ContributionInv
<1>7. contribution'[n] # None /\ Correct(n) => contribution'[n] = Members
  BY <1>3, <1>4, <1>5 DEF ContributionInv
<1> QED BY <1>1, <1>6, <1>7 DEF Present, Correct

\* In the complain phase, everybody has handled the contribution of a present member.
LEMMA PresentHandled ==
    ASSUME DkgInv, StepInv, PhaseInv, ContributionInv, NEW n \in Members, NEW m \in Members,
           phase[n] > Contrib, Present(m)
    PROVE  m \in handled[n][Contrib]
<1>1. tip > Contrib
  BY SMTT(30), PhasesOver DEF DkgInv
<1>2. Past(m, Contrib)
  BY SMTT(30), <1>1, PhasesOver DEF DkgInv
<1>3. m \in Messages(Contrib)
  BY <1>2, MessagesAre DEF ContributionInv
<1> QED BY <1>3 DEF PhaseInv, HandledAll

\* Nobody finds the share of a correct member wrong.
LEMMA NoWrongShare ==
    ASSUME DkgInv, ContributionInv, NEW n \in Members, NEW m \in Members, Correct(m)
    PROVE  m \notin WrongShares(n)
<1> SUFFICES ASSUME m \in WrongShares(n) PROVE FALSE
    OBVIOUS
<1>1. m \in handled[n][Contrib] /\ n \notin contribution[m]
  BY DEF WrongShares, PendingContributions
<1>2. contribution[m] = Members
  BY <1>1 DEF ContributionInv, DkgInv, HandledInv
<1> QED BY <1>1, <1>2

\* Only liars complain about a correct member, and nobody votes a present one bad.
LEMMA ComplaintStep ==
    ASSUME DkgInv, Reliable, StepInv, PhaseInv, ContributionInv, ComplaintInv, BadInv, [Next]_vars
    PROVE  ComplaintInv'
<1> SUFFICES ASSUME NEW n \in Members, NEW m \in Members
             PROVE  /\ Correct(m)' /\ m \in weComplain'[n] => MaySimulate(n, "complain-lie")'
                    /\ Correct(m)' /\ n \in Complainers(m)' => MaySimulate(n, "complain-lie")'
                    /\ complaint'[n] # None /\ Present(m)' => m \notin complaint'[n].bad
    BY DEF ComplaintInv
<1> USE DEF sent, local
<1>1. faults' = faults
  BY FaultsFixed
<1>2. ASSUME NEW o \in Members, VerifyAndComplain(o), Correct(m), m \in weComplain'[n]
      PROVE  MaySimulate(n, "complain-lie")
  BY <1>2, NoWrongShare DEF VerifyAndComplain, ComplaintInv, DkgInv, TypeOK
<1>3. ASSUME NEW o \in Members, ReceiveContributions(o), Correct(m), m \in weComplain'[n]
      PROVE  MaySimulate(n, "complain-lie")
  <2>1. PICK R \in Arrivals(o, Contrib) : \E L \in Lies(o, "complain-lie", R \ {o}) :
            weComplain' = [weComplain EXCEPT ![o] = @ \cup L]
    BY <1>3 DEF ReceiveContributions
  <2>2. CASE m \in weComplain[n]
    BY <1>3, <2>2 DEF ComplaintInv
  <2>3. CASE m \notin weComplain[n]
    BY SMTT(30), <1>3, <2>1, <2>3 DEF Lies, DkgInv, TypeOK
  <2> QED BY <2>2, <2>3
<1>4. ASSUME NEW o \in Members, NEW R, ReceiveJustifications(o, R), Correct(m), m \in weComplain'[n]
      PROVE  MaySimulate(n, "complain-lie")
  <2>1. m \in weComplain[n]
    BY <1>4 DEF ReceiveJustifications, DkgInv, TypeOK
  <2> QED BY <1>4, <2>1 DEF ComplaintInv
<1>5. Correct(m) /\ m \in weComplain'[n] => MaySimulate(n, "complain-lie")
  <2>1. CASE \E o \in Members : EarlyJustifications(o) \/ LateJustifications(o)
    BY <1>4, <2>1 DEF EarlyJustifications, LateJustifications
  <2>2. CASE UpdatedBlockTip \/ UNCHANGED vars \/ \E o \in Members :
              \/ Contribute(o) \/ ReceiveComplaints(o) \/ VerifyAndJustify(o) \/ VerifyAndCommit(o)
              \/ FinalizeCommitments(o) \/ AbortPhase(o)
    <3>1. weComplain' = weComplain
      BY <2>2 DEF UpdatedBlockTip, vars, Contribute, ReceiveComplaints, VerifyAndJustify, VerifyAndCommit,
                  FinalizeCommitments, AbortPhase
    <3> QED BY <3>1 DEF ComplaintInv
  <2> QED BY <1>2, <1>3, <2>1, <2>2 DEF Next, HandleDKGRound
<1>6. ASSUME VerifyAndComplain(n), complaint'[n] # complaint[n]
      PROVE  /\ complaint'[n].complain \subseteq weComplain[n] \cup WrongShares(n)
             /\ complaint'[n].bad = bad[n] \cup (Members \ handled[n][Contrib])
  <2> DEFINE complain == weComplain[n] \cup WrongShares(n)
             badNow == bad[n] \cup (Members \ handled[n][Contrib])
  <2>1. PICK C \in SUBSET {o \in Members \ {n} : <<n, o>> \in faults.unconnected} :
            LET qc == [bad |-> badNow \cup C, complain |-> complain \ (badNow \cup C)] IN
            complaint' = IF InTime(Complain) /\ (qc.bad # {} \/ qc.complain # {})
                         THEN [complaint EXCEPT ![n] = qc]
                         ELSE complaint
    BY <1>6 DEF VerifyAndComplain
  <2>2. C = {}
    BY DEF Reliable
  <2> HIDE DEF complain, badNow
  <2>3. complaint'[n] = [bad |-> badNow, complain |-> complain \ badNow]
    BY <1>6, <2>1, <2>2 DEF DkgInv, TypeOK
  <2> QED BY SMTT(30), <2>3 DEF complain, badNow
<1>7. complaint'[n] # complaint[n] => VerifyAndComplain(n)
  <2> SUFFICES ASSUME complaint'[n] # complaint[n] PROVE VerifyAndComplain(n)
    OBVIOUS
  <2>1. PICK o \in Members : VerifyAndComplain(o)
    BY SentBy
  <2>2. o = n
    BY <2>1 DEF VerifyAndComplain, DkgInv, TypeOK
  <2> QED BY <2>1, <2>2
<1>8. Correct(m) /\ n \in Complainers(m)' => MaySimulate(n, "complain-lie")
  BY <1>6, <1>7, NoWrongShare DEF ComplaintInv, Complainers
<1>9. complaint'[n] # None /\ Present(m) => m \notin complaint'[n].bad
  <2>1. CASE complaint'[n] = complaint[n]
    BY <2>1 DEF ComplaintInv
  <2>2. ASSUME complaint'[n] # complaint[n], Present(m) PROVE m \notin complaint'[n].bad
    <3>1. phase[n] = Complain
      BY <1>7, <2>2 DEF VerifyAndComplain, Starts
    <3>2. m \in handled[n][Contrib]
      BY SMTT(30), <2>2, <3>1, PresentHandled
    <3>3. m \notin bad[n]
      BY SMTT(30), <2>2, <3>1 DEF BadInv, Past
    <3> QED BY <1>6, <1>7, <2>2, <3>2, <3>3
  <2> QED BY <2>1, <2>2
<1> QED BY <1>1, <1>5, <1>8, <1>9 DEF Correct, Present, MaySimulate

\* A member that complains about a correct one is bad for nobody in the justify phase.
LEMMA NoVotes ==
    ASSUME DkgInv, ComplaintInv, NEW n \in Members, NEW m \in Members, Present(m)
    PROVE  m \notin VotedBad(n)
<1>1. \A s \in handled[n][Complain] : s \in Members /\ complaint[s] # None
  BY SMTT(30) DEF DkgInv, HandledInv, TypeOK
<1>2. BadMemberVotes(n, m) = {}
  BY <1>1 DEF BadMemberVotes, ComplaintInv
<1>3. Cardinality(BadMemberVotes(n, m)) = 0
  BY <1>2, MembersAreCounted DEF Counted
<1>4. BadVotesThreshold \in Nat \ {0}
  BY DkgAssumption
<1> QED BY SMTT(30), <1>3, <1>4 DEF VotedBad

\* A correct member sees a reason to justify itself to everybody who complains.
LEMMA JustifiesToAll ==
    ASSUME DkgInv, PhaseInv, ComplaintInv, BadInv, LiarsPresent, NEW m \in Members, Correct(m),
           phase[m] = Justify
    PROVE  JustifyFor(m, bad[m] \cup VotedBad(m)) = Complainers(m)
<1>1. handled[m][Complain] = {s \in Members : complaint[s] # None}
  BY SMTT(30), MessagesAre DEF PhaseInv, HandledAll
<1>2. ASSUME NEW s \in Complainers(m) PROVE s \notin bad[m] \cup VotedBad(m)
  <2>1. s \in Members /\ MaySimulate(s, "complain-lie")
    BY <1>2 DEF ComplaintInv, Complainers
  <2>2. Present(s)
    BY <2>1 DEF LiarsPresent, MaySimulate, Present, DkgInv, TypeOK
  <2>3. s \notin VotedBad(m)
    BY <2>1, <2>2, NoVotes
  <2>4. s \notin bad[m]
    BY SMTT(30), <2>1, <2>2 DEF BadInv, Past
  <2> QED BY <2>3, <2>4
<1> QED BY <1>1, <1>2 DEF JustifyFor, Complainers

\* A correct member answers every complaint with the right shares.
LEMMA JustificationStep ==
    ASSUME DkgInv, Reliable, StepInv, PhaseInv, ComplaintInv, JustificationInv, BadInv, LiarsPresent,
           [Next]_vars
    PROVE  JustificationInv'
<1> SUFFICES ASSUME NEW m \in Members
             PROVE  /\ justification'[m] # None =>
                          /\ justification'[m].for \subseteq Complainers(m)'
                          /\ Present(m)' => justification'[m].wrong = {}
                          /\ Correct(m)' => justification'[m].for = Complainers(m)'
                    /\ Correct(m)' /\ Past(m, Justify)' /\ Complainers(m)' # {} => justification'[m] # None
    BY DEF JustificationInv
<1>1. faults' = faults
  BY FaultsFixed
<1>2. ASSUME VerifyAndJustify(m)
      PROVE  /\ justification'[m] # None =>
                   /\ justification'[m].for \subseteq Complainers(m)'
                   /\ Present(m) => justification'[m].wrong = {}
                   /\ Correct(m) => justification'[m].for = Complainers(m)'
             /\ Correct(m) /\ Complainers(m)' # {} => justification'[m] # None
  <2> DEFINE for == JustifyFor(m, bad[m] \cup VotedBad(m))
  <2>1. phase[m] = Justify /\ run[m] = "sleep" /\ tip = Justify
    BY <1>2 DEF VerifyAndJustify, Starts, Reliable
  <2>2. Complainers(m)' = Complainers(m)
    BY <1>2 DEF VerifyAndJustify, Complainers
  <2>3. for \subseteq Complainers(m)
    BY SMTT(30) DEF JustifyFor, Complainers, DkgInv, HandledInv, TypeOK
  <2>4. Correct(m) => for = Complainers(m)
    BY <2>1, JustifiesToAll
  <2>5. justification[m] = None
    BY SMTT(30), <2>1 DEF DkgInv, SentInv, Past
  <2>6. Correct(m) => ~ MaySimulate(m, "justify-omit")
    BY DEF Correct, MaySimulate
  <2>7. Present(m) \/ Correct(m) => ~ MaySimulate(m, "justify-lie")
    BY DEF Correct, Present, MaySimulate
  <2>8. \/ /\ justification'[m] = None
           /\ for = {} \/ ~ Correct(m)
        \/ \E L \in Lies(m, "justify-lie", for \ {m}) : justification'[m] = [for |-> for, wrong |-> L]
    <3>1. CASE UNCHANGED justification /\ (for = {} \/ ~ InTime(Justify) \/ MaySimulate(m, "justify-omit"))
      BY <2>1, <2>5, <2>6, <3>1 DEF InTime
    <3>2. CASE \E L \in Lies(m, "justify-lie", for \ {m}) :
                  justification' = [justification EXCEPT ![m] = [for |-> for, wrong |-> L]]
      BY <3>2 DEF DkgInv, TypeOK
    <3> QED BY <1>2, <3>1, <3>2 DEF VerifyAndJustify
  <2> HIDE DEF for
  <2>9. CASE justification'[m] = None /\ (for = {} \/ ~ Correct(m))
    BY <2>2, <2>4, <2>9
  <2>10. ASSUME NEW L \in Lies(m, "justify-lie", for \ {m}), justification'[m] = [for |-> for, wrong |-> L]
         PROVE  /\ justification'[m] # None =>
                      /\ justification'[m].for \subseteq Complainers(m)'
                      /\ Present(m) => justification'[m].wrong = {}
                      /\ Correct(m) => justification'[m].for = Complainers(m)'
                /\ Correct(m) /\ Complainers(m)' # {} => justification'[m] # None
    <3>1. Present(m) \/ Correct(m) => L = {}
      BY <2>7 DEF Lies
    <3>2. justification'[m].for = for /\ justification'[m].wrong = L
      BY SMTT(30), <2>10
    <3>3. for \subseteq Members /\ L \subseteq Members
      BY <2>3, LiesAreSubsets DEF Complainers
    <3>4. justification'[m] # None
      BY <2>10, <3>3, NoneAssumption DEF JustifyMsg
    <3> QED BY <2>2, <2>3, <2>4, <3>1, <3>2, <3>4
  <2> QED BY <2>8, <2>9, <2>10
<1>3. ASSUME ~ VerifyAndJustify(m)
      PROVE  /\ justification'[m] = justification[m]
             /\ Past(m, Justify)' => Past(m, Justify)
  <2>1. justification'[m] = justification[m]
    <3>1. ASSUME NEW o \in Members, VerifyAndJustify(o) PROVE justification'[m] = justification[m]
      BY <1>3, <3>1 DEF VerifyAndJustify, DkgInv, TypeOK
    <3> QED BY <3>1, SentBy
  <2>2. Past(m, Justify)' => Past(m, Justify)
    BY SMTT(30), <1>3, PastBy DEF DkgInv
  <2> QED BY <2>1, <2>2
<1>4. Past(m, Justify) => Complainers(m)' = Complainers(m)
  <2> SUFFICES ASSUME Past(m, Justify) PROVE complaint' = complaint
    BY DEF Complainers
  <2>1. tip > Complain
    BY SMTT(30), PhasesOver DEF DkgInv, Past
  <2> QED BY <2>1, NothingLate DEF DkgInv
<1>5. justification[m] # None => Past(m, Justify)
  BY DEF DkgInv, SentInv
<1>6. CASE VerifyAndJustify(m)
  BY <1>1, <1>2, <1>6 DEF Correct, Present
<1>7. CASE ~ VerifyAndJustify(m)
  BY <1>1, <1>3, <1>4, <1>5, <1>7 DEF Correct, Present, JustificationInv
<1> QED BY <1>6, <1>7

\* A justification that a member has not handled answers complaints it knows.
LEMMA PresentVerified ==
    ASSUME DkgInv, JustificationInv, KnownInv, BadInv, NEW n \in Members, NEW m \in Members, phase[n] = Justify,
           Present(m), NEW R \in SUBSET (Messages(Justify) \ handled[n][Justify]), m \in R
    PROVE  /\ m \in JustifiedBy(n, R)
           /\ RightShares(n, m) = justification[m].for
<1>1. justification[m] # None /\ m \notin handled[n][Justify]
  BY MessagesAre
<1>2. complaintsFromOthers[n][m] = Complainers(m)
  BY SMTT(30), <1>1 DEF KnownInv
<1>3. justification[m].for \subseteq Complainers(m) /\ justification[m].wrong = {}
  BY <1>1 DEF JustificationInv
<1>4. m \notin bad[n]
  BY SMTT(30) DEF BadInv, Past
<1> QED BY <1>2, <1>3, <1>4 DEF JustifiedBy, RightShares

\* Members count the complaints that were sent, until they are justified.
LEMMA KnownStep ==
    ASSUME DkgInv, Reliable, StepInv, PhaseInv, JustificationInv, KnownInv, BadInv, [Next]_vars
    PROVE  KnownInv'
<1> SUFFICES ASSUME NEW n \in Members, NEW m \in Members
             PROVE  /\ phase'[n] <= Complain => complaintsFromOthers'[n][m] = {}
                    /\ phase'[n] > Complain /\ m \notin handled'[n][Justify]
                          => complaintsFromOthers'[n][m] = Complainers(m)'
                    /\ Correct(m)' /\ m \in handled'[n][Justify] => complaintsFromOthers'[n][m] = {}
    BY DEF KnownInv
<1> USE DEF sent, local
<1>0. phase \in [Members -> Phases] /\ phase' \in [Members -> Phases]
  <2>1. TypeOK /\ TypeOK'
    BY TypeStep DEF DkgInv
  <2>2. phase \in [Members -> Phases]
    BY <2>1 DEF TypeOK
  <2>3. phase' \in [Members -> Phases]
    BY <2>1 DEF TypeOK
  <2> QED BY <2>2, <2>3
<1>1. faults' = faults /\ TypeOK
  BY FaultsFixed DEF DkgInv
<1>2. phase[n] > Complain => Complainers(m)' = Complainers(m)
  <2> SUFFICES ASSUME phase[n] > Complain PROVE complaint' = complaint
    BY DEF Complainers
  <2>1. tip > Complain
    BY SMTT(30), <1>1, PhasesOver
  <2> QED BY <2>1, NothingLate DEF DkgInv
<1> DEFINE Known == /\ phase'[n] <= Complain => complaintsFromOthers'[n][m] = {}
                    /\ phase'[n] > Complain /\ m \notin handled'[n][Justify]
                          => complaintsFromOthers'[n][m] = Complainers(m)'
                    /\ Correct(m) /\ m \in handled'[n][Justify] => complaintsFromOthers'[n][m] = {}
<1>3. ASSUME complaintsFromOthers'[n] = complaintsFromOthers[n], handled'[n][Justify] = handled[n][Justify],
             \/ phase'[n] = phase[n]
             \/ phase[n] <= Complain /\ phase'[n] <= Complain
      PROVE  Known
  <2>1. phase[n] \in Int /\ phase'[n] \in Int
    BY SMTT(30), <1>0
  <2>2. phase'[n] <= Complain <=> phase[n] <= Complain
    BY <1>3, <2>1
  <2>3. phase'[n] > Complain <=> phase[n] > Complain
    BY SMTT(30), <1>3, <2>1
  <2> QED BY SMTT(30), <1>2, <1>3, <2>2, <2>3 DEF KnownInv
<1>4. ASSUME NEW o \in Members, ReceiveContributions(o) PROVE Known
  <2>1. PICK R \in Arrivals(o, Contrib) : handled' = [handled EXCEPT ![o][Contrib] = @ \cup R]
    BY <1>4 DEF ReceiveContributions
  <2>2. handled'[n][Justify] = handled[n][Justify]
    BY SMTT(30), <1>1, <2>1 DEF TypeOK
  <2>3. phase[o] = Contrib /\ phase' = [phase EXCEPT ![o] = Complain]
    BY <1>4 DEF ReceiveContributions, NextPhase, EnterPhase
  <2>4. phase'[n] = phase[n] \/ (phase[n] = Contrib /\ phase'[n] = Complain)
    BY <1>1, <2>3 DEF TypeOK
  <2>5. complaintsFromOthers' = complaintsFromOthers
    BY <1>4 DEF ReceiveContributions
  <2> QED BY SMTT(30), <1>3, <2>2, <2>4, <2>5
<1>5. ASSUME NEW o \in Members, ReceiveComplaints(o) PROVE Known
  <2>1. PICK R \in Arrivals(o, Complain) :
            /\ handled' = [handled EXCEPT ![o][Complain] = @ \cup R]
            /\ complaintsFromOthers' = [complaintsFromOthers EXCEPT ![o] =
                    [x \in Members |-> @[x] \cup {s \in R : x \in complaint[s].complain}]]
    BY <1>5 DEF ReceiveComplaints
  <2>2. handled'[n][Justify] = handled[n][Justify]
    BY SMTT(30), <1>1, <2>1 DEF TypeOK
  <2>3. phase[o] = Complain /\ phase' = [phase EXCEPT ![o] = Justify] /\ complaint' = complaint
    BY <1>5 DEF ReceiveComplaints, NextPhase, EnterPhase
  <2>4. CASE o # n
    <3>1. phase'[n] = phase[n] /\ complaintsFromOthers'[n] = complaintsFromOthers[n]
      BY <1>1, <2>1, <2>3, <2>4 DEF TypeOK
    <3> QED BY <1>3, <2>2, <3>1
  <2>5. CASE o = n
    <3>1. handled[n][Complain] = {} /\ handled[n][Justify] = {}
      BY SMTT(30), <2>3, <2>5 DEF PhaseInv, HandledAll
    <3>2. R = {s \in Members : complaint[s] # None}
      BY SMTT(30), <2>5, <3>1, AllArrive, MessagesAre
    <3>3. complaintsFromOthers'[n][m] = complaintsFromOthers[n][m] \cup {s \in R : m \in complaint[s].complain}
      BY <1>1, <2>1, <2>5 DEF TypeOK
    <3>4. complaintsFromOthers[n][m] = {}
      BY SMTT(30), <2>3, <2>5 DEF KnownInv
    <3>5. complaintsFromOthers'[n][m] = Complainers(m)'
      BY <2>3, <3>2, <3>3, <3>4 DEF Complainers
    <3>6. phase'[n] = Justify
      BY <1>1, <2>3, <2>5 DEF TypeOK
    <3> QED BY SMTT(30), <2>2, <3>1, <3>5, <3>6
  <2> QED BY <2>4, <2>5
<1>6. ASSUME NEW o \in Members, phase[o] = Justify, phase'[o] > Complain,
             \A x \in Members : x # o => phase'[x] = phase[x],
             NEW R \in SUBSET (Messages(Justify) \ handled[o][Justify]), ReceiveJustifications(o, R)
      PROVE  Known
  <2>1. CASE o # n
    <3>1. /\ phase'[n] = phase[n] /\ complaintsFromOthers'[n] = complaintsFromOthers[n]
          /\ handled'[n][Justify] = handled[n][Justify]
      BY <1>1, <1>6, <2>1 DEF ReceiveJustifications, TypeOK
    <3> QED BY <1>3, <3>1
  <2>2. CASE o = n
    <3>1. handled'[n][Justify] = handled[n][Justify] \cup R
      BY SMTT(30), <1>1, <1>6, <2>2 DEF ReceiveJustifications, TypeOK
    <3>2. complaintsFromOthers'[n][m] = IF m \in JustifiedBy(n, R)
                                        THEN complaintsFromOthers[n][m] \ RightShares(n, m)
                                        ELSE complaintsFromOthers[n][m]
      BY <1>1, <1>6, <2>2 DEF ReceiveJustifications, TypeOK
    <3>3. m \notin R => m \notin JustifiedBy(n, R)
      BY DEF JustifiedBy
    <3>4. ~ (phase'[n] <= Complain) /\ phase[n] > Complain
      BY SMTT(30), <1>0, <1>6, <2>2
    <3>5. ASSUME m \notin handled'[n][Justify]
          PROVE  complaintsFromOthers'[n][m] = Complainers(m)'
      <4>1. m \notin handled[n][Justify] /\ m \notin R
        BY <3>1, <3>5
      <4>2. complaintsFromOthers[n][m] = Complainers(m)
        BY <3>4, <4>1 DEF KnownInv
      <4>3. complaintsFromOthers'[n][m] = complaintsFromOthers[n][m]
        BY <3>2, <3>3, <4>1
      <4> QED BY <1>2, <3>4, <4>2, <4>3
    <3>6. ASSUME Correct(m), m \in handled'[n][Justify]
          PROVE  complaintsFromOthers'[n][m] = {}
      <4>1. CASE m \in handled[n][Justify]
        BY <3>2, <3>6, <4>1 DEF KnownInv
      <4>2. CASE m \in R
        <5>1. Present(m)
          BY <3>6 DEF Present, Correct
        <5>2. m \in JustifiedBy(n, R) /\ RightShares(n, m) = justification[m].for
          BY <1>6, <2>2, <4>2, <5>1, PresentVerified
        <5>3. justification[m] # None
          BY <4>2, MessagesAre
        <5>4. justification[m].for = Complainers(m)
          BY <3>6, <5>3 DEF JustificationInv
        <5>5. complaintsFromOthers[n][m] = Complainers(m)
          BY <1>6, <2>2, <3>4, <4>2 DEF KnownInv
        <5> QED BY <3>2, <5>2, <5>4, <5>5
      <4> QED BY <3>1, <3>6, <4>1, <4>2
    <3> QED BY <3>4, <3>5, <3>6
  <2> QED BY <2>1, <2>2
<1>7. ASSUME NEW o \in Members, EarlyJustifications(o) PROVE Known
  <2>1. PICK R \in SUBSET (Messages(Justify) \ handled[o][Justify]) : ReceiveJustifications(o, R)
    BY <1>7 DEF EarlyJustifications
  <2>2. phase[o] = Justify /\ phase' = phase
    BY <1>7 DEF EarlyJustifications
  <2>3. phase'[o] > Complain
    BY SMTT(30), <2>2
  <2> QED BY <1>6, <2>1, <2>2, <2>3
<1>8. ASSUME NEW o \in Members, LateJustifications(o) PROVE Known
  <2>1. PICK R \in Arrivals(o, Justify) : ReceiveJustifications(o, R)
    BY <1>8 DEF LateJustifications
  <2>2. R \in SUBSET (Messages(Justify) \ handled[o][Justify])
    BY SMTT(30), ArrivalsAreMessages
  <2>3. phase[o] = Justify /\ phase' = [phase EXCEPT ![o] = Commit]
    BY <1>8 DEF LateJustifications, NextPhase, EnterPhase
  <2>4. phase'[o] > Complain /\ \A x \in Members : x # o => phase'[x] = phase[x]
    BY SMTT(30), <1>1, <2>3 DEF TypeOK
  <2> QED BY <1>6, <2>1, <2>2, <2>3, <2>4
<1>9. ASSUME NEW o \in Members, FinalizeCommitments(o) PROVE Known
  <2>1. PICK R : handled' = [handled EXCEPT ![o][Commit] = @ \cup R]
    BY <1>9 DEF FinalizeCommitments
  <2>2. handled'[n][Justify] = handled[n][Justify]
    BY SMTT(30), <1>1, <2>1 DEF TypeOK
  <2>3. phase' = phase /\ complaintsFromOthers' = complaintsFromOthers
    BY <1>9 DEF FinalizeCommitments
  <2> QED BY <1>3, <2>2, <2>3
<1>10. ASSUME UpdatedBlockTip \/ UNCHANGED vars \/ \E o \in Members :
              \/ Contribute(o) \/ VerifyAndComplain(o) \/ VerifyAndJustify(o) \/ VerifyAndCommit(o)
              \/ AbortPhase(o)
       PROVE  Known
  <2>1. phase' = phase /\ handled' = handled /\ complaintsFromOthers' = complaintsFromOthers
    BY <1>10 DEF UpdatedBlockTip, vars, Contribute, VerifyAndComplain, VerifyAndJustify,
                 VerifyAndCommit, AbortPhase, Starts
  <2> QED BY <1>3, <2>1
<1> HIDE DEF Known
<1>11. Known
  BY <1>4, <1>5, <1>7, <1>8, <1>9, <1>10 DEF Next, HandleDKGRound
<1> QED BY <1>1, <1>11 DEF Known, Correct

\* No member finds a present one bad before VerifyAndCommit.
LEMMA BadStep ==
    ASSUME DkgInv, Reliable, StepInv, PhaseInv, ContributionInv, ComplaintInv, JustificationInv,
           KnownInv, BadInv, [Next]_vars
    PROVE  BadInv'
<1> SUFFICES ASSUME NEW n \in Members, NEW m \in Members, ~ Past(n, Commit)', Present(m)'
             PROVE  m \notin bad'[n]
    BY DEF BadInv
<1> USE DEF sent, local
<1>1. Present(m) /\ TypeOK
  BY FaultsFixed DEF Present, DkgInv
<1>2. ~ Past(n, Commit)
  BY SMTT(30), <1>1, PastStable
<1>3. m \notin bad[n]
  BY <1>1, <1>2 DEF BadInv
<1>b. bad \in [Members -> SUBSET Members] /\ run \in [Members -> {"sleep", "wait", "done", "aborted", "crashed"}]
  BY <1>1 DEF TypeOK
<1>4. ASSUME NEW o \in Members, VerifyAndComplain(o) PROVE m \notin bad'[n]
  <2>b. bad' = [bad EXCEPT ![o] = bad[o] \cup (Members \ handled[o][Contrib])]
    BY <1>4 DEF VerifyAndComplain
  <2>1. CASE o # n
    BY <1>b, <1>3, <2>b, <2>1
  <2>2. CASE o = n
    <3>1. phase[n] = Complain
      BY <1>4, <2>2 DEF VerifyAndComplain, Starts
    <3>2. m \in handled[n][Contrib]
      BY SMTT(30), <1>1, <3>1, PresentHandled
    <3> QED BY <1>b, <1>3, <2>b, <2>2, <3>2
  <2> QED BY <2>1, <2>2
<1>5. ASSUME NEW o \in Members, VerifyAndJustify(o) PROVE m \notin bad'[n]
  <2>1. m \notin VotedBad(n)
    BY <1>1, NoVotes
  <2>2. bad' = [bad EXCEPT ![o] = bad[o] \cup VotedBad(o)]
    BY <1>5 DEF VerifyAndJustify
  <2> QED BY <1>b, <1>3, <2>1, <2>2
<1>6. ASSUME NEW o \in Members, phase[o] = Justify,
             NEW R \in SUBSET (Messages(Justify) \ handled[o][Justify]), ReceiveJustifications(o, R)
      PROVE  m \notin bad'[n]
  <2>1. CASE o # n
    BY <1>1, <1>3, <1>6, <2>1 DEF ReceiveJustifications, TypeOK
  <2>2. CASE o = n
    <3>1. bad'[n] = bad[n] \cup (R \ JustifiedBy(n, R))
                       \cup {s \in JustifiedBy(n, R) : RightShares(n, s) # justification[s].for}
      BY <1>1, <1>6, <2>2 DEF ReceiveJustifications, TypeOK
    <3>2. m \in R => m \in JustifiedBy(n, R) /\ RightShares(n, m) = justification[m].for
      BY <1>1, <1>6, <2>2, PresentVerified
    <3>3. m \in JustifiedBy(n, R) => m \in R
      BY DEF JustifiedBy
    <3> QED BY <1>3, <3>1, <3>2, <3>3
  <2> QED BY <2>1, <2>2
<1>7. ASSUME NEW o \in Members, EarlyJustifications(o) PROVE m \notin bad'[n]
  BY <1>6, <1>7 DEF EarlyJustifications
<1>8. ASSUME NEW o \in Members, LateJustifications(o) PROVE m \notin bad'[n]
  <2>1. PICK R \in Arrivals(o, Justify) : ReceiveJustifications(o, R)
    BY <1>8 DEF LateJustifications
  <2>2. R \in SUBSET (Messages(Justify) \ handled[o][Justify])
    BY SMTT(30), ArrivalsAreMessages
  <2>3. phase[o] = Justify
    BY <1>8 DEF LateJustifications, NextPhase
  <2> QED BY <1>6, <2>1, <2>2, <2>3
<1>9. ASSUME NEW o \in Members, VerifyAndCommit(o) PROVE m \notin bad'[n]
  <2>0. /\ phase[o] = Commit /\ phase' = phase
        /\ run' = [run EXCEPT ![o] = "wait"] \/ run' = [run EXCEPT ![o] = "crashed"]
        /\ bad' = [bad EXCEPT ![o] = bad[o] \cup OpenComplaints(o)]
    BY <1>9 DEF VerifyAndCommit
  <2>1. run'[o] # "sleep"
    BY <1>b, <2>0
  <2>2. o # n
    BY <2>0, <2>1 DEF Past
  <2> QED BY <1>b, <1>3, <2>0, <2>2
<1>10. CASE UpdatedBlockTip \/ UNCHANGED vars \/ \E o \in Members :
              \/ Contribute(o) \/ ReceiveContributions(o) \/ ReceiveComplaints(o) \/ FinalizeCommitments(o)
              \/ AbortPhase(o)
  <2>1. bad' = bad
    BY <1>10 DEF UpdatedBlockTip, vars, Contribute, ReceiveContributions, ReceiveComplaints,
                 FinalizeCommitments, AbortPhase
  <2> QED BY <1>3, <2>1
<1> QED BY <1>4, <1>5, <1>7, <1>8, <1>9, <1>10 DEF Next, HandleDKGRound

\* No complaint about a correct member is open when a member commits.
LEMMA ValidStep ==
    ASSUME DkgInv, Reliable, StepInv, PhaseInv, JustificationInv, KnownInv, BadInv, ValidInv, [Next]_vars
    PROVE  ValidInv'
<1> SUFFICES ASSUME NEW n \in Members, NEW m \in Members, commitment'[n] # None, Correct(m)'
             PROVE  m \in commitment'[n]
    BY DEF ValidInv
<1>1. Correct(m) /\ Present(m)
  BY FaultsFixed DEF Correct, Present
<1>2. CASE commitment'[n] = commitment[n]
  BY <1>1, <1>2 DEF ValidInv
<1>3. CASE commitment'[n] # commitment[n]
  <2>1. PICK o \in Members : VerifyAndCommit(o)
    BY <1>3, SentBy
  <2>2. o = n /\ commitment'[n] = Members \ (bad[n] \cup OpenComplaints(n))
    BY SMTT(30), <1>3, <2>1 DEF VerifyAndCommit, DkgInv, TypeOK
  <2>3. phase[n] = Commit /\ run[n] = "sleep" /\ tip = Commit
    BY <2>1, <2>2 DEF VerifyAndCommit, Reliable
  <2>4. m \notin bad[n]
    BY SMTT(30), <1>1, <2>3 DEF BadInv, Past
  <2>5. complaintsFromOthers[n][m] = {}
    <3>1. CASE m \in handled[n][Justify]
      BY <1>1, <3>1 DEF KnownInv
    <3>2. CASE m \notin handled[n][Justify]
      <4>1. complaintsFromOthers[n][m] = Complainers(m)
        BY SMTT(30), <2>3, <3>2 DEF KnownInv
      <4>2. justification[m] = None
        BY SMTT(30), <2>3, <3>2, MessagesAre DEF PhaseInv, HandledAll
      <4>3. Past(m, Justify)
        BY SMTT(30), <2>3, PhasesOver DEF DkgInv
      <4> QED BY <1>1, <4>1, <4>2, <4>3 DEF JustificationInv
    <3> QED BY <3>1, <3>2
  <2> QED BY <2>2, <2>4, <2>5 DEF OpenComplaints
<1> QED BY <1>2, <1>3

\* Nothing has gone wrong at the start.
LEMMA ReliableInit == Init => ReliableInv
<1> SUFFICES ASSUME Init PROVE ReliableInv
    OBVIOUS
<1>1. StepInv
  BY DEF Init, StepInv, InStep
<1>2. PhaseInv
  BY SMTT(30) DEF Init, PhaseInv, HandledAll
<1>3. ContributionInv
  BY SMTT(30) DEF Init, ContributionInv, Past
<1>4. ComplaintInv
  BY DEF Init, ComplaintInv, Complainers
<1>5. JustificationInv
  BY SMTT(30) DEF Init, JustificationInv, Past
<1>6. KnownInv /\ BadInv /\ ValidInv
  BY SMTT(30) DEF Init, KnownInv, BadInv, ValidInv
<1> QED BY <1>1, <1>2, <1>3, <1>4, <1>5, <1>6 DEF ReliableInv

\* Every step keeps the invariant of a session without lost messages.
LEMMA ReliableStep == LiarsPresent /\ DkgInv /\ ReliableInv /\ [Next]_vars => ReliableInv'
<1> SUFFICES ASSUME LiarsPresent, DkgInv, ReliableInv, [Next]_vars, Reliable'
             PROVE  /\ StepInv' /\ PhaseInv' /\ ContributionInv' /\ ComplaintInv' /\ JustificationInv'
                    /\ KnownInv' /\ BadInv' /\ ValidInv'
    BY DEF ReliableInv
<1>1. Reliable
  BY FaultsFixed DEF Reliable
<1>2. /\ StepInv /\ PhaseInv /\ ContributionInv /\ ComplaintInv /\ JustificationInv
      /\ KnownInv /\ BadInv /\ ValidInv
  BY <1>1 DEF ReliableInv
<1>3. StepInv'
  BY <1>1, <1>2, StepStep DEF DkgInv
<1> QED BY <1>1, <1>2, <1>3, PhaseStep, ContributionStep, ComplaintStep, JustificationStep, KnownStep,
           BadStep, ValidStep

\* As long as messages arrive, no member that makes no error is left out of a quorum,
\* whatever the others do, provided that those who complain without reason contribute
\* and send no wrong justification.  Without the proviso a correct member does not
\* justify itself to a complainer it calls bad, and is called bad for that
\* (VerifyAndJustify, VerifyAndCommit): see the configuration DKGBadComplainer.cfg.
THEOREM CorrectStayValid ==
    ASSUME LiarsPresent
    PROVE  Spec => []CorrectMembersValid
<1>1. DkgInv /\ ReliableInv => CorrectMembersValid
  <2> SUFFICES ASSUME DkgInv, ReliableInv, Reliable, NEW n \in Members, NEW f \in final[n],
                      NEW m \in Members, Correct(m)
               PROVE  m \in f.valid
    BY DEF CorrectMembersValid
  <2>1. /\ f.signers \in SUBSET Members
        /\ Cardinality(f.signers) >= MinSize
        /\ \A s \in f.signers : commitment[s] # None /\ commitment[s] = f.valid
    BY DEF DkgInv, FinalInv
  <2>2. f.signers # {}
    <3>1. MinSize >= 2 /\ MinSize \in Int
      <4>1. Cardinality(Members) \in Nat
        BY MembersAreCounted DEF Counted
      <4> QED BY SMTT(30), <4>1, DkgAssumption
    <3>2. Cardinality({}) = 0
      BY MembersAreCounted DEF Counted
    <3> QED BY SMTT(30), <2>1, <3>1, <3>2
  <2>3. PICK s \in f.signers : s \in Members /\ commitment[s] # None /\ commitment[s] = f.valid
    BY <2>1, <2>2
  <2>4. m \in commitment[s]
    BY <2>3 DEF ReliableInv, ValidInv
  <2> QED BY <2>3, <2>4
<1>2. ReliableInv /\ DkgInv /\ [Next]_vars => ReliableInv'
  BY ReliableStep
<1> QED BY <1>1, <1>2, ReliableInit, DkgInvariant, PTL DEF Spec
=============================================================================
