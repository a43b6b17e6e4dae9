--------------------------- MODULE SigningProofs ---------------------------
(***************************************************************************)
(* Proofs about Signing, for every set of nodes, quorums, ids and messages. *)
(*                                                                         *)
(* HonestSignsOnce is not inductive: a call of AsyncSignIfMember that has  *)
(* read the vote but not written it, and a session that is queued but not  *)
(* signed, both lead to a share later.  VoteInv says what holds of each of *)
(* them; RecInv says where shares and recovered signatures come from.      *)
(***************************************************************************)
EXTENDS Signing, FiniteSetTheorems, TLAPS

\* A leaf is given to Zenon unless it names another prover.
USE ZenonT(30)

\* The sessions node n is bound to: queued for signing, or signed
Committed(n) == {s \in Sessions : s \in pendingSigns[n] \/ [session |-> s, member |-> n] \in sent}

\* What call c of AsyncSignIfMember read is still so
CallOK(n, t, c) ==
    /\ t \in Callers[c.session.id]
    /\ c.session.id \notin expired
    /\ c.session.quorum \in Selected[c.session.id]
    /\ n \in Members[c.session.quorum]
    /\ c.session.id \in VotingIds =>
         /\ c.prevMsgHash \in {None, c.session.msg}
         /\ vote[n][c.session.id] = c.prevMsgHash

CallInv == \A n \in Honest, t \in Threads : call[n][t] # None => CallOK(n, t, call[n][t])

CommittedInv ==
    \A n \in Honest : \A s \in Committed(n) :
        /\ s.quorum \in Selected[s.id]
        /\ n \in Members[s.quorum]
        /\ s.id \in VotingIds => s.id \in expired \/ vote[n][s.id] = s.msg

OneMessageInv ==
    \A n \in Honest : \A s1, s2 \in Committed(n) :
        s1.id = s2.id /\ s1.id \in VotingIds => s1.msg = s2.msg

SentInv == \A x \in sent : x.member \in Honest

VoteInv == TypeOK /\ SentInv /\ CallInv /\ CommittedInv /\ OneMessageInv

ShareInv ==
    \A n \in Honest : \A x \in sigShares[n] :
        x.member \in Backers(sent, x.session)

RecSigInv ==
    \A n \in Honest : /\ \A s \in checked[n] : Recoverable(sent, s)
                      /\ \A i \in Ids : recSig[n][i] # None =>
                            recSig[n][i].id = i /\ Recoverable(sent, recSig[n][i])

RecInv == ShareInv /\ RecSigInv

-----------------------------------------------------------------------------
\* Init and every step keep the variables in their types.
LEMMA TypeInit == Init => TypeOK
BY SMTT(30) DEF Init, TypeOK

\* Processing a share changes the share store by that share, and the recovered
\* signatures to store by the share's session.
LEMMA ProcessSigShareType ==
    ASSUME TypeOK, NEW n \in Honest, NEW x \in Shares, ProcessSigShare(n, x)
    PROVE  /\ sigShares' \in [Honest -> SUBSET Shares]
           /\ checked' \in [Honest -> SUBSET Sessions]
<1>1. x.session \in Sessions
  BY DEF Shares
<1>2. CASE HasRecoveredSigForId(n, x.session.id) \/ x \in sigShares[n]
  BY <1>2 DEF ProcessSigShare, TypeOK
<1>3. CASE ~ (HasRecoveredSigForId(n, x.session.id) \/ x \in sigShares[n])
  <2>1. sigShares' = [sigShares EXCEPT ![n] = @ \cup {x}]
    BY <1>3 DEF ProcessSigShare
  <2>2. \/ checked' = [checked EXCEPT ![n] = @ \cup {x.session}]
        \/ checked' = checked
    BY <1>3 DEF ProcessSigShare
  <2> QED BY SMTT(30), <1>1, <2>1, <2>2 DEF TypeOK
<1> QED BY <1>2, <1>3

\* Every step keeps the types.
LEMMA TypeStep == TypeOK /\ [Next]_vars => TypeOK'
<1> SUFFICES ASSUME TypeOK, [Next]_vars PROVE TypeOK'
    OBVIOUS
<1>1. ASSUME NEW n \in Honest, NEW t \in Threads, NEW s \in Sessions, AsyncSignIfMember(n, t, s)
      PROVE TypeOK'
  <2>1. [session |-> s, prevMsgHash |-> vote[n][s.id]] \in Calls
    BY SMTT(30) DEF Calls, TypeOK, Sessions
  <2> QED BY <1>1, <2>1 DEF AsyncSignIfMember, TypeOK
<1>2. ASSUME NEW n \in Honest, NEW t \in Threads, WriteVoteAndAsyncSign(n, t)
      PROVE TypeOK'
  <2> DEFINE s == call[n][t].session
  <2>1. s \in Sessions /\ s.id \in Ids /\ s.msg \in Msgs
    BY SMTT(30), <1>2 DEF WriteVoteAndAsyncSign, TypeOK, Calls, Sessions
  <2> QED BY <1>2, <2>1 DEF WriteVoteAndAsyncSign, TypeOK, VoteOf
<1>3. ASSUME NEW n \in Honest, NEW s \in Sessions, SignPendingSigShare(n, s)
      PROVE TypeOK'
  <2>1. [session |-> s, member |-> n] \in Shares
    BY DEF Shares, Honest
  <2> QED BY <1>3, <2>1, ProcessSigShareType DEF SignPendingSigShare, TypeOK
<1>4. ASSUME NEW n \in Honest, NEW s \in Sessions, ProcessMessageRecoveredSig(n, s)
      PROVE TypeOK'
  BY <1>4 DEF ProcessMessageRecoveredSig, TypeOK
<1>5. ASSUME NEW n \in Honest, NEW s \in Sessions, WriteRecoveredSig(n, s)
      PROVE TypeOK'
  BY <1>5 DEF WriteRecoveredSig, TypeOK, SharesOf, Sessions
<1>6. ASSUME NEW n \in Honest, NEW x \in Shares, ProcessMessageSigShare(n, x)
      PROVE TypeOK'
  BY <1>6, ProcessSigShareType DEF ProcessMessageSigShare, TypeOK
<1>7. ASSUME NEW n \in Honest, NEW s \in Sessions, SessionTimeout(n, s)
      PROVE TypeOK'
  BY <1>7 DEF SessionTimeout, TypeOK, SharesOf
<1>8. ASSUME NEW n \in Honest, Restart(n)
      PROVE TypeOK'
  BY <1>8 DEF Restart, TypeOK
<1>9. ASSUME NEW i \in Ids, Expire(i)
      PROVE TypeOK'
  BY <1>9 DEF Expire, TypeOK
<1>10. ASSUME NEW n \in Honest, NEW i \in Ids, CleanupOldVotes(n, i)
       PROVE TypeOK'
  BY <1>10 DEF CleanupOldVotes, TypeOK
<1>11. ASSUME NEW n \in Honest, NEW i \in Ids, CleanupOldRecoveredSigs(n, i)
       PROVE TypeOK'
  BY <1>11 DEF CleanupOldRecoveredSigs, TypeOK
<1>12. CASE UNCHANGED vars
  BY <1>12 DEF vars, TypeOK
<1> QED
  BY <1>1, <1>2, <1>3, <1>4, <1>5, <1>6, <1>7, <1>8, <1>9, <1>10, <1>11, <1>12
     DEF Next, Step, Disturb

\* The variables of Signing keep their types: the persisted votes hold message
\* hashes, the queues sessions, the share store shares.
THEOREM TypeCorrect == Spec => []TypeOK
BY TypeInit, TypeStep, PTL DEF Spec

-----------------------------------------------------------------------------
(* One vote per request id.                                                *)

\* The invariant reads nothing but these variables.
LEMMA VoteInvFrame ==
    ASSUME VoteInv, TypeOK', UNCHANGED <<vote, call, pendingSigns, sent, expired>>
    PROVE  VoteInv'
<1>1. SentInv'
  BY DEF VoteInv, SentInv
<1>2. CallInv'
  BY SMTT(30) DEF VoteInv, CallInv, CallOK
<1>3. \A n \in Honest : Committed(n)' = Committed(n)
  BY DEF Committed
<1>4. CommittedInv'
  BY <1>3 DEF VoteInv, CommittedInv
<1>5. OneMessageInv'
  BY <1>3 DEF VoteInv, OneMessageInv
<1> QED BY <1>1, <1>2, <1>4, <1>5 DEF VoteInv

\* A node that has started has voted, signed and received nothing.
LEMMA VoteInit == Init => VoteInv
<1> SUFFICES ASSUME Init PROVE VoteInv
    OBVIOUS
<1>1. TypeOK
  BY TypeInit
<1>2. SentInv /\ CallInv
  BY DEF Init, SentInv, CallInv
<1>3. \A n \in Honest : Committed(n) = {}
  BY DEF Init, Committed
<1> QED BY <1>1, <1>2, <1>3 DEF VoteInv, CommittedInv, OneMessageInv

\* AsyncSignIfMember reads the vote: it is none or the requested message.
LEMMA VoteRead ==
    ASSUME VoteInv, TypeOK', NEW n \in Honest, NEW t \in Threads, NEW s \in Sessions,
           AsyncSignIfMember(n, t, s)
    PROVE  VoteInv'
<1> DEFINE c == [session |-> s, prevMsgHash |-> vote[n][s.id]]
<1>1. /\ call' = [call EXCEPT ![n][t] = c]
      /\ UNCHANGED <<vote, pendingSigns, sent, expired>>
  BY DEF AsyncSignIfMember
<1>2. CallOK(n, t, c)'
  BY <1>1 DEF AsyncSignIfMember, MayVote, VotingIds, CallOK
<1>3. ASSUME NEW m \in Honest, NEW u \in Threads, (call[m][u] # None)'
      PROVE  CallOK(m, u, call[m][u])'
  <2>1. CASE m = n /\ u = t
    BY <1>1, <1>2, <2>1 DEF VoteInv, TypeOK
  <2>2. CASE ~ (m = n /\ u = t)
    <3>1. call'[m][u] = call[m][u]
      BY <1>1, <2>2 DEF VoteInv, TypeOK
    <3>2. CallOK(m, u, call[m][u])
      BY <1>3, <3>1 DEF VoteInv, CallInv
    <3>3. UNCHANGED <<vote, expired>>
      BY <1>1
    <3> QED BY <3>1, <3>2, <3>3 DEF CallOK
  <2> QED BY <2>1, <2>2
<1> QED BY SMTT(30), <1>1, <1>3 DEF VoteInv, SentInv, CallInv, CommittedInv, OneMessageInv, Committed

\* The vote is written and the session queued: no other call on the id is under
\* way in the node, so the vote is still what this call read.
LEMMA VoteWrite ==
    ASSUME OneCallerPerId, VoteInv, TypeOK', NEW n \in Honest, NEW t \in Threads,
           WriteVoteAndAsyncSign(n, t)
    PROVE  VoteInv'
<1> DEFINE s == call[n][t].session
           p == call[n][t].prevMsgHash
<1>1. /\ call[n][t] # None
      /\ vote' = IF p = s.msg THEN vote ELSE [vote EXCEPT ![n][s.id] = s.msg]
      /\ pendingSigns' = [pendingSigns EXCEPT ![n] = @ \cup {s}]
      /\ call' = [call EXCEPT ![n][t] = None]
      /\ UNCHANGED <<sent, expired>>
  BY DEF WriteVoteAndAsyncSign, VoteOf
<1>2. CallOK(n, t, call[n][t])
  BY <1>1 DEF VoteInv, CallInv
<1>3. s \in Sessions /\ s.id \in Ids /\ s.msg \in Msgs
  BY <1>1 DEF VoteInv, TypeOK, Calls, Sessions
<1>4. \A m \in Honest, i \in Ids : m # n \/ i # s.id => vote'[m][i] = vote[m][i]
  BY SMTT(30), <1>1, <1>3 DEF VoteInv, TypeOK
<1>5. s.id \in VotingIds => vote'[n][s.id] = s.msg
  BY SMTT(30), <1>1, <1>2, <1>3 DEF VoteInv, TypeOK, CallOK
<1>6. /\ \A m \in Honest : m # n => Committed(m)' = Committed(m)
      /\ Committed(n)' = Committed(n) \cup {s}
  BY <1>1, <1>3 DEF VoteInv, TypeOK, Committed
<1>7. s.id \in VotingIds => \A r \in Committed(n) : r.id = s.id => r.msg = s.msg
  <2> SUFFICES ASSUME s.id \in VotingIds, NEW r \in Committed(n), r.id = s.id
               PROVE  r.msg = s.msg
    OBVIOUS
  <2>1. vote[n][s.id] = r.msg
    BY <1>2 DEF VoteInv, CommittedInv, CallOK
  <2>2. r.msg \in Msgs
    BY DEF Committed, Sessions
  <2>3. vote[n][s.id] \in {None, s.msg}
    BY <1>2 DEF CallOK
  <2> QED BY <2>1, <2>2, <2>3, ConstantsAssumption
<1>8. SentInv' /\ OneMessageInv'
  BY SMTT(30), <1>1, <1>6, <1>7 DEF VoteInv, SentInv, OneMessageInv
<1>9. CommittedInv'
  <2> SUFFICES ASSUME NEW m \in Honest, NEW r \in Committed(m)'
               PROVE  /\ r.quorum \in Selected[r.id]
                      /\ m \in Members[r.quorum]
                      /\ r.id \in VotingIds => r.id \in expired \/ vote'[m][r.id] = r.msg
    BY <1>1 DEF CommittedInv
  <2>0. r \in Sessions /\ r.id \in Ids
    BY DEF Committed, Sessions
  <2>1. CASE m = n /\ r = s
    BY <1>2, <1>5, <2>1 DEF CallOK
  <2>2. CASE r \in Committed(m) /\ (m # n \/ r.id # s.id)
    <3>1. vote'[m][r.id] = vote[m][r.id]
      BY <1>4, <2>0, <2>2
    <3> QED BY <2>2, <3>1 DEF VoteInv, CommittedInv
  <2>3. CASE r \in Committed(m) /\ m = n /\ r.id = s.id
    BY <1>5, <1>7, <2>3 DEF VoteInv, CommittedInv
  <2> QED BY <1>6, <2>1, <2>2, <2>3
<1>10. ASSUME NEW m \in Honest, NEW u \in Threads, (call[m][u] # None)'
       PROVE  CallOK(m, u, call[m][u])'
  <2>1. call'[m][u] = call[m][u] /\ (m # n \/ u # t)
    BY SMTT(30), <1>1, <1>10 DEF VoteInv, TypeOK
  <2>2. CallOK(m, u, call[m][u])
    BY <1>10, <2>1 DEF VoteInv, CallInv
  <2>3. call[m][u].session.id \in Ids
    BY SMTT(30), <1>10, <2>1 DEF VoteInv, TypeOK, Calls, Sessions
  <2>4. m # n \/ call[m][u].session.id # s.id
    BY <1>2, <1>3, <2>1, <2>2 DEF OneCallerPerId, CallOK
  <2>5. vote'[m][call[m][u].session.id] = vote[m][call[m][u].session.id]
    BY <1>4, <2>3, <2>4
  <2>6. UNCHANGED expired
    BY <1>1
  <2> QED BY <2>1, <2>2, <2>5, <2>6 DEF CallOK
<1> QED BY <1>8, <1>9, <1>10 DEF VoteInv, CallInv

\* A queued session is signed: it stays committed.
LEMMA VoteSign ==
    ASSUME VoteInv, TypeOK', NEW n \in Honest, NEW s \in Sessions, SignPendingSigShare(n, s)
    PROVE  VoteInv'
<1>1. /\ s \in pendingSigns[n]
      /\ pendingSigns' = [pendingSigns EXCEPT ![n] = @ \ {s}]
      /\ sent' = sent \cup {[session |-> s, member |-> n]}
      /\ UNCHANGED <<vote, call, expired>>
  BY DEF SignPendingSigShare
<1>2. \A m \in Honest : Committed(m)' = Committed(m)
  BY <1>1 DEF VoteInv, TypeOK, Committed
<1>3. SentInv'
  BY SMTT(30), <1>1 DEF VoteInv, SentInv
<1>4. CallInv'
  BY SMTT(30), <1>1 DEF VoteInv, CallInv, CallOK
<1>5. CommittedInv' /\ OneMessageInv'
  BY SMTT(30), <1>1, <1>2 DEF VoteInv, CommittedInv, OneMessageInv
<1> QED BY <1>3, <1>4, <1>5 DEF VoteInv

\* An id expires when no call on it is under way.
LEMMA VoteExpire ==
    ASSUME VoteInv, TypeOK', NEW i \in Ids, Expire(i)
    PROVE  VoteInv'
<1>1. /\ \A n \in Honest, t \in Threads : call[n][t] # None => call[n][t].session.id # i
      /\ expired' = expired \cup {i}
      /\ UNCHANGED <<vote, call, pendingSigns, sent>>
  BY DEF Expire
<1>2. \A m \in Honest : Committed(m)' = Committed(m)
  BY <1>1 DEF Committed
<1>3. CallInv'
  BY SMTT(30), <1>1 DEF VoteInv, CallInv, CallOK
<1>4. CommittedInv' /\ OneMessageInv' /\ SentInv'
  BY SMTT(30), <1>1, <1>2 DEF VoteInv, CommittedInv, OneMessageInv, SentInv
<1> QED BY <1>3, <1>4 DEF VoteInv

\* Only votes on expired ids are erased, and no call is on such an id.
LEMMA VoteCleanup ==
    ASSUME VoteInv, TypeOK', NEW n \in Honest, NEW i \in Ids, CleanupOldVotes(n, i)
    PROVE  VoteInv'
<1>1. /\ i \in expired
      /\ vote' = [vote EXCEPT ![n][i] = None]
      /\ UNCHANGED <<call, pendingSigns, sent, expired>>
  BY DEF CleanupOldVotes, VoteIsOld
<1>2. \A m \in Honest : Committed(m)' = Committed(m)
  BY <1>1 DEF Committed
<1>3. \A m \in Honest, j \in Ids : j \notin expired => vote'[m][j] = vote[m][j]
  BY <1>1 DEF VoteInv, TypeOK
<1>4. ASSUME NEW m \in Honest, NEW u \in Threads, (call[m][u] # None)'
      PROVE  CallOK(m, u, call[m][u])'
  <2>1. call'[m][u] = call[m][u] /\ expired' = expired
    BY <1>1
  <2>2. CallOK(m, u, call[m][u])
    BY <1>4, <2>1 DEF VoteInv, CallInv
  <2>3. call[m][u].session.id \in Ids
    BY SMTT(30), <1>4, <2>1 DEF VoteInv, TypeOK, Calls, Sessions
  <2>4. vote'[m][call[m][u].session.id] = vote[m][call[m][u].session.id]
    BY <1>3, <2>2, <2>3 DEF CallOK
  <2> QED BY <2>1, <2>2, <2>4 DEF CallOK
<1>5. CommittedInv'
  <2> SUFFICES ASSUME NEW m \in Honest, NEW r \in Committed(m)
               PROVE  /\ r.quorum \in Selected[r.id]
                      /\ m \in Members[r.quorum]
                      /\ r.id \in VotingIds => r.id \in expired \/ vote'[m][r.id] = r.msg
    BY <1>1, <1>2 DEF CommittedInv
  <2>1. r.id \in Ids
    BY DEF Committed, Sessions
  <2> QED BY SMTT(30), <1>3, <2>1 DEF VoteInv, CommittedInv
<1>6. OneMessageInv' /\ SentInv'
  BY <1>1, <1>2 DEF VoteInv, OneMessageInv, SentInv
<1> QED BY <1>4, <1>5, <1>6 DEF VoteInv, CallInv

\* A restart loses calls and queued sessions; votes and sent shares stay.
LEMMA VoteRestart ==
    ASSUME VoteInv, TypeOK', NEW n \in Honest, Restart(n)
    PROVE  VoteInv'
<1>1. /\ call' = [call EXCEPT ![n] = [t \in Threads |-> None]]
      /\ pendingSigns' = [pendingSigns EXCEPT ![n] = {}]
      /\ UNCHANGED <<vote, sent, expired>>
  BY DEF Restart
<1>2. \A m \in Honest : Committed(m)' \subseteq Committed(m)
  BY <1>1 DEF VoteInv, TypeOK, Committed
<1>3. ASSUME NEW m \in Honest, NEW u \in Threads, (call[m][u] # None)'
      PROVE  CallOK(m, u, call[m][u])'
  <2>1. call'[m][u] = call[m][u] /\ UNCHANGED <<vote, expired>>
    BY <1>1, <1>3 DEF VoteInv, TypeOK
  <2>2. CallOK(m, u, call[m][u])
    BY <1>3, <2>1 DEF VoteInv, CallInv
  <2> QED BY <2>1, <2>2 DEF CallOK
<1>4. CommittedInv' /\ OneMessageInv' /\ SentInv'
  BY SMTT(30), <1>1, <1>2 DEF VoteInv, CommittedInv, OneMessageInv, SentInv
<1> QED BY <1>3, <1>4 DEF VoteInv, CallInv

\* Every step keeps the votes on disk and the shares in agreement, when one thread signs per id.
LEMMA VoteStep == ASSUME OneCallerPerId PROVE VoteInv /\ [Next]_vars => VoteInv'
<1> SUFFICES ASSUME VoteInv, [Next]_vars PROVE VoteInv'
    OBVIOUS
<1>0. TypeOK'
  BY TypeStep DEF VoteInv
<1>1. ASSUME NEW n \in Honest, NEW t \in Threads,
             (\E s \in Sessions : AsyncSignIfMember(n, t, s)) \/ WriteVoteAndAsyncSign(n, t)
      PROVE  VoteInv'
  BY <1>0, <1>1, VoteRead, VoteWrite
<1>2. ASSUME NEW n \in Honest, NEW s \in Sessions, SignPendingSigShare(n, s)
      PROVE  VoteInv'
  BY <1>0, <1>2, VoteSign
<1>3. ASSUME NEW n \in Honest, NEW s \in Sessions,
             \/ ProcessMessageRecoveredSig(n, s)
             \/ WriteRecoveredSig(n, s)
             \/ SessionTimeout(n, s)
      PROVE  VoteInv'
  BY <1>0, <1>3, VoteInvFrame
     DEF ProcessMessageRecoveredSig, WriteRecoveredSig, SessionTimeout
<1>4. ASSUME NEW n \in Honest, NEW x \in Shares, ProcessMessageSigShare(n, x)
      PROVE  VoteInv'
  BY <1>0, <1>4, VoteInvFrame DEF ProcessMessageSigShare
<1>5. ASSUME NEW n \in Honest, Restart(n)
      PROVE  VoteInv'
  BY <1>0, <1>5, VoteRestart
<1>6. ASSUME NEW i \in Ids, Expire(i)
      PROVE  VoteInv'
  BY <1>0, <1>6, VoteExpire
<1>7. ASSUME NEW n \in Honest, NEW i \in Ids, CleanupOldVotes(n, i)
      PROVE  VoteInv'
  BY <1>0, <1>7, VoteCleanup
<1>8. ASSUME NEW n \in Honest, NEW i \in Ids, CleanupOldRecoveredSigs(n, i)
      PROVE  VoteInv'
  BY <1>0, <1>8, VoteInvFrame DEF CleanupOldRecoveredSigs
<1>9. CASE UNCHANGED vars
  BY <1>0, <1>9, VoteInvFrame DEF vars
<1> QED
  BY <1>1, <1>2, <1>3, <1>4, <1>5, <1>6, <1>7, <1>8, <1>9 DEF Next, Step, Disturb

\* What the votes say is what a caller of AsyncSignIfMember relies on.
LEMMA VoteInvImplies == VoteInv => HonestSignsOnce /\ SharesBackedByVote
<1> SUFFICES ASSUME VoteInv PROVE HonestSignsOnce /\ SharesBackedByVote
    OBVIOUS
<1>1. ASSUME NEW x \in sent
      PROVE  x.member \in Honest /\ x.session \in Committed(x.member)
  <2>1. x \in Shares /\ x.member \in Honest /\ x.session \in Sessions
    BY DEF VoteInv, TypeOK, SentInv, Shares
  <2>2. x = [session |-> x.session, member |-> x.member]
    BY <2>1 DEF Shares
  <2> QED BY <2>1, <2>2 DEF Committed
<1>2. HonestSignsOnce
  BY <1>1 DEF VoteInv, OneMessageInv, HonestSignsOnce
<1>3. SharesBackedByVote
  BY <1>1 DEF VoteInv, CommittedInv, SharesBackedByVote
<1> QED BY <1>2, <1>3

\* When one thread at most asks for signatures on each id, a node never creates
\* shares on two messages of one id, whatever crashes, timeouts, cleanups and
\* deliveries happen in between (AsyncSignIfMember's vote check is enough).
THEOREM SignsOnce == ASSUME OneCallerPerId PROVE Spec => []HonestSignsOnce
<1>1. Init => VoteInv
  BY VoteInit
<1>2. VoteInv /\ [Next]_vars => VoteInv'
  BY VoteStep
<1>3. VoteInv => HonestSignsOnce
  BY VoteInvImplies
<1> QED BY <1>1, <1>2, <1>3, PTL DEF Spec

\* Under the same condition, the persisted vote backs every share the node created
\* until the vote is older than -maxrecsigsage.
THEOREM VoteBacksShares == ASSUME OneCallerPerId PROVE Spec => []SharesBackedByVote
<1>1. Init => VoteInv
  BY VoteInit
<1>2. VoteInv /\ [Next]_vars => VoteInv'
  BY VoteStep
<1>3. VoteInv => SharesBackedByVote
  BY VoteInvImplies
<1> QED BY <1>1, <1>2, <1>3, PTL DEF Spec

-----------------------------------------------------------------------------
(* Where recovered signatures come from.                                   *)

\* The members whose shares were sent for a session can be counted.
LEMMA BackersFinite ==
    ASSUME NEW S, NEW s \in Sessions
    PROVE  /\ Backers(S, s) \subseteq Members[s.quorum]
           /\ IsFiniteSet(Backers(S, s))
           /\ Cardinality(Backers(S, s)) \in Nat
<1>1. s.quorum \in Quorums
  BY DEF Sessions
<1>2. Backers(S, s) \in SUBSET Nodes /\ Backers(S, s) \subseteq Members[s.quorum]
  BY <1>1, ConstantsAssumption DEF Backers
<1>3. IsFiniteSet(Backers(S, s))
  BY <1>2, ConstantsAssumption, FS_Subset
<1> QED BY <1>2, <1>3, FS_CardinalityType

\* More shares have more backers: a recoverable session stays recoverable.
LEMMA RecoverableMonotone ==
    ASSUME NEW S, NEW Z, S \subseteq Z, NEW s \in Sessions
    PROVE  /\ Backers(S, s) \subseteq Backers(Z, s)
           /\ Recoverable(S, s) => Recoverable(Z, s)
<1>1. Backers(S, s) \in SUBSET Backers(Z, s)
  BY DEF Backers
<1>2. Cardinality(Backers(S, s)) <= Cardinality(Backers(Z, s))
  BY <1>1, BackersFinite, FS_Subset
<1>3. Threshold[s.quorum] \in Nat
  BY ConstantsAssumption DEF Sessions
<1> QED BY SMTT(30), <1>1, <1>2, <1>3, BackersFinite DEF Recoverable

\* Threshold shares in a store come from Threshold members that made one.
LEMMA EnoughSharesRecoverable ==
    ASSUME NEW Z, NEW S \in SUBSET Shares, NEW s \in Sessions, CanTryRecovery(S, s),
           \A x \in S : x.member \in Backers(Z, x.session)
    PROVE  Recoverable(Z, s)
<1> DEFINE X == SharesOf(S, s)
           f == [x \in X |-> x.member]
<1>1. \A x \in X : x \in Shares /\ x.session = s /\ x.member \in Backers(Z, s)
  BY DEF SharesOf
<1>2. f \in [X -> Backers(Z, s)]
  BY <1>1
<1>3. \A x, y \in X : x.member = y.member => x = y
  BY SMTT(30), <1>1 DEF Shares
<1>4. f \in Injection(X, Backers(Z, s))
  BY <1>2, <1>3 DEF Injection, IsInjective
<1>5. Cardinality(X) <= Cardinality(Backers(Z, s)) /\ IsFiniteSet(X)
  BY <1>4, BackersFinite, FS_Injection
<1>6. Cardinality(X) \in Nat /\ Cardinality(Backers(Z, s)) \in Nat
  BY <1>5, BackersFinite, FS_CardinalityType
<1>7. Threshold[s.quorum] \in Nat
  BY ConstantsAssumption DEF Sessions
<1> QED BY SMTT(30), <1>5, <1>6, <1>7 DEF CanTryRecovery, Recoverable

\* Nothing has been recovered at the start.
LEMMA RecInit == Init => RecInv
BY SMTT(30) DEF Init, RecInv, ShareInv, RecSigInv

\* While shares are only added, what the invariant says of the old state's shares
\* and signatures stays so.
LEMMA RecKept ==
    ASSUME TypeOK, RecInv, sent \subseteq sent', NEW n \in Honest
    PROVE  /\ \A x \in sigShares[n] : x.member \in Backers(sent', x.session)
           /\ \A s \in checked[n] : Recoverable(sent', s)
           /\ \A i \in Ids : recSig[n][i] # None =>
                 recSig[n][i].id = i /\ Recoverable(sent', recSig[n][i])
<1>1. \A x \in sigShares[n] : x.session \in Sessions
  BY SMTT(30) DEF TypeOK, Shares
<1>2. \A s \in checked[n] : s \in Sessions
  BY DEF TypeOK
<1>3. \A i \in Ids : recSig[n][i] # None => recSig[n][i] \in Sessions
  BY SMTT(30) DEF TypeOK
<1> QED BY <1>1, <1>2, <1>3, RecoverableMonotone DEF RecInv, ShareInv, RecSigInv

\* Processing a share that a member of its quorum made keeps the invariant.
LEMMA RecProcessSigShare ==
    ASSUME TypeOK, RecInv, sent \subseteq sent', UNCHANGED recSig,
           NEW n \in Honest, NEW x \in Shares, ProcessSigShare(n, x),
           x.member \in Backers(sent', x.session)
    PROVE  RecInv'
<1>1. x.session \in Sessions
  BY DEF Shares
<1>2. \A m \in Honest : \A y \in sigShares'[m] : y.member \in Backers(sent', y.session)
  <2>1. \A m \in Honest : sigShares'[m] \subseteq sigShares[m] \cup {x}
    BY DEF ProcessSigShare, TypeOK
  <2> QED BY <2>1, RecKept
<1>3. CanTryRecovery(sigShares'[n], x.session) => Recoverable(sent', x.session)
  <2>1. sigShares'[n] \in SUBSET Shares
    BY ProcessSigShareType
  <2> QED BY <1>1, <1>2, <2>1, EnoughSharesRecoverable
<1>4. \A m \in Honest : \A s \in checked'[m] : Recoverable(sent', s)
  <2>1. \/ checked' = checked
        \/ /\ CanTryRecovery(sigShares'[n], x.session)
           /\ checked' = [checked EXCEPT ![n] = @ \cup {x.session}]
    BY DEF ProcessSigShare
  <2>2. \A m \in Honest : \A s \in checked'[m] :
          s \in checked[m] \/ (s = x.session /\ CanTryRecovery(sigShares'[n], x.session))
    <3>1. CASE checked' = checked
      BY <3>1
    <3>2. CASE /\ CanTryRecovery(sigShares'[n], x.session)
               /\ checked' = [checked EXCEPT ![n] = @ \cup {x.session}]
      BY <3>2 DEF TypeOK
    <3> QED BY <2>1, <3>1, <3>2
  <2> QED BY SMTT(30), <1>3, <2>2, RecKept
<1> QED BY <1>2, <1>4, RecKept DEF RecInv, ShareInv, RecSigInv

\* Steps that add neither shares nor sessions that are not recoverable
LEMMA RecShrink ==
    ASSUME TypeOK, RecInv, sent \subseteq sent',
           \A n \in Honest :
              /\ sigShares'[n] \subseteq sigShares[n]
              /\ \A s \in checked'[n] : s \in checked[n] \/ Recoverable(sent', s)
              /\ \A i \in Ids : \/ recSig'[n][i] \in {None, recSig[n][i]}
                                \/ recSig'[n][i] \in checked[n] /\ recSig'[n][i].id = i
    PROVE  RecInv'
<1>1. ShareInv'
  BY RecKept DEF ShareInv
<1>2. RecSigInv'
  BY SMTT(30), RecKept DEF RecSigInv
<1> QED BY <1>1, <1>2 DEF RecInv

\* Every step keeps each recovered signature backed by a threshold of shares.
LEMMA RecStep == TypeOK /\ RecInv /\ [Next]_vars => RecInv'
<1> SUFFICES ASSUME TypeOK, RecInv, [Next]_vars PROVE RecInv'
    OBVIOUS
<1>1. ASSUME NEW n \in Honest, NEW t \in Threads,
             (\E s \in Sessions : AsyncSignIfMember(n, t, s)) \/ WriteVoteAndAsyncSign(n, t)
      PROVE  RecInv'
  BY <1>1, RecShrink DEF AsyncSignIfMember, WriteVoteAndAsyncSign
<1>2. ASSUME NEW n \in Honest, NEW s \in Sessions, SignPendingSigShare(n, s)
      PROVE  RecInv'
  <2> DEFINE x == [session |-> s, member |-> n]
  <2>1. x \in Shares /\ x.session = s /\ x.member = n
    BY DEF Shares, Honest
  <2>2. n \in Members[s.quorum] /\ sent' = sent \cup {x} /\ ProcessSigShare(n, x)
        /\ UNCHANGED recSig
    BY <1>2 DEF SignPendingSigShare
  <2>3. x.member \in Backers(sent', x.session)
    BY <2>1, <2>2 DEF Backers
  <2> HIDE DEF x
  <2> QED BY <2>1, <2>2, <2>3, RecProcessSigShare
<1>3. ASSUME NEW n \in Honest, NEW s \in Sessions, ProcessMessageRecoveredSig(n, s)
      PROVE  RecInv'
  <2>1. Recoverable(sent', s) /\ UNCHANGED <<sent, sigShares, recSig>>
    BY <1>3 DEF ProcessMessageRecoveredSig
  <2>2. checked' = [checked EXCEPT ![n] = @ \cup {s}]
    BY <1>3 DEF ProcessMessageRecoveredSig
  <2>3. \A m \in Honest : \A r \in checked'[m] : r \in checked[m] \/ Recoverable(sent', r)
    BY <2>1, <2>2 DEF TypeOK
  <2> QED BY <2>1, <2>3, RecShrink
<1>4. ASSUME NEW n \in Honest, NEW s \in Sessions, WriteRecoveredSig(n, s)
      PROVE  RecInv'
  <2>1. /\ s \in checked[n] /\ UNCHANGED sent
        /\ checked' = [checked EXCEPT ![n] = @ \ {s}]
        /\ recSig' = [recSig EXCEPT ![n][s.id] = s]
        /\ sigShares' = [sigShares EXCEPT ![n] = @ \ SharesOf(@, s)]
    BY <1>4 DEF WriteRecoveredSig
  <2>2. \A m \in Honest : sigShares'[m] \subseteq sigShares[m] /\ checked'[m] \subseteq checked[m]
    BY <2>1 DEF TypeOK
  <2>3. \A m \in Honest, i \in Ids : \/ recSig'[m][i] = recSig[m][i]
                                     \/ recSig'[m][i] = s /\ m = n /\ s.id = i
    BY <2>1 DEF TypeOK
  <2> QED BY SMTT(30), <2>1, <2>2, <2>3, RecShrink
<1>5. ASSUME NEW n \in Honest, NEW x \in Shares, ProcessMessageSigShare(n, x)
      PROVE  RecInv'
  <2>1. x = [session |-> x.session, member |-> x.member]
    BY DEF Shares
  <2>2. x.member \in Backers(sent', x.session)
    BY <1>5, <2>1 DEF ProcessMessageSigShare, Backers
  <2> QED BY <1>5, <2>2, RecProcessSigShare DEF ProcessMessageSigShare
<1>6. ASSUME NEW n \in Honest, NEW s \in Sessions, SessionTimeout(n, s)
      PROVE  RecInv'
  <2>1. \A m \in Honest : sigShares'[m] \subseteq sigShares[m]
    BY <1>6 DEF SessionTimeout, TypeOK
  <2> QED BY <1>6, <2>1, RecShrink DEF SessionTimeout
<1>7. ASSUME NEW n \in Honest, Restart(n)
      PROVE  RecInv'
  <2>1. \A m \in Honest : sigShares'[m] \subseteq sigShares[m] /\ checked'[m] \subseteq checked[m]
    BY <1>7 DEF Restart, TypeOK
  <2> QED BY <1>7, <2>1, RecShrink DEF Restart
<1>8. ASSUME NEW n \in Honest, NEW i \in Ids, CleanupOldVotes(n, i)
      PROVE  RecInv'
  BY <1>8, RecShrink DEF CleanupOldVotes
<1>9. ASSUME NEW n \in Honest, NEW i \in Ids, CleanupOldRecoveredSigs(n, i)
      PROVE  RecInv'
  <2>1. \A m \in Honest, j \in Ids : recSig'[m][j] \in {None, recSig[m][j]}
    BY <1>9 DEF CleanupOldRecoveredSigs, TypeOK
  <2> QED BY <1>9, <2>1, RecShrink DEF CleanupOldRecoveredSigs
<1>10. ASSUME NEW i \in Ids, Expire(i)
       PROVE  RecInv'
  BY <1>10, RecShrink DEF Expire
<1>11. CASE UNCHANGED vars
  BY <1>11, RecShrink DEF vars
<1> QED
  BY <1>1, <1>2, <1>3, <1>4, <1>5, <1>6, <1>7, <1>8, <1>9, <1>10, <1>11
     DEF Next, Step, Disturb

\* ProcessRecoveredSig stores nothing but signatures that enough members of the
\* quorum made shares for, for any number of callers.
THEOREM StoredSigsAreRecoverable == Spec => []StoredSigsRecoverable
<1>1. Init => TypeOK /\ RecInv
  BY TypeInit, RecInit
<1>2. TypeOK /\ RecInv /\ [Next]_vars => (TypeOK /\ RecInv)'
  BY TypeStep, RecStep
<1>3. RecInv => StoredSigsRecoverable
  BY DEF RecInv, RecSigInv, StoredSigsRecoverable
<1> QED BY <1>1, <1>2, <1>3, PTL DEF Spec

-----------------------------------------------------------------------------
(* Agreement.                                                              *)

\* Two recoverable sessions of one quorum share a backer that runs this code,
\* which is committed to both.
LEMMA CommonBacker ==
    ASSUME VoteInv, NEW s1 \in Sessions, NEW s2 \in Sessions, s1.quorum = s2.quorum,
           Recoverable(sent, s1), Recoverable(sent, s2)
    PROVE  \E n \in Honest : s1 \in Committed(n) /\ s2 \in Committed(n)
<1>1. s1.quorum \in Quorums
  BY DEF Sessions
<1>2. PICK n \in Backers(sent, s1) \cap Backers(sent, s2) : n \notin Faulty
  BY <1>1, BackersFinite, HonestIntersection DEF Recoverable
<1>3. n \in Honest
  BY <1>1, <1>2, ConstantsAssumption DEF Backers, Honest
<1>4. [session |-> s1, member |-> n] \in sent /\ [session |-> s2, member |-> n] \in sent
  BY <1>2 DEF Backers
<1> QED BY <1>3, <1>4 DEF Committed

\* Two majorities of one quorum have an honest member in common, which voted once.
LEMMA QuorumAgrees == VoteInv => NoConflictPerQuorum
<1> SUFFICES ASSUME VoteInv, NEW s1 \in Sessions, NEW s2 \in Sessions,
                    s1.quorum = s2.quorum, s1.id = s2.id, s1.id \in VotingIds,
                    Recoverable(sent, s1), Recoverable(sent, s2)
             PROVE  s1 = s2
    BY DEF NoConflictPerQuorum
<1>1. PICK n \in Honest : s1 \in Committed(n) /\ s2 \in Committed(n)
  BY CommonBacker
<1>2. s1.msg = s2.msg
  BY <1>1 DEF VoteInv, OneMessageInv
<1> QED BY SMTT(30), <1>2 DEF Sessions

\* When one thread at most asks for signatures on each id, one quorum never
\* produces recovered signatures on two messages of an id, whatever the faulty
\* members sign.
THEOREM NoConflict == ASSUME OneCallerPerId PROVE Spec => []NoConflictPerQuorum
<1>1. Init => VoteInv
  BY VoteInit
<1>2. VoteInv /\ [Next]_vars => VoteInv'
  BY VoteStep
<1> QED BY <1>1, <1>2, QuorumAgrees, PTL DEF Spec

\* A recoverable session is in a quorum that its id selects.
LEMMA RecoverableSelected ==
    ASSUME VoteInv, NEW s \in Sessions, Recoverable(sent, s)
    PROVE  s.quorum \in Selected[s.id]
BY CommonBacker DEF VoteInv, CommittedInv

\* One session per id at most can have a recovered signature
OneRecoverable ==
    \A s1, s2 \in Sessions : s1.id = s2.id /\ s1.id \in VotingIds
        /\ Recoverable(sent, s1) /\ Recoverable(sent, s2) => s1 = s2

\* With one quorum per id, one message at most can be recovered for it.
LEMMA RecoverableAgree == ASSUME OneQuorumPerId PROVE VoteInv => OneRecoverable
<1> SUFFICES ASSUME VoteInv, NEW s1 \in Sessions, NEW s2 \in Sessions,
                    s1.id = s2.id, s1.id \in VotingIds,
                    Recoverable(sent, s1), Recoverable(sent, s2)
             PROVE  s1 = s2
    BY DEF OneRecoverable
<1>1. s1.quorum \in Selected[s1.id] /\ s2.quorum \in Selected[s1.id]
  BY RecoverableSelected
<1>2. s1.quorum = s2.quorum
  BY <1>1 DEF OneQuorumPerId, VotingIds
<1> QED BY <1>2, QuorumAgrees DEF NoConflictPerQuorum

\* What two nodes hold was recoverable, hence is the same.
LEMMA NodesAgreeState ==
    ASSUME OneQuorumPerId, VoteInv, RecInv
    PROVE  NodesAgreePerId
<1> SUFFICES ASSUME NEW n \in Honest, NEW o \in Honest, NEW i \in VotingIds,
                    recSig[n][i] # None, recSig[o][i] # None
             PROVE  recSig[n][i].msg = recSig[o][i].msg
    BY DEF NodesAgreePerId
<1>1. i \in Ids
  BY DEF VotingIds
<1>2. recSig[n][i] \in Sessions /\ recSig[o][i] \in Sessions
  BY SMTT(30), <1>1 DEF VoteInv, TypeOK
<1>3. /\ recSig[n][i].id = i /\ Recoverable(sent, recSig[n][i])
      /\ recSig[o][i].id = i /\ Recoverable(sent, recSig[o][i])
  BY <1>1 DEF RecInv, RecSigInv
<1> QED BY <1>2, <1>3, RecoverableAgree DEF OneRecoverable

\* "A majority is only possible on one quorum and one msgHash per id": when one
\* thread per node asks for an id and every node selects the same quorum for it,
\* no two nodes ever store recovered signatures on different messages.
THEOREM NodesAgree == ASSUME OneCallerPerId, OneQuorumPerId PROVE Spec => []NodesAgreePerId
<1>1. Init => VoteInv /\ RecInv
  BY VoteInit, RecInit
<1>2. VoteInv /\ RecInv /\ [Next]_vars => (VoteInv /\ RecInv)'
  BY VoteStep, RecStep DEF VoteInv
<1>3. VoteInv /\ RecInv => NodesAgreePerId
  BY NodesAgreeState
<1> QED BY <1>1, <1>2, <1>3, PTL DEF Spec

\* Under the same conditions, the unlocked check-then-write of ProcessRecoveredSig
\* never replaces a stored signature by one on another message.
THEOREM NeverReplaced == ASSUME OneCallerPerId, OneQuorumPerId PROVE Spec => StoredSigNeverReplaced
<1> DEFINE Inv == VoteInv /\ RecInv
           Kept == \A n \in Honest, i \in VotingIds :
                     recSig[n][i] # None /\ recSig'[n][i] # None
                       => recSig'[n][i].msg = recSig[n][i].msg
<1>1. Init => Inv
  BY VoteInit, RecInit
<1>2. Inv /\ [Next]_vars => Inv'
  BY VoteStep, RecStep DEF VoteInv
<1>3. Inv => OneRecoverable
  BY RecoverableAgree
<1>4. Inv /\ Inv' /\ OneRecoverable' /\ [Next]_vars => [Kept]_vars
  <2> SUFFICES ASSUME Inv, Inv', OneRecoverable', [Next]_vars, NEW n \in Honest, NEW i \in VotingIds,
                      recSig[n][i] # None, recSig'[n][i] # None
               PROVE  recSig'[n][i].msg = recSig[n][i].msg
    OBVIOUS
  <2>1. i \in Ids
    BY DEF VotingIds
  <2>2. sent \subseteq sent'
    BY DEF Next, Step, Disturb, AsyncSignIfMember, WriteVoteAndAsyncSign, SignPendingSigShare,
           ProcessMessageRecoveredSig, WriteRecoveredSig, ProcessMessageSigShare, Restart,
           SessionTimeout, Expire, CleanupOldVotes, CleanupOldRecoveredSigs, vars
  <2>3. recSig[n][i] \in Sessions /\ recSig'[n][i] \in Sessions
    BY SMTT(30), <2>1 DEF VoteInv, TypeOK
  <2>4. recSig[n][i].id = i /\ Recoverable(sent', recSig[n][i])
    BY <2>1, <2>2, RecKept DEF VoteInv
  <2>5. recSig'[n][i].id = i /\ Recoverable(sent', recSig'[n][i])
    BY <2>1 DEF RecInv, RecSigInv
  <2>6. recSig[n][i] = recSig'[n][i]
    BY <2>3, <2>4, <2>5, <2>1 DEF OneRecoverable
  <2> QED BY <2>6
<1>5. Spec => [][Kept]_vars
  BY <1>1, <1>2, <1>3, <1>4, PTL DEF Spec
<1> QED BY <1>5 DEF StoredSigNeverReplaced

-----------------------------------------------------------------------------
(* The signing managers implement QuorumSignature.                         *)

\* Faulty members alone are fewer than any threshold: nothing is signed at first.
LEMMA PromiseInit == Init => Promise!Init
<1> SUFFICES ASSUME Init PROVE Promise!Init
    OBVIOUS
<1>1. ASSUME NEW s \in Sessions, Recoverable(sent, s)
      PROVE  FALSE
  <2>1. VoteInv
    BY VoteInit
  <2>2. PICK n \in Honest : s \in Committed(n)
    BY <1>1, <2>1, CommonBacker
  <2> QED BY <2>2 DEF Init, Committed
<1>2. Produced = {}
  BY <1>1 DEF Produced, VotingSessions
<1>3. Known = [n \in Honest |-> [i \in VotingIds |-> None]]
  BY DEF Init, Known, VotingIds
<1> QED BY <1>2, <1>3 DEF Promise!Init

\* A new share can make its own session recoverable, and no other one.
LEMMA PromiseSign ==
    ASSUME VoteInv, OneRecoverable', NEW n \in Honest, NEW s \in Sessions,
           SignPendingSigShare(n, s)
    PROVE  [Promise!Next]_(Promise!vars)
<1>1. sent' = sent \cup {[session |-> s, member |-> n]} /\ UNCHANGED recSig
  BY DEF SignPendingSigShare
<1>2. Known' = Known
  BY <1>1 DEF Known
<1>3. ASSUME NEW r \in Sessions, r # s
      PROVE  Recoverable(sent', r) <=> Recoverable(sent, r)
  <2>1. \A m : [session |-> r, member |-> m] # [session |-> s, member |-> n]
    BY <1>3
  <2>2. Backers(sent', r) = Backers(sent, r)
    BY <1>1, <2>1 DEF Backers
  <2> QED BY <2>2 DEF Recoverable
<1>4. Recoverable(sent, s) => Recoverable(sent', s)
  BY <1>1, RecoverableMonotone
<1>5. CASE Recoverable(sent, s) \/ ~ Recoverable(sent', s) \/ s \notin VotingSessions
  <2>1. Produced' = Produced
    BY <1>3, <1>4, <1>5 DEF Produced, VotingSessions
  <2> QED BY <1>2, <2>1 DEF Promise!vars
<1>6. CASE ~ Recoverable(sent, s) /\ Recoverable(sent', s) /\ s \in VotingSessions
  <2>1. Produced' = Produced \cup {s} /\ s \notin Produced
    BY <1>3, <1>6 DEF Produced, VotingSessions
  <2>2. ASSUME NEW p \in Produced, p.id = s.id
        PROVE  FALSE
    <3>1. p \in Sessions /\ p.id \in VotingIds /\ Recoverable(sent', p) /\ p # s
      BY <1>3, <1>6, <2>1 DEF Produced, VotingSessions
    <3> QED BY <1>6, <2>2, <3>1 DEF OneRecoverable
  <2>3. Promise!Produce(s)
    BY <1>2, <2>1, <2>2 DEF Promise!Produce
  <2> QED BY <1>6, <2>1, <2>3 DEF Promise!Next
<1> QED BY <1>5, <1>6

\* What a node stores is a produced signature.
LEMMA PromiseStore ==
    ASSUME VoteInv, RecInv, NEW n \in Honest, NEW s \in Sessions, WriteRecoveredSig(n, s)
    PROVE  [Promise!Next]_(Promise!vars)
<1>1. /\ s \in checked[n] /\ UNCHANGED sent
      /\ recSig' = [recSig EXCEPT ![n][s.id] = s]
  BY DEF WriteRecoveredSig
<1>2. recSig \in [Honest -> [Ids -> Sessions \cup {None}]] /\ s.id \in Ids
  BY DEF VoteInv, TypeOK, Sessions
<1>3. Produced' = Produced
  BY <1>1 DEF Produced
<1>4. CASE s.id \notin VotingIds
  <2>1. Known' = Known
    BY <1>1, <1>2, <1>4 DEF Known, VotingIds
  <2> QED BY <1>3, <2>1 DEF Promise!vars
<1>5. CASE s.id \in VotingIds
  <2>1. Known' = [Known EXCEPT ![n][s.id] = s]
    BY <1>1, <1>2, <1>5 DEF Known, VotingIds
  <2>2. s \in Produced
    BY <1>1, <1>5 DEF Produced, VotingSessions, RecInv, RecSigInv
  <2>3. CASE Known[n][s.id] = s
    <3>1. recSig[n][s.id] = s
      BY <1>5, <2>3 DEF Known
    <3>2. recSig' = recSig
      BY <1>1, <1>2, <3>1
    <3> QED BY <1>3, <3>2 DEF Promise!vars, Known
  <2>4. CASE Known[n][s.id] # s
    <3>1. Promise!Learn(n, s)
      BY <1>3, <2>1, <2>4 DEF Promise!Learn
    <3> QED BY <2>2, <3>1 DEF Promise!Next
  <2> QED BY <2>3, <2>4
<1> QED BY <1>4, <1>5

\* The cleanup of the database is what the promise allows a node to forget.
LEMMA PromiseForget ==
    ASSUME VoteInv, NEW n \in Honest, NEW i \in Ids, CleanupOldRecoveredSigs(n, i)
    PROVE  [Promise!Next]_(Promise!vars)
<1>1. /\ recSig[n][i] # None /\ UNCHANGED sent
      /\ recSig' = [recSig EXCEPT ![n][i] = None]
  BY DEF CleanupOldRecoveredSigs
<1>2. recSig \in [Honest -> [Ids -> Sessions \cup {None}]]
  BY DEF VoteInv, TypeOK
<1>3. Produced' = Produced
  BY <1>1 DEF Produced
<1>4. CASE i \notin VotingIds
  <2>1. Known' = Known
    BY <1>1, <1>2, <1>4 DEF Known, VotingIds
  <2> QED BY <1>3, <2>1 DEF Promise!vars
<1>5. CASE i \in VotingIds
  <2>1. Known' = [Known EXCEPT ![n][i] = None] /\ Known[n][i] # None
    BY <1>1, <1>2, <1>5 DEF Known, VotingIds
  <2>2. Promise!Forget(n, i)
    BY <1>3, <2>1 DEF Promise!Forget
  <2> QED BY <1>5, <2>2 DEF Promise!Next
<1> QED BY <1>4, <1>5

\* Every step of the nodes is a step of QuorumSignature or leaves its state alone.
LEMMA PromiseStep ==
    ASSUME VoteInv, RecInv, OneRecoverable', [Next]_vars
    PROVE  [Promise!Next]_(Promise!vars)
<1>1. ASSUME UNCHANGED <<sent, recSig>>
      PROVE  [Promise!Next]_(Promise!vars)
  BY <1>1 DEF Promise!vars, Produced, Known
<1>2. ASSUME NEW n \in Honest, Step(n)
      PROVE  [Promise!Next]_(Promise!vars)
  BY <1>1, <1>2, PromiseSign, PromiseStore
     DEF Step, AsyncSignIfMember, WriteVoteAndAsyncSign, ProcessMessageRecoveredSig,
         ProcessMessageSigShare
<1>3. ASSUME Disturb
      PROVE  [Promise!Next]_(Promise!vars)
  BY <1>1, <1>3, PromiseForget DEF Disturb, Restart, SessionTimeout, Expire, CleanupOldVotes
<1> QED BY <1>1, <1>2, <1>3 DEF Next, vars

\* When one thread at most asks for signatures on each id and every node selects the
\* same quorum for it, the nodes implement QuorumSignature: for every number of nodes,
\* quorums, ids and messages, one signature per request id comes into being at most,
\* and a node never stores another one.
THEOREM ImplementsPromise == ASSUME OneCallerPerId, OneQuorumPerId PROVE Spec => KeepsPromise
<1>1. Init => VoteInv /\ RecInv
  BY VoteInit, RecInit
<1>2. VoteInv /\ RecInv /\ [Next]_vars => (VoteInv /\ RecInv)'
  BY VoteStep, RecStep DEF VoteInv
<1>3. VoteInv => OneRecoverable
  BY RecoverableAgree
<1>4. VoteInv /\ RecInv /\ OneRecoverable' /\ [Next]_vars => [Promise!Next]_(Promise!vars)
  BY PromiseStep
<1>5. Spec => Promise!Init /\ [][Promise!Next]_(Promise!vars)
  BY <1>1, <1>2, <1>3, <1>4, PromiseInit, PTL DEF Spec
<1> QED BY <1>5 DEF KeepsPromise, Promise!Spec
=============================================================================
