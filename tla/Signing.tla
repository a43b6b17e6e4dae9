------------------------------ MODULE Signing ------------------------------
(***************************************************************************)
(* Threshold signing in the long-living masternode quorums (LLMQs).        *)
(*                                                                         *)
(* Every masternode runs a CSigningManager (votes and recovered            *)
(* signatures, kept in leveldb) and a CSigSharesManager (the shares of the *)
(* running sessions, kept in memory).  A thread of the node that wants a   *)
(* quorum signature calls AsyncSignIfMember, which reads the vote of the   *)
(* request id, writes it and queues the session, WITHOUT a lock around the *)
(* three; the share worker creates the share, shares travel between the    *)
(* members, and the member that holds Threshold of them recovers the       *)
(* signature, stores it and relays it.                                     *)
(*                                                                         *)
(* Messages may be lost, duplicated, delayed and reordered: a share that   *)
(* was ever sent stays in "sent" and can be delivered at any time, any     *)
(* number of times, or never.  Members of Faulty do not run this code;     *)
(* their shares on any message are always available.  A recovered          *)
(* signature can exist exactly when Threshold members have a share on its  *)
(* session (the BLS scheme is external).                                   *)
(***************************************************************************)
EXTENDS Naturals, FiniteSets

CONSTANTS
    Nodes,      \* the masternodes
    Faulty,     \* those that do not run this code
    Quorums,    \* the active quorums of one LLMQ type
    Members,    \* Members[q]: the valid members of q that hold their key share
    Threshold,  \* Threshold[q]: the shares needed to recover (params.threshold)
    Recovery,   \* Recovery[q]: the members that shares of q are sent to
    Selected,   \* Selected[i]: the quorums SelectQuorumForSigning may return for id i
    Ids,        \* request ids
    DiffMsgIds, \* ids signed with allowDiffMsgHashSigning (EHF signals)
    ReSignIds,  \* ids signed with allowReSign (retroactive InstantSend locks)
    Msgs,       \* message hashes
    Threads,    \* threads of a node that call AsyncSignIfMember
    Callers,    \* Callers[i]: the threads that ask for signatures on id i
    MayRestart, \* bound: the nodes that may crash and restart
    MayExpire,  \* bound: the ids whose votes may grow older than -maxrecsigsage
    None        \* no vote, no recovered signature, no call in progress

ASSUME ConstantsAssumption ==
    /\ IsFiniteSet(Nodes)
    /\ Faulty \subseteq Nodes
    /\ Members \in [Quorums -> SUBSET Nodes]
    /\ Threshold \in [Quorums -> Nat \ {0}]
    /\ Recovery \in [Quorums -> SUBSET Nodes]
    /\ Selected \in [Ids -> SUBSET Quorums]
    /\ DiffMsgIds \subseteq Ids
    /\ ReSignIds \subseteq Ids
    /\ Callers \in [Ids -> SUBSET Threads]
    /\ MayRestart \subseteq Nodes
    /\ MayExpire \subseteq Ids
    /\ None \notin Msgs

(***************************************************************************)
(* The threshold and the number of faulty members are such that two        *)
(* recoverable sets of one quorum share a member that runs this code.      *)
(***************************************************************************)
ASSUME HonestIntersection ==
    \A q \in Quorums : \A A, B \in SUBSET Members[q] :
        Cardinality(A) >= Threshold[q] /\ Cardinality(B) >= Threshold[q]
            => \E m \in A \cap B : m \notin Faulty

Honest == Nodes \ Faulty

\* A signing session; BuildSignHash is injective, so the record stands for it.
Sessions == [quorum : Quorums, id : Ids, msg : Msgs]
Shares   == [session : Sessions, member : Nodes]

\* What a thread inside AsyncSignIfMember has read.
Calls == [session : Sessions, prevMsgHash : Msgs \cup {None}]

VARIABLES
    vote,        \* vote[n][i]: rs_v, persisted
    recSig,      \* recSig[n][i]: rs_r, persisted
    call,        \* call[n][t]: the AsyncSignIfMember call thread t is in
    pendingSigns,\* sessions queued for the share worker
    sigShares,   \* shares this node holds
    checked,     \* recovered signatures past the checks of ProcessRecoveredSig
    sent,        \* every share a node running this code ever created to send
    expired      \* ids whose votes are older than -maxrecsigsage

vars == <<vote, recSig, call, pendingSigns, sigShares, checked, sent, expired>>

TypeOK ==
    /\ vote \in [Honest -> [Ids -> Msgs \cup {None}]]
    /\ recSig \in [Honest -> [Ids -> Sessions \cup {None}]]
    /\ call \in [Honest -> [Threads -> Calls \cup {None}]]
    /\ pendingSigns \in [Honest -> SUBSET Sessions]
    /\ sigShares \in [Honest -> SUBSET Shares]
    /\ checked \in [Honest -> SUBSET Sessions]
    /\ sent \in SUBSET Shares
    /\ expired \in SUBSET Ids

Init ==
    /\ vote = [n \in Honest |-> [i \in Ids |-> None]]
    /\ recSig = [n \in Honest |-> [i \in Ids |-> None]]
    /\ call = [n \in Honest |-> [t \in Threads |-> None]]
    /\ pendingSigns = [n \in Honest |-> {}]
    /\ sigShares = [n \in Honest |-> {}]
    /\ checked = [n \in Honest |-> {}]
    /\ sent = {}
    /\ expired = {}

-----------------------------------------------------------------------------
(* CSigningManager::AsyncSignIfMember, cut where another thread may change *)
(* what it read: after the reads and before the writes.                    *)

HasRecoveredSigForId(n, i) == recSig[n][i] # None

\* The vote allows a request for session s: there is none, or it is for the same
\* message and the caller passes allowReSign, or it is for another one and the
\* caller passes allowDiffMsgHashSigning.
MutantIgnoreConflictingVote(n, s) == TRUE
MayVote(n, s) ==
    \/ vote[n][s.id] = None
    \/ vote[n][s.id] = s.msg /\ s.id \in ReSignIds
    \/ vote[n][s.id] # s.msg /\ s.id \in DiffMsgIds

\* HasVotedOnId, GetVoteForId and HasRecoveredSigForId with their early returns.
\* No id is requested again -maxrecsigsage (a week) after its last request.
AsyncSignIfMember(n, t, s) ==
    /\ call[n][t] = None
    /\ t \in Callers[s.id]
    /\ s.id \notin expired
    /\ s.quorum \in Selected[s.id]
    /\ n \in Members[s.quorum]
    /\ MayVote(n, s)
    /\ ~ HasRecoveredSigForId(n, s.id)
    /\ call' = [call EXCEPT ![n][t] = [session |-> s, prevMsgHash |-> vote[n][s.id]]]
    /\ UNCHANGED <<vote, recSig, pendingSigns, sigShares, checked, sent, expired>>

\* What WriteVoteForId stores: the message hash, not the session's sign hash
MutantVoteSignHash(s) == s
VoteOf(s) == s.msg

\* WriteVoteForId, unless the same vote was there, then AsyncSign: the session is
\* queued for the share worker.  (A crash between the two leaves what a crash
\* before the share worker runs leaves: the vote.)
WriteVoteAndAsyncSign(n, t) ==
    /\ call[n][t] # None
    /\ LET s == call[n][t].session IN
        /\ vote' = IF call[n][t].prevMsgHash = s.msg THEN vote
                    ELSE [vote EXCEPT ![n][s.id] = VoteOf(s)]
        /\ pendingSigns' = [pendingSigns EXCEPT ![n] = @ \cup {s}]
    /\ call' = [call EXCEPT ![n][t] = None]
    /\ UNCHANGED <<recSig, sigShares, checked, sent, expired>>

-----------------------------------------------------------------------------
(* CSigSharesManager: the share worker.                                    *)

SharesOf(S, s) == {x \in S : x.session = s}

\* canTryRecovery: the node holds Threshold shares of session s
MutantOneShareLess(S, s) == Cardinality(SharesOf(S, s)) + 1 >= Threshold[s.quorum]
MutantOneShareMore(S, s) == Cardinality(SharesOf(S, s)) > Threshold[s.quorum]
CanTryRecovery(S, s) == Cardinality(SharesOf(S, s)) >= Threshold[s.quorum]

\* ProcessSigShare and TryRecoverSig: a share of an id that has a recovered
\* signature is dropped; with Threshold shares the signature is recovered and
\* handed to ProcessRecoveredSig, whose checks come first.
ProcessSigShare(n, x) ==
    IF HasRecoveredSigForId(n, x.session.id) \/ x \in sigShares[n]
    THEN UNCHANGED <<sigShares, checked>>
    ELSE /\ sigShares' = [sigShares EXCEPT ![n] = @ \cup {x}]
         /\ checked' = IF CanTryRecovery(sigShares'[n], x.session)
                       THEN [checked EXCEPT ![n] = @ \cup {x.session}]
                       ELSE checked

\* SignPendingSigShares: the own share is created (by a member with its key share
\* only, see CreateSigShare), processed and sent.
SignPendingSigShare(n, s) ==
    /\ s \in pendingSigns[n]
    /\ n \in Members[s.quorum]
    /\ pendingSigns' = [pendingSigns EXCEPT ![n] = @ \ {s}]
    /\ sent' = sent \cup {[session |-> s, member |-> n]}
    /\ ProcessSigShare(n, [session |-> s, member |-> n])
    /\ UNCHANGED <<vote, recSig, call, expired>>

\* A share of another member arrives (QSIGSHARE or QBSIGSHARES), is verified
\* against the member's public key share and processed.
ProcessMessageSigShare(n, x) ==
    /\ n \in Recovery[x.session.quorum]
    /\ x.member \in Members[x.session.quorum]
    /\ x \in sent \/ x.member \in Faulty
    /\ x \notin sigShares[n]
    /\ ~ HasRecoveredSigForId(n, x.session.id)
    /\ ProcessSigShare(n, x)
    /\ UNCHANGED <<vote, recSig, call, pendingSigns, sent, expired>>

\* Cleanup: no new share for SESSION_NEW_SHARES_TIMEOUT, or an inactive quorum
SessionTimeout(n, s) ==
    /\ SharesOf(sigShares[n], s) # {}
    /\ sigShares' = [sigShares EXCEPT ![n] = @ \ SharesOf(@, s)]
    /\ UNCHANGED <<vote, recSig, call, pendingSigns, checked, sent, expired>>

-----------------------------------------------------------------------------
(* CSigningManager: recovered signatures.                                  *)

\* When the shares in S were created: the members that can have contributed to
\* session s, and whether a valid recovered signature for s can exist at all.
Backers(S, s) == {m \in Members[s.quorum] : m \in Faulty \/ [session |-> s, member |-> m] \in S}

MutantOneBackerLess(S, s) == Cardinality(Backers(S, s)) + 1 >= Threshold[s.quorum]

Recoverable(S, s) == Cardinality(Backers(S, s)) >= Threshold[s.quorum]

\* QSIGREC: a valid recovered signature from a peer, relayed or late, passes
\* the checks of ProcessRecoveredSig (none is known for the id).
ProcessMessageRecoveredSig(n, s) ==
    /\ Recoverable(sent, s)
    /\ ~ HasRecoveredSigForId(n, s.id)
    /\ checked' = [checked EXCEPT ![n] = @ \cup {s}]
    /\ s \notin checked[n]
    /\ UNCHANGED <<vote, recSig, call, pendingSigns, sigShares, sent, expired>>

\* The same, relayed by a node that stored it
RelayedRecoveredSig(n, s) ==
    /\ \E o \in Honest : recSig[o][s.id] = s
    /\ ProcessMessageRecoveredSig(n, s)

\* The second half of ProcessRecoveredSig: WriteRecoveredSig replaces whatever
\* another worker stored for the id after the check; the listener of the share
\* manager drops the shares of the session.
WriteRecoveredSig(n, s) ==
    /\ s \in checked[n]
    /\ checked' = [checked EXCEPT ![n] = @ \ {s}]
    /\ recSig' = [recSig EXCEPT ![n][s.id] = s]
    /\ sigShares' = [sigShares EXCEPT ![n] = @ \ SharesOf(@, s)]
    /\ UNCHANGED <<vote, call, pendingSigns, sent, expired>>

\* Time passes -maxrecsigsage after the last request for id i.
Expire(i) ==
    /\ i \in MayExpire \ expired
    /\ \A n \in Honest, t \in Threads : call[n][t] # None => call[n][t].session.id # i
    /\ expired' = expired \cup {i}
    /\ UNCHANGED <<vote, recSig, call, pendingSigns, sigShares, checked, sent>>

\* CleanupOldVotes: the vote of an expired id is erased
MutantEveryVoteIsOld(i) == TRUE
VoteIsOld(i) == i \in expired

CleanupOldVotes(n, i) ==
    /\ VoteIsOld(i)
    /\ vote[n][i] # None
    /\ vote' = [vote EXCEPT ![n][i] = None]
    /\ UNCHANGED <<recSig, call, pendingSigns, sigShares, checked, sent, expired>>

\* CleanupOldRecoveredSigs: so is its recovered signature
CleanupOldRecoveredSigs(n, i) ==
    /\ i \in expired
    /\ recSig[n][i] # None
    /\ recSig' = [recSig EXCEPT ![n][i] = None]
    /\ UNCHANGED <<vote, call, pendingSigns, sigShares, checked, sent, expired>>

\* The process stops and starts again: leveldb is kept, the memory is not.
Restart(n) ==
    /\ n \in MayRestart
    /\ call' = [call EXCEPT ![n] = [t \in Threads |-> None]]
    /\ pendingSigns' = [pendingSigns EXCEPT ![n] = {}]
    /\ sigShares' = [sigShares EXCEPT ![n] = {}]
    /\ checked' = [checked EXCEPT ![n] = {}]
    /\ UNCHANGED <<vote, recSig, sent, expired>>

-----------------------------------------------------------------------------
\* The steps of the threads of node n, and of the messages delivered to it
Step(n) ==
    \/ \E t \in Threads : \/ \E s \in Sessions : AsyncSignIfMember(n, t, s)
                          \/ WriteVoteAndAsyncSign(n, t)
    \/ \E s \in Sessions : \/ SignPendingSigShare(n, s)
                           \/ ProcessMessageRecoveredSig(n, s)
                           \/ WriteRecoveredSig(n, s)
    \/ \E x \in Shares : ProcessMessageSigShare(n, x)

\* Time and crashes
Disturb ==
    \/ \E n \in Honest : Restart(n)
    \/ \E n \in Honest, s \in Sessions : SessionTimeout(n, s)
    \/ \E i \in Ids : Expire(i)
    \/ \E n \in Honest, i \in Ids : CleanupOldVotes(n, i) \/ CleanupOldRecoveredSigs(n, i)

Next == (\E n \in Honest : Step(n)) \/ Disturb

Spec == Init /\ [][Next]_vars

\* The worker threads keep running and, between members that stay up, a message
\* that is sent is delivered in the end (the connections are TCP and shares are
\* re-requested); nothing forces a caller to ask for a signature.
FairSpec ==
    /\ Init /\ [][\E n \in Honest : Step(n)]_vars
    /\ \A n \in Honest :
        /\ \A t \in Threads : WF_vars(WriteVoteAndAsyncSign(n, t))
        /\ \A s \in Sessions : /\ WF_vars(SignPendingSigShare(n, s))
                               /\ WF_vars(RelayedRecoveredSig(n, s))
                               /\ WF_vars(WriteRecoveredSig(n, s))
        /\ \A x \in Shares : WF_vars(ProcessMessageSigShare(n, x))

-----------------------------------------------------------------------------
(* Properties.                                                             *)

\* One thread of a node at most asks for signatures on a given id, which is so
\* for ChainLocks (only the "cl-schdlr" scheduler thread signs chain tips).
OneCallerPerId == \A i \in Ids : \A t, u \in Callers[i] : t = u

\* Every node selects the same quorum for an id, which is so while the quorum list
\* does not change between the nodes' requests.
OneQuorumPerId == \A i \in Ids : \A q, r \in Selected[i] : q = r

VotingIds == Ids \ DiffMsgIds

\* AsyncSignIfMember refuses a conflicting vote, also after restarts and across
\* quorums: the shares a node ever sent on one request id are all on one message
\* ("each masternode is participating in only one vote, even if it's a member of
\* multiple quorums").
HonestSignsOnce ==
    \A x, y \in sent : x.member = y.member /\ x.session.id = y.session.id
                       /\ x.session.id \in VotingIds
                          => x.session.msg = y.session.msg

\* The vote is on disk before the share leaves the node: whatever the node did
\* since, a share it sent is backed by its persisted vote until the vote expires.
SharesBackedByVote ==
    \A x \in sent : x.session.id \in VotingIds
        => x.session.id \in expired \/ vote[x.member][x.session.id] = x.session.msg

\* One quorum never produces recovered signatures on two messages for one id,
\* whatever the faulty members sign and however messages are delayed.
NoConflictPerQuorum ==
    \A s1, s2 \in Sessions :
        s1.quorum = s2.quorum /\ s1.id = s2.id /\ s1.id \in VotingIds
        /\ Recoverable(sent, s1) /\ Recoverable(sent, s2) => s1 = s2

\* What ProcessRecoveredSig stores is a signature its quorum can have produced.
StoredSigsRecoverable ==
    \A n \in Honest, i \in Ids : recSig[n][i] # None =>
        recSig[n][i].id = i /\ Recoverable(sent, recSig[n][i])

\* "a majority is only possible on one quorum and one msgHash per id": the nodes
\* never hold recovered signatures on different messages for one id.
NodesAgreePerId ==
    \A n, o \in Honest, i \in VotingIds :
        recSig[n][i] # None /\ recSig[o][i] # None => recSig[n][i].msg = recSig[o][i].msg

\* ProcessRecoveredSig checks for a stored signature and writes in two steps; the
\* write of a slower worker never puts another message in place of a stored one.
StoredSigNeverReplaced ==
    [][\A n \in Honest, i \in VotingIds :
         recSig[n][i] # None /\ recSig'[n][i] # None => recSig'[n][i].msg = recSig[n][i].msg]_vars

\* Liveness: once Threshold members that run this code voted for the same message
\* in the only quorum of the id, every such member ends up with the signature.
VotedFor(i, m) == {n \in Honest : vote[n][i] = m}
ThresholdVoteRecovers ==
    \A i \in VotingIds, m \in Msgs, q \in Quorums :
        (Selected[i] = {q} /\ Cardinality(VotedFor(i, m) \cap Members[q]) >= Threshold[q])
            ~> (\A n \in Honest \cap Members[q] : recSig[n][i] = [quorum |-> q, id |-> i, msg |-> m])

\* The signing managers implement the promise of QuorumSignature: a signature is
\* produced when the share that makes it recoverable is created, and known to a node
\* when WriteRecoveredSig has stored it.
VotingSessions == {s \in Sessions : s.id \in VotingIds}
Produced == {s \in VotingSessions : Recoverable(sent, s)}
Known    == [n \in Honest |-> [i \in VotingIds |-> recSig[n][i]]]

Promise == INSTANCE QuorumSignature WITH
    Nodes <- Honest, Ids <- VotingIds, Sessions <- VotingSessions,
    produced <- Produced, known <- Known

\* Every behaviour of the nodes, with lost, late and repeated messages, faulty
\* members, crashes and expiry, is one of QuorumSignature: at most one signature per
\* request id ever comes into being, and ProcessRecoveredSig stores no other.
KeepsPromise == Promise!Spec
=============================================================================
