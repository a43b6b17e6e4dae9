-------------------------------- MODULE DKG --------------------------------
(***************************************************************************)
(* One distributed key generation session of an LLMQ: CDKGSessionHandler   *)
(* drives a CDKGSession through its phases, which follow the height of the *)
(* chain tip.  In every phase a member first handles messages while it     *)
(* sleeps, then runs the function that starts the phase and sends its own  *)
(* message, then handles messages until the tip reaches the next phase.    *)
(* Messages of a phase that were not handled by then are never handled.    *)
(*                                                                         *)
(* Messages of one phase come from different members and touch different   *)
(* entries, so their order matters only relative to the phase function,    *)
(* and only in the justify phase: there a member may handle some of them   *)
(* before VerifyAndJustify.  A member's own message goes into its pending  *)
(* messages and is relayed when it handles that one: it reaches the others *)
(* only if it was created before the phase ended.                          *)
(*                                                                         *)
(* A member makes the errors that "quorum dkgsimerror" simulates, and no   *)
(* others: it sends at most one message per phase.  The cryptography is    *)
(* external: a contribution is the set of members whose secret share fits  *)
(* its verification vector.                                                *)
(***************************************************************************)
EXTENDS Integers, Counting

CONSTANTS
    Members,           \* the members of the quorum
    MinSize,           \* params.minSize
    SigThreshold,      \* params.threshold
    BadVotesThreshold, \* params.dkgBadVotesThreshold
    FaultModels,       \* the faults of a session: see below
    None               \* no message

\* What may go wrong in a session: errors[n] are the errors that n may simulate,
\* <<n, m>> \in unconnected says that n may find m badly connected, <<s, n>> \in lost
\* that messages of s may not reach n in their phase, and the members in slow may
\* start a phase late or miss it.
ErrorKinds == {"contribution-omit", "contribution-lie", "complain-lie",
               "justify-omit", "justify-lie", "commit-omit", "commit-lie"}

ASSUME DkgAssumption ==
    /\ IsFiniteSet(Members)
    /\ MinSize \in 2 .. Cardinality(Members)
    /\ SigThreshold \in 1 .. MinSize
    /\ BadVotesThreshold \in Nat \ {0}
    /\ \A S \in SUBSET Members : S # None
    /\ \A f \in FaultModels :
        /\ f.errors \in [Members -> SUBSET ErrorKinds]
        /\ f.unconnected \subseteq Members \X Members
        /\ f.lost \subseteq Members \X Members
        /\ f.slow \subseteq Members

\* The members are finitely many.
ASSUME MembersAreCounted == Counted(Members)

\* Two groups of minSize members have one in common, in every entry of
\* available_llmqs (llmq/params.h).
ASSUME MajorityAssumption == 2 * MinSize > Cardinality(Members)

\* QuorumPhase, from Contribute to Finalize
Contrib == 1
Complain == 2
Justify == 3
Commit == 4
Finalize == 5
Phases == Contrib .. Commit

ComplaintMsg   == [bad : SUBSET Members, complain : SUBSET Members]
JustifyMsg     == [for : SUBSET Members, wrong : SUBSET Members]
FinalCommitment == [valid : SUBSET Members, signers : SUBSET Members]

ASSUME NoneAssumption == \A msg \in ComplaintMsg \cup JustifyMsg : msg # None

VARIABLES
    faults,        \* the faults of this session
    tip,           \* the phase the height of the chain tip is in
    phase,         \* phase[n]: the phase n's handler thread is in
    run,           \* run[n]: sleep (before the phase function), wait (after it),
                   \* done, aborted (AbortPhaseException) or crashed (an assertion)
    contribution,  \* the contribution a member sent: who got a right share
    complaint,
    justification,
    commitment,    \* premature commitments: the members they call valid
    handled,       \* handled[n][k]: whose messages of phase k n has handled
    bad,           \* bad[n]: the members n marked bad
    weComplain,    \* weComplain[n]
    skContributions,      \* skContributions[n]: whose verified share n has on disk
    complaintsFromOthers, \* complaintsFromOthers[n][m]
    final          \* final[n]: what FinalizeCommitments of n returned

sent  == <<contribution, complaint, justification, commitment>>
local == <<handled, bad, weComplain, skContributions, complaintsFromOthers>>
vars  == <<faults, tip, phase, run, sent, local, final>>

TypeOK ==
    /\ faults \in FaultModels
    /\ tip \in Contrib .. Finalize
    /\ phase \in [Members -> Phases]
    /\ run \in [Members -> {"sleep", "wait", "done", "aborted", "crashed"}]
    /\ contribution \in [Members -> (SUBSET Members) \cup {None}]
    /\ complaint \in [Members -> ComplaintMsg \cup {None}]
    /\ justification \in [Members -> JustifyMsg \cup {None}]
    /\ commitment \in [Members -> (SUBSET Members) \cup {None}]
    /\ handled \in [Members -> [Phases -> SUBSET Members]]
    /\ bad \in [Members -> SUBSET Members]
    /\ weComplain \in [Members -> SUBSET Members]
    /\ skContributions \in [Members -> SUBSET Members]
    /\ complaintsFromOthers \in [Members -> [Members -> SUBSET Members]]
    /\ final \in [Members -> SUBSET FinalCommitment]

Init ==
    /\ faults \in FaultModels
    /\ tip = Contrib
    /\ phase = [n \in Members |-> Contrib]
    /\ run = [n \in Members |-> "sleep"]
    /\ contribution = [n \in Members |-> None]
    /\ complaint = [n \in Members |-> None]
    /\ justification = [n \in Members |-> None]
    /\ commitment = [n \in Members |-> None]
    /\ handled = [n \in Members |-> [k \in Phases |-> {}]]
    /\ bad = [n \in Members |-> {}]
    /\ weComplain = [n \in Members |-> {}]
    /\ skContributions = [n \in Members |-> {}]
    /\ complaintsFromOthers = [n \in Members |-> [m \in Members |-> {}]]
    /\ final = [n \in Members |-> {}]

\* ShouldSimulateError
MaySimulate(n, e) == e \in faults.errors[n]

\* Any subset of S, if n may simulate error e
Lies(n, e, S) == IF MaySimulate(n, e) THEN SUBSET S ELSE {{}}

-----------------------------------------------------------------------------
(* The phases: UpdatedBlockTip, SleepBeforePhase, WaitForNextPhase.        *)

\* n's thread runs the function of phase k.  A slow member may be done with it when
\* the tip has just left the phase; it then never handles, nor relays, what it sent.
Starts(n, k) ==
    /\ phase[n] = k /\ run[n] = "sleep"
    /\ tip = k \/ (n \in faults.slow /\ tip = k + 1)
    /\ run' = [run EXCEPT ![n] = "wait"]
    /\ UNCHANGED <<faults, tip, phase, final>>

InTime(k) == tip = k

\* The messages of phase k
Messages(k) ==
    LET Of(msg) == {s \in Members : msg[s] # None} IN
    CASE k = Contrib  -> Of(contribution)
      [] k = Complain -> Of(complaint)
      [] k = Justify  -> Of(justification)
      [] k = Commit   -> Of(commitment)

\* Sets of messages of phase k that n handles before it leaves the phase: all it
\* has not handled, except some that are lost.
Arrivals(n, k) ==
    LET new == Messages(k) \ handled[n][k] IN
    {new \ L : L \in SUBSET {s \in new : <<s, n>> \in faults.lost}}

\* Blocks take the chain tip to the next phase.  The members that are not slow
\* have sent their messages by then.
UpdatedBlockTip ==
    /\ tip < Finalize
    /\ \A n \in Members \ faults.slow : run[n] # "sleep" /\ phase[n] = tip
    /\ tip' = tip + 1
    /\ UNCHANGED <<faults, phase, run, sent, local, final>>

\* A mutant: the handler waits for the phase after the next one.
MutantWaitTooLong(n, k) ==
    /\ phase[n] = k /\ run[n] = "wait"
    /\ tip = k + 2

\* WaitForNextPhase finds the next phase
NextPhase(n, k) ==
    /\ phase[n] = k /\ run[n] = "wait"
    /\ tip = k + 1

EnterPhase(n, k) ==
    /\ phase' = [phase EXCEPT ![n] = k]
    /\ run' = [run EXCEPT ![n] = "sleep"]

\* SleepBeforePhase or WaitForNextPhase finds that the tip is past the phase.
AbortPhase(n) ==
    /\ \/ run[n] = "sleep" /\ tip > phase[n]
       \/ run[n] = "wait" /\ tip > phase[n] + 1
    /\ run' = [run EXCEPT ![n] = "aborted"]
    /\ UNCHANGED <<faults, tip, phase, sent, local, final>>

-----------------------------------------------------------------------------
(* Contributions.                                                          *)

\* Contribute, SendContributions.  A member sends itself a right share.
Contribute(n) ==
    /\ Starts(n, Contrib)
    /\ \/ /\ InTime(Contrib)
          /\ \E L \in Lies(n, "contribution-lie", Members \ {n}) :
                contribution' = [contribution EXCEPT ![n] = Members \ L]
       \/ /\ ~ InTime(Contrib) \/ MaySimulate(n, "contribution-omit")
          /\ UNCHANGED contribution
    /\ UNCHANGED <<complaint, justification, commitment, local>>

\* ReceiveMessage(CDKGContribution): n stores the verification vectors and leaves
\* the shares to VerifyPendingContributions, except where it lies that one could
\* not be decrypted.
ReceiveContributions(n) ==
    /\ NextPhase(n, Contrib)
    /\ \E R \in Arrivals(n, Contrib) :
        /\ handled' = [handled EXCEPT ![n][Contrib] = @ \cup R]
        /\ \E L \in Lies(n, "complain-lie", R \ {n}) :
              weComplain' = [weComplain EXCEPT ![n] = @ \cup L]
    /\ EnterPhase(n, Complain)
    /\ UNCHANGED <<faults, tip, sent, bad, skContributions, complaintsFromOthers, final>>

-----------------------------------------------------------------------------
(* Complaints.                                                             *)

\* VerifyPendingContributions: whose share n verifies, and whose it finds wrong
PendingContributions(n) == handled[n][Contrib] \ (bad[n] \cup weComplain[n])
WrongShares(n) == {m \in PendingContributions(n) : n \notin contribution[m]}

\* VerifyAndComplain, VerifyConnectionAndMinProtoVersions, SendComplaint: who sent
\* no contribution is bad, who is badly connected is voted bad, who sent a wrong
\* share is complained about.
VerifyAndComplain(n) ==
    LET complain == weComplain[n] \cup WrongShares(n)
        badNow   == bad[n] \cup (Members \ handled[n][Contrib]) IN
    /\ Starts(n, Complain)
    /\ bad' = [bad EXCEPT ![n] = badNow]
    /\ weComplain' = [weComplain EXCEPT ![n] = complain]
    /\ skContributions' = [skContributions EXCEPT
            ![n] = @ \cup (PendingContributions(n) \ WrongShares(n))]
    /\ \E C \in SUBSET {m \in Members \ {n} : <<n, m>> \in faults.unconnected} :
        LET qc == [bad |-> badNow \cup C, complain |-> complain \ (badNow \cup C)] IN
        complaint' = IF InTime(Complain) /\ (qc.bad # {} \/ qc.complain # {})
                     THEN [complaint EXCEPT ![n] = qc]
                     ELSE complaint
    /\ UNCHANGED <<contribution, justification, commitment, handled, complaintsFromOthers>>

\* ReceiveMessage(CDKGComplaint)
ReceiveComplaints(n) ==
    /\ NextPhase(n, Complain)
    /\ \E R \in Arrivals(n, Complain) :
        /\ handled' = [handled EXCEPT ![n][Complain] = @ \cup R]
        /\ complaintsFromOthers' = [complaintsFromOthers EXCEPT ![n] =
                [m \in Members |-> @[m] \cup {s \in R : m \in complaint[s].complain}]]
    /\ EnterPhase(n, Justify)
    /\ UNCHANGED <<faults, tip, sent, bad, weComplain, skContributions, final>>

BadMemberVotes(n, m) ==
    {s \in handled[n][Complain] : m \in complaint[s].bad}

-----------------------------------------------------------------------------
(* Justifications.                                                         *)

\* A mutant: the shares of a justification are not verified.
MutantTrustShares(n, s) == justification[s].for

\* ReceiveMessage(CDKGJustification) of the members in R by n.  A justification
\* towards somebody n knows no complaint of, or with a wrong share, makes its
\* sender bad; one from a bad member is ignored.
RightShares(n, s) == justification[s].for \ justification[s].wrong

JustifiedBy(n, R) ==
    {s \in R \ bad[n] : justification[s].for \subseteq complaintsFromOthers[n][s]}

ReceiveJustifications(n, R) ==
    LET verified == JustifiedBy(n, R)
        forUs    == {s \in verified : n \in RightShares(n, s)} IN
    /\ bad' = [bad EXCEPT ![n] = @ \cup (R \ verified)
                            \cup {s \in verified : RightShares(n, s) # justification[s].for}]
    /\ skContributions' = [skContributions EXCEPT ![n] = @ \cup forUs]
    /\ weComplain' = [weComplain EXCEPT ![n] = @ \ forUs]
    /\ complaintsFromOthers' = [complaintsFromOthers EXCEPT ![n] =
            [m \in Members |-> IF m \in verified THEN @[m] \ RightShares(n, m) ELSE @[m]]]
    /\ handled' = [handled EXCEPT ![n][Justify] = @ \cup R]

\* Justifications that n handles in SleepBeforePhase
EarlyJustifications(n) ==
    /\ phase[n] = Justify /\ run[n] = "sleep" /\ tip = Justify
    /\ \E R \in SUBSET (Messages(Justify) \ handled[n][Justify]) :
        R # {} /\ ReceiveJustifications(n, R)
    /\ UNCHANGED <<faults, tip, phase, run, sent, final>>

\* VerifyAndJustify, SendJustification: too many votes make a member bad; n gives
\* the shares of those who complain about it and are not bad.
VotedBad(n) == {m \in Members : Cardinality(BadMemberVotes(n, m)) >= BadVotesThreshold}

\* A mutant: complaints are looked up under the wrong index, and not found.
MutantJustifyNobody(n, badNow) == {m \in handled[n][Complain] \ badNow : m \in complaint[m].complain}

JustifyFor(n, badNow) ==
    {m \in handled[n][Complain] \ badNow : n \in complaint[m].complain}

VerifyAndJustify(n) ==
    LET badNow == bad[n] \cup VotedBad(n)
        for    == JustifyFor(n, badNow) IN
    /\ Starts(n, Justify)
    /\ bad' = [bad EXCEPT ![n] = badNow]
    /\ \/ /\ for # {} /\ InTime(Justify)
          /\ \E L \in Lies(n, "justify-lie", for \ {n}) :
                justification' = [justification EXCEPT ![n] = [for |-> for, wrong |-> L]]
       \/ /\ for = {} \/ ~ InTime(Justify) \/ MaySimulate(n, "justify-omit")
          /\ UNCHANGED justification
    /\ UNCHANGED <<contribution, complaint, commitment, handled, weComplain,
                   skContributions, complaintsFromOthers>>

\* The justifications that n handles in WaitForNextPhase
LateJustifications(n) ==
    /\ NextPhase(n, Justify)
    /\ \E R \in Arrivals(n, Justify) : ReceiveJustifications(n, R)
    /\ EnterPhase(n, Commit)
    /\ UNCHANGED <<faults, tip, sent, final>>

-----------------------------------------------------------------------------
(* Commitments.                                                            *)

\* VerifyAndCommit, SendCommitment: open complaints make a member bad.  n commits
\* to the members that are not, if it has all their verification vectors on disk
\* (GetVerifiedContributions), and signs with the sum of their shares.  A share that
\* is not on disk is read as an invalid key, which AggregateInsecure asserts not to
\* get.  Whatever a member lies in its commitment it finds out itself when it
\* handles the message, which it then does not relay: a lie is as good as silence.
OpenComplaints(n) == {m \in Members : complaintsFromOthers[n][m] # {}}

VerifyAndCommit(n) ==
    LET badNow == bad[n] \cup OpenComplaints(n)
        valid  == Members \ badNow
        build  == Cardinality(valid) >= MinSize /\ valid \subseteq handled[n][Contrib] IN
    /\ phase[n] = Commit /\ run[n] = "sleep"
    /\ tip = Commit \/ (n \in faults.slow /\ tip = Finalize)
    /\ bad' = [bad EXCEPT ![n] = badNow]
    /\ \/ /\ build /\ valid \subseteq skContributions[n] /\ InTime(Commit)
          /\ commitment' = [commitment EXCEPT ![n] = valid]
          /\ run' = [run EXCEPT ![n] = "wait"]
       \/ /\ build /\ ~ valid \subseteq skContributions[n]
          /\ run' = [run EXCEPT ![n] = "crashed"]
          /\ UNCHANGED commitment
       \/ /\ \/ ~ build
             \/ MaySimulate(n, "commit-omit")
             \/ /\ valid \subseteq skContributions[n]
                /\ ~ InTime(Commit) \/ MaySimulate(n, "commit-lie")
          /\ run' = [run EXCEPT ![n] = "wait"]
          /\ UNCHANGED commitment
    /\ UNCHANGED <<faults, tip, phase, contribution, complaint, justification, handled,
                   weComplain, skContributions, complaintsFromOthers, final>>

\* A mutant: minorities are counted too.
MutantMinorities(R) ==
    {[valid |-> V, signers |-> {s \in R : commitment[s] = V}] : V \in {commitment[s] : s \in R}}

\* FinalizeCommitments, CFinalCommitment::Verify.  Commitments to the same members
\* carry the same key, so every such group that is large enough makes one.
FinalCommitments(R) ==
    LET Signers(V) == {s \in R : commitment[s] = V} IN
    {[valid |-> V, signers |-> Signers(V)] :
        V \in {W \in {commitment[s] : s \in R} : Cardinality(Signers(W)) >= MinSize}}

\* ReceiveMessage(CDKGPrematureCommitment) of the commitments that arrive, and the
\* end of HandleDKGRound
FinalizeCommitments(n) ==
    /\ NextPhase(n, Commit)
    /\ \E R \in Arrivals(n, Commit) :
        /\ handled' = [handled EXCEPT ![n][Commit] = @ \cup R]
        /\ final' = [final EXCEPT ![n] = FinalCommitments(handled'[n][Commit])]
    /\ run' = [run EXCEPT ![n] = "done"]
    /\ UNCHANGED <<faults, tip, phase, sent, bad, weComplain, skContributions,
                   complaintsFromOthers>>

-----------------------------------------------------------------------------
\* HandleDKGRound of n
HandleDKGRound(n) ==
    \/ Contribute(n) \/ ReceiveContributions(n)
    \/ VerifyAndComplain(n) \/ ReceiveComplaints(n)
    \/ EarlyJustifications(n) \/ VerifyAndJustify(n) \/ LateJustifications(n)
    \/ VerifyAndCommit(n) \/ FinalizeCommitments(n)
    \/ AbortPhase(n)

Next == UpdatedBlockTip \/ \E n \in Members : HandleDKGRound(n)

Spec == Init /\ [][Next]_vars

\* Blocks keep coming and the handler threads run: a session takes finitely many
\* steps, so that one of them happens as long as one is possible says as much.
FairSpec == Spec /\ WF_vars(Next)

-----------------------------------------------------------------------------
(* What the session promises.                                              *)

Correct(n) == faults.errors[n] = {}

\* Everything sent in a phase is handled by everybody in that phase, and everybody
\* is connected to everybody.
Reliable == faults.lost = {} /\ faults.slow = {} /\ faults.unconnected = {}

\* Whatever is lost or late and whoever lies, the members never end up with two
\* final commitments to different sets of valid members, hence with two quorum
\* keys, for AddMineableCommitment to choose from: FinalizeCommitments wants minSize
\* commitments that agree ("most voted quorum key wins", dkgsession.cpp).
OneQuorumKey ==
    \A n, o \in Members : \A f \in final[n], g \in final[o] : f.valid = g.valid

\* Those who signed a final commitment can sign for the quorum: each of them has on
\* disk the verified share of every valid member, and there are enough of them.
\* VerifyAndCommit must not let a wrong share into the sum that is its secret key
\* share: what it trusts has been verified by VerifyPendingContributions or replaced
\* by a justification.
SignersHoldShares ==
    \A n \in Members : \A f \in final[n] :
        /\ Cardinality(f.signers) >= SigThreshold
        /\ \A s \in f.signers : \A m \in f.valid :
              /\ m \in skContributions[s]
              /\ \/ s \in contribution[m]
                 \/ justification[m] # None /\ s \in justification[m].for \ justification[m].wrong

\* As long as messages arrive, nobody who makes no error is left out of the quorum
\* because somebody else does (feature_llmq_dkgerrors.py, assert_member_valid).
CorrectMembersValid ==
    Reliable => \A n \in Members : \A f \in final[n] : \A m \in Members : Correct(m) => m \in f.valid

\* SendCommitment never adds up a secret key share that is not there:
\* CBLSSecretKey::AggregateInsecure asserts that the keys it gets are valid.
SharesAreValid == \A n \in Members : run[n] # "crashed"

\* As long as messages arrive and enough members make no error, the session gives
\* each of them a final commitment.
SessionSucceeds ==
    Reliable /\ Cardinality({n \in Members : Correct(n)}) >= MinSize
        ~> \A n \in Members : Correct(n) => final[n] # {}
============================================================================
