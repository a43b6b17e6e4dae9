------------------------- MODULE QuorumCommitments -------------------------
(***************************************************************************)
(* CQuorumBlockProcessor: the final commitments that DKG sessions produce, *)
(* from the node that learns of one to the block that mines it.  The node  *)
(* keeps the commitments it could mine, writes those that are mined to the *)
(* evo database, undoes that in a reorg, and keeps a cache of which        *)
(* quorums have a mined commitment (HasMinedCommitment), which is asked by *)
(* the rules for blocks under cs_main and by CQuorumManager::GetQuorum     *)
(* from any thread.                                                        *)
(*                                                                         *)
(* One DKG cycle of one quorum type is modelled: heights count from the    *)
(* first block of the cycle, of which there are several competing ones.    *)
(* With rotation the cycle has one quorum for each of its first blocks,    *)
(* without it one.  Connecting a block takes two steps: ProcessBlock       *)
(* writes to the transaction that ConnectTip opened in the evo database,   *)
(* and the rest of ConnectTip commits it or, if the block turns out to be  *)
(* invalid, rolls it back.                                                 *)
(***************************************************************************)
EXTENDS Integers, FiniteSets, Sequences

CONSTANTS
    Bases,         \* competing first blocks of the cycle
    Rotation,      \* IsQuorumRotationEnabled
    QuorumsNum,    \* params.signingActiveQuorumCount
    WindowStart,   \* params.dkgMiningWindowStart
    WindowEnd,     \* params.dkgMiningWindowEnd
    Signers,       \* what CountSigners of a commitment may be
    Threads,       \* threads that call GetQuorum
    CsMainThreads, \* those of them that hold cs_main when they do
    MaxHeight,     \* bound: the height of the chain
    MaxPerBlock,   \* bound: commitments in a block
    MaxFailures,   \* bound: blocks that fail to connect
    None

ASSUME CommitmentsAssumption ==
    /\ QuorumsNum \in Nat \ {0}
    /\ WindowStart \in Nat /\ WindowEnd \in Nat
    /\ QuorumsNum <= WindowStart /\ WindowStart <= WindowEnd
    /\ Signers \subseteq Nat \ {0}
    /\ Rotation \in BOOLEAN
    /\ CsMainThreads \subseteq Threads
    /\ MaxPerBlock \in Nat /\ MaxFailures \in Nat
    /\ None \notin Bases

Indexes == IF Rotation THEN 0 .. QuorumsNum - 1 ELSE {0}

\* A quorum, named by its base block: the block at height index of the cycle
Quorums == Bases \X Indexes

\* A commitment has no signers if it is null; sigs says whether the signatures of a
\* commitment verify.
Null(q) == [quorum |-> q, signers |-> 0, sigs |-> TRUE]
IsNull(qc) == qc.signers = 0
FinalCommitment == [quorum : Quorums, signers : Signers, sigs : BOOLEAN]
Verified == {qc \in FinalCommitment : qc.sigs}
Commitment == FinalCommitment \cup {Null(q) : q \in Quorums}

\* The commitments of a block
BlockCommitments == UNION {[1 .. n -> Commitment] : n \in 0 .. MaxPerBlock}

MinedCommitment == [qc : Verified, height : Nat]
MinedRead == [quorum : Quorums, exists : BOOLEAN]

ASSUME NoneAssumption ==
    None \notin Verified /\ None \notin BlockCommitments
        /\ None \notin MinedCommitment /\ None \notin MinedRead

VARIABLES
    base,       \* the first block of the cycle on the active chain
    chain,      \* chain[h]: the commitments in the block at height h
    mined,      \* DB_MINED_COMMITMENT: by quorum, the commitment and its height
    byHeight,   \* DB_MINED_COMMITMENT_BY_INVERSED_HEIGHT, by height and index
    hasMinedCommitmentCache,
    minableCommitments,
    minableCommitmentsByQuorum,
    connecting, \* the block between ProcessBlock and the end of ConnectTip
    saved,      \* the evo database without the transaction open for that block
    received,   \* a commitment between the two critical sections of ProcessMessage
    getQuorum,  \* getQuorum[t]: what t read in HasMinedCommitment, not yet cached
    failures    \* how many blocks failed to connect

evoDb   == <<mined, byHeight>>
minable == <<minableCommitments, minableCommitmentsByQuorum>>
vars == <<base, chain, evoDb, hasMinedCommitmentCache, minable, connecting, saved,
          received, getQuorum, failures>>

TypeOK ==
    /\ base \in Bases \cup {None}
    /\ chain \in Seq(BlockCommitments)
    /\ mined \in [Quorums -> MinedCommitment \cup {None}]
    /\ byHeight \subseteq Nat \X Indexes
    /\ hasMinedCommitmentCache \in [Quorums -> {"unknown", "yes", "no"}]
    /\ minableCommitments \subseteq Verified
    /\ minableCommitmentsByQuorum \in [Quorums -> Verified \cup {None}]
    /\ connecting \in BlockCommitments \cup {None}
    /\ received \in Verified \cup {None}
    /\ getQuorum \in [Threads -> MinedRead \cup {None}]
    /\ failures \in 0 .. MaxFailures

Init ==
    /\ base = None
    /\ chain = <<>>
    /\ mined = [q \in Quorums |-> None]
    /\ byHeight = {}
    /\ hasMinedCommitmentCache = [q \in Quorums |-> "unknown"]
    /\ minableCommitments = {}
    /\ minableCommitmentsByQuorum = [q \in Quorums |-> None]
    /\ connecting = None
    /\ saved = None
    /\ received = None
    /\ getQuorum = [t \in Threads |-> None]
    /\ failures = 0

Height == Len(chain)

\* IsMiningPhase, for a block at height h
IsMiningPhase(h) == WindowStart <= h /\ h <= WindowEnd

\* GetQuorumBlockHash, for a block on top of the active chain
QuorumAt(i) == <<base, i>>

-----------------------------------------------------------------------------
(* HasMinedCommitment, ProcessBlock and ProcessCommitment change a record  *)
(* of the node's state; ok says whether the block is still valid.          *)

Now == [ok |-> TRUE, mined |-> mined, byHeight |-> byHeight,
        cache |-> hasMinedCommitmentCache, minable |-> minableCommitments,
        byQuorum |-> minableCommitmentsByQuorum]

Invalid(st) == [st EXCEPT !.ok = FALSE]

\* HasMinedCommitment: what it returns, and the cache it leaves
HasMinedCommitment(st, q) ==
    IF st.cache[q] = "unknown" THEN st.mined[q] # None ELSE st.cache[q] = "yes"
Asked(st, q) ==
    [st EXCEPT !.cache[q] = IF HasMinedCommitment(st, q) THEN "yes" ELSE "no"]

\* A mutant: a mined commitment does not end the need for one.
MutantAlwaysRequired(st, h) == {i \in Indexes : IsMiningPhase(h)}

\* GetNumCommitmentsRequired: the quorums a block at height h needs a commitment for
Required(st, h) ==
    {i \in Indexes : IsMiningPhase(h) /\ ~ HasMinedCommitment(st, QuorumAt(i))}
AskedAll(st, h) ==
    [st EXCEPT !.cache = [q \in Quorums |->
        IF IsMiningPhase(h) /\ q[1] = base THEN Asked(st, q).cache[q] ELSE @[q]]]

\* ProcessCommitment, the part that writes
Mine(st, h, qc) ==
    LET q == qc.quorum IN
    [st EXCEPT !.mined[q]    = [qc |-> qc, height |-> h],
               !.byHeight    = @ \cup {<<h, q[2]>>},
               !.cache[q]    = "unknown",
               !.byQuorum[q] = None,
               !.minable     = @ \ {qc}]

\* ProcessCommitment, for a block at height h; do is "check" for fJustCheck, or "write"
ProcessCommitment(st, h, qc, do) ==
    LET asked == Asked(st, qc.quorum) IN
    IF ~ st.ok \/ IsNull(qc) THEN st
    ELSE IF HasMinedCommitment(st, qc.quorum) THEN Invalid(asked)  \* bad-qc-dup
    ELSE IF ~ IsMiningPhase(h) THEN Invalid(asked)                 \* bad-qc-height
    ELSE IF ~ qc.sigs THEN Invalid(asked)                          \* bad-qc-invalid
    ELSE IF do = "check" THEN asked
    ELSE Mine(asked, h, qc)

\* The state after each of a block's commitments, in their order
ProcessCommitments(st, h, qcs, do) ==
    LET after[k \in 0 .. Len(qcs)] ==
            IF k = 0 THEN st ELSE ProcessCommitment(after[k - 1], h, qcs[k], do) IN
    after

\* ProcessBlock, GetCommitmentsFromBlock
ProcessBlock(st, qcs, do) ==
    LET h     == Height + 1
        asked == AskedAll(st, h) IN
    IF ~ Rotation /\ Len(qcs) > 1 THEN Invalid(st)
    ELSE IF Cardinality(Required(st, h)) # Len(qcs) THEN Invalid(asked)
    ELSE ProcessCommitments(asked, h, qcs, do)[Len(qcs)]

\* AddMineableCommitment: a commitment with more signers takes the place of the known
\* one in minableCommitmentsByQuorum; the known one stays in minableCommitments.
AddMineableCommitment(st, qc) ==
    IF st.byQuorum[qc.quorum] = None \/ qc.signers > st.byQuorum[qc.quorum].signers
    THEN [st EXCEPT !.byQuorum[qc.quorum] = qc, !.minable = @ \cup {qc}]
    ELSE st

\* Mutants: the index by height, or the cache, is not undone.
MutantKeepHeight(st, h, qc) ==
    IF IsNull(qc) THEN st
    ELSE AddMineableCommitment([st EXCEPT !.mined[qc.quorum] = None,
                                          !.cache[qc.quorum] = "unknown"], qc)
MutantKeepCache(st, h, qc) ==
    IF IsNull(qc) THEN st
    ELSE AddMineableCommitment([st EXCEPT !.mined[qc.quorum] = None,
                                          !.byHeight = @ \ {<<h, qc.quorum[2]>>}], qc)

\* UndoBlock, for one commitment of the block at height h
UndoCommitment(st, h, qc) ==
    IF IsNull(qc) THEN st
    ELSE AddMineableCommitment([st EXCEPT !.mined[qc.quorum] = None,
                                          !.byHeight = @ \ {<<h, qc.quorum[2]>>},
                                          !.cache[qc.quorum] = "unknown"], qc)

UndoCommitments(st, h, qcs) ==
    LET after[k \in 0 .. Len(qcs)] ==
            IF k = 0 THEN st ELSE UndoCommitment(after[k - 1], h, qcs[k]) IN
    after

\* The members of S in some order
Listed(S) ==
    CHOOSE s \in [1 .. Cardinality(S) -> S] : \A i, j \in DOMAIN s : s[i] = s[j] => i = j

\* A mutant: the miner does not ask whether a commitment was mined.
MutantMineAgain ==
    LET Entry(i) == IF minableCommitmentsByQuorum[QuorumAt(i)] = None
                    THEN Null(QuorumAt(i))
                    ELSE minableCommitmentsByQuorum[QuorumAt(i)]
        required == IF IsMiningPhase(Height + 1) THEN Listed(Indexes) ELSE <<>> IN
    [k \in DOMAIN required |-> Entry(required[k])]

\* GetMineableCommitments, for the next block
GetMineableCommitments ==
    LET Entry(i) == IF minableCommitmentsByQuorum[QuorumAt(i)] = None
                    THEN Null(QuorumAt(i))
                    ELSE minableCommitmentsByQuorum[QuorumAt(i)]
        required == Listed(Required(Now, Height + 1)) IN
    [k \in DOMAIN required |-> Entry(required[k])]

Becomes(st) ==
    /\ mined' = st.mined
    /\ byHeight' = st.byHeight
    /\ hasMinedCommitmentCache' = st.cache
    /\ minableCommitments' = st.minable
    /\ minableCommitmentsByQuorum' = st.byQuorum

-----------------------------------------------------------------------------
(* Steps under cs_main                                                     *)

\* cs_main is free: nobody is connecting a block, and no thread that has taken it is
\* in HasMinedCommitment.
CsMain == connecting = None /\ \A t \in CsMainThreads : getQuorum[t] = None

\* The first block of a cycle is connected or disconnected.
ConnectBase ==
    /\ CsMain /\ base = None
    /\ base' \in Bases
    /\ UNCHANGED <<chain, evoDb, hasMinedCommitmentCache, minable, connecting, saved,
                   received, getQuorum, failures>>
DisconnectBase ==
    /\ CsMain /\ base # None /\ chain = <<>>
    /\ base' = None
    /\ UNCHANGED <<chain, evoDb, hasMinedCommitmentCache, minable, connecting, saved,
                   received, getQuorum, failures>>

\* ConnectTip up to ProcessBlock, with a block that passed CheckLLMQCommitment: its
\* commitments are to quorums of this chain.  An invalid block is rolled back.
ConnectBlock ==
    /\ CsMain /\ base # None /\ Height < MaxHeight
    /\ \E qcs \in BlockCommitments :
        /\ \A k \in DOMAIN qcs : qcs[k].quorum \in {QuorumAt(i) : i \in Indexes}
        /\ LET st == ProcessBlock(Now, qcs, "write") IN
           IF st.ok
           THEN /\ Becomes(st)
                /\ connecting' = qcs
                /\ saved' = evoDb
                /\ UNCHANGED failures
           ELSE /\ failures < MaxFailures
                /\ failures' = failures + 1
                /\ Becomes([st EXCEPT !.mined = mined, !.byHeight = byHeight])
                /\ UNCHANGED <<connecting, saved>>
    /\ UNCHANGED <<base, chain, received, getQuorum>>

\* ConnectTip: the rest of ConnectBlock succeeds, and the transaction is committed
CommitBlock ==
    /\ connecting # None
    /\ chain' = Append(chain, connecting)
    /\ connecting' = None
    /\ saved' = None
    /\ UNCHANGED <<base, evoDb, hasMinedCommitmentCache, minable, received, getQuorum, failures>>

\* ConnectTip: the rest of ConnectBlock fails; the transaction is rolled back
RollbackBlock ==
    /\ connecting # None /\ failures < MaxFailures
    /\ mined' = saved[1]
    /\ byHeight' = saved[2]
    /\ connecting' = None
    /\ saved' = None
    /\ failures' = failures + 1
    /\ UNCHANGED <<base, chain, hasMinedCommitmentCache, minable, received, getQuorum>>

\* DisconnectTip, UndoBlock
DisconnectBlock ==
    /\ CsMain /\ chain # <<>>
    /\ Becomes(UndoCommitments(Now, Height, chain[Height])[Len(chain[Height])])
    /\ chain' = SubSeq(chain, 1, Height - 1)
    /\ UNCHANGED <<base, connecting, saved, received, getQuorum, failures>>

\* CreateNewBlock: the miner builds a block and checks it
CreateNewBlock ==
    /\ CsMain /\ base # None /\ Height < MaxHeight
    /\ Becomes([ProcessBlock(Now, GetMineableCommitments, "check") EXCEPT !.ok = TRUE])
    /\ UNCHANGED <<base, chain, connecting, saved, received, getQuorum, failures>>

\* ProcessMessage, the part under cs_main: the quorum is on the active chain and has no
\* mined commitment.
ReceiveCommitment ==
    /\ CsMain /\ received = None
    /\ \E qc \in Verified :
        /\ qc.quorum[1] = base /\ qc.quorum[2] <= Height
        /\ Becomes(Asked(Now, qc.quorum))
        /\ ~ HasMinedCommitment(Now, qc.quorum)
        /\ received' = qc
    /\ UNCHANGED <<base, chain, connecting, saved, getQuorum, failures>>

-----------------------------------------------------------------------------
(* Steps that other threads take at any time.                              *)

\* ProcessMessage, the rest: "check if we already got a better one locally"
ProcessMessage ==
    LET known == minableCommitmentsByQuorum[received.quorum]
        drop  == /\ known # None
                 /\ known \in minableCommitments
                 /\ known.signers <= received.signers IN
    /\ received # None
    /\ received' = None
    /\ Becomes(IF drop THEN Now ELSE AddMineableCommitment(Now, received))
    /\ UNCHANGED <<base, chain, connecting, saved, getQuorum, failures>>

\* The node's own DKG session ends (DKG!FinalizeCommitments, HandleDKGRound)
FinalizeCommitments ==
    /\ \E qc \in Verified : Becomes(AddMineableCommitment(Now, qc))
    /\ UNCHANGED <<base, chain, connecting, saved, received, getQuorum, failures>>

\* GetQuorum of a thread: HasMinedCommitment finds nothing in the cache and reads the
\* database, with the writes of an open transaction ...
GetQuorumRead(t) ==
    /\ getQuorum[t] = None
    /\ t \in CsMainThreads => CsMain
    /\ \E q \in Quorums :
        /\ hasMinedCommitmentCache[q] = "unknown"
        /\ getQuorum' = [getQuorum EXCEPT ![t] = [quorum |-> q, exists |-> mined[q] # None]]
    /\ UNCHANGED <<base, chain, evoDb, hasMinedCommitmentCache, minable, connecting, saved,
                   received, failures>>

\* ... and caches what it read.
GetQuorumCache(t) ==
    /\ getQuorum[t] # None
    /\ hasMinedCommitmentCache' = [hasMinedCommitmentCache EXCEPT
            ![getQuorum[t].quorum] = IF getQuorum[t].exists THEN "yes" ELSE "no"]
    /\ getQuorum' = [getQuorum EXCEPT ![t] = None]
    /\ UNCHANGED <<base, chain, evoDb, minable, connecting, saved, received, failures>>

-----------------------------------------------------------------------------
Next ==
    \/ ConnectBase \/ DisconnectBase
    \/ ConnectBlock \/ CommitBlock \/ RollbackBlock \/ DisconnectBlock
    \/ CreateNewBlock
    \/ ReceiveCommitment \/ ProcessMessage \/ FinalizeCommitments
    \/ \E t \in Threads : GetQuorumRead(t) \/ GetQuorumCache(t)

Spec == Init /\ [][Next]_vars

-----------------------------------------------------------------------------
(* What the commitments promise.                                           *)

\* The non-null commitments on the active chain, by height
MinedOnChain ==
    {<<h, qc>> : h \in DOMAIN chain, qc \in Verified} \cap
        UNION {{<<h, chain[h][k]>> : k \in DOMAIN chain[h]} : h \in DOMAIN chain}

\* Whatever was connected, rolled back and undone: the commitments that the evo
\* database calls mined, and its index of them by height, are the ones with valid
\* signatures in the blocks of the active chain (ProcessCommitment, UndoBlock).
MinedMatchesChain ==
    CsMain => /\ {<<mined[q].height, mined[q].qc>> : q \in {p \in Quorums : mined[p] # None}}
                    = MinedOnChain
              /\ byHeight = {<<m[1], m[2].quorum[2]>> : m \in MinedOnChain}

\* HasMinedCommitment tells the truth about the active chain, so that GetQuorum gives
\* no quorum a reorg has removed ("Reorgs might have happened which would mean we
\* might have cached quorums which are not in the active chain anymore", quorums.cpp)
\* and the rules for blocks are the same on every node.
CacheMatchesChain ==
    CsMain => \A q \in Quorums :
        HasMinedCommitment(Now, q) <=> \E m \in MinedOnChain : m[2].quorum = q

\* "There is always a (possibly null) commitment while in the mining phase until the
\* first non-null commitment has been mined.  After the non-null commitment, no other
\* commitments are allowed, including null commitments" (ProcessBlock).
OneCommitmentUntilMined ==
    \A h \in DOMAIN chain : \A i \in Indexes :
        LET before == \E m \in MinedOnChain : m[1] < h /\ m[2].quorum = QuorumAt(i)
            here   == {k \in DOMAIN chain[h] : chain[h][k].quorum = QuorumAt(i)} IN
        Cardinality(here) = IF IsMiningPhase(h) /\ ~ before THEN 1 ELSE 0

\* The block that the node would mine (GetMineableCommitments) is one that it would
\* accept (ProcessBlock), at any time.
MinedBlockAccepted ==
    CsMain /\ base # None => ProcessBlock(Now, GetMineableCommitments, "check").ok

\* A commitment that a peer sends is not turned away in favour of one with fewer
\* signers: ProcessMessage drops it only "if we already got a better one locally".
BetterCommitmentWins ==
    [][ProcessMessage => minableCommitmentsByQuorum'[received.quorum].signers >= received.signers]_vars
============================================================================
