---------------------------- MODULE InstantSend ----------------------------
(***************************************************************************)
(* CInstantSendManager of one node: how InstantSend locks (islocks) come   *)
(* in, wait for their transaction, are stored, drive conflicting           *)
(* transactions out of the mempool and conflicting blocks out of the       *)
(* chain, and are given up when a ChainLock overrules them.                *)
(*                                                                         *)
(* Three threads meet.  Message handlers and validation change the mempool *)
(* and the chain under cs_main and only queue notifications; the scheduler *)
(* thread hands the notifications to the manager one by one; the thread    *)
(* d-isman processes pending islocks step by step, each step under another *)
(* of the manager's locks.                                                 *)
(*                                                                         *)
(* A valid islock names exactly the inputs of its transaction, and the     *)
(* quorums never sign islocks of two conflicting transactions.  A block    *)
(* holds at most one transaction besides its coinbase.                     *)
(***************************************************************************)
EXTENDS BlockTree, Integers, SequencesExt

CONSTANTS
    Txs,          \* transactions
    Base,         \* the confirmed transaction whose outputs the first of them spend
    Outpoints,
    Prevout,      \* COutPoint::hash: the transaction that an outpoint belongs to
    Inputs,       \* the outpoints a transaction spends
    Vtx,          \* the transactions of a block, without the coinbase
    Islocks,      \* hashes of islocks; a transaction may have several
    Txid,         \* CInstantSendLock::txid
    Environments, \* what the node may meet, see Environment
    Confirmations, \* nInstantSendConfirmationsRequired
    MaxQueue,     \* bound: notifications in the queue
    None

\* What surrounds the node, chosen once at the start
Environment ==
    [masternode : BOOLEAN,             \* m_is_masternode
     txs        : SUBSET Txs,          \* transactions that peers or the wallet send
     trims      : SUBSET Txs,          \* transactions that fall to the limits of the mempool
     blocks     : SUBSET Blocks,       \* blocks that are mined
     locks      : SUBSET Islocks,      \* islocks that peers send
     sigs       : SUBSET Islocks,      \* islocks that the node's quorum signs
     chainLocks : SUBSET Blocks]       \* blocks that get a ChainLock

TxIds == Txs \cup {Base}
Conflicts(t, u) == t # u /\ Inputs[t] \cap Inputs[u] # {}
Parents(t) == {Prevout[o] : o \in Inputs[t]}

ASSUME InstantSendAssumption ==
    /\ Base \notin Txs
    /\ Prevout \in [Outpoints -> TxIds]
    /\ Inputs \in [Txs -> (SUBSET Outpoints) \ {{}}]
    /\ Vtx \in [Blocks -> SUBSET Txs]
    /\ \A b \in Blocks : Cardinality(Vtx[b]) <= 1
    /\ Txid \in [Islocks -> Txs]
    /\ Environments \subseteq Environment
    /\ \A e \in Environments :
          \A l, m \in e.locks \cup e.sigs : ~ Conflicts(Txid[l], Txid[m])
    /\ Confirmations \in Nat /\ MaxQueue \in Nat

VARIABLES
    env,
    tip, known, failed,          \* the chain: its tip, the blocks with data, the invalid ones
    chainLock, notified,         \* bestChainLockBlockIndex, lastNotifyChainLockBlockIndex
    mempool, txindex,
    queue,                       \* notifications to the scheduler thread
    handler,                     \* the scheduler thread between ProcessTx and AddNonLockedTx
    db,                          \* CInstantSendDb
    pendingInstantSendLocks,
    pendingNoTxInstantSendLocks,
    tracked,                     \* nonLockedTxs, nonLockedTxsByOutpoints, pendingRetryTxs
    signing,                     \* inputRequestIds, creatingInstantSendLocks and CSigningManager
    worker,                      \* the thread d-isman
    removed                      \* history: islocks that were stored and were removed

validation == <<tip, known, failed, mempool>>
chainLocks == <<chainLock, notified>>
pendings   == <<pendingInstantSendLocks, pendingNoTxInstantSendLocks>>
vars == <<env, validation, chainLocks, txindex, queue, handler, db, pendings, tracked,
          signing, worker, removed>>

Info == [tx : BOOLEAN, mined : Blocks \cup {None}, children : SUBSET Txs]
Event ==
    [on : {"added", "removed"}, tx : Txs] \cup
    [on : {"connected", "disconnected", "chainlock"}, block : Blocks]
Steps == {"idle", "process", "write", "untrack", "collect", "invalidate", "activate", "mempool"}

TypeOK ==
    /\ env \in Environments
    /\ tip \in known /\ known \subseteq Blocks /\ failed \subseteq known
    /\ chainLock \in Blocks \cup {None} /\ notified \in {chainLock, None} \cup Chain[tip]
    /\ mempool \subseteq Txs
    /\ txindex \in [Txs -> Blocks \cup {None}]
    /\ queue \in Seq(Event)
    /\ handler \in [tx : Txs, block : Blocks \cup {None}] \cup {None}
    /\ db.stored \subseteq Islocks \ db.archived
    /\ db.byTxid \cup db.byHash \subseteq db.archived
    /\ db.mined \subseteq Islocks \X Nat
    /\ pendingInstantSendLocks \cup pendingNoTxInstantSendLocks \subseteq Islocks
    /\ tracked.nonLockedTxs \in [TxIds -> Info \cup {None}]
    /\ tracked.byOutpoints \in [Outpoints -> Txs \cup {None}]
    /\ tracked.retry \subseteq Txs
    /\ signing.votes \in [Outpoints -> Txs \cup {None}]
    /\ signing.creating \subseteq Txs
    /\ worker.at \in Steps
    /\ removed \subseteq Islocks

Init ==
    /\ env \in Environments
    /\ tip = Genesis /\ known = {Genesis} /\ failed = {}
    /\ chainLock = None /\ notified = None
    /\ mempool = {}
    /\ txindex = [t \in Txs |-> None]
    /\ queue = <<>>
    /\ handler = None
    /\ db = [stored |-> {}, byTxid |-> {}, byHash |-> {}, archived |-> {}, mined |-> {},
             best_confirmed_height |-> 0]
    /\ pendingInstantSendLocks = {} /\ pendingNoTxInstantSendLocks = {}
    /\ tracked = [nonLockedTxs |-> [t \in TxIds |-> None],
                  byOutpoints |-> [o \in Outpoints |-> None], retry |-> {}]
    /\ signing = [votes |-> [o \in Outpoints |-> None], requests |-> {}, recSigs |-> {},
                  seen |-> {}, creating |-> {}, lockSigs |-> {}]
    /\ worker = [at |-> "idle", pend |-> {}]
    /\ removed = {}

-----------------------------------------------------------------------------
(* CInstantSendDb.  stored are the islocks in the database; byTxid and     *)
(* byHash the ones that are only in the caches: an islock that is fully    *)
(* confirmed leaves the database but not the caches.                       *)

\* GetInstantSendLockByTxid and GetInstantSendLockByInput find these.
Visible(d) == d.stored \cup (d.byTxid \cap d.byHash)

\* KnownInstantSendLock
KnownInstantSendLock(d, l) == l \in d.stored \cup d.byHash \cup d.archived

\* GetInstantSendLockHashByTxid
HashByTxid(d, t) == {l \in d.stored \cup d.byTxid : Txid[l] = t}

IsLocked(d, t) == \E l \in HashByTxid(d, t) : KnownInstantSendLock(d, l)

GetConflictingLock(d, t) == {l \in Visible(d) : Conflicts(Txid[l], t)}

WriteNewInstantSendLock(d, l) == [d EXCEPT !.stored = @ \cup {l}]

\* WriteInstantSendLockMined and RemoveInstantSendLockMined, for a set of islocks
WriteMined(d, S, b) == [d EXCEPT !.mined = @ \cup (S \X {Height(b)})]
RemoveMined(d, S, b) == [d EXCEPT !.mined = @ \ (S \X {Height(b)})]

\* Those of WriteBlockInstantSendLocks and RemoveBlockInstantSendLocks
OfBlock(d, b) == UNION {HashByTxid(d, t) : t \in Vtx[b]}

\* Mutant: a confirmed islock is archived and stays stored.
MutantKeepConfirmed(d, h) ==
    LET now == {m \in d.mined : m[2] <= h}
    IN IF h <= d.best_confirmed_height THEN d
       ELSE [d EXCEPT !.archived = @ \cup {m[1] : m \in now},
                      !.mined = @ \ now,
                      !.best_confirmed_height = h]

\* RemoveConfirmedInstantSendLocks
RemoveConfirmedInstantSendLocks(d, h) ==
    LET now == {m \in d.mined : m[2] <= h}
        gone == {m[1] : m \in now}
    IN IF h <= d.best_confirmed_height THEN d
       ELSE [d EXCEPT !.stored = @ \ gone,
                      !.byTxid = @ \cup (gone \cap d.stored),
                      !.byHash = @ \cup (gone \cap d.stored),
                      !.archived = @ \cup gone,
                      !.mined = @ \ now,
                      !.best_confirmed_height = h]

\* GetInstantSendLocksByParent, followed from child to child
Chained(d, l) ==
    LET Below[t \in Txs] ==
          LET children == {c \in d.stored : t \in Parents(Txid[c])}
          IN children \cup UNION {Below[Txid[c]] : c \in children}
    IN Below[Txid[l]]

\* Mutant: a removed islock is not archived.
MutantNotArchived(d, l) ==
    LET gone == Chained(d, l) \cup {l}
    IN [d EXCEPT !.stored = @ \ gone, !.byHash = @ \ gone]

\* RemoveConflictingLock and RemoveChainedInstantSendLocks
RemoveConflictingLock(d, l) ==
    LET gone == Chained(d, l) \cup {l}
    IN [d EXCEPT !.stored = @ \ gone,
                 !.byHash = @ \ gone,
                 !.archived = @ \cup gone]

-----------------------------------------------------------------------------
(* Validation changes a record of what it may touch; ok says whether the   *)
(* last transaction was accepted or the last block connected.              *)

Now == [ok |-> TRUE, tip |-> tip, failed |-> failed, mempool |-> mempool, queue |-> queue,
        db |-> db]

Becomes(v) ==
    /\ Len(v.queue) <= MaxQueue
    /\ tip' = v.tip
    /\ failed' = v.failed
    /\ mempool' = v.mempool
    /\ queue' = v.queue
    /\ db' = v.db
    /\ removed' = removed \cup (db.stored \ v.db.stored)

On(what, t) == [on |-> what, tx |-> t]
OnBlock(what, b) == [on |-> what, block |-> b]

MinedOn(b) == UNION {Vtx[x] : x \in Chain[b]}
HasChainLock(b) == chainLock # None /\ b \in Chain[chainLock]
IsWaitingForTx(t) == \E l \in pendingNoTxInstantSendLocks : Txid[l] = t

\* A transaction and all that spend its outputs
Descendants[t \in Txs] == {t} \cup UNION {Descendants[u] : u \in {x \in Txs : t \in Parents(x)}}

\* CTxMemPool::removeRecursive, for a reason that is notified
RemoveRecursive(v, S) ==
    LET gone == UNION {Descendants[t] : t \in S} \cap v.mempool
    IN [v EXCEPT !.mempool = @ \ gone,
                 !.queue = @ \o SetToSeq({On("removed", t) : t \in gone})]

ConflictsInMempool(v, t) == {u \in v.mempool : Conflicts(t, u)}

\* CTxMemPool::removeConflicts
RemoveConflicts(v, t) == RemoveRecursive(v, ConflictsInMempool(v, t))

InputsAvailable(v, t) ==
    /\ Parents(t) \subseteq MinedOn(v.tip) \cup v.mempool \cup {Base}
    /\ \A u \in MinedOn(v.tip) : Inputs[t] \cap Inputs[u] = {}

\* Mutant: the check for a conflicting islock is missing.
MutantAcceptConflicting(v, t) ==
    LET w == IF IsWaitingForTx(t) THEN RemoveConflicts(v, t) ELSE v
    IN IF t \in v.mempool \/ ConflictsInMempool(w, t) # {} \/ ~ InputsAvailable(w, t)
       THEN [w EXCEPT !.ok = FALSE]
       ELSE [w EXCEPT !.ok = TRUE, !.mempool = @ \cup {t}, !.queue = Append(@, On("added", t))]

\* AcceptToMemoryPool
AcceptToMemoryPool(v, t) ==
    LET w == IF IsWaitingForTx(t) THEN RemoveConflicts(v, t) ELSE v
    IN IF t \in v.mempool \/ GetConflictingLock(v.db, t) # {} THEN [v EXCEPT !.ok = FALSE]
       ELSE IF ConflictsInMempool(w, t) # {} \/ ~ InputsAvailable(w, t)
            THEN [w EXCEPT !.ok = FALSE]
            ELSE [w EXCEPT !.ok = TRUE, !.mempool = @ \cup {t}, !.queue = Append(@, On("added", t))]

\* DisconnectTip; the transactions of the block go to the disconnectpool
DisconnectTip(v) ==
    [v EXCEPT !.tip = Parent[@], !.queue = Append(@, OnBlock("disconnected", v.tip))]

\* The blocks from just above the ancestor a up to block b, lowest first
Above(a, b) == SetToSortSeq(Chain[b] \ Chain[a], LAMBDA x, y : Height(x) < Height(y))

\* MaybeUpdateMempoolForReorg, for the blocks that were disconnected
MaybeUpdateMempoolForReorg(v, blocks) ==
    FoldLeft(LAMBDA w, b :
               FoldLeft(LAMBDA x, t :
                          LET y == AcceptToMemoryPool(x, t)
                          IN IF y.ok THEN y ELSE RemoveRecursive(y, {t}),
                        w, SetToSeq(Vtx[b])),
             v, blocks)

\* ConnectBlock with its check for islocks, and the rest of ConnectTip
\* (removeForBlock).  The BlockConnected notification comes later.
ConnectTip(v, b) ==
    LET against == UNION {GetConflictingLock(v.db, t) : t \in Vtx[b]}
        free == IF HasChainLock(b)
                THEN [v EXCEPT !.db = FoldLeft(RemoveConflictingLock, @, SetToSeq(against))]
                ELSE v
        taken == [free EXCEPT !.tip = b, !.mempool = @ \ Vtx[b]]
    IN IF against # {} /\ ~ HasChainLock(b)
       THEN [v EXCEPT !.ok = FALSE, !.failed = @ \cup {b}]
       ELSE FoldLeft(RemoveConflicts, taken, SetToSeq(Vtx[b]))

\* ActivateBestChainStep towards block best: disconnect down to the fork, connect,
\* until there is more work than before, refill the mempool, and queue the
\* BlockConnected notifications
ActivateBestChainStep(v, best) ==
    LET fork == Fork(v.tip, best)
        off == Above(fork, v.tip)
        down == FoldLeft(LAMBDA w, b : DisconnectTip(w), [v EXCEPT !.ok = TRUE], off)
        up == FoldLeft(LAMBDA w, b : IF w.ok /\ Height(w.tip) <= Height(v.tip)
                                     THEN ConnectTip(w, b) ELSE w,
                       down, Above(fork, best))
        full == MaybeUpdateMempoolForReorg(up, off)
    IN [full EXCEPT !.queue = @ \o [i \in DOMAIN Above(fork, up.tip) |->
                                       OnBlock("connected", Above(fork, up.tip)[i])]]

\* FindMostWorkChain: blocks that are not known to be invalid and do not conflict with
\* the ChainLock; the tip stays if nothing has more work
Candidates ==
    {b \in known : Chain[b] \cap failed = {} /\
                   (chainLock # None => Chain[b] \cap ConflictsWith(chainLock) = {})}
Better == {b \in Candidates : /\ Height(tip) < Height(b)
                              /\ \A c \in Candidates : Height(c) <= Height(b)}

\* ResetBlockFailureFlags
ResetBlockFailureFlags(v, b) ==
    [v EXCEPT !.failed = {x \in @ : x \notin Chain[b] /\ b \notin Chain[x]}]

\* InvalidateBlock: disconnect down to the parent of b and mark the blocks; the
\* mempool is refilled after every block
InvalidateBlock(v, b) ==
    LET off == IF b \in Chain[v.tip] THEN Reverse(Above(Parent[b], v.tip)) ELSE <<>>
    IN FoldLeft(LAMBDA w, x : [MaybeUpdateMempoolForReorg(DisconnectTip(w), <<x>>)
                                 EXCEPT !.failed = @ \cup {x}],
                [v EXCEPT !.failed = @ \cup {b}], off)

-----------------------------------------------------------------------------
(* nonLockedTxs, nonLockedTxsByOutpoints and pendingRetryTxs               *)

\* AddNonLockedTx, its first part.  A parent that is not tracked gets an entry that
\* only holds its children.
AddNonLockedTx(tr, t, b) ==
    LET new == tr.nonLockedTxs[t] = None
        WithChild(p) ==
          IF tr.nonLockedTxs[p] = None THEN [tx |-> FALSE, mined |-> None, children |-> {t}]
          ELSE [tr.nonLockedTxs[p] EXCEPT !.children = @ \cup {t}]
    IN IF ~ new THEN [tr EXCEPT !.nonLockedTxs[t].mined = b]
       ELSE [tr EXCEPT
               !.nonLockedTxs = [p \in TxIds |->
                   CASE p = t          -> [tx |-> TRUE, mined |-> b, children |-> {}]
                     [] p \in Parents(t) -> WithChild(p)
                     [] OTHER          -> @[p]],
               !.byOutpoints = [o \in Outpoints |->
                   IF o \in Inputs[t] /\ @[o] = None THEN t ELSE @[o]]]

\* Mutant: a transaction that is no longer tracked stays in pendingRetryTxs.
MutantKeepRetry(tr, t, retryChildren) ==
    LET info == tr.nonLockedTxs[t]
    IN IF info = None THEN tr
       ELSE [tr EXCEPT !.nonLockedTxs = [p \in TxIds |->
                 CASE p = t -> None
                   [] info.tx /\ p \in Parents(t) /\ @[p] # None ->
                        IF ~ @[p].tx /\ @[p].children \subseteq {t} THEN None
                        ELSE [@[p] EXCEPT !.children = @ \ {t}]
                   [] OTHER -> @[p]],
             !.byOutpoints = [o \in Outpoints |->
                 IF info.tx /\ o \in Inputs[t] THEN None ELSE @[o]],
             !.retry = @ \cup (IF retryChildren THEN info.children ELSE {})]

\* RemoveNonLockedTx
RemoveNonLockedTx(tr, t, retryChildren) ==
    LET info == tr.nonLockedTxs[t]
        WithoutChild(i) ==
          IF i = None THEN None
          ELSE IF ~ i.tx /\ i.children \subseteq {t} THEN None
          ELSE [i EXCEPT !.children = @ \ {t}]
    IN IF info = None THEN tr
       ELSE [nonLockedTxs |-> [p \in TxIds |->
                 CASE p = t -> None
                   [] info.tx /\ p \in Parents(t) -> WithoutChild(tr.nonLockedTxs[p])
                   [] OTHER -> tr.nonLockedTxs[p]],
             byOutpoints |-> [o \in Outpoints |->
                 IF info.tx /\ o \in Inputs[t] THEN None ELSE tr.byOutpoints[o]],
             retry |-> (tr.retry \cup (IF retryChildren THEN info.children ELSE {})) \ {t}]

\* RemoveConflictedTx, for a set of transactions: what is tracked, and the requests
RemoveConflicted(tr, S) ==
    FoldLeft(LAMBDA x, t : RemoveNonLockedTx(x, t, FALSE), tr, SetToSeq(S))
DropRequests(sg, S) == [sg EXCEPT !.requests = @ \ UNION {Inputs[t] : t \in S}]

-----------------------------------------------------------------------------
(* Locking transactions: a masternode that is a member of the quorums      *)
(* votes on the inputs of a transaction, and on the islock once all inputs *)
(* have a recovered signature.                                             *)

\* GetTransaction: the mempool, then the transaction index
Found(t) == t \in mempool \/ txindex[t] # None
FoundIn(t) == IF t \in mempool THEN None ELSE txindex[t]

\* CheckCanLock
CanLockInput(t) ==
    \/ t = Base
    \/ IsLocked(db, t)
    \/ /\ t \notin mempool
       /\ txindex[t] # None
       /\ \/ Height(tip) - Height(txindex[t]) + 1 >= Confirmations
          \/ HasChainLock(txindex[t])
CheckCanLock(t) == \A p \in Parents(t) : CanLockInput(p)

\* TrySignInstantSendLock
TrySignInstantSendLock(sg, t) ==
    IF t \notin sg.lockSigs /\ \A o \in Inputs[t] : <<o, t>> \in sg.recSigs
    THEN [sg EXCEPT !.creating = @ \cup {t}] ELSE sg

\* TrySignInputLocks: whether it goes on, and the votes it leaves
MaySignInputs(sg, t) ==
    \A o \in Inputs[t] : /\ sg.votes[o] \in {t, None}
                         /\ \A u \in Txs \ {t} : <<o, u>> \notin sg.recSigs
TrySignInputLocks(sg, t, retroactive) ==
    IF ~ retroactive /\ \A o \in Inputs[t] : sg.votes[o] = t THEN sg
    ELSE [sg EXCEPT !.votes = [o \in Outpoints |-> IF o \in Inputs[t] THEN t ELSE @[o]],
                    !.requests = @ \cup Inputs[t]]

\* TruncateRecoveredSigsForInputs
TruncateRecoveredSigsForInputs(sg, t) ==
    [sg EXCEPT !.requests = @ \ Inputs[t], !.recSigs = {r \in @ : r[1] \notin Inputs[t]}]

\* ProcessTx
ProcessTx(sg, t, retroactive) ==
    IF /\ env.masternode
       /\ CheckCanLock(t)
       /\ GetConflictingLock(db, t) = {}
       /\ MaySignInputs(sg, t)
    THEN TrySignInstantSendLock(TrySignInputLocks(sg, t, retroactive), t)
    ELSE sg

-----------------------------------------------------------------------------
(* Message handlers and validation                                         *)

\* A transaction from a peer or the wallet: unless the node has it, it goes to the
\* mempool, and one that is refused is reported to the manager as removed.
ReceiveTx(t) ==
    /\ t \in env.txs
    /\ t \notin mempool /\ txindex[t] = None
    /\ LET v == AcceptToMemoryPool(Now, t)
           own == {l \in Visible(v.db) : Txid[l] = t}
       IN Becomes(IF v.ok THEN v
                  ELSE [v EXCEPT !.db = FoldLeft(RemoveConflictingLock, @, SetToSeq(own))])
    /\ UNCHANGED <<env, known, chainLocks, txindex, handler, pendings, tracked, signing, worker>>

\* LimitMempoolSize, after a transaction was accepted: one that is too old or pays too
\* little is dropped with all that spend its outputs.
LimitMempoolSize(t) ==
    /\ t \in env.trims \cap mempool
    /\ Becomes(RemoveRecursive(Now, {t}))
    /\ UNCHANGED <<env, known, chainLocks, txindex, handler, pendings, tracked, signing, worker>>

\* ProcessNewBlock stores a block; ActivateBestChain goes towards the best one.
ReceiveBlock(b) ==
    /\ b \in env.blocks \ known
    /\ Parent[b] \in known
    /\ known' = known \cup {b}
    /\ UNCHANGED <<env, tip, failed, mempool, chainLocks, txindex, queue, handler, db, pendings,
                   tracked, signing, worker, removed>>

ActivateBestChain ==
    /\ \E b \in Better : Becomes(ActivateBestChainStep(Now, b))
    /\ UNCHANGED <<env, known, chainLocks, txindex, handler, pendings, tracked, signing, worker>>

\* ProcessNewChainLock for a known block
ProcessNewChainLock(b) ==
    /\ b \in env.chainLocks \cap known
    /\ chainLock = None \/ chainLock \in Chain[b] \ {b}
    /\ chainLock' = b
    /\ UNCHANGED <<env, validation, notified, txindex, queue, handler, db, pendings, tracked,
                   signing, worker, removed>>

\* EnforceBestChainLock: blocks that conflict with the ChainLock are disconnected, and
\* once the locked block is on the chain the manager is notified.
EnforceBlock ==
    /\ chainLock \notin {None, notified}
    /\ chainLock \notin Chain[tip]
    /\ LET fork == Fork(tip, chainLock)
           off == Above(fork, tip)
           down == FoldLeft(LAMBDA w, b : DisconnectTip(w), Now, off)
       IN Becomes(ResetBlockFailureFlags(MaybeUpdateMempoolForReorg(down, off), chainLock))
    /\ UNCHANGED <<env, known, chainLocks, txindex, handler, pendings, tracked, signing, worker>>

NotifyChainLock ==
    /\ chainLock \notin {None, notified}
    /\ chainLock \in Chain[tip]
    /\ Len(queue) < MaxQueue
    /\ queue' = Append(queue, OnBlock("chainlock", chainLock))
    /\ notified' = chainLock
    /\ UNCHANGED <<env, validation, chainLock, txindex, handler, db, pendings, tracked, signing,
                   worker, removed>>

\* ProcessMessageInstantSendLock
ProcessMessageInstantSendLock(l) ==
    /\ l \in env.locks
    /\ l \notin pendingInstantSendLocks \cup pendingNoTxInstantSendLocks
    /\ ~ KnownInstantSendLock(db, l)
    /\ pendingInstantSendLocks' = pendingInstantSendLocks \cup {l}
    /\ UNCHANGED <<env, validation, chainLocks, txindex, queue, handler, db,
                   pendingNoTxInstantSendLocks, tracked, signing, worker, removed>>

\* HandleNewRecoveredSig: the quorum signed an input of a transaction.  CSigningManager
\* stores the signature and drops one it has seen before.
HandleNewInputLockRecoveredSig(o, l) ==
    LET t == Txid[l]
        sg == [signing EXCEPT !.recSigs = @ \cup {<<o, t>>}, !.seen = @ \cup {<<o, t>>}]
    IN /\ l \in env.sigs /\ o \in Inputs[t]
       /\ <<o, t>> \notin signing.seen
       /\ signing' = IF o \in signing.requests /\ Found(t) THEN TrySignInstantSendLock(sg, t)
                     ELSE sg
       /\ UNCHANGED <<env, validation, chainLocks, txindex, queue, handler, db, pendings, tracked,
                      worker, removed>>

\* HandleNewRecoveredSig: the quorum signed an islock.
HandleNewInstantSendLockRecoveredSig(l) ==
    LET t == Txid[l]
    IN /\ l \in env.sigs
       /\ t \notin signing.lockSigs
       /\ \A o \in Inputs[t] : <<o, t>> \in signing.seen
       /\ signing' = [signing EXCEPT !.lockSigs = @ \cup {t}, !.creating = @ \ {t}]
       /\ pendingInstantSendLocks' =
             IF t \in signing.creating /\ ~ KnownInstantSendLock(db, l)
             THEN pendingInstantSendLocks \cup {l} ELSE pendingInstantSendLocks
       /\ UNCHANGED <<env, validation, chainLocks, txindex, queue, handler, db,
                      pendingNoTxInstantSendLocks, tracked, worker, removed>>

-----------------------------------------------------------------------------
(* The scheduler thread takes the notifications in order.  The two that    *)
(* track a transaction take a second step, AddNonLockedTx.                 *)

Next1(what) == handler = None /\ queue # <<>> /\ Head(queue).on = what /\ queue' = Tail(queue)

\* The islocks that wait for t go back to the pending ones.
Retake(t) ==
    LET waiting == {l \in pendingNoTxInstantSendLocks : Txid[l] = t}
    IN IF waiting = {} THEN UNCHANGED pendings
       ELSE \E l \in waiting :
              /\ pendingInstantSendLocks' = pendingInstantSendLocks \cup {l}
              /\ pendingNoTxInstantSendLocks' = pendingNoTxInstantSendLocks \ {l}

TransactionAddedToMempool ==
    /\ Next1("added")
    /\ LET t == Head(queue).tx
       IN /\ ~ IsWaitingForTx(t)
          /\ signing' = ProcessTx(signing, t, FALSE)
          /\ handler' = [tx |-> t, block |-> None]
    /\ UNCHANGED <<env, validation, chainLocks, txindex, db, pendings, tracked, worker, removed>>

TransactionOfIslockAdded ==
    /\ handler = None /\ queue # <<>> /\ Head(queue).on = "added"
    /\ LET t == Head(queue).tx
           against == ConflictsInMempool(Now, t)
       IN /\ IsWaitingForTx(t)
          /\ Retake(t)
          /\ Becomes(RemoveRecursive([Now EXCEPT !.queue = Tail(@)], against))
          /\ tracked' = RemoveConflicted(tracked, against)
          /\ signing' = DropRequests(signing, against)
    /\ UNCHANGED <<env, known, chainLocks, txindex, handler, worker>>

AddNonLocked ==
    /\ handler # None
    /\ tracked' = AddNonLockedTx(tracked, handler.tx, handler.block)
    /\ Retake(handler.tx)
    /\ db' = IF handler.block = None THEN db
             ELSE WriteMined(db, OfBlock(db, handler.block), handler.block)
    /\ handler' = None
    /\ UNCHANGED <<env, validation, chainLocks, txindex, queue, signing, worker, removed>>

TransactionRemovedFromMempool ==
    /\ handler = None /\ queue # <<>> /\ Head(queue).on = "removed"
    /\ LET own == {l \in Visible(db) : Txid[l] = Head(queue).tx}
       IN Becomes([Now EXCEPT !.queue = Tail(@),
                              !.db = FoldLeft(RemoveConflictingLock, @, SetToSeq(own))])
    /\ UNCHANGED <<env, known, chainLocks, txindex, handler, pendings, tracked, signing, worker>>

\* The transaction index is updated by the same notification.
BlockConnected ==
    /\ Next1("connected")
    /\ LET b == Head(queue).block
           track == {t \in Vtx[b] : ~ IsLocked(db, t) /\ ~ HasChainLock(b)}
           drop == Vtx[b] \ track
       IN /\ txindex' = [t \in Txs |-> IF t \in Vtx[b] THEN b ELSE txindex[t]]
          /\ IF track = {} THEN UNCHANGED <<handler, signing>>
             ELSE \E t \in track : /\ signing' = ProcessTx(signing, t, TRUE)
                                   /\ handler' = [tx |-> t, block |-> b]
          /\ tracked' = FoldLeft(LAMBDA x, t : RemoveNonLockedTx(x, t, TRUE), tracked, SetToSeq(drop))
          /\ db' = IF track = {} THEN WriteMined(db, OfBlock(db, b), b) ELSE db
    /\ UNCHANGED <<env, validation, chainLocks, pendings, worker, removed>>

BlockDisconnected ==
    /\ Next1("disconnected")
    /\ LET b == Head(queue).block IN db' = RemoveMined(db, OfBlock(db, b), b)
    /\ UNCHANGED <<env, validation, chainLocks, txindex, handler, pendings, tracked, signing,
                   worker, removed>>

\* NotifyChainLock and HandleFullyConfirmedBlock
HandleFullyConfirmedBlock ==
    /\ handler = None /\ queue # <<>> /\ Head(queue).on = "chainlock"
    /\ LET b == Head(queue).block
           d == RemoveConfirmedInstantSendLocks(db, Height(b))
           gone == {Txid[l] : l \in db.stored \ d.stored}
           confirmed == {t \in TxIds : /\ tracked.nonLockedTxs[t] # None
                                       /\ tracked.nonLockedTxs[t].mined \in Chain[b]}
           cut == FoldLeft(TruncateRecoveredSigsForInputs, signing, SetToSeq(gone))
       IN /\ Becomes([Now EXCEPT !.queue = Tail(@), !.db = d])
          /\ signing' = [cut EXCEPT !.lockSigs = @ \ gone]
          /\ tracked' = FoldLeft(LAMBDA x, t : RemoveNonLockedTx(x, t, TRUE), tracked,
                                 SetToSeq(confirmed))
    /\ UNCHANGED <<env, known, chainLocks, txindex, handler, pendings, worker>>

\* The caches of the database are bounded.
EvictCache(l) ==
    /\ \/ l \in db.byTxid /\ db' = [db EXCEPT !.byTxid = @ \ {l}]
       \/ l \in db.byHash /\ db' = [db EXCEPT !.byHash = @ \ {l}]
    /\ UNCHANGED <<env, validation, chainLocks, txindex, queue, handler, pendings, tracked,
                   signing, worker, removed>>

-----------------------------------------------------------------------------
(* The thread d-isman: ProcessPendingInstantSendLocks takes the pending    *)
(* islocks, ProcessInstantSendLock works on one of them at a time.         *)

Lock == worker.lock
LockedTx == Txid[worker.lock]
At(step) == worker.at = step /\ UNCHANGED env
Goto(step) == worker' = [worker EXCEPT !.at = step]

\* Back to the loop over the islocks taken.  The signature of a processed islock is
\* passed on to CSigningManager.
Continue == worker' = [at |-> IF worker.pend = {} THEN "idle" ELSE "process", pend |-> worker.pend]

ProcessPendingInstantSendLocks ==
    /\ At("idle")
    /\ pendingInstantSendLocks # {}
    /\ worker' = [at |-> "process", pend |-> pendingInstantSendLocks]
    /\ pendingInstantSendLocks' = {}
    /\ UNCHANGED <<validation, chainLocks, txindex, queue, handler, db,
                   pendingNoTxInstantSendLocks, tracked, signing, removed>>

\* ProcessInstantSendLock up to the point where it knows whether there is anything to do
ProcessInstantSendLock(l) ==
    LET t == Txid[l]
        rest == worker.pend \ {l}
        nothing == \/ KnownInstantSendLock(db, l)
                   \/ FoundIn(t) # None /\ HasChainLock(FoundIn(t))
                   \/ \E m \in Visible(db) : Txid[m] = t
    IN /\ At("process")
       /\ l \in worker.pend
       /\ signing' = [signing EXCEPT !.creating = @ \ {t}]
       /\ worker' = IF nothing
                    THEN [at |-> IF rest = {} THEN "idle" ELSE "process", pend |-> rest]
                    ELSE [at |-> "write", pend |-> rest, lock |-> l,
                          found |-> Found(t), block |-> FoundIn(t), conflicts |-> {}]
       /\ UNCHANGED <<validation, chainLocks, txindex, queue, handler, db, pendings, tracked, removed>>

WriteLock ==
    /\ At("write")
    /\ IF worker.found
       THEN /\ db' = LET d == WriteNewInstantSendLock(db, Lock)
                     IN IF worker.block = None THEN d ELSE WriteMined(d, {Lock}, worker.block)
            /\ UNCHANGED pendingNoTxInstantSendLocks
       ELSE /\ pendingNoTxInstantSendLocks' = pendingNoTxInstantSendLocks \cup {Lock}
            /\ UNCHANGED db
    /\ Goto("untrack")
    /\ UNCHANGED <<validation, chainLocks, txindex, queue, handler, pendingInstantSendLocks,
                   tracked, signing, removed>>

\* RemoveNonLockedTx and TruncateRecoveredSigsForInputs
Untrack ==
    /\ At("untrack")
    /\ tracked' = RemoveNonLockedTx(tracked, LockedTx, TRUE)
    /\ signing' = TruncateRecoveredSigsForInputs(signing, LockedTx)
    /\ Goto("collect")
    /\ UNCHANGED <<validation, chainLocks, txindex, queue, handler, db, pendings, removed>>

\* ResolveBlockConflicts: the mined transactions among those tracked as spending the
\* inputs of the islock.
MinedConflicts ==
    {t \in Txs \ {LockedTx} :
        /\ \E o \in Inputs[LockedTx] : tracked.byOutpoints[o] = t
        /\ tracked.nonLockedTxs[t] # None
        /\ tracked.nonLockedTxs[t].tx
        /\ tracked.nonLockedTxs[t].mined # None}

\* If one of their blocks has a ChainLock, the islock is removed.
CollectConflicts ==
    /\ At("collect")
    /\ LET conflicts == {<<t, tracked.nonLockedTxs[t].mined>> : t \in MinedConflicts}
       IN IF \E c \in conflicts : HasChainLock(c[2])
          THEN /\ Becomes([Now EXCEPT !.db = RemoveConflictingLock(@, Lock)])
               /\ Goto("mempool")
          ELSE /\ worker' = [worker EXCEPT
                     !.at = IF conflicts = {} THEN "mempool" ELSE "invalidate",
                     !.conflicts = conflicts]
               /\ UNCHANGED <<tip, failed, mempool, queue, db, removed>>
    /\ UNCHANGED <<known, chainLocks, txindex, handler, pendings, tracked, signing>>

\* The block of a conflict is invalidated; without the locked transaction it may be
\* connected again.
InvalidateConflict ==
    /\ At("invalidate")
    /\ \E c \in worker.conflicts :
         LET v == InvalidateBlock(Now, c[2])
             more == worker.conflicts \ {c}
             isLockedTxKnown == Lock \notin pendingNoTxInstantSendLocks
         IN /\ tracked' = RemoveConflicted(tracked, {c[1]})
            /\ signing' = DropRequests(signing, {c[1]})
            /\ Becomes(IF isLockedTxKnown THEN v ELSE ResetBlockFailureFlags(v, c[2]))
            /\ worker' = [worker EXCEPT !.conflicts = more,
                  !.at = IF more # {} THEN "invalidate"
                         ELSE IF isLockedTxKnown THEN "activate" ELSE "mempool"]
    /\ UNCHANGED <<known, chainLocks, txindex, handler, pendings>>

ReactivateChain ==
    /\ At("activate")
    /\ IF Better = {} THEN Becomes(Now) /\ Goto("mempool")
       ELSE /\ \E b \in Better : Becomes(ActivateBestChainStep(Now, b))
            /\ UNCHANGED worker
    /\ UNCHANGED <<known, chainLocks, txindex, handler, pendings, tracked, signing>>

\* RemoveMempoolConflictsForLock, if the locked transaction is known
RemoveMempoolConflictsForLock ==
    /\ At("mempool")
    /\ LET against == IF worker.found THEN ConflictsInMempool(Now, LockedTx) ELSE {}
       IN /\ Becomes(RemoveRecursive(Now, against))
          /\ tracked' = RemoveConflicted(tracked, against)
          /\ signing' = [DropRequests(signing, against) EXCEPT !.lockSigs = @ \cup {LockedTx}]
    /\ Continue
    /\ UNCHANGED <<known, chainLocks, txindex, handler, pendings>>

\* ProcessPendingRetryLockTxs, for one of the transactions
ProcessPendingRetryLockTx(t) ==
    /\ At("idle")
    /\ t \in tracked.retry
    /\ tracked.nonLockedTxs[t] # None /\ tracked.nonLockedTxs[t].tx
    /\ t \notin signing.creating
    /\ ~ IsLocked(db, t) /\ GetConflictingLock(db, t) = {}
    /\ signing' = ProcessTx(signing, t, FALSE)
    /\ UNCHANGED <<validation, chainLocks, txindex, queue, handler, db, pendings, tracked, worker,
                   removed>>

-----------------------------------------------------------------------------
Messages ==
    \/ \E t \in Txs : ReceiveTx(t) \/ LimitMempoolSize(t)
    \/ \E b \in Blocks : ReceiveBlock(b) \/ ProcessNewChainLock(b)
    \/ ActivateBestChain \/ EnforceBlock \/ NotifyChainLock
    \/ \E l \in Islocks : ProcessMessageInstantSendLock(l) \/ HandleNewInstantSendLockRecoveredSig(l)
    \/ \E l \in Islocks, o \in Outpoints : HandleNewInputLockRecoveredSig(o, l)
    \/ \E l \in Islocks : EvictCache(l)

Scheduler ==
    \/ TransactionAddedToMempool \/ TransactionOfIslockAdded \/ AddNonLocked
    \/ TransactionRemovedFromMempool \/ BlockConnected \/ BlockDisconnected
    \/ HandleFullyConfirmedBlock

WorkThread ==
    \/ ProcessPendingInstantSendLocks
    \/ \E l \in Islocks : ProcessInstantSendLock(l)
    \/ WriteLock \/ Untrack \/ CollectConflicts \/ InvalidateConflict \/ ReactivateChain
    \/ RemoveMempoolConflictsForLock
    \/ \E t \in Txs : ProcessPendingRetryLockTx(t)

Next == Messages \/ Scheduler \/ WorkThread

Spec == Init /\ [][Next]_vars

-----------------------------------------------------------------------------
\* No transaction in the mempool spends an input of a stored islock's transaction,
\* except while the thread d-isman is still working on that islock.
MempoolRespectsLocks ==
    \A l \in db.stored : \A t \in mempool :
        Conflicts(t, Txid[l]) =>
            worker.at \notin {"idle", "process", "write"} /\ worker.lock = l

\* The maps of tracked transactions, which RemoveNonLockedTx unlinks one from the
\* other, agree: a transaction to retry is tracked; the children of an entry are
\* tracked themselves, and an entry without a transaction stays only while it has
\* children; an outpoint leads to a tracked transaction that spends it.
TrackingConsistent ==
    LET Entry(t) == tracked.nonLockedTxs[t]
        here == {t \in TxIds : Entry(t) # None}
    IN /\ tracked.retry \subseteq here
       /\ \A t \in here : /\ Entry(t).children \subseteq {c \in here : Entry(c).tx}
                          /\ Entry(t).tx \/ Entry(t).children # {}
       /\ \A o \in Outpoints :
             LET t == tracked.byOutpoints[o]
             IN t # None => t \in here /\ Entry(t).tx /\ o \in Inputs[t]

\* An islock that was given up, because a ChainLock overruled it, its transaction left
\* the mempool or it was fully confirmed, is never stored again, however late a peer or
\* the thread d-isman delivers it.
RemovedStaysRemoved == db.stored \cap removed = {}

\* An islock drives a conflicting transaction out of the chain: when the thread
\* d-isman has looked for the blocks that conflict with it, every such block whose
\* BlockConnected was handled, and that has no ChainLock, is among those to invalidate.
Announced(b) ==
    /\ OnBlock("connected", b) \notin ToSet(queue)
    /\ handler = None \/ handler.block # b
IslockOverridesBlock ==
    [][worker.at = "collect" /\ worker'.at # "collect" =>
        \A b \in Chain[tip] :
            (\E t \in Vtx[b] : Conflicts(t, LockedTx)) /\ Announced(b) /\ ~ HasChainLock(b) =>
                \E c \in worker'.conflicts : c[2] = b]_vars
=============================================================================
