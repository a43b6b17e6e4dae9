----------------------------- MODULE ChainState -----------------------------
(***************************************************************************)
(* The block index and the active chain of CChainState (validation.cpp):   *)
(* how headers and blocks are accepted, how ActivateBestChain moves the    *)
(* active chain, how invalid blocks and blocks that conflict with a        *)
(* ChainLock are marked, and how the marks are taken back.                 *)
(*                                                                         *)
(* Two locks order the threads.  m_chainstate_mutex is held for the whole  *)
(* of ActivateBestChain, InvalidateBlock and EnforceBlock; cs_main is      *)
(* given up by the first two between their steps, and that is where        *)
(* headers, blocks and RPC calls of other threads come in.                 *)
(***************************************************************************)
EXTENDS BlockTree, Functions

CONSTANTS Environments, \* what the node may meet, see Environment
          None

\* What surrounds the node, chosen once at the start.
Environment ==
  [badData       : SUBSET Blocks, \* blocks that fail CheckBlock/ContextualCheckBlock
   badBlocks     : SUBSET Blocks, \* blocks that fail ConnectBlock's consensus checks
   mayInvalidate : SUBSET (Blocks \ {Genesis}), \* blocks an InvalidateBlock call may name
   mayReconsider : SUBSET Blocks, \* blocks a reconsiderblock call may name
   locks         : SUBSET Blocks] \* blocks that may get a ChainLock

ASSUME ChainStateAssumption ==
  /\ Environments \subseteq Environment
  /\ None \notin Blocks

VARIABLES
  index,        \* m_block_index: the known headers
  data,         \* blocks with BLOCK_HAVE_DATA
  unlinked,     \* m_blocks_unlinked: blocks that wait for an ancestor's data
  seqId,        \* nSequenceId; 0 until all of the block's chain is downloaded
  scripts,      \* blocks raised to BLOCK_VALID_SCRIPTS: connected once
  failedValid,  \* blocks with BLOCK_FAILED_VALID
  failedChild,  \* blocks with BLOCK_FAILED_CHILD
  failedBlocks, \* m_failed_blocks
  conflict,     \* blocks with BLOCK_CONFLICT_CHAINLOCK
  candidates,   \* setBlockIndexCandidates
  tip,          \* m_chain.Tip()
  act,          \* the thread that holds m_chainstate_mutex
  lockBlock,    \* CChainLocksHandler::bestChainLockBlockIndex
  isEnabled,    \* CChainLocksHandler::isEnabled
  env           \* the environment of this behaviour; never changes

marks == <<failedValid, failedChild, failedBlocks, conflict>>
received == <<index, data, unlinked, seqId>>
locks == <<lockBlock, isEnabled, env>>
vars == <<received, scripts, marks, candidates, tip, act, locks>>

BadData == env.badData
BadBlocks == env.badBlocks
Locks == env.locks

Failed == failedValid \cup failedChild
Unusable == Failed \cup conflict

\* The blocks for which CBlockIndex::IsValid() is FALSE: failed ones, and those
\* whose data has not come.
NotValid == Failed \cup (index \ data)

\* CBlockIndex::HaveTxsDownloaded
Linked(sid) == {b \in Blocks : sid[b] > 0}

\* CBlockIndexWorkComparator: a sorts before b.
Worse(sid, a, b) ==
  \/ Height(a) < Height(b)
  \/ Height(a) = Height(b) /\ sid[a] > sid[b]

\* Fully downloaded blocks that carry no mark and are no worse than t.
EligibleFor(t, bad) ==
  {b \in index \cap Linked(seqId) : b \notin bad /\ ~Worse(seqId, b, t)}

Idle == [at |-> "idle"]

\* The thread in ActivateBestChain or EnforceBlock holds cs_main.
CsMainFree == act.at \in {"idle", "wait", "disconnect"}
MutexFree == act.at = "idle"

Acts ==
  {Idle} \cup
  [at : {"wait"}, mostWork : Blocks \cup {None}] \cup
  [at : {"connect"}, mostWork : Blocks, start : Blocks, oldTip : Blocks] \cup
  [at : {"select"}, mostWork : Blocks \cup {None}, start : Blocks] \cup
  [at : {"reset"}, block : Blocks] \cup
  [at : {"disconnect"}, block : Blocks, last : Blocks, byWork : SUBSET Blocks]

TypeOK ==
  /\ index \subseteq Blocks
  /\ data \subseteq index
  /\ unlinked \subseteq data
  /\ seqId \in [Blocks -> 0..Cardinality(Blocks)]
  /\ scripts \subseteq Linked(seqId)
  /\ Failed \subseteq index
  /\ failedBlocks \subseteq index
  /\ conflict \subseteq index
  /\ candidates \subseteq index
  /\ tip \in index
  /\ act \in Acts
  /\ lockBlock \in Locks \cup {None}
  /\ isEnabled \in BOOLEAN
  /\ env \in Environments

\* The block index right after LoadGenesisBlock, and no ChainLock.
EmptyIndex ==
  /\ index = {Genesis}
  /\ data = {Genesis}
  /\ unlinked = {}
  /\ seqId = [b \in Blocks |-> IF b = Genesis THEN 1 ELSE 0]
  /\ scripts = {Genesis}
  /\ failedValid = {}
  /\ failedChild = {}
  /\ failedBlocks = {}
  /\ conflict = {}
  /\ candidates = {Genesis}
  /\ tip = Genesis
  /\ act = Idle
  /\ lockBlock = None
  /\ env \in Environments

\* Mutant: the check is switched off.
MutantNeverConflicting == {}

\* CChainLocksHandler::HasConflictingChainLock: the blocks it answers TRUE for.
Conflicting ==
  IF isEnabled /\ lockBlock # None THEN ConflictsWith(lockBlock) ELSE {}

-----------------------------------------------------------------------------
(***************************************************************************)
(* Headers and blocks from the network.                                    *)
(***************************************************************************)

\* AcceptBlockHeader of a block whose parent is known and carries no mark.
NewHeader(b) ==
  /\ CsMainFree
  /\ b \notin index
  /\ Parent[b] \in index \ Unusable

\* The known invalid blocks below a new header, looked up only when the parent
\* has not been connected yet.
InvalidBelow(b) ==
  IF Parent[b] \in scripts THEN {} ELSE failedBlocks \cap Chain[Parent[b]]

\* The header is refused, and the blocks between its parent and the invalid
\* block that was found are marked.
AcceptHeaderOfInvalidChain(b) ==
  /\ NewHeader(b)
  /\ \E f \in InvalidBelow(b) :
       failedChild' = failedChild \cup (Chain[Parent[b]] \ Chain[f])
  /\ UNCHANGED <<received, scripts, failedValid, failedBlocks, conflict,
                 candidates, tip, act, locks>>

\* The header is refused but kept in the index with BLOCK_CONFLICT_CHAINLOCK.
AcceptConflictingHeader(b) ==
  /\ NewHeader(b)
  /\ InvalidBelow(b) = {}
  /\ b \in Conflicting
  /\ index' = index \cup {b}
  /\ conflict' = conflict \cup {b}
  /\ UNCHANGED <<data, unlinked, seqId, scripts, failedValid, failedChild,
                 failedBlocks, candidates, tip, act, locks>>

AcceptBlockHeader(b) ==
  /\ NewHeader(b)
  /\ InvalidBelow(b) = {}
  /\ b \notin Conflicting
  /\ index' = index \cup {b}
  /\ UNCHANGED <<data, unlinked, seqId, scripts, marks, candidates, tip, act>>

\* CheckBlock or ContextualCheckBlock fails: the block is marked but not put
\* into m_failed_blocks.
AcceptBadBlock(b) ==
  /\ CsMainFree
  /\ b \in (index \cap BadData) \ (data \cup Unusable)
  /\ failedValid' = failedValid \cup {b}
  /\ UNCHANGED <<received, scripts, failedChild, failedBlocks, conflict,
                 candidates, tip, act, locks>>

\* ReceivedBlockTransactions when all ancestors are there: the block and the
\* unlinked descendants that hang on it are numbered in the order the queue
\* visits them, level by level.
Unblocked(b) ==
  {b} \cup {x \in unlinked : b \in Chain[x] /\ Chain[x] \ Chain[b] \subseteq unlinked}

VisitOrders(S) ==
  {f \in Bijection(S, 1..Cardinality(S)) :
     \A x, y \in S : Height(x) < Height(y) => f[x] < f[y]}

LinkBlocks(b) ==
  \E order \in VisitOrders(Unblocked(b)) :
    /\ seqId' = [x \in Blocks |-> IF x \in Unblocked(b)
                                  THEN Cardinality(Linked(seqId)) + order[x]
                                  ELSE seqId[x]]
    /\ candidates' = candidates \cup
         {x \in Unblocked(b) \ conflict : ~Worse(seqId', x, tip)}
    /\ unlinked' = unlinked \ Unblocked(b)

\* AcceptBlock for a block whose header has been accepted.
AcceptBlock(b) ==
  /\ CsMainFree
  /\ b \in index \ (data \cup Unusable \cup BadData)
  /\ data' = data \cup {b}
  /\ \/ /\ Parent[b] \in Linked(seqId)
        /\ LinkBlocks(b)
     \/ /\ Parent[b] \notin Linked(seqId)
        /\ unlinked' = unlinked \cup (IF Parent[b] \in Failed THEN {} ELSE {b})
        /\ UNCHANGED <<seqId, candidates>>
  /\ UNCHANGED <<index, scripts, marks, tip, act, locks>>

-----------------------------------------------------------------------------
(***************************************************************************)
(* ActivateBestChain                                                       *)
(***************************************************************************)

\* Mutant: failure marks on the way to the active chain are not looked at.
MutantOnlyConflicts(c) == (Chain[c] \ Chain[tip]) \cap conflict

\* FindMostWorkChain: the best candidate with no mark on its way to the active
\* chain.  Every better candidate is dropped, and the blocks of its path above
\* the highest marked block take over the kind of that mark.
MarkedOnPath(c) == (Chain[c] \ Chain[tip]) \cap Unusable
Usable == {c \in candidates : MarkedOnPath(c) = {}}

MostWork ==
  IF Usable = {} THEN None
  ELSE CHOOSE c \in Usable : \A x \in Usable : ~Worse(seqId, c, x)

Rejected ==
  {c \in candidates \ Usable : MostWork # None => Worse(seqId, MostWork, c)}

TopMark(c) == Highest(MarkedOnPath(c))
AboveMark(c) == Chain[c] \ Chain[TopMark(c)]

FindMostWorkChain ==
  /\ failedChild' = failedChild \cup
       UNION {AboveMark(c) : c \in {x \in Rejected : TopMark(x) \in Failed}}
  /\ conflict' = conflict \cup
       UNION {AboveMark(c) : c \in {x \in Rejected : TopMark(x) \notin Failed}}
  /\ candidates' = candidates \
       UNION {AboveMark(c) \cup {TopMark(c)} : c \in Rejected}

\* Take m_chainstate_mutex.
ActivateBestChain ==
  /\ MutexFree
  /\ act' = [at |-> "wait", mostWork |-> None]
  /\ UNCHANGED <<received, scripts, marks, candidates, tip, locks>>

\* Take cs_main for one more round.
ActivateRound ==
  /\ act.at = "wait"
  /\ act' = [at |-> "select", mostWork |-> act.mostWork, start |-> tip]
  /\ UNCHANGED <<received, scripts, marks, candidates, tip, locks>>

\* Mutant: cs_main is released as soon as a step is over.
MutantReleaseAtOnce(newTip, mostWork, start) ==
  IF newTip = mostWork THEN Idle ELSE [at |-> "wait", mostWork |-> mostWork]

\* What the inner loop does once blocks have been connected or given up: go on
\* while the tip is worse than where the round started, else release cs_main,
\* and return when the tip is the one that was aimed at.
AfterStep(newTip, mostWork, start) ==
  IF Worse(seqId, newTip, start)
  THEN [at |-> "select", mostWork |-> mostWork, start |-> start]
  ELSE IF newTip = mostWork THEN Idle ELSE [at |-> "wait", mostWork |-> mostWork]

\* Choose the chain to move to and disconnect the blocks that are not on it.
\* In a round that finds nothing to do the tip is still at its start, unless an
\* earlier step of the round has moved it.
ActivateSelect ==
  /\ act.at = "select"
  /\ IF act.mostWork = None THEN FindMostWorkChain
                            ELSE UNCHANGED <<failedChild, conflict, candidates>>
  /\ LET aim == IF act.mostWork = None THEN MostWork ELSE act.mostWork
     IN \/ /\ aim \in {None, tip}
           /\ act' = IF tip = act.start \/ aim = tip THEN Idle
                     ELSE [at |-> "wait", mostWork |-> None]
           /\ UNCHANGED tip
        \/ /\ aim \notin {None, tip}
           /\ tip' = Fork(tip, aim)
           /\ act' = [at |-> "connect", mostWork |-> aim, start |-> act.start,
                      oldTip |-> tip]
  /\ UNCHANGED <<received, scripts, failedValid, failedBlocks, locks>>

NextToConnect == CHOOSE b \in Children(tip) : b \in Chain[act.mostWork]

\* InvalidBlockFound: ConnectBlock refused the block, for a consensus rule or
\* because it conflicts with the best ChainLock.
ConnectFails ==
  /\ act.at = "connect"
  /\ NextToConnect \in BadBlocks \cup Conflicting
  /\ failedValid' = failedValid \cup {NextToConnect}
  /\ failedBlocks' = failedBlocks \cup {NextToConnect}
  /\ candidates' = candidates \ {NextToConnect}
  /\ act' = AfterStep(tip, None, act.start)
  /\ UNCHANGED <<received, scripts, failedChild, conflict, tip, locks>>

\* Mutant: the tip is pruned too.
MutantPruneTip(t) == {c \in candidates : Worse(seqId, t, c)}

\* PruneBlockIndexCandidates
PruneBlockIndexCandidates(t) == {c \in candidates : ~Worse(seqId, c, t)}

\* ConnectTip succeeds; the step ends at the goal, or as soon as the chain has
\* more work than before.
ConnectTip ==
  /\ act.at = "connect"
  /\ NextToConnect \notin BadBlocks \cup Conflicting
  /\ tip' = NextToConnect
  /\ scripts' = scripts \cup {NextToConnect}
  /\ candidates' = PruneBlockIndexCandidates(NextToConnect)
  /\ act' = IF NextToConnect = act.mostWork \/ Height(NextToConnect) > Height(act.oldTip)
            THEN AfterStep(NextToConnect, act.mostWork, act.start)
            ELSE act
  /\ UNCHANGED <<received, marks, locks>>

-----------------------------------------------------------------------------
(***************************************************************************)
(* Marking blocks and taking marks back.                                   *)
(***************************************************************************)

\* Mutant: the enforced block itself is not spared.
MutantSiblingsAndSelf(b) ==
  {x \in index : \E w \in Chain[b] \ Chain[tip] : x \in Children(Parent[w])}

\* EnforceBlock: on the way from b down to the active chain every sibling of a
\* block of b's chain is given to MarkConflictingBlock.  The one on the active
\* chain takes the blocks above it with it.  Blocks that are good enough for
\* the lowered tip become candidates again.
Siblings(b) ==
  {x \in index \ Chain[b] : \E w \in Chain[b] \ Chain[tip] : x \in Children(Parent[w])}

\* Mutants: the blocks next in line are not made candidates; the conflicting
\* part of the active chain is not disconnected.
MutantEnforceNoCandidates(b) ==
  /\ MutexFree
  /\ b \in index
  /\ LET disconnected == {x \in Chain[tip] : Chain[x] \cap Siblings(b) # {}}
     IN /\ conflict' = conflict \cup Siblings(b) \cup disconnected
        /\ tip' = IF disconnected = {} THEN tip ELSE Fork(tip, b)
        /\ candidates' = candidates \ (Siblings(b) \cup disconnected)
  /\ UNCHANGED <<received, scripts, failedValid, failedChild, failedBlocks, act, locks>>

MutantEnforceNoDisconnect(b) ==
  /\ MutexFree
  /\ b \in index
  /\ conflict' = conflict \cup Siblings(b)
  /\ UNCHANGED <<received, scripts, failedValid, failedChild, failedBlocks, act,
                 locks, tip, candidates>>

EnforceBlock(b) ==
  /\ MutexFree
  /\ b \in index
  /\ LET marked == Siblings(b)
         disconnected == {x \in Chain[tip] : Chain[x] \cap marked # {}}
         newTip == IF disconnected = {} THEN tip ELSE Fork(tip, b)
     IN /\ conflict' = conflict \cup marked \cup disconnected
        /\ tip' = newTip
        /\ candidates' = IF marked = {} THEN candidates
                         ELSE (candidates \ (marked \cup disconnected)) \cup
                              EligibleFor(newTip, Failed \cup conflict')
  /\ act' = IF b \in NotValid THEN [at |-> "reset", block |-> b] ELSE Idle
  /\ UNCHANGED <<received, scripts, failedValid, failedChild, failedBlocks, locks>>

\* Mutant: siblings keep a failure mark without a root.
MutantResetNoPromotion(b, ignoreChainLocks) ==
  LET cleared == {x \in Failed : b \in Chain[x] \/ x \in Chain[b]}
  IN /\ failedChild' = failedChild \ cleared
     /\ failedValid' = failedValid \ cleared
     /\ failedBlocks' = failedBlocks \ cleared
     /\ UNCHANGED <<conflict, candidates>>

\* ResetBlockFailureFlags: the failure marks of b, its descendants and its
\* ancestors go; children of a cleared ancestor that were invalid only because
\* of it become roots of invalidity themselves.
ResetBlockFailureFlags(b, ignoreChainLocks) ==
  LET below == {x \in NotValid : b \in Chain[x]}
      conflicting == IF ignoreChainLocks THEN conflict \ below ELSE conflict
      above == Chain[b] \cap ((Failed \ below) \cup conflicting)
      cleared == below \cup above
      promoted == {x \in failedChild \ cleared : Parent[x] \in above}
  IN /\ failedChild' = failedChild \ cleared
     /\ failedValid' = (failedValid \ cleared) \cup promoted
     /\ failedBlocks' = (failedBlocks \ cleared) \cup promoted
     /\ conflict' = IF ignoreChainLocks THEN conflict \ cleared ELSE conflict
     /\ candidates' = (candidates \ promoted) \cup
          {x \in (cleared \cap Linked(seqId)) \ conflict' : Worse(seqId, tip, x)}

\* The end of EnforceBlock, when the enforced block is marked invalid or its data
\* has not come.
EnforceReset ==
  /\ act.at = "reset"
  /\ ResetBlockFailureFlags(act.block, FALSE)
  /\ act' = Idle
  /\ UNCHANGED <<received, scripts, tip, locks>>

\* reconsiderblock takes cs_main only.
ReconsiderBlock(b) ==
  /\ CsMainFree
  /\ b \in index
  /\ \E ignoreChainLocks \in BOOLEAN : ResetBlockFailureFlags(b, ignoreChainLocks)
  /\ UNCHANGED <<received, scripts, tip, act, locks>>

\* InvalidateBlock notes the blocks that may have to become candidates, ...
InvalidateBlock(b) ==
  /\ MutexFree
  /\ b \in index
  /\ act' = [at |-> "disconnect", block |-> b, last |-> b,
             byWork |-> EligibleFor(Parent[b], Failed) \ Chain[tip]]
  /\ UNCHANGED <<received, scripts, marks, candidates, tip, locks>>

\* ... disconnects one block each time it holds cs_main, ...
InvalidateDisconnect ==
  /\ act.at = "disconnect"
  /\ act.block \in Chain[tip]
  /\ tip' = Parent[tip]
  /\ LET added == {x \in act.byWork : ~Worse(seqId, x, Parent[tip])}
         flipped == {act.last} \cap {Parent[tip]} \cap failedValid
     IN /\ candidates' = (candidates \ {tip}) \cup {Parent[tip]} \cup added
        /\ failedValid' = (failedValid \cup {tip}) \ flipped
        /\ failedChild' = failedChild \cup flipped
        /\ act' = [act EXCEPT !.last = tip, !.byWork = @ \ added]
  /\ UNCHANGED <<received, scripts, failedBlocks, conflict, locks>>

\* ... and records the lowest disconnected block, or b when it was not on the
\* active chain, as invalid.
InvalidateFinish ==
  /\ act.at = "disconnect"
  /\ act.block \notin Chain[tip]
  /\ failedValid' = failedValid \cup {act.last}
  /\ failedBlocks' = failedBlocks \cup {act.last}
  /\ candidates' = (candidates \ {act.last}) \cup
                   EligibleFor(tip, Failed \cup {act.last} \cup conflict)
  /\ act' = Idle
  /\ UNCHANGED <<received, scripts, failedChild, conflict, tip, locks>>

-----------------------------------------------------------------------------
\* A higher ChainLock on a known header becomes the one that
\* HasConflictingChainLock answers from.
NewLock(l) ==
  /\ l \in index
  /\ lockBlock # None => Height(lockBlock) < Height(l)
  /\ lockBlock' = l
  /\ UNCHANGED <<received, scripts, marks, candidates, tip, act, isEnabled, env>>

\* The threads that hold m_chainstate_mutex go on.
Activation ==
  \/ ActivateRound
  \/ ActivateSelect
  \/ ConnectFails
  \/ ConnectTip
  \/ EnforceReset
  \/ InvalidateDisconnect
  \/ InvalidateFinish

Next ==
  \/ \E b \in Blocks \ {Genesis} : AcceptHeaderOfInvalidChain(b)
  \/ \E b \in Blocks \ {Genesis} : AcceptConflictingHeader(b)
  \/ \E b \in Blocks \ {Genesis} : AcceptBlockHeader(b) /\ UNCHANGED locks
  \/ \E b \in Blocks \ {Genesis} : AcceptBadBlock(b)
  \/ \E b \in Blocks \ {Genesis} : AcceptBlock(b)
  \/ ActivateBestChain
  \/ Activation
  \/ \E b \in env.mayInvalidate : InvalidateBlock(b)
  \/ \E b \in env.mayReconsider : ReconsiderBlock(b)
  \/ \E l \in Locks : NewLock(l)
  \/ lockBlock # None /\ EnforceBlock(lockBlock)

\* The ChainLocks handler has made its first CheckActiveState.
Init == EmptyIndex /\ isEnabled = TRUE

Spec == Init /\ [][Next]_vars

-----------------------------------------------------------------------------
(***************************************************************************)
(* Properties                                                              *)
(***************************************************************************)

\* CheckBlockIndex: "The failed mask cannot be set for blocks without invalid
\* parents": whatever combination of failed connections, invalidateblock,
\* reconsiderblock and enforcement ran, each marked block has an ancestor (or
\* itself) with BLOCK_FAILED_VALID.  AcceptBlockHeader asserts that flag of
\* everything it finds in m_failed_blocks, which is updated in other places.
FailedHaveInvalidRoot ==
  CsMainFree => /\ \A b \in Failed : Chain[b] \cap failedValid # {}
                /\ failedBlocks \subseteq failedValid

\* CheckBlockIndex: a fully downloaded block that is at least as good as the
\* tip, with no mark on its chain, is a candidate, and so is the tip itself; a
\* block that sorts worse than the tip, or lacks data of an ancestor, is none.
CandidatesExact ==
  CsMainFree =>
    /\ act.at # "disconnect" =>
         \A b \in index \cap Linked(seqId) :
           (~Worse(seqId, b, tip) /\ Chain[b] \cap (failedValid \cup conflict) = {})
             => b \in candidates
    /\ \A c \in candidates : c \in Linked(seqId) /\ ~Worse(seqId, c, tip)

\* CheckBlockIndex: a block that has data but whose ancestor's data never came
\* waits in m_blocks_unlinked, unless its chain is invalid.
WaitingAreUnlinked ==
  CsMainFree =>
    \A b \in data \ Linked(seqId) : Chain[b] \cap failedValid = {} => b \in unlinked

\* No block of the active chain carries a failure or conflict mark while
\* cs_main is free.
ActiveChainUnmarked == CsMainFree => Chain[tip] \cap Unusable = {}

\* The round of ActivateBestChain that ends with this step releases cs_main.
RoundEnds == act.at \in {"connect", "select"} /\ act'.at \in {"idle", "wait"}

\* "We absolutely may not unlock cs_main until we've made forward progress":
\* a round that ends below where it started had no way back, because a block of
\* the chain it started on is refused by now.
RoundsMakeProgress ==
  [][RoundEnds /\ Worse(seqId, tip', act.start) =>
       Chain[act.start] \cap (failedValid' \cup conflict' \cup Conflicting) # {}]_vars

\* InvalidateBlock: "We only want to mark the last disconnected block as
\* BLOCK_FAILED_VALID; its children need to be BLOCK_FAILED_CHILD instead."
OnlyLastDisconnectedInvalid ==
  [][act.at = "disconnect" /\ act'.at = "idle" =>
       \A x \in failedValid' \ BadBlocks : act.last \in Chain[x] => x = act.last]_vars

=============================================================================
