----------------------------- MODULE ChainLocks -----------------------------
(***************************************************************************)
(* CChainLocksHandler on top of the block index and the active chain: how  *)
(* a ChainLock (CLSIG) is taken in, how it is enforced, and when the node  *)
(* asks its quorum to sign a new one.                                      *)
(*                                                                         *)
(* Several threads are at work.  ProcessNewChainLock runs in the message   *)
(* handler, in the signing worker (HandleNewRecoveredSig) and in RPC; its  *)
(* critical sections under cs are separate steps here.  Enforcement and    *)
(* signing run one after the other on the scheduler thread "cl-schdlr".    *)
(* Headers and blocks come in, and the active chain moves, in between.     *)
(***************************************************************************)
EXTENDS ChainState

CONSTANTS Procs,      \* threads that may be in ProcessNewChainLock
          SporkValues \* values of SPORK_19_CHAINLOCKS_ENABLED in use

Sched == "cl-schdlr"

\* A quorum signs at most one block per height, and no lock was made against
\* another: the blocks with a valid CLSIG are on one chain.
ASSUME ChainLocksAssumption ==
  /\ \A e \in Environments : \A k, l \in e.locks : k \in Chain[l] \/ l \in Chain[k]
  /\ SporkValues \subseteq {"off", "enforce", "sign"}
  /\ Sched \notin Procs

VARIABLES
  spork,      \* the value of SPORK_19_CHAINLOCKS_ENABLED
  best,       \* the block of bestChainLock, known or not
  lastNotify, \* lastNotifyChainLockBlockIndex
  seen,       \* seenChainLocks
  lastSigned, \* lastSignedHeight, lastSignedRequestId and lastSignedMsgHash
  thread      \* what every thread is doing

handler == <<spork, best, lastNotify, seen, lastSigned, thread>>
allVars == <<vars, handler>>

Threads == Procs \cup {Sched}
Free == [at |-> "idle", block |-> None, known |-> FALSE]
ProcStates == {"idle", "reset", "go", "lookup", "set"}
SchedStates == {"idle", "reset", "go", "enforce", "check", "recheck", "notify", "trysign", "checktip", "sign"}

LockTypeOK ==
  /\ TypeOK
  /\ spork \in SporkValues
  /\ best \in Locks \cup {None}
  /\ lastNotify \in Locks \cup {None}
  /\ seen \subseteq Locks
  /\ lastSigned \in Blocks \cup {None}
  /\ thread \in [Threads -> [at : ProcStates \cup SchedStates,
                             block : Blocks \cup {None}, known : BOOLEAN]]

LockInit ==
  /\ EmptyIndex
  /\ isEnabled = FALSE
  /\ spork \in SporkValues
  /\ best = None
  /\ lastNotify = None
  /\ seen = {}
  /\ lastSigned = None
  /\ thread = [t \in Threads |-> Free]

\* CChainLockSig::getHeight, -1 for the null lock.
Higher(k, l) == k # None /\ (l # None => Height(k) > Height(l))

Goto(t, at) == thread' = [thread EXCEPT ![t].at = at]
Done(t) == thread' = [thread EXCEPT ![t] = Free]

-----------------------------------------------------------------------------
(***************************************************************************)
(* Every entry point begins with CheckActiveState.                         *)
(***************************************************************************)
Enabled == spork # "off"

CheckActiveState(t, block) ==
  /\ thread[t].at = "idle"
  /\ isEnabled' = Enabled
  /\ thread' = [thread EXCEPT ![t] =
       [at |-> IF ~isEnabled /\ Enabled THEN "reset" ELSE "go",
        block |-> block, known |-> FALSE]]
  /\ UNCHANGED <<received, scripts, marks, candidates, tip, act, lockBlock, env,
                 spork, best, lastNotify, seen, lastSigned>>

\* ChainLocks got activated: forget the stale ones, under cs.
ForgetLocks(t) ==
  /\ thread[t].at = "reset"
  /\ best' = None
  /\ lockBlock' = None
  /\ lastNotify' = None
  /\ Goto(t, "go")
  /\ UNCHANGED <<received, scripts, marks, candidates, tip, act, isEnabled, env,
                 spork, seen, lastSigned>>

-----------------------------------------------------------------------------
(***************************************************************************)
(* ProcessNewChainLock                                                     *)
(***************************************************************************)
ProcessNewChainLock(p, l) == CheckActiveState(p, l)

\* The quorum's signature for what this node last signed has been recovered.
HandleNewRecoveredSig(p) ==
  /\ isEnabled
  /\ lastSigned \in Locks
  /\ Higher(lastSigned, best)
  /\ CheckActiveState(p, lastSigned)

\* Mutant: locks that are not higher than the best one are taken in, too.
MutantTakeOlderLocks(p) ==
  /\ thread[p].at = "go"
  /\ seen' = seen \cup {thread[p].block}
  /\ IF thread[p].block \notin seen THEN Goto(p, "lookup") ELSE Done(p)
  /\ UNCHANGED <<vars, spork, best, lastNotify, lastSigned>>

\* First section under cs: a lock is looked at once, and only when it is higher
\* than the best one.
NoteSeen(p) ==
  /\ thread[p].at = "go"
  /\ seen' = seen \cup {thread[p].block}
  /\ IF thread[p].block \notin seen /\ Higher(thread[p].block, best)
     THEN Goto(p, "lookup") ELSE Done(p)
  /\ UNCHANGED <<vars, spork, best, lastNotify, lastSigned>>

\* VerifyChainLock and the lookup of the block, under cs_main.  The signature
\* cannot be verified when the quorum is not known yet.
Lookup(p) ==
  /\ thread[p].at = "lookup"
  /\ CsMainFree
  /\ \/ thread' = [thread EXCEPT ![p].at = "set", ![p].known = thread[p].block \in index]
     \/ Done(p)
  /\ UNCHANGED <<vars, spork, best, lastNotify, seen, lastSigned>>

\* Second section under cs: the lock is taken over.  Enforcement is scheduled
\* when the block is known.
SetBest(p) ==
  /\ thread[p].at = "set"
  /\ best' = thread[p].block
  /\ lockBlock' = IF thread[p].known THEN thread[p].block ELSE lockBlock
  /\ Done(p)
  /\ UNCHANGED <<received, scripts, marks, candidates, tip, act, isEnabled, env,
                 spork, lastNotify, seen, lastSigned>>

\* The header of the locked block comes in late: AcceptedBlockHeader is called
\* by AcceptBlockHeader while it holds cs_main.
AcceptedBlockHeader(b) ==
  /\ AcceptBlockHeader(b)
  /\ lockBlock' = IF b = best THEN b ELSE lockBlock
  /\ UNCHANGED <<isEnabled, env, handler>>

-----------------------------------------------------------------------------
(***************************************************************************)
(* The scheduler thread: CheckActiveState, EnforceBestChainLock and        *)
(* TrySignChainTip, every five seconds and after a new lock or tip.        *)
(***************************************************************************)
ScheduledTask == CheckActiveState(Sched, None)

\* EnforceBestChainLock reads the lock to enforce, ...
ReadBestChainLock ==
  /\ thread[Sched].at = "go"
  /\ IF isEnabled /\ lockBlock # None
     THEN thread' = [thread EXCEPT ![Sched].at = "enforce", ![Sched].block = lockBlock]
     ELSE Goto(Sched, "trysign")
  /\ UNCHANGED <<vars, spork, best, lastNotify, seen, lastSigned>>

\* ... marks the blocks that compete with it, ...
Enforce ==
  /\ thread[Sched].at = "enforce"
  /\ EnforceBlock(thread[Sched].block)
  /\ Goto(Sched, "check")
  /\ UNCHANGED <<spork, best, lastNotify, seen, lastSigned>>

\* Mutant: the chain is not activated.
MutantNoActivation ==
  /\ thread[Sched].at = "check"
  /\ CsMainFree
  /\ Goto(Sched, IF thread[Sched].block \in Chain[tip] THEN "notify" ELSE "trysign")
  /\ UNCHANGED <<vars, spork, best, lastNotify, seen, lastSigned>>

\* ... moves the active chain when it is not on the locked chain yet, ...
CheckActivationNeeded ==
  /\ thread[Sched].at = "check"
  /\ CsMainFree
  /\ \/ /\ thread[Sched].block \in Chain[tip]
        /\ Goto(Sched, "notify")
        /\ UNCHANGED vars
     \/ /\ thread[Sched].block \notin Chain[tip]
        /\ ActivateBestChain
        /\ Goto(Sched, "recheck")
  /\ UNCHANGED <<spork, best, lastNotify, seen, lastSigned>>

\* Mutant: the lock is announced whether or not the activation succeeded.
MutantNoRecheck ==
  /\ thread[Sched].at = "recheck"
  /\ Goto(Sched, "notify")
  /\ UNCHANGED <<vars, spork, best, lastNotify, seen, lastSigned>>

Recheck ==
  /\ thread[Sched].at = "recheck"
  /\ CsMainFree
  /\ Goto(Sched, IF thread[Sched].block \in Chain[tip] THEN "notify" ELSE "trysign")
  /\ UNCHANGED <<vars, spork, best, lastNotify, seen, lastSigned>>

\* Mutant: the tip is announced instead of the lock.
MutantNotifyTip ==
  /\ thread[Sched].at = "notify"
  /\ lastNotify' = tip
  /\ Goto(Sched, "trysign")
  /\ UNCHANGED <<vars, spork, best, seen, lastSigned>>

\* ... and announces the lock as enforced.
NotifyChainLock ==
  /\ thread[Sched].at = "notify"
  /\ lastNotify' = thread[Sched].block
  /\ Goto(Sched, "trysign")
  /\ UNCHANGED <<vars, spork, best, seen, lastSigned>>

\* TrySignChainTip: Cleanup may forget old entries of seenChainLocks; the tip is
\* read under cs_main ...
TrySignChainTip ==
  /\ thread[Sched].at = "trysign"
  /\ CsMainFree
  /\ \E old \in SUBSET seen : seen' = seen \ old
  /\ IF isEnabled /\ spork = "sign" /\ tip # Genesis
     THEN thread' = [thread EXCEPT ![Sched].at = "checktip", ![Sched].block = tip]
     ELSE Done(Sched)
  /\ UNCHANGED <<vars, spork, best, lastNotify, lastSigned>>

\* ... and checked under cs.  Transactions that are too young and not locked by
\* InstantSend can still stop it.
CheckTip ==
  /\ thread[Sched].at = "checktip"
  /\ \/ /\ lastSigned # None => Height(lastSigned) # Height(thread[Sched].block)
        /\ Higher(thread[Sched].block, best)
        /\ thread[Sched].block \notin Conflicting
        /\ Goto(Sched, "sign")
     \/ Done(Sched)
  /\ UNCHANGED <<vars, spork, best, lastNotify, seen, lastSigned>>

\* The height is checked once more and AsyncSignIfMember called.
SignTip ==
  /\ thread[Sched].at = "sign"
  /\ lastSigned' = IF Higher(thread[Sched].block, best)
                   THEN thread[Sched].block ELSE lastSigned
  /\ Done(Sched)
  /\ UNCHANGED <<vars, spork, best, lastNotify, seen>>

\* The spork keys' owner changes the value of spork 19.
ChangeSpork(v) ==
  /\ spork' = v
  /\ v # spork
  /\ UNCHANGED <<vars, best, lastNotify, seen, lastSigned, thread>>

-----------------------------------------------------------------------------
\* The other threads of the node; none of them touches the handler's state.
ChainStep ==
  /\ \/ \E b \in Blocks \ {Genesis} : AcceptHeaderOfInvalidChain(b)
     \/ \E b \in Blocks \ {Genesis} : AcceptConflictingHeader(b)
     \/ \E b \in Blocks \ {Genesis} : AcceptBlock(b)
     \/ ActivateBestChain
     \/ Activation
  /\ UNCHANGED handler

SchedStep ==
  \/ ForgetLocks(Sched)
  \/ ReadBestChainLock
  \/ Enforce
  \/ CheckActivationNeeded
  \/ Recheck
  \/ NotifyChainLock
  \/ TrySignChainTip
  \/ CheckTip
  \/ SignTip

ProcStep(p) ==
  \/ ForgetLocks(p)
  \/ NoteSeen(p)
  \/ Lookup(p)
  \/ SetBest(p)

LockNext ==
  \/ ChainStep
  \/ \E b \in Blocks \ {Genesis} : AcceptedBlockHeader(b)
  \/ ScheduledTask
  \/ SchedStep
  \/ \E p \in Procs, l \in Locks : ProcessNewChainLock(p, l)
  \/ \E p \in Procs : HandleNewRecoveredSig(p)
  \/ \E p \in Procs : ProcStep(p)
  \/ \E v \in SporkValues : ChangeSpork(v)

LockSpec == LockInit /\ [][LockNext]_allVars

\* The scheduler runs its periodic task again and again, a thread that holds
\* m_chainstate_mutex goes on, and ActivateBestChain is called after every
\* accepted block.
FairLockSpec ==
  /\ LockSpec
  /\ WF_allVars(ScheduledTask)
  /\ SF_allVars(SchedStep)
  /\ WF_allVars(Activation /\ UNCHANGED handler)

-----------------------------------------------------------------------------
(***************************************************************************)
(* Properties                                                              *)
(***************************************************************************)

\* Once a lock has been announced as enforced (NotifyChainLock), the active chain
\* never gets a block that competes with it, not even in the middle of a
\* reorganisation: the tip is above the locked block, or is an ancestor of it.
\* The latter lasts while ActivateBestChain holds cs_main, or until a newer lock
\* that came in meanwhile is enforced; as long as the announced lock is the best
\* one known, its block is on the active chain whenever cs_main can be taken.
NotifiedLockStays ==
  (isEnabled /\ lastNotify # None) =>
    \/ lastNotify \in Chain[tip]
    \/ tip \in Chain[lastNotify] /\ (CsMainFree => lockBlock # lastNotify)

\* The same without the exception for a newer lock.
NotifiedLockOnChain ==
  (CsMainFree /\ isEnabled /\ lastNotify # None) => lastNotify \in Chain[tip]

\* No block of the locked chain is ever marked as conflicting or failed, by
\* enforcement of this or an older lock or by a refused connection.
LockedChainUnmarked == lockBlock # None => Chain[lockBlock] \cap Unusable = {}

\* "no need to process/relay older CLSIGs": unless CheckActiveState forgets it,
\* the best lock is only ever replaced by a higher one.
BestLockOnlyRises ==
  [][(best # None /\ best' \notin {best, None}) => Higher(best', best)]_allVars

\* The lock that HasConflictingChainLock answers from is the best lock as soon
\* as the header of its block is known ("when the block or the header later
\* comes in, we will enforce the correct chain").
KnownLockTakenOver ==
  (best # None /\ best \in index) => lockBlock = best

\* "don't sign if another conflicting CLSIG is already present": when
\* TrySignChainTip lets a tip pass, it is on the chain of the lock known by then.
SignsOnLockedChain ==
  [][(thread[Sched].at = "checktip" /\ thread'[Sched].at = "sign" /\ lockBlock # None)
       => lockBlock \in Chain[thread[Sched].block]]_allVars

\* What the node signs is on the chain of the last lock that was announced as
\* enforced, although tip and locks are read under different mutexes.
SignsOnNotifiedChain ==
  [][(lastSigned' # lastSigned /\ lastNotify # None) => lastNotify \in Chain[lastSigned']]_allVars

\* CheckActiveState: "leaving us with some stale values which we should not try
\* to enforce anymore": once the locks have been forgotten, the scheduler is not
\* enforcing one of them.
NoStaleEnforcement ==
  (isEnabled /\ thread[Sched].at = "enforce") => lockBlock # None

\* A lock whose chain is downloaded gets onto the active chain, unless another
\* lock takes its place or ChainLocks are switched off.
LockGetsEnforced ==
  \A l \in UNION {e.locks : e \in Environments} :
    (lockBlock = l /\ Chain[l] \subseteq data)
      ~> (lockBlock # l \/ ~isEnabled \/ l \in Chain[tip])

=============================================================================
