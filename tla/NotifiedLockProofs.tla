------------------------- MODULE NotifiedLockProofs --------------------------
(***************************************************************************)
(* The tip and the locks that have been announced to the listeners of      *)
(* NotifyChainLock: with one thread at a time in ProcessNewChainLock and   *)
(* an enabled handler, the active chain never leaves an announced lock for *)
(* another chain.                                                          *)
(***************************************************************************)
EXTENDS ChainLocksProofs

\* A leaf is given to Zenon unless it names another prover.
USE ZenonT(30)

\* The scheduler is enforcing a lock it has read.
Enforcing == thread[Sched].at \in {"enforce", "check", "recheck", "notify"}

\* The only reset is the one of the first CheckActiveState.
StartupInv ==
  /\ ~isEnabled => /\ \A t \in Threads : thread[t].at = "idle"
                   /\ best = None /\ lockBlock = None /\ lastNotify = None
  /\ (\E p \in Procs : thread[p].at = "reset") =>
       /\ best = None /\ lockBlock = None /\ lastNotify = None
       /\ ~Enforcing /\ thread[Sched].at # "reset"
  /\ thread[Sched].at = "reset" => lastNotify = None

\* Locks that are known, being enforced and announced follow each other on one
\* chain.
OrderInv ==
  /\ lockBlock # None => best # None /\ Height(lockBlock) <= Height(best)
  /\ lastNotify # None => lockBlock # None /\ lastNotify \in Chain[lockBlock]
  /\ Enforcing => /\ lockBlock # None
                  /\ thread[Sched].block \in Chain[lockBlock]
                  /\ lastNotify # None => lastNotify \in Chain[thread[Sched].block]

\* The locks that are announced, or about to be.
Held == ({lastNotify} \ {None}) \cup
        (IF thread[Sched].at = "notify" THEN {thread[Sched].block} ELSE {})

OnOneChain(a, b) == a \in Chain[b] \/ b \in Chain[a]

\* The tip, and a tip that may be signed, is on one chain with them.
TipInv ==
  /\ \A n \in Held : OnOneChain(n, tip)
  /\ (thread[Sched].at \in {"checktip", "sign"} /\ lastNotify # None)
       => OnOneChain(lastNotify, thread[Sched].block)

NotifyInv == RiseInv /\ StartupInv /\ OrderInv /\ TipInv

\* There is an unmarked candidate at or above x.
Home(x) == \E h \in candidates : x \in Chain[h] /\ Chain[h] \cap Unusable = {}

\* The tip has a home, unless it has to leave for the locked chain first.
TipHome == Home(tip) \/ (lockBlock # None /\ lockBlock \notin Chain[tip])

\* An announced lock that is the best one has a home, and is on the active chain
\* or, during a round, on the chain the round started from.
HeldInv ==
  \A n \in Held : n = lockBlock =>
    /\ Home(n)
    /\ n \in Chain[IF act.at \in {"select", "connect"} THEN act.start ELSE tip]

ExactInv == TipHome /\ HeldInv

-----------------------------------------------------------------------------
(***************************************************************************)
(* What the scheduler and the other threads do to the locks                *)
(***************************************************************************)

\* One step of the scheduler thread.
LEMMA SchedIs ==
  ASSUME ChainInv, HandlerType, SchedStep
  PROVE LET at == thread[Sched].at
            nextAt == thread'[Sched].at
            block == thread[Sched].block
            nextBlock == thread'[Sched].block
        IN /\ \A p \in Procs : thread'[p] = thread[p]
           /\ isEnabled' = isEnabled
           /\ \/ /\ at = "reset" /\ nextAt = "go"
                 /\ best' = None /\ lockBlock' = None /\ lastNotify' = None
                 /\ UNCHANGED <<received, marks, candidates, tip, act>>
              \/ /\ UNCHANGED <<best, lockBlock, lastNotify>>
                 /\ nextBlock = block
                 /\ \/ at = "enforce" /\ nextAt = "check" /\ EnforceBlock(block)
                    \/ at = "check" /\ nextAt = "recheck" /\ ActivateBestChain
              \/ /\ UNCHANGED <<best, lockBlock, lastNotify, received, marks, candidates, tip, act>>
                 /\ \/ at = "go" /\ nextAt = "enforce" /\ lockBlock # None /\ nextBlock = lockBlock
                    \/ at = "go" /\ nextAt = "trysign"
                    \/ /\ at \in {"check", "recheck"} /\ nextAt = "notify"
                       /\ nextBlock = block /\ block \in Chain[tip] /\ CsMainFree
                    \/ at = "recheck" /\ nextAt = "trysign"
                    \/ at = "trysign" /\ nextAt = "checktip" /\ nextBlock = tip
                    \/ at \in {"trysign", "checktip", "sign"} /\ nextAt = "idle"
                    \/ at = "checktip" /\ nextAt = "sign" /\ nextBlock = block
              \/ /\ at = "notify" /\ nextAt = "trysign" /\ lastNotify' = block
                 /\ UNCHANGED <<best, lockBlock, received, marks, candidates, tip, act>>
<1> USE DEF SchedStates
<1>1. Sched \in Threads /\ \A p \in Procs : p \in Threads \ {Sched}
  BY LocksAre
<1>2. ASSUME NEW a \in ProcStates \cup SchedStates, Goto(Sched, a)
      PROVE /\ \A p \in Procs : thread'[p] = thread[p]
            /\ thread'[Sched].at = a /\ thread'[Sched].block = thread[Sched].block
  BY <1>1, <1>2, GotoIs
<1>3. ASSUME Done(Sched)
      PROVE (\A p \in Procs : thread'[p] = thread[p]) /\ thread'[Sched].at = "idle"
  BY <1>1, <1>3, DoneIs
<1>4. ASSUME NEW a \in ProcStates \cup SchedStates, NEW b \in Blocks \cup {None},
             thread' = [thread EXCEPT ![Sched].at = a, ![Sched].block = b]
      PROVE /\ \A p \in Procs : thread'[p] = thread[p]
            /\ thread'[Sched].at = a /\ thread'[Sched].block = b
  BY <1>1, <1>4 DEF HandlerType
<1>5. CASE ForgetLocks(Sched)
  BY <1>5, <1>2 DEF ForgetLocks
<1>6. CASE ReadBestChainLock
  <2>1. UNCHANGED <<best, lockBlock, lastNotify, received, marks, candidates, tip, act, isEnabled>>
    BY <1>6 DEF ReadBestChainLock, vars, locks
  <2>2. lockBlock \in Blocks \cup {None}
    BY LocksAre DEF HandlerType, LockBlockType
  <2>3. CASE isEnabled /\ lockBlock # None
    <3>1. thread' = [thread EXCEPT ![Sched].at = "enforce", ![Sched].block = lockBlock]
      BY <1>6, <2>3 DEF ReadBestChainLock
    <3>2. /\ \A p \in Procs : thread'[p] = thread[p]
          /\ thread'[Sched].at = "enforce" /\ thread'[Sched].block = lockBlock
      BY <3>1, <2>2, <1>1 DEF HandlerType
    <3> QED
      BY <1>6, <2>1, <2>3, <3>2 DEF ReadBestChainLock
  <2>4. CASE ~(isEnabled /\ lockBlock # None)
    BY <1>6, <2>1, <2>4, <1>2 DEF ReadBestChainLock
  <2> QED
    BY <2>3, <2>4
<1>7. CASE Enforce
  BY <1>7, <1>2 DEF Enforce, EnforceBlock, locks
<1>8. CASE CheckActivationNeeded
  <2>1. CASE ActivateBestChain /\ Goto(Sched, "recheck")
    BY <1>8, <2>1, <1>2 DEF CheckActivationNeeded, ActivateBestChain, locks
  <2>2. CASE UNCHANGED vars /\ Goto(Sched, "notify") /\ thread[Sched].block \in Chain[tip]
    BY <1>8, <2>2, <1>2 DEF CheckActivationNeeded, vars, locks
  <2> QED
    BY <1>8, <2>1, <2>2 DEF CheckActivationNeeded
<1>9. CASE Recheck
  BY <1>9, <1>2 DEF Recheck, vars, locks
<1>10. CASE NotifyChainLock
  BY <1>10, <1>2 DEF NotifyChainLock, vars, locks
<1>11. CASE TrySignChainTip
  <2>1. UNCHANGED <<best, lockBlock, lastNotify, received, marks, candidates, tip, act, isEnabled>>
    BY <1>11 DEF TrySignChainTip, vars, locks
  <2>2. CASE isEnabled /\ spork = "sign" /\ tip # Genesis
    <3>1. thread' = [thread EXCEPT ![Sched].at = "checktip", ![Sched].block = tip]
      BY <1>11, <2>2 DEF TrySignChainTip
    <3>2. tip \in Blocks
      BY StoredChains DEF ChainInv
    <3>3. /\ \A p \in Procs : thread'[p] = thread[p]
          /\ thread'[Sched].at = "checktip" /\ thread'[Sched].block = tip
      BY <3>1, <3>2, <1>1 DEF HandlerType
    <3> QED
      BY <1>11, <2>1, <3>3 DEF TrySignChainTip
  <2>3. CASE ~(isEnabled /\ spork = "sign" /\ tip # Genesis)
    BY <1>11, <2>1, <2>3, <1>3 DEF TrySignChainTip
  <2> QED
    BY <2>2, <2>3
<1>12. CASE CheckTip
  BY <1>12, <1>2, <1>3 DEF CheckTip, vars, locks
<1>13. CASE SignTip
  BY <1>13, <1>3 DEF SignTip, vars, locks
<1> QED
  BY <1>5, <1>6, <1>7, <1>8, <1>9, <1>10, <1>11, <1>12, <1>13 DEF SchedStep

\* One step of a thread in ProcessNewChainLock.
LEMMA ProcIs ==
  ASSUME ChainInv, HandlerType, NEW p \in Procs, ProcStep(p)
  PROVE /\ \A u \in Threads \ {p} : thread'[u] = thread[u]
        /\ isEnabled' = isEnabled
        /\ UNCHANGED <<received, marks, candidates, tip, act>>
        /\ \/ /\ thread[p].at = "reset" /\ thread'[p].at = "go"
              /\ best' = None /\ lockBlock' = None /\ lastNotify' = None
           \/ /\ thread[p].at \in {"go", "lookup"}
              /\ thread'[p].at \in {"idle", "lookup", "set"}
              /\ UNCHANGED <<best, lockBlock, lastNotify>>
           \/ /\ thread[p].at = "set" /\ thread'[p].at = "idle"
              /\ best' = thread[p].block
              /\ lockBlock' \in {lockBlock, thread[p].block}
              /\ UNCHANGED lastNotify
<1> USE DEF ProcStates
<1>1. p \in Threads
  BY LocksAre
<1>2. CASE ForgetLocks(p)
  BY <1>1, <1>2, GotoIs DEF ForgetLocks
<1>3. CASE NoteSeen(p)
  BY <1>1, <1>3, GotoIs, DoneIs DEF NoteSeen, vars, locks
<1>4. CASE Lookup(p)
  <2>1. CASE Done(p)
    BY <1>1, <1>4, <2>1, DoneIs DEF Lookup, vars, locks
  <2>2. CASE ~Done(p)
    <3>1. thread' = [thread EXCEPT ![p].at = "set", ![p].known = thread[p].block \in index]
      BY <1>4, <2>2 DEF Lookup
    <3>2. thread'[p].at = "set" /\ \A u \in Threads \ {p} : thread'[u] = thread[u]
      BY <3>1, <1>1 DEF HandlerType
    <3> QED
      BY <1>4, <3>2 DEF Lookup, vars, locks
  <2> QED
    BY <2>1, <2>2
<1>5. CASE SetBest(p)
  BY <1>1, <1>5, DoneIs DEF SetBest
<1> QED
  BY <1>2, <1>3, <1>4, <1>5 DEF ProcStep

-----------------------------------------------------------------------------
(***************************************************************************)
(* Announced locks and the tip                                             *)
(***************************************************************************)

\* ChainLocks are never switched off.
AlwaysOn == "off" \notin SporkValues

\* The steps that leave the locks and the threads alone.
LEMMA HandlerRests ==
  ASSUME ChainStep \/ UNCHANGED allVars \/ \E v \in SporkValues : ChangeSpork(v)
  PROVE UNCHANGED <<best, lockBlock, lastNotify, isEnabled, thread>>
  BY DEF ChainStep, AcceptHeaderOfInvalidChain, AcceptConflictingHeader, AcceptBlock,
     ActivateBestChain, Activation, ActivateRound, ActivateSelect, ConnectFails, ConnectTip,
     EnforceReset, InvalidateDisconnect, InvalidateFinish, ChangeSpork, allVars, vars, locks, handler

\* The threads that may enter CheckActiveState.
LEMMA EntryIs ==
  ASSUME ChainInv, HandlerType,
         \/ ScheduledTask
         \/ \E p \in Procs, l \in Locks : ProcessNewChainLock(p, l)
         \/ \E p \in Procs : HandleNewRecoveredSig(p)
  PROVE /\ \E t \in Threads :
             /\ \A u \in Threads \ {t} : thread'[u] = thread[u]
             /\ thread[t].at = "idle"
             /\ thread'[t].at \in {"reset", "go"}
             /\ thread'[t].at = "reset" <=> (~isEnabled /\ Enabled)
        /\ isEnabled' = Enabled
        /\ UNCHANGED <<best, lockBlock, lastNotify, received, marks, candidates, tip, act>>
<1>1. PICK t \in Threads, b \in Blocks \cup {None} : CheckActiveState(t, b)
  BY LocksAre DEF ScheduledTask, ProcessNewChainLock, HandleNewRecoveredSig
<1> QED
  BY <1>1, CheckIs DEF CheckActiveState

\* Of two locks the lower one is an ancestor of the other.
LEMMA LowerLock ==
  ASSUME ChainInv, NEW k \in Locks, NEW l \in Locks, Height(k) <= Height(l)
  PROVE k \in Chain[l]
<1>1. k \in Blocks /\ l \in Blocks /\ (k \in Chain[l] \/ l \in Chain[k])
  BY LocksAre
<1>2. l \in Chain[k] => k = l
  BY SMTT(30), <1>1, AncestorIsLower, HeightBasics
<1> QED
  BY <1>1, <1>2, ChainBasics

\* After the first CheckActiveState no lock is forgotten.
LEMMA StartupStep ==
  ASSUME OneProc, AlwaysOn, ChainInv, HandlerType, StartupInv, OrderInv, [LockNext]_allVars
  PROVE StartupInv'
<1>1. /\ Sched \in Threads /\ \A p \in Procs : p \in Threads /\ p # Sched
      /\ Threads = Procs \cup {Sched}
      /\ None \notin Blocks
  BY LocksAre DEF Threads
<1>2. Enabled
  BY DEF HandlerType, AlwaysOn, Enabled
<1>3. CASE ChainStep \/ UNCHANGED allVars \/ \E v \in SporkValues : ChangeSpork(v)
  BY <1>3, HandlerRests DEF StartupInv, Enforcing
<1>4. CASE \E b \in Blocks \ {Genesis} : AcceptedBlockHeader(b)
  <2>1. UNCHANGED <<best, lastNotify, isEnabled, thread>> /\ (best = None => lockBlock' = lockBlock)
    BY <1>1, <1>4 DEF AcceptedBlockHeader, handler
  <2> QED
    BY <2>1 DEF StartupInv, Enforcing
<1>5. CASE \/ ScheduledTask
           \/ \E p \in Procs, l \in Locks : ProcessNewChainLock(p, l)
           \/ \E p \in Procs : HandleNewRecoveredSig(p)
  <2>1. PICK t \in Threads :
             /\ \A u \in Threads \ {t} : thread'[u] = thread[u]
             /\ thread[t].at = "idle"
             /\ thread'[t].at \in {"reset", "go"}
             /\ thread'[t].at = "reset" <=> (~isEnabled /\ Enabled)
    BY <1>5, EntryIs
  <2>2. isEnabled' /\ UNCHANGED <<best, lockBlock, lastNotify>>
    BY <1>5, <1>2, EntryIs
  <2>3. CASE ~isEnabled
    <3>1. /\ best = None /\ lockBlock = None /\ lastNotify = None
          /\ \A u \in Threads : thread[u].at = "idle"
      BY <2>3 DEF StartupInv
    <3>2. \A u \in Threads \ {t} : thread'[u].at = "idle"
      BY <2>1, <3>1
    <3>3. thread'[t].at = "reset"
      BY <2>1, <2>3, <1>2
    <3>4. (\E p \in Procs : thread'[p].at = "reset") => t # Sched
      BY <1>1, <3>2
    <3>5. t # Sched => thread'[Sched].at = "idle"
      BY <1>1, <3>2
    <3> QED
      BY <2>2, <3>1, <3>3, <3>4, <3>5 DEF StartupInv, Enforcing
  <2>4. CASE isEnabled
    <3>1. thread'[t].at = "go"
      BY <2>1, <2>4
    <3>2. \A u \in Threads : thread'[u].at = "reset" => thread[u].at = "reset"
      BY <2>1, <3>1
    <3>3. Enforcing' => Enforcing
      BY <1>1, <2>1, <3>1 DEF Enforcing
    <3> QED
      BY <1>1, <2>2, <3>2, <3>3 DEF StartupInv
  <2> QED
    BY <2>3, <2>4 DEF HandlerType, LockBlockType
<1>6. CASE SchedStep
  <2>1. /\ \A p \in Procs : thread'[p] = thread[p]
        /\ isEnabled' = isEnabled
        /\ thread[Sched].at # "idle"
        /\ thread'[Sched].at # "reset"
        /\ \/ best' = None /\ lockBlock' = None /\ lastNotify' = None
           \/ UNCHANGED <<best, lockBlock>> /\ (lastNotify' = lastNotify \/ Enforcing)
        /\ Enforcing' => (Enforcing \/ lockBlock # None)
    BY <1>6, SchedIs DEF Enforcing
  <2>2. isEnabled
    BY <1>1, <2>1 DEF StartupInv
  <2> QED
    BY SMTT(30), <2>1, <2>2 DEF StartupInv
<1>7. CASE \E p \in Procs : ProcStep(p)
  <2>1. PICK p \in Procs : ProcStep(p)
    BY <1>7
  <2>2. \A q \in Procs : q = p
    BY DEF OneProc
  <2>3. /\ thread'[Sched] = thread[Sched]
        /\ isEnabled' = isEnabled
        /\ thread[p].at # "idle"
        /\ thread'[p].at # "reset"
        /\ lastNotify' \in {lastNotify, None}
    BY <1>1, <2>1, ProcIs
  <2>4. isEnabled
    BY <1>1, <2>3 DEF StartupInv
  <2> QED
    BY <2>2, <2>3, <2>4 DEF StartupInv, Enforcing
<1> QED
  BY <1>3, <1>4, <1>5, <1>6, <1>7 DEF LockNext

\* The best lock, the locks that have been announced and the one being enforced
\* stay on one chain when a higher lock comes in.
LEMMA OrderRises ==
  ASSUME ChainInv, HandlerType, OrderInv,
         best' \in Locks, lockBlock' \in Locks, Height(lockBlock') <= Height(best'),
         lockBlock # None => Height(lockBlock) <= Height(lockBlock'),
         UNCHANGED <<lastNotify, env>>, thread'[Sched] = thread[Sched]
  PROVE OrderInv'
<1>1. Locks \subseteq Blocks /\ None \notin Blocks
  BY LocksAre
<1>2. lockBlock # None => lockBlock \in Chain[lockBlock'] /\ Chain[lockBlock] \subseteq Chain[lockBlock']
  <2> SUFFICES ASSUME lockBlock # None
               PROVE lockBlock \in Chain[lockBlock'] /\ Chain[lockBlock] \subseteq Chain[lockBlock']
    OBVIOUS
  <2>1. lockBlock \in Locks
    BY DEF HandlerType, LockBlockType
  <2>2. lockBlock \in Chain[lockBlock']
    BY <2>1, LowerLock
  <2> QED
    BY <1>1, <2>2, ChainTransitive
<1>3. Enforcing' = Enforcing
  BY DEF Enforcing
<1> QED
  BY <1>1, <1>2, <1>3 DEF OrderInv

\* ... and in every other step.
LEMMA OrderStep ==
  ASSUME OneProc, ChainInv, HandlerType, RiseInv, StartupInv, OrderInv, [LockNext]_allVars
  PROVE OrderInv'
<1>1. /\ Sched \in Threads /\ \A p \in Procs : p \in Threads /\ p # Sched
      /\ Locks \subseteq Blocks /\ None \notin Blocks
  BY LocksAre
<1>2. UNCHANGED env
  BY NobodyInvalidates DEF HandlerType
<1>3. CASE ChainStep \/ UNCHANGED allVars \/ \E v \in SporkValues : ChangeSpork(v)
  BY <1>3, HandlerRests DEF OrderInv, Enforcing
<1>4. CASE \E b \in Blocks \ {Genesis} : AcceptedBlockHeader(b)
  <2>1. UNCHANGED <<best, lastNotify, isEnabled, thread>>
    BY <1>4 DEF AcceptedBlockHeader, handler
  <2>2. CASE lockBlock' = lockBlock
    BY <2>1, <2>2 DEF OrderInv, Enforcing
  <2>3. CASE lockBlock' # lockBlock
    <3>1. lockBlock' = best /\ best \in Locks
      BY <1>4, <2>3, <1>1 DEF AcceptedBlockHeader, HandlerType
    <3>2. Height(best) \in Nat
      BY <3>1, <1>1, HeightBasics
    <3>3. lockBlock # None => Height(lockBlock) <= Height(best)
      BY DEF OrderInv
    <3> QED
      BY SMTT(30), <2>1, <3>1, <3>2, <3>3, <1>2, OrderRises
  <2> QED
    BY <2>2, <2>3
<1>5. CASE \/ ScheduledTask
           \/ \E p \in Procs, l \in Locks : ProcessNewChainLock(p, l)
           \/ \E p \in Procs : HandleNewRecoveredSig(p)
  <2>1. UNCHANGED <<best, lockBlock, lastNotify>>
    BY <1>5, EntryIs
  <2>2. thread'[Sched] = thread[Sched] \/ thread'[Sched].at \in {"reset", "go"}
    BY <1>1, <1>5, EntryIs
  <2> QED
    BY <2>1, <2>2 DEF OrderInv, Enforcing
<1>6. CASE SchedStep
  <2>1. CASE thread[Sched].at = "reset"
    BY <1>6, <2>1, SchedIs DEF OrderInv, Enforcing
  <2>2. CASE thread[Sched].at = "notify"
    BY <1>6, <2>2, SchedIs DEF OrderInv, Enforcing
  <2>3. CASE thread[Sched].at = "go"
    <3>1. UNCHANGED <<best, lockBlock, lastNotify>>
      BY <1>6, <2>3, SchedIs
    <3>2. \/ ~Enforcing'
          \/ lockBlock # None /\ thread'[Sched].block = lockBlock
      BY <1>6, <2>3, SchedIs DEF Enforcing
    <3>3. lockBlock # None => lockBlock \in Chain[lockBlock]
      BY <1>1, ChainBasics DEF HandlerType, LockBlockType
    <3> QED
      BY <3>1, <3>2, <3>3 DEF OrderInv
  <2>4. CASE thread[Sched].at \notin {"reset", "notify", "go"}
    <3>1. UNCHANGED <<best, lockBlock, lastNotify>>
      BY <1>6, <2>4, SchedIs
    <3>2. Enforcing' => Enforcing /\ thread'[Sched].block = thread[Sched].block
      BY <1>6, <2>4, SchedIs DEF Enforcing
    <3> QED
      BY <3>1, <3>2 DEF OrderInv
  <2> QED
    BY <2>1, <2>2, <2>3, <2>4
<1>7. CASE \E p \in Procs : ProcStep(p)
  <2>1. PICK p \in Procs : ProcStep(p)
    BY <1>7
  <2>2. thread'[Sched] = thread[Sched]
    BY <1>1, <2>1, ProcIs
  <2>3. CASE thread[p].at = "reset"
    <3>1. best' = None /\ lockBlock' = None /\ lastNotify' = None
      BY <2>1, <2>3, ProcIs
    <3>2. ~Enforcing'
      BY <2>2, <2>3 DEF StartupInv, Enforcing
    <3> QED
      BY <3>1, <3>2 DEF OrderInv
  <2>4. CASE thread[p].at = "set"
    <3>1. /\ best' = thread[p].block /\ lockBlock' \in {lockBlock, thread[p].block}
          /\ UNCHANGED lastNotify
      BY <2>1, <2>4, ProcIs
    <3>2. best' \in Locks /\ Higher(best', best)
      BY <2>4, <3>1 DEF HandlerType, RiseInv
    <3>3. lockBlock # None => /\ lockBlock \in Locks
                              /\ Height(lockBlock) <= Height(best')
      <4> SUFFICES ASSUME lockBlock # None
                   PROVE lockBlock \in Locks /\ Height(lockBlock) <= Height(best')
        OBVIOUS
      <4>1. lockBlock \in Locks /\ best \in Locks /\ Height(lockBlock) <= Height(best)
        BY DEF HandlerType, LockBlockType, OrderInv
      <4>2. Height(best) < Height(best')
        BY <3>2, <4>1, <1>1 DEF Higher
      <4>3. Height(lockBlock) \in Nat /\ Height(best) \in Nat /\ Height(best') \in Nat
        BY <3>2, <4>1, <1>1, HeightBasics
      <4> QED
        BY SMTT(30), <4>1, <4>2, <4>3
    <3>4. CASE lockBlock' = None
      BY <3>1, <3>2, <3>4, <1>1, <2>2 DEF OrderInv, Enforcing
    <3>5. CASE lockBlock' # None
      <4>1. lockBlock' \in Locks
        BY <3>1, <3>2, <3>3, <3>5
      <4>2. Height(best') \in Nat /\ Height(lockBlock') \in Nat
        BY <3>2, <4>1, <1>1, HeightBasics
      <4>3. Height(lockBlock') <= Height(best')
        BY SMTT(30), <3>1, <3>3, <3>5, <4>2
      <4>4. lockBlock # None => Height(lockBlock) <= Height(lockBlock')
        BY SMTT(30), <3>1, <3>3, <4>2
      <4> QED
        BY <3>1, <3>2, <4>1, <4>3, <4>4, <1>2, <2>2, OrderRises
    <3> QED
      BY <3>4, <3>5
  <2>5. CASE thread[p].at \notin {"reset", "set"}
    <3>1. UNCHANGED <<best, lockBlock, lastNotify>>
      BY <2>1, <2>5, ProcIs
    <3> QED
      BY <3>1, <2>2 DEF OrderInv, Enforcing
  <2> QED
    BY <2>3, <2>4, <2>5
<1> QED
  BY <1>3, <1>4, <1>5, <1>6, <1>7 DEF LockNext

\* A block on one chain with the tip stays so when blocks are disconnected.
LEMMA LowerTipComparable ==
  ASSUME NEW n \in Blocks, NEW t \in Blocks, OnOneChain(n, t), NEW u \in Chain[t]
  PROVE OnOneChain(n, u)
<1>1. CASE n \in Chain[t]
  BY <1>1, ChainLinear DEF OnOneChain
<1>2. CASE t \in Chain[n]
  BY <1>2, ChainTransitive DEF OnOneChain
<1> QED
  BY <1>1, <1>2 DEF OnOneChain

\* Locks that are announced or about to be are on the chain of the best one.
LEMMA HeldIs ==
  ASSUME ChainInv, HandlerType, OrderInv, NEW n \in Held
  PROVE /\ n \in Locks /\ n \in Blocks /\ n # None
        /\ lockBlock \in Locks /\ lockBlock \in Blocks /\ lockBlock # None
        /\ n \in Chain[lockBlock]
  BY LocksAre DEF HandlerType, LockBlockType, OrderInv, Enforcing, Held

\* ConnectTip never connects a block beside an announced lock.
LEMMA ConnectComparable ==
  ASSUME ChainInv, HandlerType, StartupInv, OrderInv, ConnectTip,
         NEW n \in Held, OnOneChain(n, tip)
  PROVE OnOneChain(n, tip')
<1> DEFINE w == NextToConnect
<1>1. /\ w \in Blocks \ {Genesis} /\ Parent[w] = tip
      /\ Chain[w] = Chain[tip] \cup {w} /\ Height(w) = Height(tip) + 1
      /\ tip' = w /\ w \notin Conflicting /\ tip \in Blocks
  BY NextIs, StoredChains DEF ConnectTip, ChainInv
<1> HIDE DEF w
<1>2. /\ n \in Blocks /\ lockBlock \in Blocks /\ lockBlock # None /\ n \in Chain[lockBlock]
  BY HeldIs
<1>3. w \notin ConflictsWith(lockBlock)
  BY <1>1, <1>2 DEF Conflicting, StartupInv, HandlerType, LockBlockType
<1>4. CASE n \in Chain[tip]
  BY <1>1, <1>4 DEF OnOneChain
<1>5. CASE tip \in Chain[n] /\ tip # n
  <2>1. Height(tip) < Height(n) /\ (n # lockBlock => Height(n) < Height(lockBlock))
    BY <1>1, <1>2, <1>5, AncestorIsLower
  <2>2. /\ Height(tip) \in Nat /\ Height(n) \in Nat /\ Height(lockBlock) \in Nat
    BY <1>1, <1>2, HeightBasics
  <2>3. Height(w) <= Height(n) /\ Height(w) <= Height(lockBlock)
    BY SMTT(30), <1>1, <2>1, <2>2
  <2>4. w \in Chain[lockBlock]
    BY <1>1, <1>3, <2>3 DEF ConflictsWith
  <2>5. w \in Chain[n]
    BY <1>2, <2>3, <2>4, LowerIsAncestor
  <2> QED
    BY <1>1, <2>5 DEF OnOneChain
<1> QED
  BY SMTT(30), <1>1, <1>4, <1>5, ChainBasics DEF OnOneChain

\* The tip moves only by disconnecting blocks and by ConnectTip.
LEMMA TipMoves ==
  ASSUME ChainInv, HandlerType, ChainStep
  PROVE tip' \in Chain[tip] \/ ConnectTip
<1>1. tip \in Blocks /\ tip \in Chain[tip]
  BY StoredChains, ChainBasics DEF ChainInv
<1>2. CASE ActivateSelect
  <2>1. Aim # None => Aim \in candidates
    BY <1>2, SelectEffect
  <2>2. Aim \notin {None, tip} => Fork(tip, Aim) \in Chain[tip]
    BY <2>1, ForkBelow DEF ChainInv
  <2> QED
    BY <1>1, <1>2, <2>2, SelectCases
<1> QED
  BY <1>1, <1>2 DEF ChainStep, AcceptHeaderOfInvalidChain, AcceptConflictingHeader, AcceptBlock,
     ActivateBestChain, Activation, ActivateRound, ConnectFails,
     EnforceReset, InvalidateDisconnect, InvalidateFinish, HandlerType

\* The tip stays on one chain with every announced lock, in every step.
LEMMA TipStep ==
  ASSUME OneProc, ChainInv, HandlerType, StartupInv, OrderInv, TipInv, [LockNext]_allVars
  PROVE TipInv'
<1>1. /\ Sched \in Threads /\ \A p \in Procs : p \in Threads /\ p # Sched
      /\ tip \in Blocks /\ tip \in Chain[tip]
  BY LocksAre, StoredChains, ChainBasics DEF ChainInv
<1>2. \A n \in Held : n \in Blocks
  BY HeldIs
<1>3. ASSUME Held' \subseteq Held, tip' \in Chain[tip] \/ ConnectTip,
             \/ thread'[Sched].at \notin {"checktip", "sign"}
             \/ lastNotify' = None
             \/ lastNotify' = lastNotify /\ thread'[Sched] = thread[Sched]
      PROVE TipInv'
  <2>1. \A n \in Held : OnOneChain(n, tip')
    <3> TAKE n \in Held
    <3>1. OnOneChain(n, tip) /\ n \in Blocks
      BY <1>2 DEF TipInv
    <3> QED
      BY <1>1, <1>3, <3>1, LowerTipComparable, ConnectComparable
  <2> QED
    BY <1>3, <2>1 DEF TipInv
<1>4. CASE ChainStep
  BY <1>4, <1>3, HandlerRests, TipMoves DEF Held
<1>5. CASE UNCHANGED allVars \/ \E v \in SporkValues : ChangeSpork(v)
  <2>1. UNCHANGED <<lastNotify, thread>> /\ tip' = tip
    BY <1>5, HandlerRests DEF ChangeSpork, allVars, vars
  <2> QED
    BY <1>1, <1>3, <2>1 DEF Held
<1>6. CASE \E b \in Blocks \ {Genesis} : AcceptedBlockHeader(b)
  <2>1. UNCHANGED <<lastNotify, thread>> /\ tip' = tip
    BY <1>6 DEF AcceptedBlockHeader, AcceptBlockHeader, handler
  <2> QED
    BY <1>1, <1>3, <2>1 DEF Held
<1>7. CASE \/ ScheduledTask
           \/ \E p \in Procs, l \in Locks : ProcessNewChainLock(p, l)
           \/ \E p \in Procs : HandleNewRecoveredSig(p)
  <2>1. lastNotify' = lastNotify /\ tip' = tip
    BY <1>7, EntryIs
  <2>2. thread'[Sched] = thread[Sched] \/ thread'[Sched].at \in {"reset", "go"}
    BY <1>1, <1>7, EntryIs
  <2> QED
    BY <1>1, <1>3, <2>1, <2>2 DEF Held
<1>8. CASE \E p \in Procs : ProcStep(p)
  <2>1. PICK p \in Procs : ProcStep(p)
    BY <1>8
  <2>2. thread'[Sched] = thread[Sched] /\ tip' = tip /\ lastNotify' \in {lastNotify, None}
    BY <1>1, <2>1, ProcIs
  <2> QED
    BY <1>1, <1>3, <2>2 DEF Held
<1>9. CASE SchedStep
  <2>1. CASE thread[Sched].at \in {"check", "recheck"} /\ thread'[Sched].at = "notify"
    <3>1. /\ tip' = tip /\ lastNotify' = lastNotify
          /\ thread'[Sched].block \in Chain[tip]
      BY <1>9, <2>1, SchedIs
    <3>2. Held' \subseteq Held \cup {thread'[Sched].block}
      BY <3>1 DEF Held
    <3> QED
      BY <2>1, <3>1, <3>2 DEF TipInv, OnOneChain
  <2>2. CASE thread[Sched].at = "trysign"
    <3>1. tip' = tip /\ lastNotify' = lastNotify /\ thread'[Sched].at \in {"checktip", "idle"}
      BY <1>9, <2>2, SchedIs
    <3>2. thread'[Sched].at = "checktip" => thread'[Sched].block = tip
      BY <1>9, <2>2, SchedIs
    <3>3. Held' \subseteq Held
      BY <3>1 DEF Held
    <3>4. lastNotify # None => OnOneChain(lastNotify, tip)
      BY DEF TipInv, Held
    <3> QED
      BY <3>1, <3>2, <3>3, <3>4 DEF TipInv
  <2>3. CASE thread[Sched].at = "checktip"
    <3>1. tip' = tip /\ lastNotify' = lastNotify /\ thread'[Sched].at \in {"sign", "idle"}
      BY <1>9, <2>3, SchedIs
    <3>2. thread'[Sched].at = "sign" => thread'[Sched].block = thread[Sched].block
      BY <1>9, <2>3, SchedIs
    <3>3. Held' \subseteq Held
      BY <3>1 DEF Held
    <3> QED
      BY <2>3, <3>1, <3>2, <3>3 DEF TipInv
  <2>4. CASE thread[Sched].at = "notify"
    <3>1. tip' = tip /\ lastNotify' = thread[Sched].block /\ thread'[Sched].at = "trysign"
      BY <1>9, <2>4, SchedIs
    <3> QED
      BY <1>1, <1>3, <2>4, <3>1 DEF Held
  <2>5. CASE thread[Sched].at = "enforce"
    <3>1. /\ lastNotify' = lastNotify /\ thread'[Sched].at = "check"
          /\ EnforceBlock(thread[Sched].block)
      BY <1>9, <2>5, SchedIs
    <3>2. thread[Sched].block \in index
      BY <3>1 DEF EnforceBlock
    <3>3. tip' \in Chain[tip]
      BY <3>1, <3>2, EnforceEffect DEF ChainInv
    <3> QED
      BY <1>3, <3>1, <3>3 DEF Held
  <2>6. CASE /\ thread[Sched].at \notin {"trysign", "checktip", "notify", "enforce"}
             /\ ~(thread[Sched].at \in {"check", "recheck"} /\ thread'[Sched].at = "notify")
    <3>1. /\ tip' = tip /\ lastNotify' \in {lastNotify, None}
          /\ thread'[Sched].at \notin {"notify", "checktip", "sign"}
      BY <1>9, <2>6, SchedIs DEF ActivateBestChain
    <3> QED
      BY <1>1, <1>3, <3>1 DEF Held
  <2> QED
    BY <2>1, <2>2, <2>3, <2>4, <2>5, <2>6
<1> QED
  BY <1>4, <1>5, <1>6, <1>7, <1>8, <1>9 DEF LockNext

\* The invariant of the announced locks.
LEMMA NotifyInvariant ==
  ASSUME OneProc, AlwaysOn PROVE LockSpec => [](ChainInv /\ HandlerType /\ NotifyInv)
<1>1. LockInit => NotifyInv
  BY SMTT(30), ChainLocksAssumption
  DEF LockInit, EmptyIndex, NotifyInv, RiseInv, StartupInv, OrderInv, TipInv, Held, Enforcing,
      Threads, Free
<1>2. ChainInv /\ HandlerType /\ NotifyInv /\ [LockNext]_allVars => NotifyInv'
  BY RiseStep, StartupStep, OrderStep, TipStep DEF NotifyInv
<1> QED
  BY <1>1, <1>2, LockTypesInvariant, PTL DEF LockSpec

\* With ChainLocks switched on all the time and one thread at a time in
\* ProcessNewChainLock, the tip is on one chain with the last lock that was
\* announced as enforced, at every moment of every reorganisation.  No blocks
\* compete with an announced lock on the active chain, whatever locks come in
\* while cs_main is held and whatever blocks fail to connect.
THEOREM TipNeverLeavesLock ==
  ASSUME OneProc, AlwaysOn
  PROVE LockSpec => [](lastNotify # None => OnOneChain(lastNotify, tip))
<1>1. NotifyInv => (lastNotify # None => OnOneChain(lastNotify, tip))
  BY DEF NotifyInv, TipInv, Held
<1> QED
  BY <1>1, NotifyInvariant, PTL

\* Under the same assumptions the block handed to AsyncSignIfMember is above the
\* last lock that was announced: the tip was read on one chain with it, and the
\* height check against bestChainLock, which is never lower, comes after.
THEOREM SignedBlockIsAboveLock ==
  ASSUME OneProc, AlwaysOn PROVE LockSpec => SignsOnNotifiedChain
<1>1. ASSUME ChainInv, HandlerType, NotifyInv, [LockNext]_allVars, lastSigned' # lastSigned,
             lastNotify # None
      PROVE lastNotify \in Chain[lastSigned']
  <2>1. SignTip
    BY <1>1, HandlerRests
    DEF LockNext, ChainStep, AcceptedBlockHeader, ScheduledTask, ProcessNewChainLock,
        HandleNewRecoveredSig, CheckActiveState, ProcStep, ForgetLocks, NoteSeen, Lookup, SetBest,
        ChangeSpork, SchedStep, ReadBestChainLock, Enforce, CheckActivationNeeded, Recheck,
        NotifyChainLock, TrySignChainTip, CheckTip, allVars, handler
  <2> DEFINE b == thread[Sched].block
  <2>2. lastSigned' = b /\ Higher(b, best) /\ thread[Sched].at = "sign"
    BY <1>1, <2>1 DEF SignTip
  <2>3. b \in Blocks /\ OnOneChain(lastNotify, b)
    BY <1>1, <2>2 DEF HandlerType, NotifyInv, TipInv
  <2>4. /\ lastNotify \in Blocks /\ lockBlock \in Blocks /\ best \in Blocks
        /\ lastNotify \in Chain[lockBlock] /\ Height(lockBlock) <= Height(best) /\ best # None
    BY <1>1, LocksAre DEF HandlerType, LockBlockType, NotifyInv, OrderInv
  <2>5. Height(lastNotify) <= Height(lockBlock) /\ Height(best) < Height(b)
    <3>1. Height(lastNotify) <= Height(lockBlock)
      BY SMTT(30), <2>4, AncestorIsLower, HeightBasics
    <3> QED
      BY <2>2, <2>4, <3>1 DEF Higher
  <2>6. Height(lastNotify) < Height(b)
    BY SMTT(30), <2>3, <2>4, <2>5, HeightBasics
  <2>7. b \notin Chain[lastNotify]
    BY SMTT(30), <2>3, <2>4, <2>6, AncestorIsLower, HeightBasics
  <2> QED
    BY <2>2, <2>3, <2>7 DEF OnOneChain
<1>2. ChainInv /\ HandlerType /\ NotifyInv /\ [LockNext]_allVars =>
        [(lastSigned' # lastSigned /\ lastNotify # None) => lastNotify \in Chain[lastSigned']]_allVars
  BY <1>1
<1> QED
  BY <1>2, NotifyInvariant, PTL DEF LockSpec, SignsOnNotifiedChain

-----------------------------------------------------------------------------
(***************************************************************************)
(* The announced lock stays on the active chain                            *)
(***************************************************************************)

\* Every block connects, unless it conflicts with a lock.
NoBadBlocks == \A e \in Environments : e.badBlocks = {}

\* No lock is taken over while the scheduler's first task is in CheckActiveState.
QuietStart == thread[Sched].at = "reset" => lockBlock = None

\* A candidate whose chain stays unmarked is only dropped by
\* PruneBlockIndexCandidates.
LEMMA CandidateStays ==
  ASSUME ChainInv, HandlerType, [LockNext]_allVars, NEW c \in candidates, ~ConnectTip,
         Chain[c] \cap Unusable = {}, Chain[c] \cap Unusable' = {}
  PROVE c \in candidates'
<1>1. c \in Blocks /\ c \in Chain[c] /\ c \notin Unusable /\ c \notin Unusable'
  BY ChainBasics DEF ChainInv, ChainType
<1>2. CASE ActivateSelect
  BY <1>2, SelectEffect
<1>3. CASE ConnectFails
  BY <1>1, <1>3 DEF ConnectFails, Unusable, Failed
<1>4. CASE EnforceReset
  <2>1. act.block \in index
    BY <1>4 DEF EnforceReset, ChainInv, GoalInv
  <2>2. ResetBlockFailureFlags(act.block, FALSE)
    BY <1>4 DEF EnforceReset
  <2> QED
    BY <1>1, <2>1, <2>2, ResetEffect DEF ChainInv
<1>5. CASE Enforce
  <2>1. thread[Sched].block \in index /\ EnforceBlock(thread[Sched].block)
    BY <1>5 DEF Enforce, EnforceBlock
  <2> QED
    BY SMTT(30), <1>1, <2>1, EnforceEffect DEF ChainInv, Unusable, Failed
<1>6. ASSUME NEW b \in Blocks \ {Genesis}, AcceptBlock(b)
      PROVE c \in candidates'
  BY <1>6 DEF AcceptBlock, LinkBlocks
<1>7. CASE ChainStep
  <2>1. CASE UNCHANGED candidates
    BY <2>1
  <2> QED
    BY <1>7, <2>1, <1>2, <1>3, <1>4, <1>6
    DEF ChainStep, AcceptHeaderOfInvalidChain, AcceptConflictingHeader, ActivateBestChain,
        Activation, ActivateRound, InvalidateDisconnect, InvalidateFinish, HandlerType
<1>8. CASE \E b \in Blocks \ {Genesis} : AcceptedBlockHeader(b)
  BY <1>8 DEF AcceptedBlockHeader, AcceptBlockHeader
<1>9. CASE CheckActivationNeeded /\ ActivateBestChain
  BY <1>9 DEF ActivateBestChain
<1>10. CASE UNCHANGED allVars
  BY <1>10 DEF allVars, vars
<1> QED
  BY <1>5, <1>7, <1>8, <1>9, <1>10, StepKinds

\* Once a block of a lock is known, the lock is only replaced by one above it.
LEMMA LockRises ==
  ASSUME OneProc, ChainInv, HandlerType, RiseInv, StartupInv, OrderInv, QuietStart,
         [LockNext]_allVars, lockBlock # None
  PROVE lockBlock' \in Blocks /\ lockBlock \in Chain[lockBlock']
<1>1. Locks \subseteq Blocks /\ None \notin Blocks /\ lockBlock \in Locks
  BY LocksAre DEF HandlerType, LockBlockType
<1>2. lockBlock \in Chain[lockBlock] /\ best \in Locks /\ Height(lockBlock) <= Height(best)
  BY <1>1, ChainBasics DEF OrderInv, HandlerType
<1>3. CASE lockBlock' = lockBlock
  BY <1>1, <1>2, <1>3
<1>4. CASE ChainStep \/ UNCHANGED allVars \/ \E v \in SporkValues : ChangeSpork(v)
  BY <1>3, <1>4, HandlerRests
<1>5. CASE \E b \in Blocks \ {Genesis} : AcceptedBlockHeader(b)
  <2>1. lockBlock' \in {lockBlock, best}
    BY <1>5 DEF AcceptedBlockHeader
  <2> QED
    BY <1>1, <1>2, <1>3, <2>1, LowerLock
<1>6. CASE \/ ScheduledTask
           \/ \E p \in Procs, l \in Locks : ProcessNewChainLock(p, l)
           \/ \E p \in Procs : HandleNewRecoveredSig(p)
  BY <1>3, <1>6, EntryIs
<1>7. CASE SchedStep
  <2>1. thread[Sched].at # "reset"
    BY DEF QuietStart
  <2> QED
    BY <1>3, <1>7, <2>1, SchedIs
<1>8. CASE \E p \in Procs : ProcStep(p)
  <2>1. PICK p \in Procs : ProcStep(p)
    BY <1>8
  <2>2. thread[p].at # "reset"
    BY DEF StartupInv
  <2>3. CASE thread[p].at = "set" /\ lockBlock' = thread[p].block
    <3>1. thread[p].block \in Locks /\ Higher(thread[p].block, best)
      BY <2>3 DEF HandlerType, RiseInv
    <3>2. /\ Height(thread[p].block) > Height(best)
          /\ Height(thread[p].block) \in Nat /\ Height(best) \in Nat /\ Height(lockBlock) \in Nat
      BY <1>1, <1>2, <3>1, HeightBasics DEF Higher
    <3>3. Height(lockBlock) <= Height(thread[p].block)
      BY SMTT(30), <1>2, <3>2
    <3> QED
      BY <1>1, <2>3, <3>1, <3>3, LowerLock
  <2> QED
    BY <1>3, <2>1, <2>2, <2>3, ProcIs
<1> QED
  BY <1>4, <1>5, <1>6, <1>7, <1>8 DEF LockNext

\* While EnforceBlock runs for a lock and the best lock has been announced, they
\* are the same.
LEMMA EnforcesHeld ==
  ASSUME ChainInv, HandlerType, OrderInv, thread[Sched].at = "enforce",
         NEW n \in Held, n = lockBlock
  PROVE thread[Sched].block = n
<1>1. n = lastNotify /\ n # None
  BY DEF Held
<1>2. n \in Chain[thread[Sched].block] /\ thread[Sched].block \in Chain[n]
  BY <1>1 DEF OrderInv, Enforcing
<1>3. n \in Blocks /\ thread[Sched].block \in Blocks
  BY HeldIs, LocksAre DEF HandlerType
<1> QED
  BY <1>2, <1>3, ChainAntisymmetric

\* The home of an announced best lock is not lost.
LEMMA HeldHome ==
  ASSUME OneProc, NoBadBlocks, ChainInv, HandlerType, NotifyInv, [LockNext]_allVars,
         NEW n \in Held, n = lockBlock, Home(n)
  PROVE Home(n)'
<1>0. StartupInv /\ OrderInv /\ TipInv
  BY DEF NotifyInv
<1>1. PICK h \in candidates : n \in Chain[h] /\ Chain[h] \cap Unusable = {}
  BY DEF Home
<1>2. h \in Blocks /\ h \in index /\ n \in Blocks /\ n # None
  BY <1>0, HeldIs DEF ChainInv, ChainType
<1>3. Chain[h] \cap (BadBlocks \cup Conflicting) = {}
  BY <1>1, <1>2, ConflictAvoids
  DEF NoBadBlocks, BadBlocks, Conflicting, ChainInv, ChainType
<1>4. Enforce => Chain[h] \cap ConflictsWith(thread[Sched].block) = {}
  BY <1>0, <1>1, <1>2, ConflictAvoids, EnforcesHeld DEF Enforce
<1>5. Chain[h] \cap Unusable' = {}
  BY <1>1, <1>2, <1>3, <1>4, CleanStays
<1>6. CASE ~ConnectTip
  BY <1>1, <1>5, <1>6, CandidateStays DEF Home
<1>7. CASE ConnectTip
  <2> DEFINE w == NextToConnect
             m == act.mostWork
  <2>1. /\ w \in Blocks /\ w \in Chain[m] /\ Chain[w] \subseteq Chain[m]
        /\ tip' = w /\ candidates' = {c \in candidates : ~Worse(seqId, c, w)}
        /\ Unusable' = Unusable
    BY <1>7, NextIs DEF ConnectTip, PruneBlockIndexCandidates, ChainInv, marks, Unusable, Failed
  <2>2. m \in candidates /\ m \in Blocks /\ Chain[m] \cap Unusable = {}
    BY <1>7, ActFields, ChainStateAssumption DEF ConnectTip, ChainInv, GoalInv, ChainType
  <2> HIDE DEF w, m
  <2>3. \A c \in Blocks : w \in Chain[c] => ~Worse(seqId, c, w)
    BY <2>1, WorseOrder DEF ChainInv, ChainType
  <2>4. CASE n \in Chain[w]
    <3>1. m \in candidates' /\ n \in Chain[m]
      BY <2>1, <2>2, <2>3, <2>4
    <3> QED
      BY <2>1, <2>2, <3>1 DEF Home
  <2>5. CASE w \in Chain[n]
    <3>1. w \in Chain[h]
      BY <1>1, <1>2, <2>5, ChainTransitive
    <3>2. h \in candidates'
      BY <1>2, <2>1, <2>3, <3>1
    <3> QED
      BY <1>1, <1>5, <3>2 DEF Home
  <2> QED
    BY <1>0, <1>7, <2>1, <2>4, <2>5, ConnectComparable DEF TipInv, OnOneChain
<1> QED
  BY <1>6, <1>7

\* The tip has a home after every step, or has to leave for the locked chain.
LEMMA TipHomeStep ==
  ASSUME OneProc, NoBadBlocks, ChainInv, HandlerType, NotifyInv, QuietStart, TipHome,
         [LockNext]_allVars
  PROVE TipHome'
<1>0. RiseInv /\ StartupInv /\ OrderInv /\ ChainInv'
  BY LockChainStep DEF NotifyInv
<1>1. tip \in Blocks /\ tip \in Chain[tip]
  BY StoredChains, ChainBasics DEF ChainInv
<1>2. ASSUME tip' = tip, ~ConnectFails, ~ConnectTip, ~Enforce
      PROVE TipHome'
  <2>1. CASE Home(tip)
    <3>1. PICK h \in candidates : tip \in Chain[h] /\ Chain[h] \cap Unusable = {}
      BY <2>1 DEF Home
    <3>2. h \in Blocks /\ h \in index
      BY DEF ChainInv, ChainType
    <3>3. Chain[h] \cap Unusable' = {}
      BY <1>2, <3>1, <3>2, CleanStays
    <3>4. h \in candidates'
      BY <1>2, <3>1, <3>3, CandidateStays
    <3> QED
      BY <1>2, <3>1, <3>3, <3>4 DEF TipHome, Home
  <2>2. CASE lockBlock # None /\ lockBlock \notin Chain[tip]
    <3>1. lockBlock' \in Blocks /\ lockBlock \in Chain[lockBlock']
      BY <1>0, <2>2, LockRises
    <3>2. lockBlock' \notin Chain[tip]
      BY <1>1, <2>2, <3>1, ChainTransitive
    <3>3. lockBlock' # None
      BY <3>1, ChainStateAssumption
    <3> QED
      BY <1>2, <3>2, <3>3 DEF TipHome
  <2> QED
    BY <2>1, <2>2 DEF TipHome
<1>3. CASE ConnectFails
  <2> DEFINE w == NextToConnect
  <2>1. w \in Conflicting /\ Height(w) = Height(tip) + 1 /\ tip' = tip /\ lockBlock' = lockBlock
    BY <1>3, NextIs DEF ConnectFails, locks, ChainInv, ChainType, NoBadBlocks, BadBlocks
  <2>2. lockBlock # None /\ Height(w) <= Height(lockBlock)
    BY <2>1 DEF Conflicting, ConflictsWith
  <2>3. lockBlock \in Blocks
    BY <2>2, LocksAre DEF HandlerType, LockBlockType
  <2>4. Height(tip) \in Nat /\ Height(lockBlock) \in Nat
    BY <1>1, <2>3, HeightBasics
  <2>5. Height(tip) < Height(lockBlock)
    BY SMTT(30), <2>1, <2>2, <2>4
  <2>6. lockBlock \notin Chain[tip]
    BY SMTT(30), <1>1, <2>4, <2>5, AncestorIsLower
  <2> QED
    BY <2>1, <2>2, <2>6 DEF TipHome
<1>4. CASE ConnectTip
  <2> DEFINE w == NextToConnect
             m == act.mostWork
  <2>1. /\ w \in Blocks /\ w \in Chain[m]
        /\ tip' = w /\ candidates' = {c \in candidates : ~Worse(seqId, c, w)}
        /\ Unusable' = Unusable
    BY <1>4, NextIs DEF ConnectTip, PruneBlockIndexCandidates, ChainInv, marks, Unusable, Failed
  <2>2. m \in candidates /\ m \in Blocks /\ Chain[m] \cap Unusable = {}
    BY <1>4, ActFields, ChainStateAssumption DEF ConnectTip, ChainInv, GoalInv, ChainType
  <2> HIDE DEF w, m
  <2>3. ~Worse(seqId, m, w)
    BY <2>1, <2>2, WorseOrder DEF ChainInv, ChainType
  <2> QED
    BY <2>1, <2>2, <2>3 DEF TipHome, Home
<1>5. CASE ActivateSelect /\ tip' # tip
  <2>1. Aim \notin {None, tip} /\ tip' = Fork(tip, Aim)
    BY <1>5, SelectCases
  <2>2. Aim \in candidates /\ Aim \in candidates' /\ Chain[Aim] \cap Unusable' = {}
    BY <1>5, <2>1, SelectEffect
  <2>3. tip' \in Chain[Aim]
    BY <2>1, <2>2, ForkBelow DEF ChainInv
  <2> QED
    BY <2>2, <2>3 DEF TipHome, Home
<1>6. CASE Enforce
  <2> DEFINE b == thread[Sched].block
             D == {x \in Chain[tip] : Chain[x] \cap Siblings(b) # {}}
  <2>1. b \in index /\ EnforceBlock(b) /\ lockBlock' = lockBlock
    BY <1>6 DEF Enforce, EnforceBlock, locks
  <2>2. /\ conflict' = conflict \cup Siblings(b) \cup D
        /\ D = {} => tip' = tip
        /\ candidates' = IF Siblings(b) = {} THEN candidates
                         ELSE (candidates \ (Siblings(b) \cup D)) \cup
                              EligibleFor(tip', Failed \cup conflict')
        /\ UNCHANGED <<received, failedValid, failedChild>>
    BY <2>1, EnforceEffect DEF ChainInv
  <2>3. CASE Siblings(b) = {}
    <3>1. D = {}
      BY <2>3
    <3>2. tip' = tip /\ candidates' = candidates /\ Unusable' = Unusable
      BY <2>2, <2>3, <3>1 DEF Unusable, Failed
    <3> QED
      BY <2>1, <3>2 DEF TipHome, Home
  <2>4. CASE Siblings(b) # {}
    <3>1. /\ tip' \in index' /\ tip' \in Linked(seqId)' /\ Chain[tip'] \cap Unusable' = {}
          /\ tip' \in Blocks /\ tip' \in Chain[tip']
      BY <1>0, ChainBasics DEF ChainInv, ChainType, StoreInv, MarkInv
    <3>2. index' = index /\ seqId' = seqId
      BY <2>2 DEF received
    <3>3. ~Worse(seqId, tip', tip')
      BY <3>1, WorseOrder DEF ChainInv, ChainType
    <3>4. tip' \notin Failed \cup conflict'
      BY <2>2, <3>1 DEF Unusable, Failed
    <3>5. tip' \in EligibleFor(tip', Failed \cup conflict')
      BY <3>1, <3>2, <3>3, <3>4 DEF EligibleFor, Linked
    <3>6. tip' \in candidates'
      BY <2>2, <2>4, <3>5
    <3> QED
      BY <3>1, <3>6 DEF TipHome, Home
  <2> QED
    BY <2>3, <2>4
<1>7. tip' = tip \/ ConnectTip \/ ActivateSelect \/ Enforce
  <2>1. CASE ChainStep
    BY <2>1 DEF ChainStep, AcceptHeaderOfInvalidChain, AcceptConflictingHeader, AcceptBlock,
       ActivateBestChain, Activation, ActivateRound, ConnectFails,
       EnforceReset, InvalidateDisconnect, InvalidateFinish, HandlerType
  <2> QED
    BY <2>1, StepKinds DEF AcceptedBlockHeader, AcceptBlockHeader, ActivateBestChain, allVars, vars
<1> QED
  BY <1>2, <1>3, <1>4, <1>5, <1>6, <1>7

\* A round cannot end with its tip below an announced best lock it started above.
LEMMA RoundEndsAbove ==
  ASSUME NEW sid \in [Blocks -> Nat], NEW n \in Blocks, NEW s \in Blocks, NEW t \in Blocks,
         n \in Chain[s], OnOneChain(n, t), ~Worse(sid, t, s)
  PROVE n \in Chain[t]
<1>1. SUFFICES ASSUME n \notin Chain[t] PROVE FALSE
  OBVIOUS
<1>2. t \in Chain[n]
  BY <1>1 DEF OnOneChain
<1>3. t \in Chain[s] /\ t # s
  BY <1>1, <1>2, ChainTransitive
<1> QED
  BY <1>3, WorseOrder

\* FindMostWorkChain finds the home of an announced best lock when the tip is
\* below it.
LEMMA SelectReturns ==
  ASSUME ChainInv, ActivateSelect, NEW n \in Blocks, Home(n), OnOneChain(n, tip),
         Aim \in {None, tip}
  PROVE n \in Chain[tip]
<1>0. ChainType /\ StoreInv /\ GoalInv /\ MarkInv
  BY DEF ChainInv
<1>1. SUFFICES ASSUME n \notin Chain[tip] PROVE FALSE
  OBVIOUS
<1>2. PICK h \in candidates : n \in Chain[h] /\ Chain[h] \cap Unusable = {}
  BY DEF Home
<1>3. tip \in Blocks /\ h \in Blocks /\ seqId \in [Blocks -> Nat] /\ act.at = "select"
  BY <1>0, StoredChains DEF ChainType, ActivateSelect
<1>4. tip \in Chain[h] /\ tip # h
  BY <1>1, <1>2, <1>3, ChainTransitive DEF OnOneChain
<1>5. Worse(seqId, tip, h)
  BY <1>3, <1>4, WorseOrder
<1>6. h \in Usable
  BY <1>2 DEF Usable, MarkedOnPath
<1>7. MostWork # None /\ ~Worse(seqId, MostWork, h)
  <2>1. \E c \in Usable : \A x \in Usable : ~Worse(seqId, c, x)
    BY <1>0, <1>3, <1>6, BestExists DEF Usable, ChainType
  <2>2. MostWork \in Usable
    BY <1>6, <2>1 DEF MostWork
  <2>3. MostWork # None
    BY <1>0, <2>2, ChainStateAssumption DEF Usable, ChainType
  <2> QED
    BY <1>0, <1>6, <2>3, MostWorkIs
<1>8. CASE act.mostWork = None
  BY SMTT(30), <1>5, <1>7, <1>8 DEF Aim
<1>9. CASE act.mostWork # None
  BY SMTT(30), <1>0, <1>3, <1>9 DEF Aim, GoalInv
<1> QED
  BY <1>8, <1>9

\* Where an announced best lock is during and between the rounds.
LEMMA HeldPlace ==
  ASSUME OneProc, ChainInv, HandlerType, NotifyInv, [LockNext]_allVars,
         NEW n \in Held, n = lockBlock, Home(n),
         n \in Chain[IF act.at \in {"select", "connect"} THEN act.start ELSE tip],
         OnOneChain(n, tip')
  PROVE n \in Chain[IF act'.at \in {"select", "connect"} THEN act'.start ELSE tip']
<1>0. OrderInv /\ n \in Blocks /\ OnOneChain(n, tip)
  BY HeldIs DEF NotifyInv, TipInv
<1>1. /\ tip \in Blocks /\ act \in Acts /\ seqId \in [Blocks -> Nat]
      /\ act.at \in {"idle", "wait", "connect", "select", "reset", "disconnect"}
  BY StoredChains, ActFields DEF ChainInv, ChainType
<1>2. CASE act' = act /\ tip' = tip
  BY <1>2
<1>3. CASE ActivateBestChain
  BY <1>3 DEF ActivateBestChain, MutexFree
<1>4. CASE ActivateRound
  BY <1>4 DEF ActivateRound
<1>5. CASE ActivateSelect
  <2>1. act.at = "select"
    BY <1>5 DEF ActivateSelect
  <2>2. CASE Aim \in {None, tip}
    <3>1. tip' = tip /\ act'.at \in {"idle", "wait"}
      BY SMTT(30), <1>1, <1>5, <2>2, SelectCases DEF Idle
    <3>2. n \in Chain[tip]
      BY <1>0, <1>5, <2>2, SelectReturns
    <3> QED
      BY <3>1, <3>2
  <2>3. CASE Aim \notin {None, tip}
    <3>1. act'.at = "connect" /\ act'.start = act.start
      BY SMTT(30), <1>5, <2>3, SelectCases
    <3> QED
      BY <2>1, <3>1
  <2> QED
    BY <2>2, <2>3
<1>6. ASSUME NEW t \in Blocks, NEW m \in Blocks \cup {None}, act.at = "connect",
             tip' = t, act' = AfterStep(t, m, act.start)
      PROVE n \in Chain[IF act'.at \in {"select", "connect"} THEN act'.start ELSE tip']
  <2>1. act.start \in Blocks /\ n \in Chain[act.start]
    BY <1>1, <1>6, ActFields
  <2>2. CASE Worse(seqId, t, act.start)
    BY <1>6, <2>1, <2>2 DEF AfterStep
  <2>3. CASE ~Worse(seqId, t, act.start)
    <3>1. act'.at \in {"idle", "wait"}
      BY <1>6, <2>3 DEF AfterStep, Idle
    <3>2. n \in Chain[t]
      BY <1>0, <1>1, <1>6, <2>1, <2>3, RoundEndsAbove
    <3> QED
      BY <1>6, <3>1, <3>2
  <2> QED
    BY <2>2, <2>3
<1>7. CASE ConnectFails
  BY <1>1, <1>6, <1>7 DEF ConnectFails
<1>8. CASE ConnectTip
  <2>1. NextToConnect \in Blocks /\ act.at = "connect" /\ tip' = NextToConnect
    BY <1>8, NextIs DEF ConnectTip, ChainInv
  <2>2. act.mostWork \in Blocks
    BY <1>1, <2>1, ActFields
  <2>3. act' = act \/ act' = AfterStep(NextToConnect, act.mostWork, act.start)
    BY <1>8 DEF ConnectTip
  <2> QED
    BY <1>6, <2>1, <2>2, <2>3
<1>9. CASE EnforceReset
  <2>1. act.at = "reset" /\ act' = Idle /\ tip' = tip
    BY <1>9 DEF EnforceReset
  <2> QED
    BY <2>1 DEF Idle
<1>10. CASE Enforce
  <2> DEFINE b == thread[Sched].block
             D == {x \in Chain[tip] : Chain[x] \cap Siblings(b) # {}}
  <2>1. b \in index /\ EnforceBlock(b) /\ thread[Sched].at = "enforce"
    BY <1>10 DEF Enforce, EnforceBlock
  <2>2. b = n
    BY <1>0, <2>1, EnforcesHeld
  <2>3. /\ act.at = "idle"
        /\ D = {} => tip' = tip
        /\ D # {} => Chain[tip'] = Chain[tip] \cap Chain[b]
        /\ act' = IF b \in NotValid THEN [at |-> "reset", block |-> b] ELSE Idle
    BY <2>1, EnforceEffect DEF ChainInv
  <2>4. n \in Chain[tip] /\ n \in Chain[b]
    BY <1>0, <2>2, <2>3, ChainBasics
  <2>5. act'.at \in {"idle", "reset"}
    BY <2>3 DEF Idle
  <2> QED
    BY <2>3, <2>4, <2>5
<1>11. CASE ChainStep
  BY <1>11, <1>2, <1>3, <1>4, <1>5, <1>7, <1>8, <1>9
  DEF ChainStep, Activation, AcceptHeaderOfInvalidChain, AcceptConflictingHeader, AcceptBlock,
      InvalidateDisconnect, InvalidateFinish, HandlerType
<1> QED
  BY SMTT(30), <1>2, <1>3, <1>10, <1>11, StepKinds
  DEF AcceptedBlockHeader, AcceptBlockHeader, allVars, vars

\* An announced best lock keeps its home and its place.
LEMMA HeldStep ==
  ASSUME OneProc, AlwaysOn, NoBadBlocks, ChainInv, HandlerType, NotifyInv, QuietStart, ExactInv,
         [LockNext]_allVars
  PROVE HeldInv'
<1> SUFFICES ASSUME NEW n \in Held', n = lockBlock'
             PROVE /\ Home(n)'
                   /\ n \in Chain[IF act'.at \in {"select", "connect"} THEN act'.start ELSE tip']
  BY DEF HeldInv
<1>0. RiseInv /\ StartupInv /\ OrderInv /\ TipInv /\ TipHome /\ HeldInv /\ TipInv'
  BY TipStep DEF NotifyInv, ExactInv
<1>1. CASE n \in Held
  <2>1. n \in Blocks /\ lockBlock \in Blocks /\ lockBlock # None /\ n \in Chain[lockBlock]
    BY <1>0, <1>1, HeldIs
  <2>2. lockBlock \in Chain[n]
    BY <1>0, <2>1, LockRises
  <2>3. n = lockBlock
    BY <2>1, <2>2, ChainAntisymmetric
  <2>4. /\ Home(n)
        /\ n \in Chain[IF act.at \in {"select", "connect"} THEN act.start ELSE tip]
    BY <1>0, <1>1, <2>3 DEF HeldInv
  <2>5. Home(n)'
    BY <1>1, <2>3, <2>4, HeldHome
  <2>6. OnOneChain(n, tip')
    BY <1>0 DEF TipInv
  <2>7. n \in Chain[IF act'.at \in {"select", "connect"} THEN act'.start ELSE tip']
    BY <1>1, <2>3, <2>4, <2>6, HeldPlace
  <2> QED
    BY <2>5, <2>7
<1>2. CASE n \notin Held
  <2>1. /\ SchedStep
        /\ \/ thread[Sched].at \in {"check", "recheck"} /\ thread'[Sched].at = "notify"
           \/ thread[Sched].at = "notify" /\ thread'[Sched].at = "trysign"
    <3>1. CASE SchedStep
      BY <1>2, <3>1, SchedIs DEF Held
    <3>2. CASE \E p \in Procs : ProcStep(p)
      <4>1. thread'[Sched] = thread[Sched] /\ lastNotify' \in {lastNotify, None}
        BY <3>2, ProcIs, LocksAre
      <4> QED
        BY <1>2, <4>1 DEF Held
    <3>3. CASE ChainStep \/ UNCHANGED allVars \/ \E v \in SporkValues : ChangeSpork(v)
      BY <1>2, <3>3, HandlerRests DEF Held
    <3>4. CASE \E b \in Blocks \ {Genesis} : AcceptedBlockHeader(b)
      BY <1>2, <3>4 DEF AcceptedBlockHeader, handler, Held
    <3>5. CASE \/ ScheduledTask
               \/ \E p \in Procs, l \in Locks : ProcessNewChainLock(p, l)
               \/ \E p \in Procs : HandleNewRecoveredSig(p)
      <4>1. lastNotify' = lastNotify
        BY <3>5, EntryIs
      <4>2. thread'[Sched] = thread[Sched] \/ thread'[Sched].at \in {"reset", "go"}
        BY <3>5, EntryIs, LocksAre
      <4> QED
        BY <1>2, <4>1, <4>2 DEF Held
    <3> QED
      BY <3>1, <3>2, <3>3, <3>4, <3>5 DEF LockNext
  <2>2. CASE thread[Sched].at = "notify"
    <3>1. lastNotify' = thread[Sched].block /\ thread'[Sched].at = "trysign"
      BY <2>1, <2>2, SchedIs
    <3> QED
      BY <1>2, <2>2, <3>1 DEF Held
  <2>3. CASE thread[Sched].at # "notify"
    <3>1. /\ UNCHANGED <<lockBlock, lastNotify, marks, candidates, tip, act>>
          /\ thread'[Sched].at = "notify"
          /\ thread'[Sched].block \in Chain[tip] /\ CsMainFree
      BY <2>1, <2>3, SchedIs
    <3>2. n \in Chain[tip] /\ lockBlock = n /\ Unusable' = Unusable
      BY <1>2, <3>1 DEF Held, Unusable, Failed, marks
    <3>3. PICK h \in candidates : tip \in Chain[h] /\ Chain[h] \cap Unusable = {}
      BY <1>0, <3>2 DEF TipHome, Home
    <3>4. n \in Chain[h]
      BY <3>2, <3>3, ChainTransitive DEF ChainInv, ChainType
    <3>5. Home(n)'
      BY <3>1, <3>2, <3>3, <3>4 DEF Home
    <3>6. act'.at \notin {"select", "connect"} /\ tip' = tip
      BY <3>1 DEF CsMainFree
    <3> QED
      BY <3>2, <3>5, <3>6
  <2> QED
    BY <2>2, <2>3
<1> QED
  BY <1>1, <1>2

\* An announced lock stays: with ChainLocks switched on all the time, one thread
\* at a time in ProcessNewChainLock, no lock taken over during the first
\* CheckActiveState and blocks that connect unless a lock refuses them, the tip is
\* always on one chain with the last announced lock, and on top of it whenever
\* cs_main is free and no newer lock has come in.
THEOREM NotifiedStays ==
  ASSUME OneProc, AlwaysOn, NoBadBlocks
  PROVE LockSpec /\ []QuietStart => []NotifiedLockStays
<1>1. LockInit => ExactInv
  <2> SUFFICES ASSUME LockInit PROVE ExactInv
    OBVIOUS
  <2>1. candidates = {Genesis} /\ tip = Genesis /\ Unusable = {} /\ lastNotify = None
    BY DEF LockInit, EmptyIndex, Unusable, Failed
  <2>2. Genesis \in Chain[Genesis]
    BY ChainBasics
  <2>3. Home(tip)
    BY <2>1, <2>2 DEF Home
  <2>4. Held = {}
    BY <2>1 DEF LockInit, Held, Free, Threads
  <2> QED
    BY <2>3, <2>4 DEF ExactInv, TipHome, HeldInv
<1>2. ChainInv /\ HandlerType /\ NotifyInv /\ QuietStart /\ ExactInv /\ [LockNext]_allVars
        => ExactInv'
  BY TipHomeStep, HeldStep DEF ExactInv
<1>3. ChainInv /\ HandlerType /\ NotifyInv /\ ExactInv => NotifiedLockStays
  BY DEF NotifyInv, TipInv, Held, OnOneChain, ExactInv, HeldInv, NotifiedLockStays, CsMainFree
<1> QED
  BY <1>1, <1>2, <1>3, NotifyInvariant, PTL DEF LockSpec
=============================================================================
