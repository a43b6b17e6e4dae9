-------------------------- MODULE ChainLocksProofs ---------------------------
(***************************************************************************)
(* What the candidates of ChainState promise as long as there are no       *)
(* ChainLocks, and what the handler of ChainLocks promises about the marks *)
(* and the best lock, for every finite block tree, every set of locks on   *)
(* one chain and every interleaving of the handler's threads with the      *)
(* block index and the active chain.                                       *)
(***************************************************************************)
EXTENDS ChainLocks, ChainStateProofs

\* A leaf is given to Zenon unless it names another prover.
USE ZenonT(30)

-----------------------------------------------------------------------------
(***************************************************************************)
(* Without ChainLocks the candidates are complete and a round of           *)
(* ActivateBestChain makes progress.  A lock that is taken over in the     *)
(* middle of a round can keep the round from going back to where it        *)
(* started.                                                                *)
(***************************************************************************)

\* No ChainLock ever arrives.
NoLocks == \A e \in Environments : e.locks = {}

\* Without ChainLocks: blocks of the active chain, and of the chain a round
\* started on, connect.
ScriptInv ==
  /\ Chain[tip] \subseteq scripts
  /\ scripts \cap BadBlocks \subseteq {Genesis}
  /\ act.at \in {"select", "connect"} => Chain[act.start] \subseteq scripts

\* The chain a round started on stays unmarked, and the round goes on only while
\* the tip is worse.
StartInv ==
  act.at \in {"select", "connect"} =>
    /\ act.start \in Linked(seqId)
    /\ Chain[act.start] \cap Unusable = {}
    /\ act.at = "select" => (tip = act.start \/ Worse(seqId, tip, act.start))

\* Unmarked blocks that are no worse than the tip, and than the start of the
\* round, are candidates.
CompleteInv ==
  act.at # "disconnect" =>
    \A b \in (index \cap Linked(seqId)) \ Unusable :
      /\ ~Worse(seqId, b, tip)
      /\ act.at \in {"select", "connect"} => ~Worse(seqId, b, act.start)
      => b \in candidates

RoundInv == ScriptInv /\ StartInv /\ CompleteInv

\* Without ChainLocks no block conflicts with one.
LEMMA NothingConflicts ==
  ASSUME NoLocks, ChainType, LockBlockType PROVE lockBlock = None /\ Conflicting = {} /\ Locks = {}
BY DEF NoLocks, ChainType, LockBlockType, Locks, Conflicting

\* Of two numbered blocks one is worse.
LEMMA WorseTotal ==
  ASSUME ChainType, NumberInv, NEW a \in Linked(seqId), NEW b \in Linked(seqId), a # b
  PROVE Worse(seqId, a, b) \/ Worse(seqId, b, a)
<1>1. a \in Blocks /\ b \in Blocks /\ seqId[a] # seqId[b] /\ seqId[a] \in Nat /\ seqId[b] \in Nat
  BY DEF Linked, NumberInv, ChainType
<1>2. Height(a) \in Nat /\ Height(b) \in Nat
  BY <1>1, HeightBasics
<1> QED
  BY SMTT(30), <1>1, <1>2 DEF Worse

\* No round is under way at the start.
LEMMA RoundInit ==
  ASSUME EmptyIndex PROVE RoundInv
<1> USE DEF EmptyIndex
<1>1. ScriptInv
  BY ChainBasics DEF ScriptInv, Idle
<1>2. StartInv
  BY DEF StartInv, Idle
<1>3. CompleteInv
  BY DEF CompleteInv
<1> QED
  BY <1>1, <1>2, <1>3 DEF RoundInv

\* Headers, bad blocks and steps that only add marks while cs_main is free.
LEMMA RoundMarks ==
  ASSUME ChainInv, RoundInv, CsMainFree, Unusable \subseteq Unusable',
         index \subseteq index', index' \cap Linked(seqId) = index \cap Linked(seqId),
         UNCHANGED <<seqId, scripts, candidates, tip, act, env>>
  PROVE RoundInv'
<1>1. act.at \notin {"select", "connect"}
  BY DEF CsMainFree
<1>2. ScriptInv' /\ StartInv'
  BY <1>1 DEF RoundInv, ScriptInv, StartInv, BadBlocks
<1>3. CompleteInv'
  BY <1>1 DEF RoundInv, CompleteInv, Linked, Worse
<1> QED
  BY <1>2, <1>3 DEF RoundInv

\* A block with data becomes a candidate when it is good enough.
LEMMA RoundBlock ==
  ASSUME ChainInv, RoundInv, NEW b \in Blocks \ {Genesis}, AcceptBlock(b) PROVE RoundInv'
<1> USE DEF ChainInv
<1>1. /\ b \in index \ data /\ CsMainFree
      /\ UNCHANGED <<index, scripts, marks, tip, act, env>>
  BY DEF AcceptBlock, locks
<1>2. act.at \notin {"select", "connect"} /\ Unusable' = Unusable
  BY <1>1 DEF CsMainFree, Unusable, Failed, marks
<1>3. ScriptInv' /\ StartInv'
  BY <1>1, <1>2 DEF RoundInv, ScriptInv, StartInv, BadBlocks
<1>4. CASE Parent[b] \notin Linked(seqId)
  <2>1. UNCHANGED <<seqId, candidates>>
    BY <1>4 DEF AcceptBlock
  <2> QED
    BY <1>1, <1>2, <2>1, RoundMarks
<1>5. CASE Parent[b] \in Linked(seqId)
  <2> DEFINE U == Unblocked(b)
  <2>1. PICK order \in VisitOrders(U) :
          /\ seqId' = [x \in Blocks |-> IF x \in U THEN Cardinality(Linked(seqId)) + order[x]
                                        ELSE seqId[x]]
          /\ candidates' = candidates \cup {x \in U \ conflict : ~Worse(seqId', x, tip)}
    BY <1>5 DEF AcceptBlock, LinkBlocks
  <2>2. U \cap Linked(seqId) = {} /\ U \subseteq Blocks
    BY <1>1, UnblockedIs DEF ChainType
  <2> HIDE DEF U
  <2>3. \A x \in Blocks \ U : seqId'[x] = seqId[x]
    BY <2>1
  <2>4. CompleteInv'
    <3> SUFFICES ASSUME act.at # "disconnect",
                        NEW c \in (index \cap Linked(seqId')) \ Unusable,
                        ~Worse(seqId', c, tip)
                 PROVE c \in candidates'
      BY <1>1, <1>2 DEF CompleteInv
    <3>1. CASE c \in U
      BY <3>1, <2>1 DEF Unusable
    <3>2. CASE c \notin U
      <4>1. c \in Linked(seqId) /\ seqId'[c] = seqId[c]
        BY <3>2, <2>3 DEF Linked
      <4>2. seqId'[tip] = seqId[tip]
        BY <2>2, <2>3 DEF StoreInv, Linked
      <4>3. ~Worse(seqId, c, tip)
        BY <4>1, <4>2 DEF Worse
      <4> QED
        BY <4>1, <4>3, <1>2, <2>1 DEF RoundInv, CompleteInv
    <3> QED
      BY <3>1, <3>2
  <2> QED
    BY <1>3, <2>4 DEF RoundInv
<1> QED
  BY <1>4, <1>5

\* A round starts.
LEMMA RoundStart ==
  ASSUME ChainInv, RoundInv, ActivateRound PROVE RoundInv'
<1> USE DEF ChainInv
<1>1. /\ act.at = "wait"
      /\ act'.at = "select" /\ act'.start = tip
      /\ UNCHANGED <<received, scripts, marks, candidates, tip, env>>
  BY DEF ActivateRound, locks
<1>2. Unusable' = Unusable /\ seqId' = seqId /\ index' = index
  BY <1>1 DEF Unusable, Failed, marks, received
<1>3. ScriptInv' /\ StartInv'
  BY <1>1, <1>2 DEF RoundInv, ScriptInv, StartInv, BadBlocks, StoreInv, MarkInv
<1>4. CompleteInv'
  BY <1>1, <1>2 DEF RoundInv, CompleteInv
<1> QED
  BY <1>3, <1>4 DEF RoundInv

\* While the tip is worse than the start of the round there is a way back: the
\* round does not end there.
LEMMA RoundSelect ==
  ASSUME ChainInv, RoundInv, ActivateSelect
  PROVE RoundInv' /\ (act'.at \in {"idle", "wait"} => tip' = tip /\ tip = act.start)
<1> USE DEF ChainInv
<1>0. ChainType /\ StoreInv /\ NumberInv /\ GoalInv /\ MarkInv /\ CandInv
  OBVIOUS
<1> DEFINE s == act.start
<1>1. /\ Unusable \subseteq Unusable'
      /\ \A c \in Blocks : Chain[c] \cap Unusable = {} => Chain[c] \cap Unusable' = {}
      /\ candidates' \subseteq candidates
      /\ \A y \in candidates \ candidates' : y \in Unusable'
      /\ Aim # None => Aim \in candidates /\ Aim \in Blocks
      /\ act.at = "select" /\ s \in Blocks /\ tip \in Blocks
      /\ UNCHANGED <<received, scripts, failedValid, failedBlocks, env>>
  BY SelectEffect
<1>2. /\ s \in Linked(seqId) /\ Chain[s] \cap Unusable = {} /\ Chain[s] \subseteq scripts
      /\ tip = s \/ Worse(seqId, tip, s)
  BY <1>1 DEF RoundInv, ScriptInv, StartInv
<1>3. seqId' = seqId /\ index' = index /\ seqId \in [Blocks -> Nat]
  BY <1>1 DEF received, ChainType
<1>4. ~Worse(seqId, s, tip) /\ ~Worse(seqId, s, s)
  BY SMTT(30), <1>1, <1>2, <1>3, WorseOrder
<1>5. s \in candidates
  <2>1. s \notin Unusable /\ s \in index
    BY <1>1, <1>2, ChainBasics, StoredChains
  <2> QED
    BY <2>1, <1>1, <1>2, <1>4 DEF RoundInv, CompleteInv
<1>6. Aim # None /\ ~Worse(seqId, Aim, s)
  <2>1. CASE act.mostWork = None
    <3>1. s \in Usable
      BY <1>2, <1>5 DEF Usable, MarkedOnPath
    <3>2. MostWork # None
      <4>1. \E c \in Usable : \A x \in Usable : ~Worse(seqId, c, x)
        BY <3>1, <1>3, BestExists DEF Usable, ChainType
      <4>2. MostWork \in Usable
        BY <3>1, <4>1 DEF MostWork
      <4> QED
        BY <4>2, ChainStateAssumption DEF Usable, ChainType
    <3> QED
      BY <2>1, <3>1, <3>2, MostWorkIs DEF Aim
  <2>2. CASE act.mostWork # None
    BY <2>2, <1>1 DEF Aim, GoalInv, CandInv
  <2> QED
    BY <2>1, <2>2
<1>7. CASE Aim = tip
  <2>1. tip = s
    BY <1>2, <1>6, <1>7
  <2>2. act' = Idle /\ tip' = tip
    BY <1>7, SelectCases
  <2>3. ScriptInv' /\ StartInv'
    BY <1>1, <2>2 DEF RoundInv, ScriptInv, StartInv, BadBlocks, Idle
  <2>4. CompleteInv'
    BY <1>1, <1>3, <2>1, <2>2 DEF RoundInv, CompleteInv, Idle
  <2> QED
    BY <2>1, <2>2, <2>3, <2>4 DEF RoundInv, Idle
<1>8. CASE Aim # tip
  <2>1. tip' = Fork(tip, Aim) /\ act'.at = "connect" /\ act'.start = s
    BY SMTT(30), <1>6, <1>8, SelectCases
  <2>2. tip' \in Chain[tip]
    BY <1>1, <1>6, <1>8, <2>1, ForkBelow
  <2>3. ScriptInv'
    BY <1>1, <1>2, <2>1, <2>2, ChainTransitive DEF RoundInv, ScriptInv, BadBlocks
  <2>4. StartInv'
    BY <1>1, <1>2, <1>3, <2>1 DEF StartInv
  <2>5. CompleteInv'
    <3> SUFFICES ASSUME NEW b \in (index \cap Linked(seqId)) \ Unusable', ~Worse(seqId, b, s)
                 PROVE b \in candidates'
      BY <1>3, <2>1 DEF CompleteInv
    <3>1. b \in Blocks
      BY DEF Linked
    <3>2. ~Worse(seqId, b, tip)
      BY <3>1, <1>1, <1>2, <1>3, WorseOrder
    <3>3. b \in candidates
      BY <3>2, <1>1 DEF RoundInv, CompleteInv
    <3> QED
      BY <3>3, <1>1
  <2> QED
    BY <2>1, <2>3, <2>4, <2>5 DEF RoundInv
<1> QED
  BY <1>7, <1>8

\* A block that fails to connect is not on the chain the round started on.
LEMMA RoundConnectFails ==
  ASSUME ChainInv, RoundInv, Conflicting = {}, ConnectFails
  PROVE RoundInv' /\ (act'.at \in {"idle", "wait"} => ~Worse(seqId, tip', act.start))
<1> USE DEF ChainInv
<1> DEFINE w == NextToConnect
           s == act.start
<1>1. /\ act.at = "connect" /\ w \in BadBlocks
      /\ failedValid' = failedValid \cup {w}
      /\ candidates' = candidates \ {w}
      /\ act' = AfterStep(tip, None, s)
      /\ UNCHANGED <<received, scripts, failedChild, conflict, tip, env>>
  BY DEF ConnectFails, locks
<1>2. w \in index /\ w \notin Chain[tip] /\ w # Genesis
  BY <1>1, NextIs
<1>3. tip \in Blocks /\ s \in Blocks /\ seqId \in [Blocks -> Nat]
  BY <1>1, ActFields DEF ChainType
<1>4. /\ act'.at \in {"idle", "wait", "select"}
      /\ act'.at = "select" => act'.start = s /\ Worse(seqId, tip, s)
      /\ act'.at # "select" => ~Worse(seqId, tip, s)
  <2>1. CASE Worse(seqId, tip, s)
    BY <1>1, <2>1 DEF AfterStep
  <2>2. CASE ~Worse(seqId, tip, s)
    BY <1>1, <2>2 DEF AfterStep, Idle
  <2> QED
    BY <2>1, <2>2
<1>5. w \notin Chain[s]
  BY <1>1, <1>2 DEF RoundInv, ScriptInv
<1>6. Unusable' = Unusable \cup {w} /\ seqId' = seqId /\ index' = index /\ BadBlocks' = BadBlocks
  BY <1>1 DEF Unusable, Failed, received, BadBlocks
<1> HIDE DEF w
<1>7. ScriptInv'
  BY <1>1, <1>4, <1>6 DEF RoundInv, ScriptInv
<1>8. StartInv'
  BY <1>1, <1>4, <1>5, <1>6 DEF RoundInv, StartInv
<1>9. CompleteInv'
  <2> SUFFICES ASSUME NEW b \in (index \cap Linked(seqId)) \ Unusable',
                      ~Worse(seqId, b, tip), act'.at = "select" => ~Worse(seqId, b, s)
               PROVE b \in candidates'
    BY <1>1, <1>4, <1>6 DEF CompleteInv
  <2>1. b \in Blocks /\ b \notin Unusable /\ b # w
    BY <1>6 DEF Linked
  <2>2. ~Worse(seqId, b, s)
    BY <2>1, <1>3, <1>4, WorseOrder
  <2> QED
    BY <2>1, <2>2, <1>1 DEF RoundInv, CompleteInv
<1> QED
  BY <1>1, <1>4, <1>7, <1>8, <1>9 DEF RoundInv

\* A block connects.
LEMMA RoundConnectTip ==
  ASSUME ChainInv, RoundInv, ConnectTip
  PROVE RoundInv' /\ (act'.at \in {"idle", "wait"} => ~Worse(seqId, tip', act.start))
<1> USE DEF ChainInv
<1> DEFINE w == NextToConnect
           s == act.start
           m == act.mostWork
<1>1. /\ act.at = "connect" /\ w \notin BadBlocks
      /\ tip' = w
      /\ scripts' = scripts \cup {w}
      /\ candidates' = {c \in candidates : ~Worse(seqId, c, w)}
      /\ UNCHANGED <<received, marks, env>>
  BY DEF ConnectTip, locks, PruneBlockIndexCandidates
<1>2. w \in Blocks /\ Parent[w] = tip /\ w # Genesis /\ Chain[w] = Chain[tip] \cup {w}
  BY <1>1, NextIs
<1>3. tip \in Blocks /\ s \in Blocks /\ m \in Blocks /\ seqId \in [Blocks -> Nat]
  BY <1>1, ActFields DEF ChainType
<1>4. /\ act'.at \in {"idle", "wait", "select", "connect"}
      /\ act'.at \in {"select", "connect"} => act'.start = s
      /\ act'.at = "select" => Worse(seqId, w, s)
      /\ act'.at \in {"idle", "wait"} => ~Worse(seqId, w, s)
  <2>1. CASE w = m \/ Height(w) > Height(act.oldTip)
    <3>1. act' = AfterStep(w, m, s)
      BY <2>1 DEF ConnectTip
    <3> QED
      BY SMTT(30), <3>1, <1>2, <1>3, AfterStepIs
  <2>2. CASE ~(w = m \/ Height(w) > Height(act.oldTip))
    <3>1. act' = act
      BY <2>2 DEF ConnectTip
    <3> QED
      BY <3>1, <1>1
  <2> QED
    BY <2>1, <2>2
<1>5. Unusable' = Unusable /\ seqId' = seqId /\ index' = index /\ BadBlocks' = BadBlocks
  BY <1>1 DEF Unusable, Failed, marks, received, BadBlocks
<1>6. \A b \in Blocks : ~Worse(seqId, b, w) => ~Worse(seqId, b, tip)
  <2>1. tip \in Chain[w] /\ tip # w
    BY <1>2, <1>3, ChainBasics, ParentIsBelow
  <2>2. ~Worse(seqId, w, tip)
    BY <2>1, <1>2, <1>3, WorseOrder
  <2> QED
    BY <2>2, <1>2, <1>3, WorseOrder
<1> HIDE DEF w
<1>7. ScriptInv'
  BY <1>1, <1>2, <1>4, <1>5 DEF RoundInv, ScriptInv
<1>8. StartInv'
  BY <1>1, <1>4, <1>5 DEF RoundInv, StartInv
<1>9. CompleteInv'
  <2> SUFFICES ASSUME NEW b \in (index \cap Linked(seqId)) \ Unusable,
                      ~Worse(seqId, b, w),
                      act'.at \in {"select", "connect"} => ~Worse(seqId, b, s)
               PROVE b \in candidates'
    BY <1>1, <1>4, <1>5 DEF CompleteInv
  <2>1. b \in Blocks
    BY DEF Linked
  <2>2. ~Worse(seqId, b, s)
    BY SMTT(30), <2>1, <1>2, <1>3, <1>4, WorseOrder
  <2>3. ~Worse(seqId, b, tip)
    BY <2>1, <1>6
  <2> QED
    BY <2>2, <2>3, <1>1 DEF RoundInv, CompleteInv
<1> QED
  BY <1>1, <1>4, <1>7, <1>8, <1>9 DEF RoundInv

\* Blocks whose marks go become candidates when they are good enough.
LEMMA RoundReset ==
  ASSUME ChainInv, RoundInv, NEW b \in index, NEW i \in BOOLEAN, ResetBlockFailureFlags(b, i),
         act.at \notin {"select", "connect"}, act' = act \/ (act.at = "reset" /\ act' = Idle),
         UNCHANGED <<received, scripts, tip, env>>
  PROVE RoundInv'
<1> USE DEF ChainInv
<1>0. ChainType /\ StoreInv /\ NumberInv /\ GoalInv /\ MarkInv /\ CandInv
  OBVIOUS
<1>1. /\ \A c \in candidates \ candidates' : c \in failedValid'
      /\ \A c \in (Unusable \cap Linked(seqId)) \ (failedValid' \cup failedChild' \cup conflict') :
           Worse(seqId, tip, c) => c \in candidates'
  BY <1>0, ResetEffect
<1>2. act'.at \notin {"select", "connect"} /\ (act.at = "disconnect" => act'.at = "disconnect")
  BY SMTT(30) DEF Idle
<1>3. ScriptInv' /\ StartInv'
  BY <1>2 DEF RoundInv, ScriptInv, StartInv, BadBlocks
<1>4. CompleteInv'
  <2> SUFFICES ASSUME act.at # "disconnect",
                      NEW c \in (index \cap Linked(seqId)) \ Unusable', ~Worse(seqId, c, tip)
               PROVE c \in candidates'
    BY <1>2 DEF CompleteInv, received
  <2>1. CASE c \notin Unusable
    <3>1. c \in candidates
      BY <2>1 DEF RoundInv, CompleteInv
    <3> QED
      BY <3>1, <1>1 DEF Unusable, Failed
  <2>2. CASE c \in Unusable
    <3>1. c # tip
      BY <2>2, ChainBasics DEF MarkInv, ChainType
    <3>2. Worse(seqId, tip, c)
      BY <3>1, WorseTotal DEF StoreInv
    <3> QED
      BY <2>2, <3>2, <1>1 DEF Unusable, Failed
  <2> QED
    BY <2>1, <2>2
<1> QED
  BY <1>3, <1>4 DEF RoundInv

\* InvalidateBlock, from the start to the end.
LEMMA RoundInvalidate ==
  ASSUME ChainInv, RoundInv,
         \/ \E b \in Blocks \ {Genesis} : InvalidateBlock(b)
         \/ InvalidateDisconnect
         \/ InvalidateFinish
  PROVE RoundInv'
<1> USE DEF ChainInv
<1>1. CASE \E b \in Blocks \ {Genesis} : InvalidateBlock(b)
  <2>1. act'.at = "disconnect" /\ UNCHANGED <<scripts, tip, env>>
    BY SMTT(30), <1>1 DEF InvalidateBlock, locks
  <2> QED
    BY <2>1 DEF RoundInv, ScriptInv, StartInv, CompleteInv, BadBlocks
<1>2. CASE InvalidateDisconnect
  <2>1. act.at = "disconnect" /\ act.block \in Chain[tip] /\ tip' = Parent[tip]
        /\ UNCHANGED <<scripts, env>>
    BY <1>2 DEF InvalidateDisconnect, locks
  <2>2. act'.at = "disconnect"
    <3>1. act = [at |-> "disconnect", block |-> act.block, last |-> act.last, byWork |-> act.byWork]
      BY <2>1, ActFields DEF ChainType
    <3> QED
      BY <1>2, <3>1 DEF InvalidateDisconnect
  <2>3. tip # Genesis /\ tip \in Blocks
    BY <2>1, ChainBasics DEF GoalInv, ChainType
  <2>4. Chain[Parent[tip]] \subseteq Chain[tip]
    BY SMTT(30), <2>3, ChainBasics
  <2> QED
    BY <2>1, <2>2, <2>4 DEF RoundInv, ScriptInv, StartInv, CompleteInv, BadBlocks
<1>3. CASE InvalidateFinish
  <2>1. /\ failedValid' = failedValid \cup {act.last}
        /\ candidates' = (candidates \ {act.last}) \cup
                         EligibleFor(tip, Failed \cup {act.last} \cup conflict)
        /\ act' = Idle
        /\ UNCHANGED <<received, scripts, failedChild, conflict, tip, env>>
    BY <1>3 DEF InvalidateFinish, locks
  <2>2. ScriptInv' /\ StartInv'
    BY <2>1 DEF RoundInv, ScriptInv, StartInv, BadBlocks, Idle
  <2>3. CompleteInv'
    BY <2>1 DEF CompleteInv, EligibleFor, Unusable, Failed, received, Idle, Linked, Worse
  <2> QED
    BY <2>2, <2>3 DEF RoundInv
<1> QED
  BY <1>1, <1>2, <1>3

\* A step that leaves the block index and the round alone keeps the invariant.
LEMMA RoundUnchanged ==
  ASSUME RoundInv, UNCHANGED <<received, scripts, marks, candidates, tip, env>>,
         act' = act \/ (act.at = "idle" /\ act'.at = "wait")
  PROVE RoundInv'
<1>1. Unusable' = Unusable /\ seqId' = seqId /\ index' = index
  BY DEF Unusable, Failed, marks, received
<1>2. ScriptInv' /\ StartInv'
  BY <1>1 DEF RoundInv, ScriptInv, StartInv, BadBlocks
<1>3. CompleteInv'
  <2>1. CASE act' = act
    BY <1>1, <2>1 DEF RoundInv, CompleteInv
  <2>2. CASE act.at = "idle" /\ act'.at = "wait"
    BY <1>1, <2>2 DEF RoundInv, CompleteInv
  <2> QED
    BY <2>1, <2>2
<1> QED
  BY <1>2, <1>3 DEF RoundInv

\* Every action keeps the invariant, and a round that ends leaves no worse a tip.
LEMMA RoundStepInv ==
  ASSUME NoLocks, ChainInv, LockBlockType, RoundInv, [Next]_vars
  PROVE RoundInv' /\ (RoundEnds => ~Worse(seqId, tip', act.start))
<1>0. lockBlock = None /\ Conflicting = {} /\ Locks = {}
  BY NothingConflicts DEF ChainInv
<1>n. RoundEnds <=> (act.at \in {"connect", "select"} /\ act'.at \in {"idle", "wait"})
  BY DEF RoundEnds
<1>f. CsMainFree => ~RoundEnds
  BY DEF CsMainFree, RoundEnds
<1>1. CASE \E b \in Blocks \ {Genesis} : AcceptHeaderOfInvalidChain(b)
  <2>1. CsMainFree /\ Unusable \subseteq Unusable'
        /\ UNCHANGED <<index, seqId, scripts, candidates, tip, act, env>>
    BY <1>1 DEF AcceptHeaderOfInvalidChain, NewHeader, locks, received, Unusable, Failed
  <2> QED
    BY <2>1, <1>f, RoundMarks
<1>2. CASE \E b \in Blocks \ {Genesis} : AcceptConflictingHeader(b)
  BY <1>0, <1>2 DEF AcceptConflictingHeader
<1>3. CASE \E b \in Blocks \ {Genesis} : AcceptBlockHeader(b) /\ UNCHANGED locks
  <2>1. PICK b \in Blocks \ {Genesis} : AcceptBlockHeader(b) /\ UNCHANGED locks
    BY <1>3
  <2>2. CsMainFree /\ Unusable = Unusable' /\ index' = index \cup {b} /\ b \notin index
        /\ UNCHANGED <<seqId, scripts, candidates, tip, act, env>>
    BY <2>1 DEF AcceptBlockHeader, NewHeader, locks, marks, Unusable, Failed
  <2>3. b \notin Linked(seqId)
    BY <2>2, StoredChains DEF ChainInv
  <2> QED
    BY <2>2, <2>3, <1>f, RoundMarks
<1>4. CASE \E b \in Blocks \ {Genesis} : AcceptBadBlock(b)
  <2>1. CsMainFree /\ Unusable \subseteq Unusable'
        /\ UNCHANGED <<index, seqId, scripts, candidates, tip, act, env>>
    BY <1>4 DEF AcceptBadBlock, locks, received, Unusable, Failed
  <2> QED
    BY <2>1, <1>f, RoundMarks
<1>5. CASE \E b \in Blocks \ {Genesis} : AcceptBlock(b)
  BY <1>5, <1>f, RoundBlock DEF AcceptBlock
<1>6. CASE ActivateBestChain
  <2>1. act.at = "idle" /\ act'.at = "wait"
        /\ UNCHANGED <<received, scripts, marks, candidates, tip, env>>
    BY <1>6 DEF ActivateBestChain, MutexFree, locks
  <2> QED
    BY <2>1, <1>n, RoundUnchanged
<1>7. CASE Activation
  <2>1. CASE ActivateRound
    <3>1. act.at = "wait"
      BY <2>1 DEF ActivateRound
    <3> QED
      BY <2>1, <3>1, <1>n, RoundStart
  <2>2. CASE ActivateSelect
    <3>1. RoundInv' /\ (act'.at \in {"idle", "wait"} => tip' = tip /\ tip = act.start)
      BY <2>2, RoundSelect
    <3>2. ~Worse(seqId, tip, tip)
      BY WorseOrder DEF ChainInv, ChainType
    <3> QED
      BY <3>1, <3>2, <1>n
  <2>3. CASE ConnectFails
    BY <2>3, <1>0, <1>n, RoundConnectFails
  <2>4. CASE ConnectTip
    BY <2>4, <1>n, RoundConnectTip
  <2>5. CASE EnforceReset
    <3>1. /\ act.at = "reset" /\ ResetBlockFailureFlags(act.block, FALSE) /\ act' = Idle
          /\ UNCHANGED <<received, scripts, tip, env>>
      BY <2>5 DEF EnforceReset, locks
    <3>2. act.block \in index
      BY <3>1 DEF ChainInv, GoalInv
    <3> QED
      BY <3>1, <3>2, <1>n, RoundReset
  <2>6. CASE InvalidateDisconnect
    BY <2>6, <1>n, RoundInvalidate DEF InvalidateDisconnect
  <2>7. CASE InvalidateFinish
    BY <2>7, <1>n, RoundInvalidate DEF InvalidateFinish
  <2> QED
    BY <1>7, <2>1, <2>2, <2>3, <2>4, <2>5, <2>6, <2>7 DEF Activation
<1>8. CASE \E b \in env.mayInvalidate : InvalidateBlock(b)
  <2>1. env.mayInvalidate \subseteq Blocks \ {Genesis}
    BY ChainStateAssumption DEF ChainInv, ChainType, Environment
  <2>2. act.at = "idle"
    BY <1>8 DEF InvalidateBlock, MutexFree
  <2> QED
    BY <1>8, <1>n, <2>1, <2>2, RoundInvalidate
<1>9. CASE \E b \in env.mayReconsider : ReconsiderBlock(b)
  <2>1. PICK b \in env.mayReconsider : ReconsiderBlock(b)
    BY <1>9
  <2>2. /\ b \in index /\ CsMainFree /\ act' = act
        /\ UNCHANGED <<received, scripts, tip, env>>
    BY <2>1 DEF ReconsiderBlock, locks
  <2>3. PICK i \in BOOLEAN : ResetBlockFailureFlags(b, i)
    BY <2>1 DEF ReconsiderBlock
  <2>4. act.at \notin {"select", "connect"}
    BY <2>2 DEF CsMainFree
  <2> QED
    BY <2>2, <2>3, <2>4, <1>f, RoundReset
<1>10. CASE \E l \in Locks : NewLock(l)
  BY <1>0, <1>10
<1>11. CASE lockBlock # None /\ EnforceBlock(lockBlock)
  BY <1>0, <1>11
<1>12. CASE UNCHANGED vars
  <2>1. UNCHANGED <<received, scripts, marks, candidates, tip, env, act>>
    BY <1>12 DEF vars, locks
  <2>2. ~RoundEnds
    BY <2>1 DEF RoundEnds
  <2> QED
    BY <2>1, <2>2, RoundUnchanged
<1> QED
  BY SMTT(30), <1>1, <1>2, <1>3, <1>4, <1>5, <1>6, <1>7, <1>8, <1>9, <1>10, <1>11, <1>12 DEF Next

\* The invariant holds throughout.
LEMMA RoundInvariant ==
  ASSUME NoLocks PROVE Spec => [](ChainInv /\ LockBlockType /\ RoundInv)
<1>1. Init => ChainInv /\ LockBlockType /\ RoundInv
  BY EmptyInv, RoundInit DEF Init, EmptyIndex, LockBlockType
<1>2. ChainInv /\ LockBlockType /\ RoundInv /\ [Next]_vars
        => (ChainInv /\ LockBlockType /\ RoundInv)'
  BY ChainStepInv, RoundStepInv
<1> QED
  BY <1>1, <1>2, PTL DEF Spec

\* CheckBlockIndex: without ChainLocks, setBlockIndexCandidates holds, whenever
\* cs_main is free, the tip and every unmarked and fully downloaded block that is
\* at least as good, and never one that sorts worse than the tip or misses data.
THEOREM CandidatesStayExact ==
  ASSUME NoLocks PROVE Spec => []CandidatesExact
<1>1. ASSUME ChainInv, RoundInv PROVE CandidatesExact
  <2> SUFFICES ASSUME CsMainFree
               PROVE /\ act.at # "disconnect" =>
                          \A b \in index \cap Linked(seqId) :
                            (~Worse(seqId, b, tip) /\ Chain[b] \cap (failedValid \cup conflict) = {})
                              => b \in candidates
                     /\ \A c \in candidates : c \in Linked(seqId) /\ ~Worse(seqId, c, tip)
    BY DEF CandidatesExact
  <2>1. \A c \in candidates : c \in Linked(seqId) /\ ~Worse(seqId, c, tip)
    BY <1>1 DEF ChainInv, CandInv
  <2>2. ASSUME act.at # "disconnect", NEW b \in index \cap Linked(seqId),
               ~Worse(seqId, b, tip), Chain[b] \cap (failedValid \cup conflict) = {}
        PROVE b \in candidates
    <3>1. b \in Blocks /\ b \in Chain[b]
      BY ChainBasics DEF Linked
    <3>2. b \notin Failed
      BY <1>1, <2>2, MarkedHaveRoot DEF ChainInv
    <3>3. b \notin Unusable
      BY <2>2, <3>1, <3>2 DEF Unusable
    <3>4. act.at \notin {"select", "connect"}
      BY DEF CsMainFree
    <3> QED
      BY <1>1, <2>2, <3>3, <3>4 DEF RoundInv, CompleteInv
  <2> QED
    BY <2>1, <2>2
<1> QED
  BY <1>1, RoundInvariant, PTL

\* "We absolutely may not unlock cs_main until we've made forward progress":
\* without ChainLocks a round of ActivateBestChain never ends at a tip that is
\* worse than the one it started from.
THEOREM RoundsEndNoWorse ==
  ASSUME NoLocks
  PROVE Spec => [][RoundEnds => ~Worse(seqId, tip', act.start)]_vars
<1>1. ChainInv /\ LockBlockType /\ RoundInv /\ [Next]_vars
        => [RoundEnds => ~Worse(seqId, tip', act.start)]_vars
  BY RoundStepInv
<1> QED
  BY <1>1, RoundInvariant, PTL DEF Spec

\* The property the runs check, which leaves room for ChainLocks: a round of
\* ActivateBestChain ends at a worse tip only when the chain it started from got
\* marked.  Without ChainLocks it follows from RoundsEndNoWorse.
THEOREM RoundsProgress ==
  ASSUME NoLocks PROVE Spec => RoundsMakeProgress
<1>1. [RoundEnds => ~Worse(seqId, tip', act.start)]_vars
        => [RoundEnds /\ Worse(seqId, tip', act.start) =>
              Chain[act.start] \cap (failedValid' \cup conflict' \cup Conflicting) # {}]_vars
  OBVIOUS
<1> QED
  BY <1>1, RoundsEndNoWorse, PTL DEF RoundsMakeProgress

-----------------------------------------------------------------------------
(***************************************************************************)
(* The handler of ChainLocks: the inductive invariants                     *)
(***************************************************************************)

\* The threads work on locks, the scheduler's last phase on a tip it has read.
\* Nobody calls InvalidateBlock.
HandlerType ==
  /\ LockBlockType
  /\ act.at # "disconnect"
  /\ spork \in SporkValues
  /\ best \in Locks \cup {None}
  /\ lastNotify \in Locks \cup {None}
  /\ seen \subseteq Locks
  /\ lastSigned \in Blocks \cup {None}
  /\ thread \in [Threads -> [at : ProcStates \cup SchedStates,
                             block : Blocks \cup {None}, known : BOOLEAN]]
  /\ \A p \in Procs : thread[p].at \in ProcStates /\ (thread[p].at # "idle" => thread[p].block \in Locks)
  /\ thread[Sched].at \in SchedStates
  /\ thread[Sched].at \in {"enforce", "check", "recheck", "notify"} => thread[Sched].block \in Locks
  /\ thread[Sched].at \in {"checktip", "sign"} => thread[Sched].block \in Blocks

\* No block of a locked chain is marked, whether or not the lock has come in.
LockedInv == \A l \in Locks : Chain[l] \cap Unusable = {}

\* A lock on its way to SetBest is higher than the best one.
RiseInv == \A p \in Procs : thread[p].at \in {"lookup", "set"} => Higher(thread[p].block, best)

-----------------------------------------------------------------------------
(***************************************************************************)
(* Types                                                                   *)
(***************************************************************************)
ThreadType == [at : ProcStates \cup SchedStates, block : Blocks \cup {None}, known : BOOLEAN]

\* A thread that goes to its next critical section keeps the lock it works on.
LEMMA GotoIs ==
  ASSUME HandlerType, NEW t \in Threads, NEW a \in ProcStates \cup SchedStates, Goto(t, a)
  PROVE /\ thread' \in [Threads -> ThreadType]
        /\ \A u \in Threads \ {t} : thread'[u] = thread[u]
        /\ thread'[t].at = a /\ thread'[t].block = thread[t].block
  BY DEF HandlerType, Goto, ThreadType

\* A thread that is done holds no lock any more.
LEMMA DoneIs ==
  ASSUME HandlerType, NEW t \in Threads, Done(t)
  PROVE /\ thread' \in [Threads -> ThreadType]
        /\ \A u \in Threads \ {t} : thread'[u] = thread[u]
        /\ thread'[t].at = "idle"
  BY DEF HandlerType, Done, ThreadType, Free, ProcStates

\* A thread that enters CheckActiveState comes out with the lock it was called for.
LEMMA CheckIs ==
  ASSUME HandlerType, NEW t \in Threads, NEW b \in Blocks \cup {None}, CheckActiveState(t, b)
  PROVE /\ thread' \in [Threads -> ThreadType]
        /\ \A u \in Threads \ {t} : thread'[u] = thread[u]
        /\ thread'[t].at \in {"reset", "go"} /\ thread'[t].block = b
        /\ thread'[t].at = "reset" <=> (~isEnabled /\ Enabled)
        /\ thread[t].at = "idle" /\ isEnabled' = Enabled
  BY DEF HandlerType, CheckActiveState, ThreadType, ProcStates

\* A thread that has looked up the block of its lock.
LEMMA LookedUpIs ==
  ASSUME HandlerType, NEW t \in Threads, NEW k \in BOOLEAN,
         thread' = [thread EXCEPT ![t].at = "set", ![t].known = k]
  PROVE /\ thread' \in [Threads -> ThreadType]
        /\ \A u \in Threads \ {t} : thread'[u] = thread[u]
        /\ thread'[t].at = "set" /\ thread'[t].block = thread[t].block /\ thread'[t].known = k
  BY DEF HandlerType, ThreadType, ProcStates

\* The scheduler has read the block it is to work on.
LEMMA ReadIs ==
  ASSUME HandlerType, NEW t \in Threads, NEW a \in SchedStates, NEW b \in Blocks,
         thread' = [thread EXCEPT ![t].at = a, ![t].block = b]
  PROVE /\ thread' \in [Threads -> ThreadType]
        /\ \A u \in Threads \ {t} : thread'[u] = thread[u]
        /\ thread'[t].at = a /\ thread'[t].block = b
  BY DEF HandlerType, ThreadType

\* A step of one thread, checked field by field.
LEMMA ThreadMoves ==
  ASSUME HandlerType, act'.at # "disconnect", Locks' = Locks,
         LockBlockType', spork' \in SporkValues, best' \in Locks \cup {None},
         lastNotify' \in Locks \cup {None}, seen' \subseteq Locks, lastSigned' \in Blocks \cup {None},
         NEW t \in Threads, thread' \in [Threads -> ThreadType],
         \A u \in Threads \ {t} : thread'[u] = thread[u],
         t \in Procs => /\ thread'[t].at \in ProcStates
                        /\ thread'[t].at # "idle" => thread'[t].block \in Locks,
         t = Sched => /\ thread'[t].at \in SchedStates
                      /\ thread'[t].at \in {"enforce", "check", "recheck", "notify"} => thread'[t].block \in Locks
                      /\ thread'[t].at \in {"checktip", "sign"} => thread'[t].block \in Blocks
  PROVE HandlerType'
<1>1. Sched \in Threads /\ \A p \in Procs : p \in Threads /\ p # Sched
  BY ChainLocksAssumption DEF Threads
<1>2. \A p \in Procs : thread'[p].at \in ProcStates /\ (thread'[p].at # "idle" => thread'[p].block \in Locks)
  BY <1>1 DEF HandlerType
<1>3. /\ thread'[Sched].at \in SchedStates
      /\ thread'[Sched].at \in {"enforce", "check", "recheck", "notify"} => thread'[Sched].block \in Locks
      /\ thread'[Sched].at \in {"checktip", "sign"} => thread'[Sched].block \in Blocks
  BY <1>1 DEF HandlerType
<1> QED
  BY <1>2, <1>3 DEF HandlerType, ThreadType

\* The locks are blocks of the tree, on one chain.
LEMMA LocksAre ==
  ASSUME ChainInv
  PROVE /\ Locks \subseteq Blocks /\ None \notin Blocks
        /\ \A k, l \in Locks : k \in Chain[l] \/ l \in Chain[k]
        /\ Sched \in Threads /\ \A p \in Procs : p \in Threads /\ p # Sched
  BY ChainStateAssumption, ChainLocksAssumption
  DEF ChainInv, ChainType, Locks, Environment, Threads

\* The chain moves with the handler at rest, or the handler with the chain at
\* rest, but for three steps that do both.
LEMMA StepKinds ==
  ASSUME LockNext
  PROVE \/ ChainStep
        \/ \E b \in Blocks \ {Genesis} : AcceptedBlockHeader(b)
        \/ Enforce
        \/ CheckActivationNeeded /\ ActivateBestChain
        \/ UNCHANGED <<received, scripts, marks, candidates, tip, act, env>>
<1>1. CASE ChainStep
  BY <1>1
<1>2. CASE \E b \in Blocks \ {Genesis} : AcceptedBlockHeader(b)
  BY <1>2
<1>3. CASE ScheduledTask
  BY <1>3 DEF ScheduledTask, CheckActiveState
<1>4. CASE SchedStep
  <2>1. CASE CheckActivationNeeded
    BY <2>1 DEF CheckActivationNeeded, vars, locks
  <2>2. CASE Enforce
    BY <2>2
  <2> QED
    BY <1>4, <2>1, <2>2 DEF SchedStep, ForgetLocks, ReadBestChainLock, Recheck, NotifyChainLock,
       TrySignChainTip, CheckTip, SignTip, vars, locks
<1>5. CASE \E p \in Procs, l \in Locks : ProcessNewChainLock(p, l)
  BY <1>5 DEF ProcessNewChainLock, CheckActiveState
<1>6. CASE \E p \in Procs : HandleNewRecoveredSig(p)
  BY <1>6 DEF HandleNewRecoveredSig, CheckActiveState
<1>7. CASE \E p \in Procs : ProcStep(p)
  BY <1>7 DEF ProcStep, ForgetLocks, NoteSeen, Lookup, SetBest, vars, locks
<1>8. CASE \E v \in SporkValues : ChangeSpork(v)
  BY <1>8 DEF ChangeSpork, vars, locks
<1> QED
  BY <1>1, <1>2, <1>3, <1>4, <1>5, <1>6, <1>7, <1>8 DEF LockNext

\* The block index and the active chain keep their invariant.
LEMMA LockChainStep ==
  ASSUME ChainInv, [LockNext]_allVars PROVE ChainInv'
<1>1. CASE ChainStep
  BY <1>1, HeaderOfInvalidChainInv, ConflictingHeaderInv, BlockInv, ActivateBestChainInv, ActivationInv
  DEF ChainStep
<1>2. CASE \E b \in Blocks \ {Genesis} : AcceptedBlockHeader(b)
  BY <1>2, HeaderInv DEF AcceptedBlockHeader
<1>3. CASE Enforce
  BY <1>3, EnforceInv DEF Enforce, EnforceBlock
<1>4. CASE CheckActivationNeeded /\ ActivateBestChain
  BY <1>4, ActivateBestChainInv
<1>5. CASE UNCHANGED <<received, scripts, marks, candidates, tip, act, env>>
  BY <1>5, UnchangedInv
<1>6. CASE UNCHANGED allVars
  BY <1>6, UnchangedInv DEF allVars, vars, locks
<1> QED
  BY <1>1, <1>2, <1>3, <1>4, <1>5, <1>6, StepKinds

\* Nobody is in InvalidateBlock.
LEMMA NobodyInvalidates ==
  ASSUME ChainInv, act.at # "disconnect", [LockNext]_allVars
  PROVE act'.at # "disconnect" /\ UNCHANGED env
<1>1. act \in Acts /\ tip \in Blocks
  BY StoredChains DEF ChainInv, ChainType
<1>2. CASE ChainStep
  <2>1. CASE EnforceReset
    <3>1. act' = Idle /\ UNCHANGED env
      BY <2>1 DEF EnforceReset, locks
    <3> QED
      BY <3>1 DEF Idle
  <2>6. CASE ActivateBestChain
    BY <2>6 DEF ActivateBestChain, locks
  <2>5. CASE ActivateRound
    BY <2>5 DEF ActivateRound, locks
  <2>4. CASE ActivateSelect
    BY SMTT(30), <2>4, SelectCases DEF ActivateSelect, Idle, locks
  <2>2. CASE ConnectFails
    BY <2>2 DEF ConnectFails, AfterStep, Idle, locks
  <2>3. CASE ConnectTip
    <3>1. NextToConnect \in Blocks
      BY <2>3, NextIs DEF ConnectTip, ChainInv
    <3> QED
      BY SMTT(30), <2>3, <3>1, <1>1, ActFields, AfterStepIs DEF ConnectTip, locks
  <2> QED
    BY SMTT(30), <1>2, <2>1, <2>2, <2>3, <2>4, <2>5, <2>6 DEF ChainStep, Activation, InvalidateDisconnect, InvalidateFinish,
       AcceptHeaderOfInvalidChain, AcceptConflictingHeader, AcceptBlock, locks
<1>3. CASE \E b \in Blocks \ {Genesis} : AcceptedBlockHeader(b)
  BY <1>3 DEF AcceptedBlockHeader, AcceptBlockHeader
<1>4. CASE Enforce
  BY <1>4 DEF Enforce, EnforceBlock, Idle, locks
<1>5. CASE CheckActivationNeeded /\ ActivateBestChain
  BY <1>5 DEF ActivateBestChain, locks
<1>6. CASE UNCHANGED <<received, scripts, marks, candidates, tip, act, env>> \/ UNCHANGED allVars
  BY <1>6 DEF allVars, vars, locks
<1> QED
  BY <1>2, <1>3, <1>4, <1>5, <1>6, StepKinds

\* The handler's variables keep their types.
LEMMA HandlerStep ==
  ASSUME ChainInv, HandlerType, [LockNext]_allVars PROVE HandlerType'
<1> USE DEF ProcStates, SchedStates
<1>1. act'.at # "disconnect" /\ UNCHANGED env /\ Locks' = Locks
  BY NobodyInvalidates DEF HandlerType, Locks
<1>2. /\ Locks \subseteq Blocks /\ None \notin Blocks
      /\ Sched \in Threads /\ \A p \in Procs : p \in Threads /\ p # Sched
  BY LocksAre
<1>3. CASE UNCHANGED handler /\ UNCHANGED isEnabled /\ lockBlock' \in {lockBlock, best}
  BY SMTT(30), <1>1, <1>3 DEF HandlerType, LockBlockType, handler
<1>4. ASSUME NEW t \in Threads, NEW b \in Locks \cup {None}, CheckActiveState(t, b), t \in Procs => b \in Locks
      PROVE HandlerType'
  <2>1. UNCHANGED <<lockBlock, spork, best, lastNotify, seen, lastSigned>> /\ isEnabled' \in BOOLEAN
    BY SMTT(30), <1>4 DEF CheckActiveState, Enabled
  <2>2. /\ thread' \in [Threads -> ThreadType]
        /\ \A u \in Threads \ {t} : thread'[u] = thread[u]
        /\ thread'[t].at \in {"reset", "go"} /\ thread'[t].block = b
    BY <1>4, <1>2, CheckIs
  <2>3. LockBlockType' /\ spork' \in SporkValues /\ best' \in Locks \cup {None} /\ seen' \subseteq Locks
        /\ lastNotify' \in Locks \cup {None} /\ lastSigned' \in Blocks \cup {None}
    BY <2>1, <1>1 DEF HandlerType, LockBlockType
  <2> QED
    BY <1>1, <1>4, <2>2, <2>3, ThreadMoves
<1>5. ASSUME UNCHANGED <<isEnabled, lockBlock, spork, best, lastNotify, lastSigned>>, seen' \subseteq Locks,
             NEW t \in Threads, thread' \in [Threads -> ThreadType],
             \A u \in Threads \ {t} : thread'[u] = thread[u],
             t \in Procs => /\ thread'[t].at \in ProcStates
                            /\ thread'[t].at # "idle" => thread'[t].block \in Locks,
             t = Sched => /\ thread'[t].at \in SchedStates
                          /\ thread'[t].at \in {"enforce", "check", "recheck", "notify"} => thread'[t].block \in Locks
                          /\ thread'[t].at \in {"checktip", "sign"} => thread'[t].block \in Blocks
      PROVE HandlerType'
  <2>1. LockBlockType' /\ spork' \in SporkValues /\ best' \in Locks \cup {None}
        /\ lastNotify' \in Locks \cup {None} /\ lastSigned' \in Blocks \cup {None}
    BY <1>5, <1>1 DEF HandlerType, LockBlockType
  <2> QED
    BY <1>1, <1>5, <2>1, ThreadMoves
<1>s. /\ thread[Sched].at \in {"enforce", "check", "recheck", "notify"} => thread[Sched].block \in Locks
      /\ thread[Sched].at \in {"checktip", "sign"} => thread[Sched].block \in Blocks
      /\ \A p \in Procs : thread[p].at # "idle" => thread[p].block \in Locks
      /\ seen \subseteq Locks
  BY DEF HandlerType
<1>6. ASSUME NEW t \in Threads, ForgetLocks(t)
      PROVE HandlerType'
  <2>1. /\ best' = None /\ lockBlock' = None /\ lastNotify' = None /\ UNCHANGED <<isEnabled, spork, seen, lastSigned>>
        /\ thread[t].at = "reset" /\ Goto(t, "go")
    BY <1>6 DEF ForgetLocks
  <2>2. /\ thread' \in [Threads -> ThreadType]
        /\ \A u \in Threads \ {t} : thread'[u] = thread[u]
        /\ thread'[t].at = "go" /\ thread'[t].block = thread[t].block
    BY <2>1, GotoIs
  <2>3. LockBlockType' /\ spork' \in SporkValues /\ best' \in Locks \cup {None} /\ seen' \subseteq Locks
        /\ lastNotify' \in Locks \cup {None} /\ lastSigned' \in Blocks \cup {None}
    BY <2>1, <1>1 DEF HandlerType, LockBlockType
  <2>4. t \in Procs => thread'[t].block \in Locks
    BY <2>1, <2>2, <1>s
  <2> QED
    BY <1>1, <2>2, <2>3, <2>4, ThreadMoves
<1>7. CASE \E p \in Procs : ProcStep(p)
  <2> PICK p \in Procs : ProcStep(p)
    BY <1>7
  <2>0. p \in Threads /\ p # Sched
    BY <1>2
  <2>1. CASE NoteSeen(p)
    <3>1. /\ UNCHANGED <<isEnabled, lockBlock, spork, best, lastNotify, lastSigned>> /\ thread[p].at = "go"
          /\ seen' = seen \cup {thread[p].block} /\ (Goto(p, "lookup") \/ Done(p))
      BY <2>1 DEF NoteSeen, vars, locks
    <3>2. thread[p].block \in Locks /\ seen' \subseteq Locks
      BY <3>1, <1>s
    <3>3. /\ thread' \in [Threads -> ThreadType]
          /\ \A u \in Threads \ {p} : thread'[u] = thread[u]
          /\ thread'[p].at = "idle" \/ (thread'[p].at = "lookup" /\ thread'[p].block = thread[p].block)
      BY <2>0, <3>1, GotoIs, DoneIs
    <3> QED
      BY <2>0, <3>1, <3>2, <3>3, <1>5
  <2>2. CASE Lookup(p)
    <3>1. /\ UNCHANGED <<isEnabled, lockBlock, spork, best, lastNotify, seen, lastSigned>> /\ thread[p].at = "lookup"
          /\ \/ thread' = [thread EXCEPT ![p].at = "set", ![p].known = thread[p].block \in index]
             \/ Done(p)
      BY <2>2 DEF Lookup, vars, locks
    <3>2. thread[p].block \in Locks /\ seen' \subseteq Locks
      BY <3>1, <1>s
    <3>3. /\ thread' \in [Threads -> ThreadType]
          /\ \A u \in Threads \ {p} : thread'[u] = thread[u]
          /\ thread'[p].at = "idle" \/ (thread'[p].at = "set" /\ thread'[p].block = thread[p].block)
      <4>1. (thread[p].block \in index) \in BOOLEAN
        BY SMTT(30)
      <4> QED
        BY <2>0, <3>1, <4>1, LookedUpIs, DoneIs
    <3> QED
      BY <2>0, <3>1, <3>2, <3>3, <1>5
  <2>3. CASE SetBest(p)
    <3>1. /\ UNCHANGED <<isEnabled, spork, lastNotify, seen, lastSigned>> /\ thread[p].at = "set" /\ Done(p)
          /\ best' = thread[p].block /\ lockBlock' \in {thread[p].block, lockBlock}
      BY <2>3 DEF SetBest
    <3>2. thread[p].block \in Locks
      BY <3>1, <1>s
    <3>3. /\ thread' \in [Threads -> ThreadType]
          /\ \A u \in Threads \ {p} : thread'[u] = thread[u]
          /\ thread'[p].at = "idle"
      BY <2>0, <3>1, DoneIs
    <3>4. LockBlockType' /\ spork' \in SporkValues /\ best' \in Locks \cup {None} /\ seen' \subseteq Locks
          /\ lastNotify' \in Locks \cup {None} /\ lastSigned' \in Blocks \cup {None}
      BY <3>1, <3>2, <1>1 DEF HandlerType, LockBlockType
    <3> QED
      BY <1>1, <2>0, <3>3, <3>4, ThreadMoves
  <2> QED
    BY <1>6, <2>0, <2>1, <2>2, <2>3 DEF ProcStep
<1>8. CASE SchedStep
  <2>0. Sched \in Threads /\ Sched \notin Procs
    BY <1>2
  <2>g. ASSUME NEW a \in SchedStates, Goto(Sched, a), UNCHANGED <<isEnabled, lockBlock, spork, best, lastNotify, seen, lastSigned>>,
               a \in {"enforce", "check", "recheck", "notify"} => thread[Sched].block \in Locks,
               a \in {"checktip", "sign"} => thread[Sched].block \in Blocks
        PROVE HandlerType'
    <3>1. /\ thread' \in [Threads -> ThreadType]
          /\ \A u \in Threads \ {Sched} : thread'[u] = thread[u]
          /\ thread'[Sched].at = a /\ thread'[Sched].block = thread[Sched].block
      BY <2>0, <2>g, GotoIs
    <3>2. seen' \subseteq Locks
      BY <2>g, <1>s
    <3> QED
      BY <2>0, <2>g, <3>1, <3>2, <1>5
  <2>d. ASSUME Done(Sched), UNCHANGED <<isEnabled, lockBlock, spork, best, lastNotify>>, seen' \subseteq Locks,
               lastSigned' \in Blocks \cup {None}
        PROVE HandlerType'
    <3>1. /\ thread' \in [Threads -> ThreadType]
          /\ \A u \in Threads \ {Sched} : thread'[u] = thread[u]
          /\ thread'[Sched].at = "idle"
      BY <2>0, <2>d, DoneIs
    <3>2. LockBlockType' /\ spork' \in SporkValues /\ best' \in Locks \cup {None}
          /\ lastNotify' \in Locks \cup {None}
      BY <2>d, <1>1 DEF HandlerType, LockBlockType
    <3> QED
      BY <1>1, <2>0, <2>d, <3>1, <3>2, ThreadMoves
  <2>r. ASSUME NEW a \in SchedStates, NEW b \in Blocks,
               thread' = [thread EXCEPT ![Sched].at = a, ![Sched].block = b],
               UNCHANGED <<isEnabled, lockBlock, spork, best, lastNotify, lastSigned>>, seen' \subseteq Locks,
               a \in {"enforce", "check", "recheck", "notify"} => b \in Locks
        PROVE HandlerType'
    <3>1. /\ thread' \in [Threads -> ThreadType]
          /\ \A u \in Threads \ {Sched} : thread'[u] = thread[u]
          /\ thread'[Sched].at = a /\ thread'[Sched].block = b
      BY <2>0, <2>r, ReadIs
    <3> QED
      BY <2>0, <2>r, <3>1, <1>5
  <2>1. CASE ReadBestChainLock
    <3>0. UNCHANGED <<isEnabled, lockBlock, spork, best, lastNotify, seen, lastSigned>> /\ seen' \subseteq Locks
      BY <2>1, <1>s DEF ReadBestChainLock, vars, locks
    <3>1. CASE isEnabled /\ lockBlock # None
      <4>1. lockBlock \in Locks /\ lockBlock \in Blocks
        BY <3>1, <1>2 DEF HandlerType, LockBlockType
      <4>2. thread' = [thread EXCEPT ![Sched].at = "enforce", ![Sched].block = lockBlock]
        BY <2>1, <3>1 DEF ReadBestChainLock
      <4> QED
        BY <3>0, <4>1, <4>2, <2>r
    <3>2. CASE ~(isEnabled /\ lockBlock # None)
      BY <2>1, <3>0, <3>2, <2>g DEF ReadBestChainLock
    <3> QED
      BY <3>1, <3>2
  <2>2. CASE Enforce
    <3>1. /\ UNCHANGED <<isEnabled, lockBlock, spork, best, lastNotify, seen, lastSigned>>
          /\ thread[Sched].at = "enforce" /\ Goto(Sched, "check")
      BY <2>2 DEF Enforce, EnforceBlock, locks
    <3> QED
      BY <3>1, <2>g, <1>s
  <2>3. CASE CheckActivationNeeded
    <3>1. /\ UNCHANGED <<isEnabled, lockBlock, spork, best, lastNotify, seen, lastSigned>>
          /\ thread[Sched].at = "check" /\ (Goto(Sched, "notify") \/ Goto(Sched, "recheck"))
      BY <2>3 DEF CheckActivationNeeded, ActivateBestChain, vars, locks
    <3> QED
      BY <3>1, <2>g, <1>s
  <2>4. CASE Recheck
    <3>1. /\ UNCHANGED <<isEnabled, lockBlock, spork, best, lastNotify, seen, lastSigned>>
          /\ thread[Sched].at = "recheck" /\ (Goto(Sched, "notify") \/ Goto(Sched, "trysign"))
      BY <2>4 DEF Recheck, vars, locks
    <3> QED
      BY <3>1, <2>g, <1>s
  <2>n. CASE NotifyChainLock
    <3>1. /\ UNCHANGED <<isEnabled, lockBlock, spork, best, seen, lastSigned>> /\ lastNotify' = thread[Sched].block
          /\ thread[Sched].at = "notify" /\ Goto(Sched, "trysign")
      BY <2>n DEF NotifyChainLock, vars, locks
    <3>2. /\ thread' \in [Threads -> ThreadType]
          /\ \A u \in Threads \ {Sched} : thread'[u] = thread[u]
          /\ thread'[Sched].at = "trysign"
      BY <2>0, <3>1, GotoIs
    <3>3. LockBlockType' /\ spork' \in SporkValues /\ best' \in Locks \cup {None} /\ seen' \subseteq Locks
          /\ lastNotify' \in Locks \cup {None} /\ lastSigned' \in Blocks \cup {None}
      BY <3>1, <1>1, <1>s DEF HandlerType, LockBlockType
    <3> QED
      BY <1>1, <2>0, <3>2, <3>3, ThreadMoves
  <2>5. CASE TrySignChainTip
    <3>1. /\ tip \in Blocks /\ seen' \subseteq Locks
          /\ UNCHANGED <<isEnabled, lockBlock, spork, best, lastNotify, lastSigned>>
      BY <2>5, <1>s, StoredChains DEF TrySignChainTip, ChainInv, vars, locks
    <3>2. CASE isEnabled /\ spork = "sign" /\ tip # Genesis
      <4>1. thread' = [thread EXCEPT ![Sched].at = "checktip", ![Sched].block = tip]
        BY <2>5, <3>2 DEF TrySignChainTip
      <4> QED
        BY <3>1, <4>1, <2>r
    <3>3. CASE ~(isEnabled /\ spork = "sign" /\ tip # Genesis)
      <4>1. Done(Sched) /\ lastSigned' \in Blocks \cup {None}
        BY <2>5, <3>1, <3>3 DEF TrySignChainTip, HandlerType
      <4> QED
        BY <3>1, <4>1, <2>d
    <3> QED
      BY <3>2, <3>3
  <2>6. CASE CheckTip
    <3>1. /\ UNCHANGED <<isEnabled, lockBlock, spork, best, lastNotify, seen, lastSigned>> /\ seen' \subseteq Locks
          /\ thread[Sched].at = "checktip" /\ (Goto(Sched, "sign") \/ Done(Sched))
          /\ lastSigned' \in Blocks \cup {None}
      BY <2>6, <1>s DEF CheckTip, vars, locks, HandlerType
    <3> QED
      BY <3>1, <2>g, <2>d, <1>s
  <2>7. CASE SignTip
    <3>1. /\ UNCHANGED <<isEnabled, lockBlock, spork, best, lastNotify, seen>> /\ seen' \subseteq Locks
          /\ thread[Sched].at = "sign" /\ Done(Sched)
          /\ lastSigned' \in Blocks \cup {None}
      BY <2>7, <1>s DEF SignTip, vars, locks, HandlerType
    <3> QED
      BY <3>1, <2>d
  <2> QED
    BY <1>6, <1>8, <2>0, <2>1, <2>2, <2>3, <2>4, <2>n, <2>5, <2>6, <2>7 DEF SchedStep
<1>9. CASE \E v \in SporkValues : ChangeSpork(v)
  BY SMTT(30), <1>9, <1>1 DEF HandlerType, LockBlockType, ChangeSpork, vars, locks
<1>10. CASE ChainStep
  <2>1. UNCHANGED <<handler, isEnabled, lockBlock>>
    BY <1>10 DEF ChainStep, AcceptHeaderOfInvalidChain, AcceptConflictingHeader, AcceptBlock,
       ActivateBestChain, Activation, ActivateRound, ActivateSelect, ConnectFails, ConnectTip,
       EnforceReset, InvalidateDisconnect, InvalidateFinish, locks
  <2> QED
    BY <2>1, <1>3
<1>11. CASE \E b \in Blocks \ {Genesis} : AcceptedBlockHeader(b)
  BY <1>11, <1>3 DEF AcceptedBlockHeader
<1>12. CASE UNCHANGED allVars
  BY <1>12, <1>3 DEF allVars, vars, locks
<1>13. CASE \E p \in Procs : HandleNewRecoveredSig(p)
  BY <1>13, <1>2, <1>4 DEF HandleNewRecoveredSig
<1>14. CASE \E p \in Procs, l \in Locks : ProcessNewChainLock(p, l)
  BY <1>14, <1>2, <1>4 DEF ProcessNewChainLock
<1>15. CASE ScheduledTask
  BY <1>15, <1>2, <1>4 DEF ScheduledTask
<1> QED
  BY <1>7, <1>8, <1>9, <1>10, <1>11, <1>12, <1>13, <1>14, <1>15 DEF LockNext

\* Both hold throughout.
LEMMA LockTypesInvariant == LockSpec => [](ChainInv /\ HandlerType)
<1>1. LockInit => ChainInv /\ HandlerType
  <2> SUFFICES ASSUME LockInit PROVE ChainInv /\ HandlerType
    OBVIOUS
  <2>1. ChainInv
    BY EmptyInv DEF LockInit
  <2> QED
    BY <2>1, LocksAre
    DEF LockInit, EmptyIndex, HandlerType, LockBlockType, Free, Idle, ProcStates, SchedStates
<1>2. ChainInv /\ HandlerType /\ [LockNext]_allVars => (ChainInv /\ HandlerType)'
  BY LockChainStep, HandlerStep
<1> QED
  BY <1>1, <1>2, PTL DEF LockSpec

\* Every variable of the handler and of the chain keeps its type: what is in
\* bestChainLock, in lastNotifyChainLockBlockIndex or in a thread's hands is a
\* lock some quorum made.
THEOREM LockTypes == LockSpec => []LockTypeOK
<1>1. ChainInv /\ HandlerType => LockTypeOK
  BY ChainTypes DEF HandlerType, LockTypeOK
<1> QED
  BY <1>1, LockTypesInvariant, PTL

-----------------------------------------------------------------------------
(***************************************************************************)
(* The locked chain is never marked                                        *)
(***************************************************************************)

\* A block that conflicts with a block is on no chain through that block.
LEMMA ConflictAvoids ==
  ASSUME NEW k \in Blocks, NEW c \in Blocks, k \in Chain[c]
  PROVE ConflictsWith(k) \cap Chain[c] = {}
  BY LowerIsAncestor DEF ConflictsWith

\* Nor is it on the chain of another lock.
LEMMA LocksAgree ==
  ASSUME ChainInv, NEW k \in Locks, NEW l \in Locks
  PROVE ConflictsWith(k) \cap Chain[l] = {}
<1>1. k \in Blocks /\ l \in Blocks /\ (k \in Chain[l] \/ l \in Chain[k])
  BY LocksAre
<1>2. CASE k \in Chain[l]
  BY <1>1, <1>2, ConflictAvoids
<1>3. CASE l \in Chain[k]
  BY <1>1, <1>3, ChainTransitive DEF ConflictsWith
<1> QED
  BY <1>1, <1>2, <1>3

\* EnforceBlock gives only blocks that conflict with the lock to
\* MarkConflictingBlock.
LEMMA SiblingsConflict ==
  ASSUME ChainInv, NEW b \in Blocks
  PROVE Siblings(b) \subseteq ConflictsWith(b)
<1> SUFFICES ASSUME NEW x \in Siblings(b) PROVE x \in ConflictsWith(b)
  OBVIOUS
<1>1. PICK w \in Chain[b] \ Chain[tip] : x \in Children(Parent[w])
  BY DEF Siblings
<1>2. x \in Blocks \ {Genesis} /\ Parent[x] = Parent[w] /\ x \notin Chain[b]
  BY <1>1 DEF Siblings, Children
<1>3. w \in Blocks \ {Genesis}
  BY SMTT(30), <1>1, ChainBasics, GenesisOnChain, StoredChains DEF ChainInv
<1>4. Height(x) = Height(w)
  BY <1>2, <1>3, HeightBasics
<1>5. Height(w) <= Height(b)
  BY SMTT(30), <1>1, <1>3, AncestorIsLower, HeightBasics
<1> QED
  BY <1>2, <1>4, <1>5 DEF ConflictsWith

\* A chain without a mark that has no block ConnectBlock or a ChainLock refuses
\* stays without a mark: every other mark is put above an older one.
LEMMA CleanStays ==
  ASSUME ChainInv, HandlerType, [LockNext]_allVars, NEW c \in Blocks,
         Chain[c] \cap Unusable = {},
         \/ Chain[c] \cap (BadBlocks \cup Conflicting) = {}
         \/ c \in index /\ ~ConnectFails,
         Enforce => Chain[c] \cap ConflictsWith(thread[Sched].block) = {}
  PROVE Chain[c] \cap Unusable' = {}
<1>1. Chain[c] \subseteq Blocks /\ \A y \in Chain[c] : Chain[y] \subseteq Chain[c]
  BY ChainBasics, ChainTransitive
<1>2. CASE UNCHANGED marks
  BY <1>2 DEF Unusable, Failed, marks
<1>3. ASSUME NEW b \in Blocks \ {Genesis}, AcceptHeaderOfInvalidChain(b)
      PROVE Chain[c] \cap Unusable' = {}
  <2>1. PICK f \in InvalidBelow(b) : failedChild' = failedChild \cup (Chain[Parent[b]] \ Chain[f])
    BY <1>3 DEF AcceptHeaderOfInvalidChain
  <2>2. f \in Chain[Parent[b]] /\ f \in Unusable /\ Parent[b] \in Blocks
    <3>1. Parent[b] \in Blocks
      BY ChainBasics
    <3>2. f \in failedBlocks /\ f \in Chain[Parent[b]]
      BY <2>1 DEF InvalidBelow
    <3> QED
      BY <3>1, <3>2 DEF ChainInv, MarkInv, Unusable, Failed
  <2>3. \A y \in Chain[Parent[b]] \ Chain[f] : f \in Chain[y]
    BY <2>2, AboveOnChain
  <2>4. \A y \in Chain[Parent[b]] \ Chain[f] : y \notin Chain[c]
    BY <2>2, <2>3, <1>1
  <2> QED
    BY <1>3, <2>1, <2>4 DEF AcceptHeaderOfInvalidChain, Unusable, Failed
<1>4. ASSUME NEW b \in Blocks \ {Genesis}, AcceptConflictingHeader(b)
      PROVE Chain[c] \cap Unusable' = {}
  <2>1. b \notin Chain[c]
    BY <1>4, StoredChains DEF AcceptConflictingHeader, NewHeader, ChainInv, ConnectFails
  <2> QED
    BY <1>4, <2>1 DEF AcceptConflictingHeader, Unusable, Failed
<1>5. CASE ActivateSelect
  BY <1>5, SelectEffect
<1>6. CASE ConnectFails
  BY <1>6 DEF ConnectFails, Unusable, Failed
<1>7. CASE EnforceReset
  <2>1. act.block \in index
    BY <1>7 DEF EnforceReset, ChainInv, GoalInv
  <2>2. ResetBlockFailureFlags(act.block, FALSE)
    BY <1>7 DEF EnforceReset
  <2>3. failedValid' \cup failedChild' \cup conflict' \subseteq Unusable
    BY <2>1, <2>2, ResetEffect DEF ChainInv
  <2> QED
    BY <2>3 DEF Unusable, Failed
<1>8. CASE Enforce
  <2> DEFINE b == thread[Sched].block
  <2>1. b \in index /\ EnforceBlock(b) /\ b \in Blocks /\ thread[Sched].at = "enforce"
    BY <1>8 DEF Enforce, EnforceBlock, ChainInv, ChainType
  <2> DEFINE D == {x \in Chain[tip] : Chain[x] \cap Siblings(b) # {}}
  <2>2. /\ conflict' = conflict \cup Siblings(b) \cup D
        /\ UNCHANGED <<failedValid, failedChild>>
    BY <2>1, EnforceEffect DEF ChainInv
  <2>3. Siblings(b) \cap Chain[c] = {}
    <3>1. Chain[c] \cap ConflictsWith(b) = {}
      BY <1>8
    <3>2. Siblings(b) \subseteq ConflictsWith(b)
      BY <2>1, SiblingsConflict
    <3> QED
      BY <3>1, <3>2
  <2>4. D \cap Chain[c] = {}
    BY <2>3, <1>1
  <2> QED
    BY <2>2, <2>3, <2>4 DEF Unusable, Failed
<1>9. CASE ChainStep
  <2>1. CASE UNCHANGED marks
    BY <2>1, <1>2
  <2> QED
    BY SMTT(30), <1>9, <2>1, <1>3, <1>4, <1>5, <1>6, <1>7
    DEF ChainStep, AcceptBlock, ActivateBestChain, Activation, ActivateRound, ConnectTip,
        InvalidateDisconnect, InvalidateFinish, HandlerType
<1>10. CASE \E b \in Blocks \ {Genesis} : AcceptedBlockHeader(b)
  BY <1>10, <1>2 DEF AcceptedBlockHeader, AcceptBlockHeader
<1>11. CASE CheckActivationNeeded /\ ActivateBestChain
  BY <1>11, <1>2 DEF ActivateBestChain
<1>12. CASE UNCHANGED allVars
  BY <1>12, <1>2 DEF allVars, vars
<1> QED
  BY <1>2, <1>8, <1>9, <1>10, <1>11, <1>12, StepKinds

\* Every block below a lock connects: a quorum only locks what its members have
\* on their active chains.
LocksConnect == \A e \in Environments : \A l \in e.locks : Chain[l] \cap e.badBlocks = {}

\* No chain of a lock gets a mark.
LEMMA LockedStep ==
  ASSUME LocksConnect, ChainInv, HandlerType, LockedInv, [LockNext]_allVars
  PROVE LockedInv'
<1> SUFFICES ASSUME NEW l \in Locks PROVE Chain[l] \cap Unusable' = {}
  BY NobodyInvalidates DEF LockedInv, Locks, HandlerType
<1>1. l \in Blocks /\ Chain[l] \cap Unusable = {}
  BY LocksAre DEF LockedInv
<1>2. Chain[l] \cap BadBlocks = {}
  BY DEF LocksConnect, ChainInv, ChainType, BadBlocks, Locks
<1>3. Chain[l] \cap Conflicting = {}
  BY LocksAgree DEF Conflicting, HandlerType, LockBlockType
<1>4. Enforce => Chain[l] \cap ConflictsWith(thread[Sched].block) = {}
  BY LocksAgree DEF HandlerType, Enforce
<1> QED
  BY SMTT(30), <1>1, <1>2, <1>3, <1>4, CleanStays

\* Whatever headers, blocks and locks come in, no block on the chain of the best
\* lock is ever marked by EnforceBlock, by InvalidBlockFound or with an invalid
\* ancestor's mark, so that the locked chain can always be activated.
THEOREM LockedChainStaysUnmarked ==
  ASSUME LocksConnect PROVE LockSpec => []LockedChainUnmarked
<1>1. LockInit => LockedInv
  BY DEF LockInit, EmptyIndex, LockedInv, Unusable, Failed
<1>2. ChainInv /\ HandlerType /\ LockedInv /\ [LockNext]_allVars => LockedInv'
  BY LockedStep
<1>3. HandlerType /\ LockedInv => LockedChainUnmarked
  BY DEF HandlerType, LockBlockType, LockedInv, LockedChainUnmarked
<1> QED
  BY <1>1, <1>2, <1>3, LockTypesInvariant, PTL DEF LockSpec

-----------------------------------------------------------------------------
(***************************************************************************)
(* The best lock only rises                                                *)
(***************************************************************************)

\* One thread at a time is in ProcessNewChainLock.
OneProc == \A p, q \in Procs : p = q

\* The lock a thread is about to take over stays higher than the best one.
LEMMA RiseStep ==
  ASSUME OneProc, ChainInv, HandlerType, RiseInv, [LockNext]_allVars
  PROVE /\ RiseInv'
        /\ (best # None /\ best' \notin {best, None}) => Higher(best', best)
<1>1. /\ Locks \subseteq Blocks /\ None \notin Blocks
      /\ Sched \in Threads /\ \A p \in Procs : p \in Threads /\ p # Sched
  BY LocksAre
<1>2. \A p \in Procs : thread[p].at # "idle" => thread[p].block # None
  BY <1>1 DEF HandlerType
<1>3. CASE best' = best /\ \A p \in Procs : thread'[p] = thread[p]
  BY <1>3 DEF RiseInv
<1>4. ASSUME NEW t \in Threads, NEW l \in Locks \cup {None}, CheckActiveState(t, l)
      PROVE RiseInv' /\ best' = best
  <2>1. /\ \A u \in Threads \ {t} : thread'[u] = thread[u]
        /\ thread'[t].at \in {"reset", "go"} /\ best' = best
    BY <1>4, CheckIs, <1>1 DEF CheckActiveState
  <2> QED
    BY <2>1, <1>1 DEF RiseInv
<1>5. ASSUME NEW t \in Threads, ForgetLocks(t)
      PROVE RiseInv' /\ best' = None
  <2>1. /\ \A u \in Threads \ {t} : thread'[u] = thread[u]
        /\ thread'[t].at = "go" /\ best' = None
    BY <1>5, GotoIs DEF ForgetLocks, ProcStates
  <2> QED
    BY <2>1, <1>1, <1>2 DEF RiseInv, Higher
<1>6. CASE \E p \in Procs : ProcStep(p)
  <2> PICK p \in Procs : ProcStep(p)
    BY <1>6
  <2>0. \A q \in Procs : q = p
    BY DEF OneProc
  <2>1. CASE NoteSeen(p)
    <3>1. best' = best /\ thread'[p].at \in {"idle", "lookup"}
      BY SMTT(30), <2>1, GotoIs, DoneIs, <1>1 DEF NoteSeen, ProcStates
    <3>2. thread'[p].at = "lookup" => thread'[p].block = thread[p].block /\ Higher(thread[p].block, best)
      BY <2>1, GotoIs, DoneIs, <1>1 DEF NoteSeen, ProcStates
    <3> QED
      BY <2>0, <3>1, <3>2 DEF RiseInv
  <2>2. CASE Lookup(p)
    <3>1. best' = best /\ thread[p].at = "lookup" /\ Higher(thread[p].block, best)
      BY <2>2 DEF Lookup, RiseInv
    <3>2. CASE Done(p)
      BY <2>0, <3>1, <3>2, DoneIs, <1>1 DEF RiseInv
    <3>3. CASE ~Done(p)
      <4>1. thread' = [thread EXCEPT ![p].at = "set", ![p].known = thread[p].block \in index]
        BY <2>2, <3>3 DEF Lookup
      <4>2. thread'[p].block = thread[p].block
        BY SMTT(30), <4>1, <1>1 DEF HandlerType
      <4> QED
        BY <2>0, <3>1, <4>2 DEF RiseInv
    <3> QED
      BY <3>2, <3>3
  <2>3. CASE SetBest(p)
    <3>1. best' = thread[p].block /\ thread'[p].at = "idle" /\ Higher(thread[p].block, best)
      BY <2>3, DoneIs, <1>1 DEF SetBest, RiseInv
    <3> QED
      BY <3>1, <2>0 DEF RiseInv
  <2> QED
    BY <1>5, <1>1, <2>1, <2>2, <2>3 DEF ProcStep
<1>7. CASE SchedStep
  <2>1. CASE ForgetLocks(Sched)
    BY <1>5, <1>1, <2>1
  <2>2. CASE ~ForgetLocks(Sched)
    <3>1. best' = best
      BY <1>7, <2>2 DEF SchedStep, ReadBestChainLock, Enforce, CheckActivationNeeded, Recheck,
         NotifyChainLock, TrySignChainTip, CheckTip, SignTip
    <3>2. \A p \in Procs : thread'[p] = thread[p]
      <4> TAKE p \in Procs
      <4>1. p \in Threads /\ p # Sched /\ thread \in [Threads -> ThreadType]
        BY <1>1 DEF HandlerType, ThreadType
      <4> QED
        BY <1>7, <2>2, <4>1 DEF SchedStep, ReadBestChainLock, Enforce, CheckActivationNeeded,
           Recheck, NotifyChainLock, TrySignChainTip, CheckTip, SignTip, Goto, Done
    <3> QED
      BY <3>1, <3>2, <1>3
  <2> QED
    BY <2>1, <2>2
<1>8. CASE ChainStep \/ (\E b \in Blocks \ {Genesis} : AcceptedBlockHeader(b)) \/ UNCHANGED allVars
  BY <1>8, <1>3 DEF ChainStep, AcceptedBlockHeader, allVars, handler
<1>9. CASE \E v \in SporkValues : ChangeSpork(v)
  BY <1>9, <1>3 DEF ChangeSpork
<1>10. CASE \/ ScheduledTask
            \/ \E p \in Procs, l \in Locks : ProcessNewChainLock(p, l)
            \/ \E p \in Procs : HandleNewRecoveredSig(p)
  BY <1>10, <1>4, <1>1 DEF ScheduledTask, ProcessNewChainLock, HandleNewRecoveredSig
<1> QED
  BY <1>6, <1>7, <1>8, <1>9, <1>10 DEF LockNext

\* ... which holds throughout.
LEMMA RiseInvariant ==
  ASSUME OneProc PROVE LockSpec => [](ChainInv /\ HandlerType /\ RiseInv)
<1>1. LockInit => RiseInv
  BY SMTT(30), ChainLocksAssumption DEF LockInit, RiseInv, Threads, Free
<1>2. ChainInv /\ HandlerType /\ RiseInv /\ [LockNext]_allVars => RiseInv'
  BY RiseStep
<1> QED
  BY <1>1, <1>2, LockTypesInvariant, PTL DEF LockSpec

\* With one thread at a time in ProcessNewChainLock, bestChainLock is only ever
\* replaced by a higher lock, although the height is compared in one critical
\* section and the lock taken over in another, and although CheckActiveState of
\* another thread may forget the lock in between.
THEOREM BestLockRises ==
  ASSUME OneProc PROVE LockSpec => BestLockOnlyRises
<1>1. ChainInv /\ HandlerType /\ RiseInv /\ [LockNext]_allVars =>
        [(best # None /\ best' \notin {best, None}) => Higher(best', best)]_allVars
  BY RiseStep
<1> QED
  BY <1>1, RiseInvariant, PTL DEF LockSpec, BestLockOnlyRises
=============================================================================
