-------------------------- MODULE CheckQueueProofs --------------------------
(***************************************************************************)
(* Proofs about CheckQueue, for every number of workers, batch size and    *)
(* number of checks.                                                       *)
(*                                                                         *)
(* ResultIsRight speaks of the end of Wait only.  StatusInv says what the  *)
(* status means while the round is open: fAllOk answers for the checks     *)
(* that are accounted for, fOk[t] for the batch t has run.  That nothing   *)
(* is accounted for that was not run rests on TodoCountsPending, and that  *)
(* on RoundInv: a check is added once.                                     *)
(***************************************************************************)
EXTENDS CheckQueue, Counting, FiniteSetTheorems, WellFoundedInduction, TLAPS

\* A leaf is given to Zenon unless it names another prover.
USE ZenonT(30)

Idlers == {t \in Threads : pc[t] \in {"waiting", "woken"}}

\* The threads that nTotal counts
InLoop == {t \in Threads : \/ pc[t] \in {"waiting", "woken", "work"}
                           \/ pc[t] = "enter" /\ batch[t] # {}}

\* No round is open: between two blocks, or stopping the workers.
Between == pc[Master] \in {"idle", "stopping", "joining"}

PlacesInv ==
    /\ \A t \in Threads : batch[t] # {} => pc[t] \in {"work", "enter"}
    /\ \A t \in Threads : pc[t] = "work" => batch[t] # {}
    /\ requestStop => pc[Master] \in {"stopping", "joining"}

\* A worker that ends does not leave nTotal.
CountInv ==
    /\ nIdle = Cardinality(Idlers)
    /\ nTotal >= Cardinality(InLoop)
    /\ (\A w \in Workers : pc[w] # "ended") => nTotal = Cardinality(InLoop)

RoundInv ==
    /\ \E n \in 0 .. MaxChecks : added = 1 .. n
    /\ queue \subseteq added
    /\ \A t \in Threads : batch[t] \subseteq added
    /\ ran \subseteq added

StatusInv ==
    /\ ~ fAllOk => bad # {}
    /\ \A t \in Threads : ~ fOk[t] => batch[t] # {} /\ bad # {}
    /\ \A t \in Threads : pc[t] = "enter" /\ fOk[t] => batch[t] \subseteq ran \ bad
    /\ ~ Between /\ fAllOk => added \ Pending \subseteq ran \ bad

BetweenInv ==
    Between =>
        /\ queue = {} /\ nTodo = 0 /\ fAllOk
        /\ \A t \in Threads : batch[t] = {}
        /\ added # {} => (result <=> bad = {}) /\ (result => ran = added)

QueueInv ==
    /\ TypeOK
    /\ PlacesInv
    /\ CountInv
    /\ TodoCountsPending
    /\ RoundInv
    /\ StatusInv
    /\ BetweenInv

-----------------------------------------------------------------------------
(* The queue and the batches taken from its back.                          *)

\* Checks can be counted.
LEMMA FiniteChecks == \A S \in SUBSET Checks : IsFiniteSet(S) /\ Cardinality(S) \in Nat
<1>1. IsFiniteSet(Checks)
  BY SMTT(30), FS_Interval, QueueAssumption DEF Checks
<1> QED BY <1>1, FS_Subset, FS_CardinalityType

\* Threads can be counted.
LEMMA FiniteThreads == \A S \in SUBSET Threads : IsFiniteSet(S) /\ Cardinality(S) \in Nat
<1>1. IsFiniteSet(Threads)
  BY FS_AddElement, QueueAssumption DEF Threads
<1> QED BY <1>1, FS_Subset, FS_CardinalityType

\* A queue that is not empty has a last check.
LEMMA LastCheck ==
    ASSUME NEW S \in SUBSET Checks, S # {}
    PROVE  \E c \in S : \A d \in S : ~ (d > c)
<1> DEFINE T == {n \in Nat : \E c \in S : n = MaxChecks - c}
<1> DEFINE R == OpToRel(<, Nat)
<1>1. T \subseteq Nat
  OBVIOUS
<1>2. T # {}
  <2>1. PICK c \in S : TRUE
    OBVIOUS
  <2>2. MaxChecks - c \in T
    BY SMTT(30), <2>1, QueueAssumption DEF Checks
  <2> QED BY <2>2
<1>3. IsWellFoundedOn(R, Nat)
  BY NatLessThanWellFounded
<1>4. PICK x \in T : \A y \in T : ~ (<<y, x>> \in R)
  <2> HIDE DEF T, R
  <2> QED BY <1>1, <1>2, <1>3, WFMin
<1>5. \A y \in T : ~ (y < x)
  BY <1>4 DEF OpToRel
<1>6. PICK c \in S : x = MaxChecks - c
  OBVIOUS
<1>7. ASSUME NEW d \in S, d > c
      PROVE FALSE
  <2>1. MaxChecks - d \in T /\ MaxChecks - d < x
    BY SMTT(30), <1>6, <1>7, QueueAssumption DEF Checks
  <2> QED BY <2>1, <1>5
<1> QED BY <1>7

\* nNow is at least 1.
LEMMA UnitsNowPositive ==
    ASSUME TypeOK, NEW total \in Nat, NEW idle \in Nat
    PROVE  UnitsNow(total, idle) \in Nat \ {0}
<1> DEFINE share == Cardinality(queue) \div (total + idle + 1)
<1>1. share \in Int
  BY SMTT(30), FiniteChecks DEF TypeOK
<1> HIDE DEF share
<1> QED BY SMTT(30), <1>1, QueueAssumption DEF UnitsNow, share

\* A batch is a part of the queue, and not empty when the queue is not.
LEMMA BackTakes ==
    ASSUME TypeOK, queue # {}, NEW n \in Nat \ {0}
    PROVE  Back(n) \subseteq queue /\ Back(n) # {}
<1>1. PICK c \in queue : \A d \in queue : ~ (d > c)
  BY LastCheck DEF TypeOK
<1>2. {d \in queue : d > c} = {}
  BY <1>1
<1>3. Cardinality({d \in queue : d > c}) = 0
  BY <1>2, FS_EmptySet
<1>4. c \in Back(n)
  BY SMTT(30), <1>3 DEF Back
<1> QED BY <1>4 DEF Back

-----------------------------------------------------------------------------
(* A critical section of Loop, whichever of the three it is: thread t      *)
(* accounts for its batch, takes batch B and goes to p; places says where  *)
(* the threads are after a notification of the master.                     *)

Section(t, places, B, p) ==
    /\ pc[t] \in {"enter", "woken"}
    /\ B \in SUBSET queue
    /\ p \in {"idle", "waiting", "ended", "work"}
    /\ places \in [Threads -> WorkerPlaces \cup MasterPlaces]
    /\ places[t] = pc[t]
    /\ \A u \in Threads : \/ places[u] = pc[u]
                          \/ u = Master /\ pc[u] = "waiting" /\ places[u] = "woken"
    /\ pc' = [places EXCEPT ![t] = p]
    /\ queue' = queue \ B
    /\ batch' = [batch EXCEPT ![t] = B]
    /\ B # {} <=> p = "work"
    /\ fOk' = [fOk EXCEPT ![t] = IF p = "work" THEN fAllOk /\ fOk[t] ELSE TRUE]
    /\ nTodo' = nTodo - Cardinality(batch[t])
    /\ nIdle' = (IF t \in Idlers THEN nIdle - 1 ELSE nIdle)
                + (IF p = "waiting" THEN 1 ELSE 0)
    /\ nTotal' = (IF t \in InLoop THEN nTotal ELSE nTotal + 1)
                 - (IF p = "idle" THEN 1 ELSE 0)
    /\ p = "ended" => requestStop
    /\ p = "idle" => /\ t = Master /\ queue = {} /\ nTodo' = 0
                     /\ result' = (fAllOk /\ fOk[t]) /\ fAllOk' = TRUE
    /\ p # "idle" => result' = result /\ fAllOk' = (fAllOk /\ fOk[t])
    /\ UNCHANGED <<requestStop, added, bad, ran>>

\* Continue in terms of Section
LEMMA ContinueIsSection ==
    ASSUME QueueInv, NEW t \in Threads,
           NEW places \in [Threads -> WorkerPlaces \cup MasterPlaces],
           NEW allOk \in BOOLEAN, NEW todo \in Nat, NEW total \in Nat, NEW idle \in Nat,
           Continue(t, places, allOk, todo, total, idle),
           UNCHANGED <<requestStop, added, bad, ran>>,
           pc[t] \in {"enter", "woken"},
           places[t] = pc[t],
           \A u \in Threads : \/ places[u] = pc[u]
                              \/ u = Master /\ pc[u] = "waiting" /\ places[u] = "woken",
           allOk = (fAllOk /\ fOk[t]),
           todo = nTodo - Cardinality(batch[t]),
           total = IF t \in InLoop THEN nTotal ELSE nTotal + 1,
           idle = IF t \in Idlers THEN nIdle - 1 ELSE nIdle
    PROVE  \E B, p : Section(t, places, B, p)
<1> USE DEF QueueInv, TypeOK
<1>1. CASE queue = {} /\ ~ requestStop /\ t = Master /\ todo = 0
  <2>1. /\ batch' = [batch EXCEPT ![t] = {}] /\ queue' = queue \ {}
        /\ pc' = [places EXCEPT ![t] = "idle"]
        /\ fOk' = [fOk EXCEPT ![t] = TRUE]
        /\ nIdle' = idle /\ nTotal' = total - 1 /\ fAllOk' = TRUE /\ nTodo' = todo
        /\ result' = allOk
    BY <1>1 DEF Continue, ReturnStatus
  <2>2. Section(t, places, {}, "idle")
    BY SMTT(30), <1>1, <2>1 DEF Section
  <2> QED BY <2>2
<1>2. CASE queue = {} /\ ~ requestStop /\ ~ (t = Master /\ todo = 0)
  <2>1. /\ batch' = [batch EXCEPT ![t] = {}] /\ queue' = queue \ {}
        /\ pc' = [places EXCEPT ![t] = "waiting"]
        /\ fOk' = [fOk EXCEPT ![t] = TRUE]
        /\ nIdle' = idle + 1 /\ nTotal' = total /\ fAllOk' = allOk /\ nTodo' = todo
        /\ result' = result
    BY <1>2 DEF Continue
  <2>2. Section(t, places, {}, "waiting")
    BY SMTT(30), <1>2, <2>1 DEF Section
  <2> QED BY <2>2
<1>3. CASE requestStop
  <2>1. /\ batch' = [batch EXCEPT ![t] = {}] /\ queue' = queue \ {}
        /\ pc' = [places EXCEPT ![t] = "ended"]
        /\ fOk' = [fOk EXCEPT ![t] = TRUE]
        /\ nIdle' = idle /\ nTotal' = total /\ fAllOk' = allOk /\ nTodo' = todo
        /\ result' = result
    BY <1>3 DEF Continue
  <2>2. Section(t, places, {}, "ended")
    BY SMTT(30), <1>3, <2>1 DEF Section
  <2> QED BY <2>2
<1>4. CASE queue # {} /\ ~ requestStop
  <2> DEFINE B == Back(UnitsNow(total, idle))
  <2>1. B \subseteq queue /\ B # {}
    BY <1>4, UnitsNowPositive, BackTakes
  <2>2. /\ batch' = [batch EXCEPT ![t] = B] /\ queue' = queue \ B
        /\ pc' = [places EXCEPT ![t] = "work"]
        /\ fOk' = [fOk EXCEPT ![t] = allOk]
        /\ nIdle' = idle /\ nTotal' = total /\ fAllOk' = allOk /\ nTodo' = todo
        /\ result' = result
    BY <1>4 DEF Continue
  <2> HIDE DEF B
  <2>3. Section(t, places, B, "work")
    BY SMTT(30), <1>4, <2>1, <2>2 DEF Section
  <2> QED BY <2>3
<1> QED BY <1>1, <1>2, <1>3, <1>4

\* The pending checks are those in the queue and those a thread has taken.
LEMMA PendingIs ==
    \A x : x \in Pending <=> x \in queue \/ \E t \in Threads : x \in batch[t]
BY DEF Pending

\* Every step of a thread in Loop, other than running the checks, is a Section.
LEMMA LoopIsSection ==
    ASSUME QueueInv, NEW t \in Threads, EnterLoop(t) \/ CleanUp(t) \/ WaitReturns(t)
    PROVE  \E places, B, p : Section(t, places, B, p)
<1> USE DEF QueueInv
<1>0. /\ batch[t] \in SUBSET Checks /\ batch[t] \subseteq Pending /\ Pending \in SUBSET Checks
      /\ Cardinality(batch[t]) \in Nat
  <2>1. batch[t] \in SUBSET Checks /\ batch[t] \subseteq Pending /\ Pending \in SUBSET Checks
    BY PendingIs DEF TypeOK
  <2> QED BY <2>1, FiniteChecks
<1>1. ASSUME EnterLoop(t) PROVE \E B, p : Section(t, pc, B, p)
  <2>1. t \notin InLoop /\ t \notin Idlers
    BY <1>1 DEF EnterLoop, InLoop, Idlers
  <2>2. Cardinality(batch[t]) = 0
    BY <1>1, FS_EmptySet DEF EnterLoop
  <2>3. fOk[t]
    BY <1>1 DEF EnterLoop, StatusInv
  <2>4. /\ Continue(t, pc, fAllOk, nTodo, nTotal + 1, nIdle)
        /\ pc[t] = "enter" /\ UNCHANGED <<requestStop, added, bad, ran>>
    BY <1>1 DEF EnterLoop
  <2>5. /\ pc \in [Threads -> WorkerPlaces \cup MasterPlaces] /\ fAllOk \in BOOLEAN
        /\ nTodo \in Nat /\ nTotal + 1 \in Nat /\ nIdle \in Nat
    BY SMTT(30) DEF TypeOK
  <2>6. fAllOk = (fAllOk /\ fOk[t]) /\ nTodo = nTodo - Cardinality(batch[t])
    BY SMTT(30), <2>2, <2>3, <2>5
  <2> QED BY <2>1, <2>4, <2>5, <2>6, ContinueIsSection
<1>2. ASSUME CleanUp(t)
      PROVE \E B, p : Section(t, IF nTodo - Cardinality(batch[t]) = 0 /\ t # Master
                                 THEN NotifyMaster ELSE pc, B, p)
  <2> DEFINE places == IF nTodo - Cardinality(batch[t]) = 0 /\ t # Master
                       THEN NotifyMaster ELSE pc
  <2> DEFINE todo == nTodo - Cardinality(batch[t])
  <2>1. t \in InLoop /\ t \notin Idlers
    BY <1>2 DEF CleanUp, InLoop, Idlers
  <2>2. todo \in Nat
    BY SMTT(30), <1>0, FiniteChecks, FS_Subset DEF TodoCountsPending, TypeOK
  <2>3. places \in [Threads -> WorkerPlaces \cup MasterPlaces] /\ places[t] = pc[t]
    BY <1>2 DEF NotifyMaster, TypeOK, CleanUp, WorkerPlaces
  <2>4. \A u \in Threads : \/ places[u] = pc[u]
                           \/ u = Master /\ pc[u] = "waiting" /\ places[u] = "woken"
    BY DEF NotifyMaster, TypeOK
  <2>5. /\ Continue(t, places, fAllOk /\ fOk[t], todo, nTotal, nIdle)
        /\ pc[t] = "enter" /\ UNCHANGED <<requestStop, added, bad, ran>>
    BY <1>2 DEF CleanUp
  <2>6. nTotal \in Nat /\ nIdle \in Nat /\ (fAllOk /\ fOk[t]) \in BOOLEAN
    BY DEF TypeOK
  <2> HIDE DEF places, todo
  <2>7. \E B, p : Section(t, places, B, p)
    BY <2>1, <2>2, <2>3, <2>4, <2>5, <2>6, ContinueIsSection DEF todo
  <2> QED BY <2>7 DEF places
<1>3. ASSUME WaitReturns(t) PROVE \E B, p : Section(t, pc, B, p)
  <2>1. t \in InLoop /\ t \in Idlers
    BY <1>3 DEF WaitReturns, InLoop, Idlers
  <2>2. batch[t] = {}
    BY <1>3 DEF WaitReturns, PlacesInv
  <2>3. Cardinality(batch[t]) = 0
    BY <2>2, FS_EmptySet
  <2>4. fOk[t]
    BY <2>2 DEF StatusInv
  <2>5. nIdle - 1 \in Nat
    <3>1. Idlers \in SUBSET Threads /\ Idlers # {}
      BY <2>1 DEF Idlers
    <3>2. Cardinality(Idlers) \in Nat /\ Cardinality(Idlers) # 0
      BY <3>1, FiniteThreads, FS_EmptySet
    <3> QED BY SMTT(30), <3>2 DEF CountInv
  <2> QED BY SMTT(30), <1>3, <2>1, <2>3, <2>4, <2>5, ContinueIsSection DEF WaitReturns, TypeOK
<1> QED BY <1>1, <1>2, <1>3

-----------------------------------------------------------------------------
(* A critical section preserves the invariant, conjunct by conjunct.       *)

\* The critical section of Loop keeps the types.
LEMMA SectionType ==
    ASSUME QueueInv, NEW t \in Threads, NEW places, NEW B, NEW p, Section(t, places, B, p)
    PROVE  /\ TypeOK' /\ PlacesInv' /\ RoundInv'
           /\ p \in {"waiting", "work", "idle"} \/ (p = "ended" /\ t \in Workers)
<1> USE DEF QueueInv
<1>1. requestStop => t \in Workers
  BY DEF Section, PlacesInv, Threads
<1>2. p = "ended" => t \in Workers
  BY <1>1 DEF Section
<1>3. Cardinality(batch[t]) \in Nat /\ nTodo - Cardinality(batch[t]) \in Nat
  <2>1. batch[t] \subseteq Pending /\ Pending \in SUBSET Checks
    BY PendingIs DEF TypeOK
  <2> QED BY SMTT(30), <2>1, FiniteChecks, FS_Subset DEF TodoCountsPending
<1>4. nIdle' \in Nat /\ nTotal' \in Nat
  <2>1. t \in Idlers => nIdle - 1 \in Nat
    <3>1. Idlers \in SUBSET Threads
      BY DEF Idlers
    <3> QED BY SMTT(30), <3>1, FiniteThreads, FS_EmptySet DEF CountInv
  <2>2. t \in InLoop => nTotal - 1 \in Nat
    <3>1. InLoop \in SUBSET Threads
      BY DEF InLoop
    <3>2. t \in InLoop => Cardinality(InLoop) \in Nat /\ Cardinality(InLoop) # 0
      BY <3>1, FiniteThreads, FS_EmptySet
    <3> QED BY SMTT(30), <3>2 DEF CountInv, TypeOK
  <2> QED BY SMTT(30), <2>1, <2>2 DEF Section, TypeOK
<1>5. pc' \in [Threads -> WorkerPlaces \cup MasterPlaces]
  BY DEF Section, WorkerPlaces, MasterPlaces
<1>6. pc'[Master] \in MasterPlaces /\ \A w \in Workers : pc'[w] \in WorkerPlaces
  BY SMTT(30), <1>2, QueueAssumption DEF Section, TypeOK, WorkerPlaces, MasterPlaces, Threads
<1>7. TypeOK'
  <2>1. /\ queue' \in SUBSET Checks /\ nTodo' \in Nat
        /\ batch' \in [Threads -> SUBSET Checks]
        /\ added' \in SUBSET Checks /\ bad' \in SUBSET added' /\ ran' \in SUBSET Checks
    BY <1>3 DEF Section, TypeOK
  <2>2. fOk' \in [Threads -> BOOLEAN] /\ requestStop' \in BOOLEAN
    BY DEF Section, TypeOK
  <2>3. fAllOk' \in BOOLEAN /\ result' \in BOOLEAN
    BY DEF Section, TypeOK
  <2> QED BY <1>4, <1>5, <1>6, <2>1, <2>2, <2>3 DEF TypeOK
<1>8. PlacesInv'
  <2>1. \A u \in Threads : batch'[u] # {} => pc'[u] \in {"work", "enter"}
    BY DEF Section, PlacesInv, TypeOK
  <2>2. \A u \in Threads : pc'[u] = "work" => batch'[u] # {}
    BY DEF Section, PlacesInv, TypeOK
  <2>3. requestStop' => pc'[Master] \in {"stopping", "joining"}
    BY <1>1, QueueAssumption DEF Section, PlacesInv, TypeOK, Threads
  <2> QED BY <2>1, <2>2, <2>3 DEF PlacesInv
<1>9. RoundInv'
  BY DEF Section, RoundInv, TypeOK
<1> QED BY <1>2, <1>7, <1>8, <1>9 DEF Section

\* It keeps nTotal and nIdle equal to the threads they count.
LEMMA SectionCount ==
    ASSUME QueueInv, NEW t \in Threads, NEW places, NEW B, NEW p, Section(t, places, B, p)
    PROVE  CountInv'
<1> USE DEF QueueInv
<1>1. /\ Idlers \in SUBSET Threads /\ IsFiniteSet(Idlers) /\ Cardinality(Idlers) \in Nat
      /\ InLoop \in SUBSET Threads /\ IsFiniteSet(InLoop) /\ Cardinality(InLoop) \in Nat
  <2>1. Idlers \in SUBSET Threads /\ InLoop \in SUBSET Threads
    BY DEF Idlers, InLoop
  <2> QED BY <2>1, FiniteThreads
<1>2. Idlers' = IF p = "waiting" THEN Idlers \cup {t} ELSE Idlers \ {t}
  BY DEF Idlers, Section, TypeOK
<1>3. InLoop' = IF p \in {"waiting", "work"} THEN InLoop \cup {t} ELSE InLoop \ {t}
  BY DEF InLoop, Section, TypeOK
<1>4. nIdle' = Cardinality(Idlers')
  <2>1. Cardinality(Idlers') = IF p = "waiting"
                               THEN IF t \in Idlers THEN Cardinality(Idlers)
                                    ELSE Cardinality(Idlers) + 1
                               ELSE IF t \in Idlers THEN Cardinality(Idlers) - 1
                                    ELSE Cardinality(Idlers)
    BY <1>1, <1>2, FS_AddElement, FS_RemoveElement
  <2> QED BY SMTT(30), <1>1, <2>1 DEF Section, CountInv
<1>5. /\ Cardinality(InLoop') = IF p \in {"waiting", "work"}
                                THEN IF t \in InLoop THEN Cardinality(InLoop)
                                     ELSE Cardinality(InLoop) + 1
                                ELSE IF t \in InLoop THEN Cardinality(InLoop) - 1
                                     ELSE Cardinality(InLoop)
  BY <1>1, <1>3, FS_AddElement, FS_RemoveElement
<1>6. nTotal' >= Cardinality(InLoop')
  BY SMTT(30), <1>1, <1>5 DEF Section, CountInv, TypeOK
<1>7. ASSUME \A w \in Workers : pc'[w] # "ended"
      PROVE  nTotal' = Cardinality(InLoop')
  <2>1. p # "ended"
    BY <1>7, SectionType, QueueAssumption DEF Section, Threads
  <2>2. \A w \in Workers : pc[w] # "ended"
    BY <1>7, QueueAssumption DEF Section, Threads
  <2>3. nTotal = Cardinality(InLoop)
    BY <2>2 DEF CountInv
  <2> QED BY SMTT(30), <1>1, <1>5, <2>1, <2>3 DEF Section
<1> QED BY <1>4, <1>6, <1>7 DEF CountInv

\* It keeps nTodo equal to the number of pending checks.
LEMMA SectionTodo ==
    ASSUME QueueInv, NEW t \in Threads, NEW places, NEW B, NEW p, Section(t, places, B, p)
    PROVE  TodoCountsPending' /\ Pending' = Pending \ batch[t]
<1> USE DEF QueueInv
<1>1. \A u \in Threads : batch'[u] = IF u = t THEN B ELSE batch[u]
  BY DEF Section, TypeOK
<1>2. queue' = queue \ B /\ B \subseteq queue
  BY DEF Section
<1>3. \A u \in Threads : batch'[u] \cap queue' = {}
  BY <1>1, <1>2 DEF TodoCountsPending
<1>4. \A u, v \in Threads : u # v => batch'[u] \cap batch'[v] = {}
  BY <1>1, <1>2 DEF TodoCountsPending
<1>5. \A x : x \in Pending' <=> x \in queue' \/ \E u \in Threads : x \in batch'[u]
  BY DEF Pending
<1>6. Pending' = Pending \ batch[t]
  <2>1. \A x : x \in Pending' => x \in Pending /\ x \notin batch[t]
    BY <1>1, <1>2, <1>5, PendingIs DEF TodoCountsPending
  <2>2. \A x : x \in Pending /\ x \notin batch[t] => x \in Pending'
    BY <1>1, <1>2, <1>5, PendingIs
  <2> QED BY <2>1, <2>2
<1>7. batch[t] \subseteq Pending /\ Pending \in SUBSET Checks
  BY PendingIs DEF TypeOK
<1>8. Cardinality(Pending') = Cardinality(Pending) - Cardinality(batch[t])
  <2>1. Pending \cap batch[t] = batch[t]
    BY <1>7
  <2>2. IsFiniteSet(Pending)
    BY <1>7, FiniteChecks
  <2>3. Cardinality(Pending \ batch[t]) = Cardinality(Pending) - Cardinality(Pending \cap batch[t])
    BY <2>2, FS_Difference
  <2> QED BY <1>6, <2>1, <2>3
<1>9. nTodo' = Cardinality(Pending')
  BY <1>8 DEF Section, TodoCountsPending
<1> QED BY <1>3, <1>4, <1>6, <1>9 DEF TodoCountsPending

\* It keeps fAllOk in agreement with the checks that were reported.
LEMMA SectionStatus ==
    ASSUME QueueInv, NEW t \in Threads, NEW places, NEW B, NEW p, Section(t, places, B, p)
    PROVE  StatusInv' /\ BetweenInv'
<1> USE DEF QueueInv
<1>1. \A u \in Threads : /\ batch'[u] = IF u = t THEN B ELSE batch[u]
                         /\ u # t => fOk'[u] = fOk[u]
  BY DEF Section, TypeOK
<1>2. fOk'[t] = IF p = "work" THEN fAllOk /\ fOk[t] ELSE TRUE
  BY DEF Section, TypeOK
<1>3. ~ (fAllOk /\ fOk[t]) => bad # {}
  BY DEF StatusInv
<1>4. added' = added /\ bad' = bad /\ ran' = ran
  BY DEF Section
<1>5. ~ fAllOk' => bad' # {}
  BY <1>3, <1>4 DEF Section
<1>6. \A u \in Threads : ~ fOk'[u] => batch'[u] # {} /\ bad' # {}
  <2>1. ~ fOk'[t] => p = "work" /\ ~ (fAllOk /\ fOk[t])
    BY <1>2
  <2>2. ~ fOk'[t] => batch'[t] # {} /\ bad' # {}
    BY <2>1, <1>1, <1>3, <1>4 DEF Section
  <2> QED BY <2>2, <1>1, <1>4 DEF StatusInv
<1>7. \A u \in Threads : pc'[u] = "enter" => u # t /\ pc[u] = "enter"
  BY DEF Section
<1>8. \A u \in Threads : pc'[u] = "enter" /\ fOk'[u] => batch'[u] \subseteq ran' \ bad'
  BY <1>1, <1>4, <1>7 DEF StatusInv
<1>9. Pending' = Pending \ batch[t]
  BY SectionTodo
<1>10. t # Master => Between' = Between
  BY SMTT(30), QueueAssumption DEF Between, Section, Threads
<1>11. t = Master => ~ Between /\ (Between' => p = "idle")
  BY QueueAssumption DEF Between, Section, Threads
<1>12. ASSUME ~ Between, fAllOk /\ fOk[t]
       PROVE  added \ Pending' \subseteq ran \ bad
  <2>1. added \ Pending \subseteq ran \ bad
    BY <1>12 DEF StatusInv
  <2>2. batch[t] \subseteq ran \ bad
    <3>1. CASE pc[t] = "enter"
      BY <1>12, <3>1 DEF StatusInv
    <3>2. CASE pc[t] = "woken"
      BY <3>2 DEF PlacesInv
    <3> QED BY <3>1, <3>2 DEF Section
  <2> QED BY <1>9, <2>1, <2>2
<1>13. ~ Between' /\ fAllOk' => added' \ Pending' \subseteq ran' \ bad'
  <2> SUFFICES ASSUME ~ Between', fAllOk' PROVE added' \ Pending' \subseteq ran' \ bad'
      OBVIOUS
  <2>1. ~ Between
    BY <1>10, <1>11
  <2>2. p # "idle"
    BY QueueAssumption DEF Section, Between, Threads
  <2>3. fAllOk /\ fOk[t]
    BY <2>2 DEF Section
  <2> QED BY <2>1, <2>3, <1>12, <1>4
<1>14. StatusInv'
  BY <1>5, <1>6, <1>8, <1>13 DEF StatusInv
<1>15. BetweenInv'
  <2>1. CASE t = Master
    <3> SUFFICES ASSUME Between'
                 PROVE  /\ queue' = {} /\ nTodo' = 0 /\ fAllOk'
                        /\ \A u \in Threads : batch'[u] = {}
                        /\ added' # {} => (result' <=> bad' = {}) /\ (result' => ran' = added')
        BY DEF BetweenInv
    <3>1. p = "idle" /\ ~ Between
      BY <1>11, <2>1
    <3>2. queue' = {} /\ nTodo' = 0 /\ fAllOk' /\ result' = (fAllOk /\ fOk[t])
      BY <3>1 DEF Section
    <3>3. Pending' = {}
      <4>1. Cardinality(Pending') = 0
        BY <3>2, SectionTodo DEF TodoCountsPending
      <4>2. Pending' \in SUBSET Checks
        BY <1>9, PendingIs DEF TypeOK
      <4> QED BY <4>1, <4>2, FiniteChecks, FS_EmptySet
    <3>4. \A u \in Threads : batch'[u] = {}
      BY <3>3 DEF Pending
    <3>5. result' => ran' = added' /\ bad' = {}
      <4> SUFFICES ASSUME result' PROVE ran' = added' /\ bad' = {}
          OBVIOUS
      <4>1. added \subseteq ran \ bad
        BY <3>1, <3>2, <3>3, <1>12
      <4> QED BY <4>1, <1>4 DEF RoundInv, TypeOK
    <3>6. ~ result' => bad' # {}
      BY <1>3, <1>4, <3>2
    <3> QED BY <3>2, <3>4, <3>5, <3>6
  <2>2. CASE t # Master
    <3> SUFFICES ASSUME Between PROVE BetweenInv'
        BY <1>10, <2>2 DEF BetweenInv
    <3>1. queue = {} /\ nTodo = 0 /\ fAllOk /\ batch[t] = {}
      BY DEF BetweenInv
    <3>2. B = {} /\ p # "work" /\ p # "idle"
      BY <2>2, <3>1 DEF Section
    <3>3. fOk[t]
      BY <3>1 DEF StatusInv
    <3>4. queue' = {} /\ fAllOk' /\ nTodo' = 0 /\ result' = result
      <4>1. nTodo' = 0
        BY SMTT(30), <3>1, FS_EmptySet DEF Section
      <4>2. queue' = {} /\ result' = result /\ fAllOk' = (fAllOk /\ fOk[t])
        BY <3>1, <3>2 DEF Section
      <4> QED BY <3>1, <3>3, <4>1, <4>2
    <3>5. \A u \in Threads : batch'[u] = {}
      BY <1>1, <3>2 DEF BetweenInv
    <3> QED BY <1>4, <3>4, <3>5 DEF BetweenInv
  <2> QED BY <2>1, <2>2
<1> QED BY <1>14, <1>15

-----------------------------------------------------------------------------
(* The other steps.                                                        *)

\* Notifications, wake-ups and the call of Wait only move threads.
Moves(u) ==
    \/ pc'[u] = pc[u]
    \/ pc[u] = "waiting" /\ pc'[u] = "woken"
    \/ u = Master /\ pc[u] \in {"adding", "notifyOne", "notifyAll"} /\ pc'[u] \in {"adding", "enter"}
    \/ u = Master /\ pc[u] = "stopping" /\ pc'[u] = "joining"

\* Waking a thread or starting one changes nothing that is counted.
LEMMA MovesKeepInv ==
    ASSUME QueueInv, UNCHANGED <<shared, batch, fOk, round>>,
           pc' \in [Threads -> WorkerPlaces \cup MasterPlaces],
           \A u \in Threads : Moves(u)
    PROVE  QueueInv'
<1> USE DEF QueueInv, shared, round
<1>1. TypeOK'
  <2>1. pc'[Master] \in MasterPlaces /\ \A w \in Workers : pc'[w] \in WorkerPlaces
    BY QueueAssumption DEF Moves, TypeOK, MasterPlaces, WorkerPlaces, Threads
  <2> QED BY <2>1 DEF TypeOK
<1>2. \A u \in Threads : batch[u] # {} => pc'[u] = pc[u]
  BY DEF Moves, PlacesInv
<1>3. Between' = Between
  BY SMTT(30) DEF Between, Moves, Threads
<1>4. PlacesInv'
  BY <1>2 DEF Moves, PlacesInv, Threads
<1>5. Idlers' = Idlers
  BY DEF Idlers, Moves
<1>6. InLoop' = InLoop
  BY <1>2 DEF InLoop, Moves
<1>7. CountInv'
  BY <1>5, <1>6, QueueAssumption DEF CountInv, Moves, Threads
<1>8. TodoCountsPending' /\ RoundInv' /\ Pending' = Pending
  BY DEF TodoCountsPending, Pending, RoundInv
<1>9. StatusInv'
  <2>1. \A u \in Threads : pc'[u] = "enter" /\ fOk[u] => batch[u] \subseteq ran \ bad
    <3> SUFFICES ASSUME NEW u \in Threads, pc'[u] = "enter", fOk[u], batch[u] # {}
                 PROVE  batch[u] \subseteq ran \ bad
        OBVIOUS
    <3> QED BY <1>2 DEF StatusInv
  <2> QED BY <2>1, <1>3, <1>8 DEF StatusInv
<1>10. BetweenInv'
  BY <1>3 DEF BetweenInv
<1> QED BY <1>1, <1>4, <1>7, <1>8, <1>9, <1>10

\* Running a batch outside the mutex changes nothing that is counted.
LEMMA ExecuteKeepsInv ==
    ASSUME QueueInv, NEW t \in Threads, Execute(t)
    PROVE  QueueInv'
<1> USE DEF QueueInv, shared
<1>1. /\ pc[t] = "work" /\ batch[t] # {}
      /\ \A u \in Threads : u # t => pc'[u] = pc[u] /\ fOk'[u] = fOk[u]
      /\ pc'[t] = "enter" /\ fOk'[t] = (fOk[t] /\ batch[t] \cap bad = {})
      /\ ran \subseteq ran' /\ ran' \subseteq ran \cup batch[t]
  BY DEF Execute, PlacesInv, TypeOK
<1>2. fOk'[t] => batch[t] \subseteq ran' \ bad
  <2> SUFFICES ASSUME fOk[t], batch[t] \cap bad = {} PROVE batch[t] \subseteq ran' \ bad
      BY <1>1
  <2>1. ran' = ran \cup {c \in batch[t] : \A d \in batch[t] \cap bad : c >= d}
    BY DEF Execute
  <2> QED BY <2>1
<1>3. UNCHANGED <<queue, nIdle, nTotal, fAllOk, nTodo, requestStop, batch, added, bad, result>>
  BY DEF Execute
<1>4. t # Master => Between' = Between
  BY <1>1, QueueAssumption DEF Between, Threads
<1>5. ~ Between /\ ~ Between'
  <2>1. ~ Between
    BY <1>1 DEF BetweenInv
  <2> QED BY <2>1, <1>1, <1>4 DEF Between
<1>6. TypeOK'
  <2>1. pc' \in [Threads -> WorkerPlaces \cup MasterPlaces] /\ fOk' \in [Threads -> BOOLEAN]
    BY DEF Execute, TypeOK, WorkerPlaces
  <2>2. pc'[Master] \in MasterPlaces /\ \A w \in Workers : pc'[w] \in WorkerPlaces
    BY <1>1 DEF TypeOK, MasterPlaces, WorkerPlaces, Threads
  <2>3. ran' \in SUBSET Checks
    BY <1>1 DEF TypeOK
  <2> QED BY <1>3, <2>1, <2>2, <2>3 DEF TypeOK
<1>7. PlacesInv'
  BY <1>1, <1>3, <1>5 DEF PlacesInv, Between, Threads
<1>8. CountInv'
  <2>1. Idlers' = Idlers /\ InLoop' = InLoop
    BY <1>1, <1>3 DEF Idlers, InLoop
  <2>2. (\A w \in Workers : pc'[w] # "ended") => (\A w \in Workers : pc[w] # "ended")
    BY <1>1 DEF Threads
  <2> QED BY <1>3, <2>1, <2>2 DEF CountInv
<1>9. TodoCountsPending' /\ Pending' = Pending
  BY <1>3 DEF TodoCountsPending, Pending
<1>10. RoundInv'
  BY <1>1, <1>3 DEF RoundInv
<1>11. StatusInv'
  <2>1. \A u \in Threads : ~ fOk'[u] => batch[u] # {} /\ bad # {}
    BY <1>1 DEF StatusInv
  <2>2. \A u \in Threads : pc'[u] = "enter" /\ fOk'[u] => batch[u] \subseteq ran' \ bad
    <3>1. \A u \in Threads : u # t /\ pc[u] = "enter" /\ fOk[u] => batch[u] \subseteq ran \ bad
      BY DEF StatusInv
    <3> QED BY <1>1, <1>2, <3>1
  <2>3. fAllOk => added \ Pending \subseteq ran' \ bad
    BY <1>1, <1>5 DEF StatusInv
  <2> QED BY <1>3, <1>9, <2>1, <2>2, <2>3 DEF StatusInv
<1>12. BetweenInv'
  BY <1>5 DEF BetweenInv
<1> QED BY <1>6, <1>7, <1>8, <1>9, <1>10, <1>11, <1>12

\* Add counts the checks it puts into the queue.
LEMMA AddKeepsInv ==
    ASSUME QueueInv, NEW n \in Checks, NEW B \in SUBSET Checks, Add(n, B)
    PROVE  QueueInv'
<1> USE DEF QueueInv
<1>1. PICK k \in 0 .. MaxChecks : added = 1 .. k
  BY DEF RoundInv
<1>2. Cardinality(added) = k
  BY SMTT(30), <1>1, FS_Interval
<1> DEFINE new == k + 1 .. k + n
<1>3. /\ pc[Master] = "adding" /\ new \subseteq Checks /\ B \subseteq new
      /\ added' = added \cup new /\ bad' = bad \cup B /\ queue' = queue \cup new
      /\ nTodo' = nTodo + n
      /\ pc' = [pc EXCEPT ![Master] = IF n = 1 THEN "notifyOne" ELSE "notifyAll"]
      /\ UNCHANGED <<nIdle, nTotal, fAllOk, requestStop, batch, fOk, ran, result>>
  <2>1. k + 1 + n - 1 = k + n
    BY SMTT(30) DEF Checks
  <2> QED BY <1>2, <2>1 DEF Add
<1>4. n \in Nat /\ n > 0 /\ k + n \in 0 .. MaxChecks
  <2>1. k + n \in new
    BY SMTT(30) DEF Checks
  <2> QED BY SMTT(30), <2>1, <1>3, QueueAssumption DEF Checks
<1>5. IsFiniteSet(new) /\ Cardinality(new) = n /\ new \cap added = {}
  <2>1. new \cap added = {}
    BY SMTT(30), <1>1
  <2> QED BY SMTT(30), <2>1, <1>4, FS_Interval
<1>6. added' = 1 .. k + n
  BY SMTT(30), <1>1, <1>3, <1>4
<1> HIDE DEF new
<1>7. \A u \in Threads : \/ u # Master /\ pc'[u] = pc[u]
                         \/ u = Master /\ pc[u] = "adding" /\ pc'[u] \in {"notifyOne", "notifyAll"}
  BY <1>3 DEF TypeOK
<1>8. ~ Between /\ ~ Between'
  BY <1>7 DEF Between, Threads
<1>9. TypeOK'
  <2>1. pc' \in [Threads -> WorkerPlaces \cup MasterPlaces] /\ pc'[Master] \in MasterPlaces
        /\ \A w \in Workers : pc'[w] \in WorkerPlaces
    BY <1>3, <1>7, QueueAssumption DEF TypeOK, MasterPlaces, Threads
  <2> QED BY SMTT(30), <2>1, <1>3, <1>4 DEF TypeOK
<1>10. PlacesInv'
  BY <1>3, <1>7 DEF PlacesInv, Threads
<1>11. CountInv'
  <2>1. Idlers' = Idlers
    BY <1>7 DEF Idlers
  <2>2. InLoop' = InLoop
    BY <1>3, <1>7 DEF InLoop
  <2> QED BY <1>3, <1>7, <2>1, <2>2, QueueAssumption DEF CountInv, Threads
<1>12. Pending' = Pending \cup new /\ Pending \cap new = {} /\ Pending \in SUBSET Checks
  <2>1. Pending' = Pending \cup new
    BY <1>3 DEF Pending
  <2>2. Pending \subseteq added
    BY PendingIs DEF RoundInv
  <2> QED BY <2>1, <2>2, <1>5 DEF TypeOK
<1>13. TodoCountsPending'
  <2>1. Cardinality(Pending') = Cardinality(Pending) + n
    <3>1. IsFiniteSet(Pending) /\ Cardinality(Pending) \in Nat
      BY <1>12, FiniteChecks
    <3> QED BY SMTT(30), <3>1, <1>4, <1>5, <1>12, FS_Union, FS_EmptySet
  <2>2. \A t \in Threads : batch[t] \cap queue' = {}
    BY <1>3, <1>5 DEF TodoCountsPending, RoundInv
  <2> QED BY <1>3, <2>1, <2>2 DEF TodoCountsPending
<1>14. RoundInv'
  BY <1>3, <1>4, <1>6 DEF RoundInv
<1>15. StatusInv'
  <2>1. \A u \in Threads : pc'[u] = "enter" /\ fOk[u] => batch[u] \subseteq ran \ bad'
    <3> SUFFICES ASSUME NEW u \in Threads, pc[u] = "enter", fOk[u]
                 PROVE  batch[u] \subseteq ran \ bad'
        BY <1>7
    <3>1. batch[u] \subseteq ran \ bad /\ batch[u] \subseteq added
      BY DEF StatusInv, RoundInv
    <3> QED BY <3>1, <1>3, <1>5
  <2>2. fAllOk => added' \ Pending' \subseteq ran \ bad'
    <3>1. fAllOk => added \ Pending \subseteq ran \ bad
      BY <1>8 DEF StatusInv
    <3> QED BY <3>1, <1>3, <1>5, <1>12
  <2> QED BY <1>3, <2>1, <2>2 DEF StatusInv
<1>16. BetweenInv'
  BY <1>8 DEF BetweenInv
<1> QED BY <1>9, <1>10, <1>11, <1>13, <1>14, <1>15, <1>16

\* Between two rounds nothing is pending.
LEMMA BetweenEmpty ==
    ASSUME QueueInv, Between
    PROVE  /\ queue = {} /\ nTodo = 0 /\ fAllOk /\ Pending = {}
           /\ \A t \in Threads : batch[t] = {} /\ fOk[t] /\ pc[t] # "work"
BY PendingIs DEF QueueInv, BetweenInv, StatusInv, PlacesInv

\* A new CCheckQueueControl finds the queue as the last one left it: empty and reset.
LEMMA NewControlKeepsInv ==
    ASSUME QueueInv, NewControl
    PROVE  QueueInv'
<1> USE DEF QueueInv, shared
<1>1. /\ \A u \in Threads : \/ u # Master /\ pc'[u] = pc[u]
                            \/ u = Master /\ pc[u] = "idle" /\ pc'[u] = "adding"
      /\ pc' \in [Threads -> WorkerPlaces \cup MasterPlaces]
      /\ added' = {} /\ bad' = {} /\ ran' = {} /\ result' = TRUE
      /\ UNCHANGED <<queue, nIdle, nTotal, fAllOk, nTodo, requestStop, batch, fOk>>
  BY DEF NewControl, TypeOK, MasterPlaces
<1>2. Between /\ ~ Between'
  BY <1>1 DEF Between, NewControl, Threads
<1>3. /\ queue = {} /\ fAllOk /\ Pending = {}
      /\ \A t \in Threads : batch[t] = {} /\ fOk[t] /\ pc[t] # "work"
  BY <1>2, BetweenEmpty
<1>4. TypeOK'
  <2>1. pc'[Master] \in MasterPlaces /\ \A w \in Workers : pc'[w] \in WorkerPlaces
    BY <1>1, QueueAssumption DEF TypeOK, MasterPlaces, Threads
  <2> QED BY <1>1, <2>1 DEF TypeOK
<1>5. PlacesInv'
  BY SMTT(30), <1>1, <1>3, QueueAssumption DEF PlacesInv, NewControl, Threads
<1>6. CountInv'
  <2>1. Idlers' = Idlers
    BY <1>1 DEF Idlers
  <2>2. InLoop' = InLoop
    BY <1>1 DEF InLoop
  <2> QED BY <1>1, <2>1, <2>2, QueueAssumption DEF CountInv, Threads
<1>7. TodoCountsPending' /\ Pending' = Pending
  BY <1>1 DEF TodoCountsPending, Pending
<1>8. RoundInv'
  <2>1. added' = 1 .. 0
    BY SMTT(30), <1>1
  <2> QED BY SMTT(30), <1>1, <1>3, <2>1, QueueAssumption DEF RoundInv
<1>9. StatusInv'
  BY <1>1, <1>3 DEF StatusInv
<1>10. BetweenInv'
  BY <1>2 DEF BetweenInv
<1> QED BY <1>4, <1>5, <1>6, <1>7, <1>8, <1>9, <1>10

\* Starting, stopping and joining the workers happens between two rounds.
LEMMA PoolKeepsInv ==
    ASSUME QueueInv, StartWorkerThreads \/ StopWorkerThreads \/ Join
    PROVE  QueueInv'
<1> USE DEF QueueInv, round
<1>1. /\ UNCHANGED <<queue, nTodo, batch, fOk, added, bad, ran, result>>
      /\ fAllOk' = fAllOk /\ Between /\ Between'
      /\ requestStop' => pc'[Master] \in {"stopping", "joining"}
      /\ requestStop' \in BOOLEAN
      /\ pc' \in [Threads -> WorkerPlaces \cup MasterPlaces]
      /\ pc'[Master] \in MasterPlaces
  <2>1. Between
    BY DEF Between, StartWorkerThreads, StopWorkerThreads, Join
  <2>2. fAllOk
    BY <2>1, BetweenEmpty
  <2>3. CASE StartWorkerThreads
    BY <2>1, <2>2, <2>3 DEF StartWorkerThreads, Between, TypeOK, PlacesInv, WorkerPlaces,
                            MasterPlaces, Threads
  <2>4. CASE StopWorkerThreads
    BY <2>1, <2>4 DEF StopWorkerThreads, Between, TypeOK, MasterPlaces, Threads
  <2>5. CASE Join
    BY <2>1, <2>5 DEF Join, Between, TypeOK, MasterPlaces, Threads
  <2> QED BY <2>3, <2>4, <2>5
<1>2. \A w \in Workers : pc'[w] \in WorkerPlaces \ {"work"} /\ pc[w] # "work"
  <2>1. \A w \in Workers : pc[w] \in WorkerPlaces \ {"work"}
    BY <1>1, BetweenEmpty DEF TypeOK, Threads
  <2> QED BY <2>1, QueueAssumption DEF StartWorkerThreads, StopWorkerThreads, Join, WorkerPlaces,
                                       Threads, TypeOK
<1>3. \A t \in Threads : batch[t] = {} /\ fOk[t]
  BY <1>1, BetweenEmpty
<1>4. CountInv' /\ nIdle' \in Nat /\ nTotal' \in Nat
  <2>1. CASE StartWorkerThreads
    <3>1. \A t \in Threads : pc'[t] \in {"idle", "enter"}
      BY <2>1 DEF StartWorkerThreads
    <3>2. Idlers' = {} /\ InLoop' = {}
      BY <1>1, <1>3, <3>1 DEF Idlers, InLoop
    <3>3. nIdle' = 0 /\ nTotal' = 0
      BY <2>1 DEF StartWorkerThreads
    <3> QED BY SMTT(30), <3>2, <3>3, FS_EmptySet DEF CountInv
  <2>2. CASE StopWorkerThreads \/ Join
    <3>1. /\ nIdle' = nIdle /\ nTotal' = nTotal
          /\ \A t \in Threads : \/ pc'[t] = pc[t]
                                \/ /\ t = Master /\ pc[t] \in {"idle", "joining"}
                                   /\ pc'[t] \in {"idle", "stopping"}
      BY <2>2 DEF StopWorkerThreads, Join, TypeOK
    <3>2. Idlers' = Idlers
      BY <3>1 DEF Idlers
    <3>3. InLoop' = InLoop
      BY <1>1, <3>1 DEF InLoop
    <3> QED BY <3>1, <3>2, <3>3, QueueAssumption DEF CountInv, TypeOK, Threads
  <2> QED BY <2>1, <2>2
<1>5. TypeOK'
  BY <1>1, <1>2, <1>4 DEF TypeOK
<1>6. PlacesInv'
  BY <1>1, <1>2, <1>3 DEF PlacesInv, Between, Threads
<1>7. TodoCountsPending' /\ RoundInv'
  BY <1>1 DEF TodoCountsPending, RoundInv, Pending
<1>8. StatusInv' /\ BetweenInv'
  BY <1>1, <1>3 DEF StatusInv, BetweenInv
<1> QED BY <1>4, <1>5, <1>6, <1>7, <1>8

-----------------------------------------------------------------------------
\* The queue starts empty.
LEMMA QueueInit == Init => QueueInv
<1> SUFFICES ASSUME Init PROVE QueueInv
    OBVIOUS
<1>1. TypeOK
  BY QueueAssumption DEF Init, TypeOK, WorkerPlaces, MasterPlaces, Threads
<1>2. Idlers = {} /\ InLoop = {} /\ Pending = {}
  BY DEF Init, Idlers, InLoop, Pending
<1>3. CountInv
  BY SMTT(30), <1>2, FS_EmptySet DEF Init, CountInv
<1>4. TodoCountsPending
  BY <1>2, FS_EmptySet DEF Init, TodoCountsPending
<1>5. RoundInv
  <2>1. added = 1 .. 0
    BY SMTT(30) DEF Init
  <2> QED BY SMTT(30), <2>1, QueueAssumption DEF Init, RoundInv
<1>6. PlacesInv /\ StatusInv /\ BetweenInv
  BY DEF Init, PlacesInv, StatusInv, BetweenInv
<1> QED BY <1>1, <1>3, <1>4, <1>5, <1>6 DEF QueueInv

\* Every step of every thread keeps the invariant.
LEMMA QueueStep == QueueInv /\ [Next]_vars => QueueInv'
<1> SUFFICES ASSUME QueueInv, [Next]_vars PROVE QueueInv'
    OBVIOUS
<1>1. ASSUME NEW t \in Threads, EnterLoop(t) \/ CleanUp(t) \/ WaitReturns(t)
      PROVE  QueueInv'
  <2>1. PICK places, B, p : Section(t, places, B, p)
    BY <1>1, LoopIsSection
  <2> QED BY <2>1, SectionType, SectionCount, SectionTodo, SectionStatus DEF QueueInv
<1>2. ASSUME NEW t \in Threads, Execute(t)
      PROVE  QueueInv'
  BY <1>2, ExecuteKeepsInv
<1>3. ASSUME NEW t \in Threads, SpuriousWakeup(t)
      PROVE  QueueInv'
  <2>1. pc' \in [Threads -> WorkerPlaces \cup MasterPlaces] /\ \A u \in Threads : Moves(u)
    BY <1>3 DEF SpuriousWakeup, Moves, QueueInv, TypeOK, WorkerPlaces
  <2> QED BY <1>3, <2>1, MovesKeepInv DEF SpuriousWakeup
<1>4. CASE NewControl
  BY <1>4, NewControlKeepsInv
<1>5. ASSUME NEW n \in Checks, NEW B \in SUBSET Checks, Add(n, B)
      PROVE  QueueInv'
  BY <1>5, AddKeepsInv
<1>6. CASE NotifyOne
  <2>1. pc' \in [Threads -> WorkerPlaces \cup MasterPlaces] /\ \A u \in Threads : Moves(u)
    BY <1>6, QueueAssumption
       DEF NotifyOne, Moves, QueueInv, TypeOK, WorkerPlaces, MasterPlaces, Sleeping, Threads
  <2> QED BY <1>6, <2>1, MovesKeepInv DEF NotifyOne
<1>7. CASE NotifyAll
  <2>1. pc' \in [Threads -> WorkerPlaces \cup MasterPlaces]
    BY <1>7 DEF NotifyAll, QueueInv, TypeOK, WorkerPlaces, MasterPlaces, Sleeping, Threads
  <2>2. \A u \in Threads : Moves(u)
    BY <1>7, QueueAssumption
       DEF NotifyAll, Moves, QueueInv, TypeOK, WorkerPlaces, MasterPlaces, Sleeping, Threads
  <2> QED BY <1>7, <2>1, <2>2, MovesKeepInv DEF NotifyAll
<1>8. CASE Wait
  <2>1. pc' \in [Threads -> WorkerPlaces \cup MasterPlaces] /\ \A u \in Threads : Moves(u)
    BY <1>8 DEF Wait, Moves, QueueInv, TypeOK, WorkerPlaces
  <2> QED BY <1>8, <2>1, MovesKeepInv DEF Wait
<1>9. CASE StartWorkerThreads \/ StopWorkerThreads \/ Join
  BY <1>9, PoolKeepsInv
<1>10. CASE UNCHANGED vars
  <2>1. pc' \in [Threads -> WorkerPlaces \cup MasterPlaces] /\ \A u \in Threads : Moves(u)
    BY <1>10 DEF vars, Moves, QueueInv, TypeOK
  <2> QED BY <1>10, <2>1, MovesKeepInv DEF vars
<1> QED BY <1>1, <1>2, <1>3, <1>4, <1>5, <1>6, <1>7, <1>8, <1>9, <1>10
           DEF Next, LoopStep

\* The invariant holds throughout.
LEMMA QueueCorrect == Spec => []QueueInv
BY QueueInit, QueueStep, PTL DEF Spec

-----------------------------------------------------------------------------
\* nTodo is the number of the pending checks, and no check is in two places, for
\* every number of workers and checks (Add, Loop).
THEOREM TodoExact == Spec => []TodoCountsPending
<1>1. QueueInv => TodoCountsPending
  BY DEF QueueInv
<1> QED BY <1>1, QueueCorrect, PTL

\* nIdle and nTotal do not drift while the pool runs, whatever wakes up when, and
\* however often it is stopped and started (Loop, StopWorkerThreads).
THEOREM CountersDoNotDrift == Spec => []CountersExact
<1>1. QueueInv => CountersExact
  BY DEF QueueInv, CountInv, CountersExact, Idlers, InLoop
<1> QED BY <1>1, QueueCorrect, PTL

\* Between two blocks no check and no failure is left (Wait, ~CCheckQueueControl).
THEOREM NoCheckOutlivesWait == Spec => []NothingLeftBehind
<1>1. QueueInv => NothingLeftBehind
  BY DEF QueueInv, BetweenInv, Between, NothingLeftBehind
<1> QED BY <1>1, QueueCorrect, PTL

\* Wait returns true if and only if no check of the block fails, and then all of
\* them were called (Loop, Wait).
THEOREM WaitIsRight == Spec => []ResultIsRight
<1>1. QueueInv => ResultIsRight
  BY DEF QueueInv, BetweenInv, Between, ResultIsRight
<1> QED BY <1>1, QueueCorrect, PTL

-----------------------------------------------------------------------------
\* Every finite set is counted, so the modules that assume it of their constants
\* (the blocks of BlockTree, the members of DKG) assume no more than that these
\* are finitely many.
THEOREM FiniteIsCounted ==
  ASSUME NEW S, IsFiniteSet(S) PROVE Counted(S)
<1>1. \A T \in SUBSET S : IsFiniteSet(T) /\ Cardinality(T) \in Nat /\ (Cardinality(T) = 0 <=> T = {})
  <2> TAKE T \in SUBSET S
  <2>1. IsFiniteSet(T)
    BY FS_Subset
  <2> QED
    BY <2>1, FS_CardinalityType, FS_EmptySet
<1>2. \A x \in S : Cardinality({x}) = 1
  BY FS_Singleton
<1>3. ASSUME NEW T \in SUBSET S, NEW U \in SUBSET S, T \cap U = {}
      PROVE Cardinality(T \cup U) = Cardinality(T) + Cardinality(U)
  <2>1. IsFiniteSet(T) /\ IsFiniteSet(U) /\ Cardinality(T) \in Nat /\ Cardinality(U) \in Nat
    BY <1>1
  <2>2. Cardinality(T \cup U) = Cardinality(T) + Cardinality(U) - Cardinality(T \cap U)
    BY <2>1, FS_Union
  <2>3. Cardinality(T \cap U) = 0
    BY <1>3, FS_EmptySet
  <2> QED
    BY SMTT(30), <2>1, <2>2, <2>3
<1>4. ASSUME NEW N \in SUBSET (0 .. Cardinality(S)), N # {}
      PROVE \E m \in N : \A n \in N : m <= n
  <2> DEFINE R == OpToRel(<, Nat)
  <2>1. Cardinality(S) \in Nat
    BY <1>1
  <2>2. N \subseteq Nat
    BY SMTT(30), <2>1
  <2>3. IsWellFoundedOn(R, Nat)
    BY NatLessThanWellFounded
  <2>4. PICK m \in N : \A n \in N : ~(<<n, m>> \in R)
    <3> HIDE DEF R
    <3> QED
      BY <1>4, <2>2, <2>3, WFMin
  <2>5. \A n \in N : ~(n < m)
    BY <2>2, <2>4 DEF OpToRel
  <2>6. \A n \in N : m <= n
    BY SMTT(30), <2>2, <2>5
  <2> QED
    BY <2>6
<1> QED
  BY <1>1, <1>2, <1>3, <1>4 DEF Counted

=============================================================================
