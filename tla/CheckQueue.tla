---------------------------- MODULE CheckQueue ----------------------------
(***************************************************************************)
(* CCheckQueue and CCheckQueueControl: the script checks of a block that   *)
(* is being connected, run by a pool of worker threads that the thread     *)
(* connecting the block (the master) joins when it has added all of them.  *)
(*                                                                         *)
(* m_mutex is held for one critical section of Loop, Add, StartWorker-     *)
(* Threads or StopWorkerThreads at a time, so each of them is one action;  *)
(* a condition variable's wait ends a critical section and starts another. *)
(* Checks run, and the workers are notified of new ones, outside the lock. *)
(* The checks of a round are numbered as they are added; the queue is a    *)
(* stack, so its back is its greatest number.                              *)
(***************************************************************************)
EXTENDS Integers, FiniteSets

CONSTANTS
    Workers,    \* the worker threads
    Master,     \* the thread that connects blocks
    BatchSize,  \* nBatchSize
    MaxChecks,  \* bound: the checks of one block
    MaxBad      \* bound: those of them that fail

ASSUME QueueAssumption ==
    /\ IsFiniteSet(Workers)
    /\ Master \notin Workers
    /\ BatchSize \in Nat \ {0}
    /\ MaxChecks \in Nat
    /\ MaxBad \in Nat

Threads == Workers \cup {Master}
Checks  == 1 .. MaxChecks

VARIABLES
    pc,          \* where each thread is
    queue,       \* the checks nobody has taken
    nIdle,
    nTotal,
    fAllOk,
    nTodo,
    requestStop, \* m_request_stop
    batch,       \* batch[t]: the nNow checks t took and has not accounted for
    fOk,         \* fOk[t]; TRUE where it is dead: between two batches
    added,       \* the checks of the current round, added so far
    bad,         \* those of them that fail
    ran,         \* those that were called
    result       \* what the last Wait returned

shared == <<queue, nIdle, nTotal, fAllOk, nTodo, requestStop>>
round  == <<added, bad, ran, result>>
vars   == <<pc, shared, batch, fOk, round>>

\* ended: not running; enter: about to lock m_mutex in Loop; waiting, woken: in
\* cond.wait; work: running a batch.  Only the master is between two blocks
\* (idle), adding, about to notify, stopping or joining the workers.
WorkerPlaces == {"ended", "enter", "waiting", "woken", "work"}
MasterPlaces == {"idle", "adding", "notifyOne", "notifyAll", "enter", "waiting",
                 "woken", "work", "stopping", "joining"}

TypeOK ==
    /\ pc \in [Threads -> WorkerPlaces \cup MasterPlaces]
    /\ pc[Master] \in MasterPlaces
    /\ \A w \in Workers : pc[w] \in WorkerPlaces
    /\ queue \in SUBSET Checks
    /\ nIdle \in Nat
    /\ nTotal \in Nat
    /\ fAllOk \in BOOLEAN
    /\ nTodo \in Nat
    /\ requestStop \in BOOLEAN
    /\ batch \in [Threads -> SUBSET Checks]
    /\ fOk \in [Threads -> BOOLEAN]
    /\ added \in SUBSET Checks
    /\ bad \in SUBSET added
    /\ ran \in SUBSET Checks
    /\ result \in BOOLEAN

Init ==
    /\ pc = [t \in Threads |-> IF t = Master THEN "idle" ELSE "ended"]
    /\ queue = {}
    /\ nIdle = 0
    /\ nTotal = 0
    /\ fAllOk = TRUE
    /\ nTodo = 0
    /\ requestStop = FALSE
    /\ batch = [t \in Threads |-> {}]
    /\ fOk = [t \in Threads |-> TRUE]
    /\ added = {}
    /\ bad = {}
    /\ ran = {}
    /\ result = TRUE

-----------------------------------------------------------------------------
(* CCheckQueue::Loop.                                                      *)

\* nNow: an equal part of the queue for the threads in the pool and the idle
\* ones, at least 1 and at most nBatchSize
UnitsNow(total, idle) ==
    LET share == Cardinality(queue) \div (total + idle + 1) IN
    IF share > BatchSize THEN BatchSize ELSE IF share < 1 THEN 1 ELSE share

\* The n checks at the back of the queue
Back(n) == {c \in queue : Cardinality({d \in queue : d > c}) < n}

\* The master finds the queue empty and nothing to do: Wait returns the status,
\* which is reset for the next block.
MutantKeepStatus(places, allOk, total) ==
    /\ pc' = [places EXCEPT ![Master] = "idle"]
    /\ nTotal' = total - 1
    /\ result' = allOk
    /\ fAllOk' = allOk
    /\ batch' = [batch EXCEPT ![Master] = {}]
    /\ fOk' = [fOk EXCEPT ![Master] = TRUE]
    /\ UNCHANGED queue
ReturnStatus(places, allOk, total) ==
    /\ pc' = [places EXCEPT ![Master] = "idle"]
    /\ nTotal' = total - 1
    /\ result' = allOk
    /\ fAllOk' = TRUE
    /\ batch' = [batch EXCEPT ![Master] = {}]
    /\ fOk' = [fOk EXCEPT ![Master] = TRUE]
    /\ UNCHANGED queue

\* Thread t, holding m_mutex at the top of the inner while loop, up to where it
\* releases the mutex.  The arguments are the values of pc, fAllOk, nTodo, nTotal
\* and nIdle it has computed so far in this critical section.
Continue(t, places, allOk, todo, total, idle) ==
    /\ nTodo' = todo
    /\ \/ /\ queue = {} /\ ~ requestStop /\ t = Master /\ todo = 0
          /\ ReturnStatus(places, allOk, total)
          /\ nIdle' = idle
       \/ /\ queue = {} /\ ~ requestStop /\ ~ (t = Master /\ todo = 0)
          /\ pc' = [places EXCEPT ![t] = "waiting"]
          /\ nIdle' = idle + 1
          /\ batch' = [batch EXCEPT ![t] = {}]
          /\ fOk' = [fOk EXCEPT ![t] = TRUE]
          /\ nTotal' = total /\ fAllOk' = allOk
          /\ UNCHANGED <<queue, result>>
       \/ /\ requestStop
          /\ pc' = [places EXCEPT ![t] = "ended"]
          /\ batch' = [batch EXCEPT ![t] = {}]
          /\ fOk' = [fOk EXCEPT ![t] = TRUE]
          /\ nIdle' = idle /\ nTotal' = total /\ fAllOk' = allOk
          /\ UNCHANGED <<queue, result>>
       \/ /\ queue # {} /\ ~ requestStop
          /\ LET taken == Back(UnitsNow(total, idle)) IN
              /\ batch' = [batch EXCEPT ![t] = taken]
              /\ queue' = queue \ taken
          /\ pc' = [places EXCEPT ![t] = "work"]
          /\ fOk' = [fOk EXCEPT ![t] = allOk]
          /\ nIdle' = idle /\ nTotal' = total /\ fAllOk' = allOk
          /\ UNCHANGED result

\* m_master_cv.notify_one
MutantNotifyNobody == pc
NotifyMaster ==
    IF pc[Master] = "waiting" THEN [pc EXCEPT ![Master] = "woken"] ELSE pc

\* The first critical section of a call of Loop
EnterLoop(t) ==
    /\ pc[t] = "enter" /\ batch[t] = {}
    /\ Continue(t, pc, fAllOk, nTodo, nTotal + 1, nIdle)
    /\ UNCHANGED <<requestStop, added, bad, ran>>

\* The critical section after a batch, with the clean-up of the batch
MutantForgetStatus(t) ==
    /\ pc[t] = "enter" /\ batch[t] # {}
    /\ LET todo == nTodo - Cardinality(batch[t]) IN
        Continue(t, IF todo = 0 /\ t # Master THEN NotifyMaster ELSE pc,
                 fOk[t], todo, nTotal, nIdle)
    /\ UNCHANGED <<requestStop, added, bad, ran>>
MutantCountBatchAsOne(t) ==
    /\ pc[t] = "enter" /\ batch[t] # {}
    /\ LET todo == nTodo - 1 IN
        Continue(t, IF todo = 0 /\ t # Master THEN NotifyMaster ELSE pc,
                 fAllOk /\ fOk[t], todo, nTotal, nIdle)
    /\ UNCHANGED <<requestStop, added, bad, ran>>
CleanUp(t) ==
    /\ pc[t] = "enter" /\ batch[t] # {}
    /\ LET todo == nTodo - Cardinality(batch[t]) IN
        Continue(t, IF todo = 0 /\ t # Master THEN NotifyMaster ELSE pc,
                 fAllOk /\ fOk[t], todo, nTotal, nIdle)
    /\ UNCHANGED <<requestStop, added, bad, ran>>

\* cond.wait returns with m_mutex held again
MutantStayIdle(t) ==
    /\ pc[t] = "woken"
    /\ Continue(t, pc, fAllOk, nTodo, nTotal, nIdle)
    /\ UNCHANGED <<requestStop, added, bad, ran>>
WaitReturns(t) ==
    /\ pc[t] = "woken"
    /\ Continue(t, pc, fAllOk, nTodo, nTotal, nIdle - 1)
    /\ UNCHANGED <<requestStop, added, bad, ran>>

\* A condition variable may wake a thread nobody notified.
SpuriousWakeup(t) ==
    /\ pc[t] = "waiting"
    /\ pc' = [pc EXCEPT ![t] = "woken"]
    /\ UNCHANGED <<shared, batch, fOk, round>>

\* The checks of the batch are called one after the other until one fails, and
\* none is called when the round has failed already.
Execute(t) ==
    /\ pc[t] = "work"
    /\ pc' = [pc EXCEPT ![t] = "enter"]
    /\ fOk' = [fOk EXCEPT ![t] = @ /\ batch[t] \cap bad = {}]
    /\ ran' = IF ~ fOk[t] THEN ran
               ELSE ran \cup {c \in batch[t] : \A d \in batch[t] \cap bad : c >= d}
    /\ UNCHANGED <<shared, batch, added, bad, result>>

-----------------------------------------------------------------------------
(* The thread that connects blocks: CCheckQueueControl, Add and Wait.      *)

\* CCheckQueueControl's constructor
NewControl ==
    /\ pc[Master] = "idle"
    /\ pc' = [pc EXCEPT ![Master] = "adding"]
    /\ added' = {} /\ bad' = {} /\ ran' = {} /\ result' = TRUE
    /\ UNCHANGED <<shared, batch, fOk>>

\* Add, up to the release of m_mutex: n checks, of which those in B fail.  (An
\* empty vector changes nothing.)
Add(n, B) ==
    LET first == Cardinality(added) + 1
        new   == first .. first + n - 1 IN
    /\ pc[Master] = "adding"
    /\ n > 0 /\ new \subseteq Checks
    /\ B \subseteq new /\ Cardinality(bad \cup B) <= MaxBad
    /\ added' = added \cup new
    /\ bad' = bad \cup B
    /\ queue' = queue \cup new
    /\ nTodo' = nTodo + n
    /\ pc' = [pc EXCEPT ![Master] = IF n = 1 THEN "notifyOne" ELSE "notifyAll"]
    /\ UNCHANGED <<nIdle, nTotal, fAllOk, requestStop, batch, fOk, ran, result>>

Sleeping == {w \in Workers : pc[w] = "waiting"}

\* m_worker_cv.notify_one
MutantNotifyNone ==
    /\ pc[Master] = "notifyOne"
    /\ pc' = [pc EXCEPT ![Master] = "adding"]
    /\ UNCHANGED <<shared, batch, fOk, round>>
NotifyOne ==
    /\ pc[Master] = "notifyOne"
    /\ IF Sleeping = {} THEN pc' = [pc EXCEPT ![Master] = "adding"]
       ELSE \E w \in Sleeping :
            pc' = [pc EXCEPT ![w] = "woken", ![Master] = "adding"]
    /\ UNCHANGED <<shared, batch, fOk, round>>

\* m_worker_cv.notify_all, by Add or by StopWorkerThreads
NotifyAll ==
    /\ pc[Master] \in {"notifyAll", "stopping"}
    /\ pc' = [t \in Threads |->
                CASE t = Master /\ pc[t] = "notifyAll" -> "adding"
                  [] t = Master /\ pc[t] = "stopping"  -> "joining"
                  [] t \in Sleeping                    -> "woken"
                  [] OTHER                             -> pc[t]]
    /\ UNCHANGED <<shared, batch, fOk, round>>

\* Wait, called after the last Add, or by the destructor of the control when the
\* block was found invalid before
Wait ==
    /\ pc[Master] = "adding"
    /\ pc' = [pc EXCEPT ![Master] = "enter"]
    /\ UNCHANGED <<shared, batch, fOk, round>>

-----------------------------------------------------------------------------
(* The life of the pool.  The workers are stopped by the shutdown, after   *)
(* the threads that connect blocks.                                        *)

AllEnded == \A w \in Workers : pc[w] = "ended"

StartWorkerThreads ==
    /\ pc[Master] = "idle" /\ AllEnded
    /\ pc' = [t \in Threads |-> IF t = Master THEN pc[t] ELSE "enter"]
    /\ nIdle' = 0 /\ nTotal' = 0 /\ fAllOk' = TRUE
    /\ UNCHANGED <<queue, nTodo, requestStop, batch, fOk, round>>

MutantStopWithoutNotify ==
    /\ pc[Master] = "idle" /\ ~ AllEnded
    /\ requestStop' = TRUE
    /\ pc' = [pc EXCEPT ![Master] = "joining"]
    /\ UNCHANGED <<queue, nIdle, nTotal, fAllOk, nTodo, batch, fOk, round>>
StopWorkerThreads ==
    /\ pc[Master] = "idle" /\ ~ AllEnded
    /\ requestStop' = TRUE
    /\ pc' = [pc EXCEPT ![Master] = "stopping"]
    /\ UNCHANGED <<queue, nIdle, nTotal, fAllOk, nTodo, batch, fOk, round>>

Join ==
    /\ pc[Master] = "joining" /\ AllEnded
    /\ requestStop' = FALSE
    /\ pc' = [pc EXCEPT ![Master] = "idle"]
    /\ UNCHANGED <<queue, nIdle, nTotal, fAllOk, nTodo, batch, fOk, round>>

-----------------------------------------------------------------------------
LoopStep(t) == EnterLoop(t) \/ CleanUp(t) \/ WaitReturns(t) \/ Execute(t)

Next ==
    \/ \E t \in Threads : LoopStep(t) \/ SpuriousWakeup(t)
    \/ NewControl
    \/ \E n \in Checks : \E B \in SUBSET Checks : Add(n, B)
    \/ NotifyOne
    \/ NotifyAll
    \/ Wait
    \/ StartWorkerThreads
    \/ StopWorkerThreads
    \/ Join

Spec == Init /\ [][Next]_vars

\* A runnable thread is scheduled and gets m_mutex, and a thread that has
\* released it goes on to notify or join.  Nothing makes the master call Add or
\* Wait or stop the pool, and nothing causes a spurious wakeup.
Fairness ==
    /\ \A t \in Threads : WF_vars(LoopStep(t))
    /\ WF_vars(NotifyOne)
    /\ WF_vars(NotifyAll)
    /\ WF_vars(Join)

FairSpec == Spec /\ Fairness

-----------------------------------------------------------------------------
\* Taken or queued, and not yet subtracted from nTodo
Pending == queue \cup UNION {batch[t] : t \in Threads}

\* nTodo is the number of checks of this round that are queued or in a batch, and
\* no check is in two places: the master leaves Wait on nTodo = 0, and a check
\* lost from the count or counted twice would end Wait early or never.
TodoCountsPending ==
    /\ nTodo = Cardinality(Pending)
    /\ \A t \in Threads : batch[t] \cap queue = {}
    /\ \A t, u \in Threads : t # u => batch[t] \cap batch[u] = {}

\* nIdle counts the threads inside cond.wait and nTotal those inside Loop, while
\* the pool runs: both divide the queue into batches, and nothing repairs a
\* count that drifts from one block to the next.
CountersExact ==
    (\A w \in Workers : pc[w] # "ended") =>
        /\ nIdle = Cardinality({t \in Threads : pc[t] \in {"waiting", "woken"}})
        /\ nTotal = Cardinality({t \in Threads :
                        \/ pc[t] \in {"waiting", "woken", "work"}
                        \/ pc[t] = "enter" /\ batch[t] # {}})

\* Between two blocks no thread holds or can still take a check of the last one,
\* and its failure does not reach the next: the checks point into data of
\* ConnectBlock (txsdata) that dies with the control.
NothingLeftBehind ==
    pc[Master] = "idle" => queue = {} /\ nTodo = 0 /\ fAllOk
                           /\ \A t \in Threads : batch[t] = {}

\* Wait returns true exactly when no check of the block fails, and then each of
\* them was called: whichever threads ran them, in whichever batches.
ResultIsRight ==
    pc[Master] = "idle" /\ added # {} =>
        /\ result <=> bad = {}
        /\ result => ran = added

\* Wait returns: the last worker to finish wakes the master (m_master_cv), or the
\* master finishes last itself.
WaitEnds == pc[Master] = "enter" ~> pc[Master] = "idle"

\* A running pool empties the queue although the master, busy with the next
\* transaction, has not called Wait: no notification of Add is lost to a worker
\* on its way to sleep.
PoolDrainsQueue ==
    (queue # {} /\ ~ AllEnded) ~> queue = {}

\* StopWorkerThreads joins every worker, asleep, waking or working.
StopEnds == requestStop ~> ~ requestStop
============================================================================
