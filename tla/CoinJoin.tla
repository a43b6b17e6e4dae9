------------------------------ MODULE CoinJoin ------------------------------
(***************************************************************************)
(* A CoinJoin mixing round: one masternode (coinjoin/server.cpp) and the   *)
(* wallets that mix on it (coinjoin/client.cpp).                           *)
(*                                                                         *)
(* A wallet locks a collateral, asks to join (DSACCEPT), waits until the   *)
(* queue is announced as ready (DSQUEUE), locks its inputs and submits     *)
(* them with a fresh output key (DSVIN), signs the joint transaction       *)
(* (DSFINALTX, DSSIGNFINALTX) and is told how it ended (DSCOMPLETE).       *)
(*                                                                         *)
(* The masternode runs two threads on the same state: the message handler  *)
(* and the scheduler's DoMaintenance.  nState and the entries are guarded  *)
(* piecewise, so a handler is split into steps wherever the other thread   *)
(* may come in between.  All sessions of a wallet are guarded by           *)
(* cs_deqsessions, so every handler of a wallet is one step.               *)
(*                                                                         *)
(* Abstractions: one masternode and one denomination; one coin per wallet, *)
(* Inputs[c] is how many inputs its entry lists; a session id is fresh     *)
(* (the code draws it at random); a signature is the set of outputs it     *)
(* covers (SIGHASH_ALL | SIGHASH_ANYONECANPAY); wallets are unlocked,      *)
(* funded and synced.                                                      *)
(***************************************************************************)
EXTENDS Naturals, Sequences, FiniteSets, FiniteSetsExt

CONSTANTS
    Clients,        \* the wallets
    Flaky,          \* the one of them that may fail
    Inputs,         \* the number of inputs of each wallet's entry
    MinPool,        \* CoinJoin::GetMinPoolParticipants()
    MaxPool,        \* CoinJoin::GetMaxPoolParticipants()
    MaxTries,       \* bound: how often a wallet starts to mix
    Environments    \* the circumstances of a run, one of which is chosen

ASSUME PoolAssumption == /\ MinPool \in Nat /\ MaxPool \in Nat
                         /\ 2 <= MinPool /\ MinPool <= MaxPool
                         /\ Flaky \in Clients

VARIABLES
    nState, nSessionID, vecSessionCollaterals, vecEntries,
    final,      \* finalMutableTransaction: the set of its inputs
    timedOut,   \* the timeout since nTimeLastSuccessfulStep has passed
    lastID,     \* the number of sessions opened so far
    thread,     \* where the message handler and the scheduler are
    client,     \* the session of each wallet
    toServer, toClient,     \* the connections, first in first out
    dsq,        \* wallets that a "ready" DSQUEUE is on its way to
    link,       \* the state of each wallet's connection
    committed,  \* transactions accepted to the mempool
    charged,    \* wallets whose collateral was consumed as a punishment
    returned,   \* output keys given back to a wallet's key pool
    env

server == <<nState, nSessionID, vecSessionCollaterals, vecEntries, final,
            timedOut>>
net == <<toServer, toClient, dsq, link>>
vars == <<server, lastID, thread, client, net, committed, charged, returned,
          env>>

Idle == [pc |-> "idle", then |-> "idle", entry |-> <<>>]

NewSession == [nState |-> "IDLE", nSessionID |-> 0, pending |-> FALSE,
               locked |-> {}, key |-> 0, submitted |-> FALSE, tries |-> 0]

Init ==
    /\ nState = "IDLE" /\ nSessionID = 0
    /\ vecSessionCollaterals = <<>> /\ vecEntries = <<>>
    /\ final = {} /\ timedOut = FALSE /\ lastID = 0
    /\ thread = [t \in {"msg", "sched"} |-> Idle]
    /\ client = [c \in Clients |-> NewSession]
    /\ toServer = [c \in Clients |-> <<>>]
    /\ toClient = [c \in Clients |-> <<>>]
    /\ dsq = {} /\ link = [c \in Clients |-> "up"]
    /\ committed = {} /\ charged = {} /\ returned = {}
    /\ env \in Environments

-----------------------------------------------------------------------------
(* The masternode's session, as a record its functions transform.          *)

Now == [nState |-> nState, nSessionID |-> nSessionID,
        vecSessionCollaterals |-> vecSessionCollaterals,
        vecEntries |-> vecEntries, final |-> final, timedOut |-> timedOut,
        out |-> toClient]

Becomes(s) ==
    /\ nState' = s.nState /\ nSessionID' = s.nSessionID
    /\ vecSessionCollaterals' = s.vecSessionCollaterals
    /\ vecEntries' = s.vecEntries /\ final' = s.final
    /\ timedOut' = s.timedOut /\ toClient' = s.out

SetNull(s) ==
    [s EXCEPT !.nState = "IDLE", !.nSessionID = 0,
              !.vecSessionCollaterals = <<>>, !.vecEntries = <<>>,
              !.final = {}, !.timedOut = FALSE]

SetState(s, nStateNew) ==
    [s EXCEPT !.nState = nStateNew, !.timedOut = FALSE]

(* Dropped here: what is for a wallet that no longer reads, and the        *)
(* acceptances that a wallet ignores in every state (they only count while *)
(* the masternode is in the queue state).                                  *)
Matters(m) == m.type = "status" /\ m.accepted => m.state = "QUEUE"

Push(s, cs, m) ==
    [s EXCEPT !.out = [c \in Clients |->
        IF c \in cs /\ link[c] = "up" /\ Matters(m) THEN Append(s.out[c], m)
        ELSE s.out[c]]]

Status(s, accepted) ==
    [type |-> "status", session |-> s.nSessionID, state |-> s.nState,
     accepted |-> accepted]

PushStatus(s, c, accepted) == Push(s, {c}, Status(s, accepted))

Owners(s, I) == {s.vecEntries[i].client : i \in I}

Gone(s) == {i \in DOMAIN s.vecEntries : link[s.vecEntries[i].client] = "down"}

(* Everyone in the pool is told; if someone has disconnected the others    *)
(* are told again, to give up; if all have, the pool is reset.             *)
RelayStatus(s, accepted) ==
    LET all    == Owners(s, DOMAIN s.vecEntries)
        told   == Push(s, all, Status(s, accepted))
        warned == Push(told, all, Status(s, FALSE))
    IN  CASE Gone(s) = {} -> told
          [] Gone(s) # {} /\ Gone(s) # DOMAIN s.vecEntries -> warned
          [] OTHER -> SetNull(warned)

(* The loop of RelayFinalTransaction and RelayCompletedTransaction: it     *)
(* stops at the first participant who has disconnected.                    *)
RelayInOrder(s, m) ==
    IF Gone(s) = {} THEN Push(s, Owners(s, DOMAIN s.vecEntries), m)
    ELSE RelayStatus(Push(s, Owners(s, 1 .. Min(Gone(s)) - 1), m), FALSE)

MutantOnlySigningTimeout(s) == s.nState = "SIGNING" /\ s.timedOut

HasTimedOut(s) == s.nState # "IDLE" /\ s.timedOut

IsSessionReady(s) ==
    \/ /\ s.nState = "QUEUE"
       /\ \/ Len(s.vecSessionCollaterals) >= MaxPool
          \/ /\ HasTimedOut(s)
             /\ Len(s.vecSessionCollaterals) >= MinPool
    \/ s.nState = "ACCEPTING_ENTRIES"

EntryOf(s, c) == {i \in DOMAIN s.vecEntries : s.vecEntries[i].client = c}

IsSignaturesComplete(s) ==
    \A i \in DOMAIN s.vecEntries : s.vecEntries[i].sig # {}

Outputs(tx) == {[client |-> i.client, key |-> i.key] : i \in tx}
Spenders(tx) == {i.client : i \in tx}

CreateFinalTransaction(s) ==
    LET tx == {s.vecEntries[i] : i \in DOMAIN s.vecEntries}
        f  == SetState([s EXCEPT !.final = tx], "SIGNING")
    IN  RelayInOrder(f, [type |-> "final", session |-> f.nSessionID, tx |-> tx])

RelayCompletedTransaction(s, success) ==
    RelayInOrder(s, [type |-> "complete", session |-> s.nSessionID,
                     success |-> success])

(* External: what the mempool makes of the joint transaction.              *)
Acceptable(tx) ==
    /\ tx # {}
    /\ \A i \in tx : i.sig = Outputs(tx)
    /\ \A old \in committed : Spenders(old) \cap Spenders(tx) = {}

(* The offences found: one per missing entry, or one per unsigned input.   *)
Unsent(s) == {i \in DOMAIN s.vecSessionCollaterals :
                EntryOf(s, s.vecSessionCollaterals[i]) = {}}
Unsigned(s) == {i \in DOMAIN s.vecEntries : s.vecEntries[i].sig = {}}

Offences(s) ==
    CASE s.nState = "ACCEPTING_ENTRIES" -> Cardinality(Unsent(s))
      [] s.nState = "SIGNING" ->
            MapThenSumSet(LAMBDA i : Inputs[s.vecEntries[i].client], Unsigned(s))
      [] OTHER -> 0

Offenders(s) ==
    IF s.nState = "SIGNING" THEN Owners(s, Unsigned(s))
    ELSE {s.vecSessionCollaterals[i] : i \in Unsent(s)}

(* Whom ChargeFees may charge: one offender, picked at random and not for  *)
(* every offence; nobody when all are taken to be offenders.               *)
Chargeable(s) ==
    IF 0 < Offences(s) /\ Offences(s) < Len(s.vecSessionCollaterals)
    THEN Offenders(s) ELSE {}

ChargeFees ==
    \/ UNCHANGED charged
    \/ \E c \in Chargeable(Now) : charged' = charged \cup {c}

-----------------------------------------------------------------------------
(* The threads of the masternode.                                          *)

Other(t) == IF t = "msg" THEN "sched" ELSE "msg"

(* Unless the environment lets the threads overlap, one waits for the other.*)
Runs(t, pc) ==
    /\ thread[t].pc = pc
    /\ env.overlap \/ thread[Other(t)].pc = "idle"

GoTo(t, pc) == thread' = [thread EXCEPT ![t].pc = pc]
Finish(t) == thread' = [thread EXCEPT ![t] = [Idle EXCEPT !.pc = thread[t].then]]

Receives(c, type) ==
    /\ Runs("msg", "idle")
    /\ toServer[c] # <<>> /\ Head(toServer[c]).type = type
    /\ toServer' = [toServer EXCEPT ![c] = Tail(@)]

(* DSACCEPT: a new session, or one more participant of the open one.  A    *)
(* masternode that had a queue too recently refuses to open one (the       *)
(* dsq-count threshold of the masternode meta data, external).             *)
JoinOutcome ==
    CASE IsSessionReady(Now) -> "refuse"
      [] ~IsSessionReady(Now) /\ nSessionID = 0 /\ nState = "IDLE" -> "open"
      [] ~IsSessionReady(Now) /\ nSessionID # 0 /\ nState = "QUEUE" -> "join"
      [] OTHER -> "refuse"

ProcessDSACCEPT(c) ==
    LET joined == [Now EXCEPT !.vecSessionCollaterals = Append(@, c)]
        opened == SetState([joined EXCEPT !.nSessionID = lastID + 1], "QUEUE")
        refuse == Becomes(PushStatus(Now, c, FALSE)) /\ UNCHANGED lastID
    IN  /\ Receives(c, "dsa")
        /\ UNCHANGED <<thread, client, dsq, link, committed, charged, returned,
                       env>>
        /\ \/ JoinOutcome = "refuse" /\ refuse
           \/ vecSessionCollaterals = <<>> /\ env.recent /\ refuse
           \/ /\ JoinOutcome = "open"
              /\ lastID' = lastID + 1
              /\ Becomes(PushStatus(opened, c, TRUE))
           \/ /\ JoinOutcome = "join"
              /\ Becomes(PushStatus(joined, c, TRUE))
              /\ UNCHANGED lastID

(* The inputs of an entry exist and are unspent.                           *)
IsValidInOuts(c) == \A tx \in committed : c \notin Spenders(tx)

(* DSVIN, the checks of AddEntry: room, the input not yet in the pool and  *)
(* not spent.  Nothing ties the entry to the session's collaterals.        *)
EntryFits(c) ==
    /\ IsSessionReady(Now)
    /\ Len(vecEntries) < Len(vecSessionCollaterals)
    /\ EntryOf(Now, c) = {}
    /\ IsValidInOuts(c)

ProcessDSVIN(c) ==
    LET e == [client |-> c, key |-> Head(toServer[c]).key, sig |-> {}] IN
    /\ Receives(c, "vin")
    /\ UNCHANGED <<lastID, client, dsq, link, committed, charged, returned, env>>
    /\ \/ /\ EntryFits(c)
          /\ thread' = [thread EXCEPT !["msg"] =
                            [pc |-> "push", then |-> "relay", entry |-> <<e>>]]
          /\ UNCHANGED <<server, toClient>>
       \/ /\ ~EntryFits(c)
          /\ Becomes(PushStatus(Now, c, FALSE))
          /\ UNCHANGED thread

(* The end of AddEntry, and the answer.                                    *)
PushEntry ==
    LET e == Head(thread["msg"].entry) IN
    /\ Runs("msg", "push")
    /\ Becomes(PushStatus([Now EXCEPT !.vecEntries = Append(@, e)], e.client, TRUE))
    /\ GoTo("msg", "pool")
    /\ UNCHANGED <<lastID, client, toServer, dsq, link, committed, charged,
                   returned, env>>

(* The last line of ProcessDSVIN.                                          *)
RelayAccepted ==
    /\ Runs("msg", "relay")
    /\ Becomes(RelayStatus(Now, TRUE))
    /\ thread' = [thread EXCEPT !["msg"] = Idle]
    /\ UNCHANGED <<lastID, client, toServer, dsq, link, committed, charged,
                   returned, env>>

(* The owner's script is not part of a received entry, so the check of the *)
(* signature amounts to finding the input in the pool.                     *)
IsInputScriptSigValid(s, c) == EntryOf(s, c) # {}

(* The entries that take a signature: those of the input without one.      *)
Free(s, c) == {i \in EntryOf(s, c) : s.vecEntries[i].sig = {}}

AddScriptSig(s, c, over) ==
    [s EXCEPT !.final = {IF f.client = c THEN [f EXCEPT !.sig = over] ELSE f : f \in @},
              !.vecEntries = [i \in DOMAIN @ |->
                  IF i \in Free(s, c) THEN [@[i] EXCEPT !.sig = over] ELSE @[i]]]

(* DSSIGNFINALTX: AddScriptSig for the inputs of one wallet.               *)
ProcessDSSIGNFINALTX(c) ==
    LET over  == Head(toServer[c]).over
        known == \E i \in EntryOf(Now, c) : vecEntries[i].sig = over
        adds  == IsInputScriptSigValid(Now, c) /\ ~known
        free  == Free(Now, c)
        s     == AddScriptSig(Now, c, over)
    IN  /\ Receives(c, "sign")
        /\ UNCHANGED <<lastID, client, dsq, link, committed, charged, returned,
                       env>>
        /\ \/ adds /\ free # {} /\ Becomes(s) /\ GoTo("msg", "pool")
           \/ /\ ~(adds /\ free # {})
              /\ Becomes(RelayStatus(IF adds THEN s ELSE Now, FALSE))
              /\ UNCHANGED thread

MutantFinalizeTooFew(s) ==
    CASE s.nState = "ACCEPTING_ENTRIES"
            /\ Len(s.vecEntries) = Len(s.vecSessionCollaterals) -> "create"
      [] s.nState = "ACCEPTING_ENTRIES"
            /\ Len(s.vecEntries) # Len(s.vecSessionCollaterals)
            /\ HasTimedOut(s) -> "fees"
      [] s.nState = "SIGNING" /\ IsSignaturesComplete(s) -> "commit"
      [] OTHER -> "nothing"

(* CheckPool: what the state calls for.  The steps it names come later,    *)
(* each of them under its own lock.                                        *)
CheckPool(s) ==
    CASE s.nState = "ACCEPTING_ENTRIES"
            /\ Len(s.vecEntries) = Len(s.vecSessionCollaterals) -> "create"
      [] s.nState = "ACCEPTING_ENTRIES"
            /\ Len(s.vecEntries) # Len(s.vecSessionCollaterals)
            /\ HasTimedOut(s) /\ Len(s.vecEntries) >= MinPool -> "fees"
      [] s.nState = "SIGNING" /\ IsSignaturesComplete(s) -> "commit"
      [] OTHER -> "nothing"

DecidePool(t) ==
    /\ Runs(t, "pool")
    /\ IF CheckPool(Now) = "nothing" THEN Finish(t) ELSE GoTo(t, CheckPool(Now))
    /\ UNCHANGED <<server, lastID, client, net, committed, charged, returned, env>>

ChargeAbsent(t) ==
    /\ Runs(t, "fees")
    /\ ChargeFees
    /\ GoTo(t, "create")
    /\ UNCHANGED <<server, lastID, client, net, committed, returned, env>>

Create(t) ==
    /\ Runs(t, "create")
    /\ Becomes(CreateFinalTransaction(Now))
    /\ Finish(t)
    /\ UNCHANGED <<lastID, client, toServer, dsq, link, committed, charged,
                   returned, env>>

(* CommitFinalTransaction up to the mempool's verdict.  cs_main is only    *)
(* tried; without it the session fails as if the transaction were invalid. *)
(* The pool is emptied before its participants are to be told.             *)
Commit(t) ==
    /\ Runs(t, "commit")
    /\ UNCHANGED <<lastID, client, toServer, dsq, link, charged, returned, env>>
    /\ \/ /\ Acceptable(final)
          /\ committed' = committed \cup {final}
          /\ GoTo(t, "complete")
          /\ UNCHANGED <<server, toClient>>
       \/ /\ ~Acceptable(final) \/ env.busy
          /\ Becomes(RelayCompletedTransaction(SetNull(Now), FALSE))
          /\ Finish(t)
          /\ UNCHANGED committed

MutantResetBeforeTelling(t) ==
    /\ Runs(t, "complete")
    /\ Becomes(RelayCompletedTransaction(SetNull(Now), TRUE))
    /\ GoTo(t, "reset")
    /\ UNCHANGED <<lastID, client, toServer, dsq, link, committed, charged,
                   returned, env>>

(* The rest of it: success is told (collaterals charged at random as the   *)
(* price of mixing are not recorded), then the pool is reset.              *)
Complete(t) ==
    /\ Runs(t, "complete")
    /\ Becomes(RelayCompletedTransaction(Now, TRUE))
    /\ GoTo(t, "reset")
    /\ UNCHANGED <<lastID, client, toServer, dsq, link, committed, charged,
                   returned, env>>

Reset(t) ==
    /\ Runs(t, "reset")
    /\ Becomes(SetNull(Now))
    /\ Finish(t)
    /\ UNCHANGED <<lastID, client, toServer, dsq, link, committed, charged,
                   returned, env>>

(* DoMaintenance.  In the idle state each of its parts does nothing, and   *)
(* when the threads do not overlap a round that finds nothing to do is no  *)
(* step.                                                                   *)
MaintenanceDue ==
    \/ nState = "QUEUE" /\ IsSessionReady(Now)
    \/ CheckPool(Now) # "nothing"
    \/ HasTimedOut(Now)

CheckForCompleteQueue ==
    /\ Runs("sched", "idle") /\ nState # "IDLE"
    /\ (env.overlap /\ ~env.prompt) \/ MaintenanceDue
    /\ thread' = [thread EXCEPT !["sched"] =
                    [pc |-> "pool", then |-> "timeout", entry |-> <<>>]]
    /\ UNCHANGED <<lastID, client, toServer, link, committed, charged, returned,
                   env>>
    /\ \/ /\ nState = "QUEUE" /\ IsSessionReady(Now)
          /\ Becomes(SetState(Now, "ACCEPTING_ENTRIES"))
          /\ dsq' = {c \in Clients : link[c] = "up"}
       \/ /\ ~(nState = "QUEUE" /\ IsSessionReady(Now))
          /\ UNCHANGED <<server, toClient, dsq>>

CheckTimeout ==
    /\ Runs("sched", "timeout")
    /\ IF HasTimedOut(Now) THEN GoTo("sched", "expel")
       ELSE thread' = [thread EXCEPT !["sched"] = Idle]
    /\ UNCHANGED <<server, lastID, client, net, committed, charged, returned, env>>

ChargeExpelled ==
    /\ Runs("sched", "expel")
    /\ ChargeFees
    /\ thread' = [thread EXCEPT !["sched"] = [Idle EXCEPT !.pc = "reset"]]
    /\ UNCHANGED <<server, lastID, client, net, committed, returned, env>>

-----------------------------------------------------------------------------
(* Time, and the environment.                                              *)

Up(c) == link[c] = "up"

(* Nothing is on its way and the masternode has nothing left to do.        *)
Quiet ==
    /\ \A t \in DOMAIN thread : thread[t].pc = "idle"
    /\ \A c \in Clients : /\ toServer[c] = <<>>
                          /\ toClient[c] = <<>>
                          /\ ~(Up(c) /\ client[c].pending)
    /\ dsq = {}
    /\ ~(nState = "QUEUE" /\ IsSessionReady(Now))
    /\ CheckPool(Now) = "nothing"

(* The masternode's timeout passes.  In a prompt environment messages take *)
(* less time than that.                                                    *)
Tick ==
    /\ nState # "IDLE" /\ ~timedOut
    /\ env.prompt => Quiet
    /\ timedOut' = TRUE
    /\ UNCHANGED <<nState, nSessionID, vecSessionCollaterals, vecEntries, final,
                   lastID, thread, client, net, committed, charged, returned, env>>

(* External: the flaky wallet stops answering, or its connection is lost.  *)
Fail ==
    /\ Up(Flaky) /\ env.fault \in {"silent", "down"}
    /\ link' = [link EXCEPT ![Flaky] = env.fault]
    /\ toClient' = [toClient EXCEPT ![Flaky] = <<>>]
    /\ toServer' = IF env.fault = "down"
                   THEN [toServer EXCEPT ![Flaky] = <<>>] ELSE toServer
    /\ dsq' = dsq \ {Flaky}
    /\ UNCHANGED <<server, lastID, thread, client, committed, charged, returned,
                   env>>

-----------------------------------------------------------------------------
(* The wallets.  A client record: nState, nSessionID; pending, the DSACCEPT *)
(* still to be sent; locked, what UnlockCoins would unlock; key, the output *)
(* key held in keyHolderStorage (0: none); submitted, the own entry kept in *)
(* vecEntries; tries, how often mixing was started.                         *)

ClientSetNull(r) ==
    [r EXCEPT !.nState = "IDLE", !.nSessionID = 0, !.pending = FALSE,
              !.submitted = FALSE]

UnlockCoins(r) == [r EXCEPT !.locked = {}]

(* keyHolderStorage.ReturnAll and KeepAll both empty the storage; returned *)
(* remembers the keys that went back to the key pool.                      *)
DropKeys(r) == [r EXCEPT !.key = 0]
Returned(c) ==
    IF client[c].key = 0 THEN returned
    ELSE returned \cup {[client |-> c, key |-> client[c].key]}
ReturnAll(c) == returned' = Returned(c)

GiveUp(r) == ClientSetNull(DropKeys(UnlockCoins(r)))
Fault(r) == [DropKeys(UnlockCoins(r)) EXCEPT !.nState = "ERROR"]

ClientBecomes(c, r) == client' = [client EXCEPT ![c] = r]
ToServer(c, m) == toServer' = IF link[c] = "down" THEN toServer
                              ELSE [toServer EXCEPT ![c] = Append(@, m)]

Active(c) == link[c] # "silent"

(* JoinExistingQueue and StartNewQueue leave the session in the same state.*)
StartNewQueue(r) ==
    [r EXCEPT !.nState = "QUEUE", !.pending = TRUE, !.tries = @ + 1]

(* DoAutomaticDenominating: whatever is left of an earlier session is      *)
(* cleaned up, the collateral is locked, a masternode is looked for.       *)
DoAutomaticDenominating(c) ==
    LET clean  == [GiveUp(client[c]) EXCEPT !.locked = {"collateral"}]
    IN  /\ c \in env.mixing /\ Up(c)
        /\ client[c].nState = "IDLE" /\ client[c].tries < MaxTries
        /\ \A tx \in committed : c \notin Spenders(tx)
        /\ ReturnAll(c)
        /\ \/ ClientBecomes(c, StartNewQueue(clean))
           \/ env.recent /\ ClientBecomes(c, clean)
        /\ UNCHANGED <<server, lastID, thread, net, committed, charged, env>>

(* ProcessPendingDsaRequest: sent once connected, dropped if that takes    *)
(* too long.  The collateral stays locked then.                            *)
SendDsa(c) ==
    /\ Up(c) /\ client[c].pending
    /\ ClientBecomes(c, [client[c] EXCEPT !.pending = FALSE])
    /\ ToServer(c, [type |-> "dsa"])
    /\ UNCHANGED <<server, lastID, thread, toClient, dsq, link, committed, charged,
                   returned, env>>

ExpireDsa(c) ==
    /\ Active(c) /\ client[c].pending
    /\ ~Up(c) \/ ~env.prompt
    /\ ClientBecomes(c, ClientSetNull(client[c]))
    /\ UNCHANGED <<server, lastID, thread, net, committed, charged, returned, env>>

(* The wallet's inputs are locked and an output key is reserved; then the  *)
(* entry is kept and the state moves on.                                   *)
PrepareDenominate(r) ==
    [r EXCEPT !.locked = @ \cup {"inputs"}, !.key = r.tries]

SendDenominate(r) ==
    [r EXCEPT !.nState = "ACCEPTING_ENTRIES", !.submitted = TRUE]

(* A ready DSQUEUE makes a wallet that waits in the queue state submit.    *)
(* The announcement names the masternode and no session.  It may overtake  *)
(* the messages of the connection, being relayed by others.                *)
ProcessDSQueue(c) ==
    LET sent == SendDenominate(PrepareDenominate(client[c]))
    IN  /\ c \in dsq /\ Up(c)
        /\ env.prompt => toClient[c] = <<>>
        /\ dsq' = dsq \ {c}
        /\ UNCHANGED <<server, lastID, thread, toClient, link, committed, charged,
                       returned, env>>
        /\ \/ /\ client[c].nState # "QUEUE"
              /\ UNCHANGED <<client, toServer>>
           \/ /\ client[c].nState = "QUEUE" /\ client[c].nSessionID = 0
              /\ ClientBecomes(c, GiveUp(client[c]))
              /\ UNCHANGED toServer
           \/ /\ client[c].nState = "QUEUE" /\ client[c].nSessionID # 0
              /\ ClientBecomes(c, sent)
              /\ ToServer(c, [type |-> "vin", key |-> sent.key])

Reads(c, type) ==
    /\ Up(c) /\ toClient[c] # <<>> /\ Head(toClient[c]).type = type
    /\ toClient' = [toClient EXCEPT ![c] = Tail(@)]
    /\ UNCHANGED <<server, lastID, thread, dsq, link, committed, charged, env>>

ProcessPoolStateUpdate(c) ==
    LET m == Head(toClient[c])
        r == client[c]
        joins == r.nState = "QUEUE" /\ m.state = "QUEUE" /\ r.nSessionID = 0
                    /\ m.session # 0
    IN  /\ Reads(c, "status")
        /\ UNCHANGED toServer
        /\ \/ /\ r.nState \in {"IDLE", "ERROR"} \/ (m.accepted /\ ~joins)
              /\ UNCHANGED <<client, returned>>
           \/ /\ r.nState \notin {"IDLE", "ERROR"} /\ ~m.accepted
              /\ ClientBecomes(c, Fault(r))
              /\ ReturnAll(c)
           \/ /\ m.accepted /\ joins
              /\ ClientBecomes(c, [r EXCEPT !.nSessionID = m.session])
              /\ UNCHANGED returned

(* SignFinalTransaction.  The session id is checked, the state is not: a   *)
(* wallet in the error state signs as well.  An own input that already     *)
(* carries a signature is not recognised.                                  *)
SignFinalTransaction(c) ==
    LET m == Head(toClient[c])
        r == client[c]
        mine == {i \in m.tx : i.client = c /\ i.sig = {}}
        good == /\ r.submitted /\ mine # {}
                /\ \A old \in committed : Spenders(old) \cap Spenders(m.tx) = {}
    IN  /\ Reads(c, "final")
        /\ \/ /\ r.nState = "IDLE" \/ r.nSessionID # m.session
              /\ UNCHANGED <<client, toServer, returned>>
           \/ /\ r.nState # "IDLE" /\ r.nSessionID = m.session
              /\ good
              /\ ClientBecomes(c, [r EXCEPT !.nState = "SIGNING"])
              /\ ToServer(c, [type |-> "sign", over |-> Outputs(m.tx)])
              /\ UNCHANGED returned
           \/ /\ r.nState # "IDLE" /\ r.nSessionID = m.session
              /\ ~good
              /\ ClientBecomes(c, GiveUp(r))
              /\ ReturnAll(c)
              /\ UNCHANGED toServer

CompletedTransaction(c) ==
    LET m == Head(toClient[c])
        r == client[c]
        mine == r.nState # "IDLE" /\ r.nSessionID = m.session
    IN  /\ Reads(c, "complete")
        /\ UNCHANGED toServer
        /\ client' = IF mine THEN [client EXCEPT ![c] = GiveUp(r)] ELSE client
        /\ returned' = IF mine /\ ~m.success THEN Returned(c) ELSE returned

(* CheckTimeout.  A wallet waits ten seconds longer than the masternode,   *)
(* so with prompt messages the masternode's session is over by then.       *)
ClientTimeout(c) ==
    /\ Active(c) /\ client[c].nState # "IDLE"
    /\ env.prompt => Quiet /\ (\/ client[c].nState = "ERROR"
                               \/ client[c].nSessionID \notin {nSessionID} \ {0})
    /\ UNCHANGED <<server, lastID, thread, net, committed, charged, env>>
    /\ \/ /\ client[c].nState = "ERROR"
          /\ ClientBecomes(c, ClientSetNull(client[c]))
          /\ UNCHANGED returned
       \/ /\ client[c].nState # "ERROR"
          /\ ClientBecomes(c, Fault(client[c]))
          /\ ReturnAll(c)

(* "coinjoin reset" by the user of the flaky wallet.                       *)
ResetPool ==
    /\ env.fault = "reset" /\ client[Flaky].nState # "IDLE"
    /\ ClientBecomes(Flaky, GiveUp(client[Flaky]))
    /\ ReturnAll(Flaky)
    /\ UNCHANGED <<server, lastID, thread, net, committed, charged, env>>

-----------------------------------------------------------------------------
ThreadStep(t) ==
    \/ DecidePool(t) \/ ChargeAbsent(t) \/ Create(t)
    \/ Commit(t) \/ Complete(t) \/ Reset(t)

MessageThread == PushEntry \/ RelayAccepted \/ ThreadStep("msg")

SchedulerThread ==
    CheckForCompleteQueue \/ CheckTimeout \/ ChargeExpelled \/ ThreadStep("sched")

Handle(c) == ProcessDSACCEPT(c) \/ ProcessDSVIN(c) \/ ProcessDSSIGNFINALTX(c)

ClientStep(c) ==
    \/ SendDsa(c) \/ ExpireDsa(c) \/ ProcessDSQueue(c) \/ ProcessPoolStateUpdate(c)
    \/ SignFinalTransaction(c) \/ CompletedTransaction(c)

Next ==
    \/ MessageThread \/ SchedulerThread \/ Tick \/ Fail \/ ResetPool
    \/ \E c \in Clients : \/ Handle(c) \/ ClientStep(c) \/ ClientTimeout(c)
                          \/ DoAutomaticDenominating(c)

Spec == Init /\ [][Next]_vars

(* Nothing stands still for ever: the scheduler runs every second, messages *)
(* are handled, time passes, a wallet that is running does what its         *)
(* messages and its timer ask for.  Nobody is bound to start mixing.  With  *)
(* the tries bounded a session takes finitely many steps, so fairness of    *)
(* the whole leaves none of its parts behind.                               *)
Progress ==
    \/ MessageThread \/ SchedulerThread \/ Tick
    \/ \E c \in Clients : Handle(c) \/ ClientStep(c) \/ ClientTimeout(c)

FairSpec == Spec /\ WF_vars(Progress)

-----------------------------------------------------------------------------
(* Properties.                                                             *)

(* A transaction that reaches the mempool mixes the coins of at least      *)
(* MinPool wallets (IsSessionReady, CheckPool), whatever late messages and *)
(* lost connections do to its session, and however the two threads of the  *)
(* masternode interleave, unless a new session is opened while one of them *)
(* is between CheckPool's decision and CreateFinalTransaction.             *)
EnoughParticipants ==
    \A tx \in committed : Cardinality(Spenders(tx)) >= MinPool

(* As long as messages are prompt, connections last and the two threads    *)
(* do not run into each other, the output key of a committed transaction   *)
(* never goes back to the key pool of a wallet that played by the rules:   *)
(* the wallet hears of the success before it gives the round up            *)
(* (RelayCompletedTransaction before SetNull, CheckTimeout's lag).         *)
Calm == env.prompt /\ ~env.overlap /\ env.fault # "down"
CommittedKeysKept ==
    Calm => \A tx \in committed : \A o \in Outputs(tx) :
                o \in returned => o.client = Flaky /\ env.fault # "none"

(* Every session ends on both sides: again and again the masternode is     *)
(* idle, where it takes new sessions, and no running wallet is left in a   *)
(* session or with locked inputs.  No order of messages, timeouts, thread  *)
(* steps and lost connections leaves a session that neither completes nor  *)
(* times out (CheckTimeout on both sides, UnlockCoins).                    *)
AtRest ==
    /\ nState = "IDLE" /\ vecSessionCollaterals = <<>>
    /\ \A c \in Clients : Active(c) => /\ client[c].nState = "IDLE"
                                       /\ "inputs" \notin client[c].locked
SessionsEnd == []<>AtRest

(* Whoever always answers in time is not charged ("Charge clients a fee if *)
(* they're abusive", coinjoin/server.cpp).                                 *)
OnlyAbusiveCharged == charged \subseteq {c \in {Flaky} : env.fault # "none"}
=============================================================================
