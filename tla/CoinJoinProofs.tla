--------------------------- MODULE CoinJoinProofs ---------------------------
(***************************************************************************)
(* Proofs about CoinJoin, for every number of wallets, every pool size and *)
(* every environment: a joint transaction mixes the coins of at least      *)
(* MinPool wallets, as long as no new session is opened while a thread is  *)
(* between CheckPool's decision and CreateFinalTransaction.                *)
(***************************************************************************)
EXTENDS CoinJoin, FiniteSetTheorems, TLAPS

\* A leaf is given to Zenon unless it names another prover.
USE ZenonT(30)

ServerStates == {"IDLE", "QUEUE", "ACCEPTING_ENTRIES", "SIGNING"}
Output == [client : Clients, key : Nat]
Entry == [client : Clients, key : Nat, sig : SUBSET Output]
ServerMessage == [type : {"dsa"}] \cup [type : {"vin"}, key : Nat]
                    \cup [type : {"sign"}, over : SUBSET Output]
ClientMessage ==
    [type : {"status"}, session : Nat, state : ServerStates, accepted : BOOLEAN]
        \cup [type : {"final"}, session : Nat, tx : SUBSET Entry]
        \cup [type : {"complete"}, session : Nat, success : BOOLEAN]
WalletSession ==
    [nState : ServerStates \cup {"ERROR"}, nSessionID : Nat, pending : BOOLEAN,
     locked : SUBSET {"collateral", "inputs"}, key : Nat, submitted : BOOLEAN, tries : Nat]
ServerThread ==
    [pc : {"idle", "push", "pool", "fees", "create", "commit", "complete", "reset",
           "relay", "timeout", "expel"},
     then : {"idle", "relay", "timeout"}, entry : Seq(Entry)]
Pool ==
    [nState : ServerStates, nSessionID : Nat, vecSessionCollaterals : Seq(Clients),
     vecEntries : Seq(Entry), final : SUBSET Entry, timedOut : BOOLEAN,
     out : [Clients -> Seq(ClientMessage)]]

PoolTypes ==
    /\ Now \in Pool
    /\ lastID \in Nat
    /\ thread \in [{"msg", "sched"} -> ServerThread]
    /\ client \in [Clients -> WalletSession]
    /\ toServer \in [Clients -> Seq(ServerMessage)]
    /\ committed \in SUBSET SUBSET Entry

\* r is s but for what was sent, or s was reset.
Same(s, r) ==
    /\ r.nState = s.nState /\ r.vecSessionCollaterals = s.vecSessionCollaterals
    /\ r.vecEntries = s.vecEntries /\ r.final = s.final
Cleared(r) ==
    /\ r.nState = "IDLE" /\ r.vecSessionCollaterals = <<>>
    /\ r.vecEntries = <<>> /\ r.final = {}

-----------------------------------------------------------------------------
(* The operators of the model.                                             *)

\* SetNull clears the pool.
LEMMA SetNullClears ==
    ASSUME NEW s \in Pool
    PROVE  SetNull(s) \in Pool /\ Cleared(SetNull(s))
<1> DEFINE none == <<>>
           nobody == {}
           e3 == [s EXCEPT !.nState = "IDLE", !.nSessionID = 0,
                           !.vecSessionCollaterals = none]
           e6 == [e3 EXCEPT !.vecEntries = none, !.final = nobody, !.timedOut = FALSE]
<1>1. none \in Seq(Clients) /\ none \in Seq(Entry) /\ nobody \in SUBSET Entry
  BY SMTT(30)
<1>2. e6 \in Pool /\ Cleared(e6)
  <2>1. none = <<>> /\ nobody = {}
    OBVIOUS
  <2> HIDE DEF none, nobody
  <2>2. e3 \in Pool /\ e3.nState = "IDLE" /\ e3.vecSessionCollaterals = none
    BY <1>1 DEF Pool, ServerStates
  <2> HIDE DEF e3
  <2>3. e6 \in Pool /\ e6.nState = "IDLE" /\ e6.vecSessionCollaterals = none
        /\ e6.vecEntries = none /\ e6.final = nobody
    BY <1>1, <2>2 DEF Pool
  <2> QED  BY <2>1, <2>3 DEF Cleared
<1>3. SetNull(s) = e6
  BY DEF SetNull
<1> QED  BY <1>2, <1>3

\* PushMessage changes nothing but the connections.
LEMMA PushSends ==
    ASSUME NEW s \in Pool, NEW cs, NEW m \in ClientMessage
    PROVE  Push(s, cs, m) \in Pool /\ Same(s, Push(s, cs, m))
<1> DEFINE out == [c \in Clients |->
                    IF c \in cs /\ link[c] = "up" /\ Matters(m) THEN Append(s.out[c], m)
                    ELSE s.out[c]]
<1>1. out \in [Clients -> Seq(ClientMessage)]
  <2>1. \A c \in Clients : s.out[c] \in Seq(ClientMessage)
    BY DEF Pool
  <2>2. \A c \in Clients : Append(s.out[c], m) \in Seq(ClientMessage)
    BY SMTT(30), <2>1
  <2> QED  BY <2>1, <2>2
<1>2. Push(s, cs, m) = [s EXCEPT !.out = out]
  BY DEF Push
<1> HIDE DEF out
<1> QED  BY <1>1, <1>2 DEF Pool, Same

\* A status message tells of the pool's state.
LEMMA StatusIsMessage ==
    ASSUME NEW s \in Pool, NEW accepted \in BOOLEAN
    PROVE  Status(s, accepted) \in ClientMessage
BY DEF Status, Pool, ClientMessage

\* RelayStatus tells everyone, or finds all gone and resets the pool.
LEMMA RelayStatusEffect ==
    ASSUME NEW s \in Pool, NEW accepted \in BOOLEAN
    PROVE  /\ RelayStatus(s, accepted) \in Pool
           /\ Same(s, RelayStatus(s, accepted)) \/ Cleared(RelayStatus(s, accepted))
<1> DEFINE all    == Owners(s, DOMAIN s.vecEntries)
           told   == Push(s, all, Status(s, accepted))
           warned == Push(told, all, Status(s, FALSE))
<1>1. told \in Pool /\ Same(s, told)
  BY PushSends, StatusIsMessage
<1>2. warned \in Pool /\ Same(told, warned)
  BY <1>1, PushSends, StatusIsMessage
<1>3. SetNull(warned) \in Pool /\ Cleared(SetNull(warned))
  BY <1>2, SetNullClears
<1>4. RelayStatus(s, accepted) \in {told, warned, SetNull(warned)}
  BY DEF RelayStatus
<1> HIDE DEF told, warned
<1> QED  BY <1>1, <1>2, <1>3, <1>4 DEF Same

\* So does the loop of RelayFinalTransaction and RelayCompletedTransaction.
LEMMA RelayInOrderEffect ==
    ASSUME NEW s \in Pool, NEW m \in ClientMessage
    PROVE  /\ RelayInOrder(s, m) \in Pool
           /\ Same(s, RelayInOrder(s, m)) \/ Cleared(RelayInOrder(s, m))
<1>1. CASE Gone(s) = {}
  BY <1>1, PushSends DEF RelayInOrder
<1>2. CASE Gone(s) # {}
  <2> DEFINE p == Push(s, Owners(s, 1 .. Min(Gone(s)) - 1), m)
  <2>1. p \in Pool /\ Same(s, p)
    BY PushSends
  <2>2. RelayInOrder(s, m) = RelayStatus(p, FALSE)
    BY <1>2 DEF RelayInOrder
  <2> HIDE DEF p
  <2> QED  BY <2>1, <2>2, RelayStatusEffect DEF Same
<1> QED  BY <1>1, <1>2

\* CreateFinalTransaction: the joint transaction is made of all entries, and the pool
\* waits for signatures; or everyone has gone.
LEMMA CreateEffect ==
    ASSUME NEW s \in Pool
    PROVE  LET r == CreateFinalTransaction(s) IN
           /\ r \in Pool
           /\ \/ Cleared(r)
              \/ /\ r.nState = "SIGNING" /\ r.vecEntries = s.vecEntries
                 /\ r.vecSessionCollaterals = s.vecSessionCollaterals
                 /\ r.final = {s.vecEntries[i] : i \in DOMAIN s.vecEntries}
<1> DEFINE tx == {s.vecEntries[i] : i \in DOMAIN s.vecEntries}
           f  == SetState([s EXCEPT !.final = tx], "SIGNING")
           m  == [type |-> "final", session |-> f.nSessionID, tx |-> tx]
<1>1. tx \in SUBSET Entry
  BY SMTT(30) DEF Pool
<1>2. /\ f \in Pool /\ f.nState = "SIGNING" /\ f.vecEntries = s.vecEntries
      /\ f.vecSessionCollaterals = s.vecSessionCollaterals /\ f.final = tx
  <2> HIDE DEF tx
  <2> QED  BY <1>1 DEF SetState, Pool, ServerStates
<1>3. m \in ClientMessage
  <2> HIDE DEF f, tx
  <2> QED  BY <1>1, <1>2 DEF ClientMessage, Pool
<1>4. CreateFinalTransaction(s) = RelayInOrder(f, m)
  BY DEF CreateFinalTransaction
<1> HIDE DEF f, m, tx
<1>5. /\ RelayInOrder(f, m) \in Pool
      /\ Same(f, RelayInOrder(f, m)) \/ Cleared(RelayInOrder(f, m))
  BY <1>2, <1>3, RelayInOrderEffect
<1> QED  BY <1>2, <1>4, <1>5 DEF Same, tx

\* RelayCompletedTransaction changes nothing, or finds everyone gone.
LEMMA CompletedEffect ==
    ASSUME NEW s \in Pool, NEW success \in BOOLEAN
    PROVE  LET r == RelayCompletedTransaction(s, success) IN
           r \in Pool /\ (Same(s, r) \/ Cleared(r))
<1>1. [type |-> "complete", session |-> s.nSessionID, success |-> success] \in ClientMessage
  BY DEF ClientMessage, Pool
<1> QED  BY <1>1, RelayInOrderEffect DEF RelayCompletedTransaction

-----------------------------------------------------------------------------
(* The types.                                                              *)

\* What a wallet's step leaves alone
PoolFrame ==
    UNCHANGED <<nState, vecSessionCollaterals, vecEntries, final, thread, committed, env>>

\* The fields of the pool
LEMMA PoolFields ==
    Now \in Pool <=>
        /\ nState \in ServerStates /\ nSessionID \in Nat
        /\ vecSessionCollaterals \in Seq(Clients) /\ vecEntries \in Seq(Entry)
        /\ final \in SUBSET Entry /\ timedOut \in BOOLEAN
        /\ toClient \in [Clients -> Seq(ClientMessage)]
BY DEF Now, Pool

\* A wallet's record stays one, whatever its session goes through.
LEMMA WalletRecords ==
    ASSUME NEW r \in WalletSession
    PROVE  /\ ClientSetNull(r) \in WalletSession
           /\ GiveUp(r) \in WalletSession
           /\ Fault(r) \in WalletSession
           /\ [GiveUp(r) EXCEPT !.locked = {"collateral"}] \in WalletSession
           /\ StartNewQueue(r) \in WalletSession
           /\ SendDenominate(PrepareDenominate(r)) \in WalletSession
<1>1. \A q \in WalletSession : ClientSetNull(q) \in WalletSession
  BY DEF ClientSetNull, WalletSession, ServerStates
<1>2. DropKeys(UnlockCoins(r)) \in WalletSession
  <2>1. UnlockCoins(r) \in WalletSession
    BY DEF UnlockCoins, WalletSession
  <2> QED  BY <2>1 DEF DropKeys, WalletSession
<1>3. GiveUp(r) \in WalletSession
  BY <1>1, <1>2 DEF GiveUp
<1>4. Fault(r) \in WalletSession
  BY <1>2 DEF Fault, WalletSession
<1>5. [GiveUp(r) EXCEPT !.locked = {"collateral"}] \in WalletSession
  BY <1>3 DEF WalletSession
<1>6. StartNewQueue(r) \in WalletSession
  <2> DEFINE n == r.tries + 1
  <2>1. n \in Nat
    BY SMTT(30) DEF WalletSession
  <2>2. StartNewQueue(r) = [r EXCEPT !.nState = "QUEUE", !.pending = TRUE, !.tries = n]
    BY DEF StartNewQueue
  <2> HIDE DEF n
  <2> QED  BY <2>1, <2>2 DEF WalletSession, ServerStates
<1>7. PrepareDenominate(r) \in WalletSession
  BY DEF PrepareDenominate, WalletSession
<1>8. SendDenominate(PrepareDenominate(r)) \in WalletSession
  BY <1>7 DEF SendDenominate, WalletSession, ServerStates
<1> QED  BY <1>1, <1>3, <1>4, <1>5, <1>6, <1>8

\* The wallets' records and connections after a step of one wallet
LEMMA WalletTypes ==
    ASSUME NEW c \in Clients, NEW r, PoolTypes
    PROVE  /\ r \in WalletSession /\ ClientBecomes(c, r) => client' \in [Clients -> WalletSession]
           /\ r \in ServerMessage /\ ToServer(c, r) => toServer' \in [Clients -> Seq(ServerMessage)]
           /\ toClient[c] # <<>> /\ toClient' = [toClient EXCEPT ![c] = Tail(@)]
                => toClient' \in [Clients -> Seq(ClientMessage)]
           /\ toClient[c] # <<>> => Head(toClient[c]) \in ClientMessage
<1> USE DEF PoolTypes
<1>1. r \in WalletSession /\ ClientBecomes(c, r) => client' \in [Clients -> WalletSession]
  BY DEF ClientBecomes
<1>2. r \in ServerMessage /\ ToServer(c, r) => toServer' \in [Clients -> Seq(ServerMessage)]
  <2>1. r \in ServerMessage => Append(toServer[c], r) \in Seq(ServerMessage)
    BY SMTT(30)
  <2> QED  BY <2>1 DEF ToServer
<1>3. toClient[c] \in Seq(ClientMessage) /\ toClient \in [Clients -> Seq(ClientMessage)]
  BY PoolFields
<1>4. toClient[c] # <<>> => Tail(toClient[c]) \in Seq(ClientMessage)
                            /\ Head(toClient[c]) \in ClientMessage
  BY SMTT(30), <1>3
<1> QED  BY <1>1, <1>2, <1>3, <1>4

\* A wallet's step keeps the types and does not touch the pool.
LEMMA WalletStep ==
    ASSUME PoolTypes, NEW c \in Clients,
           ClientStep(c) \/ ClientTimeout(c) \/ DoAutomaticDenominating(c)
    PROVE  PoolTypes' /\ PoolFrame
<1> DEFINE r == client[c]
<1>r. r \in WalletSession
  BY DEF PoolTypes
<1>s. SUFFICES /\ client' \in [Clients -> WalletSession]
               /\ toServer' \in [Clients -> Seq(ServerMessage)]
               /\ toClient' \in [Clients -> Seq(ClientMessage)]
               /\ UNCHANGED <<server, lastID, thread, committed, env>>
  <2>1. UNCHANGED <<nState, nSessionID, vecSessionCollaterals, vecEntries, final, timedOut>>
    BY <1>s DEF server
  <2>2. Now' \in Pool
    BY <1>s, <2>1, PoolFields DEF PoolTypes, Pool, Now
  <2> QED  BY <1>s, <2>1, <2>2 DEF PoolTypes, PoolFrame
<1>0. /\ client \in [Clients -> WalletSession]
      /\ toServer \in [Clients -> Seq(ServerMessage)]
      /\ toClient \in [Clients -> Seq(ClientMessage)]
  BY PoolFields DEF PoolTypes
<1> HIDE DEF r
<1>1. CASE DoAutomaticDenominating(c)
  <2>1. /\ [GiveUp(r) EXCEPT !.locked = {"collateral"}] \in WalletSession
        /\ StartNewQueue([GiveUp(r) EXCEPT !.locked = {"collateral"}]) \in WalletSession
    BY <1>r, WalletRecords
  <2>2. client' \in [Clients -> WalletSession]
    BY <1>1, <2>1, WalletTypes DEF DoAutomaticDenominating, r
  <2> QED  BY <1>0, <1>1, <2>2 DEF DoAutomaticDenominating, net
<1>2. CASE SendDsa(c)
  <2>1. [type |-> "dsa"] \in ServerMessage
    BY DEF ServerMessage
  <2>2. [r EXCEPT !.pending = FALSE] \in WalletSession
    BY <1>r DEF WalletSession
  <2>3. client' \in [Clients -> WalletSession] /\ toServer' \in [Clients -> Seq(ServerMessage)]
    BY <1>2, <2>1, <2>2, WalletTypes DEF SendDsa, r
  <2> QED  BY <1>0, <1>2, <2>3 DEF SendDsa
<1>3. CASE ExpireDsa(c)
  <2>1. client' \in [Clients -> WalletSession]
    BY <1>3, <1>r, WalletRecords, WalletTypes DEF ExpireDsa, r
  <2> QED  BY <1>0, <1>3, <2>1 DEF ExpireDsa, net
<1>4. CASE ProcessDSQueue(c)
  <2> DEFINE sent == SendDenominate(PrepareDenominate(r))
             vin  == [type |-> "vin", key |-> sent.key]
  <2>1. sent \in WalletSession /\ GiveUp(r) \in WalletSession
    BY <1>r, WalletRecords
  <2>2. vin \in ServerMessage
    <3> HIDE DEF sent
    <3> QED  BY <2>1 DEF ServerMessage, WalletSession
  <2>3. \/ UNCHANGED <<client, toServer>>
        \/ ClientBecomes(c, GiveUp(r)) /\ UNCHANGED toServer
        \/ ClientBecomes(c, sent) /\ ToServer(c, vin)
    BY <1>4 DEF ProcessDSQueue, r
  <2> HIDE DEF sent, vin
  <2>4. client' \in [Clients -> WalletSession] /\ toServer' \in [Clients -> Seq(ServerMessage)]
    BY <1>0, <2>1, <2>2, <2>3, WalletTypes
  <2> QED  BY <1>0, <1>4, <2>4 DEF ProcessDSQueue
<1>5. CASE ProcessPoolStateUpdate(c)
  <2> DEFINE m == Head(toClient[c])
  <2>1. /\ toClient' \in [Clients -> Seq(ClientMessage)] /\ m \in ClientMessage
        /\ m.type = "status" /\ UNCHANGED <<server, lastID, thread, committed, env, toServer>>
    BY <1>5, WalletTypes DEF ProcessPoolStateUpdate, Reads
  <2>2. m.session \in Nat
    BY <2>1 DEF ClientMessage
  <2>3. \/ UNCHANGED client
        \/ ClientBecomes(c, Fault(r))
        \/ ClientBecomes(c, [r EXCEPT !.nSessionID = m.session])
    BY <1>5 DEF ProcessPoolStateUpdate, r
  <2>4. [r EXCEPT !.nSessionID = m.session] \in WalletSession
    BY <1>r, <2>2 DEF WalletSession
  <2> HIDE DEF m
  <2>5. client' \in [Clients -> WalletSession]
    BY <1>0, <1>r, <2>3, <2>4, WalletRecords, WalletTypes
  <2> QED  BY <1>0, <2>1, <2>5
<1>6. CASE SignFinalTransaction(c)
  <2> DEFINE m == Head(toClient[c])
             sign == [type |-> "sign", over |-> Outputs(m.tx)]
  <2>1. /\ toClient' \in [Clients -> Seq(ClientMessage)] /\ m \in ClientMessage
        /\ m.type = "final" /\ UNCHANGED <<server, lastID, thread, committed, env>>
    BY <1>6, WalletTypes DEF SignFinalTransaction, Reads
  <2>2. m.tx \in SUBSET Entry
    BY <2>1 DEF ClientMessage
  <2>3. Outputs(m.tx) \in SUBSET Output
    <3> HIDE DEF m
    <3> QED  BY SMTT(30), <2>2 DEF Outputs, Output, Entry
  <2>4. sign \in ServerMessage
    BY <2>3 DEF ServerMessage
  <2>5. \/ UNCHANGED <<client, toServer>>
        \/ ClientBecomes(c, [r EXCEPT !.nState = "SIGNING"]) /\ ToServer(c, sign)
        \/ ClientBecomes(c, GiveUp(r)) /\ UNCHANGED toServer
    BY <1>6 DEF SignFinalTransaction, r
  <2>6. [r EXCEPT !.nState = "SIGNING"] \in WalletSession
    BY <1>r DEF WalletSession, ServerStates
  <2> HIDE DEF m, sign
  <2>7. client' \in [Clients -> WalletSession] /\ toServer' \in [Clients -> Seq(ServerMessage)]
    BY <1>0, <1>r, <2>4, <2>5, <2>6, WalletRecords, WalletTypes
  <2> QED  BY <1>0, <2>1, <2>7
<1>7. CASE CompletedTransaction(c)
  <2>1. /\ toClient' \in [Clients -> Seq(ClientMessage)]
        /\ UNCHANGED <<server, lastID, thread, committed, env, toServer>>
    BY <1>7, WalletTypes DEF CompletedTransaction, Reads
  <2>2. UNCHANGED client \/ ClientBecomes(c, GiveUp(r))
    BY <1>7 DEF CompletedTransaction, ClientBecomes, r
  <2>3. client' \in [Clients -> WalletSession]
    BY <1>0, <1>r, <2>2, WalletRecords, WalletTypes
  <2> QED  BY <1>0, <2>1, <2>3
<1>8. CASE ClientTimeout(c)
  <2>1. ClientBecomes(c, ClientSetNull(r)) \/ ClientBecomes(c, Fault(r))
    BY <1>8 DEF ClientTimeout, r
  <2>2. client' \in [Clients -> WalletSession]
    BY <1>0, <1>r, <2>1, WalletRecords, WalletTypes
  <2> QED  BY <1>0, <1>8, <2>2 DEF ClientTimeout, net
<1> QED  BY <1>1, <1>2, <1>3, <1>4, <1>5, <1>6, <1>7, <1>8 DEF ClientStep

-----------------------------------------------------------------------------
(* The invariant.                                                          *)

ServerThreads == {"msg", "sched"}

\* t has decided in CheckPool to finalise, and has not yet done so.
Creating(t) == thread[t].pc \in {"fees", "create"}

\* No session is open in the queue state while a thread is about to finalise.
NoNewSession == \A t \in ServerThreads : Creating(t) => nState # "QUEUE"

\* A pool that accepts entries was ready.
CollateralsInv == nState = "ACCEPTING_ENTRIES" => Len(vecSessionCollaterals) >= MinPool

\* Entries are of different wallets, the one about to be added included.
EntriesInv ==
    /\ \A i, j \in DOMAIN vecEntries : vecEntries[i].client = vecEntries[j].client => i = j
    /\ thread["msg"].pc = "push" =>
        /\ Len(thread["msg"].entry) = 1
        /\ \A i \in DOMAIN vecEntries :
                vecEntries[i].client # Head(thread["msg"].entry).client

\* Whoever is about to finalise finds enough entries, or the pool reset and no way
\* for an entry to get in.
CreateInv ==
    \A t \in ServerThreads : Creating(t) =>
        \/ Len(vecEntries) >= MinPool
        \/ /\ vecEntries = <<>> /\ nState \in {"IDLE", "SIGNING"}
           /\ thread["msg"].pc # "push"

FinalInv ==
    final # {} => IsFiniteSet(Spenders(final)) /\ Cardinality(Spenders(final)) >= MinPool

PoolInv == CollateralsInv /\ EntriesInv /\ CreateInv /\ FinalInv /\ EnoughParticipants

\* The pool's entries and joint transaction are as they were, but for signatures.
Kept ==
    /\ UNCHANGED <<nState, vecSessionCollaterals>>
    /\ vecEntries' \in Seq(Entry) /\ Len(vecEntries') = Len(vecEntries)
    /\ \A i \in DOMAIN vecEntries : vecEntries'[i].client = vecEntries[i].client
    /\ final = {} => final' = {}
    /\ Spenders(final') = Spenders(final)

\* The pool is reset, and no thread that is about to finalise can still add an entry.
Emptied ==
    /\ nState' = "IDLE" /\ vecSessionCollaterals' = <<>>
    /\ vecEntries' = <<>> /\ final' = {}
    /\ \A t \in ServerThreads : Creating(t)' => thread'["msg"].pc # "push"

\* A step that adds neither an entry nor a decision keeps the invariant.
LEMMA NothingAdded ==
    ASSUME PoolInv, vecEntries \in Seq(Entry), Kept \/ Emptied, committed' = committed,
           \A t \in ServerThreads : Creating(t)' => Creating(t),
           thread'["msg"].pc = "push" =>
               thread["msg"].pc = "push" /\ thread'["msg"].entry = thread["msg"].entry
    PROVE  PoolInv'
<1>1. CASE Kept
  <2>1. DOMAIN vecEntries' = DOMAIN vecEntries
    BY SMTT(30), <1>1 DEF Kept
  <2>2. CollateralsInv'
    BY <1>1 DEF Kept, PoolInv, CollateralsInv
  <2>3. EntriesInv'
    BY <1>1, <2>1 DEF Kept, PoolInv, EntriesInv
  <2>4. CreateInv'
    <3> SUFFICES ASSUME NEW t \in ServerThreads, Creating(t)'
                 PROVE  \/ Len(vecEntries') >= MinPool
                        \/ /\ vecEntries' = <<>> /\ nState' \in {"IDLE", "SIGNING"}
                           /\ thread'["msg"].pc # "push"
      BY DEF CreateInv
    <3>1. \/ Len(vecEntries) >= MinPool
          \/ /\ vecEntries = <<>> /\ nState \in {"IDLE", "SIGNING"}
             /\ thread["msg"].pc # "push"
      BY DEF PoolInv, CreateInv
    <3>2. vecEntries = <<>> => vecEntries' = <<>>
      BY SMTT(30), <1>1 DEF Kept
    <3> QED  BY <1>1, <3>1, <3>2 DEF Kept
  <2>5. FinalInv'
    BY <1>1 DEF Kept, PoolInv, FinalInv
  <2>6. EnoughParticipants'
    BY DEF PoolInv, EnoughParticipants
  <2> QED  BY <2>2, <2>3, <2>4, <2>5, <2>6 DEF PoolInv
<1>2. CASE Emptied
  <2>1. DOMAIN vecEntries' = {}
    BY SMTT(30), <1>2 DEF Emptied
  <2>2. CollateralsInv'
    BY <1>2 DEF Emptied, CollateralsInv
  <2>3. EntriesInv'
    BY <2>1 DEF PoolInv, EntriesInv
  <2>4. CreateInv'
    BY <1>2 DEF Emptied, CreateInv
  <2>5. FinalInv'
    BY <1>2 DEF Emptied, FinalInv
  <2>6. EnoughParticipants'
    BY DEF PoolInv, EnoughParticipants
  <2> QED  BY <2>2, <2>3, <2>4, <2>5, <2>6 DEF PoolInv
<1> QED  BY <1>1, <1>2

\* The joint transaction of enough entries of different wallets has enough spenders.
LEMMA ManySpenders ==
    ASSUME NEW es \in Seq(Entry), Len(es) >= MinPool,
           \A i, j \in DOMAIN es : es[i].client = es[j].client => i = j
    PROVE  LET S == Spenders({es[i] : i \in DOMAIN es}) IN
           IsFiniteSet(S) /\ Cardinality(S) >= MinPool
<1> DEFINE n == Len(es)
           S == Spenders({es[i] : i \in DOMAIN es})
           f == [i \in 1 .. n |-> es[i].client]
<1>1. n \in Nat /\ DOMAIN es = 1 .. n
  BY SMTT(30)
<1>2. S = {es[i].client : i \in 1 .. n}
  BY <1>1 DEF Spenders
<1>3. f \in Surjection(1 .. n, S)
  <2> HIDE DEF n
  <2> QED  BY <1>2 DEF Surjection
<1>4. f \in Injection(1 .. n, S)
  BY <1>1, <1>2 DEF Injection, IsInjective
<1>5. IsFiniteSet(1 .. n) /\ Cardinality(1 .. n) = n
  <2> HIDE DEF n
  <2> QED  BY SMTT(30), <1>1, FS_Interval
<1>6. IsFiniteSet(S) /\ Cardinality(S) = n
  <2> HIDE DEF n, f, S
  <2> QED  BY <1>3, <1>4, <1>5, FS_Surjection
<1> QED  BY <1>6

\* A thread that is about to take its next step, or has finished its last
LEMMA IdleThread ==
    /\ Idle \in ServerThread /\ Idle.pc = "idle" /\ Idle.then = "idle"
    /\ \A pc \in {"idle", "relay", "timeout", "reset"} :
            LET i == [Idle EXCEPT !.pc = pc] IN i \in ServerThread /\ i.pc = pc /\ i.then = "idle"
<1> DEFINE none == <<>>
<1>1. none \in Seq(Entry) /\ Idle = [pc |-> "idle", then |-> "idle", entry |-> none]
  BY SMTT(30) DEF Idle
<1> HIDE DEF none
<1> QED  BY <1>1 DEF ServerThread

\* Where a thread goes
LEMMA ThreadMoves ==
    ASSUME PoolTypes, NEW t \in ServerThreads, NEW o \in ServerThreads,
           NEW pc \in {"pool", "fees", "create", "commit", "complete", "reset", "expel"}
    PROVE  /\ GoTo(t, pc) =>
                /\ thread' \in [{"msg", "sched"} -> ServerThread]
                /\ thread'[t].pc = pc
                /\ o # t => thread'[o] = thread[o]
           /\ Finish(t) =>
                /\ thread' \in [{"msg", "sched"} -> ServerThread]
                /\ thread'[t].pc \in {"idle", "relay", "timeout"}
                /\ o # t => thread'[o] = thread[o]
<1>1. thread \in [ServerThreads -> ServerThread] /\ thread[t] \in ServerThread
  BY DEF PoolTypes, ServerThreads
<1>2. [thread[t] EXCEPT !.pc = pc] \in ServerThread /\ [thread[t] EXCEPT !.pc = pc].pc = pc
  BY <1>1 DEF ServerThread
<1>3. thread[t].then \in {"idle", "relay", "timeout"}
  BY <1>1 DEF ServerThread
<1>4. LET i == [Idle EXCEPT !.pc = thread[t].then] IN
      i \in ServerThread /\ i.pc = thread[t].then
  BY <1>3, IdleThread
<1>5. GoTo(t, pc) => thread' = [thread EXCEPT ![t] = [thread[t] EXCEPT !.pc = pc]]
  BY DEF GoTo
<1>6. Finish(t) => thread' = [thread EXCEPT ![t] = [Idle EXCEPT !.pc = thread[t].then]]
  BY DEF Finish
<1> QED  BY <1>1, <1>2, <1>3, <1>4, <1>5, <1>6 DEF ServerThreads

\* Nothing is there at the start.
LEMMA PoolInit == ASSUME Init PROVE PoolTypes /\ PoolInv
<1> USE DEF Init
<1>1. Now \in Pool
  <2>1. \A S : <<>> \in Seq(S)
    BY SMTT(30)
  <2>2. toClient \in [Clients -> Seq(ClientMessage)]
    BY <2>1
  <2> QED  BY <2>1, <2>2, PoolFields DEF ServerStates
<1>2. thread \in [{"msg", "sched"} -> ServerThread]
  BY IdleThread
<1>3. client \in [Clients -> WalletSession]
  BY DEF NewSession, WalletSession, ServerStates
<1>4. PoolTypes
  BY SMTT(30), <1>1, <1>2, <1>3 DEF PoolTypes
<1>5. \A t \in ServerThreads : thread[t].pc = "idle"
  BY DEF Idle, ServerThreads
<1>6. PoolInv
  BY SMTT(30), <1>5 DEF PoolInv, CollateralsInv, EntriesInv, CreateInv, FinalInv, EnoughParticipants,
              Creating, ServerThreads
<1> QED  BY <1>4, <1>6

-----------------------------------------------------------------------------
(* The masternode's steps.                                                 *)

\* The pool after Becomes(r)
LEMMA BecomesPool ==
    ASSUME NEW r \in Pool, Becomes(r)
    PROVE  /\ Now' \in Pool
           /\ nState' = r.nState /\ vecSessionCollaterals' = r.vecSessionCollaterals
           /\ vecEntries' = r.vecEntries /\ final' = r.final
<1>1. /\ nState' \in ServerStates /\ nSessionID' \in Nat
      /\ vecSessionCollaterals' \in Seq(Clients) /\ vecEntries' \in Seq(Entry)
      /\ final' \in SUBSET Entry /\ timedOut' \in BOOLEAN
      /\ toClient' \in [Clients -> Seq(ClientMessage)]
  BY DEF Becomes, Pool
<1>2. Now' \in Pool
  BY <1>1 DEF Now, Pool
<1> QED  BY <1>2 DEF Becomes

\* A step that leaves the pool as it is, or empties it
LEMMA PoolKept ==
    ASSUME PoolTypes, NEW r \in Pool, Becomes(r)
    PROVE  /\ Same(Now, r) => Kept
           /\ Cleared(r) /\ (\A t \in ServerThreads : Creating(t)' => thread'["msg"].pc # "push")
                => Emptied
<1>1. /\ nState' = r.nState /\ vecSessionCollaterals' = r.vecSessionCollaterals
      /\ vecEntries' = r.vecEntries /\ final' = r.final
  BY BecomesPool
<1>2. vecEntries \in Seq(Entry)
  BY PoolFields DEF PoolTypes
<1>3. Same(Now, r) => UNCHANGED <<nState, vecSessionCollaterals, vecEntries, final>>
  BY <1>1 DEF Same, Now
<1> QED  BY <1>1, <1>2, <1>3 DEF Kept, Emptied, Cleared

\* The message at the head of a connection
LEMMA HeadOfConnection ==
    ASSUME PoolTypes, NEW c \in Clients, NEW type, Receives(c, type)
    PROVE  /\ Head(toServer[c]) \in ServerMessage /\ Head(toServer[c]).type = type
           /\ toServer' \in [Clients -> Seq(ServerMessage)]
           /\ thread["msg"].pc = "idle"
<1>1. toServer \in [Clients -> Seq(ServerMessage)] /\ toServer[c] \in Seq(ServerMessage)
  BY DEF PoolTypes
<1>2. Head(toServer[c]) \in ServerMessage /\ Tail(toServer[c]) \in Seq(ServerMessage)
  BY SMTT(30), <1>1 DEF Receives
<1> QED  BY <1>1, <1>2 DEF Receives, Runs

\* DSACCEPT
LEMMA AcceptStep ==
    ASSUME PoolTypes, PoolInv, NoNewSession', NEW c \in Clients, ProcessDSACCEPT(c)
    PROVE  PoolTypes' /\ PoolInv'
<1> DEFINE joined == [Now EXCEPT !.vecSessionCollaterals = Append(@, c)]
           opened == SetState([joined EXCEPT !.nSessionID = lastID + 1], "QUEUE")
<1>0. Now \in Pool /\ lastID \in Nat /\ vecEntries \in Seq(Entry)
      /\ vecSessionCollaterals \in Seq(Clients)
  BY PoolFields DEF PoolTypes
<1>u. UNCHANGED <<thread, client, committed>> /\ toServer' \in [Clients -> Seq(ServerMessage)]
  BY HeadOfConnection DEF ProcessDSACCEPT
<1>1. CASE Becomes(PushStatus(Now, c, FALSE)) /\ UNCHANGED lastID
  <2>1. PushStatus(Now, c, FALSE) \in Pool /\ Same(Now, PushStatus(Now, c, FALSE))
    BY <1>0, PushSends, StatusIsMessage DEF PushStatus
  <2>2. Now' \in Pool /\ Kept
    BY <1>1, <2>1, BecomesPool, PoolKept
  <2>3. PoolTypes'
    BY <1>u, <1>1, <2>2 DEF PoolTypes
  <2>4. PoolInv'
    BY <1>0, <1>u, <2>2, NothingAdded DEF Creating
  <2> QED  BY <2>3, <2>4
<1>j. joined \in Pool /\ joined.vecEntries = vecEntries /\ joined.final = final
      /\ joined.nState = nState /\ Len(joined.vecSessionCollaterals) >= Len(vecSessionCollaterals)
  <2> DEFINE cs == Append(vecSessionCollaterals, c)
  <2>1. cs \in Seq(Clients) /\ Len(cs) >= Len(vecSessionCollaterals)
    BY SMTT(30), <1>0
  <2>2. joined = [Now EXCEPT !.vecSessionCollaterals = cs]
    BY DEF Now
  <2> HIDE DEF cs
  <2>3. Now.vecEntries = vecEntries /\ Now.final = final /\ Now.nState = nState
    BY DEF Now
  <2> HIDE DEF joined
  <2> QED  BY <1>0, <2>1, <2>2, <2>3 DEF Pool
<1>2. CASE /\ JoinOutcome = "open" /\ lastID' = lastID + 1
           /\ Becomes(PushStatus(opened, c, TRUE))
  <2>1. opened \in Pool /\ opened.vecEntries = vecEntries /\ opened.final = final
        /\ opened.nState = "QUEUE"
    <3> HIDE DEF joined
    <3> DEFINE n == lastID + 1
    <3>2. n \in Nat /\ lastID + 1 = n
      BY SMTT(30), <1>0
    <3> HIDE DEF n
    <3>1. LET j == [joined EXCEPT !.nSessionID = n] IN
          j \in Pool /\ j.vecEntries = joined.vecEntries /\ j.final = joined.final
      BY <1>j, <3>2 DEF Pool
    <3> QED  BY <1>j, <3>1, <3>2 DEF SetState, Pool, ServerStates
  <2> HIDE DEF opened
  <2>2. PushStatus(opened, c, TRUE) \in Pool /\ Same(opened, PushStatus(opened, c, TRUE))
    BY <2>1, PushSends, StatusIsMessage DEF PushStatus
  <2>3. Now' \in Pool /\ nState' = "QUEUE" /\ UNCHANGED <<vecEntries, final>>
    BY <1>2, <2>1, <2>2, BecomesPool DEF Same
  <2>4. PoolTypes'
    BY SMTT(30), <1>0, <1>u, <1>2, <2>3 DEF PoolTypes
  <2>5. PoolInv'
    <3>1. \A t \in ServerThreads : ~Creating(t)'
      BY <2>3 DEF NoNewSession
    <3> QED  BY <1>u, <2>3, <3>1 DEF PoolInv, CollateralsInv, EntriesInv, CreateInv, FinalInv,
                                     EnoughParticipants
  <2> QED  BY <2>4, <2>5
<1>3. CASE /\ JoinOutcome = "join" /\ UNCHANGED lastID
           /\ Becomes(PushStatus(joined, c, TRUE))
  <2> HIDE DEF joined
  <2>1. PushStatus(joined, c, TRUE) \in Pool /\ Same(joined, PushStatus(joined, c, TRUE))
    BY <1>j, PushSends, StatusIsMessage DEF PushStatus
  <2>2. /\ Now' \in Pool /\ UNCHANGED <<nState, vecEntries, final>>
        /\ Len(vecSessionCollaterals') >= Len(vecSessionCollaterals)
    BY <1>3, <1>j, <2>1, BecomesPool DEF Same
  <2>3. PoolTypes'
    BY <1>0, <1>u, <1>3, <2>2 DEF PoolTypes
  <2>4. CollateralsInv'
    <3>0. (Now \in Pool)' => vecSessionCollaterals' \in Seq(Clients)
      BY DEF Now, Pool
    <3>1. Len(vecSessionCollaterals) \in Nat /\ vecSessionCollaterals' \in Seq(Clients)
      BY SMTT(30), <1>0, <2>2, <3>0
    <3>2. Len(vecSessionCollaterals') \in Nat
      BY SMTT(30), <3>1
    <3> QED  BY SMTT(30), <2>2, <3>1, <3>2, PoolAssumption DEF PoolInv, CollateralsInv
  <2>5. PoolInv'
    BY <1>u, <2>2, <2>4 DEF PoolInv, EntriesInv, CreateInv, FinalInv, EnoughParticipants, Creating
  <2> QED  BY <2>3, <2>5
<1> QED  BY <1>1, <1>2, <1>3 DEF ProcessDSACCEPT

\* DSVIN, the checks
LEMMA EntryStep ==
    ASSUME PoolTypes, PoolInv, NEW c \in Clients, ProcessDSVIN(c)
    PROVE  PoolTypes' /\ PoolInv'
<1> DEFINE e == [client |-> c, key |-> Head(toServer[c]).key, sig |-> {}]
<1>0. Now \in Pool /\ vecEntries \in Seq(Entry) /\ thread \in [ServerThreads -> ServerThread]
  BY PoolFields DEF PoolTypes, ServerThreads
<1>1. /\ Head(toServer[c]) \in ServerMessage /\ Head(toServer[c]).type = "vin"
      /\ toServer' \in [Clients -> Seq(ServerMessage)] /\ thread["msg"].pc = "idle"
  BY HeadOfConnection DEF ProcessDSVIN
<1>2. e \in Entry
  BY <1>1 DEF ServerMessage, Entry
<1>3. CASE /\ EntryFits(c)
           /\ thread' = [thread EXCEPT !["msg"] =
                             [pc |-> "push", then |-> "relay", entry |-> <<e>>]]
           /\ UNCHANGED <<server, toClient>>
  <2> DEFINE p == [pc |-> "push", then |-> "relay", entry |-> <<e>>]
  <2>1. p \in ServerThread /\ p.pc = "push" /\ Len(p.entry) = 1 /\ Head(p.entry) = e
    <3> HIDE DEF e
    <3>1. <<e>> \in Seq(Entry) /\ Len(<<e>>) = 1 /\ Head(<<e>>) = e
      BY SMTT(30), <1>2
    <3> QED  BY <3>1 DEF ServerThread
  <2>2. e.client = c
    OBVIOUS
  <2> HIDE DEF p, e
  <2>3. /\ thread' \in [ServerThreads -> ServerThread]
        /\ thread'["msg"] = p /\ thread'["sched"] = thread["sched"]
    BY <1>0, <1>3, <2>1 DEF ServerThreads, p
  <2>u. UNCHANGED <<nState, nSessionID, vecSessionCollaterals, vecEntries, final, timedOut,
                    toClient, lastID, client, committed>>
    BY <1>3 DEF ProcessDSVIN, server
  <2>4. PoolTypes'
    BY <1>1, <2>3, <2>u DEF PoolTypes, Now, ServerThreads
  <2>5. \A i \in DOMAIN vecEntries : vecEntries[i].client # c
    BY <1>3 DEF EntryFits, EntryOf, Now
  <2>6. EntriesInv'
    BY <2>1, <2>2, <2>3, <2>5, <2>u DEF PoolInv, EntriesInv
  <2>7. CreateInv'
    <3>1. nState \in {"QUEUE", "ACCEPTING_ENTRIES"}
      BY <1>3 DEF EntryFits, IsSessionReady, Now
    <3>2. \A t \in ServerThreads : Creating(t)' => Creating(t)
      BY <2>1, <2>3 DEF Creating, ServerThreads
    <3> QED  BY <2>u, <3>1, <3>2 DEF PoolInv, CreateInv
  <2>8. PoolInv'
    BY <2>6, <2>7, <2>u DEF PoolInv, CollateralsInv, FinalInv, EnoughParticipants
  <2> QED  BY <2>4, <2>8
<1>4. CASE Becomes(PushStatus(Now, c, FALSE)) /\ UNCHANGED thread
  <2>u. UNCHANGED <<thread, lastID, client, committed>>
    BY <1>4 DEF ProcessDSVIN
  <2>1. PushStatus(Now, c, FALSE) \in Pool /\ Same(Now, PushStatus(Now, c, FALSE))
    BY <1>0, PushSends, StatusIsMessage DEF PushStatus
  <2>2. Now' \in Pool /\ Kept
    BY <1>4, <2>1, BecomesPool, PoolKept
  <2>3. PoolTypes'
    BY <1>1, <2>2, <2>u DEF PoolTypes
  <2>4. PoolInv'
    BY <1>0, <2>u, <2>2, NothingAdded DEF Creating
  <2> QED  BY <2>3, <2>4
<1> QED  BY <1>3, <1>4 DEF ProcessDSVIN

\* The end of AddEntry
LEMMA PushStep ==
    ASSUME PoolTypes, PoolInv, PushEntry
    PROVE  PoolTypes' /\ PoolInv'
<1> DEFINE e == Head(thread["msg"].entry)
           es == Append(vecEntries, e)
           s == [Now EXCEPT !.vecEntries = es]
<1>0. Now \in Pool /\ vecEntries \in Seq(Entry) /\ thread["msg"] \in ServerThread
  BY PoolFields DEF PoolTypes
<1>1. thread["msg"].pc = "push"
  BY DEF PushEntry, Runs
<1>2. e \in Entry /\ \A i \in DOMAIN vecEntries : vecEntries[i].client # e.client
  <2>1. thread["msg"].entry \in Seq(Entry) /\ Len(thread["msg"].entry) = 1
    BY <1>0, <1>1 DEF ServerThread, PoolInv, EntriesInv
  <2>2. Head(thread["msg"].entry) \in Entry
    BY SMTT(30), <2>1
  <2> QED  BY <1>1, <2>2 DEF PoolInv, EntriesInv
<1> HIDE DEF e
<1>3. /\ es \in Seq(Entry) /\ Len(es) = Len(vecEntries) + 1
      /\ \A i \in 1 .. Len(vecEntries) : es[i] = vecEntries[i]
      /\ es[Len(vecEntries) + 1] = e
      /\ DOMAIN es = 1 .. Len(vecEntries) + 1 /\ DOMAIN vecEntries = 1 .. Len(vecEntries)
      /\ Len(vecEntries) \in Nat
  BY SMTT(30), <1>0, <1>2
<1> HIDE DEF es
<1>4. s \in Pool /\ s.vecEntries = es /\ s.nState = nState /\ s.final = final
      /\ s.vecSessionCollaterals = vecSessionCollaterals
  <2>1. /\ Now.nState = nState /\ Now.final = final
        /\ Now.vecSessionCollaterals = vecSessionCollaterals
    BY DEF Now
  <2> QED  BY <1>0, <1>3, <2>1 DEF Pool
<1>5. Becomes(PushStatus(s, e.client, TRUE))
  <2>1. [Now EXCEPT !.vecEntries = Append(@, e)] = s
    BY DEF Now, es
  <2> QED  BY <2>1 DEF PushEntry, e
<1> HIDE DEF s
<1>6. PushStatus(s, e.client, TRUE) \in Pool /\ Same(s, PushStatus(s, e.client, TRUE))
  BY <1>4, PushSends, StatusIsMessage DEF PushStatus
<1>7. /\ Now' \in Pool /\ vecEntries' = es
      /\ UNCHANGED <<nState, final, vecSessionCollaterals>>
  BY <1>4, <1>5, <1>6, BecomesPool DEF Same
<1>8. /\ thread' \in [{"msg", "sched"} -> ServerThread]
      /\ thread'["msg"].pc = "pool" /\ thread'["sched"] = thread["sched"]
  BY ThreadMoves DEF PushEntry, ServerThreads
<1>u. UNCHANGED <<lastID, client, toServer, committed>>
  BY DEF PushEntry
<1>9. PoolTypes'
  BY <1>7, <1>8, <1>u DEF PoolTypes
<1>10. EntriesInv'
  <2>1. \A i, j \in DOMAIN es : es[i].client = es[j].client => i = j
    <3> SUFFICES ASSUME NEW i \in DOMAIN es, NEW j \in DOMAIN es, es[i].client = es[j].client
                 PROVE  i = j
      OBVIOUS
    <3> DEFINE n == Len(vecEntries)
    <3>1. i \in Nat /\ j \in Nat /\ 1 <= i /\ i <= n + 1 /\ 1 <= j /\ j <= n + 1 /\ n \in Nat
      BY SMTT(30), <1>3
    <3>2. CASE i <= n /\ j <= n
      <4>1. i \in DOMAIN vecEntries /\ j \in DOMAIN vecEntries
            /\ es[i] = vecEntries[i] /\ es[j] = vecEntries[j]
        BY SMTT(30), <1>3, <3>1, <3>2
      <4> QED  BY <4>1 DEF PoolInv, EntriesInv
    <3>3. CASE i <= n /\ j = n + 1
      <4>1. i \in DOMAIN vecEntries /\ es[i] = vecEntries[i] /\ es[j] = e
        BY SMTT(30), <1>3, <3>1, <3>3
      <4> QED  BY <1>2, <4>1
    <3>4. CASE i = n + 1 /\ j <= n
      <4>1. j \in DOMAIN vecEntries /\ es[j] = vecEntries[j] /\ es[i] = e
        BY SMTT(30), <1>3, <3>1, <3>4
      <4> QED  BY <1>2, <4>1
    <3> QED  BY SMTT(30), <3>1, <3>2, <3>3, <3>4
  <2> QED  BY <1>7, <1>8, <2>1 DEF EntriesInv
<1>11. CreateInv'
  <2> SUFFICES ASSUME NEW t \in ServerThreads, Creating(t)'
               PROVE  Len(vecEntries') >= MinPool
    BY DEF CreateInv
  <2>1. Creating(t)
    BY <1>8 DEF Creating, ServerThreads
  <2>2. Len(vecEntries) >= MinPool
    BY <1>1, <2>1 DEF PoolInv, CreateInv
  <2> QED  BY SMTT(30), <1>3, <1>7, <2>2, PoolAssumption
<1>12. PoolInv'
  BY <1>7, <1>10, <1>11, <1>u DEF PoolInv, CollateralsInv, FinalInv, EnoughParticipants
<1> QED  BY <1>9, <1>12

\* The answer to an entry
LEMMA RelayStep ==
    ASSUME PoolTypes, PoolInv, RelayAccepted
    PROVE  PoolTypes' /\ PoolInv'
<1>0. Now \in Pool /\ vecEntries \in Seq(Entry)
  BY PoolFields DEF PoolTypes
<1>1. RelayStatus(Now, TRUE) \in Pool
      /\ (Same(Now, RelayStatus(Now, TRUE)) \/ Cleared(RelayStatus(Now, TRUE)))
  BY <1>0, RelayStatusEffect
<1>2. /\ thread' \in [{"msg", "sched"} -> ServerThread]
      /\ thread'["msg"].pc = "idle" /\ thread'["sched"] = thread["sched"]
  BY IdleThread DEF RelayAccepted, PoolTypes
<1>3. Now' \in Pool /\ (Kept \/ Emptied)
  BY <1>1, <1>2, BecomesPool, PoolKept DEF RelayAccepted
<1>u. UNCHANGED <<lastID, client, toServer, committed>>
  BY DEF RelayAccepted
<1>4. PoolTypes'
  BY <1>2, <1>3, <1>u DEF PoolTypes
<1>5. \A t \in ServerThreads : Creating(t)' => Creating(t)
  BY <1>2 DEF Creating, ServerThreads
<1>6. PoolInv'
  BY <1>0, <1>2, <1>3, <1>5, <1>u, NothingAdded
<1> QED  BY <1>4, <1>6

\* AddScriptSig changes signatures only.
LEMMA SigEffect ==
    ASSUME PoolTypes, NEW c \in Clients, NEW over \in SUBSET Output
    PROVE  LET s == AddScriptSig(Now, c, over) IN
           /\ s \in Pool
           /\ s.nState = nState /\ s.vecSessionCollaterals = vecSessionCollaterals
           /\ Len(s.vecEntries) = Len(vecEntries)
           /\ \A i \in DOMAIN vecEntries : s.vecEntries[i].client = vecEntries[i].client
           /\ final = {} => s.final = {}
           /\ Spenders(s.final) = Spenders(final)
<1> DEFINE Signed(f) == [f EXCEPT !.sig = over]
           tx == {IF f.client = c THEN Signed(f) ELSE f : f \in final}
           es == [i \in DOMAIN vecEntries |->
                    IF i \in Free(Now, c) THEN Signed(vecEntries[i]) ELSE vecEntries[i]]
           s  == [Now EXCEPT !.final = tx, !.vecEntries = es]
<1>0. Now \in Pool /\ vecEntries \in Seq(Entry) /\ final \in SUBSET Entry
  BY PoolFields DEF PoolTypes
<1>1. \A f \in Entry : Signed(f) \in Entry /\ Signed(f).client = f.client
  BY DEF Entry
<1>2. tx \in SUBSET Entry /\ (final = {} => tx = {}) /\ Spenders(tx) = Spenders(final)
  <2> HIDE DEF Signed
  <2> QED  BY <1>0, <1>1 DEF Spenders
<1>3. /\ es \in Seq(Entry) /\ Len(es) = Len(vecEntries)
      /\ \A i \in DOMAIN vecEntries : es[i].client = vecEntries[i].client
  <2> HIDE DEF Signed
  <2>1. DOMAIN vecEntries = 1 .. Len(vecEntries) /\ Len(vecEntries) \in Nat
    BY SMTT(30), <1>0
  <2>2. \A i \in DOMAIN vecEntries : vecEntries[i] \in Entry
    BY SMTT(30), <1>0
  <2>3. es \in [1 .. Len(vecEntries) -> Entry]
    BY <1>1, <2>1, <2>2
  <2>4. \A i \in DOMAIN vecEntries : es[i].client = vecEntries[i].client
    BY <1>1, <2>2
  <2> HIDE DEF es
  <2> QED  BY SMTT(30), <2>1, <2>3, <2>4
<1>4. AddScriptSig(Now, c, over) = s
  BY DEF AddScriptSig, Now
<1> HIDE DEF tx, es
<1>5. Now.nState = nState /\ Now.vecSessionCollaterals = vecSessionCollaterals
  BY DEF Now
<1>6. s \in Pool /\ s.final = tx /\ s.vecEntries = es /\ s.nState = Now.nState
      /\ s.vecSessionCollaterals = Now.vecSessionCollaterals
  BY <1>0, <1>2, <1>3 DEF Pool
<1> HIDE DEF s
<1> QED  BY <1>2, <1>3, <1>4, <1>5, <1>6

\* DSSIGNFINALTX
LEMMA SignStep ==
    ASSUME PoolTypes, PoolInv, NEW c \in Clients, ProcessDSSIGNFINALTX(c)
    PROVE  PoolTypes' /\ PoolInv'
<1> DEFINE over == Head(toServer[c]).over
           s == AddScriptSig(Now, c, over)
           adds == IsInputScriptSigValid(Now, c)
                     /\ ~\E i \in EntryOf(Now, c) : vecEntries[i].sig = over
           q == IF adds THEN s ELSE Now
           r == RelayStatus(q, FALSE)
<1>0. Now \in Pool /\ vecEntries \in Seq(Entry) /\ thread \in [ServerThreads -> ServerThread]
  BY PoolFields DEF PoolTypes, ServerThreads
<1>1. /\ Head(toServer[c]) \in ServerMessage /\ Head(toServer[c]).type = "sign"
      /\ toServer' \in [Clients -> Seq(ServerMessage)] /\ thread["msg"].pc = "idle"
  BY HeadOfConnection DEF ProcessDSSIGNFINALTX
<1>2. over \in SUBSET Output
  BY <1>1 DEF ServerMessage
<1>u. UNCHANGED <<lastID, client, committed>>
  BY DEF ProcessDSSIGNFINALTX
<1>3. \/ Becomes(s) /\ GoTo("msg", "pool")
      \/ Becomes(r) /\ UNCHANGED thread
  BY DEF ProcessDSSIGNFINALTX
<1> HIDE DEF over, adds
<1> DEFINE Like(x) ==
        /\ x \in Pool
        /\ x.nState = nState /\ x.vecSessionCollaterals = vecSessionCollaterals
        /\ Len(x.vecEntries) = Len(vecEntries)
        /\ \A i \in DOMAIN vecEntries : x.vecEntries[i].client = vecEntries[i].client
        /\ final = {} => x.final = {}
        /\ Spenders(x.final) = Spenders(final)
<1>4. Like(s)
  BY <1>2, SigEffect
<1>5. Like(Now)
  <2>1. /\ Now.nState = nState /\ Now.vecSessionCollaterals = vecSessionCollaterals
        /\ Now.vecEntries = vecEntries /\ Now.final = final
    BY DEF Now
  <2> QED  BY <1>0, <2>1
<1>6. Like(q)
  <2> HIDE DEF s
  <2> QED  BY <1>4, <1>5
<1> HIDE DEF s, q
<1>7. r \in Pool /\ (Like(r) \/ Cleared(r))
  <2>1. r \in Pool /\ (Same(q, r) \/ Cleared(r))
    BY <1>6, RelayStatusEffect
  <2> QED  BY <1>6, <2>1 DEF Same
<1> HIDE DEF r
<1>8. ASSUME NEW x, Becomes(x), Like(x) PROVE Now' \in Pool /\ Kept
  <2>1. /\ Now' \in Pool
        /\ nState' = x.nState /\ vecSessionCollaterals' = x.vecSessionCollaterals
        /\ vecEntries' = x.vecEntries /\ final' = x.final
    BY <1>8, BecomesPool
  <2>2. x.vecEntries \in Seq(Entry)
    BY <1>8 DEF Pool
  <2> QED  BY <1>8, <2>1, <2>2 DEF Kept
<1> HIDE DEF Like
<1>9. CASE Becomes(s) /\ GoTo("msg", "pool")
  <2>1. /\ thread' \in [{"msg", "sched"} -> ServerThread]
        /\ thread'["msg"].pc = "pool" /\ thread'["sched"] = thread["sched"]
    BY <1>9, ThreadMoves DEF ServerThreads
  <2>2. Now' \in Pool /\ Kept
    BY <1>4, <1>8, <1>9
  <2>3. \A t \in ServerThreads : Creating(t)' => Creating(t)
    BY <2>1 DEF Creating, ServerThreads
  <2>4. PoolTypes'
    BY <1>1, <1>u, <2>1, <2>2 DEF PoolTypes
  <2> QED  BY <1>0, <1>u, <2>1, <2>2, <2>3, <2>4, NothingAdded
<1>10. CASE Becomes(r) /\ UNCHANGED thread
  <2>1. Now' \in Pool /\ (Kept \/ Emptied)
    <3>1. thread'["msg"].pc # "push"
      BY <1>1, <1>10
    <3> QED  BY <1>7, <1>8, <1>10, <3>1, BecomesPool, PoolKept
  <2>2. PoolTypes'
    BY <1>1, <1>u, <1>10, <2>1 DEF PoolTypes
  <2>3. PoolInv'
    BY <1>0, <1>u, <1>10, <2>1, NothingAdded DEF Creating
  <2> QED  BY <2>2, <2>3
<1> QED  BY <1>3, <1>9, <1>10

\* CheckPool decides to finalise only with enough entries.
LEMMA DecideStep ==
    ASSUME PoolTypes, PoolInv, NEW t \in ServerThreads, DecidePool(t)
    PROVE  PoolTypes' /\ PoolInv'
<1>0. Now \in Pool /\ vecEntries \in Seq(Entry) /\ Len(vecEntries) \in Nat
      /\ vecSessionCollaterals \in Seq(Clients)
  BY SMTT(30), PoolFields DEF PoolTypes
<1>u. UNCHANGED <<nState, nSessionID, vecSessionCollaterals, vecEntries, final, timedOut,
                  toClient, toServer, lastID, client, committed>>
  BY DEF DecidePool, server, net
<1>1. CheckPool(Now) \in {"nothing", "create", "fees", "commit"}
  BY DEF CheckPool
<1>2. CheckPool(Now) \in {"create", "fees"} => Len(vecEntries) >= MinPool
  <2>1. CheckPool(Now) \in {"create", "fees"} =>
          /\ nState = "ACCEPTING_ENTRIES"
          /\ Len(vecEntries) = Len(vecSessionCollaterals) \/ Len(vecEntries) >= MinPool
    BY DEF CheckPool, Now
  <2> QED  BY <2>1 DEF PoolInv, CollateralsInv
<1>3. /\ thread' \in [{"msg", "sched"} -> ServerThread]
      /\ \A o \in ServerThreads : o # t => thread'[o] = thread[o]
      /\ \/ thread'[t].pc \in {"idle", "relay", "timeout", "commit"}
         \/ thread'[t].pc \in {"create", "fees"} /\ Len(vecEntries) >= MinPool
  <2>1. Finish(t) \/ (GoTo(t, CheckPool(Now)) /\ CheckPool(Now) \in {"create", "fees", "commit"})
    BY <1>1 DEF DecidePool
  <2> QED  BY <1>2, <2>1, ThreadMoves
<1>4. PoolTypes'
  BY <1>3, <1>u DEF PoolTypes, Now
<1>5. EntriesInv'
  BY <1>3, <1>u DEF PoolInv, EntriesInv, ServerThreads
<1>6. CreateInv'
  <2> SUFFICES ASSUME NEW o \in ServerThreads, Creating(o)'
               PROVE  \/ Len(vecEntries') >= MinPool
                      \/ /\ vecEntries' = <<>> /\ nState' \in {"IDLE", "SIGNING"}
                         /\ thread'["msg"].pc # "push"
    BY DEF CreateInv
  <2>1. CASE o = t
    BY <1>3, <1>u, <2>1 DEF Creating
  <2>2. CASE o # t
    BY <1>3, <1>u, <2>2 DEF PoolInv, CreateInv, Creating, ServerThreads
  <2> QED  BY <2>1, <2>2
<1>7. PoolInv'
  BY <1>5, <1>6, <1>u DEF PoolInv, CollateralsInv, FinalInv, EnoughParticipants
<1> QED  BY <1>4, <1>7

\* A step of thread t that neither adds an entry nor decides to finalise: the pool is
\* kept or emptied, and t does not go on to add an entry.
LEMMA QuietThreadStep ==
    ASSUME PoolTypes, PoolInv, NEW t \in ServerThreads, NEW r \in Pool, Becomes(r),
           Same(Now, r) \/ (Cleared(r) /\ ~Creating(t)'),
           thread' \in [{"msg", "sched"} -> ServerThread],
           \A o \in ServerThreads : o # t => thread'[o] = thread[o],
           thread'[t].pc # "push", Creating(t)' => Creating(t),
           UNCHANGED <<lastID, client, toServer, committed>>
    PROVE  PoolTypes' /\ PoolInv'
<1>1. \A o \in ServerThreads : Creating(o)' => Creating(o)
  BY DEF Creating
<1>2. thread'["msg"].pc = "push" => thread["msg"].pc = "push" /\ thread'["msg"] = thread["msg"]
  BY DEF ServerThreads
<1>3. Cleared(r) /\ ~Creating(t)' => \A o \in ServerThreads : Creating(o)' => thread'["msg"].pc # "push"
  BY DEF Creating, ServerThreads
<1>4. Kept \/ Emptied
  BY <1>3, PoolKept
<1>5. Now' \in Pool /\ vecEntries \in Seq(Entry)
  BY BecomesPool, PoolFields DEF PoolTypes
<1>6. PoolTypes'
  BY <1>5 DEF PoolTypes
<1> QED  BY <1>1, <1>2, <1>4, <1>5, <1>6, NothingAdded

\* Nothing becomes of a pool that is left alone.
LEMMA UnchangedPool ==
    ASSUME Now \in Pool, UNCHANGED <<server, toClient>>
    PROVE  Becomes(Now) /\ Same(Now, Now)
BY DEF Becomes, Same, Now, server

\* CreateFinalTransaction
LEMMA CreateStep ==
    ASSUME PoolTypes, PoolInv, NEW t \in ServerThreads, Create(t)
    PROVE  PoolTypes' /\ PoolInv'
<1> DEFINE r == CreateFinalTransaction(Now)
           tx == {vecEntries[i] : i \in DOMAIN vecEntries}
<1>0. Now \in Pool /\ vecEntries \in Seq(Entry) /\ Now.vecEntries = vecEntries
      /\ Now.vecSessionCollaterals = vecSessionCollaterals
  BY PoolFields DEF PoolTypes, Now
<1>1. /\ r \in Pool
      /\ \/ Cleared(r)
         \/ /\ r.nState = "SIGNING" /\ r.vecEntries = vecEntries
            /\ r.vecSessionCollaterals = vecSessionCollaterals
            /\ r.final = tx
  BY <1>0, CreateEffect
<1>2. Becomes(r) /\ UNCHANGED <<lastID, client, toServer, committed>> /\ Creating(t)
  BY DEF Create, Runs, Creating
<1>3. /\ thread' \in [{"msg", "sched"} -> ServerThread]
      /\ thread'[t].pc \in {"idle", "relay", "timeout"}
      /\ \A o \in ServerThreads : o # t => thread'[o] = thread[o]
  BY ThreadMoves DEF Create
<1>4. ~Creating(t)'
  BY <1>3 DEF Creating
<1> HIDE DEF r
<1>5. CASE Cleared(r)
  BY <1>1, <1>2, <1>3, <1>4, <1>5, QuietThreadStep
<1>6. CASE /\ r.nState = "SIGNING" /\ r.vecEntries = vecEntries
           /\ r.vecSessionCollaterals = vecSessionCollaterals
           /\ r.final = tx
  <2>1. /\ Now' \in Pool /\ nState' = "SIGNING" /\ final' = tx
        /\ UNCHANGED <<vecEntries, vecSessionCollaterals>>
    BY <1>1, <1>2, <1>6, BecomesPool
  <2>2. PoolTypes'
    BY <1>2, <1>3, <2>1 DEF PoolTypes
  <2>3. EntriesInv'
    BY <1>3, <2>1 DEF PoolInv, EntriesInv, ServerThreads
  <2>4. CreateInv'
    <3> SUFFICES ASSUME NEW o \in ServerThreads, Creating(o)'
                 PROVE  \/ Len(vecEntries') >= MinPool
                        \/ /\ vecEntries' = <<>> /\ nState' \in {"IDLE", "SIGNING"}
                           /\ thread'["msg"].pc # "push"
      BY DEF CreateInv
    <3>1. o # t /\ Creating(o)
      BY <1>3, <1>4 DEF Creating
    <3>2. thread'["msg"].pc = "push" => thread["msg"].pc = "push"
      BY <1>3 DEF ServerThreads
    <3> QED  BY <2>1, <3>1, <3>2 DEF PoolInv, CreateInv
  <2>5. FinalInv'
    <3> SUFFICES ASSUME tx # {}
                 PROVE  IsFiniteSet(Spenders(tx)) /\ Cardinality(Spenders(tx)) >= MinPool
      BY <2>1 DEF FinalInv
    <3>1. vecEntries # <<>>
      BY SMTT(30)
    <3>2. Len(vecEntries) >= MinPool
      BY <1>2, <3>1 DEF PoolInv, CreateInv
    <3> QED  BY <1>0, <3>2, ManySpenders DEF PoolInv, EntriesInv
  <2>6. PoolInv'
    BY <1>2, <2>1, <2>3, <2>4, <2>5 DEF PoolInv, CollateralsInv, EnoughParticipants
  <2> QED  BY <2>2, <2>6
<1> QED  BY <1>1, <1>5, <1>6

\* CommitFinalTransaction: only the joint transaction reaches the mempool.
LEMMA CommitStep ==
    ASSUME PoolTypes, PoolInv, NEW t \in ServerThreads, Commit(t)
    PROVE  PoolTypes' /\ PoolInv'
<1>0. Now \in Pool /\ vecEntries \in Seq(Entry) /\ final \in SUBSET Entry
  BY PoolFields DEF PoolTypes
<1>1. CASE /\ Acceptable(final)
           /\ committed' = committed \cup {final}
           /\ GoTo(t, "complete")
           /\ UNCHANGED <<server, toClient>>
  <2>1. /\ thread' \in [{"msg", "sched"} -> ServerThread]
        /\ thread'[t].pc = "complete"
        /\ \A o \in ServerThreads : o # t => thread'[o] = thread[o]
    BY <1>1, ThreadMoves
  <2>2. UNCHANGED <<nState, nSessionID, vecSessionCollaterals, vecEntries, final, timedOut,
                    toClient, toServer, lastID, client>>
    BY <1>1 DEF Commit, server
  <2>3. PoolTypes'
    BY <1>0, <1>1, <2>1, <2>2 DEF PoolTypes, Now
  <2>4. Cardinality(Spenders(final)) >= MinPool
    BY <1>1 DEF Acceptable, PoolInv, FinalInv
  <2>5. EntriesInv'
    BY <2>1, <2>2 DEF PoolInv, EntriesInv, ServerThreads
  <2>6. CreateInv'
    <3>1. \A o \in ServerThreads : Creating(o)' => Creating(o)
      BY <2>1 DEF Creating
    <3>2. thread'["msg"].pc = "push" => thread["msg"].pc = "push"
      BY <2>1 DEF ServerThreads
    <3> QED  BY <2>2, <3>1, <3>2 DEF PoolInv, CreateInv
  <2>7. EnoughParticipants'
    BY <1>1, <2>4 DEF PoolInv, EnoughParticipants
  <2>8. PoolInv'
    BY <2>2, <2>5, <2>6, <2>7 DEF PoolInv, CollateralsInv, FinalInv
  <2> QED  BY <2>3, <2>8
<1>2. CASE /\ Becomes(RelayCompletedTransaction(SetNull(Now), FALSE))
           /\ Finish(t)
           /\ UNCHANGED committed
  <2> DEFINE r == RelayCompletedTransaction(SetNull(Now), FALSE)
  <2>1. r \in Pool /\ Cleared(r)
    <3>1. SetNull(Now) \in Pool /\ Cleared(SetNull(Now))
      BY <1>0, SetNullClears
    <3>2. r \in Pool /\ (Same(SetNull(Now), r) \/ Cleared(r))
      BY <3>1, CompletedEffect
    <3> QED  BY <3>1, <3>2 DEF Same, Cleared
  <2>2. /\ thread' \in [{"msg", "sched"} -> ServerThread]
        /\ thread'[t].pc \in {"idle", "relay", "timeout"}
        /\ \A o \in ServerThreads : o # t => thread'[o] = thread[o]
    BY <1>2, ThreadMoves
  <2>3. UNCHANGED <<lastID, client, toServer, committed>> /\ Becomes(r)
    BY <1>2 DEF Commit
  <2> HIDE DEF r
  <2>4. ~Creating(t)' /\ thread'[t].pc # "push"
    BY <2>2 DEF Creating
  <2> QED  BY <2>1, <2>2, <2>3, <2>4, QuietThreadStep
<1> QED  BY <1>1, <1>2 DEF Commit

\* The steps that follow a commitment, and the charging of fees
LEMMA OtherThreadStep ==
    ASSUME PoolTypes, PoolInv, NEW t \in ServerThreads,
           ChargeAbsent(t) \/ Complete(t) \/ Reset(t)
    PROVE  PoolTypes' /\ PoolInv'
<1>0. Now \in Pool
  BY DEF PoolTypes
<1>1. CASE ChargeAbsent(t)
  <2>1. /\ thread' \in [{"msg", "sched"} -> ServerThread]
        /\ thread'[t].pc = "create"
        /\ \A o \in ServerThreads : o # t => thread'[o] = thread[o]
    BY <1>1, ThreadMoves DEF ChargeAbsent
  <2>2. Creating(t)
    BY <1>1 DEF ChargeAbsent, Runs, Creating
  <2>3. UNCHANGED <<lastID, client, toServer, committed>> /\ Becomes(Now) /\ Same(Now, Now)
    BY <1>0, <1>1, UnchangedPool DEF ChargeAbsent, net
  <2> QED  BY <1>0, <2>1, <2>2, <2>3, QuietThreadStep
<1>2. CASE Complete(t)
  <2> DEFINE r == RelayCompletedTransaction(Now, TRUE)
  <2>1. r \in Pool /\ (Same(Now, r) \/ Cleared(r))
    BY <1>0, CompletedEffect
  <2>2. /\ thread' \in [{"msg", "sched"} -> ServerThread]
        /\ thread'[t].pc = "reset"
        /\ \A o \in ServerThreads : o # t => thread'[o] = thread[o]
    BY <1>2, ThreadMoves DEF Complete
  <2>3. UNCHANGED <<lastID, client, toServer, committed>> /\ Becomes(r)
    BY <1>2 DEF Complete
  <2> HIDE DEF r
  <2>4. ~Creating(t)'
    BY <2>2 DEF Creating
  <2> QED  BY <2>1, <2>2, <2>3, <2>4, QuietThreadStep
<1>3. CASE Reset(t)
  <2>1. SetNull(Now) \in Pool /\ Cleared(SetNull(Now))
    BY <1>0, SetNullClears
  <2>2. /\ thread' \in [{"msg", "sched"} -> ServerThread]
        /\ thread'[t].pc \in {"idle", "relay", "timeout"}
        /\ \A o \in ServerThreads : o # t => thread'[o] = thread[o]
    BY <1>3, ThreadMoves DEF Reset
  <2>3. UNCHANGED <<lastID, client, toServer, committed>> /\ Becomes(SetNull(Now))
    BY <1>3 DEF Reset
  <2>4. ~Creating(t)' /\ thread'[t].pc # "push"
    BY <2>2 DEF Creating
  <2> QED  BY <2>1, <2>2, <2>3, <2>4, QuietThreadStep
<1> QED  BY <1>1, <1>2, <1>3

\* DoMaintenance's own steps: a queue becomes ready only with enough collaterals.
LEMMA SchedulerStep ==
    ASSUME PoolTypes, PoolInv, NoNewSession,
           CheckForCompleteQueue \/ CheckTimeout \/ ChargeExpelled
    PROVE  PoolTypes' /\ PoolInv'
<1>0. Now \in Pool /\ vecSessionCollaterals \in Seq(Clients)
      /\ thread \in [{"msg", "sched"} -> ServerThread]
  BY PoolFields DEF PoolTypes
<1> DEFINE p == [pc |-> "pool", then |-> "timeout", entry |-> <<>>]
<1>p. p \in ServerThread /\ p.pc = "pool"
  <2> DEFINE none == <<>>
  <2>1. none \in Seq(Entry) /\ p = [pc |-> "pool", then |-> "timeout", entry |-> none]
    BY SMTT(30)
  <2> HIDE DEF none, p
  <2> QED  BY <2>1 DEF ServerThread
<1>s. "sched" \in ServerThreads /\ ServerThreads = {"msg", "sched"}
  BY DEF ServerThreads
<1>1. CASE CheckForCompleteQueue
  <2>1. /\ thread' \in [{"msg", "sched"} -> ServerThread]
        /\ thread'["sched"].pc = "pool"
        /\ \A o \in ServerThreads : o # "sched" => thread'[o] = thread[o]
    <3>1. thread' = [thread EXCEPT !["sched"] = p]
      BY <1>1 DEF CheckForCompleteQueue
    <3> HIDE DEF p
    <3> QED  BY <1>0, <1>p, <1>s, <3>1
  <2>2. ~Creating("sched")' /\ thread'["sched"].pc # "push"
    BY <2>1 DEF Creating
  <2>u. UNCHANGED <<lastID, client, toServer, committed>>
    BY <1>1 DEF CheckForCompleteQueue
  <2>3. CASE UNCHANGED <<server, toClient>>
    BY <1>0, <1>s, <2>1, <2>2, <2>3, <2>u, UnchangedPool, QuietThreadStep
  <2>4. CASE /\ nState = "QUEUE" /\ IsSessionReady(Now)
             /\ Becomes(SetState(Now, "ACCEPTING_ENTRIES"))
    <3> DEFINE r == SetState(Now, "ACCEPTING_ENTRIES")
    <3>1. /\ r \in Pool /\ r.nState = "ACCEPTING_ENTRIES" /\ r.vecEntries = Now.vecEntries
          /\ r.final = Now.final /\ r.vecSessionCollaterals = Now.vecSessionCollaterals
      BY <1>0 DEF SetState, Pool, ServerStates
    <3> HIDE DEF r
    <3>2. Becomes(r)
      BY <2>4 DEF r
    <3>3. /\ Now' \in Pool /\ nState' = "ACCEPTING_ENTRIES"
          /\ UNCHANGED <<vecEntries, final, vecSessionCollaterals>>
      BY <3>1, <3>2, BecomesPool DEF Now
    <3>4. PoolTypes'
      BY <2>1, <2>u, <3>3 DEF PoolTypes
    <3>5. CollateralsInv'
      <4>1. Len(vecSessionCollaterals) >= MaxPool \/ Len(vecSessionCollaterals) >= MinPool
        BY <2>4 DEF IsSessionReady, Now
      <4>2. Len(vecSessionCollaterals) \in Nat
        BY SMTT(30), <1>0
      <4> QED  BY SMTT(30), <3>3, <4>1, <4>2, PoolAssumption DEF CollateralsInv
    <3>6. EntriesInv'
      BY <1>s, <2>1, <3>3 DEF PoolInv, EntriesInv
    <3>7. CreateInv'
      <4>1. \A o \in ServerThreads : ~Creating(o)'
        BY <2>1, <2>2, <2>4 DEF NoNewSession, Creating
      <4> QED  BY <4>1 DEF CreateInv
    <3>8. PoolInv'
      BY <2>u, <3>3, <3>5, <3>6, <3>7 DEF PoolInv, FinalInv, EnoughParticipants
    <3> QED  BY <3>4, <3>8
  <2> QED  BY <1>1, <2>3, <2>4 DEF CheckForCompleteQueue
<1>2. CASE CheckTimeout
  <2>1. /\ thread' \in [{"msg", "sched"} -> ServerThread]
        /\ thread'["sched"].pc \in {"expel", "idle"}
        /\ \A o \in ServerThreads : o # "sched" => thread'[o] = thread[o]
    BY SMTT(30), <1>0, <1>2, <1>s, ThreadMoves, IdleThread DEF CheckTimeout
  <2>2. ~Creating("sched")' /\ thread'["sched"].pc # "push"
    BY <2>1 DEF Creating
  <2>3. UNCHANGED <<lastID, client, toServer, committed>> /\ Becomes(Now) /\ Same(Now, Now)
    BY <1>0, <1>2, UnchangedPool DEF CheckTimeout, net
  <2> QED  BY <1>0, <1>s, <2>1, <2>2, <2>3, QuietThreadStep
<1>3. CASE ChargeExpelled
  <2>1. /\ thread' \in [{"msg", "sched"} -> ServerThread]
        /\ thread'["sched"].pc = "reset"
        /\ \A o \in ServerThreads : o # "sched" => thread'[o] = thread[o]
    <3> DEFINE i == [Idle EXCEPT !.pc = "reset"]
    <3>1. i \in ServerThread /\ i.pc = "reset"
      BY IdleThread
    <3>2. thread' = [thread EXCEPT !["sched"] = i]
      BY <1>3 DEF ChargeExpelled
    <3> HIDE DEF i
    <3> QED  BY <1>0, <1>s, <3>1, <3>2
  <2>2. ~Creating("sched")' /\ thread'["sched"].pc # "push"
    BY <2>1 DEF Creating
  <2>3. UNCHANGED <<lastID, client, toServer, committed>> /\ Becomes(Now) /\ Same(Now, Now)
    BY <1>0, <1>3, UnchangedPool DEF ChargeExpelled, net
  <2> QED  BY <1>0, <1>s, <2>1, <2>2, <2>3, QuietThreadStep
<1> QED  BY <1>1, <1>2, <1>3

\* Time, faults and the wallets do not touch the pool's entries.
LEMMA OutsideStep ==
    ASSUME PoolTypes,
           \/ Tick \/ Fail \/ ResetPool
           \/ \E c \in Clients : ClientStep(c) \/ ClientTimeout(c) \/ DoAutomaticDenominating(c)
    PROVE  PoolTypes' /\ PoolFrame
<1>0. /\ nState \in ServerStates /\ nSessionID \in Nat
      /\ vecSessionCollaterals \in Seq(Clients) /\ vecEntries \in Seq(Entry)
      /\ final \in SUBSET Entry /\ timedOut \in BOOLEAN
      /\ toClient \in [Clients -> Seq(ClientMessage)]
  BY PoolFields DEF PoolTypes
<1>1. CASE Tick
  <2>1. Now' \in Pool
    BY <1>0, <1>1 DEF Tick, Now, Pool, net
  <2> QED  BY <1>1, <2>1 DEF Tick, net, PoolTypes, PoolFrame
<1>2. CASE Fail
  <2> DEFINE none == <<>>
  <2>0. none \in Seq(ClientMessage) /\ none \in Seq(ServerMessage)
    BY SMTT(30)
  <2>1. toClient' = [toClient EXCEPT ![Flaky] = none]
        /\ toServer' \in {[toServer EXCEPT ![Flaky] = none], toServer}
    BY <1>2 DEF Fail
  <2> HIDE DEF none
  <2>2. toClient' \in [Clients -> Seq(ClientMessage)]
    BY <1>0, <2>0, <2>1
  <2>3. toServer' \in [Clients -> Seq(ServerMessage)]
    BY <2>0, <2>1 DEF PoolTypes
  <2>4. UNCHANGED <<nState, nSessionID, vecSessionCollaterals, vecEntries, final, timedOut,
                    lastID, thread, client, committed, env>>
    BY <1>2 DEF Fail, server
  <2>5. Now' \in Pool
    BY <1>0, <2>2, <2>4 DEF Now, Pool
  <2> QED  BY <2>3, <2>4, <2>5 DEF PoolTypes, PoolFrame
<1>3. CASE ResetPool
  <2>1. GiveUp(client[Flaky]) \in WalletSession
    BY PoolAssumption, WalletRecords DEF PoolTypes
  <2>2. client' \in [Clients -> WalletSession]
    BY <1>3, <2>1, PoolAssumption, WalletTypes DEF ResetPool
  <2>3. UNCHANGED <<nState, nSessionID, vecSessionCollaterals, vecEntries, final, timedOut,
                    lastID, thread, toServer, toClient, committed, env>>
    BY <1>3 DEF ResetPool, server, net
  <2>4. Now' \in Pool
    BY <1>0, <2>3 DEF Now, Pool
  <2> QED  BY <2>2, <2>3, <2>4 DEF PoolTypes, PoolFrame
<1> QED  BY <1>1, <1>2, <1>3, WalletStep

\* Every step keeps the types and the invariant, if no session is opened under a thread
\* that is about to finalise.
LEMMA PoolStep ==
    ASSUME PoolTypes, PoolInv, NoNewSession, NoNewSession', [Next]_vars
    PROVE  PoolTypes' /\ PoolInv'
<1>f. ASSUME PoolTypes', PoolFrame PROVE PoolInv'
  <2>1. vecEntries \in Seq(Entry) /\ Kept
    BY <1>f, PoolFields DEF PoolTypes, PoolFrame, Kept
  <2> QED  BY <1>f, <2>1, NothingAdded DEF PoolFrame, Creating
<1>1. CASE UNCHANGED vars
  <2>1. PoolTypes' /\ PoolFrame
    BY <1>1 DEF vars, server, net, PoolTypes, PoolFrame, Now
  <2> QED  BY <1>f, <2>1
<1>2. CASE \E c \in Clients : Handle(c)
  BY <1>2, AcceptStep, EntryStep, SignStep DEF Handle
<1>3. CASE MessageThread \/ SchedulerThread
  <2>1. ASSUME NEW t \in ServerThreads, ThreadStep(t) PROVE PoolTypes' /\ PoolInv'
    BY <2>1, DecideStep, CreateStep, CommitStep, OtherThreadStep DEF ThreadStep
  <2> QED  BY <1>3, <2>1, PushStep, RelayStep, SchedulerStep
           DEF MessageThread, SchedulerThread, ServerThreads
<1>4. CASE \/ Tick \/ Fail \/ ResetPool
           \/ \E c \in Clients : ClientStep(c) \/ ClientTimeout(c) \/ DoAutomaticDenominating(c)
  BY <1>4, <1>f, OutsideStep
<1> QED  BY <1>1, <1>2, <1>3, <1>4 DEF Next

-----------------------------------------------------------------------------
(* The theorems.                                                           *)

\* As long as no new session is opened while a thread of the masternode is between
\* CheckPool's decision to finalise and CreateFinalTransaction, every transaction that
\* reaches the mempool mixes the coins of at least MinPool wallets: whatever the
\* threads interleave otherwise, whoever disconnects, falls silent or is late, however
\* many wallets there are and whatever the sizes of the pool.
THEOREM EnoughUnlessOvertaken == Spec /\ []NoNewSession => []EnoughParticipants
<1>1. Init => PoolTypes /\ PoolInv
  BY PoolInit
<1>2. PoolTypes /\ PoolInv /\ NoNewSession /\ NoNewSession' /\ [Next]_vars
        => (PoolTypes /\ PoolInv)'
  BY PoolStep
<1>3. PoolInv => EnoughParticipants
  BY DEF PoolInv
<1> QED  BY <1>1, <1>2, <1>3, PTL DEF Spec

-----------------------------------------------------------------------------
(* Without overlapping threads no session is opened at the wrong time.     *)

NoOverlap == \A e \in Environments : ~e.overlap

\* Only one thread is at work, and the pool is as it was when it decided to finalise.
AloneInv ==
    /\ env \in Environments
    /\ \A t \in ServerThreads : Creating(t) =>
            nState = "ACCEPTING_ENTRIES" /\ thread[Other(t)].pc = "idle"

\* A step of the masternode is one of a thread that is alone, and a thread goes on to
\* finalise only from CheckPool, in a pool that accepts entries.
LEMMA ServerStepAlone ==
    ASSUME NoOverlap, PoolTypes, AloneInv,
           (\E c \in Clients : Handle(c)) \/ MessageThread \/ SchedulerThread
    PROVE  /\ env' = env
           /\ \E t \in ServerThreads :
                /\ thread[Other(t)].pc = "idle" /\ thread'[Other(t)] = thread[Other(t)]
                /\ Creating(t)' => nState' = "ACCEPTING_ENTRIES"
<1> DEFINE Alone(t) == /\ env' = env
                       /\ thread[Other(t)].pc = "idle" /\ thread'[Other(t)] = thread[Other(t)]
                       /\ Creating(t)' => nState' = "ACCEPTING_ENTRIES"
<1>0. thread \in [ServerThreads -> ServerThread] /\ ~env.overlap
  BY DEF PoolTypes, ServerThreads, AloneInv, NoOverlap
<1>o. \A t \in ServerThreads : Other(t) \in ServerThreads /\ Other(t) # t
  BY DEF Other, ServerThreads
<1>t. "msg" \in ServerThreads /\ "sched" \in ServerThreads
  BY DEF ServerThreads
<1>1. ASSUME NEW c \in Clients, Handle(c) PROVE Alone("msg")
  <2>1. thread["msg"].pc = "idle" /\ thread[Other("msg")].pc = "idle" /\ env' = env
    BY <1>0, <1>1 DEF Handle, ProcessDSACCEPT, ProcessDSVIN, ProcessDSSIGNFINALTX, Receives, Runs
  <2>2. \/ UNCHANGED thread
        \/ \E e : thread' = [thread EXCEPT !["msg"] = [pc |-> "push", then |-> "relay", entry |-> e]]
        \/ GoTo("msg", "pool")
    BY <1>1 DEF Handle, ProcessDSACCEPT, ProcessDSVIN, ProcessDSSIGNFINALTX
  <2>3. CASE UNCHANGED thread
    BY <2>1, <2>3 DEF Creating
  <2>4. CASE \E e : thread' = [thread EXCEPT !["msg"] = [pc |-> "push", then |-> "relay", entry |-> e]]
    BY SMTT(30), <1>0, <1>o, <1>t, <2>1, <2>4 DEF Creating
  <2>5. CASE GoTo("msg", "pool")
    <3>1. thread'["msg"].pc = "pool" /\ thread'[Other("msg")] = thread[Other("msg")]
      BY <1>o, <1>t, <2>5, ThreadMoves
    <3> QED  BY <2>1, <3>1 DEF Creating
  <2> QED  BY <2>2, <2>3, <2>4, <2>5
<1>2. ASSUME NEW t \in ServerThreads, ThreadStep(t) PROVE Alone(t)
  <2>1. thread[Other(t)].pc = "idle" /\ env' = env
    BY <1>0, <1>2 DEF ThreadStep, DecidePool, ChargeAbsent, Create, Commit, Complete, Reset, Runs
  <2>2. CASE DecidePool(t)
    <3>1. \/ Finish(t)
          \/ /\ GoTo(t, CheckPool(Now)) /\ CheckPool(Now) \in {"create", "fees", "commit"}
      BY <2>2 DEF DecidePool, CheckPool
    <3>2. CheckPool(Now) \in {"create", "fees"} => nState = "ACCEPTING_ENTRIES"
      BY DEF CheckPool, Now
    <3>3. nState' = nState
      BY <2>2 DEF DecidePool, server
    <3>4. /\ thread'[Other(t)] = thread[Other(t)]
          /\ thread'[t].pc \in {"idle", "relay", "timeout"} \/ thread'[t].pc = CheckPool(Now)
      BY <1>o, <3>1, ThreadMoves
    <3> QED  BY <2>1, <3>2, <3>3, <3>4 DEF Creating
  <2>3. CASE ChargeAbsent(t)
    <3>1. thread'[Other(t)] = thread[Other(t)] /\ nState' = nState
      BY <1>o, <2>3, ThreadMoves DEF ChargeAbsent, server
    <3>2. Creating(t)
      BY <2>3 DEF ChargeAbsent, Runs, Creating
    <3> QED  BY <2>1, <3>1, <3>2 DEF AloneInv
  <2>4. CASE Create(t) \/ Commit(t) \/ Complete(t) \/ Reset(t)
    <3>1. Finish(t) \/ GoTo(t, "complete") \/ GoTo(t, "reset")
      BY <2>4 DEF Create, Commit, Complete, Reset
    <3>2. /\ thread'[Other(t)] = thread[Other(t)]
          /\ thread'[t].pc \in {"idle", "relay", "timeout", "complete", "reset"}
      BY <1>o, <3>1, ThreadMoves
    <3> QED  BY <2>1, <3>2 DEF Creating
  <2> QED  BY <1>2, <2>2, <2>3, <2>4 DEF ThreadStep
<1>3. ASSUME PushEntry \/ RelayAccepted PROVE Alone("msg")
  <2>1. thread[Other("msg")].pc = "idle" /\ env' = env
    BY <1>0, <1>3 DEF PushEntry, RelayAccepted, Runs
  <2>2. thread'[Other("msg")] = thread[Other("msg")] /\ thread'["msg"].pc \in {"pool", "idle"}
    BY <1>0, <1>3, <1>o, <1>t, ThreadMoves, IdleThread DEF PushEntry, RelayAccepted
  <2> QED  BY <2>1, <2>2 DEF Creating
<1>4. ASSUME CheckForCompleteQueue \/ CheckTimeout \/ ChargeExpelled PROVE Alone("sched")
  <2>1. thread[Other("sched")].pc = "idle" /\ env' = env
    BY <1>0, <1>4 DEF CheckForCompleteQueue, CheckTimeout, ChargeExpelled, Runs
  <2>2. CASE CheckForCompleteQueue
    <3>1. thread'[Other("sched")] = thread[Other("sched")] /\ thread'["sched"].pc = "pool"
      BY <1>0, <1>o, <1>t, <2>2 DEF CheckForCompleteQueue
    <3> QED  BY <2>1, <3>1 DEF Creating
  <2>3. CASE CheckTimeout
    <3>1. thread'[Other("sched")] = thread[Other("sched")] /\ thread'["sched"].pc \in {"expel", "idle"}
      BY <1>0, <1>o, <1>t, <2>3, ThreadMoves, IdleThread DEF CheckTimeout
    <3> QED  BY <2>1, <3>1 DEF Creating
  <2>4. CASE ChargeExpelled
    <3> DEFINE i == [Idle EXCEPT !.pc = "reset"]
    <3>1. i.pc = "reset"
      BY IdleThread
    <3>2. thread' = [thread EXCEPT !["sched"] = i]
      BY <2>4 DEF ChargeExpelled
    <3> HIDE DEF i
    <3>3. thread'[Other("sched")] = thread[Other("sched")] /\ thread'["sched"].pc = "reset"
      BY <1>0, <1>o, <1>t, <3>1, <3>2
    <3> QED  BY <2>1, <3>3 DEF Creating
  <2> QED  BY <1>4, <2>2, <2>3, <2>4
<1> QED  BY <1>1, <1>2, <1>3, <1>4, <1>t DEF MessageThread, SchedulerThread

\* So it stays.
LEMMA AloneStep ==
    ASSUME NoOverlap, PoolTypes, AloneInv, [Next]_vars
    PROVE  AloneInv'
<1>1. CASE (\E c \in Clients : Handle(c)) \/ MessageThread \/ SchedulerThread
  <2>1. env' = env
    BY <1>1, ServerStepAlone
  <2>2. PICK t \in ServerThreads :
            /\ thread[Other(t)].pc = "idle" /\ thread'[Other(t)] = thread[Other(t)]
            /\ Creating(t)' => nState' = "ACCEPTING_ENTRIES"
    BY <1>1, ServerStepAlone
  <2>3. \A o \in ServerThreads : o = t \/ o = Other(t)
    BY SMTT(30) DEF Other, ServerThreads
  <2>4. ~Creating(Other(t))'
    BY <2>2 DEF Creating
  <2> QED  BY <2>1, <2>2, <2>3, <2>4 DEF AloneInv
<1>2. CASE UNCHANGED vars
  BY <1>2 DEF vars, server, AloneInv, Creating
<1>3. CASE \/ Tick \/ Fail \/ ResetPool
           \/ \E c \in Clients : ClientStep(c) \/ ClientTimeout(c) \/ DoAutomaticDenominating(c)
  <2>1. PoolFrame
    BY <1>3, OutsideStep
  <2> QED  BY <2>1 DEF PoolFrame, AloneInv, Creating
<1> QED  BY <1>1, <1>2, <1>3 DEF Next

\* When the message handler and the scheduler do not run into each other, every
\* transaction that reaches the mempool mixes the coins of at least MinPool wallets
\* (IsSessionReady, CheckPool), for any wallets, pool sizes and faults.
THEOREM EnoughMixing ==
    ASSUME NoOverlap
    PROVE  Spec => []EnoughParticipants
<1>1. Init => PoolTypes /\ PoolInv /\ AloneInv
  <2>1. ASSUME Init PROVE AloneInv
    BY <2>1 DEF Init, AloneInv, Creating, Idle, ServerThreads
  <2> QED  BY <2>1, PoolInit
<1>2. PoolTypes /\ PoolInv /\ AloneInv /\ [Next]_vars => (PoolTypes /\ PoolInv /\ AloneInv)'
  <2> SUFFICES ASSUME PoolTypes, PoolInv, AloneInv, [Next]_vars
               PROVE  PoolTypes' /\ PoolInv' /\ AloneInv'
    OBVIOUS
  <2>1. AloneInv'
    BY AloneStep
  <2>2. NoNewSession /\ NoNewSession'
    BY <2>1 DEF NoNewSession, AloneInv
  <2> QED  BY <2>1, <2>2, PoolStep
<1>3. PoolInv => EnoughParticipants
  BY DEF PoolInv
<1> QED  BY <1>1, <1>2, <1>3, PTL DEF Spec
=============================================================================
