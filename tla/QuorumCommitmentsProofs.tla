---------------------- MODULE QuorumCommitmentsProofs ----------------------
(***************************************************************************)
(* The database of mined commitments and the cache in front of it agree    *)
(* with the active chain, for every mining window, number of quorums,      *)
(* competing chains and commitments per block.                             *)
(***************************************************************************)
EXTENDS QuorumCommitments, FiniteSetTheorems, SequenceTheorems, WellFoundedInduction, TLAPS

\* A leaf is given to Zenon unless it names another prover.
USE ZenonT(30)

-----------------------------------------------------------------------------
(***************************************************************************)
(* The loops over the commitments of a block                               *)
(***************************************************************************)

\* Induction over the commitments of a block.
LEMMA CountUp ==
  ASSUME NEW S \in SUBSET Nat, 0 \in S, \A n \in S : n + 1 \in S PROVE S = Nat
<1> SUFFICES ASSUME Nat \ S # {} PROVE FALSE
  OBVIOUS
<1> DEFINE R == OpToRel(<, Nat)
<1>1. IsWellFoundedOn(R, Nat)
  BY NatLessThanWellFounded
<1>2. PICK m \in Nat \ S : \A n \in Nat \ S : ~(<<n, m>> \in R)
  <2> HIDE DEF R
  <2>1. Nat \ S \subseteq Nat
    OBVIOUS
  <2> QED
    BY <1>1, <2>1, WFMin
<1>3. \A n \in Nat \ S : ~(n < m)
  BY <1>2 DEF OpToRel
<1>4. m # 0 /\ m \in Nat
  BY <1>2
<1>5. m - 1 \in Nat /\ m - 1 < m /\ (m - 1) + 1 = m
  BY SMTT(30), <1>4
<1>6. m - 1 \in S
  BY <1>3, <1>5
<1> QED
  BY <1>2, <1>5, <1>6

\* after runs through the loop of ProcessBlock, starting from st.
Processes(after, st, h, qcs, j) ==
  /\ after[0] = st
  /\ \A k \in 1 .. Len(qcs) : after[k] = ProcessCommitment(after[k - 1], h, qcs[k], j)

\* The loop of ProcessBlock has a result for each of its steps.
LEMMA ProcessLoop ==
  ASSUME NEW st, NEW h, NEW qcs, NEW j, Len(qcs) \in Nat
  PROVE Processes(ProcessCommitments(st, h, qcs, j), st, h, qcs, j)
<1> DEFINE Solves(g, n) == g = [i \in 0 .. n |-> IF i = 0 THEN st ELSE ProcessCommitment(g[i - 1], h, qcs[i], j)]
           S == {n \in Nat : \E g : Solves(g, n)}
<1>1. 0 \in S
  <2> DEFINE g == [i \in 0 .. 0 |-> st]
  <2>1. Solves(g, 0)
    BY SMTT(30)
  <2> QED
    BY <2>1
<1>2. ASSUME NEW n \in S PROVE n + 1 \in S
  <2>0. n \in Nat /\ n + 1 \in Nat /\ n + 1 # 0
    BY SMTT(30)
  <2>1. PICK g : Solves(g, n)
    OBVIOUS
  <2> DEFINE f == [i \in 0 .. n + 1 |-> IF i = n + 1 THEN ProcessCommitment(g[n], h, qcs[n + 1], j) ELSE g[i]]
  <2>2. ASSUME NEW i \in 0 .. n + 1
        PROVE f[i] = IF i = 0 THEN st ELSE ProcessCommitment(f[i - 1], h, qcs[i], j)
    <3>1. CASE i = n + 1
      <4>1. i - 1 = n /\ n \in 0 .. n + 1 /\ n # n + 1 /\ i # 0
        BY SMTT(30), <2>0, <3>1
      <4>2. f[n] = g[n]
        BY <4>1
      <4> QED
        BY <3>1, <4>1, <4>2
    <3>2. CASE i # n + 1
      <4>1. i \in 0 .. n /\ (i # 0 => i - 1 \in 0 .. n + 1 /\ i - 1 # n + 1)
        BY SMTT(30), <2>0, <3>2
      <4>2. f[i] = g[i] /\ (i # 0 => f[i - 1] = g[i - 1])
        BY <3>2, <4>1
      <4> HIDE DEF f
      <4> QED
        BY <2>1, <4>1, <4>2
    <3> QED
      BY <3>1, <3>2
  <2>3. Solves(f, n + 1)
    <3>1. f = [i \in 0 .. n + 1 |-> f[i]]
      OBVIOUS
    <3> HIDE DEF f
    <3> QED
      BY <2>2, <3>1
  <2> QED
    BY <2>0, <2>3
<1>3. Len(qcs) \in S
  <2>1. S \in SUBSET Nat
    OBVIOUS
  <2> HIDE DEF S
  <2> QED
    BY <1>1, <1>2, <2>1, CountUp
<1>4. PICK g : Solves(g, Len(qcs))
  BY <1>3
<1> DEFINE after == ProcessCommitments(st, h, qcs, j)
<1>5. Solves(after, Len(qcs))
  BY <1>4 DEF ProcessCommitments
<1> HIDE DEF after
<1>6. 0 \in 0 .. Len(qcs) /\ \A k \in 1 .. Len(qcs) : k \in 0 .. Len(qcs) /\ k # 0
  BY SMTT(30)
<1>7. after[0] = st
  BY <1>5, <1>6
<1>8. ASSUME NEW k \in 1 .. Len(qcs) PROVE after[k] = ProcessCommitment(after[k - 1], h, qcs[k], j)
  BY <1>5, <1>6
<1>9. Processes(after, st, h, qcs, j)
  BY <1>7, <1>8 DEF Processes
<1> QED
  BY <1>9 DEF after

\* after runs through the loop of UndoBlock, starting from st.
Undoes(after, st, h, qcs) ==
  /\ after[0] = st
  /\ \A k \in 1 .. Len(qcs) : after[k] = UndoCommitment(after[k - 1], h, qcs[k])

\* So does the loop of UndoBlock.
LEMMA UndoLoop ==
  ASSUME NEW st, NEW h, NEW qcs, Len(qcs) \in Nat
  PROVE Undoes(UndoCommitments(st, h, qcs), st, h, qcs)
<1> DEFINE Solves(g, n) == g = [i \in 0 .. n |-> IF i = 0 THEN st ELSE UndoCommitment(g[i - 1], h, qcs[i])]
           S == {n \in Nat : \E g : Solves(g, n)}
<1>1. 0 \in S
  <2> DEFINE g == [i \in 0 .. 0 |-> st]
  <2>1. Solves(g, 0)
    BY SMTT(30)
  <2> QED
    BY <2>1
<1>2. ASSUME NEW n \in S PROVE n + 1 \in S
  <2>0. n \in Nat /\ n + 1 \in Nat /\ n + 1 # 0
    BY SMTT(30)
  <2>1. PICK g : Solves(g, n)
    OBVIOUS
  <2> DEFINE f == [i \in 0 .. n + 1 |-> IF i = n + 1 THEN UndoCommitment(g[n], h, qcs[n + 1]) ELSE g[i]]
  <2>2. ASSUME NEW i \in 0 .. n + 1
        PROVE f[i] = IF i = 0 THEN st ELSE UndoCommitment(f[i - 1], h, qcs[i])
    <3>1. CASE i = n + 1
      <4>1. i - 1 = n /\ n \in 0 .. n + 1 /\ n # n + 1 /\ i # 0
        BY SMTT(30), <2>0, <3>1
      <4>2. f[n] = g[n]
        BY <4>1
      <4> QED
        BY <3>1, <4>1, <4>2
    <3>2. CASE i # n + 1
      <4>1. i \in 0 .. n /\ (i # 0 => i - 1 \in 0 .. n + 1 /\ i - 1 # n + 1)
        BY SMTT(30), <2>0, <3>2
      <4>2. f[i] = g[i] /\ (i # 0 => f[i - 1] = g[i - 1])
        BY <3>2, <4>1
      <4> HIDE DEF f
      <4> QED
        BY <2>1, <4>1, <4>2
    <3> QED
      BY <3>1, <3>2
  <2>3. Solves(f, n + 1)
    <3>1. f = [i \in 0 .. n + 1 |-> f[i]]
      OBVIOUS
    <3> HIDE DEF f
    <3> QED
      BY <2>2, <3>1
  <2> QED
    BY <2>0, <2>3
<1>3. Len(qcs) \in S
  <2>1. S \in SUBSET Nat
    OBVIOUS
  <2> HIDE DEF S
  <2> QED
    BY <1>1, <1>2, <2>1, CountUp
<1>4. PICK g : Solves(g, Len(qcs))
  BY <1>3
<1> DEFINE after == UndoCommitments(st, h, qcs)
<1>5. Solves(after, Len(qcs))
  BY <1>4 DEF UndoCommitments
<1> HIDE DEF after
<1>6. 0 \in 0 .. Len(qcs) /\ \A k \in 1 .. Len(qcs) : k \in 0 .. Len(qcs) /\ k # 0
  BY SMTT(30)
<1>7. after[0] = st
  BY <1>5, <1>6
<1>8. ASSUME NEW k \in 1 .. Len(qcs) PROVE after[k] = UndoCommitment(after[k - 1], h, qcs[k])
  BY <1>5, <1>6
<1>9. Undoes(after, st, h, qcs)
  BY <1>7, <1>8 DEF Undoes
<1> QED
  BY <1>9 DEF after

-----------------------------------------------------------------------------
(***************************************************************************)
(* The state that the operations of CQuorumBlockProcessor work on          *)
(***************************************************************************)

\* DB_MINED_COMMITMENT: what is stored under a quorum is a commitment to it.
MinedMap == {M \in [Quorums -> MinedCommitment \cup {None}] :
               \A q \in Quorums : M[q] # None => M[q].qc.quorum = q}
ByQuorumMap == {B \in [Quorums -> Verified \cup {None}] :
                  \A q \in Quorums : B[q] # None => B[q].quorum = q}

State == [ok : BOOLEAN, mined : MinedMap, byHeight : SUBSET (Nat \X Indexes),
          cache : [Quorums -> {"unknown", "yes", "no"}],
          minable : SUBSET Verified, byQuorum : ByQuorumMap]

\* Nothing but the cache has changed, which holds what HasMinedCommitment said.
Reads(s, r) ==
  /\ r.mined = s.mined /\ r.byHeight = s.byHeight
  /\ r.minable = s.minable /\ r.byQuorum = s.byQuorum
  /\ \A q \in Quorums :
       \/ r.cache[q] = s.cache[q]
       \/ r.cache[q] = IF HasMinedCommitment(s, q) THEN "yes" ELSE "no"

\* A state is made of its fields.
LEMMA StateFields ==
  ASSUME NEW s
  PROVE s \in State <=>
          /\ s = [ok |-> s.ok, mined |-> s.mined, byHeight |-> s.byHeight, cache |-> s.cache,
                  minable |-> s.minable, byQuorum |-> s.byQuorum]
          /\ s.ok \in BOOLEAN /\ s.mined \in MinedMap /\ s.byHeight \in SUBSET (Nat \X Indexes)
          /\ s.cache \in [Quorums -> {"unknown", "yes", "no"}]
          /\ s.minable \in SUBSET Verified /\ s.byQuorum \in ByQuorumMap
  BY SMTT(30) DEF State

\* Commitments that are not null
LEMMA CommitmentsAre ==
  /\ \A qc \in Commitment : qc.quorum \in Quorums /\ qc.sigs \in BOOLEAN
  /\ \A qc \in Commitment : ~IsNull(qc) /\ qc.sigs => qc \in Verified
  /\ \A qc \in Verified : qc \in Commitment /\ ~IsNull(qc) /\ qc.sigs /\ qc.quorum \in Quorums /\ qc.signers \in Nat
  /\ \A q \in Quorums : Null(q) \in Commitment /\ IsNull(Null(q)) /\ Null(q).quorum = q
<1>1. \A qc \in FinalCommitment : qc.quorum \in Quorums /\ qc.sigs \in BOOLEAN /\ qc.signers \in Nat \ {0}
  BY CommitmentsAssumption DEF FinalCommitment
<1>2. \A q \in Quorums : Null(q).quorum = q /\ Null(q).sigs \in BOOLEAN /\ Null(q).signers = 0
  BY DEF Null
<1>3. \A q \in Quorums : Null(q) \in Commitment /\ IsNull(Null(q)) /\ Null(q).quorum = q
  BY <1>2 DEF IsNull, Commitment
<1>4. \A n \in Nat \ {0} : n # 0 /\ n \in Nat
  OBVIOUS
<1>5. \A qc \in Verified : qc \in FinalCommitment /\ qc.sigs
  BY DEF Verified
<1>6. \A qc \in Verified : qc \in Commitment /\ ~IsNull(qc) /\ qc.sigs /\ qc.quorum \in Quorums /\ qc.signers \in Nat
  BY <1>1, <1>4, <1>5 DEF Commitment, IsNull
<1>7. ASSUME NEW qc \in Commitment
      PROVE qc.quorum \in Quorums /\ qc.sigs \in BOOLEAN /\ (~IsNull(qc) /\ qc.sigs => qc \in Verified)
  <2>1. CASE qc \in FinalCommitment
    BY <1>1, <2>1 DEF Verified
  <2>2. CASE \E q \in Quorums : qc = Null(q)
    BY <1>2, <2>2 DEF IsNull
  <2> QED
    BY <2>1, <2>2 DEF Commitment
<1> QED
  BY <1>3, <1>6, <1>7

\* HasMinedCommitment returns what it caches.
LEMMA AskedReads ==
  ASSUME NEW s \in State, NEW q \in Quorums
  PROVE LET a == Asked(s, q)
        IN /\ a \in State /\ Reads(s, a) /\ a.ok = s.ok
           /\ a.cache = [s.cache EXCEPT ![q] = IF HasMinedCommitment(s, q) THEN "yes" ELSE "no"]
<1> DEFINE v == IF HasMinedCommitment(s, q) THEN "yes" ELSE "no"
           a == [s EXCEPT !.cache = [s.cache EXCEPT ![q] = v]]
<1>1. v \in {"unknown", "yes", "no"}
  OBVIOUS
<1>2. Asked(s, q) = a
  BY DEF Asked
<1> HIDE DEF v
<1>3. /\ a.ok = s.ok /\ a.mined = s.mined /\ a.byHeight = s.byHeight
      /\ a.minable = s.minable /\ a.byQuorum = s.byQuorum
      /\ a.cache = [s.cache EXCEPT ![q] = v]
      /\ a = [ok |-> a.ok, mined |-> a.mined, byHeight |-> a.byHeight, cache |-> a.cache,
              minable |-> a.minable, byQuorum |-> a.byQuorum]
  BY SMTT(30) DEF State
<1> HIDE DEF a
<1>4. s.cache \in [Quorums -> {"unknown", "yes", "no"}]
  BY StateFields
<1>5. a.cache \in [Quorums -> {"unknown", "yes", "no"}]
  BY <1>1, <1>3, <1>4
<1>6. a \in State
  BY <1>3, <1>5, StateFields
<1>7. Reads(s, a)
  BY <1>3, <1>4 DEF Reads, v
<1> QED
  BY <1>2, <1>3, <1>6, <1>7 DEF v

\* What HasMinedCommitment cached does not change what it returns.
LEMMA ReadsReturns ==
  ASSUME NEW s \in State, NEW r \in State, Reads(s, r)
  PROVE \A q \in Quorums : HasMinedCommitment(r, q) <=> HasMinedCommitment(s, q)
  BY DEF Reads, HasMinedCommitment

\* One reading after the other
LEMMA ReadsTwice ==
  ASSUME NEW s \in State, NEW r \in State, NEW t, Reads(s, r), Reads(r, t)
  PROVE Reads(s, t)
  BY ReadsReturns DEF Reads

\* GetNumCommitmentsRequired asks for every quorum of the cycle.
LEMMA AskedAllReads ==
  ASSUME NEW s \in State, NEW h
  PROVE AskedAll(s, h) \in State /\ Reads(s, AskedAll(s, h)) /\ AskedAll(s, h).ok = s.ok
<1> DEFINE C == [q \in Quorums |-> IF IsMiningPhase(h) /\ q[1] = base
                                   THEN Asked(s, q).cache[q] ELSE s.cache[q]]
           a == [s EXCEPT !.cache = C]
<1>1. AskedAll(s, h) = a
  BY DEF AskedAll
<1>2. s.cache \in [Quorums -> {"unknown", "yes", "no"}]
  BY StateFields
<1>3. ASSUME NEW q \in Quorums
      PROVE /\ C[q] \in {"unknown", "yes", "no"}
            /\ C[q] = s.cache[q] \/ C[q] = IF HasMinedCommitment(s, q) THEN "yes" ELSE "no"
  <2>1. Asked(s, q).cache[q] = IF HasMinedCommitment(s, q) THEN "yes" ELSE "no"
    BY <1>2, AskedReads
  <2> QED
    BY <1>2, <2>1
<1>4. C \in [Quorums -> {"unknown", "yes", "no"}]
  BY <1>3
<1> HIDE DEF C
<1>5. /\ a.ok = s.ok /\ a.mined = s.mined /\ a.byHeight = s.byHeight
      /\ a.minable = s.minable /\ a.byQuorum = s.byQuorum
      /\ a.cache = C
      /\ a = [ok |-> a.ok, mined |-> a.mined, byHeight |-> a.byHeight, cache |-> a.cache,
              minable |-> a.minable, byQuorum |-> a.byQuorum]
  BY SMTT(30) DEF State
<1> HIDE DEF a
<1>6. a \in State
  BY <1>4, <1>5, StateFields
<1>7. Reads(s, a)
  BY <1>3, <1>5 DEF Reads
<1> QED
  BY <1>1, <1>5, <1>6, <1>7

\* An assignment to ok
LEMMA SetOk ==
  ASSUME NEW s \in State, NEW v \in BOOLEAN
  PROVE LET r == [s EXCEPT !.ok = v]
        IN r \in State /\ r.ok = v /\ r.mined = s.mined /\ r.byHeight = s.byHeight /\ r.cache = s.cache /\ r.minable = s.minable /\ r.byQuorum = s.byQuorum
  BY SMTT(30) DEF State

\* An assignment to mined
LEMMA SetMined ==
  ASSUME NEW s \in State, NEW v \in MinedMap
  PROVE LET r == [s EXCEPT !.mined = v]
        IN r \in State /\ r.mined = v /\ r.ok = s.ok /\ r.byHeight = s.byHeight /\ r.cache = s.cache /\ r.minable = s.minable /\ r.byQuorum = s.byQuorum
  BY SMTT(30) DEF State

\* An assignment to byHeight
LEMMA SetByHeight ==
  ASSUME NEW s \in State, NEW v \in SUBSET (Nat \X Indexes)
  PROVE LET r == [s EXCEPT !.byHeight = v]
        IN r \in State /\ r.byHeight = v /\ r.ok = s.ok /\ r.mined = s.mined /\ r.cache = s.cache /\ r.minable = s.minable /\ r.byQuorum = s.byQuorum
  BY SMTT(30) DEF State

\* An assignment to cache
LEMMA SetCache ==
  ASSUME NEW s \in State, NEW v \in [Quorums -> {"unknown", "yes", "no"}]
  PROVE LET r == [s EXCEPT !.cache = v]
        IN r \in State /\ r.cache = v /\ r.ok = s.ok /\ r.mined = s.mined /\ r.byHeight = s.byHeight /\ r.minable = s.minable /\ r.byQuorum = s.byQuorum
  BY SMTT(30) DEF State

\* An assignment to minable
LEMMA SetMinable ==
  ASSUME NEW s \in State, NEW v \in SUBSET Verified
  PROVE LET r == [s EXCEPT !.minable = v]
        IN r \in State /\ r.minable = v /\ r.ok = s.ok /\ r.mined = s.mined /\ r.byHeight = s.byHeight /\ r.cache = s.cache /\ r.byQuorum = s.byQuorum
  BY SMTT(30) DEF State

\* An assignment to byQuorum
LEMMA SetByQuorum ==
  ASSUME NEW s \in State, NEW v \in ByQuorumMap
  PROVE LET r == [s EXCEPT !.byQuorum = v]
        IN r \in State /\ r.byQuorum = v /\ r.ok = s.ok /\ r.mined = s.mined /\ r.byHeight = s.byHeight /\ r.cache = s.cache /\ r.minable = s.minable
  BY SMTT(30) DEF State

\* ProcessCommitment has written the commitment of a block at height h.
Writes(s, r, h, qc) ==
  /\ r.mined = [s.mined EXCEPT ![qc.quorum] = [qc |-> qc, height |-> h]]
  /\ r.byHeight = s.byHeight \cup {<<h, qc.quorum[2]>>}
  /\ r.cache = [s.cache EXCEPT ![qc.quorum] = "unknown"]

\* What is written
LEMMA RecordIs ==
  ASSUME NEW h \in Nat, NEW qc \in Verified
  PROVE [qc |-> qc, height |-> h] # None /\ [qc |-> qc, height |-> h].height = h
<1>1. [qc |-> qc, height |-> h] \in MinedCommitment
  BY DEF MinedCommitment
<1> QED
  BY <1>1, NoneAssumption

\* What is stored after a write, and of which type it is
LEMMA WriteTypes ==
  ASSUME NEW h \in Nat, NEW qc \in Verified, NEW M \in MinedMap
  PROVE /\ [qc |-> qc, height |-> h] \in MinedCommitment
        /\ [qc |-> qc, height |-> h] # None
        /\ [M EXCEPT ![qc.quorum] = [qc |-> qc, height |-> h]] \in MinedMap
        /\ <<h, qc.quorum[2]>> \in Nat \X Indexes
<1> DEFINE m == [qc |-> qc, height |-> h]
<1>1. m \in MinedCommitment /\ m.qc = qc
  BY DEF MinedCommitment
<1>2. m # None
  BY <1>1, NoneAssumption
<1>3. qc.quorum \in Quorums
  BY CommitmentsAre
<1>4. qc.quorum[2] \in Indexes
  BY <1>3 DEF Quorums
<1> HIDE DEF m
<1>5. [M EXCEPT ![qc.quorum] = m] \in MinedMap
  BY <1>1, <1>3 DEF MinedMap
<1> QED
  BY <1>1, <1>2, <1>4, <1>5 DEF m

\* ProcessCommitment stops, finds the block invalid, checks or writes.
LEMMA ProcessIs ==
  ASSUME NEW s \in State, NEW h \in Nat, NEW qc \in Commitment, NEW j \in {"check", "write"}
  PROVE LET r == ProcessCommitment(s, h, qc, j)
        IN /\ r \in State
           /\ \/ r = s /\ (~s.ok \/ IsNull(qc))
              \/ /\ s.ok /\ ~IsNull(qc) /\ ~r.ok /\ Reads(s, r)
                 /\ HasMinedCommitment(s, qc.quorum) \/ ~IsMiningPhase(h) \/ ~qc.sigs
              \/ s.ok /\ ~IsNull(qc) /\ j = "check" /\ r.ok /\ Reads(s, r)
              \/ /\ s.ok /\ ~IsNull(qc) /\ j = "write" /\ r.ok /\ Writes(s, r, h, qc)
                 /\ qc \in Verified /\ ~HasMinedCommitment(s, qc.quorum)
<1> DEFINE q == qc.quorum
           a == Asked(s, q)
           r == ProcessCommitment(s, h, qc, j)
<1>1. q \in Quorums /\ qc.sigs \in BOOLEAN
  BY CommitmentsAre
<1>2. a \in State /\ Reads(s, a) /\ a.ok = s.ok
  BY <1>1, AskedReads
<1>3. Invalid(a) \in State /\ Reads(s, Invalid(a)) /\ Invalid(a).ok = FALSE
  <2> HIDE DEF a
  <2>1. LET i == Invalid(a) IN
          i \in State /\ i.ok = FALSE /\ i.mined = a.mined /\ i.byHeight = a.byHeight
            /\ i.cache = a.cache /\ i.minable = a.minable /\ i.byQuorum = a.byQuorum
    BY <1>2, SetOk DEF Invalid
  <2> QED
    BY <1>2, <2>1 DEF Reads
<1>4. CASE ~s.ok \/ IsNull(qc)
  BY <1>4 DEF ProcessCommitment
<1>5. CASE s.ok /\ ~IsNull(qc) /\ (HasMinedCommitment(s, q) \/ ~IsMiningPhase(h) \/ ~qc.sigs)
  <2>1. r = Invalid(a)
    BY <1>5 DEF ProcessCommitment
  <2> HIDE DEF r, a
  <2> QED
    BY <1>3, <1>5, <2>1 DEF r
<1>6. CASE s.ok /\ ~IsNull(qc) /\ ~HasMinedCommitment(s, q) /\ IsMiningPhase(h) /\ qc.sigs /\ j = "check"
  <2>1. r = a
    BY <1>6 DEF ProcessCommitment
  <2> HIDE DEF r, a
  <2> QED
    BY <1>2, <1>6, <2>1 DEF r
<1>7. CASE s.ok /\ ~IsNull(qc) /\ ~HasMinedCommitment(s, q) /\ IsMiningPhase(h) /\ qc.sigs /\ j = "write"
  <2>1. r = Mine(a, h, qc)
    BY <1>7 DEF ProcessCommitment
  <2>2. qc \in Verified
    BY <1>7, CommitmentsAre
  <2>3. a.cache = [s.cache EXCEPT ![q] = IF HasMinedCommitment(s, q) THEN "yes" ELSE "no"]
    BY <1>1, AskedReads
  <2> HIDE DEF r, a, q
  <2> DEFINE M == [a.mined EXCEPT ![q] = [qc |-> qc, height |-> h]]
             H == a.byHeight \cup {<<h, q[2]>>}
             C == [a.cache EXCEPT ![q] = "unknown"]
             B == [a.byQuorum EXCEPT ![q] = None]
             N == a.minable \ {qc}
             m1 == [a EXCEPT !.mined = M]
             m2 == [m1 EXCEPT !.byHeight = H]
             m3 == [m2 EXCEPT !.cache = C]
             m4 == [m3 EXCEPT !.byQuorum = B]
             m == [m4 EXCEPT !.minable = N]
  <2>4. /\ a.mined \in MinedMap /\ a.byHeight \in SUBSET (Nat \X Indexes)
        /\ a.cache \in [Quorums -> {"unknown", "yes", "no"}]
        /\ a.minable \in SUBSET Verified /\ a.byQuorum \in ByQuorumMap
    BY <1>2, StateFields
  <2>5. M \in MinedMap /\ H \in SUBSET (Nat \X Indexes)
    BY <2>2, <2>4, WriteTypes DEF q
  <2>6. C \in [Quorums -> {"unknown", "yes", "no"}] /\ B \in ByQuorumMap
    BY <1>1, <2>4 DEF ByQuorumMap
  <2>7. C = [s.cache EXCEPT ![q] = "unknown"]
    <3>1. s.cache \in [Quorums -> {"unknown", "yes", "no"}]
      BY StateFields
    <3> QED
      BY SMTT(30), <1>1, <2>3, <3>1
  <2>8. r = m
    BY <2>1 DEF Mine, q
  <2>9. N \in SUBSET Verified
    BY <2>4
  <2> HIDE DEF M, H, C, B, N
  <2>10. m1 \in State /\ m1.mined = M /\ m1.ok = a.ok
    BY <1>2, <2>5, SetMined
  <2> HIDE DEF m1
  <2>11. m2 \in State /\ m2.mined = M /\ m2.byHeight = H /\ m2.ok = a.ok
    BY <2>5, <2>10, SetByHeight
  <2> HIDE DEF m2
  <2>12. m3 \in State /\ m3.mined = M /\ m3.byHeight = H /\ m3.cache = C /\ m3.ok = a.ok
    BY <2>6, <2>11, SetCache
  <2> HIDE DEF m3
  <2>13. m4 \in State /\ m4.mined = M /\ m4.byHeight = H /\ m4.cache = C /\ m4.ok = a.ok
    BY <2>6, <2>12, SetByQuorum
  <2> HIDE DEF m4
  <2>14. m \in State /\ m.mined = M /\ m.byHeight = H /\ m.cache = C /\ m.ok = a.ok
    BY <2>9, <2>13, SetMinable
  <2> HIDE DEF m
  <2>15. Writes(s, m, h, qc)
    BY <1>2, <2>7, <2>14 DEF Writes, Reads, M, H, q
  <2> QED
    BY <1>2, <1>7, <2>2, <2>8, <2>14, <2>15 DEF r, q
<1> QED
  BY <1>1, <1>4, <1>5, <1>6, <1>7

\* AddMineableCommitment leaves the database and the cache alone.
LEMMA AddIs ==
  ASSUME NEW s \in State, NEW qc \in Verified
  PROVE LET r == AddMineableCommitment(s, qc)
        IN r \in State /\ r.ok = s.ok /\ r.mined = s.mined /\ r.byHeight = s.byHeight /\ r.cache = s.cache
<1> DEFINE B == [s.byQuorum EXCEPT ![qc.quorum] = qc]
           N == s.minable \cup {qc}
           r1 == [s EXCEPT !.byQuorum = B]
           r == [r1 EXCEPT !.minable = N]
<1>1. qc.quorum \in Quorums
  BY CommitmentsAre
<1>2. s.byQuorum \in ByQuorumMap /\ s.minable \in SUBSET Verified
  BY StateFields
<1>3. B \in ByQuorumMap /\ N \in SUBSET Verified
  BY <1>1, <1>2 DEF ByQuorumMap
<1>4. AddMineableCommitment(s, qc) = s \/ AddMineableCommitment(s, qc) = r
  BY DEF AddMineableCommitment
<1> HIDE DEF B, N
<1>5. r1 \in State /\ r1.ok = s.ok /\ r1.mined = s.mined /\ r1.byHeight = s.byHeight /\ r1.cache = s.cache
  BY <1>3, SetByQuorum
<1> HIDE DEF r1
<1>6. r \in State /\ r.ok = s.ok /\ r.mined = s.mined /\ r.byHeight = s.byHeight /\ r.cache = s.cache
  BY <1>3, <1>5, SetMinable
<1> QED
  BY <1>4, <1>6

\* A commitment that is null or verifies
Accepted == {qc \in Commitment : ~IsNull(qc) => qc \in Verified}

\* UndoBlock has removed the commitment of a block at height h.
Removes(s, r, h, qc) ==
  /\ r.ok = s.ok
  /\ IsNull(qc) => r = s
  /\ ~IsNull(qc) => /\ r.mined = [s.mined EXCEPT ![qc.quorum] = None]
                    /\ r.byHeight = s.byHeight \ {<<h, qc.quorum[2]>>}
                    /\ r.cache = [s.cache EXCEPT ![qc.quorum] = "unknown"]

\* UndoBlock for one commitment
LEMMA UndoIs ==
  ASSUME NEW s \in State, NEW h \in Nat, NEW qc \in Accepted
  PROVE UndoCommitment(s, h, qc) \in State /\ Removes(s, UndoCommitment(s, h, qc), h, qc)
<1>0. qc \in Commitment /\ (~IsNull(qc) => qc \in Verified)
  BY DEF Accepted
<1>1. CASE IsNull(qc)
  BY <1>1 DEF UndoCommitment, Removes
<1>2. CASE ~IsNull(qc)
  <2> DEFINE q == qc.quorum
             M == [s.mined EXCEPT ![q] = None]
             H == s.byHeight \ {<<h, q[2]>>}
             C == [s.cache EXCEPT ![q] = "unknown"]
             r1 == [s EXCEPT !.mined = M]
             r2 == [r1 EXCEPT !.byHeight = H]
             r3 == [r2 EXCEPT !.cache = C]
  <2>1. qc \in Verified /\ q \in Quorums
    BY <1>0, <1>2, CommitmentsAre
  <2>2. /\ s.mined \in MinedMap /\ s.byHeight \in SUBSET (Nat \X Indexes)
        /\ s.cache \in [Quorums -> {"unknown", "yes", "no"}]
    BY StateFields
  <2>3. M \in MinedMap
    BY <2>1, <2>2 DEF MinedMap
  <2>4. H \in SUBSET (Nat \X Indexes) /\ C \in [Quorums -> {"unknown", "yes", "no"}]
    BY <2>1, <2>2
  <2>5. UndoCommitment(s, h, qc) = AddMineableCommitment(r3, qc)
    BY <1>2 DEF UndoCommitment
  <2> HIDE DEF M, H, C
  <2>6. r1 \in State /\ r1.mined = M /\ r1.ok = s.ok
    BY <2>3, SetMined
  <2> HIDE DEF r1
  <2>7. r2 \in State /\ r2.mined = M /\ r2.byHeight = H /\ r2.ok = s.ok
    BY <2>4, <2>6, SetByHeight
  <2> HIDE DEF r2
  <2>8. r3 \in State /\ r3.mined = M /\ r3.byHeight = H /\ r3.cache = C /\ r3.ok = s.ok
    BY <2>4, <2>7, SetCache
  <2> HIDE DEF r3
  <2>9. LET r == UndoCommitment(s, h, qc)
        IN r \in State /\ r.ok = s.ok /\ r.mined = M /\ r.byHeight = H /\ r.cache = C
    <3>1. LET r == AddMineableCommitment(r3, qc)
          IN r \in State /\ r.ok = r3.ok /\ r.mined = r3.mined /\ r.byHeight = r3.byHeight /\ r.cache = r3.cache
      BY <2>1, <2>8, AddIs
    <3> QED
      BY <2>5, <2>8, <3>1
  <2> QED
    BY <1>2, <2>9 DEF M, H, C, q, Removes
<1> QED
  BY <1>1, <1>2

-----------------------------------------------------------------------------
(***************************************************************************)
(* Connecting a block                                                      *)
(***************************************************************************)

\* The index of the mined commitments by height
Indexed(M, H) ==
  \A x : x \in H <=> \E q \in Quorums : M[q] # None /\ x = <<M[q].height, q[2]>>

\* HasMinedCommitment misses no mined commitment.
NoneMissed(s) == \A q \in Quorums : s.cache[q] = "no" => s.mined[q] = None

\* From s to r the first n commitments of a block at height h were processed.
Grown(s, r, h, qcs, n) ==
  /\ \A q \in Quorums : s.mined[q] # None => r.mined[q] = s.mined[q]
  /\ \A q \in Quorums : r.mined[q] # s.mined[q] =>
       r.mined[q] # None /\ r.mined[q].height = h /\ \E k \in 1 .. n : qcs[k] = r.mined[q].qc
  /\ r.ok => \A k \in 1 .. n : ~IsNull(qcs[k]) =>
       qcs[k] \in Verified /\ r.mined[qcs[k].quorum] = [qc |-> qcs[k], height |-> h]
  /\ NoneMissed(r)
  /\ Indexed(r.mined, r.byHeight)

\* A quorum for which HasMinedCommitment returns false has no mined commitment.
LEMMA NotMined ==
  ASSUME NEW s \in State, NoneMissed(s), NEW q \in Quorums, ~HasMinedCommitment(s, q)
  PROVE s.mined[q] = None
<1>1. s.cache[q] \in {"unknown", "yes", "no"}
  BY StateFields
<1> QED
  BY <1>1 DEF NoneMissed, HasMinedCommitment

\* What is read is not missed.
LEMMA ReadsMissNone ==
  ASSUME NEW s \in State, NEW r, NoneMissed(s), Reads(s, r)
  PROVE NoneMissed(r)
<1> SUFFICES ASSUME NEW q \in Quorums, r.cache[q] = "no" PROVE r.mined[q] = None
  BY DEF NoneMissed
<1>1. r.mined = s.mined
  BY DEF Reads
<1>2. CASE r.cache[q] = s.cache[q]
  BY <1>1, <1>2 DEF NoneMissed
<1>3. CASE r.cache[q] = IF HasMinedCommitment(s, q) THEN "yes" ELSE "no"
  <2>1. ~HasMinedCommitment(s, q)
    BY <1>3
  <2> QED
    BY <1>1, <2>1, NotMined
<1> QED
  BY <1>2, <1>3 DEF Reads

\* ProcessCommitment for the next commitment of the block
LEMMA GrowsByOne ==
  ASSUME NEW s0 \in State, NEW s \in State, NEW h \in Nat, NEW qcs, NEW n \in Nat,
         qcs[n + 1] \in Commitment, Grown(s0, s, h, qcs, n)
  PROVE Grown(s0, ProcessCommitment(s, h, qcs[n + 1], "write"), h, qcs, n + 1)
<1> DEFINE qc == qcs[n + 1]
           r == ProcessCommitment(s, h, qc, "write")
<1>0. qc \in Commitment
  OBVIOUS
<1>1. /\ \A k \in 1 .. n : k \in 1 .. n + 1
      /\ \A k \in 1 .. n + 1 : k \in 1 .. n \/ k = n + 1
      /\ n + 1 \in 1 .. n + 1
  BY SMTT(30)
<1>2. /\ r \in State
      /\ \/ r = s /\ (~s.ok \/ IsNull(qc))
         \/ ~r.ok /\ Reads(s, r)
         \/ s.ok /\ r.ok /\ Writes(s, r, h, qc) /\ qc \in Verified /\ ~HasMinedCommitment(s, qc.quorum)
  BY <1>0, ProcessIs
<1> SUFFICES Grown(s0, r, h, qcs, n + 1)
  OBVIOUS
<1> HIDE DEF r
<1>3. CASE r = s /\ (~s.ok \/ IsNull(qc))
  BY <1>1, <1>3 DEF Grown
<1>4. CASE ~r.ok /\ Reads(s, r)
  <2>1. r.mined = s.mined /\ r.byHeight = s.byHeight /\ NoneMissed(r)
    BY <1>4, ReadsMissNone DEF Reads, Grown
  <2> QED
    BY <1>1, <1>4, <2>1 DEF Grown
<1>5. CASE s.ok /\ r.ok /\ Writes(s, r, h, qc) /\ qc \in Verified /\ ~HasMinedCommitment(s, qc.quorum)
  <2> DEFINE q0 == qc.quorum
             m == [qc |-> qc, height |-> h]
  <2>1. q0 \in Quorums
    BY <1>0, CommitmentsAre
  <2>2. s.mined[q0] = None
    BY <1>5, <2>1, NotMined DEF Grown
  <2>3. s.mined \in MinedMap /\ s0.mined \in MinedMap /\ r.mined \in MinedMap
        /\ s.cache \in [Quorums -> {"unknown", "yes", "no"}]
    BY <1>2, StateFields
  <2>4. m # None /\ m.qc = qc /\ m.height = h
    BY <1>5, <2>3, WriteTypes
  <2> HIDE DEF m
  <2>5. \A q \in Quorums : r.mined[q] = IF q = q0 THEN m ELSE s.mined[q]
    <3>1. r.mined = [s.mined EXCEPT ![q0] = m]
      BY <1>5 DEF Writes, m
    <3>2. DOMAIN s.mined = Quorums /\ s.mined = [q \in Quorums |-> s.mined[q]]
      BY <2>3 DEF MinedMap
    <3> QED
      BY <2>1, <3>1, <3>2
  <2>6. \A q \in Quorums : s0.mined[q] # None => r.mined[q] = s0.mined[q]
    BY <2>2, <2>5 DEF Grown
  <2>7. ASSUME NEW q \in Quorums, r.mined[q] # s0.mined[q]
        PROVE r.mined[q] # None /\ r.mined[q].height = h /\ \E k \in 1 .. n + 1 : qcs[k] = r.mined[q].qc
    <3>1. CASE q = q0
      BY <1>1, <2>4, <2>5, <3>1
    <3>2. CASE q # q0
      <4>1. r.mined[q] = s.mined[q]
        BY <2>5, <3>2
      <4> QED
        BY <1>1, <2>7, <4>1 DEF Grown
    <3> QED
      BY <3>1, <3>2
  <2>8. ASSUME NEW k \in 1 .. n + 1, ~IsNull(qcs[k])
        PROVE qcs[k] \in Verified /\ r.mined[qcs[k].quorum] = [qc |-> qcs[k], height |-> h]
    <3>1. CASE k = n + 1
      BY <1>5, <2>1, <2>5, <3>1 DEF m
    <3>2. CASE k \in 1 .. n
      <4>1. qcs[k] \in Verified /\ s.mined[qcs[k].quorum] = [qc |-> qcs[k], height |-> h]
        BY <1>5, <2>8, <3>2 DEF Grown
      <4>2. [qc |-> qcs[k], height |-> h] # None /\ qcs[k].quorum \in Quorums
        BY <2>3, <4>1, WriteTypes, CommitmentsAre
      <4>3. qcs[k].quorum # q0
        BY <2>2, <4>1, <4>2
      <4> QED
        BY <2>5, <4>1, <4>2, <4>3
    <3> QED
      BY <1>1, <3>1, <3>2
  <2>9. NoneMissed(r)
    <3>1. \A q \in Quorums : r.cache[q] = IF q = q0 THEN "unknown" ELSE s.cache[q]
      BY <1>5, <2>3 DEF Writes
    <3> QED
      BY <2>5, <3>1 DEF NoneMissed, Grown
  <2>10. Indexed(r.mined, r.byHeight)
    <3>1. r.byHeight = s.byHeight \cup {<<h, q0[2]>>}
      BY <1>5 DEF Writes
    <3>2. Indexed(s.mined, s.byHeight)
      BY DEF Grown
    <3>3. ASSUME NEW x PROVE x \in r.byHeight <=> \E q \in Quorums : r.mined[q] # None /\ x = <<r.mined[q].height, q[2]>>
      <4>1. x \in s.byHeight <=> \E q \in Quorums : s.mined[q] # None /\ x = <<s.mined[q].height, q[2]>>
        BY <3>2 DEF Indexed
      <4>2. ASSUME x \in r.byHeight PROVE \E q \in Quorums : r.mined[q] # None /\ x = <<r.mined[q].height, q[2]>>
        <5>1. CASE x = <<h, q0[2]>>
          <6>1. r.mined[q0] # None /\ r.mined[q0].height = h
            BY <2>1, <2>4, <2>5
          <6> QED
            BY <2>1, <5>1, <6>1
        <5>2. CASE x \in s.byHeight
          BY <2>2, <2>5, <4>1, <5>2
        <5> QED
          BY <3>1, <4>2, <5>1, <5>2
      <4>3. ASSUME NEW q \in Quorums, r.mined[q] # None, x = <<r.mined[q].height, q[2]>> PROVE x \in r.byHeight
        <5>1. CASE q = q0
          BY <2>1, <2>4, <2>5, <3>1, <4>3, <5>1
        <5>2. CASE q # q0
          BY <2>5, <3>1, <4>1, <4>3, <5>2
        <5> QED
          BY <5>1, <5>2
      <4> QED
        BY <4>2, <4>3
    <3> QED
      BY <3>3 DEF Indexed
  <2> QED
    BY <2>6, <2>7, <2>8, <2>9, <2>10 DEF Grown
<1> QED
  BY <1>2, <1>3, <1>4, <1>5

\* A sequence of commitments
LEMMA BlocksAre ==
  /\ \A qcs \in BlockCommitments : qcs \in Seq(Commitment) /\ qcs # None
  /\ \A qcs \in Seq(Commitment) : Len(qcs) \in Nat /\ \A k \in 1 .. Len(qcs) : qcs[k] \in Commitment
  /\ \A qcs \in Seq(Commitment) : DOMAIN qcs = 1 .. Len(qcs)
<1>1. ASSUME NEW qcs \in BlockCommitments PROVE qcs \in Seq(Commitment)
  <2>1. PICK n \in 0 .. MaxPerBlock : qcs \in [1 .. n -> Commitment]
    BY DEF BlockCommitments
  <2>2. n \in Nat
    BY SMTT(30), CommitmentsAssumption
  <2> QED
    BY SMTT(30), <2>1, <2>2
<1>2. \A qcs \in BlockCommitments : qcs # None
  BY NoneAssumption
<1>3. \A qcs \in Seq(Commitment) : Len(qcs) \in Nat /\ \A k \in 1 .. Len(qcs) : qcs[k] \in Commitment
  BY SMTT(30)
<1>4. \A qcs \in Seq(Commitment) : DOMAIN qcs = 1 .. Len(qcs)
  BY SMTT(30)
<1> QED
  BY <1>1, <1>2, <1>3, <1>4

\* The loop of ProcessBlock
LEMMA GrowsByAll ==
  ASSUME NEW s \in State, NEW h \in Nat, NEW qcs \in Seq(Commitment), NoneMissed(s),
         Indexed(s.mined, s.byHeight)
  PROVE LET r == ProcessCommitments(s, h, qcs, "write")[Len(qcs)]
        IN r \in State /\ Grown(s, r, h, qcs, Len(qcs))
<1> DEFINE after == ProcessCommitments(s, h, qcs, "write")
           P(n) == n <= Len(qcs) => after[n] \in State /\ Grown(s, after[n], h, qcs, n)
           S == {n \in Nat : P(n)}
<1>1. Len(qcs) \in Nat /\ \A k \in 1 .. Len(qcs) : qcs[k] \in Commitment
  BY BlocksAre
<1>2. Processes(after, s, h, qcs, "write")
  BY <1>1, ProcessLoop
<1> HIDE DEF after
<1>3. 0 \in S
  <2>1. \A k : k \notin 1 .. 0
    BY SMTT(30)
  <2>2. Grown(s, s, h, qcs, 0)
    BY <2>1 DEF Grown
  <2>3. 0 \in 0 .. Len(qcs)
    BY SMTT(30), <1>1
  <2> QED
    BY <1>2, <2>2, <2>3 DEF Processes
<1>4. ASSUME NEW n \in S PROVE n + 1 \in S
  <2> SUFFICES ASSUME n + 1 <= Len(qcs)
               PROVE after[n + 1] \in State /\ Grown(s, after[n + 1], h, qcs, n + 1)
    BY SMTT(30)
  <2>1. n \in Nat /\ n <= Len(qcs) /\ n + 1 \in 1 .. Len(qcs) /\ n + 1 \in 0 .. Len(qcs)
        /\ (n + 1) - 1 = n /\ n + 1 # 0
    BY SMTT(30), <1>1
  <2>2. after[n] \in State /\ Grown(s, after[n], h, qcs, n)
    BY <2>1
  <2>3. after[n + 1] = ProcessCommitment(after[n], h, qcs[n + 1], "write")
    BY <1>2, <2>1 DEF Processes
  <2>4. qcs[n + 1] \in Commitment
    BY <1>1, <2>1
  <2>5. after[n + 1] \in State
    BY <2>2, <2>3, <2>4, ProcessIs
  <2>6. Grown(s, after[n + 1], h, qcs, n + 1)
    BY <2>1, <2>2, <2>3, <2>4, GrowsByOne
  <2> QED
    BY <2>5, <2>6
<1>5. S = Nat
  <2>1. S \in SUBSET Nat
    OBVIOUS
  <2> HIDE DEF S
  <2> QED
    BY <1>3, <1>4, <2>1, CountUp
<1>6. P(Len(qcs))
  BY <1>1, <1>5
<1>7. Len(qcs) <= Len(qcs)
  BY SMTT(30), <1>1
<1> QED
  BY <1>6, <1>7 DEF after


-----------------------------------------------------------------------------
(***************************************************************************)
(* Disconnecting a block                                                   *)
(***************************************************************************)

\* One of the first n commitments of a block is to quorum q.
CommitsTo(qcs, n, q) == \E k \in 1 .. n : ~IsNull(qcs[k]) /\ qcs[k].quorum = q

\* From s to r the first n commitments of the block at height h were undone.
Undone(s, r, h, qcs, n) ==
  \A q \in Quorums :
    /\ r.mined[q] = IF CommitsTo(qcs, n, q) THEN None ELSE s.mined[q]
    /\ r.cache[q] = IF CommitsTo(qcs, n, q) THEN "unknown" ELSE s.cache[q]

\* The entries of the index by height that are still there
Unindexed(s, r, h, qcs, n) ==
  \A x : x \in r.byHeight <=>
    x \in s.byHeight /\ ~ \E q \in Quorums : CommitsTo(qcs, n, q) /\ x = <<h, q[2]>>

\* UndoBlock for the next commitment of the block
LEMMA UndoesOne ==
  ASSUME NEW s0 \in State, NEW s \in State, NEW h \in Nat, NEW qcs, NEW n \in Nat,
         qcs[n + 1] \in Accepted,
         Undone(s0, s, h, qcs, n), Unindexed(s0, s, h, qcs, n)
  PROVE LET r == UndoCommitment(s, h, qcs[n + 1])
        IN Undone(s0, r, h, qcs, n + 1) /\ Unindexed(s0, r, h, qcs, n + 1)
<1> DEFINE qc == qcs[n + 1]
           q0 == qc.quorum
           r == UndoCommitment(s, h, qc)
<1>0. qc \in Accepted /\ qc \in Commitment
  BY DEF Accepted
<1>1. /\ \A k \in 1 .. n : k \in 1 .. n + 1
      /\ \A k \in 1 .. n + 1 : k \in 1 .. n \/ k = n + 1
      /\ n + 1 \in 1 .. n + 1
  BY SMTT(30)
<1>2. r \in State /\ Removes(s, r, h, qc)
  BY <1>0, UndoIs
<1>3. q0 \in Quorums
  BY <1>0, CommitmentsAre
<1>4. \A q : CommitsTo(qcs, n + 1, q) <=> CommitsTo(qcs, n, q) \/ (~IsNull(qc) /\ q = q0)
  BY <1>1 DEF CommitsTo
<1> SUFFICES Undone(s0, r, h, qcs, n + 1) /\ Unindexed(s0, r, h, qcs, n + 1)
  OBVIOUS
<1> HIDE DEF r
<1>5. CASE IsNull(qc)
  BY <1>2, <1>4, <1>5 DEF Undone, Unindexed, Removes
<1>6. CASE ~IsNull(qc)
  <2>1. DOMAIN s.mined = Quorums /\ DOMAIN s.cache = Quorums
    BY StateFields DEF MinedMap
  <2>2. ASSUME NEW q \in Quorums
        PROVE /\ r.mined[q] = IF q = q0 THEN None ELSE s.mined[q]
              /\ r.cache[q] = IF q = q0 THEN "unknown" ELSE s.cache[q]
    BY <1>2, <1>3, <1>6, <2>1 DEF Removes
  <2>3. Undone(s0, r, h, qcs, n + 1)
    BY <1>4, <1>6, <2>2 DEF Undone
  <2>4. ASSUME NEW x
        PROVE x \in r.byHeight <=>
                x \in s0.byHeight /\ ~ \E q \in Quorums : CommitsTo(qcs, n + 1, q) /\ x = <<h, q[2]>>
    <3>1. x \in r.byHeight <=> x \in s.byHeight /\ x # <<h, q0[2]>>
      BY <1>2, <1>6 DEF Removes
    <3>2. x \in s.byHeight <=>
            x \in s0.byHeight /\ ~ \E q \in Quorums : CommitsTo(qcs, n, q) /\ x = <<h, q[2]>>
      BY DEF Unindexed
    <3> QED
      BY <1>3, <1>4, <1>6, <3>1, <3>2
  <2> QED
    BY <2>3, <2>4 DEF Unindexed
<1> QED
  BY <1>5, <1>6

\* The loop of UndoBlock
LEMMA UndoesAll ==
  ASSUME NEW s \in State, NEW h \in Nat, NEW qcs \in Seq(Commitment),
         \A k \in 1 .. Len(qcs) : qcs[k] \in Accepted
  PROVE LET r == UndoCommitments(s, h, qcs)[Len(qcs)]
        IN r \in State /\ Undone(s, r, h, qcs, Len(qcs)) /\ Unindexed(s, r, h, qcs, Len(qcs))
<1> DEFINE after == UndoCommitments(s, h, qcs)
           P(n) == n <= Len(qcs) =>
                     /\ after[n] \in State
                     /\ Undone(s, after[n], h, qcs, n) /\ Unindexed(s, after[n], h, qcs, n)
           S == {n \in Nat : P(n)}
<1>1. Len(qcs) \in Nat
  BY BlocksAre
<1>2. Undoes(after, s, h, qcs)
  BY <1>1, UndoLoop
<1> HIDE DEF after
<1>3. 0 \in S
  <2>1. \A k : k \notin 1 .. 0
    BY SMTT(30)
  <2>2. Undone(s, s, h, qcs, 0) /\ Unindexed(s, s, h, qcs, 0)
    BY <2>1 DEF Undone, Unindexed, CommitsTo
  <2> QED
    BY <1>2, <2>2 DEF Undoes
<1>4. ASSUME NEW n \in S PROVE n + 1 \in S
  <2> SUFFICES ASSUME n + 1 <= Len(qcs) PROVE P(n + 1)
    BY SMTT(30)
  <2>1. n \in Nat /\ n <= Len(qcs) /\ n + 1 \in 1 .. Len(qcs) /\ (n + 1) - 1 = n
    BY SMTT(30), <1>1
  <2>2. after[n] \in State /\ Undone(s, after[n], h, qcs, n) /\ Unindexed(s, after[n], h, qcs, n)
    BY <2>1
  <2>3. after[n + 1] = UndoCommitment(after[n], h, qcs[n + 1])
    BY <1>2, <2>1 DEF Undoes
  <2>4. qcs[n + 1] \in Accepted
    BY <2>1
  <2>5. after[n + 1] \in State
    BY <2>2, <2>3, <2>4, UndoIs
  <2>6. Undone(s, after[n + 1], h, qcs, n + 1) /\ Unindexed(s, after[n + 1], h, qcs, n + 1)
    <3>1. LET r == UndoCommitment(after[n], h, qcs[n + 1])
          IN Undone(s, r, h, qcs, n + 1) /\ Unindexed(s, r, h, qcs, n + 1)
      BY <2>1, <2>2, <2>4, UndoesOne
    <3> QED
      BY <2>3, <3>1
  <2> QED
    BY <2>5, <2>6
<1>5. S = Nat
  <2>1. S \in SUBSET Nat
    OBVIOUS
  <2> HIDE DEF S
  <2> QED
    BY <1>3, <1>4, <2>1, CountUp
<1>6. P(Len(qcs))
  BY <1>1, <1>5
<1>7. Len(qcs) <= Len(qcs)
  BY SMTT(30), <1>1
<1> QED
  BY <1>6, <1>7 DEF after

-----------------------------------------------------------------------------
(***************************************************************************)
(* The database and the chain                                              *)
(***************************************************************************)

Chains == Seq(Seq(Commitment))

\* The commitments that the database calls mined are the ones in the blocks of V.
OnChain(V, M) ==
  /\ \A q \in Quorums : M[q] # None =>
       \E h \in 1 .. Len(V) : M[q].height = h /\ \E k \in 1 .. Len(V[h]) : V[h][k] = M[q].qc
  /\ \A h \in 1 .. Len(V) : \A k \in 1 .. Len(V[h]) : ~IsNull(V[h][k]) =>
       V[h][k] \in Verified /\ M[V[h][k].quorum] = [qc |-> V[h][k], height |-> h]

\* One height more or less
LEMMA HeightsAre ==
  ASSUME NEW n \in Nat
  PROVE /\ \A h \in 1 .. n + 1 : h \in 1 .. n \/ h = n + 1
        /\ n + 1 \in 1 .. n + 1 /\ n + 1 \in Nat
        /\ n # 0 => /\ n \in 1 .. n
                    /\ \A h \in 1 .. n : h \in 1 .. n - 1 \/ h = n
                    /\ \A h \in 1 .. n - 1 : h \in 1 .. n /\ h # n
  BY SMTT(30)

\* The heights of a chain and of the chain with one block more or less
LEMMA ChainsAre ==
  ASSUME NEW V \in Chains
  PROVE /\ Len(V) \in Nat
        /\ DOMAIN V = 1 .. Len(V)
        /\ \A h \in 1 .. Len(V) : h \in Nat /\ V[h] \in Seq(Commitment)
        /\ \A b \in Seq(Commitment) :
             /\ Append(V, b) \in Chains
             /\ Len(Append(V, b)) = Len(V) + 1
             /\ \A h \in 1 .. Len(V) : Append(V, b)[h] = V[h] /\ h \in 1 .. Len(V) + 1 /\ h # Len(V) + 1
             /\ Append(V, b)[Len(V) + 1] = b
             /\ \A h \in 1 .. Len(V) + 1 : h \in 1 .. Len(V) \/ h = Len(V) + 1
             /\ Len(V) + 1 \in 1 .. Len(V) + 1 /\ Len(V) + 1 \in Nat
        /\ V # <<>> =>
             /\ Len(V) \in 1 .. Len(V)
             /\ SubSeq(V, 1, Len(V) - 1) \in Chains
             /\ Len(SubSeq(V, 1, Len(V) - 1)) = Len(V) - 1
             /\ \A h \in 1 .. Len(V) - 1 :
                  SubSeq(V, 1, Len(V) - 1)[h] = V[h] /\ h \in 1 .. Len(V) /\ h # Len(V)
             /\ \A h \in 1 .. Len(V) : h \in 1 .. Len(V) - 1 \/ h = Len(V)
<1> USE DEF Chains
<1>1. Len(V) \in Nat /\ DOMAIN V = 1 .. Len(V)
  BY SMTT(30)
<1>2. \A h \in 1 .. Len(V) : h \in Nat /\ V[h] \in Seq(Commitment)
  BY SMTT(30)
<1>3. ASSUME NEW b \in Seq(Commitment)
      PROVE /\ Append(V, b) \in Chains
            /\ Len(Append(V, b)) = Len(V) + 1
            /\ \A h \in 1 .. Len(V) : Append(V, b)[h] = V[h] /\ h \in 1 .. Len(V) + 1 /\ h # Len(V) + 1
            /\ Append(V, b)[Len(V) + 1] = b
            /\ \A h \in 1 .. Len(V) + 1 : h \in 1 .. Len(V) \/ h = Len(V) + 1
            /\ Len(V) + 1 \in 1 .. Len(V) + 1 /\ Len(V) + 1 \in Nat
  <2>1. Append(V, b) \in Chains /\ Len(Append(V, b)) = Len(V) + 1 /\ Append(V, b)[Len(V) + 1] = b
    BY SMTT(30)
  <2>2. \A h \in 1 .. Len(V) : Append(V, b)[h] = V[h] /\ h \in 1 .. Len(V) + 1 /\ h # Len(V) + 1
    BY SMTT(30)
  <2>3. /\ \A h \in 1 .. Len(V) + 1 : h \in 1 .. Len(V) \/ h = Len(V) + 1
        /\ Len(V) + 1 \in 1 .. Len(V) + 1 /\ Len(V) + 1 \in Nat
    BY <1>1, HeightsAre
  <2> QED
    BY <2>1, <2>2, <2>3
<1>4. ASSUME V # <<>>
      PROVE /\ Len(V) \in 1 .. Len(V)
            /\ SubSeq(V, 1, Len(V) - 1) \in Chains
            /\ Len(SubSeq(V, 1, Len(V) - 1)) = Len(V) - 1
            /\ \A h \in 1 .. Len(V) - 1 :
                 SubSeq(V, 1, Len(V) - 1)[h] = V[h] /\ h \in 1 .. Len(V) /\ h # Len(V)
            /\ \A h \in 1 .. Len(V) : h \in 1 .. Len(V) - 1 \/ h = Len(V)
  <2>1. Len(V) # 0
    BY SMTT(30), <1>4, EmptySeq
  <2>2. /\ Len(V) \in 1 .. Len(V) /\ \A h \in 1 .. Len(V) : h \in 1 .. Len(V) - 1 \/ h = Len(V)
        /\ \A h \in 1 .. Len(V) - 1 : h \in 1 .. Len(V) /\ h # Len(V)
    BY <1>1, <2>1, HeightsAre
  <2>3. /\ SubSeq(V, 1, Len(V) - 1) \in Chains
        /\ Len(SubSeq(V, 1, Len(V) - 1)) = Len(V) - 1
        /\ \A h \in 1 .. Len(V) - 1 : SubSeq(V, 1, Len(V) - 1)[h] = V[h]
    BY <1>1, <2>1, SubSeqProperties, SMTT(30)
  <2> QED
    BY <2>2, <2>3
<1> QED
  BY <1>1, <1>2, <1>3, <1>4

\* ConnectTip: a block is added.
LEMMA ChainGrows ==
  ASSUME NEW V \in Chains, NEW b \in Seq(Commitment), NEW s, NEW r, r.ok,
         OnChain(V, s.mined), Grown(s, r, Len(V) + 1, b, Len(b))
  PROVE OnChain(Append(V, b), r.mined)
<1> DEFINE W == Append(V, b)
           n == Len(V) + 1
<1>1. /\ Len(W) = n /\ W[n] = b /\ n \in 1 .. n
      /\ \A h \in 1 .. Len(V) : W[h] = V[h] /\ h \in 1 .. n
      /\ \A h \in 1 .. n : h \in 1 .. Len(V) \/ h = n
  BY ChainsAre
<1> SUFFICES OnChain(W, r.mined)
  OBVIOUS
<1>2. Grown(s, r, n, b, Len(b))
  OBVIOUS
<1> HIDE DEF W, n
<1>3. ASSUME NEW q \in Quorums, r.mined[q] # None
      PROVE \E h \in 1 .. n : r.mined[q].height = h /\ \E k \in 1 .. Len(W[h]) : W[h][k] = r.mined[q].qc
  <2>1. CASE r.mined[q] = s.mined[q]
    <3>1. PICK h \in 1 .. Len(V) : s.mined[q].height = h /\ \E k \in 1 .. Len(V[h]) : V[h][k] = s.mined[q].qc
      BY <1>3, <2>1 DEF OnChain
    <3>2. W[h] = V[h] /\ h \in 1 .. n
      BY <1>1
    <3> QED
      BY <2>1, <3>1, <3>2
  <2>2. CASE r.mined[q] # s.mined[q]
    BY <1>1, <1>2, <2>2 DEF Grown
  <2> QED
    BY <2>1, <2>2
<1>4. ASSUME NEW h \in 1 .. n, NEW k \in 1 .. Len(W[h]), ~IsNull(W[h][k])
      PROVE W[h][k] \in Verified /\ r.mined[W[h][k].quorum] = [qc |-> W[h][k], height |-> h]
  <2>1. CASE h \in 1 .. Len(V)
    <3>1. W[h] = V[h]
      BY <1>1, <2>1
    <3>2. W[h][k] \in Verified /\ s.mined[W[h][k].quorum] = [qc |-> W[h][k], height |-> h]
      BY <1>4, <2>1, <3>1 DEF OnChain
    <3>3. W[h][k].quorum \in Quorums
      BY <3>2, CommitmentsAre
    <3>4. [qc |-> W[h][k], height |-> h] # None
      <4>1. h \in Nat
        BY <2>1, ChainsAre
      <4> QED
        BY <3>2, <4>1, RecordIs
    <3> QED
      BY <1>2, <3>2, <3>3, <3>4 DEF Grown
  <2>2. CASE h = n
    BY <1>1, <1>2, <1>4, <2>2 DEF Grown
  <2> QED
    BY <1>1, <2>1, <2>2
<1> QED
  BY <1>1, <1>3, <1>4 DEF OnChain

\* DisconnectTip: the last block is removed.
LEMMA ChainShrinks ==
  ASSUME NEW V \in Chains, V # <<>>, NEW s \in State, NEW r \in State,
         OnChain(V, s.mined), Indexed(s.mined, s.byHeight),
         Undone(s, r, Len(V), V[Len(V)], Len(V[Len(V)])),
         Unindexed(s, r, Len(V), V[Len(V)], Len(V[Len(V)]))
  PROVE OnChain(SubSeq(V, 1, Len(V) - 1), r.mined) /\ Indexed(r.mined, r.byHeight)
<1> DEFINE W == SubSeq(V, 1, Len(V) - 1)
           n == Len(V)
           b == V[n]
           Here(q) == CommitsTo(b, Len(b), q)
<1>1. /\ n \in Nat /\ n \in 1 .. n /\ Len(W) = n - 1
      /\ \A h \in 1 .. n - 1 : W[h] = V[h] /\ h \in 1 .. n /\ h # n
      /\ \A h \in 1 .. n : h \in 1 .. n - 1 \/ h = n
  BY ChainsAre
<1>2. s.mined \in MinedMap
  BY StateFields
<1>3. ASSUME NEW q \in Quorums PROVE Here(q) <=> s.mined[q] # None /\ s.mined[q].height = n
  <2>1. ASSUME Here(q) PROVE s.mined[q] # None /\ s.mined[q].height = n
    <3>1. PICK k \in 1 .. Len(b) : ~IsNull(b[k]) /\ b[k].quorum = q
      BY <2>1 DEF CommitsTo
    <3>2. b[k] \in Verified /\ s.mined[q] = [qc |-> b[k], height |-> n]
      BY <1>1, <3>1 DEF OnChain
    <3>3. [qc |-> b[k], height |-> n] # None /\ [qc |-> b[k], height |-> n].height = n
      BY <1>1, <3>2, RecordIs
    <3> HIDE DEF b, n
    <3> QED
      BY <3>2, <3>3
  <2>2. ASSUME s.mined[q] # None, s.mined[q].height = n PROVE Here(q)
    <3>1. PICK k \in 1 .. Len(b) : b[k] = s.mined[q].qc
      BY <1>1, <2>2 DEF OnChain
    <3>2. b[k].quorum = q /\ b[k] \in Verified
      BY <1>2, <2>2, <3>1 DEF MinedMap, MinedCommitment
    <3> QED
      BY <3>1, <3>2, CommitmentsAre DEF CommitsTo
  <2> QED
    BY <2>1, <2>2
<1>4. \A q \in Quorums : r.mined[q] = IF Here(q) THEN None ELSE s.mined[q]
  BY DEF Undone
<1>5. \A x : x \in r.byHeight <=> x \in s.byHeight /\ ~ \E q \in Quorums : Here(q) /\ x = <<n, q[2]>>
  BY DEF Unindexed
<1> SUFFICES OnChain(W, r.mined) /\ Indexed(r.mined, r.byHeight)
  OBVIOUS
<1>6. OnChain(V, s.mined)
  OBVIOUS
<1> HIDE DEF W, n, Here
<1>7. ASSUME NEW q \in Quorums, r.mined[q] # None
      PROVE \E h \in 1 .. n - 1 : r.mined[q].height = h /\ \E k \in 1 .. Len(W[h]) : W[h][k] = r.mined[q].qc
  <2>1. r.mined[q] = s.mined[q] /\ s.mined[q] # None /\ s.mined[q].height # n
    BY <1>3, <1>4, <1>7
  <2>2. PICK h \in 1 .. n : s.mined[q].height = h /\ \E k \in 1 .. Len(V[h]) : V[h][k] = s.mined[q].qc
    BY <1>6, <2>1 DEF OnChain, n
  <2>3. h \in 1 .. n - 1 /\ W[h] = V[h]
    BY <1>1, <2>1, <2>2
  <2> QED
    BY <2>1, <2>2, <2>3
<1>8. ASSUME NEW h \in 1 .. n - 1, NEW k \in 1 .. Len(W[h]), ~IsNull(W[h][k])
      PROVE W[h][k] \in Verified /\ r.mined[W[h][k].quorum] = [qc |-> W[h][k], height |-> h]
  <2> DEFINE m == [qc |-> W[h][k], height |-> h]
             q == W[h][k].quorum
  <2>1. W[h] = V[h] /\ h \in 1 .. n /\ h # n
    BY <1>1
  <2>2. W[h][k] \in Verified /\ s.mined[q] = m
    BY <1>6, <1>8, <2>1 DEF OnChain, n
  <2>3. q \in Quorums
    BY <2>2, CommitmentsAre
  <2>4. m.height = h
    OBVIOUS
  <2>5. ~Here(q)
    BY <1>3, <2>1, <2>2, <2>3, <2>4
  <2> QED
    BY <1>4, <2>2, <2>3, <2>5
<1>9. OnChain(W, r.mined)
  BY <1>1, <1>7, <1>8 DEF OnChain
<1>10. ASSUME NEW x PROVE x \in r.byHeight <=> \E q \in Quorums : r.mined[q] # None /\ x = <<r.mined[q].height, q[2]>>
  <2>1. x \in s.byHeight <=> \E q \in Quorums : s.mined[q] # None /\ x = <<s.mined[q].height, q[2]>>
    BY DEF Indexed
  <2>2. ASSUME x \in r.byHeight PROVE \E q \in Quorums : r.mined[q] # None /\ x = <<r.mined[q].height, q[2]>>
    <3>1. PICK q \in Quorums : s.mined[q] # None /\ x = <<s.mined[q].height, q[2]>>
      BY <1>5, <2>1, <2>2
    <3>2. ~Here(q)
      BY <1>3, <1>5, <2>2, <3>1
    <3> QED
      BY <1>4, <3>1, <3>2
  <2>3. ASSUME NEW q \in Quorums, r.mined[q] # None, x = <<r.mined[q].height, q[2]>> PROVE x \in r.byHeight
    <3>1. ~Here(q) /\ r.mined[q] = s.mined[q]
      BY <1>4, <2>3
    <3>2. s.mined[q].height # n
      BY <1>3, <2>3, <3>1
    <3>3. ASSUME NEW p, x = <<n, p[2]>> PROVE FALSE
      <4>1. <<r.mined[q].height, q[2]>> = <<n, p[2]>>
        BY <2>3, <3>3
      <4>2. r.mined[q].height = n
        BY <4>1
      <4> QED
        BY <3>1, <3>2, <4>2
    <3> QED
      BY <1>5, <2>1, <2>3, <3>1, <3>3
  <2> QED
    BY <2>2, <2>3
<1> QED
  BY <1>9, <1>10 DEF Indexed

-----------------------------------------------------------------------------
(***************************************************************************)
(* Types                                                                   *)
(***************************************************************************)

\* The blocks that are connected
AcceptedBlock == {qcs \in BlockCommitments : \A k \in 1 .. Len(qcs) : qcs[k] \in Accepted}

TypeInv ==
  /\ base \in Bases \cup {None}
  /\ chain \in Seq(AcceptedBlock)
  /\ Now \in State
  /\ connecting \in AcceptedBlock \cup {None}
  /\ connecting # None => saved[1] \in MinedMap /\ saved[2] \in SUBSET (Nat \X Indexes)
  /\ received \in Verified \cup {None}
  /\ getQuorum \in [Threads -> MinedRead \cup {None}]
  /\ failures \in 0 .. MaxFailures

\* The record of the node's state
LEMMA NowIs ==
  ASSUME NEW m, NEW b, NEW c, NEW n, NEW p
  PROVE LET s == [ok |-> TRUE, mined |-> m, byHeight |-> b, cache |-> c, minable |-> n, byQuorum |-> p]
        IN /\ s.ok /\ s.mined = m /\ s.byHeight = b /\ s.cache = c /\ s.minable = n /\ s.byQuorum = p
           /\ s \in State <=>
                /\ m \in MinedMap /\ b \in SUBSET (Nat \X Indexes)
                /\ c \in [Quorums -> {"unknown", "yes", "no"}]
                /\ n \in SUBSET Verified /\ p \in ByQuorumMap
  BY DEF State

\* The fields of the node's state
LEMMA NowFields ==
  /\ Now.ok /\ Now.mined = mined /\ Now.byHeight = byHeight /\ Now.cache = hasMinedCommitmentCache
  /\ Now.minable = minableCommitments /\ Now.byQuorum = minableCommitmentsByQuorum
  /\ Now \in State <=>
       /\ mined \in MinedMap /\ byHeight \in SUBSET (Nat \X Indexes)
       /\ hasMinedCommitmentCache \in [Quorums -> {"unknown", "yes", "no"}]
       /\ minableCommitments \in SUBSET Verified /\ minableCommitmentsByQuorum \in ByQuorumMap
BY NowIs DEF Now

\* ... and of the next one
LEMMA NextFields ==
  /\ Now'.ok /\ Now'.mined = mined' /\ Now'.byHeight = byHeight' /\ Now'.cache = hasMinedCommitmentCache'
  /\ Now'.minable = minableCommitments' /\ Now'.byQuorum = minableCommitmentsByQuorum'
  /\ Now' \in State <=>
       /\ mined' \in MinedMap /\ byHeight' \in SUBSET (Nat \X Indexes)
       /\ hasMinedCommitmentCache' \in [Quorums -> {"unknown", "yes", "no"}]
       /\ minableCommitments' \in SUBSET Verified /\ minableCommitmentsByQuorum' \in ByQuorumMap
BY NowIs DEF Now

\* The step that leaves the node in state st
LEMMA BecomesState ==
  ASSUME NEW st, Becomes(st)
  PROVE /\ Now'.mined = st.mined /\ Now'.byHeight = st.byHeight /\ Now'.cache = st.cache
        /\ Now'.minable = st.minable /\ Now'.byQuorum = st.byQuorum
        /\ st \in State => Now' \in State
<1>1. /\ Now'.mined = st.mined /\ Now'.byHeight = st.byHeight /\ Now'.cache = st.cache
      /\ Now'.minable = st.minable /\ Now'.byQuorum = st.byQuorum
  BY NextFields DEF Becomes
<1>2. ASSUME st \in State PROVE Now' \in State
  BY <1>2, NextFields, StateFields DEF Becomes
<1> QED
  BY <1>1, <1>2

\* ProcessBlock leaves a state; the commitments of a block that it connects verify.
LEMMA ProcessBlockState ==
  ASSUME NEW s \in State, Height \in Nat, NEW qcs \in Seq(Commitment), NEW j \in {"check", "write"}
  PROVE LET r == ProcessBlock(s, qcs, j)
        IN r \in State /\ (j = "write" /\ r.ok => \A k \in 1 .. Len(qcs) : qcs[k] \in Accepted)
<1> DEFINE h == Height + 1
           a == AskedAll(s, h)
           after == ProcessCommitments(a, h, qcs, j)
           Good(r, n) == j = "write" /\ r.ok => \A k \in 1 .. n : qcs[k] \in Accepted
           P(n) == n <= Len(qcs) => after[n] \in State /\ Good(after[n], n)
           S == {n \in Nat : P(n)}
<1>0. h \in Nat
  BY SMTT(30)
<1>1. Len(qcs) \in Nat /\ \A k \in 1 .. Len(qcs) : qcs[k] \in Commitment
  BY BlocksAre
<1>2. a \in State
  BY AskedAllReads
<1>3. Invalid(s) \in State /\ Invalid(a) \in State /\ ~Invalid(s).ok /\ ~Invalid(a).ok
  <2> HIDE DEF a
  <2> QED
    BY <1>2, SetOk DEF Invalid
<1>4. Processes(after, a, h, qcs, j)
  <2> HIDE DEF a, h
  <2> QED
    BY <1>1, ProcessLoop
<1>5. ProcessBlock(s, qcs, j) \in {Invalid(s), Invalid(a), after[Len(qcs)]}
  BY DEF ProcessBlock
<1> HIDE DEF a, h, after
<1>6. 0 \in S
  <2>1. \A k : k \notin 1 .. 0
    BY SMTT(30)
  <2> QED
    BY <1>2, <1>4, <2>1 DEF Processes
<1>7. ASSUME NEW n \in S PROVE n + 1 \in S
  <2> SUFFICES ASSUME n + 1 <= Len(qcs) PROVE after[n + 1] \in State /\ Good(after[n + 1], n + 1)
    BY SMTT(30)
  <2>1. n \in Nat /\ n <= Len(qcs) /\ n + 1 \in 1 .. Len(qcs) /\ (n + 1) - 1 = n
        /\ \A k \in 1 .. n + 1 : k \in 1 .. n \/ k = n + 1
    BY SMTT(30), <1>1
  <2>2. after[n] \in State /\ Good(after[n], n) /\ qcs[n + 1] \in Commitment
    BY <1>1, <2>1
  <2> DEFINE r == ProcessCommitment(after[n], h, qcs[n + 1], j)
  <2>3. after[n + 1] = r
    BY <1>4, <2>1 DEF Processes
  <2>4. /\ r \in State
        /\ \/ r = after[n] /\ (~after[n].ok \/ IsNull(qcs[n + 1]))
           \/ ~r.ok
           \/ j = "check"
           \/ after[n].ok /\ qcs[n + 1] \in Verified
    BY <1>0, <2>2, ProcessIs
  <2> HIDE DEF r
  <2>5. Good(r, n + 1)
    <3> SUFFICES ASSUME j = "write", r.ok, NEW k \in 1 .. n + 1 PROVE qcs[k] \in Accepted
      OBVIOUS
    <3>1. after[n].ok /\ (IsNull(qcs[n + 1]) \/ qcs[n + 1] \in Verified)
      BY <2>4
    <3>2. CASE k \in 1 .. n
      BY <2>2, <3>1, <3>2
    <3>3. CASE k = n + 1
      BY <2>2, <3>1, <3>3 DEF Accepted
    <3> QED
      BY <2>1, <3>2, <3>3
  <2> QED
    BY <2>3, <2>4, <2>5
<1>8. S = Nat
  <2>1. S \in SUBSET Nat
    OBVIOUS
  <2> HIDE DEF S
  <2> QED
    BY <1>6, <1>7, <2>1, CountUp
<1>9. Len(qcs) <= Len(qcs)
  BY SMTT(30), <1>1
<1> QED
  BY <1>1, <1>3, <1>5, <1>8, <1>9

-----------------------------------------------------------------------------
(***************************************************************************)
(* The block that the node would mine                                      *)
(***************************************************************************)

\* The members of a finite set can be listed.
LEMMA ListedIs ==
  ASSUME NEW S, IsFiniteSet(S)
  PROVE Cardinality(S) \in Nat /\ Listed(S) \in [1 .. Cardinality(S) -> S]
<1>1. Cardinality(S) \in Nat /\ ExistsBijection(1 .. Cardinality(S), S)
  BY FS_CardinalityType
<1>2. PICK f : f \in Bijection(1 .. Cardinality(S), S)
  BY <1>1 DEF ExistsBijection
<1>3. f \in [1 .. Cardinality(S) -> S] /\ \A i, j \in DOMAIN f : f[i] = f[j] => i = j
  BY <1>2 DEF Bijection, Injection, IsInjective
<1> QED
  BY <1>1, <1>3 DEF Listed

LEMMA IndexesAre ==
  /\ IsFiniteSet(Indexes) /\ (~Rotation => Indexes = {0})
  /\ \A i \in Indexes : base \in Bases => QuorumAt(i) \in Quorums
<1>1. IsFiniteSet(Indexes)
  <2>1. QuorumsNum - 1 \in Int /\ 0 \in Int
    BY SMTT(30), CommitmentsAssumption
  <2>2. IsFiniteSet(0 .. QuorumsNum - 1)
    BY <2>1, FS_Interval
  <2> QED
    BY <2>2, FS_Singleton DEF Indexes
<1> QED
  BY <1>1 DEF Indexes, Quorums, QuorumAt

\* GetMineableCommitments: a commitment, null if the node has none, for each quorum
\* that the next block needs one for
LEMMA MineableIs ==
  ASSUME base \in Bases, Now \in State
  PROVE LET G == GetMineableCommitments
            R == Required(Now, Height + 1)
        IN /\ IsFiniteSet(R) /\ Cardinality(R) \in Nat
           /\ G \in Seq(Commitment) /\ Len(G) = Cardinality(R)
           /\ \A k \in 1 .. Len(G) : G[k] \in Accepted /\ \E i \in R : G[k].quorum = QuorumAt(i)
<1> DEFINE R == Required(Now, Height + 1)
           L == Listed(R)
           E(i) == IF minableCommitmentsByQuorum[QuorumAt(i)] = None
                   THEN Null(QuorumAt(i))
                   ELSE minableCommitmentsByQuorum[QuorumAt(i)]
           G == [k \in DOMAIN L |-> E(L[k])]
<1>1. GetMineableCommitments = G
  BY DEF GetMineableCommitments
<1>2. R \in SUBSET Indexes
  BY DEF Required
<1>3. IsFiniteSet(R)
  BY <1>2, IndexesAre, FS_Subset
<1> HIDE DEF R
<1>4. Cardinality(R) \in Nat /\ L \in [1 .. Cardinality(R) -> R]
  BY <1>3, ListedIs
<1> HIDE DEF L
<1>5. minableCommitmentsByQuorum \in ByQuorumMap
  BY NowFields
<1>6. ASSUME NEW i \in R PROVE E(i) \in Accepted /\ E(i) \in Commitment /\ E(i).quorum = QuorumAt(i)
  <2>1. QuorumAt(i) \in Quorums
    BY <1>2, IndexesAre
  <2>2. CASE minableCommitmentsByQuorum[QuorumAt(i)] = None
    BY <2>1, <2>2, CommitmentsAre DEF Accepted
  <2>3. CASE minableCommitmentsByQuorum[QuorumAt(i)] # None
    <3>1. E(i) \in Verified /\ E(i).quorum = QuorumAt(i)
      BY <1>5, <2>1, <2>3 DEF ByQuorumMap
    <3> HIDE DEF E
    <3> QED
      BY <3>1, CommitmentsAre DEF Accepted
  <2> QED
    BY <2>2, <2>3
<1>7. \A k \in 1 .. Cardinality(R) : L[k] \in R
  BY <1>4
<1>8. DOMAIN L = 1 .. Cardinality(R)
  BY <1>4
<1> HIDE DEF E
<1>9. G \in [1 .. Cardinality(R) -> Commitment] /\ \A k \in 1 .. Cardinality(R) : G[k] = E(L[k])
  BY <1>6, <1>7, <1>8
<1> HIDE DEF G
<1>10. G \in Seq(Commitment) /\ Len(G) = Cardinality(R)
  BY SMTT(30), <1>4, <1>9
<1>11. ASSUME NEW k \in 1 .. Len(G) PROVE G[k] \in Accepted /\ \E i \in R : G[k].quorum = QuorumAt(i)
  <2>1. k \in 1 .. Cardinality(R)
    BY <1>10
  <2>2. L[k] \in R /\ G[k] = E(L[k])
    BY <1>7, <1>9, <2>1
  <2> QED
    BY <1>6, <2>2
<1> QED
  BY <1>1, <1>3, <1>4, <1>10, <1>11 DEF R

\* ProcessBlock accepts the block of GetMineableCommitments, and writes nothing.
LEMMA MineableAccepted ==
  ASSUME base \in Bases, Now \in State, Height \in Nat
  PROVE LET r == ProcessBlock(Now, GetMineableCommitments, "check")
        IN r \in State /\ r.ok /\ Reads(Now, r)
<1> DEFINE h == Height + 1
           R == Required(Now, h)
           G == GetMineableCommitments
           a == AskedAll(Now, h)
           after == ProcessCommitments(a, h, G, "check")
           P(n) == n <= Len(G) => after[n] \in State /\ after[n].ok /\ Reads(Now, after[n])
           S == {n \in Nat : P(n)}
<1>0. h \in Nat
  BY SMTT(30)
<1>1. /\ IsFiniteSet(R) /\ Cardinality(R) \in Nat
      /\ G \in Seq(Commitment) /\ Len(G) = Cardinality(R)
      /\ \A k \in 1 .. Len(G) : G[k] \in Accepted /\ \E i \in R : G[k].quorum = QuorumAt(i)
  BY MineableIs
<1>2. a \in State /\ Reads(Now, a) /\ a.ok
  BY AskedAllReads, NowFields
<1>3. \A i \in R : IsMiningPhase(h) /\ QuorumAt(i) \in Quorums /\ ~HasMinedCommitment(Now, QuorumAt(i))
  BY IndexesAre DEF Required
<1>4. ~(~Rotation /\ Len(G) > 1)
  <2>1. ASSUME ~Rotation PROVE Cardinality(R) <= 1
    <3>1. Indexes = {0} /\ IsFiniteSet({0}) /\ Cardinality({0}) = 1
      BY <2>1, IndexesAre, FS_Singleton
    <3>2. R \in SUBSET {0}
      BY <3>1 DEF Required
    <3> HIDE DEF R
    <3> QED
      BY <3>1, <3>2, FS_Subset
  <2> HIDE DEF R, G
  <2> QED
    BY SMTT(30), <1>1, <2>1
<1>5. ProcessBlock(Now, G, "check") = after[Len(G)]
  BY <1>1, <1>4 DEF ProcessBlock
<1>6. Processes(after, a, h, G, "check")
  <2>1. Len(G) \in Nat
    BY <1>1
  <2> HIDE DEF a, h, G
  <2> QED
    BY <2>1, ProcessLoop
<1> SUFFICES after[Len(G)] \in State /\ after[Len(G)].ok /\ Reads(Now, after[Len(G)])
  BY <1>5
<1> HIDE DEF a, h, after, G, R
<1>7. 0 \in S
  BY <1>2, <1>6 DEF Processes
<1>8. ASSUME NEW n \in S PROVE n + 1 \in S
  <2> SUFFICES ASSUME n + 1 <= Len(G) PROVE after[n + 1] \in State /\ after[n + 1].ok /\ Reads(Now, after[n + 1])
    BY SMTT(30)
  <2>1. n \in Nat /\ n <= Len(G) /\ n + 1 \in 1 .. Len(G) /\ (n + 1) - 1 = n
    BY SMTT(30), <1>1
  <2>2. after[n] \in State /\ after[n].ok /\ Reads(Now, after[n])
    BY <2>1
  <2> DEFINE s == after[n]
             qc == G[n + 1]
             r == ProcessCommitment(s, h, qc, "check")
  <2>3. after[n + 1] = r
    BY <1>6, <2>1 DEF Processes
  <2>4. qc \in Accepted /\ qc \in Commitment /\ \E i \in R : qc.quorum = QuorumAt(i)
    BY <1>1, <2>1 DEF Accepted
  <2>5. IsMiningPhase(h) /\ qc.quorum \in Quorums /\ ~HasMinedCommitment(Now, qc.quorum)
    BY <1>3, <2>4
  <2> HIDE DEF s, qc
  <2>6. ~HasMinedCommitment(s, qc.quorum)
    BY <2>2, <2>5, ReadsReturns DEF s
  <2>7. /\ r \in State
        /\ \/ r = s /\ (~s.ok \/ IsNull(qc))
           \/ /\ s.ok /\ ~IsNull(qc) /\ ~r.ok /\ Reads(s, r)
              /\ HasMinedCommitment(s, qc.quorum) \/ ~IsMiningPhase(h) \/ ~qc.sigs
           \/ s.ok /\ ~IsNull(qc) /\ r.ok /\ Reads(s, r)
    BY <1>0, <2>2, <2>4, ProcessIs DEF s
  <2>8. IsNull(qc) \/ qc.sigs
    BY <2>4, CommitmentsAre DEF Accepted
  <2> HIDE DEF r
  <2>9. r \in State /\ r.ok /\ (r = s \/ Reads(s, r))
    BY <2>2, <2>5, <2>6, <2>7, <2>8 DEF s
  <2>10. Reads(Now, r)
    BY <2>2, <2>9, ReadsTwice DEF s
  <2> QED
    BY <2>3, <2>9, <2>10
<1>9. S = Nat
  <2>1. S \in SUBSET Nat
    OBVIOUS
  <2> HIDE DEF S
  <2> QED
    BY <1>7, <1>8, <2>1, CountUp
<1>10. Len(G) \in Nat /\ Len(G) <= Len(G)
  BY SMTT(30), <1>1
<1> QED
  BY <1>9, <1>10

-----------------------------------------------------------------------------
(***************************************************************************)
(* The types are kept                                                      *)
(***************************************************************************)

\* The chain, with and without its last block, and the blocks in it
LEMMA BlocksOfChain ==
  /\ \A b \in AcceptedBlock : /\ b \in BlockCommitments /\ b \in Seq(Commitment) /\ b # None
                              /\ \A k \in 1 .. Len(b) : b[k] \in Accepted
  /\ \A V \in Seq(AcceptedBlock) :
       /\ V \in Chains /\ Len(V) \in Nat
       /\ \A h \in 1 .. Len(V) : V[h] \in AcceptedBlock
       /\ \A b \in AcceptedBlock : Append(V, b) \in Seq(AcceptedBlock)
       /\ V # <<>> => SubSeq(V, 1, Len(V) - 1) \in Seq(AcceptedBlock)
<1>1. ASSUME NEW b \in AcceptedBlock
      PROVE /\ b \in BlockCommitments /\ b \in Seq(Commitment) /\ b # None
            /\ \A k \in 1 .. Len(b) : b[k] \in Accepted
  BY BlocksAre DEF AcceptedBlock
<1>2. ASSUME NEW V \in Seq(AcceptedBlock)
      PROVE /\ V \in Chains /\ Len(V) \in Nat
            /\ \A h \in 1 .. Len(V) : V[h] \in AcceptedBlock
            /\ \A b \in AcceptedBlock : Append(V, b) \in Seq(AcceptedBlock)
            /\ V # <<>> => SubSeq(V, 1, Len(V) - 1) \in Seq(AcceptedBlock)
  <2>1. Len(V) \in Nat /\ \A h \in 1 .. Len(V) : V[h] \in AcceptedBlock
    BY SMTT(30)
  <2>2. V \in Chains
    <3>1. AcceptedBlock \subseteq Seq(Commitment)
      BY <1>1
    <3> HIDE DEF AcceptedBlock
    <3> QED
      BY SMTT(30), <3>1 DEF Chains
  <2>3. \A b \in AcceptedBlock : Append(V, b) \in Seq(AcceptedBlock)
    BY SMTT(30)
  <2>4. ASSUME V # <<>> PROVE SubSeq(V, 1, Len(V) - 1) \in Seq(AcceptedBlock)
    <3>1. 1 \in Int /\ Len(V) - 1 \in Int /\ \A i \in 1 .. Len(V) - 1 : i \in 1 .. Len(V)
      BY SMTT(30), <2>1
    <3>2. \A i \in 1 .. Len(V) - 1 : V[i] \in AcceptedBlock
      BY <2>1, <3>1
    <3> QED
      BY <3>1, <3>2, SubSeqProperties
  <2> QED
    BY <2>1, <2>2, <2>3, <2>4
<1> QED
  BY <1>1, <1>2

\* ConnectTip up to ProcessBlock
LEMMA ConnectBlockTypes ==
  ASSUME TypeInv, ConnectBlock
  PROVE TypeInv'
<1>1. PICK qcs \in BlockCommitments :
        LET st == ProcessBlock(Now, qcs, "write") IN
        IF st.ok
        THEN Becomes(st) /\ connecting' = qcs /\ saved' = evoDb /\ UNCHANGED failures
        ELSE /\ failures < MaxFailures
             /\ failures' = failures + 1
             /\ Becomes([st EXCEPT !.mined = mined, !.byHeight = byHeight])
             /\ UNCHANGED <<connecting, saved>>
  BY DEF ConnectBlock
<1> DEFINE st == ProcessBlock(Now, qcs, "write")
<1>2. qcs \in Seq(Commitment) /\ Height \in Nat /\ "write" \in {"check", "write"}
  BY BlocksAre, BlocksOfChain DEF Height, TypeInv
<1>3. st \in State /\ (st.ok => \A k \in 1 .. Len(qcs) : qcs[k] \in Accepted)
  BY <1>2, ProcessBlockState DEF TypeInv
<1>4. mined \in MinedMap /\ byHeight \in SUBSET (Nat \X Indexes)
  BY NowFields DEF TypeInv
<1>5. /\ base' \in Bases \cup {None} /\ chain' \in Seq(AcceptedBlock)
      /\ received' \in Verified \cup {None} /\ getQuorum' \in [Threads -> MinedRead \cup {None}]
  BY DEF ConnectBlock, TypeInv
<1> HIDE DEF st
<1>6. CASE st.ok
  <2>1. Becomes(st) /\ connecting' = qcs /\ saved' = <<mined, byHeight>> /\ failures' = failures
    BY <1>1, <1>6 DEF st, evoDb
  <2>2. Now' \in State
    BY <1>3, <2>1, BecomesState
  <2>3. connecting' \in AcceptedBlock \cup {None}
    BY <1>3, <1>6, <2>1 DEF AcceptedBlock
  <2>4. saved'[1] = mined /\ saved'[2] = byHeight
    BY <2>1
  <2> QED
    BY <1>4, <1>5, <2>1, <2>2, <2>3, <2>4 DEF TypeInv
<1>7. CASE ~st.ok
  <2> DEFINE r1 == [st EXCEPT !.mined = mined]
             r == [r1 EXCEPT !.byHeight = byHeight]
  <2>1. Becomes(r) /\ connecting' = connecting /\ saved' = saved /\ failures < MaxFailures /\ failures' = failures + 1
    BY <1>1, <1>7 DEF st
  <2>2. r1 \in State
    BY <1>3, <1>4, SetMined
  <2> HIDE DEF r1
  <2>3. r \in State
    BY <1>4, <2>2, SetByHeight
  <2> HIDE DEF r
  <2>4. Now' \in State
    BY <2>1, <2>3, BecomesState
  <2>5. failures' \in 0 .. MaxFailures
    BY SMTT(30), <2>1, CommitmentsAssumption DEF TypeInv
  <2> QED
    BY <1>5, <2>1, <2>4, <2>5 DEF TypeInv
<1> QED
  BY <1>6, <1>7

\* A step that changes the node's state only
LEMMA BecomesTypes ==
  ASSUME TypeInv, NEW st \in State, Becomes(st),
         UNCHANGED <<base, connecting, saved, getQuorum, failures>>,
         chain' \in Seq(AcceptedBlock), received' \in Verified \cup {None}
  PROVE TypeInv'
<1>1. Now' \in State
  BY BecomesState
<1> QED
  BY <1>1 DEF TypeInv

\* Every step keeps the types.
LEMMA TypeStep ==
  ASSUME TypeInv, [Next]_vars
  PROVE TypeInv'
<1>1. Now \in State
  BY DEF TypeInv
<1>2. Height \in Nat
  BY BlocksOfChain DEF TypeInv, Height
<1>3. CASE ConnectBase
  BY <1>3 DEF ConnectBase, TypeInv, Now, evoDb, minable
<1>4. CASE DisconnectBase
  BY <1>4 DEF DisconnectBase, TypeInv, Now, evoDb, minable
<1>5. CASE ConnectBlock
  BY <1>5, ConnectBlockTypes
<1>6. CASE CommitBlock
  <2>1. chain' \in Seq(AcceptedBlock)
    BY <1>6, BlocksOfChain DEF CommitBlock, TypeInv
  <2> QED
    BY <1>6, <2>1 DEF CommitBlock, TypeInv, Now, evoDb, minable
<1>7. CASE RollbackBlock
  <2>1. mined' \in MinedMap /\ byHeight' \in SUBSET (Nat \X Indexes)
    BY <1>7 DEF RollbackBlock, TypeInv
  <2>2. Now' \in State
    BY <1>1, <1>7, <2>1, NowFields, NextFields DEF RollbackBlock, minable
  <2>3. failures' \in 0 .. MaxFailures
    <3>1. failures \in 0 .. MaxFailures /\ failures < MaxFailures /\ failures' = failures + 1
      BY <1>7 DEF RollbackBlock, TypeInv
    <3> QED
      BY SMTT(30), <3>1, CommitmentsAssumption
  <2> QED
    BY <1>7, <2>2, <2>3 DEF RollbackBlock, TypeInv
<1>8. CASE DisconnectBlock
  <2>1. chain # <<>> /\ chain \in Seq(AcceptedBlock)
    BY <1>8 DEF DisconnectBlock, TypeInv
  <2>2. Height \in 1 .. Len(chain)
    BY <2>1, BlocksOfChain, ChainsAre DEF Height
  <2>3. chain[Height] \in AcceptedBlock
    BY <2>1, <2>2, BlocksOfChain
  <2> DEFINE b == chain[Height]
             st == UndoCommitments(Now, Height, b)[Len(b)]
  <2>4. b \in Seq(Commitment) /\ \A k \in 1 .. Len(b) : b[k] \in Accepted
    BY <2>3, BlocksOfChain
  <2>5. Becomes(st)
    BY <1>8 DEF DisconnectBlock
  <2>6. chain' \in Seq(AcceptedBlock)
    BY <1>8, <2>1, BlocksOfChain DEF DisconnectBlock, Height
  <2>7. UNCHANGED <<base, connecting, saved, getQuorum, failures>> /\ received' \in Verified \cup {None}
    BY <1>8 DEF DisconnectBlock, TypeInv
  <2> HIDE DEF b
  <2>8. st \in State
    BY <1>1, <1>2, <2>4, UndoesAll
  <2> HIDE DEF st
  <2> QED
    BY <2>5, <2>6, <2>7, <2>8, BecomesTypes
<1>9. CASE CreateNewBlock
  <2> DEFINE r == ProcessBlock(Now, GetMineableCommitments, "check")
             st == [r EXCEPT !.ok = TRUE]
  <2>1. base \in Bases
    BY <1>9 DEF CreateNewBlock, TypeInv
  <2>2. GetMineableCommitments \in Seq(Commitment) /\ "check" \in {"check", "write"}
    BY <1>1, <2>1, MineableIs
  <2>3. r \in State
    BY <1>1, <1>2, <2>2, ProcessBlockState
  <2>4. Becomes(st)
    BY <1>9 DEF CreateNewBlock
  <2> HIDE DEF r
  <2>5. st \in State
    BY <2>3, SetOk
  <2> HIDE DEF st
  <2>6. /\ UNCHANGED <<base, connecting, saved, getQuorum, failures>>
        /\ chain' \in Seq(AcceptedBlock) /\ received' \in Verified \cup {None}
    BY <1>9 DEF CreateNewBlock, TypeInv
  <2> QED
    BY <2>4, <2>5, <2>6, BecomesTypes
<1>10. CASE ReceiveCommitment
  <2>1. PICK qc \in Verified : Becomes(Asked(Now, qc.quorum)) /\ received' = qc
    BY <1>10 DEF ReceiveCommitment
  <2>2. Asked(Now, qc.quorum) \in State
    BY <1>1, AskedReads, CommitmentsAre
  <2>3. /\ UNCHANGED <<base, connecting, saved, getQuorum, failures>>
        /\ chain' \in Seq(AcceptedBlock) /\ received' \in Verified \cup {None}
    BY <1>10, <2>1 DEF ReceiveCommitment, TypeInv
  <2> QED
    BY <2>1, <2>2, <2>3, BecomesTypes
<1>11. CASE ProcessMessage
  <2>1. received \in Verified
    BY <1>11 DEF ProcessMessage, TypeInv
  <2>2. AddMineableCommitment(Now, received) \in State
    BY <1>1, <2>1, AddIs
  <2>3. Becomes(Now) \/ Becomes(AddMineableCommitment(Now, received))
    BY <1>11 DEF ProcessMessage
  <2>4. /\ UNCHANGED <<base, connecting, saved, getQuorum, failures>>
        /\ chain' \in Seq(AcceptedBlock) /\ received' \in Verified \cup {None}
    BY <1>11 DEF ProcessMessage, TypeInv
  <2> QED
    BY <1>1, <2>2, <2>3, <2>4, BecomesTypes
<1>12. CASE FinalizeCommitments
  <2>1. PICK qc \in Verified : Becomes(AddMineableCommitment(Now, qc))
    BY <1>12 DEF FinalizeCommitments
  <2>2. AddMineableCommitment(Now, qc) \in State
    BY <1>1, <2>1, AddIs
  <2>3. /\ UNCHANGED <<base, connecting, saved, getQuorum, failures>>
        /\ chain' \in Seq(AcceptedBlock) /\ received' \in Verified \cup {None}
    BY <1>12 DEF FinalizeCommitments, TypeInv
  <2> QED
    BY <2>1, <2>2, <2>3, BecomesTypes
<1>13. ASSUME NEW t \in Threads, GetQuorumRead(t) PROVE TypeInv'
  <2>1. getQuorum' \in [Threads -> MinedRead \cup {None}]
    <3>1. PICK q \in Quorums : getQuorum' = [getQuorum EXCEPT ![t] = [quorum |-> q, exists |-> mined[q] # None]]
      BY <1>13 DEF GetQuorumRead
    <3>2. (mined[q] # None) \in BOOLEAN
      OBVIOUS
    <3>3. [quorum |-> q, exists |-> mined[q] # None] \in MinedRead
      BY <3>2 DEF MinedRead
    <3>4. getQuorum \in [Threads -> MinedRead \cup {None}]
      BY DEF TypeInv
    <3> QED
      BY <3>1, <3>3, <3>4
  <2> QED
    BY <1>13, <2>1 DEF GetQuorumRead, TypeInv, Now, evoDb, minable
<1>14. ASSUME NEW t \in Threads, GetQuorumCache(t) PROVE TypeInv'
  <2>1. getQuorum \in [Threads -> MinedRead \cup {None}]
    BY DEF TypeInv
  <2>2. getQuorum[t].quorum \in Quorums
    BY <1>14, <2>1 DEF GetQuorumCache, MinedRead
  <2>3. hasMinedCommitmentCache \in [Quorums -> {"unknown", "yes", "no"}]
    BY <1>1, NowFields
  <2>4. hasMinedCommitmentCache' \in [Quorums -> {"unknown", "yes", "no"}]
    BY <1>14, <2>2, <2>3 DEF GetQuorumCache
  <2>5. Now' \in State
    BY <1>1, <1>14, <2>4, NowFields, NextFields DEF GetQuorumCache, evoDb, minable
  <2>6. getQuorum' \in [Threads -> MinedRead \cup {None}]
    BY <1>14, <2>1 DEF GetQuorumCache
  <2> QED
    BY <1>14, <2>5, <2>6 DEF GetQuorumCache, TypeInv
<1>15. CASE UNCHANGED vars
  BY <1>15 DEF vars, evoDb, minable, TypeInv, Now
<1> QED
  BY <1>3, <1>4, <1>5, <1>6, <1>7, <1>8, <1>9, <1>10, <1>11, <1>12, <1>13, <1>14, <1>15 DEF Next

LEMMA TypeInit ==
  ASSUME Init
  PROVE TypeInv
<1>1. /\ base = None /\ chain = <<>> /\ connecting = None /\ received = None /\ failures = 0
      /\ getQuorum = [t \in Threads |-> None]
      /\ mined = [q \in Quorums |-> None] /\ byHeight = {} /\ minableCommitments = {}
      /\ hasMinedCommitmentCache = [q \in Quorums |-> "unknown"]
      /\ minableCommitmentsByQuorum = [q \in Quorums |-> None]
  BY DEF Init
<1>2. Now \in State
  <2>1. mined \in MinedMap /\ minableCommitmentsByQuorum \in ByQuorumMap
    BY <1>1 DEF MinedMap, ByQuorumMap
  <2>2. hasMinedCommitmentCache \in [Quorums -> {"unknown", "yes", "no"}]
    BY <1>1
  <2> QED
    BY <1>1, <2>1, <2>2, NowFields
<1>3. chain \in Seq(AcceptedBlock)
  BY <1>1, EmptySeq
<1>4. failures \in 0 .. MaxFailures
  BY SMTT(30), <1>1, CommitmentsAssumption
<1> QED
  BY <1>1, <1>2, <1>3, <1>4 DEF TypeInv

LEMMA TypeInvariant == Spec => []TypeInv
<1>1. Init => TypeInv
  BY TypeInit
<1>2. TypeInv /\ [Next]_vars => TypeInv'
  BY TypeStep
<1> QED
  BY <1>1, <1>2, PTL DEF Spec

\* What the node keeps is what its type says: the database and the index of it, the
\* cache, the minable commitments, and what a thread in HasMinedCommitment or a message
\* in ProcessMessage holds.
THEOREM CommitmentTypes == Spec => []TypeOK
<1>1. ASSUME TypeInv PROVE TypeOK
  <2>1. /\ mined \in MinedMap /\ byHeight \in SUBSET (Nat \X Indexes)
        /\ hasMinedCommitmentCache \in [Quorums -> {"unknown", "yes", "no"}]
        /\ minableCommitments \in SUBSET Verified /\ minableCommitmentsByQuorum \in ByQuorumMap
    BY <1>1, NowFields DEF TypeInv
  <2>2. chain \in Seq(BlockCommitments)
    <3>1. AcceptedBlock \subseteq BlockCommitments
      BY DEF AcceptedBlock
    <3>2. chain \in Seq(AcceptedBlock)
      BY <1>1 DEF TypeInv
    <3> HIDE DEF AcceptedBlock
    <3> QED
      BY SMTT(30), <3>1, <3>2
  <2>3. connecting \in BlockCommitments \cup {None}
    BY <1>1 DEF TypeInv, AcceptedBlock
  <2> QED
    BY <1>1, <2>1, <2>2, <2>3 DEF TypeInv, TypeOK, MinedMap, ByQuorumMap
<1> QED
  BY <1>1, TypeInvariant, PTL

\* The block of GetMineableCommitments passes ProcessBlock, whatever the cache, the
\* threads in HasMinedCommitment and the minable commitments are, with rotation or
\* without it.
THEOREM MinedBlocksAccepted == Spec => []MinedBlockAccepted
<1>1. ASSUME TypeInv PROVE MinedBlockAccepted
  <2> SUFFICES ASSUME base # None
               PROVE ProcessBlock(Now, GetMineableCommitments, "check").ok
    BY DEF MinedBlockAccepted
  <2>1. base \in Bases /\ Now \in State
    BY <1>1 DEF TypeInv
  <2>2. Height \in Nat
    BY <1>1, BlocksOfChain DEF TypeInv, Height
  <2> QED
    BY <2>1, <2>2, MineableAccepted
<1> QED
  BY <1>1, TypeInvariant, PTL

-----------------------------------------------------------------------------
(***************************************************************************)
(* The database of mined commitments                                       *)
(***************************************************************************)

\* Every thread that asks for a quorum holds cs_main.
UnderCsMain == Threads = CsMainThreads

\* The chain with the block that is being connected
View == IF connecting = None THEN chain ELSE Append(chain, connecting)

\* A thread in HasMinedCommitment has read what is still in the database.
ReadsCurrent ==
  \A t \in Threads : getQuorum[t] # None =>
    connecting = None /\ (getQuorum[t].exists <=> mined[getQuorum[t].quorum] # None)

DbInv ==
  /\ OnChain(View, mined) /\ Indexed(mined, byHeight)
  /\ NoneMissed(Now)
  /\ connecting # None =>
       /\ OnChain(chain, saved[1]) /\ Indexed(saved[1], saved[2])
       /\ \A q \in Quorums : mined[q] = None => saved[1][q] = None
  /\ ReadsCurrent

\* ProcessBlock writes a block or leaves the database as it was.
LEMMA GrowsByBlock ==
  ASSUME NEW s \in State, Height \in Nat, NEW qcs \in Seq(Commitment), NoneMissed(s),
         Indexed(s.mined, s.byHeight)
  PROVE LET r == ProcessBlock(s, qcs, "write")
        IN /\ \A q \in Quorums : s.mined[q] # None => r.mined[q] = s.mined[q]
           /\ NoneMissed(r)
           /\ r.ok => Grown(s, r, Height + 1, qcs, Len(qcs))
<1> DEFINE h == Height + 1
           a == AskedAll(s, h)
           g == ProcessCommitments(a, h, qcs, "write")[Len(qcs)]
<1>0. h \in Nat
  BY SMTT(30)
<1>1. a \in State /\ Reads(s, a)
  BY AskedAllReads
<1>2. NoneMissed(a) /\ Indexed(a.mined, a.byHeight) /\ a.mined = s.mined
  BY <1>1, ReadsMissNone DEF Reads
<1>3. ProcessBlock(s, qcs, "write") \in {Invalid(s), Invalid(a), g}
  BY DEF ProcessBlock
<1> HIDE DEF a, h
<1>4. Grown(a, g, h, qcs, Len(qcs))
  BY <1>0, <1>1, <1>2, GrowsByAll
<1> HIDE DEF g
<1>5. Grown(s, g, h, qcs, Len(qcs))
  BY <1>2, <1>4 DEF Grown
<1>6. ASSUME NEW i \in State, NoneMissed(i), i.mined = s.mined
      PROVE NoneMissed(Invalid(i)) /\ Invalid(i).mined = s.mined /\ ~Invalid(i).ok
  <2>1. Invalid(i).mined = i.mined /\ Invalid(i).cache = i.cache /\ Invalid(i).ok = FALSE
    BY SetOk DEF Invalid
  <2> QED
    BY <1>6, <2>1 DEF NoneMissed
<1> DEFINE r == ProcessBlock(s, qcs, "write")
<1> SUFFICES /\ \A q \in Quorums : s.mined[q] # None => r.mined[q] = s.mined[q]
             /\ NoneMissed(r)
             /\ r.ok => Grown(s, r, h, qcs, Len(qcs))
  BY DEF h
<1> HIDE DEF r
<1>7. CASE r = Invalid(s)
  BY <1>6, <1>7
<1>8. CASE r = Invalid(a)
  BY <1>1, <1>2, <1>6, <1>8
<1>9. CASE r = g
  BY <1>5, <1>9 DEF Grown
<1> QED
  BY <1>3, <1>7, <1>8, <1>9 DEF r

LEMMA DbInit ==
  ASSUME Init
  PROVE DbInv
<1>1. /\ chain = <<>> /\ connecting = None /\ getQuorum = [t \in Threads |-> None]
      /\ mined = [q \in Quorums |-> None] /\ byHeight = {}
      /\ hasMinedCommitmentCache = [q \in Quorums |-> "unknown"]
  BY DEF Init
<1>2. View = <<>> /\ Len(<<>>) = 0 /\ \A h : h \notin 1 .. 0
  BY <1>1, SMTT(30), EmptySeq DEF View
<1>3. \A q \in Quorums : mined[q] = None
  BY <1>1
<1>4. OnChain(View, mined)
  BY <1>2, <1>3 DEF OnChain
<1>5. Indexed(mined, byHeight)
  BY <1>1, <1>3 DEF Indexed
<1>6. NoneMissed(Now)
  BY <1>3, NowFields DEF NoneMissed
<1> QED
  BY <1>1, <1>4, <1>5, <1>6 DEF DbInv, ReadsCurrent

\* A step that leaves the chain and the database alone
LEMMA QuietDb ==
  ASSUME DbInv, UNCHANGED <<chain, connecting, saved, getQuorum>>,
         mined' = mined, byHeight' = byHeight, NoneMissed(Now')
  PROVE DbInv'
  BY DEF DbInv, View, ReadsCurrent

\* What is cached in Now' is not missed.
LEMMA NoneMissedNext ==
  ASSUME NEW st, Becomes(st)
  PROVE NoneMissed(st) => NoneMissed(Now')
  BY BecomesState DEF NoneMissed

\* ConnectTip up to ProcessBlock
LEMMA ConnectBlockDb ==
  ASSUME UnderCsMain, TypeInv, DbInv, ConnectBlock
  PROVE DbInv'
<1>1. PICK qcs \in BlockCommitments :
        LET st == ProcessBlock(Now, qcs, "write") IN
        IF st.ok
        THEN Becomes(st) /\ connecting' = qcs /\ saved' = evoDb /\ UNCHANGED failures
        ELSE /\ failures < MaxFailures
             /\ failures' = failures + 1
             /\ Becomes([st EXCEPT !.mined = mined, !.byHeight = byHeight])
             /\ UNCHANGED <<connecting, saved>>
  BY DEF ConnectBlock
<1> DEFINE st == ProcessBlock(Now, qcs, "write")
<1>2. qcs \in Seq(Commitment) /\ qcs # None /\ Height \in Nat /\ Now \in State /\ chain \in Chains
  BY BlocksAre, BlocksOfChain DEF Height, TypeInv
<1>3. connecting = None /\ (\A t \in Threads : getQuorum[t] = None) /\ chain' = chain /\ getQuorum' = getQuorum
  BY DEF ConnectBlock, CsMain, UnderCsMain
<1>4. /\ OnChain(chain, mined) /\ Indexed(mined, byHeight) /\ NoneMissed(Now)
      /\ Now.mined = mined /\ Now.byHeight = byHeight
  BY <1>3, NowFields DEF DbInv, View
<1>5. /\ \A q \in Quorums : mined[q] # None => st.mined[q] = mined[q]
      /\ NoneMissed(st)
      /\ st.ok => Grown(Now, st, Height + 1, qcs, Len(qcs))
  BY <1>2, <1>4, GrowsByBlock
<1>6. st \in State
  BY <1>2, ProcessBlockState
<1> HIDE DEF st
<1>7. CASE st.ok
  <2>1. Becomes(st) /\ connecting' = qcs /\ saved' = <<mined, byHeight>>
    BY <1>1, <1>7 DEF st, evoDb
  <2>2. mined' = st.mined /\ byHeight' = st.byHeight
    BY <2>1 DEF Becomes
  <2>3. View' = Append(chain, qcs)
    BY <1>2, <1>3, <2>1 DEF View
  <2>4. OnChain(Append(chain, qcs), st.mined)
    BY <1>2, <1>4, <1>5, <1>7, ChainGrows DEF Height
  <2>5. Indexed(st.mined, st.byHeight)
    BY <1>5, <1>7 DEF Grown
  <2>6. NoneMissed(Now')
    BY <1>5, <2>1, NoneMissedNext
  <2>7. saved'[1] = mined /\ saved'[2] = byHeight
    BY <2>1
  <2>8. \A q \in Quorums : st.mined[q] = None => mined[q] = None
    BY <1>5
  <2>9. ReadsCurrent'
    BY <1>3 DEF ReadsCurrent
  <2>10. OnChain(View, mined)' /\ Indexed(mined, byHeight)'
    BY <2>2, <2>3, <2>4, <2>5
  <2>11. /\ OnChain(chain', saved'[1]) /\ Indexed(saved'[1], saved'[2])
         /\ \A q \in Quorums : mined'[q] = None => saved'[1][q] = None
    BY <1>3, <1>4, <2>2, <2>7, <2>8
  <2> QED
    BY <2>6, <2>9, <2>10, <2>11 DEF DbInv
<1>8. CASE ~st.ok
  <2> DEFINE r1 == [st EXCEPT !.mined = mined]
             r == [r1 EXCEPT !.byHeight = byHeight]
  <2>1. Becomes(r) /\ connecting' = connecting /\ saved' = saved
    BY <1>1, <1>8 DEF st
  <2>2. mined \in MinedMap /\ byHeight \in SUBSET (Nat \X Indexes)
    BY <1>2, NowFields
  <2>3. r1 \in State /\ r1.mined = mined /\ r1.cache = st.cache
    BY <1>6, <2>2, SetMined
  <2> HIDE DEF r1
  <2>4. r.mined = mined /\ r.byHeight = byHeight /\ r.cache = st.cache
    BY <2>2, <2>3, SetByHeight
  <2> HIDE DEF r
  <2>5. NoneMissed(r)
    BY <1>5, <2>4 DEF NoneMissed
  <2>6. mined' = mined /\ byHeight' = byHeight /\ NoneMissed(Now')
    BY <2>1, <2>4, <2>5, NoneMissedNext DEF Becomes
  <2> QED
    BY <1>3, <2>1, <2>6, QuietDb
<1> QED
  BY <1>7, <1>8

\* DisconnectTip
LEMMA DisconnectBlockDb ==
  ASSUME UnderCsMain, TypeInv, DbInv, DisconnectBlock
  PROVE DbInv'
<1> DEFINE b == chain[Height]
           st == UndoCommitments(Now, Height, b)[Len(b)]
<1>1. connecting = None /\ (\A t \in Threads : getQuorum[t] = None) /\ chain # <<>>
      /\ UNCHANGED <<connecting, saved, getQuorum>> /\ Becomes(st)
      /\ chain' = SubSeq(chain, 1, Len(chain) - 1)
  BY DEF DisconnectBlock, CsMain, UnderCsMain, Height
<1>2. Now \in State /\ chain \in Seq(AcceptedBlock) /\ chain \in Chains /\ Height \in Nat /\ Height = Len(chain)
  BY BlocksOfChain DEF TypeInv, Height
<1>3. Height \in 1 .. Len(chain)
  BY <1>1, <1>2, ChainsAre
<1>4. b \in Seq(Commitment) /\ \A k \in 1 .. Len(b) : b[k] \in Accepted
  BY <1>2, <1>3, BlocksOfChain
<1>5. OnChain(chain, Now.mined) /\ Indexed(Now.mined, Now.byHeight) /\ NoneMissed(Now)
  BY <1>1, NowFields DEF DbInv, View
<1> HIDE DEF b
<1>6. st \in State /\ Undone(Now, st, Height, b, Len(b)) /\ Unindexed(Now, st, Height, b, Len(b))
  BY <1>2, <1>4, UndoesAll
<1> HIDE DEF st
<1>7. OnChain(chain', st.mined) /\ Indexed(st.mined, st.byHeight)
  <2>1. /\ Undone(Now, st, Len(chain), chain[Len(chain)], Len(chain[Len(chain)]))
        /\ Unindexed(Now, st, Len(chain), chain[Len(chain)], Len(chain[Len(chain)]))
    BY <1>2, <1>6 DEF b
  <2>2. OnChain(SubSeq(chain, 1, Len(chain) - 1), st.mined) /\ Indexed(st.mined, st.byHeight)
    BY <1>1, <1>2, <1>5, <1>6, <2>1, ChainShrinks
  <2> QED
    BY <1>1, <2>2
<1>8. NoneMissed(st)
  BY <1>5, <1>6 DEF NoneMissed, Undone
<1>9. NoneMissed(Now') /\ mined' = st.mined /\ byHeight' = st.byHeight
  BY <1>1, <1>8, NoneMissedNext DEF Becomes
<1>10. View' = chain' /\ connecting' = None
  BY <1>1 DEF View
<1>11. ReadsCurrent'
  BY <1>1 DEF ReadsCurrent
<1>12. OnChain(View, mined)' /\ Indexed(mined, byHeight)'
  BY <1>7, <1>9, <1>10
<1> QED
  BY <1>9, <1>10, <1>11, <1>12 DEF DbInv

\* Every step keeps the database and the chain in agreement.
LEMMA DbStep ==
  ASSUME UnderCsMain, TypeInv, DbInv, [Next]_vars
  PROVE DbInv'
<1>1. Now \in State /\ NoneMissed(Now)
  BY DEF TypeInv, DbInv
<1>2. ASSUME mined' = mined, hasMinedCommitmentCache' = hasMinedCommitmentCache PROVE NoneMissed(Now')
  BY <1>1, <1>2, NowFields, NextFields DEF NoneMissed
<1>3. CASE ConnectBase
  BY <1>2, <1>3, QuietDb DEF ConnectBase, evoDb, minable
<1>4. CASE DisconnectBase
  BY <1>2, <1>4, QuietDb DEF DisconnectBase, evoDb, minable
<1>5. CASE ConnectBlock
  BY <1>5, ConnectBlockDb
<1>6. CASE CommitBlock
  <2>1. connecting # None /\ chain' = Append(chain, connecting) /\ connecting' = None
        /\ mined' = mined /\ byHeight' = byHeight /\ getQuorum' = getQuorum
        /\ hasMinedCommitmentCache' = hasMinedCommitmentCache
    BY <1>6 DEF CommitBlock, evoDb
  <2>2. View' = View
    BY <2>1 DEF View
  <2>3. ReadsCurrent'
    BY <2>1 DEF ReadsCurrent, DbInv
  <2>4. NoneMissed(Now')
    BY <1>2, <2>1
  <2>5. OnChain(View, mined)' /\ Indexed(mined, byHeight)'
    BY <2>1, <2>2 DEF DbInv
  <2> QED
    BY <2>1, <2>3, <2>4, <2>5 DEF DbInv
<1>7. CASE RollbackBlock
  <2>1. connecting # None /\ chain' = chain /\ connecting' = None
        /\ mined' = saved[1] /\ byHeight' = saved[2] /\ getQuorum' = getQuorum
        /\ hasMinedCommitmentCache' = hasMinedCommitmentCache
    BY <1>7 DEF RollbackBlock
  <2>2. View' = chain
    BY <2>1 DEF View
  <2>3. ReadsCurrent'
    BY <2>1 DEF ReadsCurrent, DbInv
  <2>4. NoneMissed(Now')
    <3>1. \A q \in Quorums : hasMinedCommitmentCache[q] = "no" => mined[q] = None
      BY <1>1, NowFields DEF NoneMissed
    <3>2. \A q \in Quorums : mined[q] = None => saved[1][q] = None
      BY <2>1 DEF DbInv
    <3> QED
      BY <2>1, <3>1, <3>2, NextFields DEF NoneMissed
  <2>5. OnChain(View, mined)' /\ Indexed(mined, byHeight)'
    BY <2>1, <2>2 DEF DbInv
  <2> QED
    BY <2>1, <2>3, <2>4, <2>5 DEF DbInv
<1>8. CASE DisconnectBlock
  BY <1>8, DisconnectBlockDb
<1>9. CASE CreateNewBlock
  <2> DEFINE r == ProcessBlock(Now, GetMineableCommitments, "check")
             st == [r EXCEPT !.ok = TRUE]
  <2>1. base \in Bases /\ Height \in Nat
    BY <1>9, BlocksOfChain DEF CreateNewBlock, TypeInv, Height
  <2>2. r \in State /\ Reads(Now, r)
    BY <1>1, <2>1, MineableAccepted
  <2>3. Becomes(st) /\ UNCHANGED <<chain, connecting, saved, getQuorum>>
    BY <1>9 DEF CreateNewBlock
  <2>4. NoneMissed(r)
    BY <1>1, <2>2, ReadsMissNone
  <2> HIDE DEF r
  <2>5. st.mined = r.mined /\ st.byHeight = r.byHeight /\ st.cache = r.cache
    BY <2>2, SetOk
  <2> HIDE DEF st
  <2>6. NoneMissed(st)
    BY <2>4, <2>5 DEF NoneMissed
  <2>7. mined' = mined /\ byHeight' = byHeight /\ NoneMissed(Now')
    BY <2>2, <2>3, <2>5, <2>6, NowFields, NoneMissedNext DEF Becomes, Reads
  <2> QED
    BY <2>3, <2>7, QuietDb
<1>10. CASE ReceiveCommitment
  <2>1. PICK qc \in Verified : Becomes(Asked(Now, qc.quorum))
    BY <1>10 DEF ReceiveCommitment
  <2> DEFINE st == Asked(Now, qc.quorum)
  <2>2. Reads(Now, st)
    BY <1>1, AskedReads, CommitmentsAre
  <2>3. Becomes(st) /\ UNCHANGED <<chain, connecting, saved, getQuorum>>
    BY <1>10, <2>1 DEF ReceiveCommitment
  <2> HIDE DEF st
  <2>4. NoneMissed(st)
    BY <1>1, <2>2, ReadsMissNone
  <2>5. mined' = mined /\ byHeight' = byHeight /\ NoneMissed(Now')
    BY <2>2, <2>3, <2>4, NowFields, NoneMissedNext DEF Becomes, Reads
  <2> QED
    BY <2>3, <2>5, QuietDb
<1>11. ASSUME NEW qc \in Verified, Becomes(Now) \/ Becomes(AddMineableCommitment(Now, qc))
       PROVE mined' = mined /\ byHeight' = byHeight /\ hasMinedCommitmentCache' = hasMinedCommitmentCache
  <2> DEFINE a == AddMineableCommitment(Now, qc)
  <2>1. a.mined = Now.mined /\ a.byHeight = Now.byHeight /\ a.cache = Now.cache
    BY <1>1, AddIs
  <2> HIDE DEF a
  <2>2. Becomes(Now) \/ Becomes(a)
    BY <1>11 DEF a
  <2> QED
    BY <2>1, <2>2, NowFields DEF Becomes
<1>12. CASE ProcessMessage
  <2>1. received \in Verified /\ (Becomes(Now) \/ Becomes(AddMineableCommitment(Now, received)))
    BY <1>12 DEF ProcessMessage, TypeInv
  <2>2. UNCHANGED <<chain, connecting, saved, getQuorum>>
    BY <1>12 DEF ProcessMessage
  <2> QED
    BY <1>2, <1>11, <2>1, <2>2, QuietDb
<1>13. CASE FinalizeCommitments
  <2>1. PICK qc \in Verified : Becomes(AddMineableCommitment(Now, qc))
    BY <1>13 DEF FinalizeCommitments
  <2>2. UNCHANGED <<chain, connecting, saved, getQuorum>>
    BY <1>13 DEF FinalizeCommitments
  <2> QED
    BY <1>2, <1>11, <2>1, <2>2, QuietDb
<1>14. ASSUME NEW t \in Threads, GetQuorumRead(t) PROVE DbInv'
  <2>1. connecting = None /\ UNCHANGED <<chain, connecting, saved>> /\ mined' = mined /\ byHeight' = byHeight
        /\ hasMinedCommitmentCache' = hasMinedCommitmentCache
    BY <1>14 DEF GetQuorumRead, CsMain, UnderCsMain, evoDb
  <2>2. PICK q \in Quorums : getQuorum' = [getQuorum EXCEPT ![t] = [quorum |-> q, exists |-> mined[q] # None]]
    BY <1>14 DEF GetQuorumRead
  <2>3. DOMAIN getQuorum = Threads
    BY DEF TypeInv
  <2>4. \A u \in Threads : getQuorum'[u] = IF u = t THEN [quorum |-> q, exists |-> mined[q] # None] ELSE getQuorum[u]
    BY <2>2, <2>3
  <2>5. ReadsCurrent'
    <3> SUFFICES ASSUME NEW u \in Threads, getQuorum'[u] # None
                 PROVE getQuorum'[u].exists <=> mined[getQuorum'[u].quorum] # None
      BY <2>1 DEF ReadsCurrent
    <3>1. CASE u = t
      <4> DEFINE rd == [quorum |-> q, exists |-> mined[q] # None]
      <4>1. rd.quorum = q /\ (rd.exists <=> mined[q] # None)
        OBVIOUS
      <4>2. getQuorum'[u] = rd
        BY <2>4, <3>1
      <4> HIDE DEF rd
      <4> QED
        BY <4>1, <4>2
    <3>2. CASE u # t
      BY <2>4, <3>2 DEF DbInv, ReadsCurrent
    <3> QED
      BY <3>1, <3>2
  <2>6. NoneMissed(Now')
    BY <1>2, <2>1
  <2>7. View' = View
    BY <2>1 DEF View
  <2> QED
    BY <2>1, <2>5, <2>6, <2>7 DEF DbInv
<1>15. ASSUME NEW t \in Threads, GetQuorumCache(t) PROVE DbInv'
  <2> DEFINE q == getQuorum[t].quorum
             v == IF getQuorum[t].exists THEN "yes" ELSE "no"
  <2>1. UNCHANGED <<chain, connecting, saved>> /\ mined' = mined /\ byHeight' = byHeight
        /\ hasMinedCommitmentCache' = [hasMinedCommitmentCache EXCEPT ![q] = v]
        /\ getQuorum' = [getQuorum EXCEPT ![t] = None] /\ getQuorum[t] # None
    BY <1>15 DEF GetQuorumCache, evoDb
  <2>2. getQuorum \in [Threads -> MinedRead \cup {None}]
    BY DEF TypeInv
  <2>3. getQuorum[t].exists <=> mined[q] # None
    BY <2>1 DEF DbInv, ReadsCurrent
  <2>4. v = "no" => mined[q] = None
    BY <2>3
  <2>5. DOMAIN hasMinedCommitmentCache = Quorums
    BY <1>1, NowFields
  <2> HIDE DEF v, q
  <2>6. \A p \in Quorums : hasMinedCommitmentCache'[p] = "no" => mined'[p] = None
    <3>1. \A p \in Quorums : hasMinedCommitmentCache[p] = "no" => mined[p] = None
      BY <1>1, NowFields DEF NoneMissed
    <3>2. \A p \in Quorums : hasMinedCommitmentCache'[p] = IF p = q THEN v ELSE hasMinedCommitmentCache[p]
      BY <2>1, <2>5
    <3> QED
      BY <2>1, <2>4, <3>1, <3>2
  <2>7. NoneMissed(Now')
    BY <2>6, NextFields DEF NoneMissed
  <2>8. ReadsCurrent'
    <3>1. \A u \in Threads : getQuorum'[u] # None => getQuorum'[u] = getQuorum[u]
      BY <2>1, <2>2
    <3> QED
      BY <2>1, <3>1 DEF ReadsCurrent, DbInv
  <2>9. View' = View
    BY <2>1 DEF View
  <2> QED
    BY <2>1, <2>7, <2>8, <2>9 DEF DbInv
<1>16. CASE UNCHANGED vars
  BY <1>2, <1>16, QuietDb DEF vars, evoDb, minable
<1> QED
  BY <1>3, <1>4, <1>5, <1>6, <1>7, <1>8, <1>9, <1>10, <1>12, <1>13, <1>14, <1>15, <1>16 DEF Next

LEMMA DbInvariant ==
  ASSUME UnderCsMain PROVE Spec => [](TypeInv /\ DbInv)
<1>1. Init => DbInv
  BY DbInit
<1>2. TypeInv /\ DbInv /\ [Next]_vars => DbInv'
  BY DbStep
<1> QED
  BY <1>1, <1>2, TypeInvariant, PTL DEF Spec

\* MinedOnChain: the commitments in blocks that are not null
LEMMA MinedOnChainBlocks ==
  ASSUME TypeInv, NEW x
  PROVE x \in MinedOnChain <=>
          \E h \in 1 .. Len(chain) : \E k \in 1 .. Len(chain[h]) :
            ~IsNull(chain[h][k]) /\ x = <<h, chain[h][k]>>
<1>1. chain \in Seq(AcceptedBlock) /\ chain \in Chains /\ DOMAIN chain = 1 .. Len(chain)
  BY BlocksOfChain, ChainsAre DEF TypeInv
<1>2. \A h \in 1 .. Len(chain) : DOMAIN chain[h] = 1 .. Len(chain[h])
  BY <1>1, ChainsAre, BlocksAre
<1>3. \A h \in 1 .. Len(chain) : \A k \in 1 .. Len(chain[h]) : ~IsNull(chain[h][k]) <=> chain[h][k] \in Verified
  BY <1>1, BlocksOfChain, CommitmentsAre DEF Accepted
<1>4. x \in MinedOnChain <=>
        /\ \E h \in 1 .. Len(chain) : \E qc \in Verified : x = <<h, qc>>
        /\ \E h \in 1 .. Len(chain) : \E k \in 1 .. Len(chain[h]) : x = <<h, chain[h][k]>>
  <2> DEFINE A == {<<h, qc>> : h \in DOMAIN chain, qc \in Verified}
             B == UNION {{<<h, chain[h][k]>> : k \in DOMAIN chain[h]} : h \in DOMAIN chain}
  <2>1. x \in A <=> \E h \in DOMAIN chain : \E qc \in Verified : x = <<h, qc>>
    BY SMTT(30)
  <2>2. x \in B <=> \E h \in DOMAIN chain : \E k \in DOMAIN chain[h] : x = <<h, chain[h][k]>>
    BY SMTT(30)
  <2>3. MinedOnChain = A \cap B
    BY SMTT(30) DEF MinedOnChain
  <2> HIDE DEF A, B
  <2> QED
    BY <1>1, <1>2, <2>1, <2>2, <2>3
<1>5. ASSUME x \in MinedOnChain
      PROVE \E h \in 1 .. Len(chain) : \E k \in 1 .. Len(chain[h]) : ~IsNull(chain[h][k]) /\ x = <<h, chain[h][k]>>
  <2>0. PICK h \in 1 .. Len(chain) : \E k \in 1 .. Len(chain[h]) : x = <<h, chain[h][k]>>
    BY <1>4, <1>5
  <2>1. PICK k \in 1 .. Len(chain[h]) : x = <<h, chain[h][k]>>
    BY <2>0
  <2>2. PICK g \in 1 .. Len(chain), qc \in Verified : x = <<g, qc>>
    BY <1>4, <1>5
  <2>3. chain[h][k] = qc
    <3>1. <<h, chain[h][k]>> = <<g, qc>>
      BY <2>1, <2>2
    <3> QED
      BY <3>1
  <2> QED
    BY <1>3, <2>1, <2>2, <2>3
<1>6. ASSUME NEW h \in 1 .. Len(chain), NEW k \in 1 .. Len(chain[h]), ~IsNull(chain[h][k]), x = <<h, chain[h][k]>>
      PROVE x \in MinedOnChain
  <2>1. chain[h][k] \in Verified
    BY <1>3, <1>6
  <2> QED
    BY <1>4, <1>6, <2>1
<1> QED
  BY <1>5, <1>6

\* ... and the entries of the database
LEMMA MinedOnChainIs ==
  ASSUME TypeInv, OnChain(chain, mined), NEW x
  PROVE x \in MinedOnChain <=>
          \E q \in Quorums : mined[q] # None /\ x = <<mined[q].height, mined[q].qc>>
<1>1. chain \in Chains /\ DOMAIN chain = 1 .. Len(chain)
  BY BlocksOfChain, ChainsAre DEF TypeInv
<1>2. \A h \in 1 .. Len(chain) : h \in Nat /\ DOMAIN chain[h] = 1 .. Len(chain[h])
  BY <1>1, ChainsAre, BlocksAre
<1>3. \A h \in 1 .. Len(chain) : \A k \in 1 .. Len(chain[h]) : ~IsNull(chain[h][k]) <=> chain[h][k] \in Verified
  BY CommitmentsAre DEF OnChain
<1>4. mined \in MinedMap
  BY NowFields DEF TypeInv
<1>5. ASSUME NEW h \in 1 .. Len(chain), NEW k \in 1 .. Len(chain[h]), ~IsNull(chain[h][k]), x = <<h, chain[h][k]>>
      PROVE \E q \in Quorums : mined[q] # None /\ x = <<mined[q].height, mined[q].qc>>
  <2> DEFINE qc == chain[h][k]
  <2>1. qc \in Verified /\ mined[qc.quorum] = [qc |-> qc, height |-> h]
    BY <1>5 DEF OnChain
  <2>2. qc.quorum \in Quorums
    BY <2>1, CommitmentsAre
  <2>3. [qc |-> qc, height |-> h] # None /\ [qc |-> qc, height |-> h].height = h /\ [qc |-> qc, height |-> h].qc = qc
    BY <1>2, <2>1, RecordIs
  <2> QED
    BY <1>5, <2>1, <2>2, <2>3
<1>6. ASSUME NEW q \in Quorums, mined[q] # None, x = <<mined[q].height, mined[q].qc>>
      PROVE \E h \in 1 .. Len(chain) : \E k \in 1 .. Len(chain[h]) : ~IsNull(chain[h][k]) /\ x = <<h, chain[h][k]>>
  <2>1. PICK h \in 1 .. Len(chain) : mined[q].height = h /\ \E k \in 1 .. Len(chain[h]) : chain[h][k] = mined[q].qc
    BY <1>6 DEF OnChain
  <2>2. PICK k \in 1 .. Len(chain[h]) : chain[h][k] = mined[q].qc
    BY <2>1
  <2>3. mined[q].qc \in Verified
    BY <1>4, <1>6 DEF MinedMap, MinedCommitment
  <2> QED
    BY <1>3, <1>6, <2>1, <2>2, <2>3
<1> QED
  BY <1>5, <1>6, MinedOnChainBlocks

\* The database of mined commitments and its index by height agree with the blocks of
\* the active chain (ProcessCommitment, UndoBlock, the transaction of ConnectTip), with
\* rotation or without it, as long as every thread that asks for a quorum holds cs_main.
THEOREM DatabaseMatchesChain ==
  ASSUME UnderCsMain PROVE Spec => []MinedMatchesChain
<1>1. ASSUME TypeInv, DbInv PROVE MinedMatchesChain
  <2> SUFFICES ASSUME CsMain
               PROVE /\ {<<mined[q].height, mined[q].qc>> : q \in {p \in Quorums : mined[p] # None}} = MinedOnChain
                     /\ byHeight = {<<m[1], m[2].quorum[2]>> : m \in MinedOnChain}
    BY DEF MinedMatchesChain
  <2>1. OnChain(chain, mined) /\ Indexed(mined, byHeight)
    BY <1>1 DEF CsMain, DbInv, View
  <2>2. \A x : x \in MinedOnChain <=> \E q \in Quorums : mined[q] # None /\ x = <<mined[q].height, mined[q].qc>>
    BY <1>1, <2>1, MinedOnChainIs
  <2>3. \A q \in Quorums : mined[q] # None => mined[q].qc.quorum = q
    BY <1>1, NowFields DEF TypeInv, MinedMap
  <2>4. {<<mined[q].height, mined[q].qc>> : q \in {p \in Quorums : mined[p] # None}} = MinedOnChain
    BY <2>2
  <2>5. ASSUME NEW x PROVE x \in byHeight <=> \E m \in MinedOnChain : x = <<m[1], m[2].quorum[2]>>
    <3>1. x \in byHeight <=> \E q \in Quorums : mined[q] # None /\ x = <<mined[q].height, q[2]>>
      BY <2>1 DEF Indexed
    <3>2. ASSUME NEW q \in Quorums, mined[q] # None, x = <<mined[q].height, q[2]>>
          PROVE \E m \in MinedOnChain : x = <<m[1], m[2].quorum[2]>>
      <4> DEFINE m == <<mined[q].height, mined[q].qc>>
      <4>1. m \in MinedOnChain /\ m[1] = mined[q].height /\ m[2] = mined[q].qc
        BY <2>2, <3>2
      <4> HIDE DEF m
      <4>2. x = <<m[1], m[2].quorum[2]>>
        BY <2>3, <3>2, <4>1
      <4> QED
        BY <4>1, <4>2
    <3>3. ASSUME NEW m \in MinedOnChain, x = <<m[1], m[2].quorum[2]>>
          PROVE \E q \in Quorums : mined[q] # None /\ x = <<mined[q].height, q[2]>>
      <4>1. PICK q \in Quorums : mined[q] # None /\ m = <<mined[q].height, mined[q].qc>>
        BY <2>2
      <4>2. m[1] = mined[q].height /\ m[2] = mined[q].qc
        BY <4>1
      <4> QED
        BY <2>3, <3>3, <4>1, <4>2
    <3> QED
      BY <3>1, <3>2, <3>3
  <2>6. byHeight = {<<m[1], m[2].quorum[2]>> : m \in MinedOnChain}
    BY <2>5
  <2> QED
    BY <2>4, <2>6
<1> QED
  BY <1>1, DbInvariant, PTL

-----------------------------------------------------------------------------
(***************************************************************************)
(* The cache of HasMinedCommitment, without rotation                       *)
(***************************************************************************)

\* What the database is once the block that is being connected turns out invalid
Settled == IF connecting = None THEN mined ELSE saved[1]

\* What the cache of s calls mined is in M.
Known(s, M) == \A q \in Quorums : s.cache[q] = "yes" => M[q] # None

LEMMA ReadsKnown ==
  ASSUME NEW s \in State, NEW r, Reads(s, r), Known(s, s.mined)
  PROVE Known(r, s.mined)
<1> SUFFICES ASSUME NEW q \in Quorums, r.cache[q] = "yes" PROVE s.mined[q] # None
  BY DEF Known
<1>1. CASE r.cache[q] = s.cache[q]
  BY <1>1 DEF Known
<1>2. CASE r.cache[q] = IF HasMinedCommitment(s, q) THEN "yes" ELSE "no"
  <2>1. HasMinedCommitment(s, q)
    BY <1>2
  <2> QED
    BY <2>1 DEF HasMinedCommitment, Known
<1> QED
  BY <1>1, <1>2 DEF Reads

\* ProcessCommitment caches nothing that it has written.
LEMMA ProcessKnown ==
  ASSUME NEW s \in State, NEW h \in Nat, NEW qc \in Commitment, Known(s, s.mined)
  PROVE Known(ProcessCommitment(s, h, qc, "write"), s.mined)
<1> DEFINE r == ProcessCommitment(s, h, qc, "write")
<1>1. /\ r \in State
      /\ r = s \/ Reads(s, r) \/ (Writes(s, r, h, qc) /\ qc \in Verified)
  BY ProcessIs
<1> SUFFICES Known(r, s.mined)
  OBVIOUS
<1> HIDE DEF r
<1>2. CASE r = s
  BY <1>2
<1>3. CASE Reads(s, r)
  BY <1>3, ReadsKnown
<1>4. CASE Writes(s, r, h, qc) /\ qc \in Verified
  <2>1. s.cache \in [Quorums -> {"unknown", "yes", "no"}] /\ qc.quorum \in Quorums
    BY StateFields, CommitmentsAre
  <2>2. \A q \in Quorums : r.cache[q] = IF q = qc.quorum THEN "unknown" ELSE s.cache[q]
    BY <1>4, <2>1 DEF Writes
  <2> QED
    BY <2>2 DEF Known
<1> QED
  BY <1>1, <1>2, <1>3, <1>4

\* Without rotation a block has one commitment, so that ProcessBlock does not ask for a
\* quorum whose commitment it has written.
LEMMA BlockKnown ==
  ASSUME ~Rotation, NEW s \in State, Height \in Nat, NEW qcs \in Seq(Commitment), Known(s, s.mined)
  PROVE Known(ProcessBlock(s, qcs, "write"), s.mined)
<1> DEFINE h == Height + 1
           a == AskedAll(s, h)
           after == ProcessCommitments(a, h, qcs, "write")
<1>0. h \in Nat
  BY SMTT(30)
<1>1. a \in State /\ Reads(s, a)
  BY AskedAllReads
<1>2. Known(a, s.mined) /\ a.mined = s.mined
  BY <1>1, ReadsKnown DEF Reads
<1>3. ProcessBlock(s, qcs, "write") = Invalid(s) \/ ProcessBlock(s, qcs, "write") = Invalid(a)
        \/ (ProcessBlock(s, qcs, "write") = after[Len(qcs)] /\ ~(Len(qcs) > 1))
  BY DEF ProcessBlock
<1>4. Len(qcs) \in Nat /\ \A k \in 1 .. Len(qcs) : qcs[k] \in Commitment
  BY BlocksAre
<1> HIDE DEF a, h
<1>5. Processes(after, a, h, qcs, "write")
  BY <1>4, ProcessLoop
<1> HIDE DEF after
<1>6. ASSUME NEW i \in State PROVE Invalid(i).cache = i.cache
  BY SetOk DEF Invalid
<1>7. ASSUME ~(Len(qcs) > 1) PROVE Known(after[Len(qcs)], s.mined)
  <2>1. Len(qcs) = 0 \/ (Len(qcs) = 1 /\ 1 \in 1 .. Len(qcs) /\ 1 - 1 = 0)
    <3>1. (\A n \in Nat : ~(n > 1) => n = 0 \/ n = 1) /\ 1 \in 1 .. 1 /\ 1 - 1 = 0
      BY SMTT(30)
    <3> QED
      BY <1>4, <1>7, <3>1
  <2>2. CASE Len(qcs) = 0
    BY <1>2, <1>5, <2>2 DEF Processes
  <2>3. CASE Len(qcs) = 1 /\ 1 \in 1 .. Len(qcs) /\ 1 - 1 = 0
    <3>1. after[1] = ProcessCommitment(a, h, qcs[1], "write") /\ qcs[1] \in Commitment
      BY <1>4, <1>5, <2>3 DEF Processes
    <3>2. Known(ProcessCommitment(a, h, qcs[1], "write"), a.mined)
      BY <1>0, <1>1, <1>2, <3>1, ProcessKnown
    <3> QED
      BY <1>2, <2>3, <3>1, <3>2
  <2> QED
    BY <2>1, <2>2, <2>3
<1> QED
  BY <1>1, <1>2, <1>3, <1>6, <1>7 DEF Known

\* The cache knows no commitment that could be rolled back.
KnownInv == Known(Now, Settled)

\* A step that leaves the database, and what the cache knows of it, alone
LEMMA QuietKnown ==
  ASSUME UNCHANGED <<connecting, saved>>, mined' = mined, Known(Now', Settled)
  PROVE KnownInv'
<1>1. Settled' = Settled
  BY DEF Settled
<1> QED
  BY <1>1 DEF KnownInv

LEMMA KnownNext ==
  ASSUME NEW st, Becomes(st), NEW M, Known(st, M)
  PROVE Known(Now', M)
  BY BecomesState DEF Known

\* Every step keeps the cache behind the database.
LEMMA KnownStep ==
  ASSUME UnderCsMain, ~Rotation, TypeInv, DbInv, KnownInv, [Next]_vars
  PROVE KnownInv'
<1>1. Now \in State /\ Now.mined = mined /\ Now.cache = hasMinedCommitmentCache
  BY NowFields DEF TypeInv
<1>2. ASSUME hasMinedCommitmentCache' = hasMinedCommitmentCache, NEW M, Known(Now, M) PROVE Known(Now', M)
  BY <1>1, <1>2, NextFields DEF Known
<1>3. ASSUME hasMinedCommitmentCache' = hasMinedCommitmentCache, UNCHANGED <<connecting, saved>>, mined' = mined
      PROVE KnownInv'
  BY <1>2, <1>3, QuietKnown DEF KnownInv
<1>4. CASE ConnectBase \/ DisconnectBase
  BY <1>3, <1>4 DEF ConnectBase, DisconnectBase, evoDb
<1>5. CASE ConnectBlock
  <2>1. PICK qcs \in BlockCommitments :
          LET st == ProcessBlock(Now, qcs, "write") IN
          IF st.ok
          THEN Becomes(st) /\ connecting' = qcs /\ saved' = evoDb /\ UNCHANGED failures
          ELSE /\ failures < MaxFailures
               /\ failures' = failures + 1
               /\ Becomes([st EXCEPT !.mined = mined, !.byHeight = byHeight])
               /\ UNCHANGED <<connecting, saved>>
    BY <1>5 DEF ConnectBlock
  <2> DEFINE st == ProcessBlock(Now, qcs, "write")
  <2>2. qcs \in Seq(Commitment) /\ qcs # None /\ Height \in Nat /\ connecting = None
    BY <1>5, BlocksAre, BlocksOfChain DEF Height, TypeInv, ConnectBlock, CsMain
  <2>3. Known(Now, Now.mined)
    BY <1>1, <2>2 DEF KnownInv, Settled
  <2>4. Known(st, mined)
    BY <1>1, <2>2, <2>3, BlockKnown
  <2>5. st \in State
    BY <1>1, <2>2, ProcessBlockState
  <2>6. mined \in MinedMap /\ byHeight \in SUBSET (Nat \X Indexes)
    BY <1>1, NowFields
  <2> HIDE DEF st
  <2>7. CASE st.ok
    <3>1. Becomes(st) /\ connecting' = qcs /\ saved' = <<mined, byHeight>>
      BY <2>1, <2>7 DEF st, evoDb
    <3>2. Settled' = mined
      BY <2>2, <3>1 DEF Settled
    <3>3. Known(Now', mined)
      BY <2>4, <3>1, KnownNext
    <3> QED
      BY <3>2, <3>3 DEF KnownInv
  <2>8. CASE ~st.ok
    <3> DEFINE r1 == [st EXCEPT !.mined = mined]
               r == [r1 EXCEPT !.byHeight = byHeight]
    <3>1. Becomes(r) /\ connecting' = connecting /\ saved' = saved
      BY <2>1, <2>8 DEF st
    <3>2. r1 \in State /\ r1.mined = mined /\ r1.cache = st.cache
      BY <2>5, <2>6, SetMined
    <3> HIDE DEF r1
    <3>3. r.mined = mined /\ r.cache = st.cache
      BY <2>6, <3>2, SetByHeight
    <3> HIDE DEF r
    <3>4. Known(r, mined)
      BY <2>4, <3>3 DEF Known
    <3>5. mined' = mined /\ Known(Now', mined)
      BY <3>1, <3>3, <3>4, KnownNext DEF Becomes
    <3> QED
      BY <2>2, <3>1, <3>5, QuietKnown DEF Settled
  <2> QED
    BY <2>7, <2>8
<1>6. CASE CommitBlock
  <2>1. connecting # None /\ connecting' = None /\ mined' = mined /\ hasMinedCommitmentCache' = hasMinedCommitmentCache
    BY <1>6 DEF CommitBlock, evoDb
  <2>2. Known(Now, mined)
    BY <2>1 DEF KnownInv, Known, Settled, DbInv
  <2>3. Settled' = mined
    BY <2>1 DEF Settled
  <2> QED
    BY <1>2, <2>1, <2>2, <2>3 DEF KnownInv
<1>7. CASE RollbackBlock
  <2>1. connecting # None /\ connecting' = None /\ mined' = saved[1] /\ hasMinedCommitmentCache' = hasMinedCommitmentCache
    BY <1>7 DEF RollbackBlock
  <2>2. Settled' = Settled
    BY <2>1 DEF Settled
  <2> QED
    BY <1>2, <2>1, <2>2 DEF KnownInv
<1>8. CASE DisconnectBlock
  <2> DEFINE b == chain[Height]
             st == UndoCommitments(Now, Height, b)[Len(b)]
  <2>1. connecting = None /\ UNCHANGED <<connecting, saved>> /\ Becomes(st) /\ chain # <<>>
    BY <1>8 DEF DisconnectBlock, CsMain
  <2>2. chain \in Seq(AcceptedBlock) /\ Height \in Nat
    BY BlocksOfChain DEF TypeInv, Height
  <2>3. Height \in 1 .. Len(chain)
    BY <2>1, <2>2, BlocksOfChain, ChainsAre DEF Height
  <2>4. b \in Seq(Commitment) /\ \A k \in 1 .. Len(b) : b[k] \in Accepted
    BY <2>2, <2>3, BlocksOfChain
  <2> HIDE DEF b
  <2>5. Undone(Now, st, Height, b, Len(b))
    BY <1>1, <2>2, <2>4, UndoesAll
  <2> HIDE DEF st
  <2>6. Known(Now, mined)
    BY <2>1 DEF KnownInv, Settled
  <2>7. Known(st, st.mined)
    BY <1>1, <2>5, <2>6 DEF Known, Undone
  <2>8. Settled' = st.mined
    BY <2>1 DEF Settled, Becomes
  <2> QED
    BY <2>1, <2>7, <2>8, KnownNext DEF KnownInv
<1>9. ASSUME NEW st, Becomes(st), Reads(Now, st), connecting = None, UNCHANGED <<connecting, saved>>
      PROVE KnownInv'
  <2>1. Known(Now, Now.mined)
    BY <1>1, <1>9 DEF KnownInv, Settled
  <2>2. Known(st, mined)
    BY <1>1, <1>9, <2>1, ReadsKnown
  <2>3. mined' = mined /\ Settled = mined
    BY <1>1, <1>9 DEF Becomes, Reads, Settled
  <2>4. Known(Now', Settled)
    BY <1>9, <2>2, <2>3, KnownNext
  <2> QED
    BY <1>9, <2>3, <2>4, QuietKnown
<1>10. CASE CreateNewBlock
  <2> DEFINE r == ProcessBlock(Now, GetMineableCommitments, "check")
             st == [r EXCEPT !.ok = TRUE]
  <2>1. base \in Bases /\ Height \in Nat
    BY <1>10, BlocksOfChain DEF CreateNewBlock, TypeInv, Height
  <2>2. r \in State /\ Reads(Now, r)
    BY <1>1, <2>1, MineableAccepted
  <2>3. Becomes(st) /\ UNCHANGED <<connecting, saved>> /\ connecting = None
    BY <1>10 DEF CreateNewBlock, CsMain
  <2> HIDE DEF r
  <2>4. Reads(r, st) /\ Reads(Now, st)
    <3>1. st.mined = r.mined /\ st.byHeight = r.byHeight /\ st.cache = r.cache
          /\ st.minable = r.minable /\ st.byQuorum = r.byQuorum
      BY <2>2, SetOk
    <3> HIDE DEF st
    <3> QED
      BY <2>2, <3>1 DEF Reads
  <2> HIDE DEF st
  <2> QED
    BY <1>9, <2>3, <2>4
<1>11. CASE ReceiveCommitment
  <2>1. PICK qc \in Verified : Becomes(Asked(Now, qc.quorum))
    BY <1>11 DEF ReceiveCommitment
  <2>2. Reads(Now, Asked(Now, qc.quorum))
    BY <1>1, AskedReads, CommitmentsAre
  <2>3. UNCHANGED <<connecting, saved>> /\ connecting = None
    BY <1>11 DEF ReceiveCommitment, CsMain
  <2> QED
    BY <1>9, <2>1, <2>2, <2>3
<1>12. ASSUME NEW qc \in Verified, Becomes(Now) \/ Becomes(AddMineableCommitment(Now, qc))
       PROVE mined' = mined /\ hasMinedCommitmentCache' = hasMinedCommitmentCache
  <2> DEFINE a == AddMineableCommitment(Now, qc)
  <2>1. a.mined = Now.mined /\ a.cache = Now.cache
    BY <1>1, AddIs
  <2> HIDE DEF a
  <2>2. Becomes(Now) \/ Becomes(a)
    BY <1>12 DEF a
  <2> QED
    BY <2>1, <2>2, NowFields DEF Becomes
<1>13. CASE ProcessMessage
  <2>1. received \in Verified /\ (Becomes(Now) \/ Becomes(AddMineableCommitment(Now, received)))
    BY <1>13 DEF ProcessMessage, TypeInv
  <2>2. UNCHANGED <<connecting, saved>>
    BY <1>13 DEF ProcessMessage
  <2> QED
    BY <1>3, <1>12, <2>1, <2>2
<1>14. CASE FinalizeCommitments
  <2>1. PICK qc \in Verified : Becomes(AddMineableCommitment(Now, qc))
    BY <1>14 DEF FinalizeCommitments
  <2>2. UNCHANGED <<connecting, saved>>
    BY <1>14 DEF FinalizeCommitments
  <2> QED
    BY <1>3, <1>12, <2>1, <2>2
<1>15. ASSUME NEW t \in Threads, GetQuorumRead(t) PROVE KnownInv'
  BY <1>3, <1>15 DEF GetQuorumRead, evoDb
<1>16. ASSUME NEW t \in Threads, GetQuorumCache(t) PROVE KnownInv'
  <2> DEFINE q == getQuorum[t].quorum
             v == IF getQuorum[t].exists THEN "yes" ELSE "no"
  <2>1. UNCHANGED <<connecting, saved>> /\ mined' = mined /\ getQuorum[t] # None
        /\ hasMinedCommitmentCache' = [hasMinedCommitmentCache EXCEPT ![q] = v]
    BY <1>16 DEF GetQuorumCache, evoDb
  <2>2. connecting = None /\ (getQuorum[t].exists <=> mined[q] # None)
    BY <2>1 DEF DbInv, ReadsCurrent
  <2>3. v = "yes" => mined[q] # None
    BY <2>2
  <2>4. DOMAIN hasMinedCommitmentCache = Quorums
    BY <1>1, NowFields
  <2>5. Known(Now, mined) /\ Settled = mined
    BY <2>2 DEF KnownInv, Settled
  <2> HIDE DEF v, q
  <2>6. \A p \in Quorums : hasMinedCommitmentCache'[p] = IF p = q THEN v ELSE hasMinedCommitmentCache[p]
    BY <2>1, <2>4
  <2>7. Known(Now', mined)
    BY <1>1, <2>3, <2>5, <2>6, NextFields DEF Known
  <2> QED
    BY <2>1, <2>5, <2>7, QuietKnown
<1>17. CASE UNCHANGED vars
  BY <1>3, <1>17 DEF vars, evoDb
<1> QED
  BY <1>4, <1>5, <1>6, <1>7, <1>8, <1>10, <1>11, <1>13, <1>14, <1>15, <1>16, <1>17 DEF Next

LEMMA KnownInvariant ==
  ASSUME UnderCsMain, ~Rotation PROVE Spec => [](TypeInv /\ DbInv /\ KnownInv)
<1>1. Init => KnownInv
  <2> SUFFICES ASSUME Init PROVE KnownInv
    OBVIOUS
  <2>1. \A q \in Quorums : Now.cache[q] = "unknown"
    BY NowFields DEF Init
  <2> QED
    BY <2>1 DEF KnownInv, Known
<1>2. TypeInv /\ DbInv /\ KnownInv /\ [Next]_vars => KnownInv'
  BY KnownStep
<1> QED
  BY <1>1, <1>2, DbInvariant, PTL DEF Spec

\* What HasMinedCommitment returns is what is in the database.
LEMMA HasMinedIs ==
  ASSUME TypeInv, DbInv, KnownInv, connecting = None, NEW q \in Quorums
  PROVE HasMinedCommitment(Now, q) <=> mined[q] # None
<1>1. Now \in State /\ Now.mined = mined
  BY NowFields DEF TypeInv
<1>2. Now.cache[q] \in {"unknown", "yes", "no"}
  BY <1>1, StateFields
<1>3. Now.cache[q] = "yes" => mined[q] # None
  BY DEF KnownInv, Known, Settled
<1>4. Now.cache[q] = "no" => mined[q] = None
  BY <1>1 DEF DbInv, NoneMissed
<1> QED
  BY <1>1, <1>2, <1>3, <1>4 DEF HasMinedCommitment

\* HasMinedCommitment says of every quorum whether a block of the active chain has a
\* commitment to it, after every reorg and every block that was rolled back, as long as
\* every thread that asks holds cs_main and a block has one commitment at most.
THEOREM CacheAgrees ==
  ASSUME UnderCsMain, ~Rotation PROVE Spec => []CacheMatchesChain
<1>1. ASSUME TypeInv, DbInv, KnownInv PROVE CacheMatchesChain
  <2> SUFFICES ASSUME CsMain, NEW q \in Quorums
               PROVE HasMinedCommitment(Now, q) <=> \E m \in MinedOnChain : m[2].quorum = q
    BY DEF CacheMatchesChain
  <2>1. connecting = None /\ OnChain(chain, mined)
    BY <1>1 DEF CsMain, DbInv, View
  <2>2. HasMinedCommitment(Now, q) <=> mined[q] # None
    BY <1>1, <2>1, HasMinedIs
  <2>3. \A p \in Quorums : mined[p] # None => mined[p].qc.quorum = p
    BY <1>1, NowFields DEF TypeInv, MinedMap
  <2>4. \A x : x \in MinedOnChain <=> \E p \in Quorums : mined[p] # None /\ x = <<mined[p].height, mined[p].qc>>
    BY <1>1, <2>1, MinedOnChainIs
  <2>5. ASSUME mined[q] # None PROVE \E m \in MinedOnChain : m[2].quorum = q
    <3> DEFINE m == <<mined[q].height, mined[q].qc>>
    <3>1. m \in MinedOnChain /\ m[2] = mined[q].qc
      BY <2>4, <2>5
    <3> HIDE DEF m
    <3> QED
      BY <2>3, <2>5, <3>1
  <2>6. ASSUME NEW m \in MinedOnChain, m[2].quorum = q PROVE mined[q] # None
    <3>1. PICK p \in Quorums : mined[p] # None /\ m = <<mined[p].height, mined[p].qc>>
      BY <2>4
    <3>2. m[2] = mined[p].qc
      BY <3>1
    <3> QED
      BY <2>3, <2>6, <3>1, <3>2
  <2> QED
    BY <2>2, <2>5, <2>6
<1> QED
  BY <1>1, KnownInvariant, PTL

-----------------------------------------------------------------------------
(***************************************************************************)
(* One commitment until one is mined, without rotation                     *)
(***************************************************************************)

\* A block of V below h has a commitment that is not null.
CommittedBefore(V, h) ==
  \E g \in 1 .. Len(V) : g < h /\ \E k \in 1 .. Len(V[g]) : ~IsNull(V[g][k])

\* How many commitments a block at height h of V has
Needed(V, h) == IF IsMiningPhase(h) /\ ~CommittedBefore(V, h) THEN 1 ELSE 0

\* Every block of V has its commitments, all of them to the quorum of the cycle.
OneEach(V, b) ==
  \A h \in 1 .. Len(V) :
    /\ Len(V[h]) = Needed(V, h)
    /\ \A k \in 1 .. Len(V[h]) : V[h][k].quorum = <<b, 0>>

\* What a block needs depends on the blocks below it.
LEMMA NeededBelow ==
  ASSUME NEW V \in Chains, NEW W \in Chains, NEW h \in Nat,
         \A g \in Nat : 1 <= g /\ g < h =>
           (g \in 1 .. Len(V) <=> g \in 1 .. Len(W)) /\ (g \in 1 .. Len(V) => V[g] = W[g])
  PROVE Needed(V, h) = Needed(W, h)
<1>1. Len(V) \in Nat /\ Len(W) \in Nat
  BY ChainsAre
<1>2. \A n \in Nat : \A g \in 1 .. n : g \in Nat /\ 1 <= g
  BY SMTT(30)
<1>3. CommittedBefore(V, h) <=> CommittedBefore(W, h)
  BY <1>1, <1>2 DEF CommittedBefore
<1> QED
  BY <1>3 DEF Needed

\* A block is removed, or was never committed.
LEMMA OneEachBelow ==
  ASSUME NEW V \in Chains, NEW W \in Chains, NEW b, OneEach(V, b), Len(W) <= Len(V),
         \A h \in 1 .. Len(W) : W[h] = V[h]
  PROVE OneEach(W, b)
<1>1. Len(V) \in Nat /\ Len(W) \in Nat
  BY ChainsAre
<1>2. \A m, n \in Nat : m <= n =>
        /\ \A h \in 1 .. m : h \in 1 .. n /\ h \in Nat
        /\ \A h \in 1 .. m : \A g \in Nat : 1 <= g /\ g < h => g \in 1 .. n /\ g \in 1 .. m
  BY SMTT(30)
<1>3. ASSUME NEW h \in 1 .. Len(W) PROVE Needed(V, h) = Needed(W, h)
  <2>1. h \in Nat
    BY <1>1, <1>2
  <2>2. \A g \in Nat : 1 <= g /\ g < h =>
          (g \in 1 .. Len(V) <=> g \in 1 .. Len(W)) /\ (g \in 1 .. Len(V) => V[g] = W[g])
    BY <1>1, <1>2
  <2> QED
    BY <2>1, <2>2, NeededBelow
<1> QED
  BY <1>1, <1>2, <1>3 DEF OneEach

\* A block is connected.
LEMMA OneEachAppend ==
  ASSUME NEW V \in Chains, NEW b, NEW qcs \in Seq(Commitment), OneEach(V, b),
         Len(qcs) = Needed(V, Len(V) + 1), \A k \in 1 .. Len(qcs) : qcs[k].quorum = <<b, 0>>
  PROVE OneEach(Append(V, qcs), b)
<1> DEFINE W == Append(V, qcs)
           n == Len(V) + 1
<1>1. /\ W \in Chains /\ Len(W) = n /\ W[n] = qcs /\ n \in Nat
      /\ \A h \in 1 .. Len(V) : W[h] = V[h] /\ h \in 1 .. n /\ h \in Nat
      /\ \A h \in 1 .. n : h \in 1 .. Len(V) \/ h = n
  BY ChainsAre
<1>2. \A h \in Nat, m \in Nat : h \in 1 .. m + 1 =>
        \A g \in Nat : 1 <= g /\ g < h => g \in 1 .. m /\ g \in 1 .. m + 1
  BY SMTT(30)
<1>3. Len(V) \in Nat
  BY ChainsAre
<1>4. ASSUME NEW h \in 1 .. n PROVE Needed(V, h) = Needed(W, h)
  <2>1. h \in Nat
    BY <1>1
  <2>2. \A g \in Nat : 1 <= g /\ g < h => g \in 1 .. Len(V) /\ g \in 1 .. n
    BY <1>2, <1>3, <2>1
  <2>3. \A g \in Nat : 1 <= g /\ g < h =>
          (g \in 1 .. Len(V) <=> g \in 1 .. Len(W)) /\ (g \in 1 .. Len(V) => V[g] = W[g])
    BY <1>1, <2>2
  <2> HIDE DEF W, n
  <2> QED
    BY <1>1, <2>1, <2>3, NeededBelow
<1> SUFFICES OneEach(W, b)
  OBVIOUS
<1>5. Len(qcs) = Needed(V, n)
  OBVIOUS
<1> HIDE DEF W, n
<1>6. ASSUME NEW h \in 1 .. n
      PROVE Len(W[h]) = Needed(W, h) /\ \A k \in 1 .. Len(W[h]) : W[h][k].quorum = <<b, 0>>
  <2>1. CASE h \in 1 .. Len(V)
    BY <1>1, <1>4, <2>1 DEF OneEach
  <2>2. CASE h = n
    BY <1>1, <1>4, <1>5, <2>2
  <2> QED
    BY <1>1, <2>1, <2>2
<1> QED
  BY <1>1, <1>6 DEF OneEach

OneInv == OneEach(View, base) /\ (View # <<>> => base # None)

\* How many commitments ProcessBlock wants
LEMMA RequiredIs ==
  ASSUME ~Rotation, TypeInv, DbInv, KnownInv, OneInv, connecting = None, base # None
  PROVE Cardinality(Required(Now, Height + 1)) = Needed(chain, Height + 1)
<1> DEFINE h == Height + 1
           q == <<base, 0>>
<1>1. Indexes = {0} /\ q \in Quorums
  BY IndexesAre DEF TypeInv, QuorumAt
<1>2. HasMinedCommitment(Now, q) <=> mined[q] # None
  BY <1>1, HasMinedIs
<1>3. chain \in Chains /\ OnChain(chain, mined) /\ OneEach(chain, base) /\ mined \in MinedMap
  BY BlocksOfChain, NowFields DEF TypeInv, DbInv, OneInv, View
<1>4. \A g \in 1 .. Len(chain) : g < h /\ g \in Nat
  <2>1. \A n \in Nat : \A g \in 1 .. n : g < n + 1 /\ g \in Nat
    BY SMTT(30)
  <2> QED
    BY <1>3, <2>1, ChainsAre DEF Height
<1>5. mined[q] # None <=> CommittedBefore(chain, h)
  <2> HIDE DEF h, q
  <2>1. ASSUME mined[q] # None PROVE CommittedBefore(chain, h)
    <3>1. PICK g \in 1 .. Len(chain) : \E k \in 1 .. Len(chain[g]) : chain[g][k] = mined[q].qc
      BY <1>1, <1>3, <2>1 DEF OnChain
    <3>2. mined[q].qc \in Verified
      BY <1>1, <1>3, <2>1 DEF MinedMap, MinedCommitment
    <3>3. ~IsNull(mined[q].qc)
      BY <3>2, CommitmentsAre
    <3> QED
      BY <1>4, <3>1, <3>3 DEF CommittedBefore
  <2>2. ASSUME CommittedBefore(chain, h) PROVE mined[q] # None
    <3>1. PICK g \in 1 .. Len(chain) : \E k \in 1 .. Len(chain[g]) : ~IsNull(chain[g][k])
      BY <2>2 DEF CommittedBefore
    <3>2. PICK k \in 1 .. Len(chain[g]) : ~IsNull(chain[g][k])
      BY <3>1
    <3>3. chain[g][k] \in Verified /\ mined[chain[g][k].quorum] = [qc |-> chain[g][k], height |-> g]
      BY <1>3, <3>2 DEF OnChain
    <3>4. chain[g][k].quorum = q
      BY <1>3 DEF OneEach, q
    <3>5. [qc |-> chain[g][k], height |-> g] # None
      BY <1>4, <3>3, RecordIs
    <3> QED
      BY <3>3, <3>4, <3>5
  <2> QED
    BY <2>1, <2>2
<1>6. Required(Now, h) = IF IsMiningPhase(h) /\ ~HasMinedCommitment(Now, q) THEN {0} ELSE {}
  BY <1>1 DEF Required, QuorumAt
<1>7. Cardinality({0}) = 1 /\ Cardinality({}) = 0
  BY FS_Singleton, FS_EmptySet
<1> HIDE DEF h, q
<1>8. Cardinality(Required(Now, h)) = Needed(chain, h)
  BY <1>2, <1>5, <1>6, <1>7 DEF Needed
<1> QED
  BY <1>8 DEF h

\* Every step keeps one commitment in each block that needs one.
LEMMA OneStep ==
  ASSUME UnderCsMain, ~Rotation, TypeInv, DbInv, KnownInv, OneInv, [Next]_vars
  PROVE OneInv'
<1>1. chain \in Seq(AcceptedBlock) /\ chain \in Chains /\ Now \in State /\ Height \in Nat
  BY BlocksOfChain DEF TypeInv, Height
<1>2. ASSUME UNCHANGED <<base, chain, connecting>> PROVE OneInv'
  BY <1>2 DEF OneInv, View
<1>3. CASE ConnectBase \/ DisconnectBase
  <2>1. chain = <<>> /\ connecting = None /\ UNCHANGED <<chain, connecting>>
    BY <1>3 DEF ConnectBase, DisconnectBase, CsMain, OneInv, View
  <2>2. View' = <<>> /\ Len(<<>>) = 0 /\ \A h : h \notin 1 .. 0
    BY <2>1, EmptySeq, SMTT(30) DEF View
  <2> QED
    BY <2>2 DEF OneInv, OneEach
<1>4. CASE ConnectBlock
  <2>1. PICK qcs \in BlockCommitments :
          /\ \A k \in DOMAIN qcs : qcs[k].quorum \in {QuorumAt(i) : i \in Indexes}
          /\ LET st == ProcessBlock(Now, qcs, "write") IN
             IF st.ok THEN connecting' = qcs ELSE UNCHANGED connecting
    BY <1>4 DEF ConnectBlock
  <2>2. qcs \in Seq(Commitment) /\ qcs # None /\ DOMAIN qcs = 1 .. Len(qcs)
    BY BlocksAre
  <2>3. connecting = None /\ base # None /\ UNCHANGED <<base, chain>>
    BY <1>4 DEF ConnectBlock, CsMain
  <2>4. \A k \in 1 .. Len(qcs) : qcs[k].quorum = <<base, 0>>
    BY <2>1, <2>2, IndexesAre DEF QuorumAt
  <2> DEFINE st == ProcessBlock(Now, qcs, "write")
  <2>5. CASE st.ok
    <3>1. Cardinality(Required(Now, Height + 1)) = Len(qcs)
      <4> DEFINE a == AskedAll(Now, Height + 1)
      <4>1. st = Invalid(Now) \/ st = Invalid(a) \/ Cardinality(Required(Now, Height + 1)) = Len(qcs)
        BY DEF ProcessBlock
      <4>2. a \in State
        BY <1>1, AskedAllReads
      <4> HIDE DEF a, st
      <4>3. ~Invalid(Now).ok /\ ~Invalid(a).ok
        BY <1>1, <4>2, SetOk DEF Invalid
      <4> QED
        BY <2>5, <4>1, <4>3
    <3>2. Len(qcs) = Needed(chain, Len(chain) + 1)
      BY <2>3, <3>1, RequiredIs DEF Height
    <3>3. OneEach(chain, base)
      BY <2>3 DEF OneInv, View
    <3>4. OneEach(Append(chain, qcs), base)
      BY <1>1, <2>2, <2>4, <3>2, <3>3, OneEachAppend
    <3>5. View' = Append(chain, qcs)
      BY <2>1, <2>2, <2>3, <2>5 DEF View
    <3> QED
      BY <2>3, <3>4, <3>5 DEF OneInv
  <2>6. CASE ~st.ok
    BY <1>2, <2>1, <2>3, <2>6
  <2> QED
    BY <2>5, <2>6
<1>5. CASE CommitBlock
  <2>1. connecting # None /\ chain' = Append(chain, connecting) /\ connecting' = None /\ base' = base
    BY <1>5 DEF CommitBlock
  <2>2. View' = View
    BY <2>1 DEF View
  <2> QED
    BY <2>1, <2>2 DEF OneInv
<1>6. CASE RollbackBlock
  <2>1. connecting # None /\ chain' = chain /\ connecting' = None /\ base' = base
    BY <1>6 DEF RollbackBlock
  <2>2. connecting \in Seq(Commitment)
    BY <2>1, BlocksOfChain DEF TypeInv
  <2>3. View = Append(chain, connecting) /\ View' = chain
    BY <2>1 DEF View
  <2>4. /\ View \in Chains /\ Len(View) = Len(chain) + 1 /\ Len(chain) \in Nat
        /\ \A h \in 1 .. Len(chain) : chain[h] = View[h]
    BY <1>1, <2>2, <2>3, ChainsAre
  <2>5. Len(chain) <= Len(View)
    <3>1. \A n \in Nat : n <= n + 1
      BY SMTT(30)
    <3> QED
      BY <2>4, <3>1
  <2>6. OneEach(View, base) /\ (View # <<>> => base # None)
    BY DEF OneInv
  <2>7. OneEach(chain, base)
    BY <1>1, <2>4, <2>5, <2>6, OneEachBelow
  <2>8. View # <<>>
    <3>1. \A n \in Nat : n + 1 # 0
      BY SMTT(30)
    <3> QED
      BY <2>4, <3>1, EmptySeq
  <2> QED
    BY <2>1, <2>3, <2>6, <2>7, <2>8 DEF OneInv
<1>7. CASE DisconnectBlock
  <2>1. connecting = None /\ chain # <<>> /\ UNCHANGED <<base, connecting>>
        /\ chain' = SubSeq(chain, 1, Len(chain) - 1)
    BY <1>7 DEF DisconnectBlock, CsMain, Height
  <2> DEFINE W == SubSeq(chain, 1, Len(chain) - 1)
  <2>2. /\ W \in Chains /\ Len(W) = Len(chain) - 1 /\ Len(chain) \in Nat
        /\ \A h \in 1 .. Len(chain) - 1 : W[h] = chain[h]
    BY <1>1, <2>1, ChainsAre
  <2>3. Len(W) <= Len(chain)
    <3>1. \A n \in Nat : n - 1 <= n
      BY SMTT(30)
    <3> QED
      BY <2>2, <3>1
  <2>4. OneEach(chain, base) /\ base # None
    BY <2>1 DEF OneInv, View
  <2> HIDE DEF W
  <2>5. OneEach(W, base)
    BY <1>1, <2>2, <2>3, <2>4, OneEachBelow
  <2>6. View' = W
    BY <2>1 DEF View, W
  <2> QED
    BY <2>1, <2>4, <2>5, <2>6 DEF OneInv
<1>8. CASE CreateNewBlock \/ ReceiveCommitment \/ ProcessMessage \/ FinalizeCommitments
  BY <1>2, <1>8 DEF CreateNewBlock, ReceiveCommitment, ProcessMessage, FinalizeCommitments
<1>9. ASSUME NEW t \in Threads, GetQuorumRead(t) \/ GetQuorumCache(t) PROVE OneInv'
  BY <1>2, <1>9 DEF GetQuorumRead, GetQuorumCache
<1>10. CASE UNCHANGED vars
  BY <1>2, <1>10 DEF vars
<1> QED
  BY <1>3, <1>4, <1>5, <1>6, <1>7, <1>8, <1>9, <1>10 DEF Next

\* "There is always a (possibly null) commitment while in the mining phase until the
\* first non-null commitment has been mined" (ProcessBlock): every block of the active
\* chain has the one it needs and no other, as long as every thread that asks for a
\* quorum holds cs_main and a block has one commitment at most.
THEOREM OneCommitment ==
  ASSUME UnderCsMain, ~Rotation PROVE Spec => []OneCommitmentUntilMined
<1>1. Init => OneInv
  <2> SUFFICES ASSUME Init PROVE OneInv
    OBVIOUS
  <2>1. View = <<>> /\ Len(<<>>) = 0 /\ \A h : h \notin 1 .. 0
    BY EmptySeq, SMTT(30) DEF View, Init
  <2> QED
    BY <2>1 DEF OneInv, OneEach
<1>2. TypeInv /\ DbInv /\ KnownInv /\ OneInv /\ [Next]_vars => OneInv'
  BY OneStep
<1>3. ASSUME TypeInv, OneInv PROVE OneCommitmentUntilMined
  <2>1. chain \in Chains /\ DOMAIN chain = 1 .. Len(chain) /\ Indexes = {0}
    BY <1>3, BlocksOfChain, ChainsAre, IndexesAre DEF TypeInv
  <2>2. OneEach(chain, base)
    <3>1. CASE connecting = None
      BY <1>3, <3>1 DEF OneInv, View
    <3>2. CASE connecting # None
      <4>1. connecting \in Seq(Commitment) /\ View = Append(chain, connecting)
        BY <1>3, <3>2, BlocksOfChain DEF TypeInv, View
      <4>2. /\ View \in Chains /\ Len(View) = Len(chain) + 1 /\ Len(chain) \in Nat
            /\ \A h \in 1 .. Len(chain) : chain[h] = View[h]
        BY <2>1, <4>1, ChainsAre
      <4>3. Len(chain) <= Len(View)
        <5>1. \A n \in Nat : n <= n + 1
          BY SMTT(30)
        <5> QED
          BY <4>2, <5>1
      <4>4. OneEach(View, base)
        BY <1>3 DEF OneInv
      <4> QED
        BY <2>1, <4>2, <4>3, <4>4, OneEachBelow
    <3> QED
      BY <3>1, <3>2
  <2> DEFINE Before(h) == \E m \in MinedOnChain : m[1] < h /\ m[2].quorum = QuorumAt(0)
             Here(h) == {k \in DOMAIN chain[h] : chain[h][k].quorum = QuorumAt(0)}
  <2> SUFFICES ASSUME NEW h \in 1 .. Len(chain)
               PROVE Cardinality(Here(h)) = IF IsMiningPhase(h) /\ ~Before(h) THEN 1 ELSE 0
    BY <2>1 DEF OneCommitmentUntilMined
  <2>3. Before(h) <=> CommittedBefore(chain, h)
    <3>1. ASSUME NEW m \in MinedOnChain, m[1] < h PROVE CommittedBefore(chain, h)
      <4>1. PICK g \in 1 .. Len(chain) : \E k \in 1 .. Len(chain[g]) : ~IsNull(chain[g][k]) /\ m = <<g, chain[g][k]>>
        BY <1>3, MinedOnChainBlocks
      <4>2. PICK k \in 1 .. Len(chain[g]) : ~IsNull(chain[g][k]) /\ m = <<g, chain[g][k]>>
        BY <4>1
      <4>3. m[1] = g
        BY <4>2
      <4> QED
        BY <3>1, <4>2, <4>3 DEF CommittedBefore
    <3>2. ASSUME CommittedBefore(chain, h) PROVE Before(h)
      <4>1. PICK g \in 1 .. Len(chain) : g < h /\ \E k \in 1 .. Len(chain[g]) : ~IsNull(chain[g][k])
        BY <3>2 DEF CommittedBefore
      <4>2. PICK k \in 1 .. Len(chain[g]) : ~IsNull(chain[g][k])
        BY <4>1
      <4> DEFINE m == <<g, chain[g][k]>>
      <4>3. m \in MinedOnChain
        <5>1. \E i \in 1 .. Len(chain) : \E j \in 1 .. Len(chain[i]) : ~IsNull(chain[i][j]) /\ m = <<i, chain[i][j]>>
          BY <4>2
        <5> HIDE DEF m
        <5> QED
          BY <1>3, <5>1, MinedOnChainBlocks
      <4>4. m[1] = g /\ m[2] = chain[g][k]
        OBVIOUS
      <4>5. chain[g][k].quorum = QuorumAt(0)
        BY <2>2 DEF OneEach, QuorumAt
      <4> HIDE DEF m
      <4> QED
        BY <4>1, <4>3, <4>4, <4>5
    <3> QED
      BY <3>1, <3>2
  <2>4. Here(h) = 1 .. Len(chain[h])
    <3>1. DOMAIN chain[h] = 1 .. Len(chain[h])
      BY <2>1, ChainsAre, BlocksAre
    <3> QED
      BY <2>2, <3>1 DEF OneEach, QuorumAt
  <2>5. Len(chain[h]) = Needed(chain, h)
    BY <2>2 DEF OneEach
  <2>6. Cardinality(1 .. 1) = 1 /\ Cardinality(1 .. 0) = 0
    <3>1. 1 .. 1 = {1} /\ 1 .. 0 = {}
      BY SMTT(30)
    <3> QED
      BY <3>1, FS_Singleton, FS_EmptySet
  <2> HIDE DEF Here, Before
  <2> QED
    BY <2>3, <2>4, <2>5, <2>6 DEF Needed
<1> QED
  BY <1>1, <1>2, <1>3, KnownInvariant, PTL DEF Spec
============================================================================
