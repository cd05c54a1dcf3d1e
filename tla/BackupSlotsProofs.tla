-------------------------- MODULE BackupSlotsProofs --------------------------
(***************************************************************************)
(* Proofs about BackupSlots, for any number of backups and any limit: the  *)
(* counter is exact, and the slots implement SlotPool.                     *)
(***************************************************************************)
EXTENDS BackupSlots, FiniteSetTheorems, SequenceTheorems, TLAPS

\* Only a finite number of calls ever asks for a slot, whatever Sessions is.
SlotsInv ==
  /\ SlotsTypeOK
  /\ IsFiniteSet(Holders)
  /\ SlotsAccounted

-----------------------------------------------------------------------------
(***************************************************************************)
(* The inductive step.                                                     *)
(***************************************************************************)
LEMMA SlotsInvInit == SlotsInit => SlotsInv
<1> SUFFICES ASSUME SlotsInit PROVE SlotsInv
  OBVIOUS
<1> USE DEF SlotsInit
<1>1. Holders = {}
  BY DEF Holders
<1>2. IsFiniteSet(Holders) /\ Cardinality(Holders) = 0
  BY <1>1, FS_EmptySet
<1>3. waiters = <<>> /\ DOMAIN waiters = {}
  OBVIOUS
<1>4. SlotsAccounted
  BY <1>2, <1>3, BackupSlotsAssumption DEF SlotsAccounted
<1>5. SlotsTypeOK
  BY DEF SlotsTypeOK
<1> QED BY <1>2, <1>4, <1>5 DEF SlotsInv

LEMMA ReloadKeepsSlots == Reload => SlotsInv'
<1> SUFFICES ASSUME Reload PROVE SlotsInv'
  OBVIOUS
<1> USE DEF Reload
<1>1. Holders' = {}
  BY DEF Holders
<1>2. IsFiniteSet(Holders') /\ Cardinality(Holders') = 0
  BY <1>1, FS_EmptySet
<1>3. waiters' = <<>> /\ DOMAIN waiters' = {}
  OBVIOUS
<1>4. SlotsAccounted'
  BY <1>2, <1>3, BackupSlotsAssumption DEF SlotsAccounted
<1>5. SlotsTypeOK'
  BY DEF SlotsTypeOK
<1> QED BY <1>2, <1>4, <1>5 DEF SlotsInv

\* A call that takes a free slot.
LEMMA AcquireFree ==
  ASSUME SlotsInv, NEW s \in Sessions, Acquire(s), active < Limit
  PROVE  /\ Holders' = Holders \cup {s} /\ s \notin Holders
         /\ waiters = <<>> /\ waiters' = <<>>
         /\ SlotsInv'
<1> USE BackupSlotsAssumption
<1>1. /\ slot[s] = "none" /\ active' = active + 1 /\ waiters' = waiters
      /\ slot' = [slot EXCEPT ![s] = "held"]
  BY DEF Acquire, SlotsInv, SlotsTypeOK
<1>2. waiters = <<>>
  BY DEF SlotsInv, SlotsAccounted, SlotsTypeOK
<1>3. Holders' = Holders \cup {s} /\ s \notin Holders
  BY <1>1 DEF Holders, SlotsInv, SlotsTypeOK
<1>4. IsFiniteSet(Holders') /\ Cardinality(Holders') = Cardinality(Holders) + 1
  BY <1>3, FS_AddElement DEF SlotsInv
<1>5. SlotsTypeOK'
  BY <1>1 DEF SlotsInv, SlotsTypeOK
<1>6. \A t \in Sessions :
        slot'[t] = "waiting" <=> \E i \in DOMAIN waiters' : waiters'[i] = t
  BY <1>1 DEF SlotsInv, SlotsTypeOK, SlotsAccounted
<1>7. SlotsAccounted'
  BY <1>1, <1>2, <1>4, <1>6 DEF SlotsInv, SlotsTypeOK, SlotsAccounted
<1> QED BY <1>1, <1>2, <1>3, <1>4, <1>5, <1>7 DEF SlotsInv

\* A call that finds every slot taken.
LEMMA AcquireFull ==
  ASSUME SlotsInv, NEW s \in Sessions, Acquire(s), ~(active < Limit)
  PROVE  /\ Holders' = Holders /\ active = Limit /\ slot[s] = "none"
         /\ waiters' = Append(waiters, s)
         /\ SlotsInv'
<1> USE BackupSlotsAssumption
<1>1. /\ slot[s] = "none" /\ active' = active /\ waiters' = Append(waiters, s)
      /\ slot' = [slot EXCEPT ![s] = "waiting"]
  BY DEF Acquire, SlotsInv, SlotsTypeOK
<1>2. active = Limit
  BY DEF SlotsInv, SlotsAccounted, SlotsTypeOK
<1>3. Holders' = Holders
  BY <1>1 DEF Holders, SlotsInv, SlotsTypeOK
<1>4. SlotsTypeOK'
  BY <1>1 DEF SlotsInv, SlotsTypeOK
<1>5. /\ waiters \in Seq(Sessions) /\ Len(waiters) \in Nat
      /\ DOMAIN waiters = 1 .. Len(waiters) /\ DOMAIN waiters' = 1 .. (Len(waiters) + 1)
      /\ waiters'[Len(waiters) + 1] = s
      /\ \A i \in DOMAIN waiters : waiters'[i] = waiters[i]
  BY <1>1 DEF SlotsInv, SlotsTypeOK
<1>6. \A i \in DOMAIN waiters : waiters[i] # s
  BY <1>1 DEF SlotsInv, SlotsAccounted
<1>7. \A t \in Sessions :
        slot'[t] = "waiting" <=> \E i \in DOMAIN waiters' : waiters'[i] = t
  <2> TAKE t \in Sessions
  <2>1. CASE t = s
    BY <1>1, <1>5, <2>1 DEF SlotsInv, SlotsTypeOK
  <2>2. CASE t # s
    <3>1. slot'[t] = slot[t]
      BY <1>1, <2>2 DEF SlotsInv, SlotsTypeOK
    <3>2. (\E i \in DOMAIN waiters' : waiters'[i] = t)
             <=> \E i \in DOMAIN waiters : waiters[i] = t
      BY <1>5, <2>2
    <3> QED BY <3>1, <3>2 DEF SlotsInv, SlotsAccounted
  <2> QED BY <2>1, <2>2
<1>8. \A i, j \in DOMAIN waiters' : waiters'[i] = waiters'[j] => i = j
  BY <1>5, <1>6 DEF SlotsInv, SlotsAccounted
<1>9. SlotsAccounted'
  BY <1>1, <1>2, <1>3, <1>7, <1>8 DEF SlotsInv, SlotsAccounted
<1> QED BY <1>1, <1>2, <1>3, <1>4, <1>9 DEF SlotsInv

\* A slot that is handed over: the first waiter holds it, nobody else moves.
LEMMA ReleaseHandsOver ==
  ASSUME SlotsInv, NEW s \in Sessions, Release(s), waiters # <<>>
  PROVE  /\ s \in Holders /\ active = Limit
         /\ Head(waiters) \in Sessions \ Holders
         /\ Holders' = (Holders \ {s}) \cup {Head(waiters)}
         /\ waiters' = Tail(waiters)
         /\ SlotsInv'
<1> USE BackupSlotsAssumption
<1> DEFINE h == Head(waiters)
<1>1. /\ slot[s] = "held" /\ active' = active /\ waiters' = Tail(waiters)
      /\ slot' = [slot EXCEPT ![s] = "none", ![h] = "held"]
  BY DEF Release, SlotsInv, SlotsTypeOK
<1>2. /\ waiters \in Seq(Sessions) /\ Len(waiters) \in Nat \ {0}
      /\ DOMAIN waiters = 1 .. Len(waiters)
      /\ h = waiters[1] /\ h \in Sessions
  BY DEF SlotsInv, SlotsTypeOK
<1>3. slot[h] = "waiting" /\ h # s
  BY <1>1, <1>2 DEF SlotsInv, SlotsAccounted
<1>4. s \in Holders /\ active = Limit /\ h \in Sessions \ Holders
  BY <1>1, <1>2, <1>3 DEF Holders, SlotsInv, SlotsAccounted
<1>5. \A t \in Sessions : slot'[t] = IF t = h THEN "held" ELSE IF t = s THEN "none" ELSE slot[t]
  BY <1>1, <1>2, <1>3 DEF SlotsInv, SlotsTypeOK
<1>6. Holders' = (Holders \ {s}) \cup {h}
  BY <1>2, <1>5 DEF Holders
<1>7. IsFiniteSet(Holders') /\ Cardinality(Holders') = Cardinality(Holders)
  <2>1. /\ IsFiniteSet(Holders \ {s})
        /\ Cardinality(Holders \ {s}) = Cardinality(Holders) - 1
    BY <1>4, FS_RemoveElement DEF SlotsInv
  <2>2. h \notin Holders \ {s}
    BY <1>4
  <2>3. /\ IsFiniteSet((Holders \ {s}) \cup {h})
        /\ Cardinality((Holders \ {s}) \cup {h}) = Cardinality(Holders \ {s}) + 1
    BY <2>1, <2>2, FS_AddElement
  <2>4. Cardinality(Holders) \in Nat
    BY FS_CardinalityType DEF SlotsInv
  <2> QED BY <1>6, <2>1, <2>3, <2>4
<1>8. SlotsTypeOK'
  <2>1. slot' \in [Sessions -> {"none", "waiting", "held"}]
    BY <1>1, <1>2 DEF SlotsInv, SlotsTypeOK
  <2> QED BY <1>1, <1>2, <2>1, HeadTailProperties DEF SlotsInv, SlotsTypeOK
<1>9. /\ DOMAIN waiters' = 1 .. (Len(waiters) - 1)
      /\ \A i \in DOMAIN waiters' : i + 1 \in DOMAIN waiters /\ waiters'[i] = waiters[i + 1]
  BY <1>1, <1>2
<1>10. \A i, j \in DOMAIN waiters : waiters[i] = waiters[j] => i = j
  BY DEF SlotsInv, SlotsAccounted
<1>11. \A t \in Sessions :
         slot'[t] = "waiting" <=> \E i \in DOMAIN waiters' : waiters'[i] = t
  <2> TAKE t \in Sessions
  <2>1. CASE t = h
    <3>1. \A i \in DOMAIN waiters' : waiters'[i] # h
      BY <1>2, <1>9, <1>10
    <3> QED BY <1>5, <2>1, <3>1
  <2>2. CASE t # h
    <3>1. slot'[t] = "waiting" <=> slot[t] = "waiting"
      <4>1. slot'[t] = IF t = s THEN "none" ELSE slot[t]
        BY <1>5, <2>2
      <4> QED BY <1>1, <4>1
    <3>2. slot[t] = "waiting" <=> \E i \in DOMAIN waiters : waiters[i] = t
      BY DEF SlotsInv, SlotsAccounted
    <3>3. ASSUME NEW i \in DOMAIN waiters, waiters[i] = t
          PROVE  \E j \in DOMAIN waiters' : waiters'[j] = t
      <4>1. i # 1 /\ i - 1 \in DOMAIN waiters' /\ (i - 1) + 1 = i
        BY <1>2, <1>9, <2>2, <3>3
      <4> QED BY <1>9, <3>3, <4>1
    <3> QED BY <1>9, <3>1, <3>2, <3>3
  <2> QED BY <2>1, <2>2
<1>12. \A i, j \in DOMAIN waiters' : waiters'[i] = waiters'[j] => i = j
  BY <1>2, <1>9, <1>10
<1>13. SlotsAccounted'
  BY <1>1, <1>4, <1>7, <1>11, <1>12 DEF SlotsInv, SlotsAccounted
<1> QED BY <1>1, <1>4, <1>6, <1>7, <1>8, <1>13 DEF SlotsInv

\* A slot that nobody waits for.
LEMMA ReleaseFrees ==
  ASSUME SlotsInv, NEW s \in Sessions, Release(s), waiters = <<>>
  PROVE  /\ s \in Holders /\ Holders' = Holders \ {s}
         /\ waiters' = <<>>
         /\ SlotsInv'
<1>1. slot[s] = "held" /\ waiters' = waiters /\ slot' = [slot EXCEPT ![s] = "none"]
  BY DEF Release
<1>2. s \in Holders /\ Holders' = Holders \ {s}
  BY <1>1 DEF Holders, SlotsInv, SlotsTypeOK
<1>3. /\ IsFiniteSet(Holders') /\ Cardinality(Holders') = Cardinality(Holders) - 1
      /\ Cardinality(Holders') \in Nat
  BY <1>2, FS_RemoveElement, FS_CardinalityType DEF SlotsInv
<1>4. active' = active - 1 /\ active' = Cardinality(Holders')
  <2>1. active = Cardinality(Holders) /\ active \in Nat
    BY DEF SlotsInv, SlotsAccounted, SlotsTypeOK
  <2>2. active # 0
    BY <1>3, <2>1
  <2>3. active' = active - 1
    BY <2>2 DEF Release
  <2> QED BY <1>3, <2>1, <2>3
<1>5. SlotsTypeOK'
  BY <1>1, <1>3, <1>4 DEF SlotsInv, SlotsTypeOK
<1>6. \A t \in Sessions :
        slot'[t] = "waiting" <=> \E i \in DOMAIN waiters' : waiters'[i] = t
  BY <1>1 DEF SlotsInv, SlotsTypeOK, SlotsAccounted
<1>7. SlotsAccounted'
  BY <1>1, <1>4, <1>6, BackupSlotsAssumption DEF SlotsInv, SlotsTypeOK, SlotsAccounted
<1> QED BY <1>1, <1>2, <1>3, <1>5, <1>7 DEF SlotsInv

LEMMA SlotsInvStep == SlotsInv /\ [SlotsNext]_slotVars => SlotsInv'
<1> SUFFICES ASSUME SlotsInv, [SlotsNext]_slotVars PROVE SlotsInv'
  OBVIOUS
<1>1. CASE Reload
  BY <1>1, ReloadKeepsSlots
<1>2. ASSUME NEW s \in Sessions, Acquire(s)
      PROVE  SlotsInv'
  BY <1>2, AcquireFree, AcquireFull
<1>3. ASSUME NEW s \in Sessions, Release(s)
      PROVE  SlotsInv'
  BY <1>3, ReleaseHandsOver, ReleaseFrees
<1>4. CASE UNCHANGED slotVars
  BY <1>4 DEF slotVars, SlotsInv, SlotsTypeOK, SlotsAccounted, Holders
<1> QED BY <1>1, <1>2, <1>3, <1>4 DEF SlotsNext

\* The slots are accounted for, whatever calls acquire and release them.
THEOREM SlotsAlwaysAccounted == SlotsSpec => []SlotsAccounted
<1>1. SlotsInv => SlotsAccounted
  BY DEF SlotsInv
<1> QED BY SlotsInvInit, SlotsInvStep, <1>1, PTL DEF SlotsSpec

-----------------------------------------------------------------------------
(***************************************************************************)
(* The refinement of SlotPool: a step of the code is one of the pool.      *)
(***************************************************************************)
\* The instance brings its own name for the cardinality of a set.
LEMMA PoolCardinality == \A S : Pool!Cardinality(S) = Cardinality(S)
  BY Zenon DEF Pool!Cardinality, Cardinality

LEMMA PoolInit == SlotsInit => Pool!Init
  BY DEF SlotsInit, Pool!Init, Holders

LEMMA AcquireArrives ==
  ASSUME SlotsInv, NEW s \in Sessions, Acquire(s)
  PROVE  Pool!Arrive(s)
<1> USE BackupSlotsAssumption
<1>1. /\ Cardinality(Holders) = active /\ active \in Nat
      /\ waiters \in Seq(Sessions) /\ Len(waiters) \in Nat
  BY DEF SlotsInv, SlotsAccounted, SlotsTypeOK
<1>2. slot[s] = "none" /\ s \notin Holders
  BY DEF Acquire, Holders
<1>3. \A i \in DOMAIN waiters : waiters[i] # s
  BY <1>2 DEF SlotsInv, SlotsAccounted
<1>4. Pool!Admit(Holders, Append(waiters, s))
  <2>1. CASE active < Limit
    <3>1. Append(waiters, s) = <<s>> /\ Len(<<s>>) = 1
      <4>1. waiters = <<>>
        BY <2>1, AcquireFree
      <4>2. Append(<<>>, s) = <<s>> /\ Len(<<s>>) = 1
        OBVIOUS
      <4> QED BY <4>1, <4>2
    <3>2. Len(<<s>>) <= Limit - Cardinality(Holders)
      BY <1>1, <2>1, <3>1
    <3>3. Holders' = Holders \cup {<<s>>[i] : i \in 1 .. 1}
      BY <2>1, AcquireFree
    <3>4. waiters' = SubSeq(<<s>>, 1 + 1, 1)
      <4>1. SubSeq(<<s>>, 1 + 1, 1) = <<>>
        BY SubSeqEmpty
      <4> QED BY <2>1, <4>1, AcquireFree
    <3> QED BY <3>1, <3>2, <3>3, <3>4, PoolCardinality DEF Pool!Admit
  <2>2. CASE ~(active < Limit)
    <3> DEFINE q == Append(waiters, s)
    <3>1. q \in Seq(Sessions) /\ Len(q) = Len(waiters) + 1
      BY <1>1
    <3>2. Limit - Cardinality(Holders) = 0 /\ ~(Len(q) <= 0)
      BY <1>1, <2>2, <3>1, AcquireFull
    <3>3. Holders' = Holders \cup {q[i] : i \in 1 .. 0}
      BY <2>2, AcquireFull
    <3>4. waiters' = SubSeq(q, 0 + 1, Len(q))
      BY <2>2, <3>1, AcquireFull, SubSeqFull
    <3> QED BY <3>2, <3>3, <3>4, PoolCardinality DEF Pool!Admit
  <2> QED BY <2>1, <2>2
<1> QED BY <1>2, <1>3, <1>4 DEF Pool!Arrive

LEMMA ReleaseLeaves ==
  ASSUME SlotsInv, NEW s \in Sessions, Release(s)
  PROVE  Pool!Leave(s)
<1> USE BackupSlotsAssumption
<1>1. /\ Cardinality(Holders) = active /\ active \in Nat /\ IsFiniteSet(Holders)
      /\ waiters \in Seq(Sessions) /\ Len(waiters) \in Nat
  BY DEF SlotsInv, SlotsAccounted, SlotsTypeOK
<1>2. s \in Holders
  BY ReleaseHandsOver, ReleaseFrees
<1>3. Cardinality(Holders \ {s}) = active - 1
  BY <1>1, <1>2, FS_RemoveElement
<1>4. CASE waiters # <<>>
  <2>1. Limit - Cardinality(Holders \ {s}) = 1
    BY <1>1, <1>3, <1>4, ReleaseHandsOver
  <2>2. Len(waiters) \in Nat \ {0} /\ Head(waiters) = waiters[1]
    BY <1>1, <1>4
  <2>3. Holders' = (Holders \ {s}) \cup {waiters[i] : i \in 1 .. 1}
    BY <1>4, <2>2, ReleaseHandsOver
  <2>4. waiters' = SubSeq(waiters, 1 + 1, Len(waiters))
    BY <1>1, <1>4, ReleaseHandsOver, TailIsSubSeq
  <2>5. (IF Len(waiters) <= 1 THEN Len(waiters) ELSE 1) = 1
    <3>1. \A n \in Nat \ {0} : (IF n <= 1 THEN n ELSE 1) = 1
      OBVIOUS
    <3> QED BY <2>2, <3>1
  <2> QED BY <1>2, <2>1, <2>3, <2>4, <2>5, PoolCardinality DEF Pool!Leave, Pool!Admit
<1>5. CASE waiters = <<>>
  <2>1. Len(waiters) = 0 /\ Limit - Cardinality(Holders \ {s}) \in Nat
    BY <1>1, <1>3, <1>5 DEF SlotsInv, SlotsAccounted
  <2>2. Holders' = (Holders \ {s}) \cup {waiters[i] : i \in 1 .. 0}
    BY <1>5, ReleaseFrees
  <2>3. waiters' = SubSeq(waiters, 0 + 1, 0)
    <3>1. SubSeq(waiters, 0 + 1, 0) = <<>>
      BY SubSeqEmpty
    <3> QED BY <1>5, <3>1, ReleaseFrees
  <2>4. (IF Len(waiters) <= Limit - Cardinality(Holders \ {s})
         THEN Len(waiters) ELSE Limit - Cardinality(Holders \ {s})) = 0
    BY <2>1
  <2> QED BY <1>2, <2>1, <2>2, <2>3, <2>4, PoolCardinality DEF Pool!Leave, Pool!Admit
<1> QED BY <1>4, <1>5

LEMMA PoolStep == SlotsInv /\ [SlotsNext]_slotVars => [Pool!Next]_(Pool!vars)
<1> SUFFICES ASSUME SlotsInv, [SlotsNext]_slotVars PROVE [Pool!Next]_(Pool!vars)
  OBVIOUS
<1>1. CASE Reload
  <2>1. Holders' = {} /\ waiters' = <<>>
    BY <1>1 DEF Reload, Holders
  <2> QED BY <2>1 DEF Pool!Next, Pool!Stop
<1>2. ASSUME NEW s \in Sessions, Acquire(s)
      PROVE  Pool!Next
  BY <1>2, AcquireArrives DEF Pool!Next
<1>3. ASSUME NEW s \in Sessions, Release(s)
      PROVE  Pool!Next
  BY <1>3, ReleaseLeaves DEF Pool!Next
<1>4. CASE UNCHANGED slotVars
  BY <1>4 DEF slotVars, Holders, Pool!vars
<1> QED BY <1>1, <1>2, <1>3, <1>4 DEF SlotsNext

\* The counter and the array of resolvers are a first-come-first-served pool that keeps
\* to its limit and leaves no slot free while a call waits.
THEOREM SlotsServeInOrder == SlotsSpec => ServesInOrder
<1> QED BY SlotsInvInit, SlotsInvStep, PoolInit, PoolStep, PTL
        DEF SlotsSpec, ServesInOrder, Pool!Spec
=============================================================================
