--------------------------- MODULE RingCallProofs ---------------------------
(***************************************************************************)
(* Theorems about the calls of module Ring: nobody stays parked for want   *)
(* of a wakeup, and what a push returns is true.  For any number of        *)
(* producers, any capacity, any payload lengths and any number of crashes. *)
(***************************************************************************)
EXTENDS RingProofs, FiniteSetTheorems

USE DEF locals, NextSeq, Unlocked

-----------------------------------------------------------------------------
(* The waiters of prod_lock.                                               *)

OnTheWay == {"wakelock", "fwakelock", "swap", "lwait"}

\* A step of p alone that parks nobody and leaves the word as it is.
LEMMA WaitersFrame ==
  ASSUME TypeOK, WaitersSeen, NEW p \in Producers, NEW l, Goto(p, l), UNCHANGED prod_lock,
         dead \subseteq dead', l # "lparked", pc[p] \in OnTheWay => l \in OnTheWay
  PROVE  WaitersSeen'
<1>1. pc' = [pc EXCEPT ![p] = l] /\ pc \in [Producers -> ProducerPC]
  BY DEF Goto, TypeOK
<1>2. LockWaiters' \subseteq LockWaiters
  BY <1>1 DEF LockWaiters, Live
<1> QED BY <1>1, <1>2 DEF WaitersSeen, OnTheWay

\* The invariant of the lock's waiters.
LEMMA WaitersStep == TypeOK /\ WaitersSeen /\ [Next]_vars => WaitersSeen'
<1> SUFFICES ASSUME TypeOK, WaitersSeen, [Next]_vars PROVE WaitersSeen'
  OBVIOUS
<1>1. pc \in [Producers -> ProducerPC]
  BY DEF TypeOK
<1>2. CASE UNCHANGED <<pc, prod_lock>> /\ dead \subseteq dead'
  <2>1. LockWaiters' \subseteq LockWaiters
    BY <1>2 DEF LockWaiters, Live
  <2> QED BY <1>2, <2>1 DEF WaitersSeen
<1>3. ASSUME NEW p \in Producers, ProducerStep(p) PROVE WaitersSeen'
  <2>1. CASE LockCas(p)
    <3>1. CASE prod_lock = 0 /\ prod_lock' = 1 /\ Goto(p, "room")
      <4>1. LockWaiters' \subseteq LockWaiters
        BY <1>1, <2>1, <3>1 DEF LockCas, LockWaiters, Live, Goto
      <4>2. \A q \in Producers : pc[q] \in OnTheWay => pc'[q] \in OnTheWay
        BY <1>1, <2>1, <3>1 DEF LockCas, Goto, OnTheWay
      <4> QED BY <3>1, <4>1, <4>2 DEF WaitersSeen, OnTheWay
    <3>2. CASE UNCHANGED prod_lock /\ Goto(p, "swap")
      BY <2>1, <3>2, WaitersFrame DEF LockCas, OnTheWay
    <3> QED BY <2>1, <3>1, <3>2 DEF LockCas
  <2>2. CASE LockSwap(p)
    BY <2>2 DEF LockSwap, WaitersSeen
  <2>3. CASE LockWait(p)
    <3>1. CASE prod_lock = 2
      BY <2>3, <3>1 DEF LockWait, WaitersSeen, header
    <3>2. CASE prod_lock # 2
      BY <2>3, <3>2, WaitersFrame DEF LockWait, OnTheWay, header
    <3> QED BY <3>1, <3>2
  <2>4. CASE CheckRoom(p)
    BY <2>4, WaitersFrame DEF CheckRoom, OnTheWay, header
  <2>5. CASE WriteLen(p) \/ WritePayload(p) \/ Commit(p) \/ LoadSeen(p)
    BY <2>5, WaitersFrame DEF WriteLen, WritePayload, Commit, LoadSeen, OnTheWay, header
  <2>6. CASE Unlock(p)
    <3>1. pc[p] \in {"unlock", "funlock"}
          /\ pc' = [pc EXCEPT ![p] = IF prod_lock = 2 THEN WakeLabel(p) ELSE AfterUnlock(p)]
          /\ UNCHANGED dead
      BY <2>6 DEF Unlock, Goto
    <3>2. CASE prod_lock = 2
      <4>1. pc'[p] \in OnTheWay
        BY <1>1, <3>1, <3>2 DEF WakeLabel, OnTheWay
      <4> QED BY <4>1 DEF WaitersSeen, OnTheWay
    <3>3. CASE prod_lock # 2
      <4>1. AfterUnlock(p) # "lparked"
        BY DEF AfterUnlock
      <4>2. LockWaiters' \subseteq LockWaiters
        BY <1>1, <3>1, <3>3, <4>1 DEF LockWaiters, Live
      <4>3. \A q \in Producers : pc[q] \in OnTheWay => pc'[q] \in OnTheWay
        BY <1>1, <3>1 DEF OnTheWay
      <4> QED BY <3>3, <4>2, <4>3 DEF WaitersSeen, OnTheWay
    <3> QED BY <3>2, <3>3
  <2>7. CASE WakeLock(p)
    <3>1. UNCHANGED <<prod_lock, dead>> /\ pc[p] \in {"wakelock", "fwakelock"}
      BY <2>7 DEF WakeLock, header
    <3>2. AfterUnlock(p) # "lparked"
      BY DEF AfterUnlock
    <3>3. CASE LockWaiters = {} /\ Goto(p, AfterUnlock(p))
      <4>1. LockWaiters' = {}
        BY <1>1, <3>1, <3>2, <3>3 DEF LockWaiters, Live, Goto
      <4> QED BY <4>1 DEF WaitersSeen
    <3>4. ASSUME NEW q \in LockWaiters, pc' = [pc EXCEPT ![p] = AfterUnlock(p), ![q] = "swap"]
          PROVE  WaitersSeen'
      <4>1. q \in Producers
        BY DEF LockWaiters
      <4>2. pc'[q] = "swap"
        BY <1>1, <3>4, <4>1
      <4> QED BY <4>1, <4>2 DEF WaitersSeen
    <3> QED BY <2>7, <3>3, <3>4 DEF WakeLock
  <2>8. CASE BumpData(p) \/ WakeData(p)
    BY <2>8, WaitersFrame DEF BumpData, WakeData, OnTheWay, header
  <2>9. CASE CheckDeadline(p)
    <3>1. PICK l \in {"idle", "swait"} : Goto(p, l)
      BY <2>9 DEF CheckDeadline
    <3> QED BY <2>9, <3>1, WaitersFrame DEF CheckDeadline, OnTheWay, header
  <2>10. CASE SpaceWait(p)
    BY <2>10, WaitersFrame DEF SpaceWait, OnTheWay, header
  <2> QED BY <1>3, <2>1, <2>2, <2>3, <2>4, <2>5, <2>6, <2>7, <2>8, <2>9, <2>10 DEF ProducerStep
<1>4. ASSUME NEW p \in Producers, PushCall(p) PROVE WaitersSeen'
  BY <1>4, WaitersFrame DEF PushCall, OnTheWay, header
<1>5. ASSUME NEW p \in Producers, LockTimeout(p) PROVE WaitersSeen'
  BY <1>5, WaitersFrame DEF LockTimeout, OnTheWay, header
<1>6. ASSUME NEW p \in Producers, SpaceTimeout(p) PROVE WaitersSeen'
  BY <1>6, WaitersFrame DEF SpaceTimeout, OnTheWay, header
<1>7. ASSUME NEW p \in Producers, Crash(p) PROVE WaitersSeen'
  BY <1>2, <1>7 DEF Crash, header
<1>8. CASE ConsumerStep \/ DataTimeout
  <2>1. CASE WakeSpace
    <3>1. /\ pc' = [q \in Producers |-> IF q \in SpaceWaiters THEN "lock" ELSE pc[q]]
          /\ UNCHANGED <<prod_lock, dead>>
      BY <2>1 DEF WakeSpace, header
    <3>2. LockWaiters' \subseteq LockWaiters
      BY <3>1 DEF LockWaiters, Live
    <3>3. \A q \in Producers : pc[q] \in OnTheWay => pc'[q] \in OnTheWay
      BY <3>1 DEF SpaceWaiters, OnTheWay
    <3> QED BY <3>1, <3>2, <3>3 DEF WaitersSeen, OnTheWay
  <2>2. CASE FreeSpace \/ BumpSpace
    BY <1>2, <2>2 DEF FreeSpace, BumpSpace, prodVars
  <2>3. CASE UNCHANGED <<header, prodVars>>
    BY <1>2, <2>3 DEF header, prodVars
  <2> QED BY <1>8, <2>1, <2>2, <2>3
          DEF ConsumerStep, DataTimeout, PopCall, TryPop, LoadDataSeq, Recheck, PopDeadline, DataWait,
              ReadLen, ReadPayload
<1>9. CASE UNCHANGED vars
  BY <1>2, <1>9 DEF vars, header, prodVars
<1> QED BY <1>3, <1>4, <1>5, <1>6, <1>7, <1>8, <1>9 DEF Next

\* No producer stays parked on a free prod_lock unless somebody is on the way
\* to it: unlock_producer wakes a waiter whenever one is seen, and a waiter
\* that is not seen yet does not park (lock_producer, unlock_producer).
THEOREM LockWakeupsArrive == Spec => []NoLostLockWakeup
<1>1. Init => WaitersSeen
  BY DEF Init, WaitersSeen, LockWaiters
<1>2. WaitersSeen => NoLostLockWakeup
  BY DEF WaitersSeen, NoLostLockWakeup
<1> QED BY <1>1, <1>2, WaitersStep, TypeCorrect, PTL DEF Spec

-----------------------------------------------------------------------------
(* The wakeups of the consumer.  data_seq must not come round to the value *)
(* the consumer saw while it is on its way to park: it has more values     *)
(* than there are producers and bytes in the ring.                         *)
SeqIsLarge == IsFiniteSet(Producers) /\ Cardinality(Producers) + Cap < SeqMod

\* Records follow each other; Commit adds one at head, behind all others.
LEMMA SpacedStep ==
  ASSUME IInv, Spaced, [Next]_vars
  PROVE  Spaced'
<1>1. CASE UNCHANGED sent
  BY <1>1 DEF Spaced
<1>2. ASSUME NEW p \in Producers, Commit(p)
      PROVE  Spaced'
  <2> DEFINE n == Len(sent)
             r == [m |-> msg[p], at |-> head]
  <2>1. sent' = Append(sent, r) /\ sent \in Seq(Record) /\ head \in Nat /\ msg[p] \in Message
    BY <1>2 DEF Commit, IInv, TypeOK
  <2>2. /\ Len(sent') = n + 1 /\ sent'[n + 1] = r /\ n \in Nat
        /\ \A i \in 1 .. n : sent'[i] = sent[i] /\ sent[i] \in Record
    BY <2>1
  <2>3. ASSUME NEW i \in 1 .. n
        PROVE  head - sent[i].at >= n + 1 - i
    <3>1. EndOf(sent[n]) <= head /\ n \in 1 .. n
      BY <2>2 DEF IInv, Tiled
    <3>2. sent[n].at \in Nat /\ sent[n].m.len \in Nat /\ sent[i].at \in Nat
      BY <2>2, <3>1 DEF Record, Message
    <3>3. sent[n].at - sent[i].at >= n - i
      BY <2>2, <3>1 DEF Spaced
    <3>4. sent[n].at + 1 <= head
      <4> DEFINE e == sent[n]
      <4>1. EndOf(e) = e.at + (4 + e.m.len)
        BY DEF EndOf, Need, LenBytes
      <4> HIDE DEF e
      <4>2. e.at \in Nat /\ e.m.len \in Nat /\ EndOf(e) <= head /\ head \in Nat
        BY <2>1, <3>1, <3>2 DEF e
      <4>3. e.at + 1 <= head
        BY <4>1, <4>2
      <4> QED BY <4>3 DEF e
    <3> HIDE DEF n
    <3> QED BY <2>1, <2>2, <3>2, <3>3, <3>4
  <2> HIDE DEF n
  <2> QED BY <2>1, <2>2, <2>3 DEF Spaced, n
<1>3. ASSUME NEW p \in Producers, ~ Commit(p),
             ProducerStep(p) \/ LockTimeout(p) \/ SpaceTimeout(p) \/ PushCall(p) \/ Crash(p)
      PROVE  UNCHANGED sent
  BY <1>3 DEF ProducerStep, PushCall, Crash, LockCas, LockSwap, LockWait, LockTimeout, CheckRoom, WriteLen,
              WritePayload, LoadSeen, Unlock, WakeLock, BumpData, WakeData, CheckDeadline, SpaceWait,
              SpaceTimeout, Leave, history
<1>4. CASE ConsumerStep \/ DataTimeout \/ UNCHANGED vars
  <2>1. UNCHANGED sent
    BY <1>4 DEF ConsumerStep, PopCall, TryPop, ReadLen, ReadPayload, FreeSpace, BumpSpace, WakeSpace,
                LoadDataSeq, Recheck, PopDeadline, DataWait, DataTimeout, vars, history
  <2> QED BY <1>1, <2>1
<1> QED BY <1>1, <1>2, <1>3, <1>4 DEF Next

\* There are fewer records in the ring than it has bytes.
LEMMA FewRecords ==
  ASSUME IInv, Spaced
  PROVE  Len(sent) - Len(rcvd) <= Cap
<1> DEFINE n == Len(sent)
           k == Len(rcvd)
<1>1. /\ n \in Nat /\ k \in Nat /\ k <= n /\ head \in Nat /\ tail \in Nat /\ Cap \in Nat
      /\ \A i \in 1 .. n : sent[i] \in Record
  BY CapAssumption DEF IInv, TypeOK, Tiled
<1>2. head - tail <= Cap
  BY DEF IInv, NoOverrun
<1>3. CASE k < n
  <2>1. k + 1 \in 1 .. n /\ n \in 1 .. n
    BY <1>1, <1>3
  <2>2. tail = sent[k + 1].at
    BY <1>1, <2>1 DEF IInv, Tiled, Start
  <2>3. EndOf(sent[n]) <= head
    BY <2>1 DEF IInv, Tiled
  <2>4. sent[n].at \in Nat /\ sent[n].m.len \in Nat
    BY <1>1, <2>1 DEF Record, Message
  <2>5. sent[n].at - sent[k + 1].at >= n - (k + 1)
    BY <1>1, <2>1 DEF Spaced
  <2>6. sent[n].at + 1 <= head
    BY <1>1, <2>3, <2>4 DEF EndOf, Need, LenBytes
  <2>7. tail \in Nat /\ sent[n].at - tail >= n - (k + 1)
    BY <1>1, <2>2, <2>5
  <2> HIDE DEF n, k
  <2>8. n - k <= Cap
    BY <1>1, <1>2, <2>4, <2>6, <2>7
  <2> QED BY <2>8 DEF n, k
<1> QED BY <1>1, <1>3

LEMMA UnannouncedFinite ==
  ASSUME SeqIsLarge
  PROVE  /\ IsFiniteSet(Unannounced) /\ Cardinality(Unannounced) \in Nat
         /\ Cardinality(Producers) \in Nat /\ Cardinality(Unannounced) <= Cardinality(Producers)
<1>1. Unannounced \in SUBSET Producers /\ IsFiniteSet(Producers)
  BY DEF Unannounced, SeqIsLarge
<1>2. IsFiniteSet(Unannounced) /\ Cardinality(Unannounced) <= Cardinality(Producers)
  BY <1>1, FS_Subset
<1> QED BY <1>1, <1>2, FS_CardinalityType

\* Nothing announces more.
LEMMA AnnouncedFrame ==
  ASSUME SeqIsLarge, TypeOK, AnnouncedOnce, UNCHANGED <<data_seq, cseen, sent, rcvd>>,
         cpc' \in Parking => cpc \in Parking, Unannounced' \in SUBSET Unannounced
  PROVE  AnnouncedOnce'
<1>1. IsFiniteSet(Unannounced) /\ Cardinality(Unannounced) \in Nat /\ Cardinality(Producers) \in Nat
  BY UnannouncedFinite
<1>2. IsFiniteSet(Unannounced') /\ Cardinality(Unannounced') <= Cardinality(Unannounced)
  BY <1>1, FS_Subset
<1>3. Cardinality(Unannounced') \in Nat
  BY <1>2, FS_CardinalityType
<1>4. Bumps' = Bumps /\ Bumps \in Nat /\ Len(sent) \in Nat /\ Len(rcvd) \in Nat
  BY SeqModAssumption DEF Bumps, TypeOK
<1> QED BY <1>1, <1>2, <1>3, <1>4 DEF AnnouncedOnce

\* Nobody who is to wake the consumer is diverted.
LEMMA ParksFrame ==
  ASSUME ParksEmpty, NoLostDataWakeup, UNCHANGED <<head, tail, data_seq, cpc, cseen>>,
         Unannounced \subseteq Unannounced', \A q \in Producers : pc[q] \in Waking => pc'[q] \in Waking
  PROVE  ParksEmpty' /\ NoLostDataWakeup'
<1>1. ParksEmpty'
  BY DEF ParksEmpty
<1>2. NoLostDataWakeup'
  BY DEF NoLostDataWakeup
<1> QED BY <1>1, <1>2

\* A step of one producer that neither publishes nor announces a record.
LEMMA QuietStep ==
  ASSUME SeqIsLarge, TypeOK, AnnouncedOnce, ParksEmpty, NoLostDataWakeup, NEW p \in Producers,
         NEW l, Goto(p, l), UNCHANGED <<head, tail, data_seq, sent, rcvd, cpc, cseen>>, pc[p] # "wakedata",
         pc[p] \in Waking <=> l \in Waking \ {"wakedata"}
  PROVE  AnnouncedOnce' /\ ParksEmpty' /\ NoLostDataWakeup'
<1>1. pc' = [pc EXCEPT ![p] = l] /\ pc \in [Producers -> ProducerPC]
  BY DEF Goto, TypeOK
<1>2. Unannounced' = Unannounced
  BY <1>1 DEF Unannounced
<1>3. AnnouncedOnce'
  BY <1>2, AnnouncedFrame
<1>4. \A q \in Producers : pc[q] \in Waking => pc'[q] \in Waking
  BY <1>1
<1> QED BY <1>2, <1>3, <1>4, ParksFrame

\* A push that announces its record takes data_seq further from what the
\* consumer saw, and not all the way round.
LEMMA BumpStep ==
  ASSUME SeqIsLarge, IInv, Spaced, AnnouncedOnce, ParksEmpty, NoLostDataWakeup,
         NEW p \in Producers, BumpData(p)
  PROVE  AnnouncedOnce' /\ ParksEmpty' /\ NoLostDataWakeup'
<1>1. /\ pc[p] = "bump" /\ data_seq' = (data_seq + 1) % SeqMod /\ pc' = [pc EXCEPT ![p] = "wakedata"]
      /\ UNCHANGED <<head, tail, sent, rcvd, cpc, cseen>>
  BY DEF BumpData, NextSeq, Goto, consVars, history
<1>2. /\ pc \in [Producers -> ProducerPC] /\ data_seq \in 0 .. SeqMod - 1 /\ cseen \in 0 .. SeqMod - 1
      /\ Len(sent) \in Nat /\ Len(rcvd) \in Nat /\ SeqMod \in Nat \ {0} /\ Cap \in Nat
  BY SeqModAssumption, CapAssumption DEF IInv, TypeOK
<1>3. Unannounced' = Unannounced \ {p} /\ p \in Unannounced
  BY <1>1, <1>2 DEF Unannounced, Waking
<1>4. IsFiniteSet(Unannounced) /\ Cardinality(Unannounced) \in Nat /\ Cardinality(Producers) \in Nat
  BY UnannouncedFinite
<1>5. IsFiniteSet(Unannounced') /\ Cardinality(Unannounced') = Cardinality(Unannounced) - 1
  BY <1>3, <1>4, FS_RemoveElement
<1>6. Cardinality(Unannounced') \in Nat
  BY <1>5, FS_CardinalityType
<1>7. data_seq' = IF data_seq + 1 = SeqMod THEN 0 ELSE data_seq + 1
  BY <1>1, <1>2, Z3
<1>8. NoLostDataWakeup'
  BY <1>1, <1>2 DEF NoLostDataWakeup, Waking
<1>9. CASE cpc \in Parking
  <2>1. Bumps \in Nat
    BY <1>2 DEF Bumps
  <2>2. Bumps + Cardinality(Unannounced) <= Cardinality(Producers) + Len(sent) - Len(rcvd)
    BY <1>9 DEF AnnouncedOnce
  <2>3. Bumps + 1 < SeqMod
    BY <1>2, <1>4, <1>5, <1>6, <2>1, <2>2, FewRecords DEF SeqIsLarge
  <2>4. Bumps' = Bumps + 1 /\ data_seq' # cseen
    BY <1>1, <1>2, <1>7, <2>3 DEF Bumps
  <2>5. AnnouncedOnce'
    BY <1>1, <1>2, <1>4, <1>5, <1>6, <2>1, <2>2, <2>4 DEF AnnouncedOnce
  <2>6. ParksEmpty'
    BY <1>1, <2>4 DEF ParksEmpty
  <2> QED BY <1>8, <2>5, <2>6
<1>10. CASE cpc \notin Parking
  BY <1>1, <1>10, <1>8 DEF AnnouncedOnce, ParksEmpty, Parking
<1> QED BY <1>9, <1>10

\* A push that commits adds a record to the ring and itself to those that
\* will announce one.
LEMMA CommitStep ==
  ASSUME SeqIsLarge, TypeOK, AnnouncedOnce, NEW p \in Producers, Commit(p)
  PROVE  AnnouncedOnce' /\ ParksEmpty' /\ NoLostDataWakeup'
<1>1. /\ pc[p] = "commit" /\ pc' = [pc EXCEPT ![p] = "unlock"]
      /\ sent' = Append(sent, [m |-> msg[p], at |-> head])
      /\ UNCHANGED <<tail, data_seq, rcvd, cpc, cseen>>
  BY DEF Commit, Goto, consVars
<1>2. /\ pc \in [Producers -> ProducerPC] /\ sent \in Seq(Record) /\ msg[p] \in Message /\ head \in Nat
      /\ Len(rcvd) \in Nat /\ data_seq \in Nat /\ cseen \in Nat /\ Bumps \in Nat
  BY SeqModAssumption DEF TypeOK, Bumps
<1>3. Unannounced' = Unannounced \cup {p} /\ p \notin Unannounced
  BY <1>1, <1>2 DEF Unannounced, Waking
<1>4. IsFiniteSet(Unannounced) /\ Cardinality(Unannounced) \in Nat /\ Cardinality(Producers) \in Nat
  BY UnannouncedFinite
<1>5. IsFiniteSet(Unannounced') /\ Cardinality(Unannounced') = Cardinality(Unannounced) + 1
  BY <1>3, <1>4, FS_AddElement
<1>6. Len(sent') = Len(sent) + 1 /\ Len(sent) \in Nat
  BY <1>1, <1>2
<1>7. Bumps' = Bumps
  BY <1>1 DEF Bumps
<1>8. AnnouncedOnce'
  BY <1>1, <1>2, <1>4, <1>5, <1>6, <1>7 DEF AnnouncedOnce
<1>9. ParksEmpty'
  BY <1>3 DEF ParksEmpty
<1>10. NoLostDataWakeup'
  BY <1>3 DEF NoLostDataWakeup, Unannounced
<1> QED BY <1>8, <1>9, <1>10

\* The other steps of a producer.
LEMMA AnnouncingStep ==
  ASSUME SeqIsLarge, TypeOK, AnnouncedOnce, ParksEmpty, NoLostDataWakeup, NEW p \in Producers,
         ProducerStep(p) \/ LockTimeout(p) \/ SpaceTimeout(p) \/ PushCall(p), ~ BumpData(p), ~ Commit(p)
  PROVE  AnnouncedOnce' /\ ParksEmpty' /\ NoLostDataWakeup'
<1>1. pc \in [Producers -> ProducerPC]
  BY DEF TypeOK
<1>2. CASE PushCall(p) \/ LockCas(p) \/ LockSwap(p) \/ LockWait(p) \/ CheckRoom(p) \/ WriteLen(p)
           \/ WritePayload(p) \/ LoadSeen(p) \/ CheckDeadline(p) \/ SpaceWait(p) \/ LockTimeout(p)
           \/ SpaceTimeout(p)
  <2>1. UNCHANGED <<head, tail, data_seq, sent, rcvd, cpc, cseen>> /\ pc[p] \notin Waking
    BY <1>2 DEF PushCall, LockCas, LockSwap, LockWait, CheckRoom, WriteLen, WritePayload, LoadSeen,
                CheckDeadline, Leave, SpaceWait, LockTimeout, SpaceTimeout, header, consVars, history, Waking
  <2>2. PICK l : Goto(p, l) /\ l \notin Waking
    BY <1>2 DEF PushCall, LockCas, LockSwap, LockWait, CheckRoom, WriteLen, WritePayload, LoadSeen,
                CheckDeadline, Leave, SpaceWait, LockTimeout, SpaceTimeout, Waking
  <2> QED BY <2>1, <2>2, QuietStep DEF Waking
<1>3. CASE Unlock(p)
  <2> DEFINE l == IF prod_lock = 2 THEN WakeLabel(p) ELSE AfterUnlock(p)
  <2>1. /\ pc[p] \in {"unlock", "funlock"} /\ Goto(p, l)
        /\ UNCHANGED <<head, tail, data_seq, sent, rcvd, cpc, cseen>>
    BY <1>3 DEF Unlock, consVars, history
  <2>2. pc[p] \in Waking <=> l \in Waking \ {"wakedata"}
    BY <2>1 DEF WakeLabel, AfterUnlock, Waking
  <2> HIDE DEF l
  <2> QED BY <2>1, <2>2, QuietStep
<1>4. CASE WakeLock(p)
  <2>1. pc[p] \in {"wakelock", "fwakelock"} /\ UNCHANGED <<head, tail, data_seq, sent, rcvd, cpc, cseen>>
    BY <1>4 DEF WakeLock, header, consVars, history
  <2>2. pc[p] \in Waking <=> AfterUnlock(p) \in Waking \ {"wakedata"}
    BY <2>1 DEF AfterUnlock, Waking
  <2>3. CASE Goto(p, AfterUnlock(p))
    BY <2>1, <2>2, <2>3, QuietStep
  <2>4. ASSUME NEW q \in LockWaiters, pc' = [pc EXCEPT ![p] = AfterUnlock(p), ![q] = "swap"]
        PROVE  AnnouncedOnce' /\ ParksEmpty' /\ NoLostDataWakeup'
    <3>1. q \in Producers /\ pc[q] = "lparked" /\ q # p
      BY <2>1 DEF LockWaiters
    <3>2. \A r \in Producers : /\ pc[r] \in Waking => pc'[r] \in Waking
                               /\ pc[r] \in Waking \ {"wakedata"} <=> pc'[r] \in Waking \ {"wakedata"}
      BY <1>1, <2>1, <2>2, <2>4, <3>1 DEF Waking
    <3>3. Unannounced' = Unannounced
      BY <3>2 DEF Unannounced
    <3>4. AnnouncedOnce'
      BY <2>1, <3>3, AnnouncedFrame
    <3> QED BY <2>1, <3>2, <3>3, <3>4, ParksFrame
  <2> QED BY <1>4, <2>3, <2>4 DEF WakeLock
<1>5. CASE WakeData(p)
  <2>1. /\ pc[p] = "wakedata" /\ pc' = [pc EXCEPT ![p] = "idle"]
        /\ cpc' = IF cpc = "cparked" THEN "pop" ELSE cpc
        /\ UNCHANGED <<head, tail, data_seq, sent, rcvd, cseen>>
    BY <1>5 DEF WakeData, Goto, header, history
  <2>2. Unannounced' = Unannounced
    BY <1>1, <2>1 DEF Unannounced, Waking
  <2>3. AnnouncedOnce'
    BY <2>1, <2>2, AnnouncedFrame DEF Parking
  <2>4. ParksEmpty'
    BY <2>1, <2>2 DEF ParksEmpty
  <2>5. NoLostDataWakeup'
    BY <2>1 DEF NoLostDataWakeup
  <2> QED BY <2>3, <2>4, <2>5
<1> QED BY <1>2, <1>3, <1>4, <1>5 DEF ProducerStep

\* The steps of the consumer.
LEMMA ParkingStep ==
  ASSUME SeqIsLarge, TypeOK, Len(rcvd) <= Len(sent), AnnouncedOnce, ParksEmpty, NoLostDataWakeup,
         ConsumerStep \/ DataTimeout
  PROVE  AnnouncedOnce' /\ ParksEmpty' /\ NoLostDataWakeup'
<1>1. CASE PopCall \/ TryPop \/ ReadLen \/ ReadPayload \/ FreeSpace \/ BumpSpace \/ WakeSpace \/ DataTimeout
  <2>1. cpc' \notin Parking \cup {"cparked"}
    BY <1>1 DEF PopCall, TryPop, ReadLen, ReadPayload, FreeSpace, BumpSpace, WakeSpace, DataTimeout, Parking
  <2> QED BY <2>1 DEF AnnouncedOnce, ParksEmpty, NoLostDataWakeup, Parking
<1>2. CASE LoadDataSeq
  <2>1. UNCHANGED <<pc, data_seq, sent, rcvd>> /\ cpc' = "recheck" /\ cseen' = data_seq /\ data_seq \in Nat
    BY <1>2, SeqModAssumption DEF LoadDataSeq, prodVars, header, history, TypeOK
  <2>2. Unannounced' = Unannounced /\ Bumps' = 0
    BY <2>1 DEF Unannounced, Bumps
  <2>3. Len(sent) \in Nat /\ Len(rcvd) \in Nat
    BY DEF TypeOK
  <2>4. AnnouncedOnce'
    BY <2>1, <2>2, <2>3, UnannouncedFinite DEF AnnouncedOnce
  <2> QED BY <2>1, <2>4 DEF ParksEmpty, NoLostDataWakeup
<1>3. ASSUME UNCHANGED <<pc, data_seq, cseen, sent, rcvd>>, cpc \in Parking
      PROVE  AnnouncedOnce' /\ Unannounced' = Unannounced
  BY <1>3, AnnouncedFrame DEF Unannounced
<1>4. CASE Recheck
  <2>1. /\ UNCHANGED <<pc, data_seq, head, tail, cseen, sent, rcvd>> /\ cpc = "recheck"
        /\ cpc' = IF head # tail THEN "rlen" ELSE "cdeadline"
    BY <1>4 DEF Recheck, prodVars, header, history
  <2> QED BY <1>3, <2>1 DEF ParksEmpty, NoLostDataWakeup, Parking
<1>5. CASE PopDeadline
  <2>1. /\ UNCHANGED <<pc, data_seq, head, tail, cseen, sent, rcvd>> /\ cpc = "cdeadline"
        /\ cpc' \in {"idle", "cwait"}
    BY <1>5 DEF PopDeadline, prodVars, header, history
  <2> QED BY <1>3, <2>1 DEF ParksEmpty, NoLostDataWakeup, Parking
<1>6. CASE DataWait
  <2>1. /\ UNCHANGED <<pc, data_seq, head, tail, cseen, sent, rcvd>> /\ cpc = "cwait"
        /\ cpc' = IF data_seq = cseen THEN "cparked" ELSE "pop"
    BY <1>6 DEF DataWait, prodVars, header, history
  <2>2. AnnouncedOnce' /\ Unannounced' = Unannounced
    BY <1>3, <2>1 DEF Parking
  <2>3. ParksEmpty'
    BY <2>1 DEF ParksEmpty
  <2>4. NoLostDataWakeup'
    BY <2>1 DEF ParksEmpty, NoLostDataWakeup, Unannounced
  <2> QED BY <2>2, <2>3, <2>4
<1> QED BY <1>1, <1>2, <1>4, <1>5, <1>6 DEF ConsumerStep

\* A record in the ring always reaches a consumer that parks on data_seq: its
\* push has a wakeup to come, whenever the consumer read data_seq, tried once
\* more and parked (pop_blocking, try_push).  data_seq wraps at 2^32; an arena
\* has 2^27 bytes at most (MAX_ARENA_CAP), so that it has room to spare for as
\* many producers as there are threads.
THEOREM DataWakeupsArrive ==
  ASSUME IsFiniteSet(Producers), Cardinality(Producers) + Cap < SeqMod
  PROVE  Spec => []NoLostDataWakeup
<1> DEFINE Inv == Spaced /\ AnnouncedOnce /\ ParksEmpty /\ NoLostDataWakeup
<1> SeqIsLarge
  BY DEF SeqIsLarge
<1>1. Init => Inv
  BY DEF Init, Spaced, AnnouncedOnce, ParksEmpty, NoLostDataWakeup, Parking
<1>2. IInv /\ Inv /\ [Next]_vars => Inv'
  <2> SUFFICES ASSUME IInv, Inv, [Next]_vars PROVE Inv'
    OBVIOUS
  <2>1. TypeOK /\ Len(rcvd) <= Len(sent)
    BY DEF IInv, Tiled
  <2>2. Spaced'
    BY SpacedStep
  <2>3. CASE UNCHANGED <<pc, data_seq, head, tail, cpc, cseen, sent, rcvd>>
    <3>1. Unannounced' = Unannounced
      BY <2>3 DEF Unannounced
    <3>2. AnnouncedOnce'
      BY <2>1, <2>3, <3>1, AnnouncedFrame
    <3> QED BY <2>2, <2>3, <3>1, <3>2, ParksFrame
  <2>4. CASE UNCHANGED vars
    BY <2>3, <2>4 DEF vars, header, prodVars, consVars, history
  <2>5. ASSUME NEW p \in Producers, Crash(p) PROVE Inv'
    BY <2>3, <2>5 DEF Crash, header, consVars, history
  <2> QED BY <2>1, <2>2, <2>4, <2>5, BumpStep, CommitStep, AnnouncingStep, ParkingStep DEF Next
<1>3. Inv => NoLostDataWakeup
  OBVIOUS
<1> QED BY <1>1, <1>2, <1>3, RingInvariant, PTL DEF Spec

-----------------------------------------------------------------------------
(* What a push returns.                                                    *)

results == <<msg, calls, sent, acked, refused>>

\* p's program counter moves from one side of Commit to the same side of it.
Alike(q) == pc'[q] # "idle" => pc[q] # "idle" /\ (pc'[q] \in Waking <=> pc[q] \in Waking)

\* Steps in the middle of calls.
LEMMA ApartFrame ==
  ASSUME CallsApart, UNCHANGED results, \A q \in Producers : Alike(q)
  PROVE  CallsApart'
BY DEF CallsApart, results, Alike

\* A call refused: it was not committed, and its number goes to refused.
LEMMA ApartRefused ==
  ASSUME CallsApart, UNCHANGED <<msg, calls, sent, acked>>, \A q \in Producers : Alike(q),
         NEW p \in Producers, pc[p] \notin Waking, pc[p] # "idle", pc'[p] = "idle",
         refused' = refused \cup {msg[p]}, calls \in Nat
  PROVE  CallsApart'
<1>1. \A q \in Producers : pc'[q] # "idle" => q # p /\ pc[q] # "idle"
  BY DEF Alike
<1>2. \A i \in 1 .. Len(sent) : sent[i].m.n # msg[p].n
  BY DEF CallsApart
<1>3. msg[p].n <= calls
  BY DEF CallsApart
<1>4. \A q \in Producers : pc'[q] # "idle" => msg[p].n # msg[q].n
  BY <1>1 DEF CallsApart
<1> QED BY <1>1, <1>2, <1>3, <1>4 DEF CallsApart, Alike

\* A call that leaves for l with Leave.
LEMMA ApartLeave ==
  ASSUME CallsApart, UNCHANGED <<msg, calls, sent, acked>>, \A q \in Producers : Alike(q),
         NEW p \in Producers, NEW l, Leave(p, l), pc'[p] = l, pc[p] # "idle",
         l = "idle" => pc[p] \notin Waking, calls \in Nat
  PROVE  CallsApart'
<1>1. CASE l = "idle"
  BY <1>1, ApartRefused DEF Leave
<1>2. CASE l # "idle"
  BY <1>2, ApartFrame DEF Leave, results
<1> QED BY <1>1, <1>2

\* Commit puts the record of one call in the ring.
LEMMA ApartCommit ==
  ASSUME TypeOK, CallsApart, NEW p \in Producers, Commit(p)
  PROVE  CallsApart'
<1>1. /\ sent' = Append(sent, [m |-> msg[p], at |-> head])
      /\ UNCHANGED <<msg, calls, acked, refused>>
      /\ pc[p] = "commit" /\ pc' = [pc EXCEPT ![p] = "unlock"]
  BY DEF Commit, Goto
<1>2. /\ sent \in Seq(Record) /\ pc \in [Producers -> ProducerPC] /\ calls \in Nat
      /\ [m |-> msg[p], at |-> head] \in Record
  BY DEF TypeOK, Record
<1>3. /\ Len(sent) \in Nat /\ Len(sent') = Len(sent) + 1
      /\ \A i \in 1 .. Len(sent) : sent'[i] = sent[i]
      /\ sent'[Len(sent) + 1].m = msg[p]
  BY <1>1, <1>2
<1>4. \A i \in 1 .. Len(sent') : i \in 1 .. Len(sent) \/ i = Len(sent) + 1
  BY <1>3
<1>5. /\ \A i \in 1 .. Len(sent) : sent[i].m.n # msg[p].n
      /\ msg[p].n \in 1 .. calls
      /\ \A m \in refused : m.n # msg[p].n
      /\ \A q \in Producers : q # p /\ pc[q] # "idle" => msg[q].n # msg[p].n
  BY <1>1 DEF CallsApart, Waking
<1>6. ASSUME NEW q \in Producers, pc'[q] # "idle"
      PROVE  /\ msg[q].n \in 1 .. calls
             /\ \A r \in Producers : r # q /\ pc'[r] # "idle" => msg[r].n # msg[q].n
             /\ \A m \in refused : m.n # msg[q].n
  <2>1. \A r \in Producers : pc'[r] # "idle" => pc[r] # "idle"
    BY <1>1, <1>2
  <2> QED BY <1>6, <2>1 DEF CallsApart
<1>7. ASSUME NEW q \in Producers, pc'[q] # "idle"
      PROVE  IF pc'[q] \in Waking THEN \E i \in 1 .. Len(sent') : sent'[i].m = msg[q]
             ELSE \A i \in 1 .. Len(sent') : sent'[i].m.n # msg[q].n
  <2>1. CASE q = p
    BY <1>1, <1>2, <1>3, <2>1 DEF Waking
  <2>2. CASE q # p
    <3>1. pc'[q] = pc[q]
      BY <1>1, <1>2, <2>2
    <3>2. CASE pc[q] \in Waking
      <4>1. PICK i \in 1 .. Len(sent) : sent[i].m = msg[q]
        BY <1>7, <3>1, <3>2 DEF CallsApart
      <4> QED BY <1>3, <3>1, <3>2, <4>1
    <3>3. CASE pc[q] \notin Waking
      <4>1. \A i \in 1 .. Len(sent) : sent[i].m.n # msg[q].n
        BY <1>7, <3>1, <3>3 DEF CallsApart
      <4>2. msg[q].n # msg[p].n
        BY <1>5, <1>7, <2>2, <3>1
      <4> QED BY <1>3, <1>4, <3>1, <3>3, <4>1, <4>2
    <3> QED BY <3>2, <3>3
  <2> QED BY <2>1, <2>2
<1>8. \A i, j \in 1 .. Len(sent') : sent'[i].m.n = sent'[j].m.n => i = j
  BY <1>3, <1>4, <1>5 DEF CallsApart
<1>9. \A i \in 1 .. Len(sent') : sent'[i].m.n <= calls
  BY <1>2, <1>3, <1>4, <1>5 DEF CallsApart
<1>10. \A m \in acked : \E i \in 1 .. Len(sent') : sent'[i].m = m
  <2> SUFFICES ASSUME NEW m \in acked PROVE \E i \in 1 .. Len(sent') : sent'[i].m = m
    OBVIOUS
  <2>1. PICK i \in 1 .. Len(sent) : sent[i].m = m
    BY DEF CallsApart
  <2> QED BY <1>3, <2>1
<1>11. \A m \in refused : m.n <= calls /\ \A i \in 1 .. Len(sent') : sent'[i].m.n # m.n
  BY <1>3, <1>4, <1>5 DEF CallsApart
<1> QED BY <1>1, <1>6, <1>7, <1>8, <1>9, <1>10, <1>11 DEF CallsApart

\* A new call has a number of its own.
LEMMA ApartCall ==
  ASSUME TypeOK, CallsApart, NEW p \in Producers, PushCall(p)
  PROVE  CallsApart'
<1>1. PICK len \in Lens : msg' = [msg EXCEPT ![p] = [n |-> calls + 1, len |-> len]]
  BY DEF PushCall
<1>2. /\ calls' = calls + 1 /\ UNCHANGED <<sent, acked, refused>>
      /\ pc' = [pc EXCEPT ![p] = "lock"] /\ pc[p] = "idle"
  BY DEF PushCall, Goto, history
<1>3. /\ pc \in [Producers -> ProducerPC] /\ msg \in [Producers -> Message]
      /\ calls \in Nat /\ sent \in Seq(Record) /\ refused \subseteq Message
  BY DEF TypeOK
<1>4. /\ msg'[p].n = calls + 1 /\ pc'[p] = "lock" /\ "lock" \notin Waking
      /\ \A q \in Producers : q # p => msg'[q] = msg[q] /\ pc'[q] = pc[q]
  BY <1>1, <1>2, <1>3 DEF Waking
<1>5. /\ \A i \in 1 .. Len(sent) : sent[i].m.n \in Nat /\ sent[i].m.n <= calls
      /\ \A m \in refused : m.n \in Nat /\ m.n <= calls
      /\ \A q \in Producers : msg[q].n \in Nat /\ (pc[q] # "idle" => msg[q].n <= calls)
  <2>1. \A i \in 1 .. Len(sent) : sent[i] \in Record
    BY <1>3
  <2>2. \A i \in 1 .. Len(sent) : sent[i].m.n \in Nat /\ sent[i].m.n <= calls
    BY <2>1 DEF CallsApart, Record, Message
  <2>3. \A m \in refused : m.n \in Nat /\ m.n <= calls
    BY <1>3 DEF CallsApart, Message
  <2>4. \A q \in Producers : msg[q].n \in Nat /\ (pc[q] # "idle" => msg[q].n <= calls)
    BY <1>3 DEF CallsApart, Message
  <2> QED BY <2>2, <2>3, <2>4
<1>6. ASSUME NEW q \in Producers, pc'[q] # "idle"
      PROVE  /\ msg'[q].n \in 1 .. calls'
             /\ \A r \in Producers : r # q /\ pc'[r] # "idle" => msg'[r].n # msg'[q].n
             /\ IF pc'[q] \in Waking THEN \E i \in 1 .. Len(sent) : sent[i].m = msg'[q]
                ELSE \A i \in 1 .. Len(sent) : sent[i].m.n # msg'[q].n
             /\ \A m \in refused : m.n # msg'[q].n
  <2>1. CASE q = p
    BY <1>2, <1>3, <1>4, <1>5, <2>1
  <2>2. CASE q # p
    <3>1. /\ msg[q].n \in 1 .. calls /\ pc'[q] = pc[q] /\ msg'[q] = msg[q]
          /\ \A r \in Producers : r # q /\ pc[r] # "idle" => msg[r].n # msg[q].n
          /\ IF pc[q] \in Waking THEN \E i \in 1 .. Len(sent) : sent[i].m = msg[q]
             ELSE \A i \in 1 .. Len(sent) : sent[i].m.n # msg[q].n
          /\ \A m \in refused : m.n # msg[q].n
      BY <1>4, <1>6, <2>2 DEF CallsApart
    <3>2. \A r \in Producers : r # q /\ pc'[r] # "idle" => msg'[r].n # msg'[q].n
      BY <1>3, <1>4, <1>5, <3>1
    <3> QED BY <1>2, <1>3, <3>1, <3>2
  <2> QED BY <2>1, <2>2
<1>7. /\ \A i \in 1 .. Len(sent) : sent[i].m.n <= calls'
      /\ \A m \in refused : m.n <= calls'
  BY <1>2, <1>3, <1>5
<1> QED BY <1>2, <1>6, <1>7 DEF CallsApart

LEMMA ApartStep == TypeOK /\ CallsApart /\ [Next]_vars => CallsApart'
<1> SUFFICES ASSUME TypeOK, CallsApart, [Next]_vars PROVE CallsApart'
  OBVIOUS
<1>1. pc \in [Producers -> ProducerPC] /\ calls \in Nat
  BY DEF TypeOK
<1>2. CASE UNCHANGED <<pc, results>>
  BY <1>2, ApartFrame DEF Alike
<1>3. ASSUME NEW p \in Producers, NEW l, UNCHANGED results, Goto(p, l), pc[p] # "idle",
             pc[p] \in Waking <=> l \in Waking
      PROVE  CallsApart'
  <2>1. \A q \in Producers : Alike(q)
    BY <1>1, <1>3 DEF Goto, Alike
  <2> QED BY <1>3, <2>1, ApartFrame
<1>4. ASSUME NEW p \in Producers, ProducerStep(p) PROVE CallsApart'
  <2>1. CASE LockCas(p) \/ LockSwap(p) \/ LockWait(p) \/ SpaceWait(p)
    BY <1>3, <2>1 DEF LockCas, LockSwap, LockWait, SpaceWait, results, history, Waking
  <2>2. CASE CheckRoom(p) \/ WriteLen(p) \/ WritePayload(p) \/ LoadSeen(p) \/ BumpData(p)
    BY <1>3, <2>2
    DEF CheckRoom, WriteLen, WritePayload, LoadSeen, BumpData, results, history, Waking
  <2>3. CASE Commit(p)
    BY <2>3, ApartCommit
  <2>4. CASE Unlock(p)
    <3> DEFINE l == IF prod_lock = 2 THEN WakeLabel(p) ELSE AfterUnlock(p)
    <3>1. /\ pc[p] \in {"unlock", "funlock"} /\ pc' = [pc EXCEPT ![p] = l] /\ Leave(p, l)
          /\ UNCHANGED <<msg, calls, sent, acked>>
      BY <2>4 DEF Unlock, Goto
    <3>2. (l \in Waking <=> pc[p] \in Waking) /\ (l = "idle" => pc[p] \notin Waking)
      BY <3>1 DEF WakeLabel, AfterUnlock, Waking
    <3> HIDE DEF l
    <3>3. \A q \in Producers : Alike(q)
      BY <1>1, <3>1, <3>2 DEF Alike
    <3> QED BY <1>1, <3>1, <3>2, <3>3, ApartLeave
  <2>5. CASE WakeLock(p)
    <3> DEFINE l == AfterUnlock(p)
    <3>1. /\ pc[p] \in {"wakelock", "fwakelock"} /\ Leave(p, l)
          /\ UNCHANGED <<msg, calls, sent, acked>>
      BY <2>5 DEF WakeLock
    <3>2. (l \in Waking <=> pc[p] \in Waking) /\ (l = "idle" => pc[p] \notin Waking)
      BY <3>1 DEF AfterUnlock, Waking
    <3>3. /\ pc'[p] = l
          /\ \A q \in Producers :
                q # p => pc'[q] = pc[q] \/ (pc[q] = "lparked" /\ pc'[q] = "swap")
      <4>1. CASE Goto(p, l)
        BY <1>1, <4>1 DEF Goto
      <4>2. ASSUME NEW q \in LockWaiters, pc' = [pc EXCEPT ![p] = l, ![q] = "swap"]
            PROVE  /\ pc'[p] = l
                   /\ \A r \in Producers :
                         r # p => pc'[r] = pc[r] \/ (pc[r] = "lparked" /\ pc'[r] = "swap")
        <5>1. q \in Producers /\ pc[q] = "lparked"
          BY DEF LockWaiters
        <5>2. q # p
          BY <3>1, <5>1
        <5> QED BY <1>1, <4>2, <5>1, <5>2
      <4> QED BY <2>5, <4>1, <4>2 DEF WakeLock
    <3> HIDE DEF l
    <3>4. \A q \in Producers : Alike(q)
      BY <3>1, <3>2, <3>3 DEF Alike, Waking
    <3> QED BY <1>1, <3>1, <3>2, <3>3, <3>4, ApartLeave
  <2>6. CASE WakeData(p)
    <3>1. /\ pc[p] = "wakedata" /\ pc' = [pc EXCEPT ![p] = "idle"]
          /\ acked' = acked \cup {msg[p]} /\ UNCHANGED <<msg, calls, sent, refused>>
      BY <2>6 DEF WakeData, Goto
    <3>2. \E i \in 1 .. Len(sent) : sent[i].m = msg[p]
      BY <3>1 DEF CallsApart, Waking
    <3>3. \A q \in Producers : Alike(q)
      BY <1>1, <3>1 DEF Alike
    <3> QED BY <3>1, <3>2, <3>3 DEF CallsApart, Alike
  <2>7. CASE CheckDeadline(p)
    <3>1. PICK l \in {"idle", "swait"} : Goto(p, l) /\ Leave(p, l)
      BY <2>7 DEF CheckDeadline
    <3>2. pc[p] = "deadline" /\ UNCHANGED <<msg, calls, sent, acked>>
      BY <2>7 DEF CheckDeadline
    <3>3. pc'[p] = l /\ \A q \in Producers : Alike(q)
      BY <1>1, <3>1, <3>2 DEF Goto, Alike, Waking
    <3> QED BY <1>1, <3>1, <3>2, <3>3, ApartLeave DEF Waking
  <2> QED BY <1>4, <2>1, <2>2, <2>3, <2>4, <2>5, <2>6, <2>7 DEF ProducerStep
<1>5. ASSUME NEW p \in Producers, LockTimeout(p) \/ SpaceTimeout(p) PROVE CallsApart'
  BY <1>3, <1>5 DEF LockTimeout, SpaceTimeout, results, history, Waking
<1>6. ASSUME NEW p \in Producers, Crash(p) PROVE CallsApart'
  BY <1>2, <1>6 DEF Crash, results, history
<1>7. CASE WakeSpace
  <2>1. UNCHANGED results
    BY <1>7 DEF WakeSpace, results, history
  <2>2. \A q \in Producers : Alike(q)
    BY <1>7 DEF WakeSpace, Alike, SpaceWaiters, Waking
  <2> QED BY <2>1, <2>2, ApartFrame
<1>8. CASE PopCall \/ TryPop \/ LoadDataSeq \/ Recheck \/ PopDeadline \/ DataWait \/ DataTimeout
  BY <1>2, <1>8
  DEF PopCall, TryPop, LoadDataSeq, Recheck, PopDeadline, DataWait, DataTimeout, prodVars,
      results, history
<1>9. CASE ReadLen \/ ReadPayload \/ FreeSpace \/ BumpSpace
  BY <1>2, <1>9 DEF ReadLen, ReadPayload, FreeSpace, BumpSpace, prodVars, results, history
<1>10. CASE UNCHANGED vars
  BY <1>2, <1>10 DEF vars, prodVars, results, history
<1> QED BY <1>4, <1>5, <1>6, <1>7, <1>8, <1>9, <1>10, ApartCall DEF Next, ConsumerStep

\* A push that returned true is in the ring exactly once and one that returned
\* false is not, however the calls of several producers interleave, time out
\* and retry inside push_blocking (try_push, push_blocking, push_locked).
THEOREM ResultsAreTrue == Spec => []ResultIsTrue
<1>1. Init => CallsApart
  BY DEF Init, CallsApart
<1>2. TypeOK /\ CallsApart => ResultIsTrue
  <2> SUFFICES ASSUME CallsApart PROVE ResultIsTrue
    OBVIOUS
  <2> DEFINE times(m) == {i \in 1 .. Len(sent) : sent[i].m = m}
  <2>1. ASSUME NEW m \in acked PROVE Cardinality(times(m)) = 1
    <3>1. PICK i \in 1 .. Len(sent) : sent[i].m = m
      BY DEF CallsApart
    <3>2. \A j \in 1 .. Len(sent) : sent[j].m = m => j = i
      BY <3>1 DEF CallsApart
    <3>3. times(m) = {i}
      BY <3>1, <3>2
    <3> QED BY <3>3, FS_Singleton
  <2>2. ASSUME NEW m \in refused PROVE times(m) = {}
    BY DEF CallsApart
  <2> QED BY <2>1, <2>2 DEF ResultIsTrue
<1> QED BY <1>1, <1>2, ApartStep, TypeCorrect, PTL DEF Spec
=============================================================================
