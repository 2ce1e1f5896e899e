----------------------------- MODULE RingProofs -----------------------------
(***************************************************************************)
(* Theorems about module Ring, for any number of producers, any capacity,  *)
(* any payload lengths and any number of calls and crashes.                *)
(***************************************************************************)
EXTENDS Ring, TLAPS

USE DEF locals, NextSeq, Unlocked

-----------------------------------------------------------------------------
(* Cells of the data region.                                               *)

\* `pos & mask` is a cell of the data region.
LEMMA CellOf == ASSUME NEW x \in Nat PROVE x % Cap \in 0 .. Cap - 1
  BY CapAssumption, Z3

\* Two positions less than Cap apart are two cells: this is what makes room
\* for Cap bytes enough to keep a record being written off the published ones.
LEMMA CellsDistinct ==
  ASSUME NEW x \in Nat, NEW y \in Nat, x < y, y - x < Cap
  PROVE  x % Cap # y % Cap
<1> DEFINE qx == x \div Cap
           qy == y \div Cap
<1>1. qx \in Int /\ qy \in Int /\ x % Cap \in Int /\ y % Cap \in Int
  BY CapAssumption, Z3
<1>2. x = Cap * qx + (x % Cap) /\ y = Cap * qy + (y % Cap)
  BY CapAssumption, Z3
<1>3. SUFFICES ASSUME x % Cap = y % Cap PROVE FALSE
  OBVIOUS
<1> HIDE DEF qx, qy
<1>4. y - x = Cap * (qy - qx)
  BY <1>1, <1>2, <1>3, CapAssumption, Z3
<1>5. qy - qx >= 1 \/ qy - qx <= 0
  BY <1>1, Z3
<1>6. CASE qy - qx <= 0
  BY <1>1, <1>4, <1>6, CapAssumption, Z3
<1>7. CASE qy - qx >= 1
  BY <1>1, <1>4, <1>7, CapAssumption, Z3
<1> QED BY <1>5, <1>6, <1>7

\* The futex words stay in range when they are bumped.
LEMMA BumpInRange == ASSUME NEW x \in 0 .. SeqMod - 1
                     PROVE  (x + 1) % SeqMod \in 0 .. SeqMod - 1
  BY SeqModAssumption, Z3

-----------------------------------------------------------------------------
(* Types.                                                                  *)

\* write_wrapped leaves a data region.
LEMMA WriteType ==
  ASSUME NEW d \in Region, NEW pos \in Nat, NEW m \in Message,
         NEW lo \in Nat, NEW hi \in Nat
  PROVE  write_wrapped(d, pos, m, lo, hi) \in Region
<1> SUFFICES ASSUME NEW c \in 0 .. Cap - 1,
                    NEW k \in lo .. hi - 1, (pos + k) % Cap = c
             PROVE  (CHOOSE j \in lo .. hi - 1 : (pos + j) % Cap = c) \in Nat
  BY DEF write_wrapped, Byte, Region
<1>1. (CHOOSE j \in lo .. hi - 1 : (pos + j) % Cap = c) \in lo .. hi - 1
  OBVIOUS
<1> QED BY <1>1

\* read_wrapped returns bytes of the data region.
LEMMA ReadType ==
  ASSUME data \in Region, NEW pos \in Nat, NEW n \in Nat
  PROVE  read_wrapped(pos, n) \in Seq(Byte)
<1> SUFFICES ASSUME NEW i \in 1 .. n PROVE data[(pos + i - 1) % Cap] \in Byte
  BY DEF read_wrapped
<1>1. pos + i - 1 \in Nat
  OBVIOUS
<1> QED BY <1>1, CellOf DEF Region


\* The specification keeps its types: Init gives them and every step of a
\* producer, of the consumer or of a timeout preserves them.
THEOREM TypeCorrect == Spec => []TypeOK
<1>1. Init => TypeOK
  BY CapAssumption, SeqModAssumption
  DEF Init, TypeOK, Region, Byte, ZeroByte, NoMsg, Message, ProducerPC, ConsumerPC, Modes
<1>2. TypeOK /\ [Next]_vars => TypeOK'
  <2> SUFFICES ASSUME TypeOK, [Next]_vars PROVE TypeOK'
    OBVIOUS
  <2>1. CASE UNCHANGED vars
    BY <2>1 DEF TypeOK, vars, header, prodVars, consVars, history
  <2>2. ASSUME NEW p \in Producers, PushCall(p) PROVE TypeOK'
    <3>1. msg' \in [Producers -> Message] /\ mode' \in [Producers -> Modes]
      BY <2>2, LensAssumption, ModesAssumption DEF PushCall, TypeOK, Message
    <3> QED
      BY <2>2, <3>1 DEF PushCall, TypeOK, Goto, ProducerPC, header, consVars,
                        history
  <2>3. ASSUME NEW p \in Producers, LockCas(p) PROVE TypeOK'
    <3>1. PICK l \in {"room", "swap"} : pc' = [pc EXCEPT ![p] = l]
      BY <2>3 DEF LockCas, Goto
    <3>2. prod_lock' \in 0 .. 2
      BY <2>3 DEF LockCas, TypeOK
    <3> QED
      BY <2>3, <3>1, <3>2 DEF LockCas, TypeOK, ProducerPC, HoldsLock, consVars,
                              history
  <2>4. ASSUME NEW p \in Producers, LockSwap(p) PROVE TypeOK'
    BY <2>4 DEF LockSwap, TypeOK, Goto, ProducerPC, HoldsLock, consVars, history
  <2>5. ASSUME NEW p \in Producers, LockWait(p) \/ LockTimeout(p) PROVE TypeOK'
    BY <2>5 DEF LockWait, LockTimeout, TypeOK, Goto, ProducerPC, header,
                consVars, history
  <2>6. ASSUME NEW p \in Producers, CheckRoom(p) PROVE TypeOK'
    BY <2>6 DEF CheckRoom, TypeOK, Goto, ProducerPC, HoldsLock, header,
                consVars, history
  <2>7. ASSUME NEW p \in Producers, WriteLen(p) PROVE TypeOK'
    <3>1. data' \in Region
      BY <2>7, WriteType DEF WriteLen, TypeOK, LenBytes
    <3> QED
      BY <2>7, <3>1 DEF WriteLen, TypeOK, Goto, ProducerPC, HoldsLock, header,
                        consVars, history
  <2>8. ASSUME NEW p \in Producers, WritePayload(p) PROVE TypeOK'
    <3>1. data' \in Region
      <4>1. LenBytes \in Nat /\ Need(msg[p]) \in Nat /\ msg[p] \in Message
        BY DEF TypeOK, LenBytes, Need, Message
      <4> QED BY <2>8, <4>1, WriteType DEF WritePayload, TypeOK
    <3> QED
      BY <2>8, <3>1 DEF WritePayload, TypeOK, Goto, ProducerPC, HoldsLock,
                        header, consVars, history
  <2>9. ASSUME NEW p \in Producers, Commit(p) PROVE TypeOK'
    <3>1. head' \in Nat /\ msg[p] \in Message
      BY <2>9 DEF Commit, TypeOK, Need, LenBytes, Message
    <3> QED
      BY <2>9, <3>1 DEF Commit, TypeOK, Goto, ProducerPC, HoldsLock, consVars,
                        Record
  <2>10. ASSUME NEW p \in Producers, LoadSeen(p) PROVE TypeOK'
    BY <2>10 DEF LoadSeen, TypeOK, Goto, ProducerPC, HoldsLock, header,
                 consVars, history
  <2>11. ASSUME NEW p \in Producers, Unlock(p) PROVE TypeOK'
    BY <2>11 DEF Unlock, TypeOK, Goto, Leave, AfterUnlock, WakeLabel,
                 ProducerPC, HoldsLock, consVars
  <2>12. ASSUME NEW p \in Producers, WakeLock(p) PROVE TypeOK'
    <3>1. pc' \in [Producers -> ProducerPC]
      BY <2>12 DEF WakeLock, TypeOK, Goto, AfterUnlock, LockWaiters, ProducerPC
    <3> QED BY <2>12, <3>1 DEF WakeLock, TypeOK, Leave, header, consVars
  <2>13. ASSUME NEW p \in Producers, BumpData(p) PROVE TypeOK'
    BY <2>13, BumpInRange DEF BumpData, TypeOK, Goto, ProducerPC, consVars,
                              history
  <2>14. ASSUME NEW p \in Producers, WakeData(p) PROVE TypeOK'
    BY <2>14 DEF WakeData, TypeOK, Goto, ProducerPC, ConsumerPC, header
  <2>15. ASSUME NEW p \in Producers, CheckDeadline(p) PROVE TypeOK'
    BY <2>15 DEF CheckDeadline, TypeOK, Goto, Leave, ProducerPC, header, consVars
  <2>16. ASSUME NEW p \in Producers, SpaceWait(p) \/ SpaceTimeout(p) PROVE TypeOK'
    BY <2>16 DEF SpaceWait, SpaceTimeout, TypeOK, Goto, ProducerPC, header,
                 consVars, history
  <2>17. ASSUME NEW p \in Producers, Crash(p) PROVE TypeOK'
    BY <2>17 DEF Crash, TypeOK, header, consVars, history
  <2>18. CASE PopCall
    BY <2>18, ModesAssumption DEF PopCall, TypeOK, ConsumerPC, header, prodVars,
                                  history
  <2>19. CASE TryPop \/ LoadDataSeq \/ Recheck \/ PopDeadline \/ DataWait
              \/ DataTimeout
    BY <2>19 DEF TryPop, LoadDataSeq, Recheck, PopDeadline, DataWait,
                 DataTimeout, TypeOK, ConsumerPC, Reading, header, prodVars,
                 history
  <2>20. CASE ReadLen
    <3> DEFINE bytes == read_wrapped(tail, LenBytes)
    <3>1. bytes[1] \in Byte
      <4>1. bytes[1] = data[tail % Cap]
        BY DEF TypeOK, LenBytes, read_wrapped
      <4> QED BY <4>1, CellOf DEF TypeOK, Region
    <3>2. DecodedLens(bytes) \subseteq Nat
      <4> HIDE DEF bytes
      <4>1. bytes[1][1].len \in Nat
        BY <3>1 DEF Byte, Message
      <4> QED BY <4>1, CapAssumption DEF DecodedLens
    <3> QED BY <2>20, <3>2 DEF ReadLen, TypeOK, ConsumerPC, Reading, header,
                               prodVars, history
  <2>21. CASE ReadPayload
    <3>1. cbuf' \in Seq(Byte)
      <4>1. tail + LenBytes \in Nat /\ clen \in Nat
        BY DEF TypeOK, LenBytes
      <4>2. read_wrapped(tail + LenBytes, clen) \in Seq(Byte)
        BY <4>1, ReadType DEF TypeOK
      <4> QED BY <2>21, <4>2 DEF ReadPayload
    <3> QED BY <2>21, <3>1 DEF ReadPayload, TypeOK, ConsumerPC, Reading, header,
                               prodVars, history
  <2>22. CASE FreeSpace
    BY <2>22 DEF FreeSpace, TypeOK, ConsumerPC, LenBytes, prodVars
  <2>23. CASE BumpSpace
    BY <2>23, BumpInRange DEF BumpSpace, TypeOK, ConsumerPC, prodVars, history
  <2>24. CASE WakeSpace
    BY <2>24 DEF WakeSpace, TypeOK, ConsumerPC, ProducerPC, header, history
  <2> QED
    BY <2>1, <2>2, <2>3, <2>4, <2>5, <2>6, <2>7, <2>8, <2>9, <2>10, <2>11,
       <2>12, <2>13, <2>14, <2>15, <2>16, <2>17, <2>18, <2>19, <2>20, <2>21,
       <2>22, <2>23, <2>24
    DEF Next, ProducerStep, ConsumerStep
<1> QED BY <1>1, <1>2, PTL DEF Spec

-----------------------------------------------------------------------------
(* The producers' mutex.                                                   *)

\* Every step keeps at most one producer inside the lock and the lock word in
\* agreement with it: swap(2) by a waiter never frees a held lock, and only
\* the holder's swap(0) does.
LEMMA LockStep ==
  ASSUME TypeOK, MutualExclusion, LockWord, [Next]_vars
  PROVE  MutualExclusion' /\ LockWord'
<1>1. ASSUME UNCHANGED prod_lock,
             \A q \in Producers : pc'[q] \in HoldsLock <=> pc[q] \in HoldsLock
      PROVE  MutualExclusion' /\ LockWord'
  BY <1>1 DEF MutualExclusion, LockWord
<1>2. ASSUME NEW p \in Producers, prod_lock = 0, prod_lock' # 0,
             pc' = [pc EXCEPT ![p] = "room"]
      PROVE  MutualExclusion' /\ LockWord'
  BY <1>2 DEF MutualExclusion, LockWord, TypeOK, HoldsLock
<1>3. CASE UNCHANGED vars
  BY <1>1, <1>3 DEF vars, header, prodVars
<1>4. ASSUME NEW p \in Producers, LockCas(p)
      PROVE  MutualExclusion' /\ LockWord'
  <2>1. CASE prod_lock = 0
    BY <1>2, <1>4, <2>1 DEF LockCas, Goto
  <2>2. CASE prod_lock # 0
    BY <1>1, <1>4, <2>2 DEF LockCas, Goto, TypeOK, HoldsLock
  <2> QED BY <2>1, <2>2
<1>5. ASSUME NEW p \in Producers, LockSwap(p)
      PROVE  MutualExclusion' /\ LockWord'
  <2>1. CASE prod_lock = 0
    <3>1. prod_lock' # 0 /\ pc' = [pc EXCEPT ![p] = "room"]
      BY <1>5, <2>1 DEF LockSwap, Goto
    <3> QED BY <1>2, <2>1, <3>1
  <2>2. CASE prod_lock # 0
    <3>1. \A q \in Producers : pc'[q] \in HoldsLock <=> pc[q] \in HoldsLock
      BY <1>5, <2>2 DEF LockSwap, Goto, TypeOK, HoldsLock
    <3>2. prod_lock' # 0
      BY <1>5 DEF LockSwap
    <3> QED BY <2>2, <3>1, <3>2 DEF MutualExclusion, LockWord
  <2> QED BY <2>1, <2>2
<1>6. ASSUME NEW p \in Producers, Unlock(p)
      PROVE  MutualExclusion' /\ LockWord'
  <2>1. PICK l \in ProducerPC \ HoldsLock : pc' = [pc EXCEPT ![p] = l]
    BY <1>6 DEF Unlock, Goto, WakeLabel, AfterUnlock, ProducerPC, HoldsLock
  <2>2. pc[p] \in HoldsLock /\ prod_lock' = 0
    BY <1>6 DEF Unlock, HoldsLock
  <2> QED BY <2>1, <2>2 DEF TypeOK, MutualExclusion, LockWord
<1>7. ASSUME NEW p \in Producers,
             PushCall(p) \/ LockWait(p) \/ LockTimeout(p) \/ CheckRoom(p)
             \/ WriteLen(p) \/ WritePayload(p) \/ Commit(p) \/ LoadSeen(p)
             \/ BumpData(p) \/ WakeData(p) \/ SpaceWait(p) \/ SpaceTimeout(p)
             \/ Crash(p)
      PROVE  MutualExclusion' /\ LockWord'
  BY <1>1, <1>7
  DEF PushCall, LockWait, LockTimeout, CheckRoom, WriteLen, WritePayload,
      Commit, LoadSeen, BumpData, WakeData, SpaceWait, SpaceTimeout, Crash,
      Goto, TypeOK, HoldsLock, header
<1>8. ASSUME NEW p \in Producers, CheckDeadline(p)
      PROVE  MutualExclusion' /\ LockWord'
  <2>1. PICK l \in {"idle", "swait"} : pc' = [pc EXCEPT ![p] = l]
    BY <1>8 DEF CheckDeadline, Goto
  <2> QED BY <1>1, <1>8, <2>1 DEF CheckDeadline, TypeOK, HoldsLock, header
<1>9. ASSUME NEW p \in Producers, WakeLock(p)
      PROVE  MutualExclusion' /\ LockWord'
  <2>1. AfterUnlock(p) \notin HoldsLock
    BY DEF AfterUnlock, HoldsLock
  <2>2. CASE LockWaiters = {} /\ Goto(p, AfterUnlock(p))
    BY <1>1, <1>9, <2>1, <2>2 DEF WakeLock, Goto, TypeOK, HoldsLock, header
  <2>3. ASSUME NEW q \in LockWaiters,
               pc' = [pc EXCEPT ![p] = AfterUnlock(p), ![q] = "swap"]
        PROVE  MutualExclusion' /\ LockWord'
    BY <1>1, <1>9, <2>1, <2>3
    DEF WakeLock, LockWaiters, TypeOK, HoldsLock, header
  <2> QED BY <1>9, <2>2, <2>3 DEF WakeLock
<1>10. CASE PopCall \/ TryPop \/ LoadDataSeq \/ Recheck \/ PopDeadline
            \/ DataWait \/ DataTimeout \/ ReadLen \/ ReadPayload
            \/ FreeSpace \/ BumpSpace
  BY <1>1, <1>10
  DEF PopCall, TryPop, LoadDataSeq, Recheck, PopDeadline, DataWait,
      DataTimeout, ReadLen, ReadPayload, FreeSpace, BumpSpace, header, prodVars
<1>11. CASE WakeSpace
  BY <1>1, <1>11 DEF WakeSpace, SpaceWaiters, TypeOK, HoldsLock, header
<1> QED
  BY <1>3, <1>4, <1>5, <1>6, <1>7, <1>8, <1>9, <1>10, <1>11
  DEF Next, ProducerStep, ConsumerStep

\* At most one producer at a time is between lock_producer and
\* unlock_producer.
THEOREM ProducersExclude == Spec => []MutualExclusion
<1>1. Init => MutualExclusion /\ LockWord
  BY DEF Init, MutualExclusion, LockWord, HoldsLock
<1>2. TypeOK /\ MutualExclusion /\ LockWord /\ [Next]_vars
      => (MutualExclusion /\ LockWord)'
  BY LockStep
<1> QED BY <1>1, <1>2, TypeCorrect, PTL DEF Spec

-----------------------------------------------------------------------------
(* The records.                                                            *)

\* Bytes lo .. hi-1 of the record of m stand in d, the record starting at pos.
Stores(d, pos, m, lo, hi) ==
  \A k \in lo .. hi - 1 : d[(pos + k) % Cap] = <<m, k>>

\* write_wrapped puts byte k of the record at position pos + k.
LEMMA WriteStores ==
  ASSUME NEW d \in Region, NEW pos \in Nat, NEW m \in Message,
         NEW lo \in Nat, NEW hi \in Nat, hi - lo <= Cap
  PROVE  Stores(write_wrapped(d, pos, m, lo, hi), pos, m, lo, hi)
<1> USE DEF Stores
<1> TAKE k \in lo .. hi - 1
<1> DEFINE c == (pos + k) % Cap
           j == CHOOSE i \in lo .. hi - 1 : (pos + i) % Cap = c
<1>1. c \in DOMAIN d
  BY CellOf DEF Region
<1>2. j \in lo .. hi - 1 /\ (pos + j) % Cap = c
  OBVIOUS
<1>3. write_wrapped(d, pos, m, lo, hi)[c] = <<m, j>>
  BY <1>1, <1>2 DEF write_wrapped
<1>4. j = k
  <2> HIDE DEF j
  <2>1. pos + j \in Nat /\ pos + k \in Nat
    BY <1>2
  <2>2. ASSUME j < k PROVE FALSE
    <3>1. pos + j < pos + k /\ (pos + k) - (pos + j) < Cap
      BY <1>2, <2>2, CapAssumption
    <3> QED BY <1>2, <2>1, <3>1, CellsDistinct
  <2>3. ASSUME k < j PROVE FALSE
    <3>1. pos + k < pos + j /\ (pos + j) - (pos + k) < Cap
      BY <1>2, <2>3, CapAssumption
    <3> QED BY <1>2, <2>1, <3>1, CellsDistinct
  <2> QED BY <1>2, <2>2, <2>3
<1> QED BY <1>3, <1>4

\* write_wrapped leaves alone the Cap - 1 positions before its last byte that
\* it does not write.
LEMMA WriteKeeps ==
  ASSUME NEW d \in Region, NEW pos \in Nat, NEW m \in Message,
         NEW lo \in Nat, NEW hi \in Nat,
         NEW x \in Nat, x < pos + lo, pos + hi - x <= Cap
  PROVE  write_wrapped(d, pos, m, lo, hi)[x % Cap] = d[x % Cap]
<1>1. x % Cap \in DOMAIN d
  BY CellOf DEF Region
<1>2. ASSUME NEW k \in lo .. hi - 1 PROVE (pos + k) % Cap # x % Cap
  <2>1. pos + k \in Nat /\ x < pos + k /\ pos + k - x < Cap
    BY CapAssumption
  <2> QED BY <2>1, CellsDistinct
<1> QED BY <1>1, <1>2 DEF write_wrapped

\* The part of the invariant that speaks of records.
Records == NoOverrun /\ Tiled /\ Stored /\ Written /\ ReadSoFar /\ IntactFifo

\* A step that moves no cursor, writes no byte and takes nobody into a new
\* stage of writing or reading keeps it.
LEMMA RecordsFrame ==
  ASSUME TypeOK, Records, UNCHANGED <<head, tail, data, sent, rcvd, clen, cbuf>>,
         \A p \in Producers :
            pc'[p] \in Writing => pc'[p] = pc[p] /\ msg'[p] = msg[p],
         cpc' \in Reading => cpc' = cpc
  PROVE  Records'
<1>1. NoOverrun'
  BY DEF Records, NoOverrun
<1>2. Tiled'
  BY DEF Records, Tiled, Start
<1>3. Stored'
  BY DEF Records, Stored, Holds
<1>4. Written'
  BY DEF Records, Written, Holds, Writing
<1>5. ReadSoFar'
  BY DEF Records, ReadSoFar, Reading
<1>6. IntactFifo'
  BY DEF Records, IntactFifo
<1> QED BY <1>1, <1>2, <1>3, <1>4, <1>5, <1>6 DEF Records

\* Sizes of records.
LEMMA NeedIsNat ==
  ASSUME NEW m \in Message
  PROVE  Need(m) \in Nat /\ LenBytes \in Nat /\ LenBytes <= Need(m)
         /\ m.len \in Nat
  BY DEF Need, LenBytes, Message

\* A record not yet freed lies between the two cursors.
LEMMA InFlightRange ==
  ASSUME TypeOK, Tiled, NEW i \in 1 .. Len(sent), i > Len(rcvd)
  PROVE  /\ sent[i].m \in Message /\ sent[i].at \in Nat
         /\ tail <= sent[i].at /\ EndOf(sent[i]) <= head
<1> DEFINE r == Len(rcvd) + 1
<1>1. \A j \in 1 .. Len(sent) : /\ sent[j].m \in Message /\ sent[j].at \in Nat
                                /\ sent[j].m.len \in Nat
  <2>1. ASSUME NEW j \in 1 .. Len(sent) PROVE sent[j] \in Record
    <3>1. sent \in Seq(Record)
      BY DEF TypeOK
    <3> QED BY <3>1
  <2> QED BY <2>1 DEF Message, Record
<1>2. r \in 1 .. Len(sent) /\ tail = sent[r].at
  BY DEF TypeOK, Tiled, Start
<1>3. CASE i = r
  BY <1>1, <1>2, <1>3 DEF Tiled
<1>4. CASE i # r
  <2>1. r < i
    BY <1>4 DEF TypeOK
  <2>2. EndOf(sent[r]) <= sent[i].at
    BY <1>2, <2>1 DEF Tiled
  <2>3. EndOf(sent[i]) <= head
    BY DEF Tiled
  <2>4. tail <= EndOf(sent[r]) /\ EndOf(sent[r]) \in Nat /\ tail \in Nat
    <3>1. sent[r].m \in Message /\ sent[r].at \in Nat
      BY <1>1, <1>2
    <3>2. Need(sent[r].m) \in Nat
      BY <3>1, NeedIsNat
    <3>3. EndOf(sent[r]) = sent[r].at + Need(sent[r].m)
      BY DEF EndOf
    <3> HIDE DEF r
    <3> QED BY <1>2, <3>1, <3>2, <3>3
  <2> QED BY <1>1, <2>2, <2>3, <2>4
<1> QED BY <1>3, <1>4

\* Byte k of a record of n bytes that starts at or after t.
LEMMA WithinRecord ==
  ASSUME NEW at \in Nat, NEW n \in Nat, NEW k \in 0 .. n - 1,
         NEW t \in Nat, t <= at
  PROVE  at + k \in Nat /\ at + n \in Nat /\ t <= at + k /\ at + k < at + n
  OBVIOUS

\* While one producer writes, the others do not.
LEMMA OneWriter ==
  ASSUME MutualExclusion, NEW p \in Producers, pc[p] \in Writing,
         NEW q \in Producers, q # p
  PROVE  pc[q] \notin Writing
  BY DEF MutualExclusion, Writing, HoldsLock

\* Writing a part of a record that fits harms no record in flight.
LEMMA WriteKeepsStored ==
  ASSUME TypeOK, Records, NEW p \in Producers, pc[p] \in Writing,
         NEW lo \in Nat, NEW hi \in Nat, hi <= Need(msg[p]),
         data' = write_wrapped(data, head, msg[p], lo, hi),
         UNCHANGED <<sent, rcvd>>
  PROVE  Stored'
<1> SUFFICES ASSUME NEW i \in 1 .. Len(sent), i > Len(rcvd),
                    NEW k \in 0 .. Need(sent[i].m) - 1
             PROVE  data'[(sent[i].at + k) % Cap] = <<sent[i].m, k>>
  BY DEF Stored, Holds
<1> DEFINE x == sent[i].at + k
<1>1. /\ sent[i].m \in Message /\ sent[i].at \in Nat
      /\ tail <= sent[i].at /\ EndOf(sent[i]) <= head
  BY InFlightRange DEF Records
<1>2. msg[p] \in Message /\ head \in Nat /\ tail \in Nat
      /\ data \in Region
  BY DEF TypeOK
<1>3. Need(msg[p]) \in Nat /\ Need(sent[i].m) \in Nat
  BY <1>1, <1>2, NeedIsNat
<1>4. head + Need(msg[p]) - tail <= Cap
  BY DEF Records, NoOverrun
<1>5. x \in Nat /\ x < head + lo /\ head + hi - x <= Cap
  <2>1. tail <= x /\ x < EndOf(sent[i]) /\ EndOf(sent[i]) \in Nat /\ x \in Nat
    <3>1. EndOf(sent[i]) = sent[i].at + Need(sent[i].m)
      BY DEF EndOf
    <3> QED BY <1>1, <1>2, <1>3, <3>1, WithinRecord
  <2>2. hi <= Need(msg[p])
    OBVIOUS
  <2> HIDE DEF x
  <2>3. x < head + lo
    BY <1>1, <1>2, <2>1
  <2>4. head + hi - x <= Cap
    BY <1>2, <1>3, <1>4, <2>1, <2>2, CapAssumption
  <2> QED BY <2>1, <2>3, <2>4
<1>6. data'[x % Cap] = data[x % Cap]
  <2> HIDE DEF x
  <2>1. write_wrapped(data, head, msg[p], lo, hi)[x % Cap] = data[x % Cap]
    BY <1>2, <1>5, WriteKeeps
  <2> QED BY <2>1
<1>7. data[x % Cap] = <<sent[i].m, k>>
  BY DEF Records, Stored, Holds
<1> QED BY <1>6, <1>7

\* push_locked: the step that finds room, and the two copies.
LEMMA RecordsWrite ==
  ASSUME TypeOK, MutualExclusion, Records, NEW p \in Producers,
         CheckRoom(p) \/ WriteLen(p) \/ WritePayload(p)
  PROVE  Records'
<1>1. CASE CheckRoom(p)
  <2>1. \A q \in Producers \ {p} : pc'[q] = pc[q] /\ msg'[q] = msg[q]
    BY <1>1 DEF CheckRoom, Goto, TypeOK
  <2>2. NoOverrun'
    <3>1. pc'[p] \in Writing => Fits(msg[p])
      BY <1>1 DEF CheckRoom, Goto, TypeOK, Writing
    <3>2. Fits(msg[p]) => head + Need(msg[p]) - tail <= Cap
      BY CapAssumption DEF Fits, TypeOK, Need, LenBytes, Message
    <3> QED
      BY <1>1, <2>1, <3>1, <3>2 DEF CheckRoom, Records, NoOverrun, header
  <2>3. Written'
    <3>1. pc'[p] \notin {"wpay", "commit"}
      BY <1>1 DEF CheckRoom, Goto, TypeOK
    <3> QED
      BY <1>1, <2>1, <3>1 DEF CheckRoom, Records, Written, Holds, header
  <2>4. Tiled' /\ Stored' /\ ReadSoFar' /\ IntactFifo'
    BY <1>1 DEF CheckRoom, Records, Tiled, Start, Stored, Holds, ReadSoFar,
                IntactFifo, header, consVars, history
  <2> QED BY <2>2, <2>3, <2>4 DEF Records
<1>2. ASSUME pc[p] \in Writing, pc'[p] \in Writing,
             \A q \in Producers \ {p} : pc'[q] = pc[q],
             NEW lo \in Nat, NEW hi \in Nat, hi <= Need(msg[p]),
             data' = write_wrapped(data, head, msg[p], lo, hi),
             UNCHANGED <<header, msg, consVars, history>>,
             pc'[p] = "wpay" => Holds(head, msg[p], LenBytes)',
             pc'[p] = "commit" => Holds(head, msg[p], Need(msg[p]))'
      PROVE  Records'
  <2>1. \A q \in Producers \ {p} : pc'[q] \notin Writing
    BY <1>2, OneWriter
  <2>2. NoOverrun'
    BY <1>2, <2>1 DEF Records, NoOverrun, header
  <2>3. Stored'
    BY <1>2, WriteKeepsStored DEF history
  <2>4. Written'
    BY <1>2, <2>1 DEF Written, Writing
  <2>5. Tiled' /\ ReadSoFar' /\ IntactFifo'
    BY <1>2 DEF Records, Tiled, Start, ReadSoFar, IntactFifo, header, consVars,
                history
  <2> QED BY <2>2, <2>3, <2>4, <2>5 DEF Records
<1>3. /\ msg[p] \in Message /\ head \in Nat /\ tail \in Nat
      /\ Need(msg[p]) \in Nat /\ LenBytes \in Nat /\ LenBytes <= Need(msg[p])
      /\ data \in Region
  BY DEF TypeOK, Need, LenBytes, Message
<1>4. pc[p] \in Writing => Need(msg[p]) <= Cap
  BY <1>3, CapAssumption DEF Records, NoOverrun
<1>5. CASE WriteLen(p)
  <2>1. pc[p] \in Writing /\ pc'[p] = "wpay"
    BY <1>5 DEF WriteLen, Goto, TypeOK, Writing
  <2>2. Holds(head, msg[p], LenBytes)'
    <3>1. LenBytes - 0 <= Cap
      BY <1>3, <1>4, <2>1, CapAssumption
    <3>2. data' = write_wrapped(data, head, msg[p], 0, LenBytes)
          /\ UNCHANGED <<head, msg>>
      BY <1>5 DEF WriteLen, header
    <3>3. Stores(write_wrapped(data, head, msg[p], 0, LenBytes), head, msg[p],
                 0, LenBytes)
      BY <1>3, <3>1, WriteStores
    <3> QED BY <3>2, <3>3 DEF Holds, Stores, LenBytes
  <2>3. \A q \in Producers \ {p} : pc'[q] = pc[q]
    BY <1>5 DEF WriteLen, Goto, TypeOK
  <2> QED
    BY <1>2, <1>3, <1>5, <2>1, <2>2, <2>3 DEF WriteLen, Writing
<1>6. CASE WritePayload(p)
  <2>1. pc[p] = "wpay" /\ pc'[p] = "commit"
    BY <1>6 DEF WritePayload, Goto, TypeOK
  <2>2. data' = write_wrapped(data, head, msg[p], LenBytes, Need(msg[p]))
        /\ UNCHANGED <<head, msg>>
    BY <1>6 DEF WritePayload, header
  <2>3. Holds(head, msg[p], Need(msg[p]))'
    <3> SUFFICES ASSUME NEW k \in 0 .. Need(msg[p]) - 1
                 PROVE  data'[(head + k) % Cap] = <<msg[p], k>>
      BY <2>2 DEF Holds
    <3>1. CASE k < LenBytes
      <4>1. data[(head + k) % Cap] = <<msg[p], k>>
        BY <1>3, <2>1, <3>1 DEF Records, Written, Holds
      <4>2. /\ head + k \in Nat /\ head + k < head + LenBytes
            /\ head + Need(msg[p]) - (head + k) <= Cap
        BY <1>3, <1>4, <2>1, <3>1, CapAssumption DEF Writing
      <4>3. data'[(head + k) % Cap] = data[(head + k) % Cap]
        <5> DEFINE x == head + k
        <5>1. x \in Nat /\ x < head + LenBytes
              /\ head + Need(msg[p]) - x <= Cap
          BY <4>2
        <5> HIDE DEF x
        <5>2. write_wrapped(data, head, msg[p], LenBytes, Need(msg[p]))[x % Cap]
              = data[x % Cap]
          BY <1>3, <5>1, WriteKeeps
        <5> QED BY <2>2, <5>2 DEF x
      <4> QED BY <4>1, <4>3
    <3>2. CASE k >= LenBytes
      <4>1. k \in LenBytes .. Need(msg[p]) - 1 /\ Need(msg[p]) - LenBytes <= Cap
        BY <1>3, <1>4, <2>1, <3>2, CapAssumption DEF Writing
      <4>2. Stores(data', head, msg[p], LenBytes, Need(msg[p]))
        BY <1>3, <2>2, <4>1, WriteStores
      <4> QED BY <4>1, <4>2 DEF Stores
    <3> QED BY <1>3, <3>1, <3>2
  <2>4. \A q \in Producers \ {p} : pc'[q] = pc[q]
    BY <1>6 DEF WritePayload, Goto, TypeOK
  <2> QED
    BY <1>2, <1>3, <1>6, <2>1, <2>2, <2>3, <2>4 DEF WritePayload, Writing
<1> QED BY <1>1, <1>5, <1>6

\* push_locked: the store of head appends the finished record to the stream.
LEMMA RecordsCommit ==
  ASSUME TypeOK, MutualExclusion, Records, NEW p \in Producers, Commit(p)
  PROVE  Records'
<1> DEFINE rec == [m |-> msg[p], at |-> head]
<1>a. PICK n \in Nat : n = Len(sent)
  BY DEF TypeOK
<1>b. PICK f \in Nat : f = Len(rcvd)
  BY DEF TypeOK
<1>1. /\ sent \in Seq(Record) /\ n = Len(sent) /\ f = Len(rcvd)
      /\ msg[p] \in Message /\ Need(msg[p]) \in Nat /\ LenBytes <= Need(msg[p])
      /\ head \in Nat /\ tail \in Nat /\ LenBytes \in Nat
  BY <1>a, <1>b, NeedIsNat DEF TypeOK
<1>2. /\ sent' = Append(sent, rec) /\ head' = head + Need(msg[p])
      /\ UNCHANGED <<tail, data, rcvd, msg, consVars>>
      /\ pc[p] = "commit" /\ pc' = [pc EXCEPT ![p] = "unlock"]
  BY DEF Commit, Goto
<1>3. /\ Len(sent') = n + 1 /\ sent'[n + 1] = rec
      /\ \A i \in 1 .. n : sent'[i] = sent[i]
  BY <1>1, <1>2
<1>4. \A q \in Producers : pc'[q] \notin Writing
  BY <1>2, OneWriter DEF TypeOK, Writing
<1>5. head + Need(msg[p]) - tail <= Cap /\ tail <= head
  BY <1>2 DEF Records, NoOverrun, Writing
<1>6. NoOverrun'
  BY <1>1, <1>2, <1>4, <1>5, CapAssumption DEF NoOverrun
<1>7. Tiled'
  <2>1. f <= n
    BY <1>1 DEF Records, Tiled
  <2>2. ASSUME NEW i \in 1 .. n PROVE Start(i)' = Start(i)
    BY <1>1, <1>3, <2>2 DEF Start
  <2>3. Start(n + 1) = head /\ Start(n + 1)' = head /\ Start(n + 2)' = head'
    BY <1>1, <1>3 DEF Start
  <2>4. EndOf(rec) = head'
    BY <1>1, <1>2 DEF EndOf
  <2>5. ASSUME NEW i \in 1 .. n
        PROVE  /\ EndOf(sent[i]) = Start(i + 1) /\ EndOf(sent[i]) <= head
               /\ EndOf(sent[i]) \in Nat
    <3>1. sent[i] \in Record
      BY <1>1
    <3>2. EndOf(sent[i]) \in Nat
      BY <3>1, NeedIsNat DEF EndOf, Record
    <3> QED BY <1>1, <3>2 DEF Records, Tiled
  <2>6. (Len(rcvd) <= Len(sent))'
    BY <1>1, <1>2, <1>3, <2>1
  <2>7. (tail = Start(Len(rcvd) + 1))'
    <3>1. tail = Start(f + 1)
      BY <1>1 DEF Records, Tiled
    <3>2. Start(f + 1)' = Start(f + 1)
      <4>1. CASE f = n
        BY <2>3, <4>1
      <4>2. CASE f # n
        <5>1. f + 1 \in 1 .. n
          BY <2>1, <4>2
        <5> QED BY <2>2, <5>1
      <4> QED BY <4>1, <4>2
    <3> QED BY <1>1, <1>2, <3>1, <3>2
  <2>8. ASSUME NEW i \in 1 .. n + 1
        PROVE  EndOf(sent'[i]) = Start(i + 1)' /\ EndOf(sent'[i]) <= head'
    <3>1. CASE i = n + 1
      <4>1. sent'[i] = rec /\ i + 1 = n + 2
        BY <1>3, <3>1
      <4> QED BY <1>1, <1>2, <2>3, <2>4, <4>1
    <3>2. CASE i \in 1 .. n
      <4>1. Start(i + 1)' = Start(i + 1)
        <5>1. CASE i = n
          BY <2>3, <5>1
        <5>2. CASE i # n
          <6>1. i + 1 \in 1 .. n
            BY <1>1, <3>2, <5>2
          <6> QED BY <2>2, <6>1
        <5> QED BY <5>1, <5>2
      <4> QED BY <1>1, <1>2, <1>3, <2>5, <3>2, <4>1
    <3> QED BY <1>1, <3>1, <3>2
  <2>9. ASSUME NEW i \in 1 .. n + 1, NEW j \in 1 .. n + 1, i < j
        PROVE  EndOf(sent'[i]) <= sent'[j].at
    <3>1. i \in 1 .. n
      BY <1>1, <2>9
    <3>2. CASE j = n + 1
      BY <1>3, <2>5, <3>1, <3>2
    <3>3. CASE j \in 1 .. n
      BY <1>1, <1>3, <2>9, <3>1, <3>3 DEF Records, Tiled
    <3> QED BY <1>1, <3>2, <3>3
  <2> QED BY <1>3, <2>6, <2>7, <2>8, <2>9 DEF Tiled
<1>8. Stored'
  <2> SUFFICES ASSUME NEW i \in 1 .. n + 1, i > Len(rcvd),
                      NEW k \in 0 .. Need(sent'[i].m) - 1
               PROVE  data'[(sent'[i].at + k) % Cap] = <<sent'[i].m, k>>
    BY <1>2, <1>3 DEF Stored, Holds
  <2>1. CASE i = n + 1
    <3>1. Holds(head, msg[p], Need(msg[p]))
      BY <1>2 DEF Records, Written
    <3>2. sent'[i].at = head /\ sent'[i].m = msg[p]
      BY <1>3, <2>1
    <3> QED BY <1>2, <3>1, <3>2 DEF Holds
  <2>2. CASE i \in 1 .. n
    BY <1>1, <1>2, <1>3, <2>2 DEF Records, Stored, Holds
  <2> QED BY <1>1, <2>1, <2>2
<1>9. Written'
  BY <1>4 DEF Written, Writing
<1>10. ReadSoFar'
  <2>1. Len(rcvd) < n => sent'[Len(rcvd) + 1] = sent[Len(rcvd) + 1]
    BY <1>1, <1>3
  <2> QED BY <1>1, <1>2, <1>3, <2>1 DEF Records, ReadSoFar, Reading, consVars
<1>11. IntactFifo'
  <2>1. Len(rcvd) <= n
    BY <1>1 DEF Records, IntactFifo
  <2> QED BY <1>1, <1>2, <1>3, <2>1 DEF Records, IntactFifo
<1> QED BY <1>6, <1>7, <1>8, <1>9, <1>10, <1>11 DEF Records

\* try_pop: what the consumer reads before it frees the record is the record.
LEMMA RecordsRead ==
  ASSUME TypeOK, Records, TryPop \/ Recheck \/ ReadLen \/ ReadPayload
  PROVE  Records'
<1>a. PICK f \in Nat : f = Len(rcvd)
  BY DEF TypeOK
<1> DEFINE m == sent[f + 1].m
<1>1. ASSUME UNCHANGED <<header, data, prodVars, history>>, ReadSoFar'
      PROVE  Records'
  BY <1>1 DEF Records, NoOverrun, Tiled, Start, Stored, Holds, Written,
              IntactFifo, header, prodVars, history
<1>2. head # tail => f < Len(sent)
  BY <1>a DEF Records, Tiled, Start, TypeOK
<1>3. CASE TryPop \/ Recheck
  <2>1. cpc' \in Reading => cpc' = "rlen" /\ head # tail
    BY <1>3 DEF TryPop, Recheck, Reading
  <2>2. ReadSoFar'
    BY <1>a, <1>2, <1>3, <2>1 DEF TryPop, Recheck, ReadSoFar, Reading, history
  <2> QED BY <1>1, <1>3, <2>2 DEF TryPop, Recheck
<1>4. ASSUME cpc \in Reading
      PROVE  /\ f + 1 \in 1 .. Len(sent) /\ m \in Message
             /\ m.len \in Nat /\ tail \in Nat /\ Need(m) = LenBytes + m.len
             /\ \A k \in 0 .. Need(m) - 1 : data[(tail + k) % Cap] = <<m, k>>
  <2>1. f + 1 \in 1 .. Len(sent)
    BY <1>a, <1>4 DEF Records, ReadSoFar, TypeOK
  <2>2. m \in Message /\ tail \in Nat
    <3>1. sent[f + 1] \in Record
      BY <2>1 DEF TypeOK
    <3> QED BY <3>1 DEF TypeOK, Record
  <2>3. tail = sent[f + 1].at
    BY <1>a, <2>1 DEF Records, Tiled, Start
  <2>4. Holds(tail, m, Need(m))
    BY <1>a, <2>1, <2>3 DEF Records, Stored
  <2> QED BY <2>1, <2>2, <2>4, NeedIsNat DEF Holds, Need
<1> HIDE DEF m
<1>5. CASE ReadLen
  <2> DEFINE bytes == read_wrapped(tail, LenBytes)
  <2>1. cpc \in Reading
    BY <1>5 DEF ReadLen, Reading
  <2>2. \A k \in 1 .. LenBytes : bytes[k] = <<m, k - 1>>
    <3> TAKE k \in 1 .. LenBytes
    <3>1. bytes[k] = data[(tail + (k - 1)) % Cap]
      <4>1. tail + k - 1 = tail + (k - 1)
        BY DEF TypeOK, LenBytes
      <4> QED BY <4>1 DEF read_wrapped
    <3>2. k - 1 \in 0 .. Need(m) - 1
      BY <1>4, <2>1 DEF LenBytes
    <3> QED BY <1>4, <2>1, <3>1, <3>2
  <2>3. bytes[1][1] = m
    BY <2>2 DEF LenBytes
  <2>4. DecodedLens(bytes) = {m.len}
    <3> HIDE DEF bytes
    <3> QED BY <2>2, <2>3 DEF DecodedLens
  <2>5. clen' = m.len
    BY <1>5, <2>4 DEF ReadLen
  <2>6. ReadSoFar'
    BY <1>a, <1>4, <1>5, <2>1, <2>5
    DEF ReadLen, ReadSoFar, Reading, history, m, Records
  <2> QED BY <1>1, <1>5, <2>6 DEF ReadLen
<1>6. CASE ReadPayload
  <2>1. cpc \in Reading /\ clen = m.len
    BY <1>a, <1>6 DEF ReadPayload, Reading, Records, ReadSoFar, m
  <2>2. read_wrapped(tail + LenBytes, clen) = Payload(m)
    <3>1. ASSUME NEW k \in 1 .. m.len
          PROVE  data[(tail + LenBytes + k - 1) % Cap] = <<m, LenBytes + k - 1>>
      <4>1. LenBytes + k - 1 \in 0 .. Need(m) - 1
        BY <1>4, <2>1 DEF LenBytes
      <4>2. tail + LenBytes + k - 1 = tail + (LenBytes + k - 1)
        BY <1>4, <2>1 DEF LenBytes
      <4> QED BY <1>4, <2>1, <4>1, <4>2
    <3> QED BY <2>1, <3>1 DEF read_wrapped, Payload
  <2>3. ReadSoFar'
    BY <1>a, <1>4, <1>6, <2>1, <2>2
    DEF ReadPayload, ReadSoFar, Reading, history, m, Records
  <2> QED BY <1>1, <1>6, <2>3 DEF ReadPayload
<1> QED BY <1>3, <1>5, <1>6

\* try_pop: the store of tail frees exactly the record that was read.
LEMMA RecordsFree ==
  ASSUME TypeOK, Records, FreeSpace
  PROVE  Records'
<1>a. PICK f \in Nat : f = Len(rcvd)
  BY DEF TypeOK
<1>b. PICK n \in Nat : n = Len(sent)
  BY DEF TypeOK
<1> DEFINE rec == sent[f + 1]
<1>1. /\ f + 1 \in 1 .. n /\ clen = rec.m.len /\ cbuf = Payload(rec.m)
  BY <1>a, <1>b DEF Records, ReadSoFar, FreeSpace, Reading
<1>2. rec \in Record /\ rec.m \in Message /\ rec.at \in Nat
  <2>1. sent \in Seq(Record)
    BY DEF TypeOK
  <2>2. rec \in Record
    BY <1>b, <1>1, <2>1
  <2> QED BY <2>2 DEF Record
<1>3. tail = rec.at
  BY <1>a, <1>b, <1>1 DEF Records, Tiled, Start
<1>4. tail' = EndOf(rec) /\ EndOf(rec) \in Nat /\ tail <= EndOf(rec)
  <2>1. rec.m.len \in Nat
    BY <1>2, NeedIsNat
  <2>2. tail' = tail + LenBytes + rec.m.len
    BY <1>1 DEF FreeSpace
  <2> QED BY <1>2, <1>3, <2>1, <2>2 DEF EndOf, Need, LenBytes
<1>5. EndOf(rec) = Start(f + 2) /\ EndOf(rec) <= head
  BY <1>a, <1>b, <1>1 DEF Records, Tiled
<1>6. /\ rcvd' = Append(rcvd, cbuf) /\ cpc' = "bumpspace"
      /\ UNCHANGED <<head, data, pc, msg, sent>>
  BY DEF FreeSpace, prodVars
<1>7. /\ Len(rcvd') = f + 1 /\ rcvd'[f + 1] = cbuf
      /\ \A i \in 1 .. f : rcvd'[i] = rcvd[i]
  BY <1>a, <1>6 DEF TypeOK
<1> HIDE DEF rec
<1>8. NoOverrun'
  <2>1. head \in Nat /\ tail \in Nat
    BY DEF TypeOK
  <2>2. tail <= head /\ head - tail <= Cap
    BY DEF Records, NoOverrun
  <2>3. ASSUME NEW p \in Producers, pc[p] \in Writing
        PROVE  head + Need(msg[p]) - tail' <= Cap
    <3>1. msg[p] \in Message
      BY DEF TypeOK
    <3>2. Need(msg[p]) \in Nat
      BY <3>1, NeedIsNat
    <3>3. head + Need(msg[p]) - tail <= Cap
      BY <2>3 DEF Records, NoOverrun
    <3> QED BY <1>4, <2>1, <3>2, <3>3, CapAssumption
  <2>4. tail' <= head /\ head - tail' <= Cap
    BY <1>4, <1>5, <2>1, <2>2, CapAssumption
  <2> QED BY <1>6, <2>3, <2>4 DEF NoOverrun
<1>9. Tiled'
  <2>1. Start(f + 2)' = Start(f + 2)
    BY <1>6 DEF Start
  <2>2. (tail = Start(Len(rcvd) + 1))'
    BY <1>4, <1>5, <1>7, <2>1
  <2>3. (Len(rcvd) <= Len(sent))'
    BY <1>b, <1>1, <1>6, <1>7
  <2> QED BY <1>6, <2>2, <2>3 DEF Records, Tiled, Start
<1>10. Stored'
  <2> SUFFICES ASSUME NEW i \in 1 .. Len(sent), i > f + 1
               PROVE  Holds(sent[i].at, sent[i].m, Need(sent[i].m))
    BY <1>6, <1>7 DEF Stored, Holds
  <2>1. i > f
    OBVIOUS
  <2> QED BY <1>a, <2>1 DEF Records, Stored
<1>11. Written'
  BY <1>6 DEF Records, Written, Holds
<1>12. ReadSoFar'
  BY <1>6 DEF ReadSoFar, Reading
<1>13. IntactFifo'
  <2>1. rcvd'[f + 1] = Payload(sent[f + 1].m)
    BY <1>1, <1>7 DEF rec
  <2>2. \A i \in 1 .. f : rcvd'[i] = Payload(sent[i].m)
    BY <1>a, <1>7 DEF Records, IntactFifo
  <2>3. (Len(rcvd) <= Len(sent))'
    BY <1>b, <1>1, <1>6, <1>7
  <2> QED BY <1>6, <1>7, <2>1, <2>2, <2>3 DEF IntactFifo
<1> QED BY <1>8, <1>9, <1>10, <1>11, <1>12, <1>13 DEF Records

\* Every step keeps the records.
LEMMA RecordsStep ==
  ASSUME TypeOK, MutualExclusion, Records, [Next]_vars
  PROVE  Records'
<1>1. CASE UNCHANGED vars
  BY <1>1, RecordsFrame DEF vars, header, prodVars, consVars, history
<1>2. ASSUME NEW p \in Producers,
             PushCall(p) \/ LockCas(p) \/ LockSwap(p) \/ LockWait(p)
             \/ LockTimeout(p) \/ LoadSeen(p) \/ BumpData(p) \/ SpaceWait(p)
             \/ SpaceTimeout(p) \/ Crash(p)
      PROVE  Records'
  <2>1. \A q \in Producers :
            pc'[q] \in Writing => pc'[q] = pc[q] /\ msg'[q] = msg[q]
    BY <1>2 DEF PushCall, LockCas, LockSwap, LockWait, LockTimeout, LoadSeen,
                BumpData, SpaceWait, SpaceTimeout, Crash, Goto, TypeOK, Writing
  <2> QED
    BY <1>2, <2>1, RecordsFrame
    DEF PushCall, LockCas, LockSwap, LockWait, LockTimeout, LoadSeen, BumpData,
        SpaceWait, SpaceTimeout, Crash, header, consVars, history
<1>3. ASSUME NEW p \in Producers, Unlock(p) \/ CheckDeadline(p) \/ WakeData(p)
      PROVE  Records'
  <2>1. PICK l \in ProducerPC \ Writing : pc' = [pc EXCEPT ![p] = l]
    BY <1>3 DEF Unlock, CheckDeadline, WakeData, Goto, WakeLabel, AfterUnlock,
                ProducerPC, HoldsLock, Writing
  <2>2. UNCHANGED <<head, tail, data, sent, rcvd, clen, cbuf, msg>>
    BY <1>3 DEF Unlock, CheckDeadline, WakeData, header, consVars
  <2>3. cpc' \in Reading => cpc' = cpc
    BY <1>3 DEF Unlock, CheckDeadline, WakeData, Reading, consVars
  <2> QED BY <2>1, <2>2, <2>3, RecordsFrame DEF TypeOK
<1>4. ASSUME NEW p \in Producers, WakeLock(p) PROVE Records'
  <2>1. AfterUnlock(p) \notin Writing
    BY DEF AfterUnlock, Writing
  <2>2. \A q \in Producers : pc'[q] \in Writing => pc'[q] = pc[q]
    BY <1>4, <2>1 DEF WakeLock, Goto, LockWaiters, TypeOK, Writing
  <2> QED BY <1>4, <2>2, RecordsFrame DEF WakeLock, header, consVars
<1>5. CASE PopCall \/ LoadDataSeq \/ PopDeadline \/ DataWait \/ DataTimeout
           \/ BumpSpace
  BY <1>5, RecordsFrame
  DEF PopCall, LoadDataSeq, PopDeadline, DataWait, DataTimeout, BumpSpace,
      Reading, header, prodVars, history
<1>6. CASE WakeSpace
  <2>1. \A q \in Producers : pc'[q] \in Writing => pc'[q] = pc[q]
    BY <1>6 DEF WakeSpace, TypeOK, Writing
  <2> QED BY <1>6, <2>1, RecordsFrame DEF WakeSpace, Reading, header, history
<1> QED
  BY <1>1, <1>2, <1>3, <1>4, <1>5, <1>6, RecordsWrite, RecordsCommit,
     RecordsRead, RecordsFree
  DEF Next, ProducerStep, ConsumerStep

\* A call keeps its message until it returns.
LEMMA CallStep ==
  ASSUME TypeOK, CallInv, [Next]_vars
  PROVE  CallInv'
<1>1. ASSUME UNCHANGED <<calls, msg>>,
             \A q \in Producers : pc'[q] # "idle" => pc[q] # "idle"
      PROVE  CallInv'
  BY <1>1 DEF CallInv
<1>2. CASE UNCHANGED vars
  BY <1>1, <1>2 DEF vars, prodVars
<1>3. ASSUME NEW p \in Producers, PushCall(p) PROVE CallInv'
  <2>1. PICK len \in Lens :
           msg' = [msg EXCEPT ![p] = [n |-> calls + 1, len |-> len]]
    BY <1>3 DEF PushCall
  <2>2. calls' = calls + 1 /\ calls + 1 \in 1 .. MaxCalls
    BY <1>3, BoundsAssumption DEF PushCall, TypeOK
  <2>3. [n |-> calls + 1, len |-> len] \in Pushed
    BY <2>2 DEF Pushed
  <2>4. \A q \in Producers \ {p} : pc'[q] = pc[q] /\ msg'[q] = msg[q]
    BY <1>3, <2>1 DEF PushCall, Goto, TypeOK
  <2>5. msg'[p] \in Pushed
    BY <2>1, <2>3 DEF TypeOK
  <2> QED BY <2>2, <2>4, <2>5 DEF CallInv
<1>4. ASSUME NEW p \in Producers, NEW l, pc[p] # "idle",
             pc' = [pc EXCEPT ![p] = l]
      PROVE  \A q \in Producers : pc'[q] # "idle" => pc[q] # "idle"
  BY <1>4 DEF TypeOK
<1>5. ASSUME NEW p \in Producers, ProducerStep(p) \/ LockTimeout(p)
                                  \/ SpaceTimeout(p) \/ Crash(p)
      PROVE  CallInv'
  <2>1. UNCHANGED <<calls, msg>>
    BY <1>5
    DEF ProducerStep, LockCas, LockSwap, LockWait, CheckRoom, WriteLen,
        WritePayload, Commit, LoadSeen, Unlock, WakeLock, BumpData, WakeData,
        CheckDeadline, SpaceWait, LockTimeout, SpaceTimeout, Crash
  <2>2. CASE LockCas(p) \/ LockSwap(p) \/ LockWait(p) \/ CheckRoom(p)
             \/ WriteLen(p) \/ WritePayload(p) \/ Commit(p) \/ LoadSeen(p)
             \/ Unlock(p) \/ BumpData(p) \/ WakeData(p) \/ CheckDeadline(p)
             \/ SpaceWait(p) \/ LockTimeout(p) \/ SpaceTimeout(p)
    <3>1. pc[p] # "idle" /\ \E l : pc' = [pc EXCEPT ![p] = l]
      BY <2>2
      DEF LockCas, LockSwap, LockWait, CheckRoom, WriteLen, WritePayload,
          Commit, LoadSeen, Unlock, BumpData, WakeData, CheckDeadline,
          SpaceWait, LockTimeout, SpaceTimeout, Goto
    <3> QED BY <1>1, <1>4, <2>1, <3>1
  <2>3. CASE WakeLock(p)
    <3>1. \A q \in Producers : pc'[q] # "idle" => pc[q] # "idle"
      BY <2>3 DEF WakeLock, Goto, LockWaiters, TypeOK
    <3> QED BY <1>1, <2>1, <3>1
  <2>4. CASE Crash(p)
    BY <1>1, <2>1, <2>4 DEF Crash
  <2> QED BY <1>5, <2>2, <2>3, <2>4 DEF ProducerStep
<1>6. CASE PopCall \/ TryPop \/ LoadDataSeq \/ Recheck \/ PopDeadline
           \/ DataWait \/ DataTimeout \/ ReadLen \/ ReadPayload
           \/ FreeSpace \/ BumpSpace
  BY <1>1, <1>6
  DEF PopCall, TryPop, LoadDataSeq, Recheck, PopDeadline, DataWait,
      DataTimeout, ReadLen, ReadPayload, FreeSpace, BumpSpace, prodVars
<1>7. CASE WakeSpace
  <2>1. \A q \in Producers : pc'[q] # "idle" => pc[q] # "idle"
    BY <1>7 DEF WakeSpace, SpaceWaiters
  <2> QED BY <1>1, <1>7, <2>1 DEF WakeSpace
<1> QED BY <1>2, <1>3, <1>5, <1>6, <1>7 DEF Next, ConsumerStep

\* The inductive invariant holds initially and at every step.
THEOREM RingInvariant == Spec => []IInv
<1>1. Init => MutualExclusion /\ LockWord /\ Records /\ CallInv
  BY CapAssumption, BoundsAssumption
  DEF Init, MutualExclusion, LockWord, HoldsLock, Records, NoOverrun, Tiled,
      Start, Stored, Written, Writing, ReadSoFar, Reading, IntactFifo, CallInv
<1>2. TypeOK /\ MutualExclusion /\ LockWord /\ Records /\ CallInv /\ [Next]_vars
      => (MutualExclusion /\ LockWord /\ Records /\ CallInv)'
  BY LockStep, RecordsStep, CallStep
<1>3. TypeOK /\ MutualExclusion /\ LockWord /\ Records /\ CallInv => IInv
  BY DEF IInv, Records
<1> QED BY <1>1, <1>2, <1>3, TypeCorrect, PTL DEF Spec

\* No producer ever overwrites a byte the consumer has not freed.
THEOREM NeverOverruns == Spec => []NoOverrun
<1>1. IInv => NoOverrun
  BY DEF IInv
<1> QED BY <1>1, RingInvariant, PTL

\* The consumer pops the published payloads, whole and in order.
THEOREM DeliversIntactFifo == Spec => []IntactFifo
<1>1. IInv => IntactFifo
  BY DEF IInv
<1> QED BY <1>1, RingInvariant, PTL

-----------------------------------------------------------------------------
(* The ring implements the bounded queue.                                  *)

\* The store of head is the abstract push.
LEMMA CommitIsPush ==
  ASSUME IInv, NEW p \in Producers, Commit(p)
  PROVE  Abstract!Push(msg[p]) /\ msg[p] \in Pushed
<1>a. PICK f \in Nat : f = Len(rcvd)
  BY DEF IInv, TypeOK
<1>b. PICK n \in Nat : n = Len(sent)
  BY DEF IInv, TypeOK
<1>1. /\ sent' = Append(sent, [m |-> msg[p], at |-> head])
      /\ head' = head + Need(msg[p]) /\ UNCHANGED <<tail, rcvd>>
      /\ pc[p] = "commit"
  BY DEF Commit
<1>2. msg[p] \in Pushed
  BY <1>1 DEF IInv, CallInv
<1>3. f <= n
  BY <1>a, <1>b DEF IInv, Tiled
<1>4. /\ Len(sent') = n + 1 /\ sent'[n + 1].m = msg[p]
      /\ \A i \in 1 .. n : sent'[i] = sent[i]
  BY <1>b, <1>1 DEF IInv, TypeOK
<1>5. InFlight' = Append(InFlight, msg[p])
  <2>1. InFlight = [i \in 1 .. n - f |-> sent[f + i].m]
    BY <1>a, <1>b DEF InFlight
  <2>2. InFlight' = [i \in 1 .. n + 1 - f |-> sent'[f + i].m]
    BY <1>a, <1>1, <1>4 DEF InFlight
  <2>3. Append(InFlight, msg[p]) =
           [i \in 1 .. (n - f) + 1 |->
               IF i = (n - f) + 1 THEN msg[p] ELSE sent[f + i].m]
    BY <1>3, <2>1
  <2>4. ASSUME NEW i \in 1 .. (n - f) + 1
        PROVE  sent'[f + i].m
               = IF i = (n - f) + 1 THEN msg[p] ELSE sent[f + i].m
    BY <1>3, <1>4
  <2>5. n + 1 - f = (n - f) + 1
    BY <1>3
  <2> QED BY <2>2, <2>3, <2>4, <2>5
<1>6. /\ head - tail + Need(msg[p]) <= Cap
      /\ head' - tail' = head - tail + Need(msg[p])
  <2>1. /\ head \in Nat /\ tail \in Nat /\ Need(msg[p]) \in Nat
    BY NeedIsNat DEF IInv, TypeOK
  <2>2. head + Need(msg[p]) - tail <= Cap
    BY <1>1 DEF IInv, NoOverrun, Writing
  <2> QED BY <1>1, <2>1, <2>2, CapAssumption
<1> QED BY <1>1, <1>2, <1>5, <1>6 DEF Abstract!Push

\* The store of tail is the abstract pop.
LEMMA FreeIsPop ==
  ASSUME IInv, FreeSpace
  PROVE  Abstract!Pop
<1>a. PICK f \in Nat : f = Len(rcvd)
  BY DEF IInv, TypeOK
<1>b. PICK n \in Nat : n = Len(sent)
  BY DEF IInv, TypeOK
<1> DEFINE m == sent[f + 1].m
<1>1. /\ rcvd' = Append(rcvd, cbuf) /\ UNCHANGED <<head, sent>>
      /\ tail' = tail + LenBytes + clen /\ cpc = "free"
  BY DEF FreeSpace
<1>2. f < n /\ clen = m.len /\ cbuf = Payload(m)
  BY <1>a, <1>b, <1>1 DEF IInv, ReadSoFar, Reading
<1>3. Len(rcvd') = f + 1
  BY <1>a, <1>1 DEF IInv, TypeOK
<1>4. InFlight = [i \in 1 .. n - f |-> sent[f + i].m]
  BY <1>a, <1>b DEF InFlight
<1>5. InFlight' = [i \in 1 .. n - (f + 1) |-> sent[(f + 1) + i].m]
  BY <1>b, <1>1, <1>3 DEF InFlight
<1>6. InFlight # <<>> /\ Head(InFlight) = m
  BY <1>2, <1>4
<1>7. InFlight' = Tail(InFlight)
  <2>1. Tail(InFlight) = [i \in 1 .. (n - f) - 1 |-> sent[f + (i + 1)].m]
    BY <1>2, <1>4
  <2>2. (n - f) - 1 = n - (f + 1)
    OBVIOUS
  <2>3. ASSUME NEW i \in 1 .. n - (f + 1) PROVE f + (i + 1) = (f + 1) + i
    OBVIOUS
  <2> QED BY <1>5, <2>1, <2>2, <2>3
<1>8. head' - tail' = head - tail - Need(m)
  <2>1. m \in Message
    <3>1. sent \in Seq(Record) /\ f + 1 \in 1 .. Len(sent)
      BY <1>b, <1>2 DEF IInv, TypeOK
    <3>2. sent[f + 1] \in Record
      BY <3>1
    <3> QED BY <3>2 DEF Record
  <2> HIDE DEF m
  <2>2. head \in Nat /\ tail \in Nat /\ m.len \in Nat
    BY <2>1, NeedIsNat DEF IInv, TypeOK
  <2> QED BY <1>1, <1>2, <2>2 DEF Need, LenBytes
<1> QED BY <1>1, <1>2, <1>6, <1>7, <1>8 DEF Abstract!Pop

\* Every behaviour of the ring is one of the bounded queue: any other step
\* leaves what its users see unchanged.
THEOREM RingImplementsFifo == Spec => ImplementsFifo
<1>1. Init => Abstract!Init
  BY DEF Init, Abstract!Init, InFlight
<1>2. IInv /\ [Next]_vars => [Abstract!Next]_<<InFlight, head - tail, rcvd>>
  <2> SUFFICES ASSUME IInv, [Next]_vars
               PROVE  [Abstract!Next]_<<InFlight, head - tail, rcvd>>
    OBVIOUS
  <2>1. ASSUME UNCHANGED <<head, tail, sent, rcvd>>
        PROVE  UNCHANGED <<InFlight, head - tail, rcvd>>
    BY <2>1 DEF InFlight
  <2>2. ASSUME NEW p \in Producers, Commit(p) PROVE Abstract!Next
    BY <2>2, CommitIsPush DEF Abstract!Next
  <2>3. CASE FreeSpace
    BY <2>3, FreeIsPop DEF Abstract!Next
  <2>4. CASE UNCHANGED vars
    BY <2>1, <2>4 DEF vars, header, history
  <2>5. ASSUME NEW p \in Producers, ~Commit(p),
               PushCall(p) \/ ProducerStep(p) \/ LockTimeout(p)
               \/ SpaceTimeout(p) \/ Crash(p)
        PROVE  UNCHANGED <<head, tail, sent, rcvd>>
    BY <2>5
    DEF ProducerStep, PushCall, LockCas, LockSwap, LockWait, CheckRoom,
        WriteLen, WritePayload, LoadSeen, Unlock, WakeLock, BumpData, WakeData,
        CheckDeadline, SpaceWait, LockTimeout, SpaceTimeout, Crash, header,
        history
  <2>6. CASE PopCall \/ TryPop \/ LoadDataSeq \/ Recheck \/ PopDeadline
             \/ DataWait \/ DataTimeout \/ ReadLen \/ ReadPayload
             \/ BumpSpace \/ WakeSpace
    BY <2>1, <2>6
    DEF PopCall, TryPop, LoadDataSeq, Recheck, PopDeadline, DataWait,
        DataTimeout, ReadLen, ReadPayload, BumpSpace, WakeSpace, header, history
  <2> QED
    BY <2>1, <2>2, <2>3, <2>4, <2>5, <2>6 DEF Next, ConsumerStep
<1> QED
  BY <1>1, <1>2, RingInvariant, PTL DEF Spec, ImplementsFifo, Abstract!Spec

=============================================================================
