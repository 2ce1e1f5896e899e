-------------------------------- MODULE Ring --------------------------------
(***************************************************************************)
(* The shared-memory ring of crates/core/src/ring.rs: several producers,   *)
(* serialized by a futex mutex, push length-prefixed records; one consumer *)
(* pops them without a lock.  Every atomic access, every copy and every    *)
(* futex call of the code is a step of its own.                            *)
(*                                                                         *)
(* A byte of the data region is a pair <<m, k>>: byte k of the record of   *)
(* message m, whose first LenBytes bytes are the length prefix.            *)
(*                                                                         *)
(* A process parked by FUTEX_WAIT is a live process whose program counter  *)
(* says so; FUTEX_WAKE moves waiters on.  A crashed producer (in dead)     *)
(* keeps its program counter for ever and is in no wait queue.             *)
(***************************************************************************)
EXTENDS Integers, Sequences, FiniteSets

CONSTANTS Producers,   \* processes or threads that push
          Cap,         \* bytes of data region (Ring.capacity)
          Lens,        \* payload lengths pushed
          PushModes,   \* subset of {"try", "timed", "forever"}
          PopModes,    \* subset of {"try", "timed", "forever"}
          SeqMod,      \* modulus of the futex words (2^32 in the code)
          MaxCalls,    \* bound: push calls, all producers together
          MaxCrashes   \* bound: producers that may crash

Modes == {"try", "timed", "forever"}

ASSUME CapAssumption    == Cap \in Nat \ {0}
ASSUME LensAssumption   == Lens \subseteq Nat
ASSUME ModesAssumption  == PushModes \subseteq Modes /\ PopModes \subseteq Modes
ASSUME SeqModAssumption == SeqMod \in Nat \ {0}
ASSUME BoundsAssumption == MaxCalls \in Nat /\ MaxCrashes \in Nat

VARIABLES head, tail, prod_lock, space_seq, data_seq,  \* the ring header
          data,                                        \* the data region
          pc, msg, mode, seen, calls, dead,            \* producers
          cpc, cmode, cseen, clen, cbuf,               \* the consumer
          sent, rcvd, acked, refused                   \* history of the calls

header   == <<head, tail, prod_lock, space_seq, data_seq>>
locals   == <<msg, mode, seen, calls, dead>>
prodVars == <<pc, locals>>
consVars == <<cpc, cmode, cseen, clen, cbuf>>
history  == <<sent, rcvd, acked, refused>>
vars     == <<header, data, prodVars, consVars, history>>

-----------------------------------------------------------------------------
(* Records and bytes.                                                      *)

LenBytes == 4

\* The n-th push call of the run carries a payload of len bytes.
Message == [n : Nat, len : Nat]

NoMsg == [n |-> 0, len |-> 0]

Need(m) == LenBytes + m.len

\* A byte of a freshly created segment, before anything is written there.
ZeroByte == <<NoMsg, 0>>

Byte == Message \X Nat

Region == [0 .. Cap - 1 -> Byte]

\* A published record and the cursor at which it starts.
Record == [m : Message, at : Nat]

\* The bytes that carry the payload of m, in order.
Payload(m) == [k \in 1 .. m.len |-> <<m, LenBytes + k - 1>>]

\* Mutant: the second part of the copy, past the end of the region, is lost.
write_unwrapped(d, pos, m, lo, hi) ==
    [c \in DOMAIN d |-> LET k == c - (pos % Cap)
                       IN  IF k \in lo .. hi - 1 THEN <<m, k>> ELSE d[c]]

\* write_wrapped: bytes lo .. hi-1 of the record of m, the record starting at
\* cursor pos; position i of the stream lives in cell i % Cap.
write_wrapped(d, pos, m, lo, hi) ==
    [c \in DOMAIN d |->
        IF \E k \in lo .. hi - 1 : (pos + k) % Cap = c
        THEN <<m, CHOOSE k \in lo .. hi - 1 : (pos + k) % Cap = c>>
        ELSE d[c]]

\* read_wrapped: n consecutive bytes of the stream from cursor pos.
read_wrapped(pos, n) == [i \in 1 .. n |-> data[(pos + i - 1) % Cap]]

\* u32::from_le_bytes over the four bytes of a prefix: the length written
\* there if they are the prefix of one record, and no particular length
\* otherwise.
DecodedLens(bytes) ==
    LET whole(m) == \A k \in 1 .. LenBytes : bytes[k] = <<m, k - 1>>
    IN  IF whole(bytes[1][1]) THEN {bytes[1][1].len} ELSE 0 .. Cap

-----------------------------------------------------------------------------
(* Program counters.                                                       *)

\* The producer is between the acquisition of prod_lock and the swap that
\* releases it.
HoldsLock == {"room", "wlen", "wpay", "commit", "unlock", "seen", "funlock"}

ProducerPC == HoldsLock \cup
    {"idle", "lock", "swap", "lwait", "lparked", "wakelock", "bump", "wakedata",
     "fwakelock", "deadline", "swait", "sparked"}

\* Reading: the consumer saw head # tail and has not yet stored tail.
Reading == {"rlen", "rpay", "free"}

ConsumerPC == Reading \cup
    {"idle", "pop", "cseen", "recheck", "cdeadline", "cwait", "cparked",
     "bumpspace", "wakespace"}

Live(p) == p \notin dead

Goto(p, l) == pc' = [pc EXCEPT ![p] = l]

\* Mutant: a fetch_sub where the code has a fetch_add.
PrevSeq(w) == w - 1

\* fetch_add(1) on a futex word.
NextSeq(w) == (w + 1) % SeqMod

\* Mutant: a locked word without waiters passes for a free one.
NotContended(w) == w # 2

\* The value of prod_lock that the acquirer must find.
Unlocked(w) == w = 0
-----------------------------------------------------------------------------

\* Ring::format on a fresh segment.
Init ==
    /\ head = 0 /\ tail = 0 /\ prod_lock = 0 /\ space_seq = 0 /\ data_seq = 0
    /\ data = [c \in 0 .. Cap - 1 |-> ZeroByte]
    /\ pc = [p \in Producers |-> "idle"]
    /\ msg = [p \in Producers |-> NoMsg]
    /\ mode = [p \in Producers |-> "try"]
    /\ seen = [p \in Producers |-> 0]
    /\ calls = 0
    /\ dead = {}
    /\ cpc = "idle" /\ cmode = "try" /\ cseen = 0 /\ clen = 0 /\ cbuf = <<>>
    /\ sent = <<>> /\ rcvd = <<>> /\ acked = {} /\ refused = {}

-----------------------------------------------------------------------------
(* Producer: try_push and push_blocking.                                   *)

\* A call of try_push ("try") or push_blocking with a deadline ("timed") or
\* without one ("forever").
PushCall(p) ==
    /\ Live(p) /\ pc[p] = "idle" /\ calls < MaxCalls
    /\ \E len \in Lens, md \in PushModes :
          /\ msg' = [msg EXCEPT ![p] = [n |-> calls + 1, len |-> len]]
          /\ mode' = [mode EXCEPT ![p] = md]
    /\ calls' = calls + 1
    /\ Goto(p, "lock")
    /\ UNCHANGED <<header, data, seen, dead, consVars, history>>

\* lock_producer, fast path: compare_exchange(0, 1).
LockCas(p) ==
    /\ Live(p) /\ pc[p] = "lock"
    /\ \/ Unlocked(prod_lock) /\ prod_lock' = 1 /\ Goto(p, "room")
       \/ ~Unlocked(prod_lock) /\ UNCHANGED prod_lock /\ Goto(p, "swap")
    /\ UNCHANGED <<head, tail, space_seq, data_seq, data, locals, consVars,
                   history>>

\* lock_producer, contended: swap(2) takes the lock if it was free.
LockSwap(p) ==
    /\ Live(p) /\ pc[p] = "swap"
    /\ prod_lock' = 2
    /\ Goto(p, IF Unlocked(prod_lock) THEN "room" ELSE "lwait")
    /\ UNCHANGED <<head, tail, space_seq, data_seq, data, locals, consVars,
                   history>>

\* Mutant: a wait that does not compare the word before it parks.
LockWaitBlind(p) ==
    /\ Live(p) /\ pc[p] = "lwait" /\ Goto(p, "lparked")
    /\ UNCHANGED <<header, data, locals, consVars, history>>

\* FUTEX_WAIT(prod_lock, 2): the kernel re-reads the word and parks only if
\* it still is 2.
LockWait(p) ==
    /\ Live(p) /\ pc[p] = "lwait"
    /\ Goto(p, IF prod_lock = 2 THEN "lparked" ELSE "swap")
    /\ UNCHANGED <<header, data, locals, consVars, history>>

\* The 50 ms timeout of that wait (or a spurious wakeup).
LockTimeout(p) ==
    /\ Live(p) /\ pc[p] = "lparked"
    /\ Goto(p, "swap")
    /\ UNCHANGED <<header, data, locals, consVars, history>>

\* Mutant: the cursors are masked before they are subtracted, so that a full
\* ring looks empty.
FitsMasked(m) == Need(m) <= Cap /\ Cap - ((head % Cap) - (tail % Cap)) >= Need(m)

\* push_locked: the record can fit at all and fits now.
Fits(m) == Need(m) <= Cap /\ Cap - (head - tail) >= Need(m)

\* push_locked up to its decision.  head cannot move while the lock is held,
\* so the load of tail is the step.
CheckRoom(p) ==
    /\ Live(p) /\ pc[p] = "room"
    /\ Goto(p, IF Fits(msg[p]) THEN "wlen"
               ELSE IF mode[p] = "try" THEN "funlock" ELSE "seen")
    /\ UNCHANGED <<header, data, locals, consVars, history>>

\* push_locked: write the length prefix ...
WriteLen(p) ==
    /\ Live(p) /\ pc[p] = "wlen"
    /\ data' = write_wrapped(data, head, msg[p], 0, LenBytes)
    /\ Goto(p, "wpay")
    /\ UNCHANGED <<header, locals, consVars, history>>

\* ... then the payload ...
WritePayload(p) ==
    /\ Live(p) /\ pc[p] = "wpay"
    /\ data' = write_wrapped(data, head, msg[p], LenBytes, Need(msg[p]))
    /\ Goto(p, "commit")
    /\ UNCHANGED <<header, locals, consVars, history>>

\* ... then publish both by moving head.
Commit(p) ==
    /\ Live(p) /\ pc[p] = "commit"
    /\ head' = head + Need(msg[p])
    /\ sent' = Append(sent, [m |-> msg[p], at |-> head])
    /\ Goto(p, "unlock")
    /\ UNCHANGED <<tail, prod_lock, space_seq, data_seq, data, locals, consVars,
                   rcvd, acked, refused>>

\* push_blocking, no room: `seen` is read after the check, under the lock.
LoadSeen(p) ==
    /\ Live(p) /\ pc[p] = "seen"
    /\ seen' = [seen EXCEPT ![p] = space_seq]
    /\ Goto(p, "funlock")
    /\ UNCHANGED <<header, data, msg, mode, calls, dead, consVars, history>>

\* Mutant: try_push reports failure whatever push_locked did.
AfterUnlockFails(p) == IF mode[p] = "try" THEN "idle" ELSE "bump"

\* Where a call goes once the lock is released: the labels with an f belong
\* to a push that found no room.
AfterUnlock(p) ==
    IF pc[p] \in {"unlock", "wakelock"} THEN "bump"
    ELSE IF mode[p] = "try" THEN "idle" ELSE "deadline"

WakeLabel(p) == IF pc[p] = "unlock" THEN "wakelock" ELSE "fwakelock"

\* The call leaves for l; if that is the caller, it returns false.
Leave(p, l) == refused' = IF l = "idle" THEN refused \cup {msg[p]} ELSE refused

\* unlock_producer: swap(0); a contended word needs a wake.
Unlock(p) ==
    /\ Live(p) /\ pc[p] \in {"unlock", "funlock"}
    /\ prod_lock' = 0
    /\ LET l == IF prod_lock = 2 THEN WakeLabel(p) ELSE AfterUnlock(p)
       IN  Goto(p, l) /\ Leave(p, l)
    /\ UNCHANGED <<head, tail, space_seq, data_seq, data, locals, consVars,
                   sent, rcvd, acked>>

LockWaiters == {q \in Producers : Live(q) /\ pc[q] = "lparked"}

\* FUTEX_WAKE(prod_lock, 1): any one waiter, or none if there is none.
WakeLock(p) ==
    /\ Live(p) /\ pc[p] \in {"wakelock", "fwakelock"}
    /\ \/ /\ LockWaiters = {}
          /\ Goto(p, AfterUnlock(p))
       \/ \E q \in LockWaiters :
             pc' = [pc EXCEPT ![p] = AfterUnlock(p), ![q] = "swap"]
    /\ Leave(p, AfterUnlock(p))
    /\ UNCHANGED <<header, data, locals, consVars, sent, rcvd, acked>>

\* data_seq.fetch_add(1).
BumpData(p) ==
    /\ Live(p) /\ pc[p] = "bump"
    /\ data_seq' = NextSeq(data_seq)
    /\ Goto(p, "wakedata")
    /\ UNCHANGED <<head, tail, prod_lock, space_seq, data, locals, consVars,
                   history>>

\* FUTEX_WAKE(data_seq, 1), then the push returns true.
WakeData(p) ==
    /\ Live(p) /\ pc[p] = "wakedata"
    /\ cpc' = IF cpc = "cparked" THEN "pop" ELSE cpc
    /\ acked' = acked \cup {msg[p]}
    /\ Goto(p, "idle")
    /\ UNCHANGED <<header, data, locals, cmode, cseen, clen, cbuf, sent, rcvd,
                   refused>>

\* push_blocking: give up at the deadline, or go and wait for space.
CheckDeadline(p) ==
    /\ Live(p) /\ pc[p] = "deadline"
    /\ \E l \in IF mode[p] = "timed" THEN {"idle", "swait"} ELSE {"swait"} :
          Goto(p, l) /\ Leave(p, l)
    /\ UNCHANGED <<header, data, locals, consVars, sent, rcvd, acked>>

\* FUTEX_WAIT(space_seq, seen).
SpaceWait(p) ==
    /\ Live(p) /\ pc[p] = "swait"
    /\ Goto(p, IF space_seq = seen[p] THEN "sparked" ELSE "lock")
    /\ UNCHANGED <<header, data, locals, consVars, history>>

\* Its timeout: what is left until the deadline, or 50 ms without one.
SpaceTimeout(p) ==
    /\ Live(p) /\ pc[p] = "sparked"
    /\ Goto(p, "lock")
    /\ UNCHANGED <<header, data, locals, consVars, history>>

\* The producer's process is killed between two of its steps.
Crash(p) ==
    /\ Live(p) /\ Cardinality(dead) < MaxCrashes
    /\ dead' = dead \cup {p}
    /\ UNCHANGED <<header, data, pc, msg, mode, seen, calls, consVars, history>>

-----------------------------------------------------------------------------
(* Consumer: try_pop and pop_blocking.                                     *)

\* A call of try_pop, or of pop_blocking with or without a deadline.
PopCall ==
    /\ cpc = "idle"
    /\ cmode' \in PopModes
    /\ cpc' = "pop"
    /\ UNCHANGED <<header, data, prodVars, cseen, clen, cbuf, history>>

\* try_pop up to its decision, in the spin loop or alone.  Only the consumer
\* moves tail, so the load of head is the step.
TryPop ==
    /\ cpc = "pop"
    /\ cpc' = IF head # tail THEN "rlen"
              ELSE IF cmode = "try" THEN "idle" ELSE "cseen"
    /\ UNCHANGED <<header, data, prodVars, cmode, cseen, clen, cbuf, history>>

\* pop_blocking after the spin: read data_seq first ...
LoadDataSeq ==
    /\ cpc = "cseen"
    /\ cseen' = data_seq
    /\ cpc' = "recheck"
    /\ UNCHANGED <<header, data, prodVars, cmode, clen, cbuf, history>>

\* Mutant: the consumer waits without trying again, as the producer does.
RecheckSkipped ==
    /\ cpc = "recheck" /\ cpc' = "cdeadline"
    /\ UNCHANGED <<header, data, prodVars, cmode, cseen, clen, cbuf, history>>

\* ... and try once more before waiting.
Recheck ==
    /\ cpc = "recheck"
    /\ cpc' = IF head # tail THEN "rlen" ELSE "cdeadline"
    /\ UNCHANGED <<header, data, prodVars, cmode, cseen, clen, cbuf, history>>

PopDeadline ==
    /\ cpc = "cdeadline"
    /\ cpc' \in IF cmode = "timed" THEN {"idle", "cwait"} ELSE {"cwait"}
    /\ UNCHANGED <<header, data, prodVars, cmode, cseen, clen, cbuf, history>>

\* FUTEX_WAIT(data_seq, seen).
DataWait ==
    /\ cpc = "cwait"
    /\ cpc' = IF data_seq = cseen THEN "cparked" ELSE "pop"
    /\ UNCHANGED <<header, data, prodVars, cmode, cseen, clen, cbuf, history>>

\* Its timeout: what is left until the deadline, or 100 ms without one.
DataTimeout ==
    /\ cpc = "cparked"
    /\ cpc' = "pop"
    /\ UNCHANGED <<header, data, prodVars, cmode, cseen, clen, cbuf, history>>

ReadLen ==
    /\ cpc = "rlen"
    /\ clen' \in DecodedLens(read_wrapped(tail, LenBytes))
    /\ cpc' = "rpay"
    /\ UNCHANGED <<header, data, prodVars, cmode, cseen, cbuf, history>>

ReadPayload ==
    /\ cpc = "rpay"
    /\ cbuf' = read_wrapped(tail + LenBytes, clen)
    /\ cpc' = "free"
    /\ UNCHANGED <<header, data, prodVars, cmode, cseen, clen, history>>

\* Hand the bytes back to the producers; the payload is what try_pop returns.
FreeSpace ==
    /\ cpc = "free"
    /\ tail' = tail + LenBytes + clen
    /\ rcvd' = Append(rcvd, cbuf)
    /\ cpc' = "bumpspace"
    /\ clen' = 0 /\ cbuf' = <<>>
    /\ UNCHANGED <<head, prod_lock, space_seq, data_seq, data, prodVars, cmode,
                   cseen, sent, acked, refused>>

BumpSpace ==
    /\ cpc = "bumpspace"
    /\ space_seq' = NextSeq(space_seq)
    /\ cpc' = "wakespace"
    /\ UNCHANGED <<head, tail, prod_lock, data_seq, data, prodVars, cmode,
                   cseen, clen, cbuf, history>>

SpaceWaiters == {q \in Producers : Live(q) /\ pc[q] = "sparked"}

\* FUTEX_WAKE(space_seq, i32::MAX), then the pop returns.
WakeSpace ==
    /\ cpc = "wakespace"
    /\ pc' = [q \in Producers |-> IF q \in SpaceWaiters THEN "lock" ELSE pc[q]]
    /\ cpc' = "idle"
    /\ UNCHANGED <<header, data, locals, cmode, cseen, clen, cbuf, history>>

-----------------------------------------------------------------------------
\* The steps a running producer takes by itself, and the timeouts.
ProducerStep(p) ==
    \/ LockCas(p) \/ LockSwap(p) \/ LockWait(p) \/ CheckRoom(p)
    \/ WriteLen(p) \/ WritePayload(p) \/ Commit(p) \/ LoadSeen(p)
    \/ Unlock(p) \/ WakeLock(p) \/ BumpData(p) \/ WakeData(p)
    \/ CheckDeadline(p) \/ SpaceWait(p)

ConsumerStep ==
    \/ PopCall \/ TryPop \/ LoadDataSeq \/ Recheck \/ PopDeadline \/ DataWait
    \/ ReadLen \/ ReadPayload \/ FreeSpace \/ BumpSpace \/ WakeSpace

Next ==
    \/ \E p \in Producers :
          \/ PushCall(p) \/ ProducerStep(p)
          \/ LockTimeout(p) \/ SpaceTimeout(p) \/ Crash(p)
    \/ ConsumerStep \/ DataTimeout

Spec == Init /\ [][Next]_vars

\* The threads are scheduled and a wait for space times out.  The timeouts of
\* the two other waits are left without fairness: the wakeups must suffice.
Fairness ==
    /\ \A p \in Producers : WF_vars(ProducerStep(p)) /\ WF_vars(SpaceTimeout(p))
    /\ WF_vars(ConsumerStep)

LiveSpec == Spec /\ Fairness

\* Every timeout of the code fires as well.
TimeoutSpec ==
    /\ LiveSpec
    /\ \A p \in Producers : WF_vars(LockTimeout(p))
    /\ WF_vars(DataTimeout)

-----------------------------------------------------------------------------
(* Properties.                                                             *)

\* Types of the header, of the data region, of the locals and of the history.
TypeOK ==
    /\ head \in Nat /\ tail \in Nat
    /\ prod_lock \in 0 .. 2
    /\ space_seq \in 0 .. SeqMod - 1 /\ data_seq \in 0 .. SeqMod - 1
    /\ data \in Region
    /\ pc \in [Producers -> ProducerPC]
    /\ msg \in [Producers -> Message]
    /\ mode \in [Producers -> Modes]
    /\ seen \in [Producers -> 0 .. SeqMod - 1]
    /\ calls \in Nat
    /\ dead \subseteq Producers
    /\ cpc \in ConsumerPC /\ cmode \in Modes /\ cseen \in 0 .. SeqMod - 1
    /\ clen \in Nat /\ cbuf \in Seq(Byte)
    /\ sent \in Seq(Record) /\ rcvd \in Seq(Seq(Byte))
    /\ acked \subseteq Message /\ refused \subseteq Message

\* lock_producer / unlock_producer are a mutex: at most one producer is
\* between them, whatever crashes, and a crashed one keeps the others out.
MutualExclusion ==
    \A p, q \in Producers : pc[p] \in HoldsLock /\ pc[q] \in HoldsLock => p = q

Writing == {"wlen", "wpay", "commit"}

\* push_locked never writes a byte the consumer may still read: the record in
\* the making fits between the published records and the consumer's tail,
\* however far the tail moved since the room was checked.
NoOverrun ==
    /\ tail <= head /\ head - tail <= Cap
    /\ \A p \in Producers :
          pc[p] \in Writing => head + Need(msg[p]) - tail <= Cap

\* try_pop returns exactly the payloads push_locked published, in the order
\* of their publication, each once and none torn.
IntactFifo ==
    /\ Len(rcvd) <= Len(sent)
    /\ \A i \in 1 .. Len(rcvd) : rcvd[i] = Payload(sent[i].m)

\* A push that returned true put its record in the ring exactly once, and one
\* that returned false never did: a caller may retry a refused push safely.
ResultIsTrue ==
    LET times(m) == {i \in 1 .. Len(sent) : sent[i].m = m}
    IN  /\ \A m \in acked : Cardinality(times(m)) = 1
        /\ \A m \in refused : times(m) = {}

\* The queue a user of the ring sees: messages published and not yet freed.
InFlight == [i \in 1 .. Len(sent) - Len(rcvd) |-> sent[Len(rcvd) + i].m]

\* Messages some call may carry.
Pushed == [n : 1 .. MaxCalls, len : Lens]

Abstract == INSTANCE Fifo WITH Message <- Pushed,
                               queue <- InFlight, used <- head - tail,
                               out <- rcvd

\* Every step of the ring, crashes included, is a push, a pop or nothing at
\* all of the bounded queue of module Fifo.
ImplementsFifo == Abstract!Spec

\* The push put its record in the ring and has not yet woken the consumer.
Waking == {"unlock", "wakelock", "bump", "wakedata"}

\* The consumer is never left parked on data_seq with a record in the ring
\* unless a producer is still to wake it, or died before it could.
NoLostDataWakeup ==
    cpc = "cparked" /\ head # tail =>
        \E p \in Producers : pc[p] \in Waking

\* No producer is left parked on prod_lock when the lock is free and nobody is
\* on its way to take it or to wake a waiter (or died on that way).
NoLostLockWakeup ==
    LockWaiters # {} /\ prod_lock = 0 =>
        \E p \in Producers : pc[p] \in {"wakelock", "fwakelock", "swap", "lwait"}

\* Every record that reaches the ring is popped by a consumer that keeps
\* calling, with no help from the timeout of its wait.
EveryRecordDelivered ==
    \A i \in 1 .. MaxCalls : Len(sent) >= i ~> Len(rcvd) >= i

\* Every push returns: with room, after a timeout or, without a deadline, once
\* the consumer made room.
EveryPushReturns ==
    \A p \in Producers : pc[p] # "idle" ~> pc[p] = "idle"

\* futex.rs: a producer left parked by a crashed peer is recovered, so a live
\* producer's push with a deadline returns.
SurvivorsPushReturns ==
    \A p \in Producers : pc[p] # "idle" ~> pc[p] = "idle" \/ p \in dead
-----------------------------------------------------------------------------
(* The inductive invariant behind MutualExclusion, NoOverrun, IntactFifo    *)
(* and ImplementsFifo.                                                      *)

\* prod_lock is 0 exactly while nobody holds the lock.
LockWord == prod_lock = 0 <=> \A p \in Producers : pc[p] \notin HoldsLock

EndOf(r) == r.at + Need(r.m)

\* Cursor at which the i-th record starts, the next one to come included.
Start(i) == IF i <= Len(sent) THEN sent[i].at ELSE head

\* The published records tile the stream, and the one after the last record
\* freed starts at tail.
Tiled ==
    /\ Len(rcvd) <= Len(sent)
    /\ tail = Start(Len(rcvd) + 1)
    /\ \A i \in 1 .. Len(sent) : EndOf(sent[i]) = Start(i + 1)
    /\ \A i \in 1 .. Len(sent) : EndOf(sent[i]) <= head
    /\ \A i, j \in 1 .. Len(sent) : i < j => EndOf(sent[i]) <= sent[j].at

\* Bytes 0 .. n-1 of the record of m stand in the data region from pos on.
Holds(pos, m, n) == \A k \in 0 .. n - 1 : data[(pos + k) % Cap] = <<m, k>>

\* The bytes of every record not yet freed are those that were pushed.
Stored ==
    \A i \in 1 .. Len(sent) :
        i > Len(rcvd) => Holds(sent[i].at, sent[i].m, Need(sent[i].m))

\* How much of its record a producer has written.
Written ==
    \A p \in Producers :
        /\ pc[p] = "wpay" => Holds(head, msg[p], LenBytes)
        /\ pc[p] = "commit" => Holds(head, msg[p], Need(msg[p]))

\* What a consumer inside try_pop has read is the oldest record.
ReadSoFar ==
    /\ cpc \in Reading => Len(rcvd) < Len(sent)
    /\ cpc \in {"rpay", "free"} => clen = sent[Len(rcvd) + 1].m.len
    /\ cpc = "free" => cbuf = Payload(sent[Len(rcvd) + 1].m)

\* Between a call and its return a producer has a message of the bounded set.
CallInv ==
    /\ calls <= MaxCalls
    /\ \A p \in Producers : pc[p] # "idle" => msg[p] \in Pushed

IInv ==
    /\ TypeOK /\ MutualExclusion /\ LockWord /\ NoOverrun
    /\ Tiled /\ Stored /\ Written /\ ReadSoFar /\ IntactFifo
    /\ CallInv

-----------------------------------------------------------------------------
(* What the proofs of the two wakeup properties and of ResultIsTrue need    *)
(* besides.                                                                 *)

\* A waiter of prod_lock is seen by the holder (the word is 2), or somebody is
\* on the way to wake it or to make it seen.
WaitersSeen ==
    LockWaiters # {} /\ prod_lock # 2 =>
        \E p \in Producers : pc[p] \in {"wakelock", "fwakelock", "swap", "lwait"}

\* Each record takes a byte at least, so the ring holds Cap of them at most.
Spaced ==
    \A i, j \in 1 .. Len(sent) : i <= j => sent[j].at - sent[i].at >= j - i

\* Pushes that are in the ring and have not bumped data_seq, and the number of
\* times it was bumped since the consumer read it.
Unannounced == {p \in Producers : pc[p] \in Waking \ {"wakedata"}}

Bumps == IF data_seq >= cseen THEN data_seq - cseen ELSE data_seq + SeqMod - cseen

\* A consumer on its way to park.
Parking == {"recheck", "cdeadline", "cwait"}

\* What bumps data_seq while the consumer is on its way to park is a push that
\* had committed before, one for each producer at most, or a record in the ring.
AnnouncedOnce ==
    cpc \in Parking =>
        Bumps + Cardinality(Unannounced) <= Cardinality(Producers) + Len(sent) - Len(rcvd)

\* It found the ring empty after it read data_seq: a record since then moved
\* data_seq on, or is about to.
ParksEmpty ==
    cpc \in {"cdeadline", "cwait"} /\ head # tail => cseen # data_seq \/ Unannounced # {}

\* Calls are told apart by their number, and one that has not committed yet,
\* or was refused, is in no record.
CallsApart ==
    /\ \A p \in Producers :
          pc[p] # "idle" =>
              /\ msg[p].n \in 1 .. calls
              /\ \A q \in Producers : q # p /\ pc[q] # "idle" => msg[q].n # msg[p].n
              /\ IF pc[p] \in Waking THEN \E i \in 1 .. Len(sent) : sent[i].m = msg[p]
                 ELSE \A i \in 1 .. Len(sent) : sent[i].m.n # msg[p].n
              /\ \A m \in refused : m.n # msg[p].n
    /\ \A i, j \in 1 .. Len(sent) : sent[i].m.n = sent[j].m.n => i = j
    /\ \A i \in 1 .. Len(sent) : sent[i].m.n <= calls
    /\ \A m \in acked : \E i \in 1 .. Len(sent) : sent[i].m = m
    /\ \A m \in refused : m.n <= calls /\ \A i \in 1 .. Len(sent) : sent[i].m.n # m.n
=============================================================================
