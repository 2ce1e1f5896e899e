--------------------------- MODULE ConnectorProofs ---------------------------
(***************************************************************************)
(* Proofs about Connector, for any set of threads, any names, any number   *)
(* of broker runs, operations, clients and timeouts.  Most steps of a      *)
(* thread leave the broker, the transport and the reply ring alone and end *)
(* without a correlation id: LocalStep is about those, and asks only what  *)
(* the thread's new locals say.  The other steps have lemmas of their own. *)
(***************************************************************************)
EXTENDS Connector, FiniteSetTheorems, SequenceTheorems, TLAPS

(* The part of TypeOK about the table of handles and the bounds. *)
Entered ==
    /\ \A i \in DOMAIN handles : handles[i] \in [name : Names, ring : Rings]
    /\ reg_seq \in Nat \ {0} /\ DOMAIN handles \subseteq 1..(reg_seq - 1)
    /\ excused \subseteq DOMAIN handles \cup {0} /\ ops \in 0..MaxOps /\ faults \in 0..MaxFaults
    /\ phase \in {"connecting", "up", "down"} /\ stray \in BOOLEAN

(* The part about the rest of the shared state. *)
Linked ==
    /\ gen \in 1..MaxEpoch /\ ctl \in {"serving", "stale", "gone"}
    /\ RegistryShape /\ inbox \in Seq(Requests)
    /\ t \in [epoch : 1..MaxEpoch, client_id : Nat]
    /\ replies \subseteq Answers /\ IsFiniteSet(replies)

Waits(c) == c.pc \in {"push", "wait"} /\ c.reply = None

Alone(x) == \A y \in Threads \ {x} : th'[y] = th[y]

LEMMA TypeParts ==
    TypeOK <=> /\ Entered /\ Linked /\ pending \subseteq Nat /\ mu \in Threads \cup {None}
               /\ th \in [Threads -> ThreadType]
  BY DEF TypeOK, Entered, Linked

LEMMA TypePartsNext ==
    TypeOK' <=> /\ Entered' /\ Linked' /\ (pending \subseteq Nat)' /\ (mu \in Threads \cup {None})'
                /\ (th \in [Threads -> ThreadType])'
  BY DEF TypeOK, Entered, Linked

LEMMA Slots ==
    NoSlotLeaks <=> \A k \in pending : \E y \in Threads : th[y].corr = k /\ Waits(th[y])
  BY DEF NoSlotLeaks, Waits

LEMMA SlotsNext ==
    NoSlotLeaks' <=> \A k \in pending' : \E y \in Threads : th'[y].corr = k /\ Waits(th'[y])
  BY DEF NoSlotLeaks, Waits

LEMMA Becoming ==
    ASSUME TypeOK, NEW x \in Threads, NEW c \in ThreadType, Becomes(x, c)
    PROVE  (th \in [Threads -> ThreadType])' /\ th'[x] = c /\ Alone(x)
<1>1. th \in [Threads -> ThreadType]
  BY DEF TypeOK
<1> QED BY <1>1 DEF Becomes, Alone

LEMMA NoneIsNoThread == None \notin Threads
  BY ConnectorAssumption DEF Threads

(* What a thread's locals have to say after a step of its own. *)
Fits(x, c) ==
    /\ LocalsOK(x, c) /\ c.corr = 0
    /\ c.reply # None => ~ Registers(c)

(* A step that leaves the broker, the transport and the reply ring alone,  *)
(* and in which the thread gives its correlation id up, if it has one.     *)
LEMMA LocalStep ==
    ASSUME ConnectorInv, NEW x \in Threads, NEW c \in ThreadType, Becomes(x, c), Fits(x, c),
           UNCHANGED <<broker, t, replies>>, Entered', UNCHANGED stray,
           pending' \subseteq pending, Waits(th[x]) => th[x].corr \notin pending',
           EpochsOK(c),
           mu' \in {mu, None, x}, mu' = mu \/ mu \in {None, x}, Reconnects(c) => mu' = x
    PROVE  ConnectorInv'
<1>1. (th \in [Threads -> ThreadType])' /\ th'[x] = c /\ Alone(x)
  BY Becoming DEF ConnectorInv
<1>2. TypeOK'
  <2>1. Linked /\ pending \subseteq Nat /\ mu \in Threads \cup {None}
    BY TypeParts DEF ConnectorInv
  <2>2. Linked'
    BY <2>1 DEF Linked, RegistryShape, broker
  <2> QED BY <1>1, <2>1, <2>2, TypePartsNext
<1>3. Shape'
  BY <1>1 DEF ConnectorInv, Shape, Alone, Fits
<1>4. Exclusive'
  BY <1>1, NoneIsNoThread DEF ConnectorInv, Exclusive, Alone
<1>5. Forward'
  <2>1. t' = t /\ gen' = gen
    BY DEF broker
  <2> QED BY <1>1, <2>1 DEF ConnectorInv, Forward, EpochsOK, Alone
<1>6. Correlated'
  <2>1. UNCHANGED <<inbox, t, gen, ctl>>
    BY DEF broker
  <2> QED BY <1>1, <2>1 DEF ConnectorInv, Correlated, Alone, Fits, Serving, At
<1>7. NoSlotLeaks'
  <2>1. \A k \in pending : \E y \in Threads : th[y].corr = k /\ Waits(th[y])
    BY Slots DEF ConnectorInv
  <2>2. SUFFICES ASSUME NEW k \in pending'
                 PROVE  \E y \in Threads : th'[y].corr = k /\ Waits(th'[y])
    BY SlotsNext
  <2>3. PICK y \in Threads : th[y].corr = k /\ Waits(th[y])
    BY <2>1
  <2>4. y # x
    BY <2>3
  <2> QED BY <1>1, <2>3 DEF Alone
<1>8. ReconnectedIdIsOurs'
  BY DEF ConnectorInv, ReconnectedIdIsOurs, IdIsOurs, Ours, Serving, broker
<1>9. OursSoon'
  <2>1. \A id : Ours(id)' <=> Ours(id)
    BY DEF Ours, broker
  <2>2. UNCHANGED <<t, gen, ctl, replies>>
    BY DEF broker
  <2> QED BY <1>1, <2>1, <2>2 DEF ConnectorInv, OursSoon, Brings, Serving, Alone, Fits
<1> QED BY <1>2, <1>3, <1>4, <1>5, <1>6, <1>7, <1>8, <1>9 DEF ConnectorInv

LEMMA Locals ==
    ASSUME ConnectorInv, NEW x \in Threads
    PROVE  /\ th[x] \in ThreadType /\ LocalsOK(x, th[x]) /\ EpochsOK(th[x])
           /\ Reconnects(th[x]) => mu = x
  BY DEF ConnectorInv, TypeOK, Shape, Forward, Exclusive

LEMMA Fields ==
    ASSUME NEW c \in ThreadType
    PROVE  /\ c.pc \in InCall \cup Reconnecting \cup {"idle", "entry", "live", "lock", "join"}
           /\ c.op \in [call : Calls, name : Names \cup {None}] \cup {None}
           /\ c.call \in Calls \cup {None} /\ c.name \in Names \cup {None} /\ c.id \in Nat
           /\ c.cid \in Nat /\ c.corr \in Nat /\ c.reply \in Answers \cup {None}
           /\ c.retried \in BOOLEAN /\ c.seen \in 0..MaxEpoch /\ c.boot \in 0..MaxEpoch
           /\ c.sent \in 0..MaxEpoch /\ c.todo \in SUBSET [id : Nat, name : Names] /\ c.ring \in Rings \cup {None}
  BY DEF ThreadType

LEMMA EntriesStay ==
    ASSUME ConnectorInv, UNCHANGED <<entries, budget, conn>>
    PROVE  Entered' /\ UNCHANGED stray
  BY TypeParts DEF ConnectorInv, Entered, entries, budget, conn

LEMMA IdleFits ==
    ASSUME ConnectorInv, NEW x \in Threads
    PROVE  Idle \in ThreadType /\ Fits(x, Idle) /\ EpochsOK(Idle) /\ ~ Reconnects(Idle)
<1>1. Idle \in ThreadType
  BY ConnectorAssumption DEF Idle, ThreadType
<1>2. Idle.pc = "idle" /\ Idle.corr = 0 /\ Idle.reply = None /\ Idle.seen = 0 /\ Idle.sent = 0
  BY DEF Idle
<1>3. LocalsOK(x, Idle) /\ ~ Registers(Idle) /\ ~ Reconnects(Idle)
  BY <1>2 DEF LocalsOK, MayRetry, Registers, Reconnects, InCall, Reconnecting
<1>4. gen \in Nat
  BY DEF ConnectorInv, TypeOK
<1> QED BY <1>1, <1>2, <1>3, <1>4 DEF Fits, EpochsOK

(* A thread is done, and holds reconnect_mu no longer. *)
LEMMA Finishes ==
    ASSUME ConnectorInv, NEW x \in Threads, Becomes(x, Idle), UNCHANGED <<broker, t, replies>>, Entered',
           UNCHANGED stray, pending' \subseteq pending, Waits(th[x]) => th[x].corr \notin pending',
           mu' \in {mu, None}, mu' = mu \/ mu = x
    PROVE  ConnectorInv'
  BY IdleFits, LocalStep

LEMMA FrameStep ==
    ASSUME ConnectorInv, NEW x \in Threads, Frame(x)
    PROVE  ConnectorInv'
<1> DEFINE p == IF th[x].call = "unpublish" THEN "push" ELSE "slot"
<1> DEFINE i == IF th[x].call \in Registrations THEN t.epoch ELSE t.client_id
<1> DEFINE c == [th[x] EXCEPT !.cid = i, !.pc = p]
<1>1. /\ At(x, "frame") /\ Becomes(x, c) /\ UNCHANGED <<broker, t, replies>>
      /\ UNCHANGED pending /\ UNCHANGED mu /\ UNCHANGED <<entries, budget, conn>>
  BY DEF Frame
<1>2. th[x] \in ThreadType /\ LocalsOK(x, th[x]) /\ EpochsOK(th[x]) /\ (Reconnects(th[x]) => mu = x)
  BY Locals
<1>3. i \in Nat
  BY DEF ConnectorInv, TypeOK
<1>4. p \in {"push", "slot"} /\ (p = "slot" => th[x].call # "unpublish")
  OBVIOUS
<1> HIDE DEF p, i
<1>5. c \in ThreadType
  BY <1>2, <1>3, <1>4 DEF ThreadType, InCall
<1>6. /\ c.pc = p /\ c.op = th[x].op /\ c.call = th[x].call /\ c.name = th[x].name
      /\ c.corr = th[x].corr /\ c.reply = th[x].reply /\ c.seen = th[x].seen /\ c.sent = th[x].sent
  OBVIOUS
<1> HIDE DEF c
<1>7. th[x].pc = "frame"
  BY <1>1 DEF At
<1>8. Fits(x, c)
  BY <1>2, <1>4, <1>6, <1>7 DEF Fits, LocalsOK, MayRetry, InCall, Reconnecting
<1>9. EpochsOK(c) /\ (Reconnects(c) => mu' = x)
  BY <1>1, <1>2, <1>4, <1>6, <1>7 DEF EpochsOK, Registers, Reconnects, InCall, Reconnecting
<1>10. Entered' /\ UNCHANGED stray /\ ~ Waits(th[x])
  BY <1>1, <1>7, EntriesStay DEF Waits
<1> QED BY <1>1, <1>5, <1>8, <1>9, <1>10, LocalStep

(* A control call fails and waits no longer. *)
LEMMA CallFails ==
    ASSUME ConnectorInv, NEW x \in Threads, NEW c \in ThreadType, Becomes(x, c),
           th[x].pc \in {"push", "wait"}, th[x].reply = None \/ th[x].call = "publish",
           c.pc = "failed", c.corr = 0, c.op = th[x].op, c.call = th[x].call, c.name = th[x].name,
           c.reply = th[x].reply, c.seen = th[x].seen, c.sent \in {th[x].sent, t.epoch},
           UNCHANGED <<broker, t, replies, mu>>, Entered', UNCHANGED stray,
           pending' \subseteq pending, Waits(th[x]) => th[x].corr \notin pending'
    PROVE  ConnectorInv'
<1>1. th[x] \in ThreadType /\ LocalsOK(x, th[x]) /\ EpochsOK(th[x]) /\ (Reconnects(th[x]) => mu = x)
  BY Locals
<1>2. Fits(x, c)
  BY <1>1 DEF Fits, LocalsOK, MayRetry, InCall, Reconnecting, Registers, Registrations
<1>3. t.epoch <= gen
  BY DEF ConnectorInv, Forward
<1>4. EpochsOK(c) /\ (Reconnects(c) => mu' = x)
  BY <1>1, <1>3 DEF EpochsOK, Reconnects, InCall, Reconnecting
<1> QED BY <1>2, <1>4, LocalStep

(* A timeout is counted. *)
LEMMA FaultStays ==
    ASSUME ConnectorInv, faults' = faults \/ (faults < MaxFaults /\ faults' = faults + 1),
           UNCHANGED <<entries, ops, conn>>
    PROVE  Entered' /\ UNCHANGED stray
<1>1. Entered /\ faults \in 0..MaxFaults
  BY TypeParts DEF ConnectorInv, Entered
<1>2. faults' \in 0..MaxFaults
  BY <1>1, ConnectorAssumption
<1> QED BY <1>1, <1>2 DEF Entered, entries, conn

LEMMA PushFullStep ==
    ASSUME ConnectorInv, NEW x \in Threads, PushFull(x)
    PROVE  ConnectorInv'
<1> DEFINE e == t.epoch
<1> DEFINE c == [th[x] EXCEPT !.pc = "failed", !.corr = 0, !.cid = 0, !.sent = e]
<1>1. Entered' /\ UNCHANGED stray
  BY FaultStays DEF PushFull
<1>2. /\ Becomes(x, c) /\ th[x].pc = "push"
      /\ DropPending(x) /\ UNCHANGED <<broker, t, replies, mu>>
  BY DEF PushFull, At
<1>3. th[x] \in ThreadType /\ th[x].reply = None
  BY <1>2, Locals DEF LocalsOK
<1>4. e \in 0..MaxEpoch
  BY DEF ConnectorInv, TypeOK
<1> HIDE DEF e
<1>5. c \in ThreadType
  <2> DEFINE d == [th[x] EXCEPT !.pc = "failed", !.corr = 0]
  <2>0. th[x] \in ThreadType
    BY Locals
  <2>1. d \in ThreadType
    BY <2>0 DEF ThreadType, InCall
  <2>2. c = [d EXCEPT !.cid = 0, !.sent = e]
    BY <1>3 DEF ThreadType
  <2> HIDE DEF c, d
  <2> QED BY <1>4, <2>1, <2>2 DEF ThreadType
<1>6. /\ c.pc = "failed" /\ c.op = th[x].op /\ c.call = th[x].call /\ c.name = th[x].name
      /\ c.corr = 0 /\ c.reply = th[x].reply /\ c.seen = th[x].seen /\ c.sent = e
  BY <1>3 DEF ThreadType
<1> HIDE DEF c
<1> QED BY <1>1, <1>2, <1>3, <1>5, <1>6, CallFails DEF DropPending, e

LEMMA TimesOutStep ==
    ASSUME ConnectorInv, NEW x \in Threads, TimesOut(x)
    PROVE  ConnectorInv'
<1> DEFINE c == [th[x] EXCEPT !.pc = "failed", !.corr = 0]
<1>1. Entered' /\ UNCHANGED stray
  BY FaultStays DEF TimesOut
<1>2. /\ Becomes(x, c) /\ th[x].pc = "wait" /\ th[x].reply = None
      /\ DropPending(x) /\ UNCHANGED <<broker, t, replies, mu>>
  BY DEF TimesOut, At
<1>3. th[x] \in ThreadType
  BY Locals
<1>4. c \in ThreadType
  BY <1>3 DEF ThreadType, InCall
<1>5. /\ c.pc = "failed" /\ c.op = th[x].op /\ c.call = th[x].call /\ c.name = th[x].name
      /\ c.corr = 0 /\ c.reply = th[x].reply /\ c.seen = th[x].seen /\ c.sent = th[x].sent
  OBVIOUS
<1> HIDE DEF c
<1> QED BY <1>1, <1>2, <1>4, <1>5, CallFails DEF DropPending

(* An operation starts: with what it puts on its way, and what it does to  *)
(* the table of handles.                                                   *)
LEMMA StartStep ==
    ASSUME ConnectorInv, NEW u \in Users, NEW op \in {"list", "publish", "unpublish"},
           NEW n \in Names \cup {None}, op = "list" => n = None, op = "publish" => n \in Names,
           Start(u, op, n), DOMAIN handles' \subseteq DOMAIN handles,
           \A i \in DOMAIN handles' : handles'[i] = handles[i], UNCHANGED reg_seq,
           excused' \subseteq excused, excused' \subseteq DOMAIN handles' \cup {0}
    PROVE  ConnectorInv'
<1> DEFINE o == [call |-> op, name |-> n]
<1> DEFINE c == [Idle EXCEPT !.pc = "frame", !.op = o, !.call = op, !.name = n]
<1>1. /\ th[u].pc = "idle" /\ ops < MaxOps /\ Becomes(u, c) /\ ops' = ops + 1
      /\ UNCHANGED <<broker, t, replies, pending, mu, faults, phase, stray>>
  BY DEF Start, At, conn
<1>2. u \in Threads
  BY DEF Threads
<1>3. Idle \in ThreadType /\ EpochsOK(Idle)
  BY <1>2, IdleFits
<1>4. op = "unpublish" \/ o \in Retriable
  BY DEF Retriable
<1>5. o \in [call : Calls, name : Names \cup {None}]
  BY DEF Calls
<1> HIDE DEF o
<1>6. c \in ThreadType
  <2> DEFINE d == [Idle EXCEPT !.pc = "frame", !.op = o]
  <2>1. d \in ThreadType
    BY <1>3, <1>5 DEF ThreadType, InCall
  <2>2. c = [d EXCEPT !.call = op, !.name = n]
    BY <1>3 DEF ThreadType
  <2>3. op \in Calls
    BY DEF Calls
  <2> HIDE DEF c, d
  <2> QED BY <2>1, <2>2, <2>3 DEF ThreadType
<1>7. /\ c.pc = "frame" /\ c.op = o /\ c.call = op /\ c.name = n /\ c.corr = 0 /\ c.reply = None
      /\ c.seen = Idle.seen /\ c.sent = Idle.sent
  BY DEF Idle
<1> HIDE DEF c
<1>8. Fits(u, c)
  BY <1>4, <1>7 DEF Fits, LocalsOK, MayRetry, Reconnecting, Calls
<1>9. EpochsOK(c) /\ ~ Reconnects(c)
  BY <1>3, <1>7 DEF EpochsOK, Registers, Reconnects, Reconnecting
<1>10. Entered'
  <2>1. Entered /\ ops \in 0..MaxOps
    BY TypeParts DEF ConnectorInv, Entered
  <2>2. ops' \in 0..MaxOps
    BY <1>1, <2>1, ConnectorAssumption
  <2> QED BY <1>1, <2>1, <2>2 DEF Entered
<1> QED BY <1>1, <1>2, <1>6, <1>8, <1>9, <1>10, LocalStep DEF Waits

LEMMA StartsStep ==
    ASSUME ConnectorInv, NEW u \in Users, List(u) \/ Publish(u) \/ Expose(u)
    PROVE  ConnectorInv'
<1>1. UNCHANGED <<handles, reg_seq, excused>>
  BY DEF List, Publish, Expose, entries
<1>2. excused \subseteq DOMAIN handles \cup {0}
  BY DEF ConnectorInv, TypeOK
<1>3. CASE List(u)
  BY <1>1, <1>2, <1>3, StartStep DEF List
<1>4. CASE Publish(u)
  BY <1>1, <1>2, <1>4, StartStep DEF Publish
<1>5. CASE Expose(u)
  BY <1>1, <1>2, <1>5, StartStep, ConnectorAssumption DEF Expose
<1> QED BY <1>3, <1>4, <1>5

LEMMA DropPublisherStep ==
    ASSUME ConnectorInv, NEW u \in Users, DropPublisher(u)
    PROVE  ConnectorInv'
<1>1. PICK id \in DOMAIN handles :
         /\ Start(u, "unpublish", handles[id].name)
         /\ handles' = Without(handles, {id})
         /\ excused' = excused \ {id} /\ UNCHANGED reg_seq
  BY DEF DropPublisher
<1>2. handles[id].name \in Names /\ excused \subseteq DOMAIN handles \cup {0}
  BY DEF ConnectorInv, TypeOK
<1>3. DOMAIN handles' = DOMAIN handles \ {id} /\ \A i \in DOMAIN handles' : handles'[i] = handles[i]
  BY <1>1 DEF Without
<1> QED BY <1>1, <1>2, <1>3, StartStep

LEMMA ListReturnsStep ==
    ASSUME ConnectorInv, NEW u \in Users, ListReturns(u)
    PROVE  ConnectorInv'
<1>1. Entered' /\ UNCHANGED stray
  BY EntriesStay DEF ListReturns
<1> QED BY <1>1, Finishes DEF ListReturns, Answered, Waits, Threads

(* An arena that opens is one of the latest broker run. *)
LEMMA OpenedRing ==
    ASSUME ConnectorInv, NEW x \in Threads, th[x].reply # None
    PROVE  Opened(x) \in Rings
<1>1. th[x].reply \in Answers
  BY Locals, Fields
<1>2. th[x].reply.id \in Nat /\ gen \in 1..MaxEpoch
  BY <1>1 DEF Answers, ConnectorInv, TypeOK
<1> QED BY <1>2 DEF Opened, Rings

LEMMA PublishReturnsStep ==
    ASSUME ConnectorInv, NEW u \in Users, PublishReturns(u)
    PROVE  ConnectorInv'
<1>1. Entered' /\ UNCHANGED stray
  BY EntriesStay DEF PublishReturns
<1>2. u \in Threads
  BY DEF Threads
<1>3. /\ th[u].pc = "wait" /\ th[u].reply # None /\ th[u].call = "publish"
      /\ UNCHANGED <<broker, t, replies, pending, mu>>
  BY DEF PublishReturns, Answered, At
<1>4. th[u] \in ThreadType /\ LocalsOK(u, th[u])
  BY <1>2, Locals
<1>5. ~ Waits(th[u])
  BY <1>3 DEF Waits
<1>6. CASE Becomes(u, Idle)
  BY <1>1, <1>2, <1>3, <1>5, <1>6, Finishes
<1>7. CASE Becomes(u, [Idle EXCEPT !.pc = "entry", !.name = th[u].name, !.ring = Opened(u)])
  <2> DEFINE o == Opened(u)
  <2> DEFINE c == [Idle EXCEPT !.pc = "entry", !.name = th[u].name, !.ring = o]
  <2>1. o \in Rings /\ th[u].name \in Names
    BY <1>2, <1>3, <1>4, OpenedRing DEF LocalsOK, InCall
  <2>2. Idle \in ThreadType /\ EpochsOK(Idle)
    BY <1>2, IdleFits
  <2>3. Becomes(u, c)
    BY <1>7
  <2> HIDE DEF o
  <2>4. c \in ThreadType
    BY <2>1, <2>2 DEF ThreadType
  <2>5. /\ c.pc = "entry" /\ c.name = th[u].name /\ c.ring = o /\ c.corr = 0 /\ c.reply = None
        /\ c.seen = Idle.seen /\ c.sent = Idle.sent
    BY DEF Idle
  <2> HIDE DEF c
  <2>6. Fits(u, c)
    BY <2>1, <2>5 DEF Fits, LocalsOK, MayRetry, InCall, Reconnecting
  <2>7. EpochsOK(c) /\ ~ Reconnects(c)
    BY <2>2, <2>5 DEF EpochsOK, Registers, Reconnects, InCall, Reconnecting
  <2> QED BY <1>1, <1>2, <1>3, <1>5, <2>3, <2>4, <2>6, <2>7, LocalStep
<1>8. CASE Becomes(u, [th[u] EXCEPT !.pc = "failed", !.corr = 0])
  <2> DEFINE c == [th[u] EXCEPT !.pc = "failed", !.corr = 0]
  <2>1. c \in ThreadType
    BY <1>4 DEF ThreadType, InCall
  <2>2. /\ c.pc = "failed" /\ c.op = th[u].op /\ c.call = th[u].call /\ c.name = th[u].name
        /\ c.corr = 0 /\ c.reply = th[u].reply /\ c.seen = th[u].seen /\ c.sent = th[u].sent
    OBVIOUS
  <2>3. Becomes(u, c)
    BY <1>8
  <2> HIDE DEF c
  <2> QED BY <1>1, <1>2, <1>3, <1>5, <2>1, <2>2, <2>3, CallFails
<1> QED BY <1>6, <1>7, <1>8 DEF PublishReturns

LEMMA RegisterEntryStep ==
    ASSUME ConnectorInv, NEW u \in Users, register_entry(u)
    PROVE  ConnectorInv'
<1> DEFINE e == [name |-> th[u].name, ring |-> th[u].ring]
<1>1. u \in Threads
  BY DEF Threads
<1>2. /\ th[u].pc = "entry" /\ handles' = Put(handles, reg_seq, e) /\ reg_seq' = reg_seq + 1
      /\ excused' \subseteq excused \cup {reg_seq} /\ Becomes(u, Idle)
      /\ UNCHANGED <<broker, t, replies, pending, mu, budget, phase, stray>>
  BY DEF register_entry, At, NextEntry, conn
<1>3. th[u].name \in Names /\ th[u].ring \in Rings
  BY <1>1, <1>2, Locals DEF LocalsOK
<1>4. e \in [name : Names, ring : Rings]
  BY <1>3
<1> HIDE DEF e
<1>5. Entered'
  <2>1. Entered /\ reg_seq \in Nat \ {0}
    BY TypeParts DEF ConnectorInv, Entered
  <2>2. DOMAIN handles' = DOMAIN handles \cup {reg_seq}
        /\ \A i \in DOMAIN handles' : handles'[i] = IF i = reg_seq THEN e ELSE handles[i]
    BY <1>2 DEF Put
  <2>3. \A i \in DOMAIN handles' : handles'[i] \in [name : Names, ring : Rings]
    BY <1>4, <2>1, <2>2 DEF Entered
  <2>4. reg_seq' \in Nat \ {0} /\ DOMAIN handles' \subseteq 1..(reg_seq' - 1)
    BY <1>2, <2>1, <2>2 DEF Entered
  <2>5. (excused \subseteq DOMAIN handles \cup {0})' /\ (ops \in 0..MaxOps /\ faults \in 0..MaxFaults)'
    BY <1>2, <2>1, <2>2 DEF Entered, budget
  <2>6. (phase \in {"connecting", "up", "down"})' /\ (stray \in BOOLEAN)'
    BY <1>2, <2>1, Zenon DEF Entered
  <2> QED BY <2>3, <2>4, <2>5, <2>6 DEF Entered
<1> QED BY <1>1, <1>2, <1>5, Finishes DEF Waits

LEMMA OpFailsStep ==
    ASSUME ConnectorInv, NEW u \in Users, OpFails(u)
    PROVE  ConnectorInv'
<1> DEFINE c == [th[u] EXCEPT !.pc = "live", !.seen = t.epoch, !.reply = None]
<1>1. Entered' /\ UNCHANGED stray
  BY EntriesStay DEF OpFails
<1>2. u \in Threads
  BY DEF Threads
<1>3. /\ th[u].pc = "failed" /\ th[u].call \in {"list", "publish"}
      /\ (Becomes(u, Idle) \/ Becomes(u, c))
      /\ UNCHANGED <<broker, t, replies, pending, mu>>
  BY DEF OpFails, At
<1>4. th[u] \in ThreadType /\ LocalsOK(u, th[u]) /\ EpochsOK(th[u])
  BY <1>2, Locals
<1>5. ~ Waits(th[u])
  BY <1>3 DEF Waits
<1>6. CASE Becomes(u, Idle)
  BY <1>1, <1>2, <1>3, <1>5, <1>6, Finishes
<1>7. CASE Becomes(u, c)
  <2>1. t.epoch \in 0..MaxEpoch /\ t.epoch <= gen
    BY DEF ConnectorInv, TypeOK, Forward
  <2>2. c \in ThreadType
    BY <1>4, <2>1 DEF ThreadType
  <2>3. /\ c.pc = "live" /\ c.op = th[u].op /\ c.corr = th[u].corr /\ c.reply = None
        /\ c.seen = t.epoch /\ c.sent = th[u].sent
    OBVIOUS
  <2>4. Becomes(u, c)
    BY <1>7
  <2> HIDE DEF c
  <2>5. Fits(u, c)
    BY <1>3, <1>4, <2>3 DEF Fits, LocalsOK, MayRetry, InCall
  <2>6. EpochsOK(c) /\ ~ Reconnects(c)
    BY <1>4, <2>1, <2>3 DEF EpochsOK, Reconnects, InCall, Reconnecting
  <2> QED BY <1>1, <1>2, <1>3, <1>5, <2>2, <2>4, <2>5, <2>6, LocalStep
<1> QED BY <1>3, <1>6, <1>7

LEMMA TickStep ==
    ASSUME ConnectorInv, Tick
    PROVE  ConnectorInv'
<1> DEFINE c == [th[Watcher] EXCEPT !.pc = "live", !.seen = t.epoch]
<1>1. Entered' /\ UNCHANGED stray
  BY EntriesStay DEF Tick
<1>2. Watcher \in Threads
  BY DEF Threads
<1>3. th[Watcher].pc = "idle" /\ Becomes(Watcher, c) /\ UNCHANGED <<broker, t, replies, pending, mu>>
  BY DEF Tick, At
<1>4. th[Watcher] \in ThreadType /\ LocalsOK(Watcher, th[Watcher]) /\ EpochsOK(th[Watcher])
  BY <1>2, Locals
<1>5. t.epoch \in 0..MaxEpoch /\ t.epoch <= gen
  BY DEF ConnectorInv, TypeOK, Forward
<1>6. c \in ThreadType
  BY <1>4, <1>5 DEF ThreadType
<1>7. /\ c.pc = "live" /\ c.corr = th[Watcher].corr /\ c.reply = th[Watcher].reply /\ c.seen = t.epoch
      /\ c.sent = th[Watcher].sent
  OBVIOUS
<1> HIDE DEF c
<1>8. Fits(Watcher, c)
  BY <1>3, <1>4, <1>7 DEF Fits, LocalsOK, InCall
<1>9. EpochsOK(c) /\ ~ Reconnects(c)
  BY <1>4, <1>5, <1>7 DEF EpochsOK, Reconnects, InCall, Reconnecting
<1> QED BY <1>1, <1>2, <1>3, <1>6, <1>8, <1>9, LocalStep DEF Waits

LEMMA LiveStep ==
    ASSUME ConnectorInv, NEW x \in Threads, Live(x)
    PROVE  ConnectorInv'
<1> DEFINE c == [th[x] EXCEPT !.pc = "lock"]
<1>1. Entered' /\ UNCHANGED stray
  BY EntriesStay DEF Live
<1>2. /\ th[x].pc = "live" /\ (Becomes(x, Idle) \/ (gen # th[x].seen /\ Becomes(x, c)))
      /\ UNCHANGED <<broker, t, replies, pending, mu>>
  BY DEF Live, At, Restarted
<1>3. th[x] \in ThreadType /\ LocalsOK(x, th[x]) /\ EpochsOK(th[x])
  BY Locals
<1>4. ~ Waits(th[x])
  BY <1>2 DEF Waits
<1>5. CASE Becomes(x, Idle)
  BY <1>1, <1>2, <1>4, <1>5, Finishes
<1>6. CASE gen # th[x].seen /\ Becomes(x, c)
  <2>1. c \in ThreadType
    BY <1>3 DEF ThreadType
  <2>2. /\ c.pc = "lock" /\ c.op = th[x].op /\ c.corr = th[x].corr /\ c.reply = th[x].reply
        /\ c.seen = th[x].seen /\ c.sent = th[x].sent
    OBVIOUS
  <2>3. Becomes(x, c)
    BY <1>6
  <2> HIDE DEF c
  <2>4. Fits(x, c)
    BY <1>2, <1>3, <2>2 DEF Fits, LocalsOK, MayRetry, InCall
  <2>5. th[x].seen < gen
    <3>1. th[x].seen \in Nat /\ gen \in Nat
      BY Fields DEF ConnectorInv, TypeOK
    <3> QED BY <1>3, <1>6, <3>1 DEF EpochsOK
  <2>6. EpochsOK(c) /\ ~ Reconnects(c)
    BY <1>3, <2>2, <2>5 DEF EpochsOK, Registers, Reconnects, InCall, Reconnecting
  <2> QED BY <1>1, <1>2, <1>4, <2>1, <2>3, <2>4, <2>6, LocalStep
<1> QED BY <1>2, <1>5, <1>6

(* The operation once more, or the watcher's next round. *)
LEMMA RetryFits ==
    ASSUME ConnectorInv, NEW x \in Threads, MayRetry(th[x])
    PROVE  Retry(x) \in ThreadType /\ Fits(x, Retry(x)) /\ EpochsOK(Retry(x)) /\ ~ Reconnects(Retry(x))
<1>1. CASE x = Watcher
  BY <1>1, IdleFits DEF Retry
<1>2. CASE x # Watcher
  <2> DEFINE o == th[x].op
  <2> DEFINE c == [Idle EXCEPT !.pc = "frame", !.op = o, !.call = o.call, !.name = o.name, !.retried = TRUE]
  <2>1. o \in Retriable
    BY <1>2, Locals DEF LocalsOK
  <2>2. Retry(x) = c
    BY <1>2 DEF Retry
  <2> HIDE DEF o
  <2>3. /\ o.call \in {"list", "publish"} /\ o.name \in Names \cup {None}
        /\ (o.call = "publish" => o.name \in Names)
        /\ o \in [call : Calls, name : Names \cup {None}]
    BY <2>1 DEF Retriable, Calls
  <2>4. Idle \in ThreadType /\ EpochsOK(Idle)
    BY IdleFits
  <2>5. c \in ThreadType
    BY <2>3, <2>4 DEF ThreadType, InCall
  <2>6. /\ c.pc = "frame" /\ c.op = o /\ c.call = o.call /\ c.name = o.name /\ c.corr = 0
        /\ c.reply = None /\ c.seen = Idle.seen /\ c.sent = Idle.sent
    BY DEF Idle
  <2> HIDE DEF c
  <2>7. Fits(x, c)
    BY <2>1, <2>3, <2>6 DEF Fits, LocalsOK
  <2>8. EpochsOK(c) /\ ~ Reconnects(c)
    BY <2>3, <2>4, <2>6 DEF EpochsOK, Registers, Reconnects, Reconnecting
  <2> QED BY <2>2, <2>5, <2>7, <2>8
<1> QED BY <1>1, <1>2

LEMMA LockStep ==
    ASSUME ConnectorInv, NEW x \in Threads, Lock(x)
    PROVE  ConnectorInv'
<1> DEFINE c == [th[x] EXCEPT !.pc = "boot", !.seen = 0]
<1>1. Entered' /\ UNCHANGED stray
  BY EntriesStay DEF Lock
<1>2. /\ th[x].pc = "lock" /\ mu = None
      /\ \/ Becomes(x, Retry(x)) /\ UNCHANGED mu
         \/ t.epoch = th[x].seen /\ mu' = x /\ Becomes(x, c)
      /\ UNCHANGED <<broker, t, replies, pending>>
  BY DEF Lock, At, AlreadyReconnected
<1>3. th[x] \in ThreadType /\ LocalsOK(x, th[x]) /\ EpochsOK(th[x])
  BY Locals
<1>4. ~ Waits(th[x]) /\ MayRetry(th[x])
  BY <1>2 DEF Waits, MayRetry
<1>5. CASE Becomes(x, Retry(x)) /\ UNCHANGED mu
  BY <1>1, <1>2, <1>4, <1>5, RetryFits, LocalStep
<1>6. CASE t.epoch = th[x].seen /\ mu' = x /\ Becomes(x, c)
  <2>0. 0 \in 0..MaxEpoch
    BY ConnectorAssumption
  <2>1. c \in ThreadType
    BY <1>3, <2>0 DEF ThreadType, Reconnecting
  <2>2. /\ c.pc = "boot" /\ c.op = th[x].op /\ c.corr = th[x].corr /\ c.reply = th[x].reply
        /\ c.seen = 0 /\ c.sent = th[x].sent
    OBVIOUS
  <2>3. Becomes(x, c)
    BY <1>6
  <2> HIDE DEF c
  <2>4. Fits(x, c)
    BY <1>2, <1>3, <1>4, <2>2 DEF Fits, LocalsOK, InCall
  <2>5. EpochsOK(c)
    <3>1. gen \in Nat
      BY DEF ConnectorInv, TypeOK
    <3> QED BY <1>2, <1>3, <1>6, <2>2, <3>1 DEF EpochsOK, Registers, InCall
  <2> QED BY <1>1, <1>2, <1>4, <1>6, <2>1, <2>4, <2>5, LocalStep
<1> QED BY <1>2, <1>5, <1>6

LEMMA BootstrapStep ==
    ASSUME ConnectorInv, NEW x \in Threads, Bootstrap(x)
    PROVE  ConnectorInv'
<1> DEFINE c == [th[x] EXCEPT !.boot = gen, !.pc = "clear"]
<1>1. Entered' /\ UNCHANGED stray
  BY EntriesStay DEF Bootstrap
<1>2. /\ th[x].pc = "boot" /\ UNCHANGED <<broker, t, replies, pending>>
      /\ \/ mu' = None /\ Becomes(x, Idle)
         \/ Becomes(x, c) /\ UNCHANGED mu
  BY DEF Bootstrap, At, Unlock
<1>3. th[x] \in ThreadType /\ LocalsOK(x, th[x]) /\ EpochsOK(th[x]) /\ mu = x
  BY <1>2, Locals DEF Reconnects, Reconnecting
<1>4. ~ Waits(th[x])
  BY <1>2 DEF Waits
<1>5. CASE mu' = None /\ Becomes(x, Idle)
  BY <1>1, <1>2, <1>3, <1>4, <1>5, Finishes
<1>6. CASE Becomes(x, c) /\ UNCHANGED mu
  <2>1. gen \in 1..MaxEpoch /\ gen \in 0..MaxEpoch
    BY DEF ConnectorInv, TypeOK
  <2>2. c \in ThreadType
    BY <1>3, <2>1 DEF ThreadType, Reconnecting
  <2>3. /\ c.pc = "clear" /\ c.op = th[x].op /\ c.corr = th[x].corr /\ c.reply = th[x].reply
        /\ c.seen = th[x].seen /\ c.sent = th[x].sent /\ c.boot = gen
    OBVIOUS
  <2>4. Becomes(x, c)
    BY <1>6
  <2> HIDE DEF c
  <2>5. Fits(x, c)
    BY <1>2, <1>3, <2>3 DEF Fits, LocalsOK, MayRetry, InCall, Reconnecting
  <2>6. EpochsOK(c)
    BY <1>2, <1>3, <2>1, <2>3 DEF EpochsOK, Registers, InCall
  <2> QED BY <1>1, <1>2, <1>3, <1>4, <1>6, <2>2, <2>5, <2>6, LocalStep
<1> QED BY <1>2, <1>5, <1>6

LEMMA ClearPendingStep ==
    ASSUME ConnectorInv, NEW x \in Threads, ClearPending(x)
    PROVE  ConnectorInv'
<1> DEFINE c == [th[x] EXCEPT !.pc = "swap"]
<1>1. Entered' /\ UNCHANGED stray
  BY EntriesStay DEF ClearPending
<1>2. th[x].pc = "clear" /\ pending' = {} /\ Becomes(x, c) /\ UNCHANGED <<broker, t, replies, mu>>
  BY DEF ClearPending, At, Go
<1>3. th[x] \in ThreadType /\ LocalsOK(x, th[x]) /\ EpochsOK(th[x]) /\ mu = x
  BY <1>2, Locals DEF Reconnects, Reconnecting
<1>4. c \in ThreadType
  BY <1>3 DEF ThreadType, Reconnecting
<1>5. /\ c.pc = "swap" /\ c.op = th[x].op /\ c.corr = th[x].corr /\ c.reply = th[x].reply
      /\ c.seen = th[x].seen /\ c.sent = th[x].sent /\ c.boot = th[x].boot
  OBVIOUS
<1> HIDE DEF c
<1>6. Fits(x, c)
  BY <1>2, <1>3, <1>5 DEF Fits, LocalsOK, MayRetry, InCall, Reconnecting
<1>7. EpochsOK(c)
  BY <1>2, <1>3, <1>5 DEF EpochsOK, Registers, InCall
<1> QED BY <1>1, <1>2, <1>3, <1>4, <1>6, <1>7, LocalStep

LEMMA RegisterFailsStep ==
    ASSUME ConnectorInv, NEW x \in Threads, RegisterFails(x)
    PROVE  ConnectorInv'
<1>1. /\ th[x].pc = "failed" /\ th[x].call = "register" /\ mu' = None
      /\ excused' = DOMAIN handles \cup {0} /\ Becomes(x, Idle)
      /\ UNCHANGED <<broker, t, replies, pending>> /\ UNCHANGED <<handles, reg_seq, budget, phase, stray>>
  BY DEF RegisterFails, At, Unlock, conn
<1>2. mu = x
  BY <1>1, Locals DEF Reconnects, InCall
<1>3. Entered'
  <2>1. Entered
    BY TypeParts DEF ConnectorInv
  <2> QED BY <1>1, <2>1 DEF Entered, budget
<1> QED BY <1>1, <1>2, <1>3, Finishes DEF Waits

LEMMA SnapshotStep ==
    ASSUME ConnectorInv, NEW x \in Threads, Snapshot(x)
    PROVE  ConnectorInv'
<1> DEFINE s == {[id |-> i, name |-> handles[i].name] : i \in DOMAIN handles}
<1> DEFINE c == [th[x] EXCEPT !.pc = "next", !.todo = s]
<1>1. Entered' /\ UNCHANGED stray
  BY EntriesStay DEF Snapshot
<1>2. th[x].pc = "snapshot" /\ Becomes(x, c) /\ UNCHANGED <<broker, t, replies, pending, mu>>
  BY DEF Snapshot, At
<1>3. th[x] \in ThreadType /\ LocalsOK(x, th[x]) /\ EpochsOK(th[x]) /\ mu = x
  BY <1>2, Locals DEF Reconnects, Reconnecting
<1>4. s \in SUBSET [id : Nat, name : Names]
  BY DEF ConnectorInv, TypeOK
<1> HIDE DEF s
<1>5. c \in ThreadType
  BY <1>3, <1>4 DEF ThreadType, Reconnecting
<1>6. /\ c.pc = "next" /\ c.op = th[x].op /\ c.corr = th[x].corr /\ c.reply = th[x].reply
      /\ c.seen = th[x].seen /\ c.sent = th[x].sent
  OBVIOUS
<1> HIDE DEF c
<1>7. Fits(x, c)
  BY <1>2, <1>3, <1>6 DEF Fits, LocalsOK, MayRetry, InCall, Reconnecting
<1>8. EpochsOK(c)
  BY <1>3, <1>6 DEF EpochsOK, Registers, InCall
<1> QED BY <1>1, <1>2, <1>3, <1>5, <1>7, <1>8, LocalStep DEF Waits

LEMMA ReplayNextStep ==
    ASSUME ConnectorInv, NEW x \in Threads, ReplayNext(x)
    PROVE  ConnectorInv'
<1>1. Entered' /\ UNCHANGED stray
  BY EntriesStay DEF ReplayNext
<1>2. th[x].pc = "next" /\ UNCHANGED <<broker, t, replies, pending>>
  BY DEF ReplayNext, At
<1>3. th[x] \in ThreadType /\ LocalsOK(x, th[x]) /\ EpochsOK(th[x]) /\ mu = x
  BY <1>2, Locals DEF Reconnects, Reconnecting
<1>4. ~ Waits(th[x]) /\ MayRetry(th[x])
  BY <1>2 DEF Waits, MayRetry, Reconnecting
<1>5. CASE mu' = None /\ Becomes(x, Retry(x))
  BY <1>1, <1>2, <1>3, <1>4, <1>5, RetryFits, LocalStep
<1>6. ASSUME NEW e \in th[x].todo, UNCHANGED mu,
             Becomes(x, [th[x] EXCEPT !.pc = "frame", !.call = "replay", !.name = e.name,
                                      !.id = e.id, !.todo = @ \ {e}])
      PROVE  ConnectorInv'
  <2> DEFINE c == [th[x] EXCEPT !.pc = "frame", !.call = "replay", !.name = e.name,
                                !.id = e.id, !.todo = @ \ {e}]
  <2>1. th[x].todo \in SUBSET [id : Nat, name : Names]
    BY <1>3, Fields
  <2>2. e.name \in Names /\ e.id \in Nat
    BY <2>1
  <2>3. c \in ThreadType
    BY <1>3 DEF ThreadType, InCall, Calls
  <2>4. /\ c.pc = "frame" /\ c.call = "replay" /\ c.op = th[x].op /\ c.corr = th[x].corr
        /\ c.reply = th[x].reply /\ c.seen = th[x].seen /\ c.sent = th[x].sent
    OBVIOUS
  <2>5. Becomes(x, c)
    BY <1>6
  <2> HIDE DEF c
  <2>6. Fits(x, c)
    BY <1>2, <1>3, <1>4, <2>4 DEF Fits, LocalsOK, Calls
  <2>7. EpochsOK(c)
    BY <1>3, <2>4 DEF EpochsOK, Registers
  <2> QED BY <1>1, <1>2, <1>3, <1>4, <1>6, <2>3, <2>5, <2>6, <2>7, LocalStep
<1> QED BY <1>5, <1>6 DEF ReplayNext, Unlock

(* Back in replay's loop, with one handle more rebound or excused. *)
LEMMA ReplayGoesOn ==
    ASSUME ConnectorInv, NEW x \in Threads, Becomes(x, Replayed(x)), th[x].call = "replay",
           th[x].pc \in {"wait", "failed"}, ~ Waits(th[x]),
           UNCHANGED <<broker, t, replies, pending, mu>>, Entered', UNCHANGED stray
    PROVE  ConnectorInv'
<1> DEFINE c == [th[x] EXCEPT !.pc = "next", !.name = None, !.id = 0, !.corr = 0, !.reply = None]
<1>1. th[x] \in ThreadType /\ LocalsOK(x, th[x]) /\ EpochsOK(th[x]) /\ mu = x
  BY Locals DEF Reconnects, InCall
<1>2. c \in ThreadType
  BY <1>1 DEF ThreadType, Reconnecting
<1>3. c.pc = "next" /\ c.op = th[x].op /\ c.corr = 0 /\ c.reply = None /\ c.seen = th[x].seen /\ c.sent = th[x].sent
  OBVIOUS
<1>4. Becomes(x, c)
  BY DEF Replayed
<1> HIDE DEF c
<1>5. Fits(x, c)
  BY <1>1, <1>3 DEF Fits, LocalsOK, MayRetry, InCall
<1>6. EpochsOK(c)
  BY <1>1, <1>3 DEF EpochsOK, Registers, InCall
<1> QED BY <1>1, <1>2, <1>4, <1>5, <1>6, LocalStep

LEMMA ReplayReturnsStep ==
    ASSUME ConnectorInv, NEW x \in Threads, ReplayReturns(x)
    PROVE  ConnectorInv'
<1>1. /\ th[x].pc = "wait" /\ th[x].reply # None /\ th[x].call = "replay" /\ Becomes(x, Replayed(x))
      /\ UNCHANGED <<broker, t, replies, pending, mu>> /\ UNCHANGED <<reg_seq, budget, phase, stray>>
      /\ \/ Rebind(x) /\ excused' \subseteq excused
         \/ excused' = Excuse(th[x].id) /\ UNCHANGED handles
  BY DEF ReplayReturns, Answered, At, conn
<1>2. Opened(x) \in Rings
  BY <1>1, OpenedRing
<1>3. Entered'
  <2>1. Entered
    BY TypeParts DEF ConnectorInv
  <2>2. CASE Rebind(x) /\ excused' \subseteq excused
    <3>1. DOMAIN handles' = DOMAIN handles
      BY <2>2 DEF Rebind
    <3>2. \A i \in DOMAIN handles : handles'[i] \in [name : Names, ring : Rings]
      BY <1>2, <2>1, <2>2 DEF Rebind, Entered
    <3> QED BY <1>1, <2>1, <2>2, <3>1, <3>2 DEF Entered, budget
  <2>3. CASE excused' = Excuse(th[x].id) /\ UNCHANGED handles
    BY <1>1, <2>1, <2>3 DEF Entered, budget, Excuse
  <2> QED BY <1>1, <2>2, <2>3
<1> QED BY <1>1, <1>3, ReplayGoesOn DEF Waits

LEMMA ReplayFailsStep ==
    ASSUME ConnectorInv, NEW x \in Threads, ReplayFails(x)
    PROVE  ConnectorInv'
<1>1. /\ th[x].pc = "failed" /\ th[x].call = "replay" /\ Becomes(x, Replayed(x))
      /\ UNCHANGED <<broker, t, replies, pending, mu>> /\ UNCHANGED <<handles, reg_seq, budget, phase, stray>>
      /\ excused' = Excuse(th[x].id)
  BY DEF ReplayFails, At, conn
<1>2. Entered'
  <2>1. Entered
    BY TypeParts DEF ConnectorInv
  <2> QED BY <1>1, <2>1 DEF Entered, budget, Excuse
<1> QED BY <1>1, <1>2, ReplayGoesOn DEF Waits

(* next_corr is a correlation id nobody uses. *)
LEMMA NextCorrFresh ==
    ASSUME TypeOK
    PROVE  next_corr \in Nat \ {0} /\ next_corr \notin CorrsInUse
<1>1. IsFiniteSet(CorrsInUse)
  <2> DEFINE A == {th[x].corr : x \in Threads}
  <2> DEFINE B == {r.corr : r \in replies}
  <2> DEFINE C == {inbox[i].corr : i \in DOMAIN inbox}
  <2>1. IsFiniteSet(A)
    <3> DEFINE f == [x \in Threads |-> th[x].corr]
    <3>1. IsFiniteSet(Threads)
      BY FS_AddElement, ConnectorAssumption DEF Threads
    <3>2. f \in Surjection(Threads, A)
      BY DEF Surjection
    <3> QED BY <3>1, <3>2, FS_Surjection
  <2>2. IsFiniteSet(B)
    <3> DEFINE f == [r \in replies |-> r.corr]
    <3>1. f \in Surjection(replies, B)
      BY DEF Surjection
    <3>2. IsFiniteSet(replies)
      BY DEF TypeOK
    <3> QED BY <3>1, <3>2, FS_Surjection
  <2>3. IsFiniteSet(C)
    <3> DEFINE f == [i \in DOMAIN inbox |-> inbox[i].corr]
    <3>1. f \in Surjection(DOMAIN inbox, C)
      BY DEF Surjection
    <3>2. inbox \in Seq(Requests)
      BY DEF TypeOK
    <3>3. DOMAIN inbox = 1..Len(inbox) /\ Len(inbox) \in Nat
      OBVIOUS
    <3>4. IsFiniteSet(DOMAIN inbox)
      BY <3>3, FS_Interval
    <3> QED BY <3>1, <3>4, FS_Surjection
  <2>4. CorrsInUse = (A \cup B) \cup C
    BY DEF CorrsInUse
  <2> HIDE DEF A, B, C
  <2> QED BY <2>1, <2>2, <2>3, <2>4, FS_Union
<1> DEFINE n == Cardinality(CorrsInUse)
<1>2. n \in Nat
  BY <1>1, FS_CardinalityType
<1>3. \E c \in 1..(n + 1) : c \notin CorrsInUse
  <2>1. SUFFICES ASSUME 1..(n + 1) \subseteq CorrsInUse PROVE FALSE
    OBVIOUS
  <2>2. Cardinality(1..(n + 1)) <= n
    BY <1>1, <2>1, FS_Subset
  <2>3. Cardinality(1..(n + 1)) = n + 1
    <3> HIDE DEF n
    <3>1. 1 \in Int /\ n + 1 \in Int /\ ~ (1 > n + 1) /\ (n + 1) - 1 + 1 = n + 1
      BY <1>2
    <3> QED BY <3>1, FS_Interval
  <2> HIDE DEF n
  <2> QED BY <1>2, <2>2, <2>3
<1>4. next_corr \in 1..(n + 1) /\ next_corr \notin CorrsInUse
  BY <1>3 DEF next_corr
<1> HIDE DEF n
<1> QED BY <1>4

(* A step that leaves the transport's epoch and reconnect_mu alone, as far *)
(* as the threads' locals go.                                              *)
LEMMA ThreadKeeps ==
    ASSUME ConnectorInv, NEW x \in Threads, NEW c \in ThreadType, Becomes(x, c), LocalsOK(x, c),
           EpochsOK(c), Reconnects(c) => mu = x, UNCHANGED <<gen, mu>>, t'.epoch = t.epoch
    PROVE  Shape' /\ Exclusive' /\ Forward'
<1>1. th'[x] = c /\ Alone(x)
  BY Becoming DEF ConnectorInv
<1>2. Shape'
  BY <1>1 DEF ConnectorInv, Shape, Alone
<1>3. Exclusive'
  BY <1>1 DEF ConnectorInv, Exclusive, Alone
<1>4. Forward'
  BY <1>1 DEF ConnectorInv, Forward, EpochsOK, Alone
<1> QED BY <1>2, <1>3, <1>4

LEMMA InsertSlotStep ==
    ASSUME ConnectorInv, NEW x \in Threads, InsertSlot(x)
    PROVE  ConnectorInv'
<1> DEFINE k == next_corr
<1> DEFINE c == [th[x] EXCEPT !.corr = k, !.pc = "push"]
<1>1. /\ th[x].pc = "slot" /\ Becomes(x, c) /\ pending' = pending \cup {k}
      /\ UNCHANGED <<gen, ctl, reg, inbox, t, replies, mu>> /\ UNCHANGED <<entries, budget, conn>>
  BY DEF InsertSlot, At, broker
<1>2. k \in Nat \ {0} /\ k \notin CorrsInUse
  BY NextCorrFresh DEF ConnectorInv
<1> HIDE DEF k
<1>3. th[x] \in ThreadType /\ LocalsOK(x, th[x]) /\ EpochsOK(th[x]) /\ (Reconnects(th[x]) => mu = x)
  BY Locals
<1>4. c \in ThreadType
  BY <1>2, <1>3 DEF ThreadType, InCall
<1>5. /\ c.pc = "push" /\ c.op = th[x].op /\ c.call = th[x].call /\ c.name = th[x].name
      /\ c.corr = k /\ c.reply = th[x].reply /\ c.seen = th[x].seen /\ c.sent = th[x].sent
  OBVIOUS
<1> HIDE DEF c
<1>6. (th \in [Threads -> ThreadType])' /\ th'[x] = c /\ Alone(x)
  BY <1>1, <1>4, Becoming DEF ConnectorInv
<1>7. TypeOK'
  <2>1. Linked /\ pending \subseteq Nat /\ mu \in Threads \cup {None}
    BY TypeParts DEF ConnectorInv
  <2>2. Linked'
    BY <1>1, <2>1 DEF Linked, RegistryShape
  <2>3. Entered'
    BY <1>1, EntriesStay
  <2> QED BY <1>1, <1>2, <1>6, <2>1, <2>2, <2>3, TypePartsNext
<1>8. th[x].call # "unpublish" /\ th[x].reply = None
  BY <1>1, <1>3 DEF LocalsOK
<1>9. LocalsOK(x, c)
  BY <1>1, <1>3, <1>5, <1>8 DEF LocalsOK, MayRetry, InCall, Reconnecting
<1>10. EpochsOK(c) /\ (Reconnects(c) => mu = x)
  BY <1>1, <1>3, <1>5 DEF EpochsOK, Registers, Reconnects, InCall, Reconnecting
<1>11. Shape' /\ Exclusive' /\ Forward'
  BY <1>1, <1>4, <1>9, <1>10, ThreadKeeps
<1>12. /\ \A y \in Threads : th[y].corr # k
       /\ \A r \in replies : r.corr # k
       /\ \A i \in DOMAIN inbox : inbox[i].corr # k
  BY <1>2 DEF CorrsInUse
<1>13. Correlated'
  BY <1>1, <1>2, <1>5, <1>6, <1>12 DEF ConnectorInv, Correlated, Alone, Serving, At
<1>14. NoSlotLeaks'
  <2>1. \A j \in pending : \E y \in Threads : th[y].corr = j /\ Waits(th[y])
    BY Slots DEF ConnectorInv
  <2>2. th'[x].corr = k /\ Waits(th'[x]) /\ ~ Waits(th[x])
    BY <1>1, <1>5, <1>6, <1>8 DEF Waits
  <2>3. ASSUME NEW j \in pending'
        PROVE  \E y \in Threads : th'[y].corr = j /\ Waits(th'[y])
    <3>1. CASE j = k
      BY <2>2, <3>1
    <3>2. CASE j \in pending
      <4>1. PICK y \in Threads : th[y].corr = j /\ Waits(th[y])
        BY <2>1, <3>2
      <4>2. y # x
        BY <2>2, <4>1
      <4> QED BY <1>6, <4>1, <4>2 DEF Alone
    <3> QED BY <1>1, <3>1, <3>2
  <2> QED BY <2>3, SlotsNext
<1>15. ReconnectedIdIsOurs'
  BY <1>1 DEF ConnectorInv, ReconnectedIdIsOurs, IdIsOurs, Ours, Serving, conn
<1>16. OursSoon'
  <2>1. \A id : Ours(id)' <=> Ours(id)
    BY <1>1 DEF Ours
  <2> QED BY <1>1, <1>5, <1>6, <1>8, <1>12, <2>1 DEF ConnectorInv, OursSoon, Brings, Serving, Alone
<1> QED BY <1>7, <1>11, <1>13, <1>14, <1>15, <1>16 DEF ConnectorInv

LEMMA PushStep ==
    ASSUME ConnectorInv, NEW x \in Threads, Push(x)
    PROVE  ConnectorInv'
<1> DEFINE m == [corr |-> th[x].corr, call |-> th[x].call, cid |-> th[x].cid, name |-> th[x].name]
<1> DEFINE e == t.epoch
<1> DEFINE d == [th[x] EXCEPT !.pc = "wait", !.cid = 0, !.sent = e]
<1> DEFINE c == IF th[x].call = "unpublish" THEN Idle ELSE d
<1>1. /\ th[x].pc = "push" /\ Becomes(x, c)
      /\ inbox' = inbox \/ (Serving /\ t.epoch = gen /\ inbox' = Append(inbox, m))
      /\ UNCHANGED <<gen, ctl, reg, t, replies, pending, mu>> /\ UNCHANGED <<entries, budget, conn>>
  BY DEF Push, At
<1>2. th[x] \in ThreadType /\ LocalsOK(x, th[x]) /\ EpochsOK(th[x]) /\ (Reconnects(th[x]) => mu = x)
  BY Locals
<1>3. m \in Requests /\ m.corr = th[x].corr /\ m.call = th[x].call
  <2>1. th[x].call \in Calls /\ th[x].corr \in Nat /\ th[x].cid \in Nat /\ th[x].name \in Names \cup {None}
    BY <1>1, <1>2, Fields DEF LocalsOK, InCall
  <2> QED BY <2>1 DEF Requests
<1> HIDE DEF m
<1>4. d \in ThreadType /\ d.sent = e /\ e = t.epoch
  <2>1. e \in 0..MaxEpoch /\ e = t.epoch
    BY DEF ConnectorInv, TypeOK
  <2> HIDE DEF e
  <2> QED BY <1>2, <2>1 DEF ThreadType, InCall
<1> HIDE DEF e
<1>5. /\ d.pc = "wait" /\ d.op = th[x].op /\ d.call = th[x].call /\ d.name = th[x].name
      /\ d.corr = th[x].corr /\ d.reply = th[x].reply /\ d.seen = th[x].seen
  BY <1>2 DEF ThreadType
<1> HIDE DEF d
<1>6. Idle \in ThreadType /\ Fits(x, Idle) /\ EpochsOK(Idle) /\ ~ Reconnects(Idle)
  BY IdleFits
<1>7. \/ th[x].call = "unpublish" /\ c = Idle /\ th[x].corr = 0
      \/ th[x].call # "unpublish" /\ c = d
  BY <1>2 DEF LocalsOK
<1> HIDE DEF c
<1>8. LocalsOK(x, d) /\ EpochsOK(d) /\ (Reconnects(d) => mu = x)
  <2>1. t.epoch <= gen
    BY DEF ConnectorInv, Forward
  <2> QED BY <1>1, <1>2, <1>4, <1>5, <2>1 DEF LocalsOK, MayRetry, InCall, Reconnecting, EpochsOK, Reconnects
<1>9. c \in ThreadType /\ LocalsOK(x, c) /\ EpochsOK(c) /\ (Reconnects(c) => mu = x)
  BY <1>4, <1>6, <1>7, <1>8 DEF Fits
<1>10. (th \in [Threads -> ThreadType])' /\ th'[x] = c /\ Alone(x)
  BY <1>1, <1>9, Becoming DEF ConnectorInv
<1>11. Shape' /\ Exclusive' /\ Forward'
  BY <1>1, <1>9, ThreadKeeps
<1>12. c.corr # 0 => c.corr = th[x].corr /\ c.call = th[x].call /\ c.pc = "wait" /\ c.sent = t.epoch
  BY <1>4, <1>5, <1>6, <1>7 DEF Fits
<1>13. inbox \in Seq(Requests)
  BY DEF ConnectorInv, TypeOK
<1>14. /\ inbox' \in Seq(Requests)
       /\ \A i \in DOMAIN inbox' : \/ inbox'[i] = m /\ t.epoch = gen
                                   \/ i \in DOMAIN inbox /\ inbox'[i] = inbox[i]
       /\ inbox' # << >> => inbox # << >> \/ (Serving /\ t.epoch = gen)
  BY <1>1, <1>3, <1>13
<1>15. TypeOK'
  <2>1. Linked /\ pending \subseteq Nat /\ mu \in Threads \cup {None}
    BY TypeParts DEF ConnectorInv
  <2>2. Linked'
    BY <1>1, <1>14, <2>1 DEF Linked, RegistryShape
  <2>3. Entered'
    BY <1>1, EntriesStay
  <2> QED BY <1>1, <1>10, <2>1, <2>2, <2>3, TypePartsNext
<1>16. Correlated'
  <2>1. 0 \notin pending' /\ (inbox' # << >> => Serving' /\ t'.epoch = gen')
    BY <1>1 DEF ConnectorInv, Correlated, Serving
  <2>2. \A y \in Threads : th'[y].corr # 0 => th'[y].corr = th[y].corr /\ th'[y].call = th[y].call
    BY <1>10, <1>12 DEF Alone
  <2>3. \A y, z \in Threads : th'[y].corr = th'[z].corr /\ th'[y].corr # 0 => y = z
    BY <2>2 DEF ConnectorInv, Correlated
  <2>4. ASSUME NEW y \in Threads, NEW i \in DOMAIN inbox', inbox'[i].corr = th'[y].corr, th'[y].corr # 0
        PROVE  inbox'[i].call = th'[y].call /\ th'[y].pc = "wait" /\ th'[y].sent = gen
    <3>1. CASE inbox'[i] = m /\ t.epoch = gen
      <4>1. th[y].corr = th[x].corr /\ th[y].corr # 0
        BY <1>3, <2>2, <2>4, <3>1
      <4>2. y = x
        BY <4>1 DEF ConnectorInv, Correlated
      <4> QED BY <1>3, <1>10, <1>12, <2>4, <3>1, <4>2
    <3>2. CASE i \in DOMAIN inbox /\ inbox'[i] = inbox[i]
      <4>1. inbox[i].call = th[y].call /\ th[y].pc = "wait" /\ th[y].sent = gen
        BY <2>2, <2>4, <3>2 DEF ConnectorInv, Correlated, At
      <4> QED BY <1>1, <1>10, <3>2, <4>1 DEF Alone
    <3> QED BY <1>14, <3>1, <3>2
  <2>5. \A y \in Threads : th'[y].pc = "push" => th[y].pc = "push" /\ th'[y].corr = th[y].corr
    BY <1>5, <1>6, <1>7, <1>10 DEF Alone, Idle
  <2> QED BY <1>1, <2>1, <2>3, <2>4, <2>5 DEF ConnectorInv, Correlated, At
<1>17. NoSlotLeaks'
  <2>1. \A j \in pending : \E y \in Threads : th[y].corr = j /\ Waits(th[y])
    BY Slots DEF ConnectorInv
  <2>2. th[x].corr \in pending /\ Waits(th[x]) => th'[x].corr = th[x].corr /\ Waits(th'[x])
    BY <1>5, <1>7, <1>10 DEF ConnectorInv, Correlated, Waits
  <2>3. ASSUME NEW j \in pending'
        PROVE  \E y \in Threads : th'[y].corr = j /\ Waits(th'[y])
    <3>1. PICK y \in Threads : th[y].corr = j /\ Waits(th[y])
      BY <1>1, <2>1
    <3> QED BY <1>1, <1>10, <2>2, <3>1 DEF Alone
  <2> QED BY <2>3, SlotsNext
<1>18. ReconnectedIdIsOurs'
  BY <1>1 DEF ConnectorInv, ReconnectedIdIsOurs, IdIsOurs, Ours, Serving, conn
<1>19. OursSoon'
  <2>1. \A id : Ours(id)' <=> Ours(id)
    BY <1>1 DEF Ours
  <2>2. c.reply = None /\ (c.corr # 0 => \A r \in replies : r.corr # c.corr)
    <3>1. th[x].reply = None
      BY <1>1, <1>2 DEF LocalsOK
    <3>2. \A r \in replies : r.corr = th[x].corr => r.corr = 0
      BY <1>1 DEF ConnectorInv, Correlated, At
    <3> QED BY <1>5, <1>6, <1>7, <1>12, <3>1, <3>2 DEF Idle
  <2> QED BY <1>1, <1>10, <2>1, <2>2 DEF ConnectorInv, OursSoon, Brings, Serving, Alone
<1> QED BY <1>11, <1>15, <1>16, <1>17, <1>18, <1>19 DEF ConnectorInv

LEMMA DispatchStep ==
    ASSUME ConnectorInv, Dispatch
    PROVE  ConnectorInv'
<1>0. UNCHANGED <<broker, t, entries, mu, budget, conn>>
  BY DEF Dispatch
<1>1. PICK r \in replies :
         /\ replies' = replies \ {r} /\ pending' = pending \ {r.corr}
         /\ th' = [x \in Threads |-> IF r.corr \in pending /\ th[x].corr = r.corr
                                      THEN [th[x] EXCEPT !.reply = r] ELSE th[x]]
  BY DEF Dispatch
<1>2. UNCHANGED <<gen, ctl, reg, inbox, t, mu>> /\ UNCHANGED <<entries, budget, conn>>
  BY <1>0 DEF broker
<1>3. r \in Answers /\ IsFiniteSet(replies) /\ replies \subseteq Answers
  BY DEF ConnectorInv, TypeOK
<1>4. 0 \notin pending
  BY DEF ConnectorInv, Correlated
<1>5. \A x \in Threads :
         \/ th'[x] = th[x]
         \/ th'[x] = [th[x] EXCEPT !.reply = r] /\ th[x].corr = r.corr /\ r.corr # 0
  BY <1>1, <1>4
<1>6. \A x \in Threads : th[x].corr # r.corr => th'[x] = th[x]
  BY <1>1
<1>7. ASSUME NEW x \in Threads
      PROVE  /\ th'[x] \in ThreadType
             /\ th'[x].pc = th[x].pc /\ th'[x].op = th[x].op /\ th'[x].call = th[x].call
             /\ th'[x].name = th[x].name /\ th'[x].corr = th[x].corr /\ th'[x].seen = th[x].seen
             /\ th'[x].sent = th[x].sent /\ th'[x].boot = th[x].boot /\ th'[x].ring = th[x].ring
             /\ \/ th'[x].reply = th[x].reply
                \/ th'[x].reply = r /\ th[x].corr = r.corr /\ r.corr # 0
  <2>1. th[x] \in ThreadType
    BY Locals
  <2>2. CASE th'[x] = th[x]
    BY <2>1, <2>2
  <2>3. CASE th'[x] = [th[x] EXCEPT !.reply = r] /\ th[x].corr = r.corr /\ r.corr # 0
    <3> DEFINE c == [th[x] EXCEPT !.reply = r]
    <3>1. c \in ThreadType
      BY <1>3, <2>1 DEF ThreadType
    <3>2. /\ c.pc = th[x].pc /\ c.op = th[x].op /\ c.call = th[x].call
          /\ c.name = th[x].name /\ c.corr = th[x].corr /\ c.seen = th[x].seen /\ c.sent = th[x].sent
          /\ c.sent = th[x].sent /\ c.boot = th[x].boot /\ c.ring = th[x].ring /\ c.reply = r
      OBVIOUS
    <3>3. th'[x] = c
      BY <2>3
    <3> HIDE DEF c
    <3> QED BY <2>3, <3>1, <3>3
  <2> QED BY <1>5, <2>2, <2>3
<1>8. TypeOK'
  <2>1. Linked /\ pending \subseteq Nat /\ mu \in Threads \cup {None}
    BY TypeParts DEF ConnectorInv
  <2>2. IsFiniteSet(replies')
    BY <1>1, <1>3, FS_RemoveElement
  <2>3. Linked'
    BY <1>1, <1>2, <2>1, <2>2 DEF Linked, RegistryShape
  <2>4. Entered'
    BY <1>2, EntriesStay
  <2>5. (th \in [Threads -> ThreadType])'
    BY <1>1, <1>7
  <2> QED BY <1>1, <1>2, <2>1, <2>3, <2>4, <2>5, TypePartsNext
<1>9. Shape'
  <2>1. ASSUME NEW x \in Threads PROVE LocalsOK(x, th'[x])
    <3>1. LocalsOK(x, th[x])
      BY Locals
    <3>2. th[x].pc = "push" => \A q \in replies : q.corr = th[x].corr => q.corr = 0
      BY DEF ConnectorInv, Correlated, At
    <3>3. th'[x].reply # None => th[x].pc \in {"wait", "failed"}
      BY <1>7, <3>1, <3>2 DEF LocalsOK
    <3> QED BY <1>7, <3>1, <3>3 DEF LocalsOK, MayRetry
  <2> QED BY <2>1 DEF Shape
<1>10. Exclusive'
  BY <1>2, <1>7 DEF ConnectorInv, Exclusive, Reconnects
<1>11. Forward'
  BY <1>2, <1>7 DEF ConnectorInv, Forward, EpochsOK
<1>12. Correlated'
  BY <1>1, <1>2, <1>7 DEF ConnectorInv, Correlated, Serving, At
<1>13. NoSlotLeaks'
  <2>1. \A j \in pending : \E y \in Threads : th[y].corr = j /\ Waits(th[y])
    BY Slots DEF ConnectorInv
  <2>2. \A j \in pending' : \E y \in Threads : th'[y].corr = j /\ Waits(th'[y])
    BY <1>1, <2>1
  <2> QED BY <2>2, SlotsNext
<1>14. ReconnectedIdIsOurs'
  BY <1>2 DEF ConnectorInv, ReconnectedIdIsOurs, IdIsOurs, Ours, Serving, conn
<1>15. OursSoon'
  <2>1. \A id : Ours(id)' <=> Ours(id)
    BY <1>2 DEF Ours
  <2>2. \A x \in Threads : Registers(th'[x]) <=> Registers(th[x])
    BY <1>7 DEF Registers
  <2> QED BY <1>1, <1>2, <1>7, <2>1, <2>2 DEF ConnectorInv, OursSoon, Brings, Serving
<1> QED BY <1>8, <1>9, <1>10, <1>11, <1>12, <1>13, <1>14, <1>15 DEF ConnectorInv

(* The thread in reconnect changes the transport: nobody else is there,    *)
(* though connect may be about to register.                                *)
LEMMA TransportKeeps ==
    ASSUME ConnectorInv, NEW x \in Threads, NEW c \in ThreadType, Becomes(x, c), LocalsOK(x, c),
           mu = x, UNCHANGED <<gen, mu>>, t'.epoch <= gen, c.seen <= gen, c.sent <= gen,
           c.pc \notin {"lock", "boot", "clear", "swap", "wait"}
    PROVE  Shape' /\ Exclusive' /\ Forward' /\ th'[x] = c /\ Alone(x)
<1>1. th'[x] = c /\ Alone(x)
  BY Becoming DEF ConnectorInv
<1>2. Shape'
  BY <1>1 DEF ConnectorInv, Shape, Alone
<1>3. Exclusive'
  BY <1>1 DEF ConnectorInv, Exclusive, Alone
<1>4. \A y \in Threads \ {x} : ~ Reconnects(th[y])
  BY DEF ConnectorInv, Exclusive
<1>5. \A y \in Threads \ {x} : /\ th[y].pc \notin {"boot", "clear", "swap"}
                             /\ ~ (th[y].pc = "wait" /\ th[y].call = "register")
  BY <1>4 DEF Reconnects, Reconnecting, InCall
<1>6. Forward'
  <2>1. EpochsOK(th[x])' /\ t'.epoch <= gen'
    BY <1>1 DEF EpochsOK
  <2>2. \A y \in Threads \ {x} : EpochsOK(th[y])'
    BY <1>1, <1>5 DEF ConnectorInv, Forward, EpochsOK, Alone
  <2> QED BY <2>1, <2>2 DEF Forward
<1> QED BY <1>1, <1>2, <1>3, <1>6

LEMMA SwapStep ==
    ASSUME ConnectorInv, NEW x \in Threads, Swap(x)
    PROVE  ConnectorInv'
<1> DEFINE c == [th[x] EXCEPT !.pc = "frame", !.call = "register", !.boot = 0]
<1>1. /\ th[x].pc = "swap" /\ t' = [epoch |-> th[x].boot, client_id |-> 0] /\ replies' = {} /\ Becomes(x, c)
      /\ UNCHANGED <<gen, ctl, reg, inbox, pending, mu>> /\ UNCHANGED <<handles, reg_seq, phase, budget>>
      /\ excused' = {} /\ stray' = FALSE
  BY DEF Swap, At, NewTransport, broker
<1>2. th[x] \in ThreadType /\ LocalsOK(x, th[x]) /\ EpochsOK(th[x]) /\ mu = x
  BY <1>1, Locals DEF Reconnects, Reconnecting
<1>3. 0 \in 0..MaxEpoch
  BY ConnectorAssumption
<1>4. c \in ThreadType
  BY <1>2, <1>3 DEF ThreadType, InCall, Calls, Registrations
<1>5. /\ c.pc = "frame" /\ c.op = th[x].op /\ c.call = "register" /\ c.corr = th[x].corr
      /\ c.reply = th[x].reply /\ c.seen = th[x].seen /\ c.sent = th[x].sent
  OBVIOUS
<1> HIDE DEF c
<1>6. th[x].corr = 0 /\ th[x].reply = None
  BY <1>1, <1>2 DEF LocalsOK
<1>7. LocalsOK(x, c)
  BY <1>1, <1>2, <1>5 DEF LocalsOK, MayRetry, Reconnecting, Calls, Registrations
<1>8. t.epoch < th[x].boot /\ th[x].boot <= gen
  BY <1>1, <1>2 DEF EpochsOK
<1>9. t.epoch \in 1..MaxEpoch /\ th[x].boot \in 0..MaxEpoch /\ gen \in 1..MaxEpoch /\ MaxEpoch \in Nat
  BY Fields, ConnectorAssumption DEF ConnectorInv, TypeOK
<1>10. t'.epoch = th[x].boot /\ t'.client_id = 0
  BY <1>1
<1>11. Shape' /\ Exclusive' /\ Forward' /\ th'[x] = c /\ Alone(x)
  BY <1>1, <1>2, <1>4, <1>5, <1>6, <1>7, TransportKeeps DEF EpochsOK
<1>12. inbox = << >>
  BY <1>8, <1>9 DEF ConnectorInv, Correlated
<1>13. TypeOK'
  <2>1. Linked /\ pending \subseteq Nat /\ mu \in Threads \cup {None}
    BY TypeParts DEF ConnectorInv
  <2>2. t' \in [epoch : 1..MaxEpoch, client_id : Nat]
    BY <1>1, <1>8, <1>9
  <2>3. Linked'
    BY <1>1, <2>1, <2>2, FS_EmptySet DEF Linked, RegistryShape
  <2>4. Entered'
    BY <1>1, TypeParts DEF ConnectorInv, Entered, budget
  <2>5. (th \in [Threads -> ThreadType])'
    BY <1>1, <1>4, Becoming DEF ConnectorInv
  <2> QED BY <1>1, <2>1, <2>3, <2>4, <2>5, TypePartsNext
<1>14. Correlated'
  <2>1. inbox' = << >> /\ DOMAIN inbox' = {}
    BY <1>1, <1>12
  <2>2. \A y \in Threads : th'[y].corr = th[y].corr
    BY <1>5, <1>11 DEF Alone
  <2> QED BY <1>1, <2>1, <2>2 DEF ConnectorInv, Correlated, At
<1>15. NoSlotLeaks'
  <2>1. \A j \in pending : \E y \in Threads : th[y].corr = j /\ Waits(th[y])
    BY Slots DEF ConnectorInv
  <2>2. ~ Waits(th[x])
    BY <1>1 DEF Waits
  <2>3. \A j \in pending' : \E y \in Threads : th'[y].corr = j /\ Waits(th'[y])
    BY <1>1, <1>11, <2>1, <2>2 DEF Alone
  <2> QED BY <2>3, SlotsNext
<1>16. ReconnectedIdIsOurs'
  BY <1>10 DEF ReconnectedIdIsOurs, IdIsOurs
<1>17. OursSoon'
  BY <1>1, <1>5, <1>6, <1>11 DEF ConnectorInv, OursSoon, Brings, Ours, Serving, Alone
<1> QED BY <1>11, <1>13, <1>14, <1>15, <1>16, <1>17 DEF ConnectorInv

(* do_register adopts the client id of the answer: the current broker's,   *)
(* when the request went to the transport that is still there.             *)
LEMMA AdoptsId ==
    ASSUME ConnectorInv, NEW x \in Threads, NEW c \in ThreadType, Becomes(x, c), Fits(x, c), c.reply = None,
           th[x].pc = "wait", th[x].reply # None, Registers(th[x]),
           t' = [t EXCEPT !.client_id = th[x].reply.id], stray' \/ th[x].sent = t.epoch,
           UNCHANGED <<broker, replies, pending, mu>>, Entered',
           EpochsOK(c), Reconnects(c) => mu = x
    PROVE  ConnectorInv' /\ t'.epoch = t.epoch /\ t'.client_id # 0
<1>1. UNCHANGED <<gen, ctl, reg, inbox>>
  BY DEF broker
<1>2. th[x].reply \in Answers /\ Brings(x, th[x].reply)
  BY Locals, Fields DEF ConnectorInv, OursSoon
<1>3. /\ t \in [epoch : 1..MaxEpoch, client_id : Nat]
      /\ t'.epoch = t.epoch /\ t'.client_id = th[x].reply.id
      /\ t' \in [epoch : 1..MaxEpoch, client_id : Nat]
  BY <1>2 DEF ConnectorInv, TypeOK, Answers
<1>4. (th \in [Threads -> ThreadType])' /\ th'[x] = c /\ Alone(x)
  BY Becoming DEF ConnectorInv
<1>5. Shape' /\ Exclusive' /\ Forward'
  BY <1>1, <1>3, ThreadKeeps DEF Fits
<1>6. TypeOK'
  <2>1. Linked /\ pending \subseteq Nat /\ mu \in Threads \cup {None}
    BY TypeParts DEF ConnectorInv
  <2>2. Linked'
    BY <1>1, <1>3, <2>1 DEF Linked, RegistryShape
  <2> QED BY <1>4, <2>1, <2>2, TypePartsNext
<1>7. Correlated'
  BY <1>1, <1>3, <1>4 DEF ConnectorInv, Correlated, Serving, Alone, Fits, At
<1>8. NoSlotLeaks'
  <2>1. \A j \in pending : \E y \in Threads : th[y].corr = j /\ Waits(th[y])
    BY Slots DEF ConnectorInv
  <2>2. ~ Waits(th[x])
    BY DEF Waits
  <2>3. \A j \in pending' : \E y \in Threads : th'[y].corr = j /\ Waits(th'[y])
    BY <1>4, <2>1, <2>2 DEF Alone
  <2> QED BY <2>3, SlotsNext
<1>9. ReconnectedIdIsOurs'
  BY <1>1, <1>2, <1>3 DEF ReconnectedIdIsOurs, IdIsOurs, Brings, Ours, Serving
<1>10. OursSoon'
  <2>1. \A id : Ours(id)' <=> Ours(id)
    BY <1>1 DEF Ours
  <2> QED BY <1>1, <1>4, <2>1 DEF ConnectorInv, OursSoon, Brings, Serving, Alone, Fits
<1> QED BY <1>2, <1>3, <1>5, <1>6, <1>7, <1>8, <1>9, <1>10 DEF ConnectorInv, Brings

LEMMA RegisterReturnsStep ==
    ASSUME ConnectorInv, NEW x \in Threads, RegisterReturns(x)
    PROVE  ConnectorInv' /\ t'.epoch = t.epoch /\ t'.client_id # 0
<1> DEFINE c == [th[x] EXCEPT !.pc = "snapshot", !.corr = 0, !.reply = None]
<1>1. /\ th[x].pc = "wait" /\ th[x].reply # None /\ th[x].call = "register"
      /\ t' = [t EXCEPT !.client_id = th[x].reply.id] /\ Becomes(x, c)
      /\ UNCHANGED <<broker, replies, pending, mu>> /\ stray' = FALSE
      /\ UNCHANGED <<entries, phase, budget>>
  BY DEF RegisterReturns, Answered, At
<1>2. th[x] \in ThreadType /\ LocalsOK(x, th[x]) /\ EpochsOK(th[x]) /\ mu = x
  BY <1>1, Locals DEF Reconnects, InCall
<1>3. c \in ThreadType
  BY <1>2 DEF ThreadType, Reconnecting
<1>4. /\ c.pc = "snapshot" /\ c.op = th[x].op /\ c.corr = 0 /\ c.reply = None
      /\ c.seen = th[x].seen /\ c.sent = th[x].sent
  OBVIOUS
<1> HIDE DEF c
<1>5. Fits(x, c)
  BY <1>1, <1>2, <1>4 DEF Fits, LocalsOK, MayRetry, InCall
<1>6. EpochsOK(c) /\ Registers(th[x]) /\ th[x].sent = t.epoch
  BY <1>1, <1>2, <1>4 DEF EpochsOK, Registers, Registrations, InCall
<1>7. Entered'
  BY <1>1, TypeParts DEF ConnectorInv, Entered, entries, budget
<1> QED BY <1>1, <1>2, <1>3, <1>4, <1>5, <1>6, <1>7, AdoptsId

LEMMA ConnectReturnsStep ==
    ASSUME ConnectorInv, NEW u \in Users, ConnectReturns(u)
    PROVE  ConnectorInv' /\ t'.epoch = t.epoch /\ t'.client_id # 0
<1>1. /\ th[u].pc = "wait" /\ th[u].reply # None /\ th[u].call = "connect"
      /\ t' = [t EXCEPT !.client_id = th[u].reply.id] /\ Becomes(u, Idle)
      /\ UNCHANGED <<broker, replies, pending, mu>> /\ stray' = (th[u].sent # t.epoch)
      /\ UNCHANGED <<entries, budget>> /\ phase' = "up"
  BY DEF ConnectReturns, Answered, At
<1>2. u \in Threads
  BY DEF Threads
<1>3. /\ Idle \in ThreadType /\ Fits(u, Idle) /\ EpochsOK(Idle) /\ ~ Reconnects(Idle)
      /\ Idle.reply = None
  BY <1>2, IdleFits DEF Idle
<1>4. Registers(th[u])
  BY <1>1 DEF Registers, Registrations, InCall
<1>5. Entered'
  BY <1>1, TypeParts DEF ConnectorInv, Entered, entries, budget
<1>6. stray' \/ th[u].sent = t.epoch
  BY <1>1
<1> QED BY <1>1, <1>2, <1>3, <1>4, <1>5, <1>6, AdoptsId

LEMMA ConnectEndsStep ==
    ASSUME ConnectorInv, NEW u \in Users, ConnectFails(u) \/ Joined(u)
    PROVE  ConnectorInv'
<1>1. u \in Threads
  BY DEF Threads
<1>2. CASE Joined(u)
  <2>1. Entered' /\ UNCHANGED stray
    BY <1>2, EntriesStay DEF Joined
  <2> QED BY <1>1, <1>2, <2>1, Finishes DEF Joined, At, Waits
<1>3. CASE ConnectFails(u)
  <2> DEFINE c == [Idle EXCEPT !.pc = "join"]
  <2>1. /\ th[u].pc = "failed" /\ phase' = "down" /\ Becomes(u, c)
        /\ UNCHANGED <<broker, t, replies, pending, mu, stray>> /\ UNCHANGED <<entries, budget>>
    BY <1>3 DEF ConnectFails, At
  <2>2. Idle \in ThreadType /\ EpochsOK(Idle)
    BY <1>1, IdleFits
  <2>3. c \in ThreadType
    BY <2>2 DEF ThreadType
  <2>4. c.pc = "join" /\ c.corr = 0 /\ c.reply = None /\ c.seen = Idle.seen /\ c.sent = Idle.sent
    BY DEF Idle
  <2> HIDE DEF c
  <2>5. Fits(u, c) /\ EpochsOK(c) /\ ~ Reconnects(c)
    BY <2>2, <2>4 DEF Fits, LocalsOK, MayRetry, InCall, Reconnecting, EpochsOK, Reconnects
  <2>6. Entered'
    BY <2>1, TypeParts DEF ConnectorInv, Entered, entries, budget
  <2> QED BY <1>1, <2>1, <2>3, <2>5, <2>6, LocalStep DEF Waits
<1> QED BY <1>2, <1>3

(* add_client gives an id nobody has. *)
LEMMA AddClientKeeps ==
    ASSUME RegistryShape, NEW pid, reg' = add_client(reg, pid)
    PROVE  /\ RegistryShape' /\ NextClientId(reg) \in Nat \ {0}
           /\ \A id : Ours(id) => Ours(id)'
           /\ \A id : pid = Me /\ id = NextClientId(reg) => Ours(id)'
<1>1. /\ DOMAIN reg = DOMAIN NewRegistry /\ reg.next_client \in Nat \ {0} /\ reg.next_channel \in Nat
      /\ reg.next_fn \in Nat /\ DOMAIN reg.clients \subseteq 1..(reg.next_client - 1)
  BY DEF RegistryShape
<1>2. /\ "clients" \in DOMAIN reg /\ "next_client" \in DOMAIN reg
      /\ "next_channel" \in DOMAIN reg /\ "next_fn" \in DOMAIN reg
  BY <1>1 DEF NewRegistry
<1>3. /\ DOMAIN reg' = DOMAIN reg /\ reg'.clients = Put(reg.clients, reg.next_client, pid)
      /\ reg'.next_client = reg.next_client + 1 /\ reg'.next_channel = reg.next_channel
      /\ reg'.next_fn = reg.next_fn
  BY DEF add_client, NextClientId
<1>4. /\ DOMAIN reg'.clients = DOMAIN reg.clients \cup {reg.next_client}
      /\ reg'.clients[reg.next_client] = pid
      /\ \A id \in DOMAIN reg.clients : id # reg.next_client /\ reg'.clients[id] = reg.clients[id]
  BY <1>1, <1>3 DEF Put
<1>5. DOMAIN reg'.clients \subseteq 1..(reg'.next_client - 1)
  BY <1>1, <1>3, <1>4
<1>6. RegistryShape'
  BY <1>3, <1>5 DEF RegistryShape
<1> QED BY <1>1, <1>4, <1>6 DEF Ours, NextClientId

(* A grant or a release does not touch the client table. *)
LEMMA GrantKeeps ==
    ASSUME RegistryShape, NEW n, NEW o, reg' = Grant(reg, n, o)
    PROVE  RegistryShape' /\ reg'.clients = reg.clients /\ NextId(reg, n) \in Nat
<1>1. /\ DOMAIN reg = DOMAIN NewRegistry /\ reg.next_client \in Nat \ {0} /\ reg.next_channel \in Nat
      /\ reg.next_fn \in Nat /\ DOMAIN reg.clients \subseteq 1..(reg.next_client - 1)
  BY DEF RegistryShape
<1>2. /\ "clients" \in DOMAIN reg /\ "next_client" \in DOMAIN reg
      /\ "next_channel" \in DOMAIN reg /\ "next_fn" \in DOMAIN reg
  BY <1>1 DEF NewRegistry
<1> DEFINE meta == [id |-> NextId(reg, n), name |-> n, owner |-> o]
<1> DEFINE freed == IF n \in DOMAIN reg.chan_by_name THEN drop_channels(reg, {reg.chan_by_name[n]}) ELSE reg
<1>3. reg' = IF n \in Functions THEN insert_function(alloc_fn_id(reg), meta)
             ELSE insert_channel(alloc_channel_id(freed), meta)
  BY DEF Grant
<1>4. NextId(reg, n) \in Nat
  BY <1>1 DEF NextId
<1> HIDE DEF meta
<1>5. /\ DOMAIN freed = DOMAIN reg /\ freed.clients = reg.clients /\ freed.next_client = reg.next_client
      /\ freed.next_channel = reg.next_channel /\ freed.next_fn = reg.next_fn
  BY DEF drop_channels
<1> HIDE DEF freed
<1>6. CASE n \in Functions
  <2> DEFINE r == alloc_fn_id(reg)
  <2>1. /\ DOMAIN r = DOMAIN reg /\ r.clients = reg.clients /\ r.next_client = reg.next_client
        /\ r.next_channel = reg.next_channel /\ r.next_fn = reg.next_fn + 1
    BY DEF alloc_fn_id
  <2>2. reg' = insert_function(r, meta)
    BY <1>3, <1>6
  <2> HIDE DEF r
  <2>3. /\ DOMAIN reg' = DOMAIN reg /\ reg'.clients = reg.clients /\ reg'.next_client = reg.next_client
        /\ reg'.next_channel = reg.next_channel /\ reg'.next_fn = reg.next_fn + 1
    BY <2>1, <2>2 DEF insert_function
  <2> QED BY <1>4, <2>3 DEF RegistryShape
<1>7. CASE n \notin Functions
  <2> DEFINE r == alloc_channel_id(freed)
  <2>1. /\ DOMAIN r = DOMAIN reg /\ r.clients = reg.clients /\ r.next_client = reg.next_client
        /\ r.next_channel = reg.next_channel + 1 /\ r.next_fn = reg.next_fn
    BY <1>5 DEF alloc_channel_id
  <2>2. reg' = insert_channel(r, meta)
    BY <1>3, <1>7
  <2> HIDE DEF r
  <2>3. /\ DOMAIN reg' = DOMAIN reg /\ reg'.clients = reg.clients /\ reg'.next_client = reg.next_client
        /\ reg'.next_channel = reg.next_channel + 1 /\ reg'.next_fn = reg.next_fn
    BY <2>1, <2>2 DEF insert_channel
  <2> QED BY <1>4, <2>3 DEF RegistryShape
<1> QED BY <1>6, <1>7

LEMMA DeferKeeps ==
    ASSUME RegistryShape, NEW id, reg' = defer_release(reg, id)
    PROVE  RegistryShape' /\ reg'.clients = reg.clients
<1>1. /\ "clients" \in DOMAIN reg /\ "next_client" \in DOMAIN reg
      /\ "next_channel" \in DOMAIN reg /\ "next_fn" \in DOMAIN reg
  BY DEF RegistryShape, NewRegistry
<1>2. /\ DOMAIN reg' = DOMAIN reg /\ reg'.clients = reg.clients /\ reg'.next_client = reg.next_client
      /\ reg'.next_channel = reg.next_channel /\ reg'.next_fn = reg.next_fn
  BY DEF defer_release
<1> QED BY <1>2 DEF RegistryShape

(* What a broker that goes on serving does: it takes requests out, it      *)
(* answers, and it lets nobody's client id go to somebody else.            *)
LEMMA BrokerStep ==
    ASSUME ConnectorInv, UNCHANGED <<gen, ctl, t, pending, entries, mu, th, budget, conn>>,
           RegistryShape', \A id : Ours(id) => Ours(id)',
           inbox' \in Seq(Requests), inbox' # << >> => inbox # << >>,
           \A i \in DOMAIN inbox' : \E j \in DOMAIN inbox : inbox'[i] = inbox[j],
           replies' \subseteq Answers, IsFiniteSet(replies'),
           \A r \in replies' \ replies : \E i \in DOMAIN inbox : inbox[i].corr = r.corr,
           \A r \in replies' \ replies, x \in Threads :
              Registers(th[x]) /\ r.corr = th[x].corr /\ r.corr # 0 => r.id # 0 /\ Ours(r.id)'
    PROVE  ConnectorInv'
<1>1. TypeOK'
  <2>1. Linked /\ pending \subseteq Nat /\ mu \in Threads \cup {None} /\ th \in [Threads -> ThreadType]
    BY TypeParts DEF ConnectorInv
  <2>2. Linked'
    BY <2>1 DEF Linked
  <2>3. Entered'
    BY EntriesStay
  <2> QED BY <2>1, <2>2, <2>3, TypePartsNext
<1>2. Shape' /\ Exclusive'
  BY DEF ConnectorInv, Shape, Exclusive
<1>3. Forward'
  BY DEF ConnectorInv, Forward, EpochsOK
<1>4. Correlated'
  <2>1. ASSUME NEW x \in Threads, At(x, "push"), NEW r \in replies', r.corr = th[x].corr
        PROVE  r.corr = 0
    <3>1. CASE r \in replies
      BY <2>1, <3>1 DEF ConnectorInv, Correlated
    <3>2. CASE r \notin replies
      BY <2>1, <3>2 DEF ConnectorInv, Correlated, At
    <3> QED BY <3>1, <3>2
  <2> QED BY <2>1 DEF ConnectorInv, Correlated, Serving, At
<1>5. NoSlotLeaks'
  BY DEF ConnectorInv, NoSlotLeaks
<1>6. ReconnectedIdIsOurs'
  BY DEF ConnectorInv, ReconnectedIdIsOurs, IdIsOurs, Serving, conn
<1>7. OursSoon'
  <2>1. \A x, r : Brings(x, r) => Brings(x, r)'
    BY DEF Brings, Serving
  <2>2. \A x \in Threads, r \in replies' \ replies :
           Registers(th[x]) /\ r.corr = th[x].corr /\ r.corr # 0 => Brings(x, r)'
    BY DEF Brings
  <2> QED BY <2>1, <2>2 DEF ConnectorInv, OursSoon
<1> QED BY <1>1, <1>2, <1>3, <1>4, <1>5, <1>6, <1>7 DEF ConnectorInv

LEMMA ServeStep ==
    ASSUME ConnectorInv, Serve
    PROVE  ConnectorInv'
<1> DEFINE m == Head(inbox)
<1>1. inbox # << >> /\ inbox' = Tail(inbox) /\ UNCHANGED <<gen, ctl, t, pending, entries, mu, th, budget, conn>>
  BY DEF Serve
<1>2. inbox \in Seq(Requests) /\ RegistryShape /\ replies \subseteq Answers /\ IsFiniteSet(replies)
  BY DEF ConnectorInv, TypeOK
<1>3. /\ m \in Requests /\ inbox' \in Seq(Requests) /\ 1 \in DOMAIN inbox /\ m = inbox[1]
      /\ \A i \in DOMAIN inbox' : i + 1 \in DOMAIN inbox /\ inbox'[i] = inbox[i + 1]
  BY <1>1, <1>2
<1>4. \A i \in DOMAIN inbox' : \E j \in DOMAIN inbox : inbox'[i] = inbox[j]
  BY <1>3
<1>5. m.corr \in Nat
  BY <1>3 DEF Requests
<1>6. \A x \in Threads : Registers(th[x]) /\ m.corr = th[x].corr /\ m.corr # 0 => m.call \in Registrations
  BY <1>3 DEF ConnectorInv, Correlated, Registers
<1>7. ASSUME NEW st \in {"OK", "ERR_EXISTS"}, NEW id \in Nat
      PROVE  /\ Answer(m, st, id) \in Answers /\ Answer(m, st, id).corr = m.corr
             /\ Answer(m, st, id).id = id
             /\ IsFiniteSet(replies \cup {Answer(m, st, id)})
  BY <1>2, <1>5, FS_AddElement DEF Answer, Answers
<1> HIDE DEF m
<1>8. CASE /\ m.call \in Registrations /\ reg' = add_client(reg, Me)
           /\ replies' = replies \cup {Answer(m, "OK", NextClientId(reg))}
  <2>1. /\ RegistryShape' /\ NextClientId(reg) \in Nat \ {0} /\ (\A id : Ours(id) => Ours(id)')
        /\ \A id : id = NextClientId(reg) => Ours(id)'
    BY <1>2, <1>8, AddClientKeeps
  <2> DEFINE a == Answer(m, "OK", NextClientId(reg))
  <2>2. /\ a \in Answers /\ a.corr = m.corr /\ a.id = NextClientId(reg)
        /\ IsFiniteSet(replies \cup {a})
    BY <1>7, <2>1
  <2>3. \A r \in replies' \ replies : r = a
    BY <1>8
  <2>4. replies' \subseteq Answers /\ IsFiniteSet(replies')
    BY <1>2, <1>8, <2>2
  <2> HIDE DEF a
  <2>5. \A r \in replies' \ replies : r.id # 0 /\ Ours(r.id)' /\ r.corr = inbox[1].corr
    BY <1>3, <2>1, <2>2, <2>3
  <2> QED BY <1>1, <1>3, <2>1, <2>4, <2>5, BrokerStep
<1>9. ASSUME NEW st \in {"OK", "ERR_EXISTS"}, NEW id \in Nat, m.call \notin Registrations, Reply(m, st, id),
             RegistryShape', reg'.clients = reg.clients
      PROVE  ConnectorInv'
  <2> DEFINE a == Answer(m, st, id)
  <2>1. a \in Answers /\ a.corr = m.corr /\ IsFiniteSet(replies \cup {a})
    BY <1>7
  <2>2. replies' \in {replies, replies \cup {a}}
    BY <1>9 DEF Reply
  <2> HIDE DEF a
  <2>3. replies' \subseteq Answers /\ IsFiniteSet(replies')
    BY <1>2, <2>1, <2>2
  <2>4. \A r \in replies' \ replies : r.corr = m.corr /\ r.corr = inbox[1].corr
    BY <1>3, <2>1, <2>2
  <2>5. \A i : Ours(i) => Ours(i)'
    BY <1>9 DEF Ours
  <2> QED BY <1>1, <1>3, <1>6, <1>9, <2>3, <2>4, <2>5, BrokerStep
<1>10. CASE m.call = "list" /\ Reply(m, "OK", 0) /\ UNCHANGED reg
  BY <1>2, <1>9, <1>10 DEF RegistryShape, Registrations
<1>11. CASE m.call \in {"publish", "replay"} /\ Reply(m, "ERR_EXISTS", 0) /\ UNCHANGED reg
  BY <1>2, <1>9, <1>11 DEF RegistryShape, Registrations
<1>12. CASE /\ m.call \in {"publish", "replay"} /\ reg' = Grant(reg, m.name, m.cid)
            /\ Reply(m, "OK", NextId(reg, m.name))
  <2>1. RegistryShape' /\ reg'.clients = reg.clients /\ NextId(reg, m.name) \in Nat
    BY <1>2, <1>12, GrantKeeps
  <2> QED BY <1>9, <1>12, <2>1 DEF Registrations
<1>13. CASE /\ reg' = IF MayRelease(reg, m.name, m.cid)
                      THEN defer_release(reg, reg.chan_by_name[m.name]) ELSE reg
            /\ UNCHANGED replies
  <2>1. RegistryShape' /\ reg'.clients = reg.clients
    <3>1. CASE reg' = reg
      BY <1>2, <3>1 DEF RegistryShape
    <3>2. CASE reg' = defer_release(reg, reg.chan_by_name[m.name])
      BY <1>2, <3>2, DeferKeeps
    <3> QED BY <1>13, <3>1, <3>2
  <2>2. \A i : Ours(i) => Ours(i)'
    BY <2>1 DEF Ours
  <2> QED BY <1>1, <1>2, <1>13, <2>1, <2>2, BrokerStep
<1>14. CASE UNCHANGED <<reg, replies>>
  <2>1. RegistryShape' /\ \A i : Ours(i) => Ours(i)'
    BY <1>2, <1>14 DEF RegistryShape, Ours
  <2> QED BY <1>1, <1>2, <1>3, <1>14, <2>1, BrokerStep
<1> QED BY <1>8, <1>10, <1>11, <1>12, <1>13, <1>14 DEF Serve, m

LEMMA OthersStep ==
    ASSUME ConnectorInv, OtherRegisters \/ OtherPublishes
    PROVE  ConnectorInv'
<1>1. UNCHANGED <<gen, ctl, inbox, t, replies, pending, entries, mu, th, budget, conn>>
  BY DEF OtherRegisters, OtherPublishes
<1>2. inbox \in Seq(Requests) /\ RegistryShape /\ replies \subseteq Answers /\ IsFiniteSet(replies)
  BY DEF ConnectorInv, TypeOK
<1>3. RegistryShape' /\ \A id : Ours(id) => Ours(id)'
  <2>1. CASE OtherRegisters
    BY <1>2, <2>1, AddClientKeeps DEF OtherRegisters
  <2>2. CASE OtherPublishes
    <3>1. PICK n, c : reg' = Grant(reg, n, c)
      BY <2>2 DEF OtherPublishes
    <3>2. RegistryShape' /\ reg'.clients = reg.clients
      BY <1>2, <3>1, GrantKeeps
    <3> QED BY <3>2 DEF Ours
  <2> QED BY <2>1, <2>2
<1> QED BY <1>1, <1>2, <1>3, BrokerStep

(* The broker is down, or up again with an epoch the transport has not. *)
LEMMA BrokerAway ==
    ASSUME ConnectorInv, UNCHANGED <<t, replies, pending, entries, mu, th, budget, conn>>,
           gen' \in 1..MaxEpoch, gen' >= gen, ctl' \in {"serving", "stale", "gone"}, RegistryShape',
           inbox' = << >>, ~ Serving' \/ gen' > gen
    PROVE  ConnectorInv'
<1>1. TypeOK'
  <2>1. Linked /\ pending \subseteq Nat /\ mu \in Threads \cup {None} /\ th \in [Threads -> ThreadType]
    BY TypeParts DEF ConnectorInv
  <2>2. inbox' \in Seq(Requests)
    OBVIOUS
  <2>3. Linked'
    BY <2>1 DEF Linked
  <2>4. Entered'
    BY EntriesStay
  <2> QED BY <2>1, <2>3, <2>4, TypePartsNext
<1>2. Shape' /\ Exclusive'
  BY DEF ConnectorInv, Shape, Exclusive
<1>3. Forward'
  <2>1. gen \in Nat /\ gen' \in Nat /\ t.epoch \in Nat
    BY DEF ConnectorInv, TypeOK
  <2>2. \A x \in Threads : th[x].seen \in Nat /\ th[x].boot \in Nat /\ th[x].sent \in Nat
    BY Locals, Fields
  <2> QED BY <2>1, <2>2 DEF ConnectorInv, Forward, EpochsOK
<1>4. Correlated'
  BY DEF ConnectorInv, Correlated, At
<1>5. NoSlotLeaks'
  BY DEF ConnectorInv, NoSlotLeaks
<1>6. gen \in Nat /\ gen' \in Nat /\ t.epoch \in Nat /\ t.epoch <= gen
  BY DEF ConnectorInv, TypeOK, Forward
<1>7. ReconnectedIdIsOurs'
  BY <1>6 DEF ReconnectedIdIsOurs, IdIsOurs
<1>8. OursSoon'
  <2>1. \A x \in Threads : ~ (Serving' /\ th[x].sent = gen')
    BY <1>6, Locals DEF EpochsOK
  <2>2. \A x \in Threads : \A r : Brings(x, r) => Brings(x, r)'
    BY <2>1 DEF Brings
  <2> QED BY <2>2 DEF ConnectorInv, OursSoon
<1> QED BY <1>1, <1>2, <1>3, <1>4, <1>5, <1>7, <1>8 DEF ConnectorInv

LEMMA NewRegistryShape ==
    ASSUME reg' = NewRegistry
    PROVE  RegistryShape'
  BY DEF RegistryShape, NewRegistry, EmptyMap

LEMMA RunsStep ==
    ASSUME ConnectorInv, Down \/ CleanUp \/ Restart
    PROVE  ConnectorInv'
<1>1. gen \in 1..MaxEpoch /\ RegistryShape /\ t.epoch <= gen /\ t.epoch \in 1..MaxEpoch /\ MaxEpoch \in Nat
  BY ConnectorAssumption DEF ConnectorInv, TypeOK, Forward
<1>2. RegistryShape'
  <2>1. CASE UNCHANGED reg
    BY <1>1, <2>1 DEF RegistryShape
  <2>2. CASE reg' = NewRegistry
    BY <2>2, NewRegistryShape
  <2> QED BY <2>1, <2>2 DEF Down, CleanUp, Restart
<1>3. inbox' = << >>
  BY DEF Down, CleanUp, Restart, ConnectorInv, Correlated, Serving
<1>4. UNCHANGED <<t, replies, pending, entries, mu, th, budget, conn>>
  BY DEF Down, CleanUp, Restart
<1>5. CASE Down \/ CleanUp
  <2>1. gen' = gen /\ ctl' \in {"stale", "gone"}
    BY <1>5 DEF Down, CleanUp
  <2>2. gen' >= gen /\ ~ Serving'
    BY <1>1, <2>1 DEF Serving
  <2> QED BY <1>1, <1>2, <1>3, <1>4, <2>1, <2>2, BrokerAway
<1>6. CASE Restart
  <2>1. gen' = gen + 1 /\ gen < MaxEpoch /\ ctl' = "serving"
    BY <1>6 DEF Restart
  <2>2. gen' \in 1..MaxEpoch /\ gen' >= gen /\ gen' > gen
    BY <1>1, <2>1
  <2> QED BY <1>2, <1>3, <1>4, <2>1, <2>2, BrokerAway
<1> QED BY <1>5, <1>6

(* What both initial states give. *)
LEMMA AttachedOK ==
    ASSUME Attached, Entered, RegistryShape, t.epoch = 1, t.client_id \in Nat,
           t = [epoch |-> t.epoch, client_id |-> t.client_id],
           t.client_id # 0 => Ours(t.client_id), NEW c \in ThreadType, NEW u,
           c.pc = "idle" \/ (c.pc = "frame" /\ c.call = "connect"),
           c.corr = 0, c.reply = None, c.seen = 0, c.sent = 0,
           th = [x \in Threads |-> IF x = u THEN c ELSE Idle]
    PROVE  ConnectorInv
<1>1. Idle \in ThreadType
  BY ConnectorAssumption DEF Idle, ThreadType
<1>2. Idle.pc = "idle" /\ Idle.corr = 0 /\ Idle.reply = None /\ Idle.seen = 0 /\ Idle.sent = 0
  BY DEF Idle
<1>3. \A x \in Threads : /\ th[x] \in ThreadType
                         /\ th[x].pc = "idle" \/ (th[x].pc = "frame" /\ th[x].call = "connect")
                         /\ th[x].corr = 0 /\ th[x].reply = None /\ th[x].seen = 0 /\ th[x].sent = 0
  BY <1>1, <1>2
<1>4. /\ gen = 1 /\ ctl = "serving" /\ inbox = << >> /\ replies = {} /\ pending = {} /\ mu = None
      /\ DOMAIN inbox = {}
  BY DEF Attached
<1>5. TypeOK
  <2>1. 1 \in 1..MaxEpoch
    BY ConnectorAssumption
  <2>2. t \in [epoch : 1..MaxEpoch, client_id : Nat]
    BY <2>1
  <2>3. Linked
    BY <1>4, <2>1, <2>2, FS_EmptySet DEF Linked
  <2>4. th \in [Threads -> ThreadType]
    BY <1>1
  <2> QED BY <1>4, <2>3, <2>4, TypeParts
<1>6. Shape /\ Exclusive
  BY <1>3 DEF Shape, Exclusive, LocalsOK, MayRetry, Reconnects, InCall, Reconnecting, Calls, Registrations
<1>7. Forward
  BY <1>3, <1>4 DEF Forward, EpochsOK
<1>8. Correlated
  BY <1>3, <1>4 DEF Correlated, At
<1>9. NoSlotLeaks /\ ReconnectedIdIsOurs
  BY <1>4 DEF NoSlotLeaks, ReconnectedIdIsOurs, IdIsOurs
<1>10. OursSoon
  BY <1>3, <1>4 DEF OursSoon
<1> QED BY <1>5, <1>6, <1>7, <1>8, <1>9, <1>10 DEF ConnectorInv

LEMMA ConnectingOK == Connecting => ConnectorInv
<1> SUFFICES ASSUME Connecting PROVE ConnectorInv
  OBVIOUS
<1> DEFINE c == [Idle EXCEPT !.pc = "frame", !.call = "connect"]
<1>1. PICK u \in Users : th = [x \in Threads |-> IF x = u THEN c ELSE Idle]
  BY DEF Connecting
<1>2. Idle \in ThreadType
  BY ConnectorAssumption DEF Idle, ThreadType
<1>3. c \in ThreadType
  BY <1>2 DEF ThreadType, InCall, Calls, Registrations
<1>4. /\ c.pc = "frame" /\ c.call = "connect" /\ c.corr = 0 /\ c.reply = None /\ c.seen = 0 /\ c.sent = 0
  BY DEF Idle
<1> HIDE DEF c
<1>5. /\ Attached /\ reg = NewRegistry /\ t = [epoch |-> 1, client_id |-> 0]
      /\ handles = << >> /\ reg_seq = 1 /\ phase = "connecting" /\ MaxOps >= 1 /\ ops = 1
  BY DEF Connecting
<1>6. RegistryShape
  BY <1>5 DEF RegistryShape, NewRegistry, EmptyMap
<1>7. Entered
  <2>1. DOMAIN handles = {} /\ MaxOps \in Nat /\ MaxFaults \in Nat
    BY <1>5, ConnectorAssumption
  <2>2. phase \in {"connecting", "up", "down"} /\ stray \in BOOLEAN
    BY <1>5 DEF Attached
  <2> QED BY <1>5, <2>1, <2>2 DEF Entered, Attached
<1> QED BY <1>1, <1>3, <1>4, <1>5, <1>6, <1>7, AttachedOK

LEMMA ConnectedOK == Connected => ConnectorInv
<1> SUFFICES ASSUME Connected PROVE ConnectorInv
  OBVIOUS
<1>1. /\ Attached /\ t = [epoch |-> 1, client_id |-> 1] /\ reg = FirstRegistry /\ phase = "up"
      /\ th = [x \in Threads |-> IF x = None THEN Idle ELSE Idle]
  BY DEF Connected
<1>2. /\ Idle \in ThreadType
      /\ Idle.pc = "idle" /\ Idle.corr = 0 /\ Idle.reply = None /\ Idle.seen = 0 /\ Idle.sent = 0
  BY ConnectorAssumption DEF Idle, ThreadType
<1>3. RegistryShape /\ Ours(1)
  <2> DEFINE r == add_client(NewRegistry, Me)
  <2>1. /\ DOMAIN r = DOMAIN NewRegistry /\ r.clients = Put(EmptyMap, 1, Me)
        /\ r.next_client = 2 /\ r.next_fn = 1
    BY DEF add_client, NextClientId, NewRegistry
  <2>2. /\ "next_channel" \in DOMAIN r /\ "clients" \in DOMAIN r
        /\ "next_client" \in DOMAIN r /\ "next_fn" \in DOMAIN r
    BY <2>1 DEF NewRegistry
  <2> HIDE DEF r
  <2>3. Len(Owned) + 1 \in Nat
    OBVIOUS
  <2>4. /\ DOMAIN reg = DOMAIN r /\ reg.clients = r.clients /\ reg.next_client = r.next_client
        /\ reg.next_fn = r.next_fn /\ reg.next_channel = Len(Owned) + 1
    BY <1>1 DEF FirstRegistry, r
  <2>5. DOMAIN reg.clients = {1} /\ reg.clients[1] = Me
    BY <2>1, <2>4 DEF Put, EmptyMap
  <2> QED BY <2>1, <2>4, <2>5 DEF RegistryShape, Ours
<1>4. Entered
  <2>1. Owned \in Seq(Names \ Functions) /\ 1 \in 1..MaxEpoch /\ MaxOps \in Nat /\ MaxFaults \in Nat
    BY ConnectorAssumption
  <2>2. /\ handles = [i \in DOMAIN Owned |-> [name |-> Owned[i], ring |-> [epoch |-> 1, id |-> i]]]
        /\ reg_seq = Len(Owned) + 1 /\ excused = {} /\ stray = FALSE /\ ops = 0 /\ faults = 0
    BY DEF Connected, Attached
  <2>3. DOMAIN Owned = 1..Len(Owned) /\ Len(Owned) \in Nat /\ \A i \in DOMAIN Owned : Owned[i] \in Names
    BY <2>1
  <2>4. \A i \in DOMAIN handles : handles[i] \in [name : Names, ring : Rings]
    BY <2>1, <2>2 DEF Rings
  <2>5. phase \in {"connecting", "up", "down"} /\ stray \in BOOLEAN
    BY <1>1, <2>2
  <2>6. reg_seq \in Nat \ {0} /\ DOMAIN handles \subseteq 1..(reg_seq - 1)
    BY <2>2, <2>3
  <2> QED BY <2>1, <2>2, <2>4, <2>5, <2>6 DEF Entered
<1> QED BY <1>1, <1>2, <1>3, <1>4, AttachedOK

LEMMA InitOK == Init => ConnectorInv
  BY ConnectingOK, ConnectedOK DEF Init

LEMMA ThreadSteps ==
    ASSUME ConnectorInv, NEW x \in Threads, Step(x)
    PROVE  ConnectorInv'
  BY FrameStep, InsertSlotStep, PushStep, PushFullStep, TimesOutStep, LiveStep, LockStep,
     BootstrapStep, ClearPendingStep, SwapStep, RegisterReturnsStep, RegisterFailsStep,
     SnapshotStep, ReplayNextStep, ReplayReturnsStep, ReplayFailsStep DEF Step

LEMMA NextOK == ConnectorInv /\ [Next]_vars => ConnectorInv'
<1> SUFFICES ASSUME ConnectorInv, [Next]_vars PROVE ConnectorInv'
  OBVIOUS
<1>1. CASE Serve \/ OtherRegisters \/ OtherPublishes \/ Down \/ CleanUp \/ Restart
  BY <1>1, ServeStep, OthersStep, RunsStep
<1>2. CASE Dispatch \/ Tick \/ Step(Watcher)
  BY <1>2, DispatchStep, TickStep, ThreadSteps DEF Threads
<1>3. ASSUME NEW u \in Users, List(u) \/ Publish(u) \/ Expose(u) \/ DropPublisher(u) \/ Returns(u) \/ Step(u)
      PROVE  ConnectorInv'
  <2>1. u \in Threads
    BY DEF Threads
  <2> QED BY <1>3, <2>1, StartsStep, DropPublisherStep, ListReturnsStep, PublishReturnsStep,
             RegisterEntryStep, OpFailsStep, ConnectReturnsStep, ConnectEndsStep, ThreadSteps DEF Returns
<1>4. CASE UNCHANGED vars
  <2>1. UNCHANGED <<gen, ctl, t, pending, entries, mu, th, budget, conn>> /\ UNCHANGED <<reg, inbox, replies>>
    BY <1>4 DEF vars, entries, budget, conn
  <2>2. inbox \in Seq(Requests) /\ RegistryShape /\ replies \subseteq Answers /\ IsFiniteSet(replies)
    BY DEF ConnectorInv, TypeOK
  <2>3. RegistryShape' /\ \A id : Ours(id) => Ours(id)'
    BY <2>1, <2>2 DEF RegistryShape, Ours
  <2> QED BY <2>1, <2>2, <2>3, BrokerStep
<1> QED BY <1>1, <1>2, <1>3, <1>4 DEF Next

(* The invariant holds in every reachable state of a connection. *)
THEOREM ConnectorInvHolds == Spec => []ConnectorInv
  BY InitOK, NextOK, PTL DEF Spec

(* Every field of the connection and of its threads has its type, whatever *)
(* the broker does while they run (client.rs).                             *)
THEOREM ConnectorTypeCorrect == Spec => []TypeOK
<1>1. ConnectorInv => TypeOK
  BY DEF ConnectorInv
<1> QED BY <1>1, ConnectorInvHolds, PTL

(* The client id in use was given to this connection by the broker the     *)
(* transport leads to, unless connect brought it from a transport that a   *)
(* reconnect had replaced meanwhile (connect, do_register, reconnect).     *)
THEOREM ClientIdIsOurs == Spec => []ReconnectedIdIsOurs
<1>1. ConnectorInv => ReconnectedIdIsOurs
  BY DEF ConnectorInv
<1> QED BY <1>1, ConnectorInvHolds, PTL

(* Whichever way a control call ends, its slot is taken out of the table   *)
(* of pending replies (call_control, run_dispatcher, reconnect).           *)
THEOREM PendingSlotsGo == Spec => []NoSlotLeaks
<1>1. ConnectorInv => NoSlotLeaks
  BY DEF ConnectorInv
<1> QED BY <1>1, ConnectorInvHolds, PTL

(* The transport is replaced by one of a later epoch, or given a client    *)
(* id, and nothing else happens to it (reconnect, do_register).            *)
THEOREM ReconnectIsSingleFlight == Spec => SingleFlight
<1> DEFINE Forth == t' # t => t'.epoch > t.epoch \/ (t'.epoch = t.epoch /\ t'.client_id # 0)
<1>1. ASSUME ConnectorInv, [Next]_vars PROVE [Forth]_vars
  <2>1. t \in [epoch : 1..MaxEpoch, client_id : Nat]
    BY <1>1 DEF ConnectorInv, TypeOK
  <2>2. ASSUME NEW x \in Threads, Swap(x) PROVE Forth
    <3>1. th[x].boot \in 0..MaxEpoch /\ t.epoch < th[x].boot
      BY <1>1, <2>2, Locals, Fields DEF Swap, At, EpochsOK
    <3> QED BY <2>2, <3>1 DEF Swap, NewTransport
  <2>3. ASSUME NEW x \in Threads, RegisterReturns(x) PROVE Forth
    BY <1>1, <2>3, RegisterReturnsStep
  <2>4. ASSUME NEW x \in Threads, Step(x) PROVE Forth
    <3>1. CASE UNCHANGED t
      BY <3>1
    <3> QED BY <2>2, <2>3, <2>4 DEF Step, Frame, InsertSlot, Push, PushFull, TimesOut, Live,
                                    Lock, Bootstrap, ClearPending, RegisterFails, Snapshot,
                                    ReplayNext, ReplayReturns, ReplayFails
  <2>5. CASE UNCHANGED t
    BY <2>5
  <2>6. ASSUME NEW u \in Users, ConnectReturns(u) PROVE Forth
    BY <1>1, <2>6, ConnectReturnsStep
  <2>7. Watcher \in Threads /\ Users \subseteq Threads
    BY DEF Threads
  <2> QED BY <1>1, <2>4, <2>6, <2>7 DEF Next, Serve, OtherRegisters, OtherPublishes, Down, CleanUp,
                                  Restart, Dispatch, Tick, List, Publish, Expose, DropPublisher,
                                  Start, Returns, ConnectFails, Joined, ListReturns, PublishReturns, register_entry,
                                  OpFails
<1> QED BY <1>1, ConnectorInvHolds, PTL DEF Spec, SingleFlight, Forth

=============================================================================
