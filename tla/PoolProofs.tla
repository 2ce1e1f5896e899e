----------------------------- MODULE PoolProofs -----------------------------
(***************************************************************************)
(* Proofs about Pool, for any set of requests and of threads and any bound *)
(* on the workers.                                                         *)
(***************************************************************************)
EXTENDS Pool, FiniteSetTheorems, FunctionTheorems, SequenceTheorems, TLAPS

(***************************************************************************)
(* Counting.                                                               *)
(***************************************************************************)
(* Two sets of threads that differ in one thread at the most. *)
LEMMA CountOneChange ==
    ASSUME NEW P \in SUBSET Threads, NEW Q \in SUBSET Threads, NEW t \in Threads,
           \A x \in Threads \ {t} : x \in P <=> x \in Q
    PROVE  /\ Cardinality(P) \in Nat /\ Cardinality(Q) \in Nat
           /\ Cardinality(Q) = Cardinality(P) + (IF t \in Q THEN 1 ELSE 0) - (IF t \in P THEN 1 ELSE 0)
<1>1. IsFiniteSet(P) /\ IsFiniteSet(Q)
  BY PoolAssumption, FS_Subset
<1>2. Cardinality(P \ {t}) = Cardinality(Q \ {t})
  <2>1. P \ {t} = Q \ {t}
    OBVIOUS
  <2> QED OBVIOUS
<1>3. /\ Cardinality(P) \in Nat /\ Cardinality(Q) \in Nat
      /\ Cardinality(P \ {t}) = IF t \in P THEN Cardinality(P) - 1 ELSE Cardinality(P)
      /\ Cardinality(Q \ {t}) = IF t \in Q THEN Cardinality(Q) - 1 ELSE Cardinality(Q)
  BY <1>1, FS_CardinalityType, FS_RemoveElement
<1> QED BY <1>3

(* A worker goes from one phase to another. *)
LEMMA CountPhases ==
    ASSUME NEW w \in [Threads -> Phases], NEW v \in [Threads -> Phases], NEW t \in Threads,
           \A x \in Threads \ {t} : w[x] = v[x]
    PROVE  /\ Cardinality(Started(v)) \in Nat /\ Cardinality(Idling(v)) \in Nat
           /\ (t \in Started(w) <=> t \in Started(v)) => Cardinality(Started(v)) = Cardinality(Started(w))
           /\ t \notin Started(w) /\ t \in Started(v) => Cardinality(Started(v)) = Cardinality(Started(w)) + 1
           /\ t \in Started(w) /\ t \notin Started(v) => Cardinality(Started(v)) = Cardinality(Started(w)) - 1
           /\ (t \in Idling(w) <=> t \in Idling(v)) => Cardinality(Idling(v)) = Cardinality(Idling(w))
           /\ t \notin Idling(w) /\ t \in Idling(v) => Cardinality(Idling(v)) = Cardinality(Idling(w)) + 1
           /\ t \in Idling(w) /\ t \notin Idling(v) => Cardinality(Idling(v)) = Cardinality(Idling(w)) - 1
<1>1. /\ Started(w) \in SUBSET Threads /\ Started(v) \in SUBSET Threads
      /\ \A x \in Threads \ {t} : x \in Started(w) <=> x \in Started(v)
  BY DEF Started
<1>2. /\ Idling(w) \in SUBSET Threads /\ Idling(v) \in SUBSET Threads
      /\ \A x \in Threads \ {t} : x \in Idling(w) <=> x \in Idling(v)
  BY DEF Idling
<1>3. /\ Cardinality(Started(w)) \in Nat /\ Cardinality(Started(v)) \in Nat
      /\ Cardinality(Started(v)) = Cardinality(Started(w))
             + (IF t \in Started(v) THEN 1 ELSE 0) - (IF t \in Started(w) THEN 1 ELSE 0)
  BY <1>1, CountOneChange
<1>4. /\ Cardinality(Idling(w)) \in Nat /\ Cardinality(Idling(v)) \in Nat
      /\ Cardinality(Idling(v)) = Cardinality(Idling(w))
             + (IF t \in Idling(v) THEN 1 ELSE 0) - (IF t \in Idling(w) THEN 1 ELSE 0)
  BY <1>2, CountOneChange
<1>5. /\ (t \in Started(w) <=> t \in Started(v)) => Cardinality(Started(v)) = Cardinality(Started(w))
      /\ t \notin Started(w) /\ t \in Started(v) => Cardinality(Started(v)) = Cardinality(Started(w)) + 1
      /\ t \in Started(w) /\ t \notin Started(v) => Cardinality(Started(v)) = Cardinality(Started(w)) - 1
  BY <1>3
<1>6. /\ (t \in Idling(w) <=> t \in Idling(v)) => Cardinality(Idling(v)) = Cardinality(Idling(w))
      /\ t \notin Idling(w) /\ t \in Idling(v) => Cardinality(Idling(v)) = Cardinality(Idling(w)) + 1
      /\ t \in Idling(w) /\ t \notin Idling(v) => Cardinality(Idling(v)) = Cardinality(Idling(w)) - 1
  BY <1>4
<1> QED BY <1>3, <1>4

(* A worker takes a request, or has served it. *)
LEMMA CountServed ==
    ASSUME NEW w \in [Threads -> Jobs \cup {NoJob}], NEW v \in [Threads -> Jobs \cup {NoJob}],
           NEW t \in Threads, NEW j \in Jobs, \A x \in Threads \ {t} : w[x] = v[x]
    PROVE  /\ Cardinality(ServedBy(w, j)) \in Nat
           /\ Cardinality(ServedBy(v, j)) = Cardinality(ServedBy(w, j))
                  + (IF v[t] = j THEN 1 ELSE 0) - (IF w[t] = j THEN 1 ELSE 0)
<1> DEFINE P == ServedBy(w, j)
           Q == ServedBy(v, j)
<1>1. /\ P \in SUBSET Threads /\ Q \in SUBSET Threads
      /\ \A x \in Threads \ {t} : x \in P <=> x \in Q
      /\ t \in Q <=> v[t] = j
      /\ t \in P <=> w[t] = j
  BY DEF ServedBy
<1> HIDE DEF P, Q
<1>2. /\ Cardinality(P) \in Nat
      /\ Cardinality(Q) = Cardinality(P) + (IF t \in Q THEN 1 ELSE 0) - (IF t \in P THEN 1 ELSE 0)
  BY <1>1, CountOneChange
<1>3. /\ Cardinality(P) \in Nat
      /\ Cardinality(Q) = Cardinality(P) + (IF v[t] = j THEN 1 ELSE 0) - (IF w[t] = j THEN 1 ELSE 0)
  BY <1>1, <1>2
<1> QED BY <1>3 DEF P, Q

(* push_back. *)
LEMMA CountAppended ==
    ASSUME NEW q \in Seq(Jobs), NEW k \in Jobs, NEW j \in Jobs
    PROVE  /\ Cardinality(Queued(q, j)) \in Nat
           /\ Cardinality(Queued(Append(q, k), j)) = Cardinality(Queued(q, j)) + (IF k = j THEN 1 ELSE 0)
<1>1. IsFiniteSet(Queued(q, j))
  <2>1. IsFiniteSet(1..Len(q))
    BY FS_Interval
  <2> QED BY <2>1, FS_Subset DEF Queued
<1>2. CASE k = j
  <2>1. Queued(Append(q, k), j) = Queued(q, j) \cup {Len(q) + 1}
    BY <1>2 DEF Queued
  <2>2. Len(q) + 1 \notin Queued(q, j)
    BY DEF Queued
  <2> QED BY <1>1, <1>2, <2>1, <2>2, FS_AddElement, FS_CardinalityType
<1>3. CASE k # j
  <2>1. Queued(Append(q, k), j) = Queued(q, j)
    BY <1>3 DEF Queued
  <2> QED BY <1>1, <1>3, <2>1, FS_CardinalityType
<1> QED BY <1>2, <1>3

(* pop_front: the others move up by one place. *)
LEMMA CountPopped ==
    ASSUME NEW q \in Seq(Jobs), q # << >>, NEW j \in Jobs
    PROVE  /\ Cardinality(Queued(q, j)) \in Nat
           /\ Cardinality(Queued(Tail(q), j)) = Cardinality(Queued(q, j)) - (IF Head(q) = j THEN 1 ELSE 0)
<1> DEFINE S == Queued(q, j) \ {1}
           T == Queued(Tail(q), j)
           f == [i \in S |-> i - 1]
<1>1. IsFiniteSet(Queued(q, j))
  <2>1. IsFiniteSet(1..Len(q))
    BY FS_Interval
  <2> QED BY <2>1, FS_Subset DEF Queued
<1>2. /\ Len(q) \in Nat \ {0} /\ Len(Tail(q)) = Len(q) - 1
      /\ \A i \in 1..(Len(q) - 1) : Tail(q)[i] = q[i + 1]
      /\ Head(q) = q[1]
  OBVIOUS
<1>3. f \in Bijection(S, T)
  <2>1. f \in [S -> T]
    BY DEF Queued
  <2>2. \A a, b \in S : f[a] = f[b] => a = b
    BY DEF Queued
  <2>3. \A i \in T : i + 1 \in S /\ f[i + 1] = i
    BY DEF Queued
  <2> QED BY <2>1, <2>2, <2>3, Fun_IsBij
<1>4. IsFiniteSet(S) /\ Cardinality(S) = Cardinality(Queued(q, j)) - (IF Head(q) = j THEN 1 ELSE 0)
  <2>1. 1 \in Queued(q, j) <=> Head(q) = j
    BY DEF Queued
  <2> QED BY <1>1, <2>1, FS_RemoveElement, FS_CardinalityType
<1>5. Cardinality(T) = Cardinality(S)
  BY <1>3, <1>4, FS_Bijection DEF ExistsBijection
<1> QED BY <1>1, <1>4, <1>5, FS_CardinalityType

(***************************************************************************)
(* One lemma for each step of a thread.                                    *)
(***************************************************************************)
(* The counts of Places are numbers. *)
LEMMA CountsDefined ==
    ASSUME TypeOK, NEW j \in Jobs
    PROVE  Cardinality(ServedBy(wjob, j)) \in Nat /\ Cardinality(Queued(queue, j)) \in Nat
<1>1. IsFiniteSet(ServedBy(wjob, j))
  BY PoolAssumption, FS_Subset DEF ServedBy
<1>2. Cardinality(Queued(queue, j)) \in Nat
  BY CountAppended DEF TypeOK
<1> QED BY <1>1, <1>2, FS_CardinalityType

(* What the step of a worker from one phase to another does to the counts. *)
LEMMA MoveCounted ==
    ASSUME TypeOK, CountsTrue, NEW t \in Threads, NEW p \in Phases, wpc' = [wpc EXCEPT ![t] = p]
    PROVE  /\ Cardinality(Started(wpc')) \in Nat /\ Cardinality(Idling(wpc')) \in Nat
           /\ (wpc[t] = "none" <=> p = "none") => Cardinality(Started(wpc')) = workers
           /\ wpc[t] = "none" /\ p # "none" => Cardinality(Started(wpc')) = workers + 1
           /\ wpc[t] # "none" /\ p = "none" => Cardinality(Started(wpc')) = workers - 1
           /\ (wpc[t] \in Idle <=> p \in Idle) => Cardinality(Idling(wpc')) = idle_workers
           /\ wpc[t] \notin Idle /\ p \in Idle => Cardinality(Idling(wpc')) = idle_workers + 1
           /\ wpc[t] \in Idle /\ p \notin Idle => Cardinality(Idling(wpc')) = idle_workers - 1
<1> DEFINE w == wpc
           v == wpc'
<1>1. /\ w \in [Threads -> Phases] /\ v \in [Threads -> Phases]
      /\ \A x \in Threads \ {t} : w[x] = v[x]
      /\ v[t] = p
  BY DEF TypeOK
<1>2. /\ t \in Started(w) <=> w[t] # "none"
      /\ t \in Started(v) <=> p # "none"
      /\ t \in Idling(w) <=> w[t] \in Idle
      /\ t \in Idling(v) <=> p \in Idle
  BY <1>1 DEF Started, Idling
<1>3. workers = Cardinality(Started(w)) /\ idle_workers = Cardinality(Idling(w))
  BY DEF CountsTrue
<1> HIDE DEF w, v
<1>4. /\ Cardinality(Started(v)) \in Nat /\ Cardinality(Idling(v)) \in Nat
      /\ (t \in Started(w) <=> t \in Started(v)) => Cardinality(Started(v)) = Cardinality(Started(w))
      /\ t \notin Started(w) /\ t \in Started(v) => Cardinality(Started(v)) = Cardinality(Started(w)) + 1
      /\ t \in Started(w) /\ t \notin Started(v) => Cardinality(Started(v)) = Cardinality(Started(w)) - 1
      /\ (t \in Idling(w) <=> t \in Idling(v)) => Cardinality(Idling(v)) = Cardinality(Idling(w))
      /\ t \notin Idling(w) /\ t \in Idling(v) => Cardinality(Idling(v)) = Cardinality(Idling(w)) + 1
      /\ t \in Idling(w) /\ t \notin Idling(v) => Cardinality(Idling(v)) = Cardinality(Idling(w)) - 1
  BY <1>1, CountPhases
<1> QED BY <1>2, <1>3, <1>4 DEF w, v

(* The reader looks at the connection's flag. *)
LEMMA CheckRunningStep ==
    ASSUME PoolInv, CheckRunning
    PROVE  PoolInv'
<1>1. TypeOK'
  BY DEF PoolInv, TypeOK, CheckRunning
<1>2. LockWord' /\ IdleOnEmpty' /\ InHands'
  BY DEF PoolInv, TypeOK, LockWord, IdleOnEmpty, InHands, CheckRunning
<1>3. CountsTrue'
  BY DEF PoolInv, TypeOK, CountsTrue, CheckRunning
<1>4. HandedOnOnce'
  BY DEF PoolInv, HandedOnOnce, Places, CheckRunning
<1>5. Attended'
  BY DEF PoolInv, TypeOK, Attended, CheckRunning
<1> QED BY <1>1, <1>2, <1>3, <1>4, <1>5 DEF PoolInv

(* A request leaves the arena for the reader's hands. *)
LEMMA ReadRequestStep ==
    ASSUME PoolInv, ReadRequest
    PROVE  PoolInv'
<1>1. TypeOK'
  BY DEF PoolInv, TypeOK, ReadRequest
<1>2. LockWord' /\ IdleOnEmpty' /\ InHands'
  BY PoolAssumption DEF PoolInv, TypeOK, LockWord, IdleOnEmpty, InHands, ReadRequest
<1>3. CountsTrue'
  BY DEF PoolInv, TypeOK, CountsTrue, ReadRequest
<1>4. HandedOnOnce'
  <2> SUFFICES ASSUME NEW j \in Jobs PROVE Places(j)' = Places(j)
    BY DEF PoolInv, HandedOnOnce
  <2>1. job = NoJob /\ j # NoJob
    BY PoolAssumption DEF PoolInv, InHands, ReadRequest
  <2>2. CASE UNCHANGED <<arena, job>>
    BY <2>2 DEF ReadRequest, Places
  <2>3. ASSUME NEW k \in arena, job' = k, arena' = arena \ {k}
        PROVE  Places(j)' = Places(j)
    <3>1. (IF job' = j THEN 1 ELSE 0) + (IF j \in arena' THEN 1 ELSE 0)
              = (IF job = j THEN 1 ELSE 0) + (IF j \in arena THEN 1 ELSE 0)
      BY <2>1, <2>3
    <3>2. /\ Cardinality(ServedBy(wjob, j)) \in Nat /\ Cardinality(Queued(queue, j)) \in Nat
          /\ answers[j] \in Nat
      BY CountsDefined DEF PoolInv, TypeOK
    <3> QED BY <3>1, <3>2 DEF ReadRequest, Places
  <2> QED BY <2>2, <2>3 DEF ReadRequest
<1>5. Attended'
  BY DEF PoolInv, TypeOK, Attended, ReadRequest
<1> QED BY <1>1, <1>2, <1>3, <1>4, <1>5 DEF PoolInv

(* push_back: the queue's mutex is free, so no worker is on its way to sleep. *)
LEMMA PushJobStep ==
    ASSUME PoolInv, PushJob
    PROVE  PoolInv'
<1>0. job \in Jobs
  BY DEF PoolInv, TypeOK, InHands, PushJob
<1>1. TypeOK'
  BY <1>0 DEF PoolInv, TypeOK, PushJob
<1>2. LockWord' /\ IdleOnEmpty' /\ InHands'
  BY PoolAssumption DEF PoolInv, TypeOK, LockWord, IdleOnEmpty, InHands, PushJob
<1>3. CountsTrue'
  BY DEF PoolInv, TypeOK, CountsTrue, PushJob
<1>4. HandedOnOnce'
  <2> SUFFICES ASSUME NEW j \in Jobs PROVE Places(j)' = Places(j)
    BY DEF PoolInv, HandedOnOnce
  <2>1. /\ Cardinality(Queued(queue, j)) \in Nat
        /\ Cardinality(Queued(queue', j)) = Cardinality(Queued(queue, j)) + (IF job = j THEN 1 ELSE 0)
    BY <1>0, CountAppended DEF PoolInv, TypeOK, PushJob
  <2>2. job' # j
    BY PoolAssumption DEF PushJob
  <2>3. Cardinality(ServedBy(wjob, j)) \in Nat /\ answers[j] \in Nat
    BY CountsDefined DEF PoolInv, TypeOK
  <2> QED BY <2>1, <2>2, <2>3 DEF Places, PushJob
<1>5. Attended'
  BY DEF PoolInv, TypeOK, Attended, PushJob
<1> QED BY <1>1, <1>2, <1>3, <1>4, <1>5 DEF PoolInv

(* A thread is spawned only below the bound; where none is, some worker is there. *)
LEMMA CountWorkersStep ==
    ASSUME PoolInv, CountWorkers
    PROVE  PoolInv'
<1>1. TypeOK'
  BY DEF PoolInv, TypeOK, Phases, CountWorkers, MaySpawn
<1>2. LockWord' /\ IdleOnEmpty' /\ InHands'
  BY DEF PoolInv, TypeOK, LockWord, IdleOnEmpty, InHands, CountWorkers
<1>3. CountsTrue'
  <2>1. CASE ~ MaySpawn
    BY <2>1 DEF CountWorkers, PoolInv, CountsTrue
  <2>2. CASE MaySpawn
    <3>1. PICK t \in Threads : wpc[t] = "none" /\ wpc' = [wpc EXCEPT ![t] = "lock"]
      BY <2>2 DEF CountWorkers
    <3>2. /\ Cardinality(Started(wpc')) = workers + 1
          /\ Cardinality(Idling(wpc')) = idle_workers
      <4>1. "lock" \in Phases
        BY DEF Phases
      <4> QED BY <3>1, <4>1, MoveCounted DEF Idle, PoolInv, TypeOK
    <3> QED BY <3>2, PoolAssumption DEF CountWorkers, MaySpawn, CountsTrue, PoolInv, TypeOK
  <2> QED BY <2>1, <2>2
<1>4. HandedOnOnce'
  BY DEF PoolInv, HandedOnOnce, Places, CountWorkers
<1>5. Attended'
  <2> SUFFICES ASSUME running, queue # << >>
               PROVE  \E t \in Threads : wpc'[t] \in Awake \cup {"waiting"}
    BY DEF Attended, CountWorkers
  <2>1. CASE MaySpawn
    BY <2>1 DEF CountWorkers, Awake, PoolInv, TypeOK
  <2>2. CASE ~ MaySpawn
    <3>1. idle_workers # 0 \/ workers # 0
      BY <2>2, PoolAssumption DEF MaySpawn, PoolInv, TypeOK
    <3>2. \E t \in Threads : wpc[t] # "none"
      <4>1. Started(wpc) # {} \/ Idling(wpc) # {}
        BY <3>1, FS_EmptySet DEF PoolInv, CountsTrue
      <4> QED BY <4>1 DEF Started, Idling, Idle
    <3> QED BY <3>2 DEF CountWorkers, Awake, PoolInv, TypeOK, Phases, IdleOnEmpty
  <2> QED BY <2>1, <2>2
<1> QED BY <1>1, <1>2, <1>3, <1>4, <1>5 DEF PoolInv

(* notify_one reaches a worker that waits, if there is one; else one is awake. *)
LEMMA NotifyStep ==
    ASSUME PoolInv, Notify
    PROVE  PoolInv'
<1>1. TypeOK'
  BY DEF PoolInv, TypeOK, Phases, Notify, NotifyOne
<1>2. LockWord' /\ IdleOnEmpty' /\ InHands'
  BY DEF PoolInv, TypeOK, LockWord, IdleOnEmpty, InHands, Notify, NotifyOne, Waiting
<1>3. CountsTrue'
  <2>1. CASE UNCHANGED wpc
    BY <2>1 DEF Notify, PoolInv, CountsTrue
  <2>2. ASSUME NEW t \in Waiting, wpc' = [wpc EXCEPT ![t] = "woken"]
        PROVE  CountsTrue'
    <3>1. t \in Threads /\ wpc[t] = "waiting" /\ "woken" \in Phases
      BY DEF Waiting, Phases
    <3> QED BY <2>2, <3>1, MoveCounted DEF Idle, Notify, PoolInv, CountsTrue, TypeOK
  <2> QED BY <2>1, <2>2 DEF Notify, NotifyOne
<1>4. HandedOnOnce'
  BY DEF PoolInv, HandedOnOnce, Places, Notify
<1>5. Attended'
  BY DEF PoolInv, TypeOK, Attended, Awake, Notify, NotifyOne, Waiting
<1> QED BY <1>1, <1>2, <1>3, <1>4, <1>5 DEF PoolInv

(* notify_all wakes every worker that waits. *)
LEMMA ReaderEndsStep ==
    ASSUME PoolInv, ReaderEnds
    PROVE  PoolInv'
<1>1. TypeOK'
  BY DEF PoolInv, TypeOK, Phases, ReaderEnds
<1>2. LockWord' /\ IdleOnEmpty' /\ InHands'
  BY DEF PoolInv, TypeOK, LockWord, IdleOnEmpty, InHands, ReaderEnds
<1>3. CountsTrue'
  <2>1. Started(wpc') = Started(wpc) /\ Idling(wpc') = Idling(wpc)
    BY DEF ReaderEnds, Started, Idling, Idle, PoolInv, TypeOK
  <2> QED BY <2>1 DEF ReaderEnds, PoolInv, CountsTrue
<1>4. HandedOnOnce'
  BY DEF PoolInv, HandedOnOnce, Places, ReaderEnds
<1>5. Attended'
  BY DEF PoolInv, TypeOK, Attended, ReaderEnds
<1> QED BY <1>1, <1>2, <1>3, <1>4, <1>5 DEF PoolInv

(* The connection stops: nobody has to attend to the queue any more. *)
LEMMA StopStep ==
    ASSUME PoolInv, Stop
    PROVE  PoolInv'
<1>1. TypeOK'
  BY DEF PoolInv, TypeOK, Stop
<1>2. LockWord' /\ IdleOnEmpty' /\ InHands'
  BY DEF PoolInv, TypeOK, LockWord, IdleOnEmpty, InHands, Stop
<1>3. CountsTrue'
  BY DEF PoolInv, TypeOK, CountsTrue, Stop
<1>4. HandedOnOnce'
  BY DEF PoolInv, HandedOnOnce, Places, Stop
<1>5. Attended'
  BY DEF PoolInv, TypeOK, Attended, Stop
<1> QED BY <1>1, <1>2, <1>3, <1>4, <1>5 DEF PoolInv

(* A worker takes the queue's mutex. *)
LEMMA LockQueueStep ==
    ASSUME PoolInv, NEW t \in Threads, LockQueue(t)
    PROVE  PoolInv'
<1>1. TypeOK'
  BY DEF PoolInv, TypeOK, Phases, LockQueue
<1>2. LockWord' /\ IdleOnEmpty' /\ InHands'
  BY PoolAssumption DEF PoolInv, TypeOK, LockWord, IdleOnEmpty, InHands, LockQueue
<1>3. CountsTrue'
  <2>1. "look" \in Phases
    BY DEF Phases
  <2> QED BY <2>1, MoveCounted DEF Idle, LockQueue, PoolInv, CountsTrue, TypeOK
<1>4. HandedOnOnce'
  BY DEF PoolInv, HandedOnOnce, Places, LockQueue
<1>5. Attended'
  BY DEF PoolInv, TypeOK, Attended, Awake, LockQueue
<1> QED BY <1>1, <1>2, <1>3, <1>4, <1>5 DEF PoolInv

(* A worker takes the request at the front, or ends, or goes idle on an empty queue. *)
LEMMA LookStep ==
    ASSUME PoolInv, NEW t \in Threads, Look(t)
    PROVE  PoolInv'
<1>1. /\ {"serve", "exit", "park"} \subseteq Phases
      /\ wpc[t] = "look" /\ qlock = t
  BY DEF Phases, PoolInv, LockWord, Look
<1>2. CASE queue # << >>
  <2>1. /\ wjob' = [wjob EXCEPT ![t] = Head(queue)] /\ queue' = Tail(queue) /\ qlock' = NoThread
        /\ wpc' = [wpc EXCEPT ![t] = "serve"]
        /\ UNCHANGED <<arena, running, rpc, job, workers, idle_workers, answers, dropped>>
    BY <1>2 DEF Look, PopFront
  <2>2. Head(queue) \in Jobs /\ Tail(queue) \in Seq(Jobs)
    BY <1>2 DEF PoolInv, TypeOK
  <2>3. wjob[t] = NoJob
    BY <1>1 DEF PoolInv, InHands
  <2>4. TypeOK'
    BY <1>1, <2>1, <2>2 DEF PoolInv, TypeOK
  <2>5. LockWord' /\ IdleOnEmpty' /\ InHands'
    BY <1>1, <2>1, <2>2, PoolAssumption DEF PoolInv, TypeOK, LockWord, IdleOnEmpty, InHands
  <2>6. CountsTrue'
    BY <1>1, <2>1, MoveCounted DEF Idle, PoolInv, CountsTrue
  <2>7. HandedOnOnce'
    <3> SUFFICES ASSUME NEW j \in Jobs PROVE Places(j)' = Places(j)
      BY DEF PoolInv, HandedOnOnce
    <3>1. /\ Cardinality(Queued(queue, j)) \in Nat
          /\ Cardinality(Queued(queue', j))
                = Cardinality(Queued(queue, j)) - (IF Head(queue) = j THEN 1 ELSE 0)
      BY <1>2, <2>1, CountPopped DEF PoolInv, TypeOK
    <3>2. /\ Cardinality(ServedBy(wjob, j)) \in Nat
          /\ Cardinality(ServedBy(wjob', j)) = Cardinality(ServedBy(wjob, j))
                + (IF Head(queue) = j THEN 1 ELSE 0) - (IF wjob[t] = j THEN 1 ELSE 0)
      <4> DEFINE w == wjob
                 v == wjob'
      <4>1. /\ w \in [Threads -> Jobs \cup {NoJob}] /\ v \in [Threads -> Jobs \cup {NoJob}]
            /\ \A x \in Threads \ {t} : w[x] = v[x]
            /\ v[t] = Head(queue)
        BY <2>1, <2>2 DEF PoolInv, TypeOK
      <4> HIDE DEF w, v
      <4>2. /\ Cardinality(ServedBy(w, j)) \in Nat
            /\ Cardinality(ServedBy(v, j)) = Cardinality(ServedBy(w, j))
                  + (IF v[t] = j THEN 1 ELSE 0) - (IF w[t] = j THEN 1 ELSE 0)
        BY <4>1, CountServed
      <4> QED BY <4>1, <4>2 DEF w, v
    <3>3. wjob[t] # j
      BY <2>3, PoolAssumption
    <3>4. answers[j] \in Nat
      BY DEF PoolInv, TypeOK
    <3> QED BY <2>1, <3>1, <3>2, <3>3 DEF Places
  <2>8. Attended'
    BY <2>1 DEF PoolInv, TypeOK, Attended, Awake
  <2> QED BY <2>4, <2>5, <2>6, <2>7, <2>8 DEF PoolInv
<1>3. CASE queue = << >> /\ ~ running
  <2>1. /\ qlock' = NoThread /\ wpc' = [wpc EXCEPT ![t] = "exit"]
        /\ UNCHANGED <<arena, running, rpc, job, queue, workers, idle_workers, wjob, answers, dropped>>
    BY <1>3 DEF Look
  <2>2. TypeOK'
    BY <1>1, <2>1 DEF PoolInv, TypeOK
  <2>3. LockWord' /\ IdleOnEmpty' /\ InHands'
    BY <1>1, <1>3, <2>1, PoolAssumption DEF PoolInv, TypeOK, LockWord, IdleOnEmpty, InHands
  <2>4. CountsTrue'
    BY <1>1, <2>1, MoveCounted DEF Idle, PoolInv, CountsTrue
  <2>5. HandedOnOnce' /\ Attended'
    BY <1>3, <2>1 DEF PoolInv, HandedOnOnce, Places, Attended
  <2> QED BY <2>2, <2>3, <2>4, <2>5 DEF PoolInv
<1>4. CASE queue = << >> /\ running
  <2>1. /\ idle_workers' = idle_workers + 1 /\ wpc' = [wpc EXCEPT ![t] = "park"]
        /\ UNCHANGED <<arena, running, rpc, job, queue, qlock, workers, wjob, answers, dropped>>
    BY <1>4 DEF Look, GoesIdle
  <2>2. TypeOK'
    BY <1>1, <2>1 DEF PoolInv, TypeOK
  <2>3. LockWord' /\ IdleOnEmpty' /\ InHands'
    BY <1>1, <1>4, <2>1 DEF PoolInv, TypeOK, LockWord, IdleOnEmpty, InHands
  <2>4. CountsTrue'
    BY <1>1, <2>1, MoveCounted DEF Idle, PoolInv, CountsTrue
  <2>5. HandedOnOnce' /\ Attended'
    BY <1>4, <2>1 DEF PoolInv, HandedOnOnce, Places, Attended
  <2> QED BY <2>2, <2>3, <2>4, <2>5 DEF PoolInv
<1> QED BY <1>2, <1>3, <1>4 DEF Look, PoolInv, TypeOK

(* A worker gives the mutex back and waits. *)
LEMMA ParkStep ==
    ASSUME PoolInv, NEW t \in Threads, Park(t)
    PROVE  PoolInv'
<1>1. TypeOK'
  BY DEF PoolInv, TypeOK, Phases, Park
<1>2. LockWord' /\ IdleOnEmpty' /\ InHands'
  BY PoolAssumption DEF PoolInv, TypeOK, LockWord, IdleOnEmpty, InHands, Park
<1>3. CountsTrue'
  <2>1. "waiting" \in Phases
    BY DEF Phases
  <2> QED BY <2>1, MoveCounted DEF Idle, Park, PoolInv, CountsTrue, TypeOK
<1>4. HandedOnOnce'
  BY DEF PoolInv, HandedOnOnce, Places, Park
<1>5. Attended'
  BY DEF PoolInv, TypeOK, Attended, IdleOnEmpty, Park
<1> QED BY <1>1, <1>2, <1>3, <1>4, <1>5 DEF PoolInv

(* A wait that runs out is a notification. *)
LEMMA WaitTimeoutStep ==
    ASSUME PoolInv, NEW t \in Threads, WaitTimeout(t)
    PROVE  PoolInv'
<1>1. TypeOK'
  BY DEF PoolInv, TypeOK, Phases, WaitTimeout
<1>2. LockWord' /\ IdleOnEmpty' /\ InHands'
  BY DEF PoolInv, TypeOK, LockWord, IdleOnEmpty, InHands, WaitTimeout
<1>3. CountsTrue'
  <2>1. "woken" \in Phases
    BY DEF Phases
  <2> QED BY <2>1, MoveCounted DEF Idle, WaitTimeout, PoolInv, CountsTrue, TypeOK
<1>4. HandedOnOnce'
  BY DEF PoolInv, HandedOnOnce, Places, WaitTimeout
<1>5. Attended'
  BY DEF PoolInv, TypeOK, Attended, Awake, WaitTimeout
<1> QED BY <1>1, <1>2, <1>3, <1>4, <1>5 DEF PoolInv

(* A worker that was woken takes the mutex again. *)
LEMMA RelockStep ==
    ASSUME PoolInv, NEW t \in Threads, Relock(t)
    PROVE  PoolInv'
<1>1. TypeOK'
  BY DEF PoolInv, TypeOK, Phases, Relock
<1>2. LockWord' /\ IdleOnEmpty' /\ InHands'
  BY PoolAssumption DEF PoolInv, TypeOK, LockWord, IdleOnEmpty, InHands, Relock
<1>3. CountsTrue'
  <2>1. "awake" \in Phases
    BY DEF Phases
  <2> QED BY <2>1, MoveCounted DEF Idle, Relock, PoolInv, CountsTrue, TypeOK
<1>4. HandedOnOnce'
  BY DEF PoolInv, HandedOnOnce, Places, Relock
<1>5. Attended'
  BY DEF PoolInv, TypeOK, Attended, Awake, Relock
<1> QED BY <1>1, <1>2, <1>3, <1>4, <1>5 DEF PoolInv

(* The worker is no longer idle, and was counted as such. *)
LEMMA ResumeStep ==
    ASSUME PoolInv, NEW t \in Threads, Resume(t)
    PROVE  PoolInv'
<1>1. /\ Cardinality(Started(wpc')) \in Nat /\ Cardinality(Idling(wpc')) \in Nat
      /\ Cardinality(Started(wpc')) = workers' /\ Cardinality(Idling(wpc')) = idle_workers'
  <2>1. "look" \in Phases
    BY DEF Phases
  <2> QED BY <2>1, MoveCounted DEF Idle, Resume, NoLongerIdle, PoolInv, TypeOK
<1>6. TypeOK'
  BY <1>1 DEF Resume, PoolInv, TypeOK, Phases
<1>2. LockWord' /\ IdleOnEmpty' /\ InHands'
  BY DEF PoolInv, TypeOK, LockWord, IdleOnEmpty, InHands, Resume
<1>3. CountsTrue'
  BY <1>1 DEF Resume, PoolInv, CountsTrue, TypeOK
<1>4. HandedOnOnce'
  BY DEF PoolInv, HandedOnOnce, Places, Resume
<1>5. Attended'
  BY DEF PoolInv, TypeOK, Attended, Awake, Resume
<1> QED BY <1>2, <1>3, <1>4, <1>5, <1>6 DEF PoolInv

(* The request a worker served is answered or given up, once. *)
LEMMA AnswerStep ==
    ASSUME PoolInv, NEW t \in Threads, Answer(t)
    PROVE  PoolInv'
<1>0. wjob[t] \in Jobs
  BY DEF Answer, PoolInv, InHands, TypeOK
<1>1. TypeOK'
  BY <1>0 DEF PoolInv, TypeOK, Phases, Answer
<1>2. LockWord' /\ IdleOnEmpty' /\ InHands'
  BY DEF PoolInv, TypeOK, LockWord, IdleOnEmpty, InHands, Answer
<1>3. CountsTrue'
  <2>1. "lock" \in Phases
    BY DEF Phases
  <2> QED BY <2>1, MoveCounted DEF Idle, Answer, PoolInv, CountsTrue, TypeOK
<1>4. HandedOnOnce'
  <2> SUFFICES ASSUME NEW j \in Jobs PROVE Places(j)' = 1
    BY DEF HandedOnOnce
  <2>1. Places(j) = 1
    BY DEF PoolInv, HandedOnOnce
  <2>2. /\ Cardinality(ServedBy(wjob, j)) \in Nat
        /\ Cardinality(ServedBy(wjob', j)) = Cardinality(ServedBy(wjob, j))
              + (IF NoJob = j THEN 1 ELSE 0) - (IF wjob[t] = j THEN 1 ELSE 0)
    <3> DEFINE w == wjob
               v == wjob'
    <3>1. /\ w \in [Threads -> Jobs \cup {NoJob}] /\ v \in [Threads -> Jobs \cup {NoJob}]
          /\ \A x \in Threads \ {t} : w[x] = v[x]
          /\ v[t] = NoJob
      BY DEF PoolInv, TypeOK, Answer
    <3> HIDE DEF w, v
    <3>2. /\ Cardinality(ServedBy(w, j)) \in Nat
          /\ Cardinality(ServedBy(v, j)) = Cardinality(ServedBy(w, j))
                + (IF v[t] = j THEN 1 ELSE 0) - (IF w[t] = j THEN 1 ELSE 0)
      BY <3>1, CountServed
    <3> QED BY <3>1, <3>2 DEF w, v
  <2>3. NoJob # j
    BY PoolAssumption
  <2>4. Cardinality(Queued(queue, j)) \in Nat /\ answers[j] \in Nat
    BY CountsDefined DEF PoolInv, TypeOK
  <2>5. wjob[t] = j => j \notin dropped /\ answers[j] = 0
    <3>1. wjob[t] = j => Cardinality(ServedBy(wjob, j)) >= 1
      <4>1. wjob[t] = j => ServedBy(wjob, j) # {}
        BY DEF ServedBy
      <4>2. IsFiniteSet(ServedBy(wjob, j))
        BY PoolAssumption, FS_Subset DEF ServedBy
      <4> QED BY <4>1, <4>2, <2>2, FS_EmptySet
    <3> QED BY <3>1, <2>1, <2>2, <2>4 DEF Places
  <2>6. CASE answers' = [answers EXCEPT ![wjob[t]] = @ + 1] /\ UNCHANGED dropped
    <3>1. answers'[j] = answers[j] + (IF wjob[t] = j THEN 1 ELSE 0)
      BY <2>6 DEF PoolInv, TypeOK
    <3> QED BY <2>1, <2>2, <2>3, <2>4, <3>1 DEF Places, Answer
  <2>7. CASE dropped' = dropped \cup {wjob[t]} /\ UNCHANGED answers
    <3>1. (IF j \in dropped' THEN 1 ELSE 0) = (IF j \in dropped THEN 1 ELSE 0) + (IF wjob[t] = j THEN 1 ELSE 0)
      BY <2>5, <2>7
    <3> QED BY <2>1, <2>2, <2>3, <2>4, <2>7, <3>1 DEF Places, Answer
  <2> QED BY <2>6, <2>7 DEF Answer
<1>5. Attended'
  BY DEF PoolInv, TypeOK, Attended, Awake, Answer
<1> QED BY <1>1, <1>2, <1>3, <1>4, <1>5 DEF PoolInv

(* The worker that ends was counted. *)
LEMMA ExitStep ==
    ASSUME PoolInv, NEW t \in Threads, Exit(t)
    PROVE  PoolInv'
<1>1. /\ Cardinality(Started(wpc')) \in Nat /\ Cardinality(Idling(wpc')) \in Nat
      /\ Cardinality(Started(wpc')) = workers' /\ Cardinality(Idling(wpc')) = idle_workers'
  <2>1. "none" \in Phases
    BY DEF Phases
  <2> QED BY <2>1, MoveCounted DEF Idle, Exit, PoolInv, TypeOK
<1>6. TypeOK'
  BY <1>1 DEF Exit, PoolInv, TypeOK, Phases
<1>2. LockWord' /\ IdleOnEmpty' /\ InHands'
  BY DEF PoolInv, TypeOK, LockWord, IdleOnEmpty, InHands, Exit
<1>3. CountsTrue'
  BY <1>1, PoolAssumption DEF Exit, PoolInv, CountsTrue, TypeOK
<1>4. HandedOnOnce'
  BY DEF PoolInv, HandedOnOnce, Places, Exit
<1>5. Attended'
  BY DEF PoolInv, TypeOK, Attended, IdleOnEmpty, Exit
<1> QED BY <1>2, <1>3, <1>4, <1>5, <1>6 DEF PoolInv

(* The pool starts with no worker and every request in the arena. *)
LEMMA InitOK ==
    Init => PoolInv
<1> SUFFICES ASSUME Init PROVE PoolInv
  OBVIOUS
<1>1. TypeOK
  BY DEF Init, TypeOK, Phases
<1>2. LockWord /\ IdleOnEmpty /\ InHands /\ Attended
  BY PoolAssumption DEF Init, LockWord, IdleOnEmpty, InHands, Attended
<1>3. CountsTrue
  <2>1. Started(wpc) = {} /\ Idling(wpc) = {}
    BY DEF Init, Started, Idling, Idle
  <2>2. Cardinality(Started(wpc)) = 0 /\ Cardinality(Idling(wpc)) = 0
    BY <2>1, FS_EmptySet
  <2>3. 0 <= max_workers
    BY PoolAssumption
  <2> QED BY <2>2, <2>3 DEF Init, CountsTrue
<1>4. HandedOnOnce
  <2> SUFFICES ASSUME NEW j \in Jobs PROVE Places(j) = 1
    BY DEF HandedOnOnce
  <2>1. j # NoJob
    BY PoolAssumption
  <2>2. ServedBy(wjob, j) = {} /\ Queued(queue, j) = {}
    BY <2>1 DEF Init, ServedBy, Queued
  <2>3. Cardinality(ServedBy(wjob, j)) = 0 /\ Cardinality(Queued(queue, j)) = 0
    BY <2>2, FS_EmptySet
  <2> QED BY <2>1, <2>3 DEF Init, Places
<1> QED BY <1>1, <1>2, <1>3, <1>4 DEF PoolInv

(* Every step of the reader, of a worker and of the connection keeps the   *)
(* invariant.                                                              *)
LEMMA NextOK ==
    PoolInv /\ [Next]_vars => PoolInv'
<1> SUFFICES ASSUME PoolInv, [Next]_vars PROVE PoolInv'
  OBVIOUS
<1>1. CASE Reader
  BY <1>1, CheckRunningStep, ReadRequestStep, PushJobStep, CountWorkersStep, NotifyStep,
     ReaderEndsStep DEF Reader
<1>2. CASE Stop
  BY <1>2, StopStep
<1>3. ASSUME NEW t \in Threads, Worker(t) \/ WaitTimeout(t)
      PROVE  PoolInv'
  BY <1>3, LockQueueStep, LookStep, ParkStep, WaitTimeoutStep, RelockStep, ResumeStep,
     AnswerStep, ExitStep DEF Worker
<1>4. CASE UNCHANGED vars
  BY <1>4 DEF vars, PoolInv, TypeOK, LockWord, IdleOnEmpty, InHands, CountsTrue, HandedOnOnce,
              Places, Attended
<1> QED BY <1>1, <1>2, <1>3, <1>4 DEF Next

(* PoolInv holds in every state, however the sections of the two mutexes  *)
(* in submit and work interleave and whenever the connection stops.        *)
THEOREM PoolInvHolds ==
    Spec => []PoolInv
  BY InitOK, NextOK, PTL DEF Spec

(* The state keeps its shape: no counter of spawn_service goes below zero. *)
THEOREM PoolTypeCorrect ==
    Spec => []TypeOK
<1>1. PoolInv => TypeOK
  BY DEF PoolInv
<1> QED BY <1>1, PoolInvHolds, PTL

(* Counts.workers and Counts.idle_workers tell submit the truth, and the   *)
(* pool never passes max_workers.                                          *)
THEOREM CountersAreTrue ==
    Spec => []CountsTrue
<1>1. PoolInv => CountsTrue
  BY DEF PoolInv
<1> QED BY <1>1, PoolInvHolds, PTL

(* Between the arena and the answer a request is neither lost nor doubled. *)
THEOREM RequestsHandedOnOnce ==
    Spec => []HandedOnOnce
<1>1. PoolInv => HandedOnOnce
  BY DEF PoolInv
<1> QED BY <1>1, PoolInvHolds, PTL

(* submit's notification is never lost: its count decides under one mutex, *)
(* the worker goes to sleep under the other.                               *)
THEOREM NotificationsArrive ==
    Spec => []NoLostNotify
<1>1. PoolInv => NoLostNotify
  BY DEF PoolInv, Attended, Awake, NoLostNotify
<1> QED BY <1>1, PoolInvHolds, PTL
=============================================================================
