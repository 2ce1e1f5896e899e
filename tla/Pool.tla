-------------------------------- MODULE Pool --------------------------------
(***************************************************************************)
(* The service side of an exposed function (crates/connector/src/rpc.rs):  *)
(* one reader thread takes requests off the function's arena and hands     *)
(* them to a pool of worker threads, spawned on demand up to max_workers,  *)
(* which run the handler and push the answer to the caller's reply ring.   *)
(*                                                                         *)
(* A step is what a thread does between two points where another thread    *)
(* can see a difference: the queue mutex is a variable, because a worker   *)
(* changes idle_workers (under the other mutex) while it holds it; every   *)
(* section of the state mutex is one step.  A handler that panics answers  *)
(* an error and counts as one that returns.                                *)
(***************************************************************************)
EXTENDS Naturals, Sequences, FiniteSets

CONSTANTS
    Jobs,         \* requests in the arena, taken in any order of arrival
    Held,         \* those whose handler waits and never returns
    Threads,      \* thread names: bound on the threads ever spawned at once
    max_workers,
    NoThread, NoJob

ASSUME PoolAssumption ==
    /\ IsFiniteSet(Jobs) /\ Held \subseteq Jobs /\ IsFiniteSet(Threads)
    /\ max_workers \in Nat \ {0} /\ max_workers <= Cardinality(Threads)
    /\ NoThread \notin Threads /\ NoJob \notin Jobs

VARIABLES
    arena,         \* requests not read yet
    running,       \* the connection's flag
    rpc,           \* reader: "read", "pop", "push", "count", "notify" or "done"
    job,           \* the request in the reader's hands
    queue,         \* Pool.queue
    qlock,         \* holder of the queue's mutex
    workers,       \* Counts.workers
    idle_workers,  \* Counts.idle_workers
    wpc,           \* worker threads, "none" when not running
    wjob,          \* the request a worker serves
    answers,       \* how often each request was answered
    dropped        \* requests whose answer could not be delivered

vars == <<arena, running, rpc, job, queue, qlock, workers, idle_workers, wpc, wjob, answers, dropped>>

Init ==
    /\ arena = Jobs
    /\ running = TRUE
    /\ rpc = "read"
    /\ job = NoJob
    /\ queue = << >>
    /\ qlock = NoThread
    /\ workers = 0
    /\ idle_workers = 0
    /\ wpc = [t \in Threads |-> "none"]
    /\ wjob = [t \in Threads |-> NoJob]
    /\ answers = [j \in Jobs |-> 0]
    /\ dropped = {}

(***************************************************************************)
(* The reader thread: spawn_service's loop and submit.                     *)
(***************************************************************************)
CheckRunning ==
    /\ rpc = "read" /\ running
    /\ rpc' = "pop"
    /\ UNCHANGED <<arena, running, job, queue, qlock, workers, idle_workers, wpc, wjob, answers, dropped>>

(* A request; or none in 100 ms, or a frame that does not decode.          *)
ReadRequest ==
    /\ rpc = "pop"
    /\ \/ /\ \E j \in arena : job' = j /\ arena' = arena \ {j}
          /\ rpc' = "push"
       \/ /\ rpc' = "read"
          /\ UNCHANGED <<arena, job>>
    /\ UNCHANGED <<running, queue, qlock, workers, idle_workers, wpc, wjob, answers, dropped>>

PushJob ==
    /\ rpc = "push" /\ qlock = NoThread
    /\ queue' = Append(queue, job)
    /\ job' = NoJob
    /\ rpc' = "count"
    /\ UNCHANGED <<arena, running, qlock, workers, idle_workers, wpc, wjob, answers, dropped>>

MayAlwaysSpawn == idle_workers = 0 /\ \E t \in Threads : wpc[t] = "none"

MaySpawn == idle_workers = 0 /\ workers < max_workers

(* The decision under the state mutex, and the new thread. *)
CountWorkers ==
    /\ rpc = "count"
    /\ \/ /\ MaySpawn
          /\ workers' = workers + 1
          /\ \E t \in Threads : wpc[t] = "none" /\ wpc' = [wpc EXCEPT ![t] = "lock"]
       \/ /\ ~ MaySpawn
          /\ UNCHANGED <<workers, wpc>>
    /\ rpc' = "notify"
    /\ UNCHANGED <<arena, running, job, queue, qlock, idle_workers, wjob, answers, dropped>>

(* notify_one: some waiting worker, if there is one. *)
Waiting == {t \in Threads : wpc[t] = "waiting"}

NotifyNobody == UNCHANGED wpc

NotifyOne ==
    \/ \E t \in Waiting : wpc' = [wpc EXCEPT ![t] = "woken"]
    \/ Waiting = {} /\ UNCHANGED wpc

Notify ==
    /\ rpc = "notify"
    /\ NotifyOne
    /\ rpc' = "read"
    /\ UNCHANGED <<arena, running, job, queue, qlock, workers, idle_workers, wjob, answers, dropped>>

(* The loop ends with notify_all. *)
ReaderEnds ==
    /\ rpc = "read" /\ ~ running
    /\ rpc' = "done"
    /\ wpc' = [t \in Threads |-> IF wpc[t] = "waiting" THEN "woken" ELSE wpc[t]]
    /\ UNCHANGED <<arena, running, job, queue, qlock, workers, idle_workers, wjob, answers, dropped>>

(***************************************************************************)
(* A worker thread: work.                                                  *)
(***************************************************************************)
LockQueue(t) ==
    /\ wpc[t] = "lock" /\ qlock = NoThread
    /\ qlock' = t
    /\ wpc' = [wpc EXCEPT ![t] = "look"]
    /\ UNCHANGED <<arena, running, rpc, job, queue, workers, idle_workers, wjob, answers, dropped>>

PeekJob == UNCHANGED queue

GoesIdleUncounted == UNCHANGED idle_workers

GoesIdle == idle_workers' = idle_workers + 1

PopFront == queue' = Tail(queue)

(* A job; or the end; or idle, still under the queue's mutex. *)
Look(t) ==
    /\ wpc[t] = "look"
    /\ \/ /\ queue # << >>
          /\ wjob' = [wjob EXCEPT ![t] = Head(queue)]
          /\ PopFront
          /\ qlock' = NoThread
          /\ wpc' = [wpc EXCEPT ![t] = "serve"]
          /\ UNCHANGED idle_workers
       \/ /\ queue = << >> /\ ~ running
          /\ qlock' = NoThread
          /\ wpc' = [wpc EXCEPT ![t] = "exit"]
          /\ UNCHANGED <<queue, idle_workers, wjob>>
       \/ /\ queue = << >> /\ running
          /\ GoesIdle
          /\ wpc' = [wpc EXCEPT ![t] = "park"]
          /\ UNCHANGED <<queue, qlock, wjob>>
    /\ UNCHANGED <<arena, running, rpc, job, workers, answers, dropped>>

(* wait_timeout gives up the mutex and sleeps. *)
Park(t) ==
    /\ wpc[t] = "park"
    /\ qlock' = NoThread
    /\ wpc' = [wpc EXCEPT ![t] = "waiting"]
    /\ UNCHANGED <<arena, running, rpc, job, queue, workers, idle_workers, wjob, answers, dropped>>

WaitTimeout(t) ==
    /\ wpc[t] = "waiting"
    /\ wpc' = [wpc EXCEPT ![t] = "woken"]
    /\ UNCHANGED <<arena, running, rpc, job, queue, qlock, workers, idle_workers, wjob, answers, dropped>>

NoLongerIdle == idle_workers' = idle_workers - 1

(* Awake again with the queue's mutex; then no longer idle. *)
Relock(t) ==
    /\ wpc[t] = "woken" /\ qlock = NoThread
    /\ qlock' = t
    /\ wpc' = [wpc EXCEPT ![t] = "awake"]
    /\ UNCHANGED <<arena, running, rpc, job, queue, workers, idle_workers, wjob, answers, dropped>>

Resume(t) ==
    /\ wpc[t] = "awake"
    /\ NoLongerIdle
    /\ wpc' = [wpc EXCEPT ![t] = "look"]
    /\ UNCHANGED <<arena, running, rpc, job, queue, qlock, workers, wjob, answers, dropped>>

(* The handler returns and send_response delivers the answer, or fails: the*)
(* caller's reply segment is gone, or full for two seconds.                *)
Answer(t) ==
    /\ wpc[t] = "serve" /\ wjob[t] \notin Held
    /\ \/ answers' = [answers EXCEPT ![wjob[t]] = @ + 1] /\ UNCHANGED dropped
       \/ dropped' = dropped \cup {wjob[t]} /\ UNCHANGED answers
    /\ wjob' = [wjob EXCEPT ![t] = NoJob]
    /\ wpc' = [wpc EXCEPT ![t] = "lock"]
    /\ UNCHANGED <<arena, running, rpc, job, queue, qlock, workers, idle_workers>>

Exit(t) ==
    /\ wpc[t] = "exit"
    /\ workers' = workers - 1
    /\ wpc' = [wpc EXCEPT ![t] = "none"]
    /\ UNCHANGED <<arena, running, rpc, job, queue, qlock, idle_workers, wjob, answers, dropped>>

(* Connection's Drop clears the flag. *)
Stop ==
    /\ running
    /\ running' = FALSE
    /\ UNCHANGED <<arena, rpc, job, queue, qlock, workers, idle_workers, wpc, wjob, answers, dropped>>

Reader == CheckRunning \/ ReadRequest \/ PushJob \/ CountWorkers \/ Notify \/ ReaderEnds

Worker(t) ==
    \/ LockQueue(t) \/ Look(t) \/ Park(t) \/ Relock(t) \/ Resume(t) \/ Answer(t) \/ Exit(t)

Next == Reader \/ Stop \/ \E t \in Threads : Worker(t) \/ WaitTimeout(t)

Spec == Init /\ [][Next]_vars

(* Every thread runs, and one that finds the queue's mutex free again and  *)
(* again gets it.  A worker that waits needs a notification: no property   *)
(* below counts on the 200 ms of its wait.                                 *)
Fairness ==
    /\ WF_vars(Reader) /\ SF_vars(PushJob)
    /\ \A t \in Threads : WF_vars(Worker(t)) /\ SF_vars(LockQueue(t) \/ Relock(t))

FairSpec == Spec /\ Fairness

(***************************************************************************)
(* Properties.                                                             *)
(***************************************************************************)
Phases == {"none", "lock", "look", "park", "waiting", "woken", "awake", "serve", "exit"}

TypeOK ==
    /\ arena \subseteq Jobs
    /\ running \in BOOLEAN
    /\ rpc \in {"read", "pop", "push", "count", "notify", "done"}
    /\ job \in Jobs \cup {NoJob}
    /\ queue \in Seq(Jobs)
    /\ qlock \in Threads \cup {NoThread}
    /\ workers \in Nat /\ idle_workers \in Nat
    /\ wpc \in [Threads -> Phases]
    /\ wjob \in [Threads -> Jobs \cup {NoJob}]
    /\ answers \in [Jobs -> Nat]
    /\ dropped \subseteq Jobs

Started(pcs) == {t \in Threads : pcs[t] # "none"}

Idle == {"park", "waiting", "woken", "awake"}

Idling(pcs) == {t \in Threads : pcs[t] \in Idle}

(* The counters are true: workers counts the threads and never passes      *)
(* max_workers, idle_workers those from the moment they found the queue    *)
(* empty until they hold its mutex again.  The decision to spawn rests on  *)
(* both.                                                                   *)
CountsTrue ==
    /\ workers = Cardinality(Started(wpc)) /\ workers <= max_workers
    /\ idle_workers = Cardinality(Idling(wpc))

ServedBy(jobs, j) == {t \in Threads : jobs[t] = j}

Queued(q, j) == {i \in 1..Len(q) : q[i] = j}

(* The places a request is in, and the times it was answered. *)
Places(j) ==
    Cardinality(ServedBy(wjob, j)) + Cardinality(Queued(queue, j))
    + (IF job = j THEN 1 ELSE 0) + (IF j \in arena THEN 1 ELSE 0)
    + (IF j \in dropped THEN 1 ELSE 0) + answers[j]

(* Every request is in one place, and is answered once at the most: the    *)
(* reader, the queue and the workers hand it on without losing or          *)
(* duplicating it.                                                         *)
HandedOnOnce == \A j \in Jobs : Places(j) = 1

(* No notification is lost: with the reader back at its arena and a        *)
(* request in the queue, some worker is awake to look at the queue or will *)
(* be once it has served.                                                  *)
NoLostNotify ==
    running /\ rpc \in {"read", "pop"} /\ queue # << >> =>
        \E t \in Threads : wpc[t] \in {"lock", "look", "woken", "awake", "serve"}

(* Every request read while the connection runs is served in the end,      *)
(* handlers that return provided, without the timeout of a worker's wait.  *)
EveryRequestServed ==
    \A j \in Jobs \ Held : [](running /\ j \notin arena => <>(~ running \/ answers[j] > 0 \/ j \in dropped))

(***************************************************************************)
(* The inductive invariant behind these properties.  The queue's mutex is  *)
(* held by the worker that looks at the queue, goes idle or comes back     *)
(* (LockWord), so the queue of a worker that goes idle stays empty until   *)
(* it waits (IdleOnEmpty).  A request is in a worker's or in the reader's  *)
(* hands exactly in the steps that handle one (InHands).  With a request   *)
(* queued, somebody is awake, or, between the reader's count and its       *)
(* notification, somebody waits for it (Attended).                         *)
(***************************************************************************)
Awake == {"lock", "look", "woken", "awake", "serve"}

LockWord == \A t \in Threads : wpc[t] \in {"look", "park", "awake"} <=> qlock = t

IdleOnEmpty ==
    \A t \in Threads : (wpc[t] = "park" => queue = << >>) /\ (wpc[t] = "exit" => ~ running)

InHands ==
    /\ \A t \in Threads : wjob[t] # NoJob <=> wpc[t] = "serve"
    /\ job # NoJob <=> rpc = "push"

Attended ==
    running /\ queue # << >> =>
        /\ rpc \in {"read", "pop", "push"} => \E t \in Threads : wpc[t] \in Awake
        /\ rpc = "notify" => \E t \in Threads : wpc[t] \in Awake \cup {"waiting"}

PoolInv ==
    /\ TypeOK
    /\ LockWord
    /\ IdleOnEmpty
    /\ InHands
    /\ CountsTrue
    /\ HandedOnOnce
    /\ Attended
=============================================================================
