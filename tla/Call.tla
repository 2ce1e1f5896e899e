-------------------------------- MODULE Call --------------------------------
(***************************************************************************)
(* The caller's side of an RPC: Connection::call and call_blocking         *)
(* (crates/connector/src/lib.rs), the cache of resolved callees and the    *)
(* reply slots (client.rs), CallFuture and block_on (rpc.rs), for one      *)
(* function.  The threads of one connection call it; the process that      *)
(* exposes it may die, and another expose it again on a new arena and with *)
(* another interface.  The broker stays up, so that with_reconnect hands   *)
(* every error on (see Connector for the rest of it).                      *)
(*                                                                         *)
(* Arenas are numbered; an interface is one fingerprint.  Every access of  *)
(* a shared table, slot or flag is a step of its own.                      *)
(***************************************************************************)
EXTENDS Naturals, FiniteSets

CONSTANTS
    Callers,     \* threads
    None,
    Fps,         \* interfaces the function may be exposed with
    MyFp,        \* the one the callers are compiled against
    ArenaCap,    \* requests an arena holds
    MaxCalls,    \* bound on the calls of a thread
    MaxMoves,    \* bound on re-exposures
    MaxFaults    \* bound on timeouts of calls that were still to be answered

ASSUME CallAssumption ==
    /\ IsFiniteSet(Callers) /\ MyFp \in Fps
    /\ None \notin [arena : Nat, fp : Fps] /\ None \notin Callers \X Nat \X Nat
    /\ ArenaCap \in Nat \ {0} /\ {MaxCalls, MaxMoves, MaxFaults} \subseteq Nat

VARIABLES
    exposed,   \* what the broker answers a lookup: an arena and its interface
    served,    \* the callee reads the arena
    cache,     \* Inner.callees, for this function
    arena,     \* requests in each arena
    replies,   \* responses in the connection's reply ring
    pending,   \* Inner.pending
    th,        \* the callers
    disp,      \* the slot the dispatcher completes, and how far it is
    runs,      \* how often the handler ran for each call (history)
    faults

vars == <<exposed, served, cache, arena, replies, pending, th, disp, runs, faults>>

Arenas == 1..(MaxMoves + 1)

(* A caller: its attempt, the callee it resolved, its slot (a frame, a     *)
(* waker), its ThreadWaker and park token, and how the last call ended.    *)
(* calm: since the call began the callee has been there, and nothing else  *)
(* has gone wrong (history).                                               *)
Caller == [pc |-> "idle", call |-> 0, attempt |-> 0, refetch |-> FALSE, callee |-> None,
           frame |-> FALSE, waker |-> FALSE, notified |-> FALSE, token |-> FALSE,
           expired |-> FALSE, result |-> None, calm |-> FALSE]

Init ==
    /\ exposed = [arena |-> 1, fp |-> MyFp] /\ served = TRUE
    /\ cache = None
    /\ arena = [a \in Arenas |-> {}]
    /\ replies = {} /\ pending = {}
    /\ th = [u \in Callers |-> Caller]
    /\ disp = [corr |-> None, pc |-> "pop"]
    /\ runs = [u \in Callers |-> [n \in 1..MaxCalls |-> 0]]
    /\ faults = 0

At(u, pc) == th[u].pc = pc

Go(u, pc) == th' = [th EXCEPT ![u].pc = pc]

(* next_corr: one for each attempt. *)
Corr(u) == <<u, th[u].call, th[u].attempt>>

(***************************************************************************)
(* The callee's process, the broker and the service (Broker, Pool).        *)
(***************************************************************************)
Disturbed(u) == [th[u] EXCEPT !.calm = FALSE]

Die ==
    /\ served /\ exposed.arena < MaxMoves + 1
    /\ served' = FALSE
    /\ th' = [u \in Callers |-> Disturbed(u)]
    /\ UNCHANGED <<exposed, cache, arena, replies, pending, disp, runs, faults>>

(* The broker reclaims the dead owner's arena and makes a new one. *)
Reexpose ==
    /\ ~ served
    /\ \E fp \in Fps : exposed' = [arena |-> exposed.arena + 1, fp |-> fp]
    /\ served' = TRUE
    /\ th' = [u \in Callers |-> Disturbed(u)]
    /\ UNCHANGED <<cache, arena, replies, pending, disp, runs, faults>>

Respond ==
    /\ served
    /\ \E r \in arena[exposed.arena] :
          /\ arena' = [arena EXCEPT ![exposed.arena] = @ \ {r}]
          /\ replies' = replies \cup {r}
          /\ runs' = [runs EXCEPT ![r[1]][r[2]] = @ + 1]
    /\ UNCHANGED <<exposed, served, cache, pending, th, disp, faults>>

(***************************************************************************)
(* matching_callee: callee, and once more if the interface is not ours.    *)
(***************************************************************************)
callTables == <<exposed, served, arena, replies, disp, runs>>

Begin(u) ==
    /\ At(u, "idle") /\ th[u].call < MaxCalls
    /\ th' = [th EXCEPT ![u] = [Caller EXCEPT !.pc = "cache", !.call = th[u].call + 1, !.attempt = 1,
                                              !.token = th[u].token, !.calm = served /\ exposed.fp = MyFp]]
    /\ UNCHANGED <<callTables, cache, pending, faults>>

LookInCache(u) ==
    /\ At(u, "cache")
    /\ th' = [th EXCEPT ![u] = [@ EXCEPT !.pc = IF cache = None THEN "lookup" ELSE "match", !.callee = cache]]
    /\ UNCHANGED <<callTables, cache, pending, faults>>

(* do_lookup; the cache is not locked meanwhile. *)
Lookup(u) ==
    /\ At(u, "lookup")
    /\ th' = [th EXCEPT ![u] = [@ EXCEPT !.pc = "open", !.callee = exposed]]
    /\ UNCHANGED <<callTables, cache, pending, faults>>

Return(u, result) ==
    [Caller EXCEPT !.call = th[u].call, !.result = result, !.token = th[u].token,
                   !.calm = th[u].calm]

(* Segment::open: not there any more if the function was exposed anew. *)
Open(u) ==
    /\ At(u, "open")
    /\ th' = [th EXCEPT ![u] = IF th[u].callee.arena = exposed.arena
                               THEN [@ EXCEPT !.pc = "insert"] ELSE Return(u, "unreachable")]
    /\ UNCHANGED <<callTables, cache, pending, faults>>

(* A callee resolved before the function moved may be entered after it     *)
(* did; it is what the other callers then find.                            *)
Insert(u) ==
    /\ At(u, "insert")
    /\ cache' = th[u].callee
    /\ th' = [v \in Callers |->
                 CASE v = u -> [th[u] EXCEPT !.pc = "match"]
                   [] v # u /\ th[u].callee # exposed -> Disturbed(v)
                   [] OTHER -> th[v]]
    /\ UNCHANGED <<callTables, pending, faults>>

ForgetsNothing == UNCHANGED cache

forget_callee == cache' = None

Match(u) ==
    /\ At(u, "match")
    /\ \/ /\ th[u].callee.fp = MyFp
          /\ Go(u, "slot")
          /\ UNCHANGED cache
       \/ /\ th[u].callee.fp # MyFp /\ ~ th[u].refetch
          /\ forget_callee
          /\ th' = [th EXCEPT ![u] = [@ EXCEPT !.pc = "cache", !.refetch = TRUE]]
       \/ /\ th[u].callee.fp # MyFp /\ th[u].refetch
          /\ th' = [th EXCEPT ![u] = Return(u, "mismatch")]
          /\ UNCHANGED cache
    /\ UNCHANGED <<callTables, pending, faults>>

(***************************************************************************)
(* call: the slot, the request; a full arena may be a dead one.            *)
(***************************************************************************)
register(u) ==
    /\ At(u, "slot")
    /\ pending' = pending \cup {Corr(u)}
    /\ Go(u, "push")
    /\ UNCHANGED <<callTables, cache, faults>>

Push(u) ==
    /\ At(u, "push")
    /\ LET a == th[u].callee.arena
       IN  IF Cardinality(arena[a]) < ArenaCap
           THEN /\ arena' = [arena EXCEPT ![a] = @ \cup {Corr(u)}]
                /\ Go(u, "poll")
           ELSE /\ Go(u, "full")
                /\ UNCHANGED arena
    /\ UNCHANGED <<exposed, served, cache, replies, pending, disp, runs, faults>>

KeepsSlot(u) == UNCHANGED pending

drop_pending(u) == pending' = pending \ {Corr(u)}

Full(u) ==
    /\ At(u, "full")
    /\ drop_pending(u)
    /\ Go(u, "forget full")
    /\ UNCHANGED <<callTables, cache, faults>>

ForgetFull(u) ==
    /\ At(u, "forget full")
    /\ forget_callee
    /\ th' = [th EXCEPT ![u] = Return(u, "full")]
    /\ UNCHANGED <<callTables, pending, faults>>

(***************************************************************************)
(* block_on.  Slot::poll and Slot::complete exclude each other.            *)
(***************************************************************************)
Completing(u) == disp.pc \in {"wake", "unpark"} /\ disp.corr = Corr(u)

LeavesNoWaker(s) == s

LeavesWaker(s) == [s EXCEPT !.waker = TRUE]

(* The answer, and the future is dropped; or the waker is in the slot. *)
Poll(u) ==
    /\ At(u, "poll") /\ ~ Completing(u)
    /\ \/ /\ th[u].frame
          /\ drop_pending(u)
          /\ th' = [th EXCEPT ![u] = Return(u, "ok")]
       \/ /\ ~ th[u].frame
          /\ th' = [th EXCEPT ![u] = LeavesWaker([@ EXCEPT !.pc = "deadline"])]
          /\ UNCHANGED pending
    /\ UNCHANGED <<callTables, cache, faults>>

(* The deadline; then notified.swap(false), and to sleep if it was not set. *)
Deadline(u) ==
    /\ At(u, "deadline")
    /\ th' = [th EXCEPT ![u] = CASE @.expired -> [@ EXCEPT !.pc = "abandon"]
                                 [] ~ @.expired /\ @.notified -> [@ EXCEPT !.pc = "poll", !.notified = FALSE]
                                 [] OTHER -> [@ EXCEPT !.pc = "park"]]
    /\ UNCHANGED <<callTables, cache, pending, faults>>

ParksForToken(u) == th[u].token

(* park_timeout: the token, or the time. *)
ParkReturns(u) == th[u].token \/ th[u].expired

Unparked(u) ==
    /\ At(u, "park") /\ ParkReturns(u)
    /\ th' = [th EXCEPT ![u].token = FALSE, ![u].pc = "poll"]
    /\ UNCHANGED <<callTables, cache, pending, faults>>

(* The deadline passes: no answer can come; or it was on its way. *)
InFlight(u) ==
    \/ th[u].frame \/ disp.corr = Corr(u) \/ Corr(u) \in replies
    \/ served /\ Corr(u) \in arena[exposed.arena]

Expire(u) ==
    /\ th[u].pc \in {"poll", "deadline", "park"} /\ ~ th[u].expired
    /\ \/ ~ InFlight(u) /\ UNCHANGED faults /\ th' = [th EXCEPT ![u].expired = TRUE]
       \/ /\ InFlight(u) /\ faults < MaxFaults /\ faults' = faults + 1
          /\ th' = [th EXCEPT ![u].expired = TRUE, ![u].calm = FALSE]
    /\ UNCHANGED <<callTables, cache, pending>>

AlwaysOnceMore(u) == TRUE

OnceMore(u) == th[u].attempt = 1

Abandon(u) ==
    /\ At(u, "abandon")
    /\ drop_pending(u)
    /\ th' = [th EXCEPT ![u] = IF OnceMore(u) THEN [@ EXCEPT !.pc = "forget"]
                               ELSE Return(u, "timed out")]
    /\ UNCHANGED <<callTables, cache, faults>>

(* call_blocking: silence may mean a callee that moved; once more. *)
SecondAttempt(u) ==
    /\ At(u, "forget")
    /\ forget_callee
    /\ th' = [th EXCEPT ![u] = [Caller EXCEPT !.pc = "cache", !.call = th[u].call,
                                              !.attempt = th[u].attempt + 1, !.token = th[u].token, !.calm = th[u].calm]]
    /\ UNCHANGED <<callTables, pending, faults>>

(***************************************************************************)
(* run_dispatcher and Slot::complete: the frame and the waker under the    *)
(* slot's mutex; the waker sets its flag, then unparks the thread.         *)
(***************************************************************************)
WaiterOf(c) == {u \in Callers : Corr(u) = c}

Dispatch ==
    /\ disp.pc = "pop"
    /\ \E c \in replies :
          /\ replies' = replies \ {c}
          /\ pending' = pending \ {c}
          /\ disp' = IF c \in pending THEN [corr |-> c, pc |-> "complete"] ELSE disp
    /\ UNCHANGED <<exposed, served, cache, arena, th, runs, faults>>

(* Nobody waits for the slot any more, or its caller does. *)
Complete ==
    /\ disp.pc = "complete"
    /\ th' = [u \in Callers |-> IF u \in WaiterOf(disp.corr)
                                THEN [th[u] EXCEPT !.frame = TRUE] ELSE th[u]]
    /\ disp' = IF \E u \in WaiterOf(disp.corr) : th[u].waker
               THEN [disp EXCEPT !.pc = "wake"] ELSE [corr |-> None, pc |-> "pop"]
    /\ UNCHANGED <<exposed, served, cache, arena, replies, pending, runs, faults>>

Wake ==
    /\ disp.pc = "wake"
    /\ th' = [u \in Callers |-> IF u \in WaiterOf(disp.corr)
                                THEN [th[u] EXCEPT !.notified = TRUE, !.waker = FALSE] ELSE th[u]]
    /\ disp' = [disp EXCEPT !.pc = "unpark"]
    /\ UNCHANGED <<exposed, served, cache, arena, replies, pending, runs, faults>>

Unpark ==
    /\ disp.pc = "unpark"
    /\ th' = [th EXCEPT ![disp.corr[1]].token = TRUE]
    /\ disp' = [corr |-> None, pc |-> "pop"]
    /\ UNCHANGED <<exposed, served, cache, arena, replies, pending, runs, faults>>

(***************************************************************************)
(* The specification.                                                      *)
(***************************************************************************)
Step(u) ==
    \/ LookInCache(u) \/ Lookup(u) \/ Open(u) \/ Insert(u) \/ Match(u)
    \/ register(u) \/ Push(u) \/ Full(u) \/ ForgetFull(u)
    \/ Poll(u) \/ Deadline(u) \/ Unparked(u)
    \/ Abandon(u) \/ SecondAttempt(u)

Dispatcher == Dispatch \/ Complete \/ Wake \/ Unpark

Next ==
    \/ Die \/ Reexpose \/ Respond \/ Dispatcher
    \/ \E u \in Callers : Begin(u) \/ Step(u) \/ Expire(u)

Spec == Init /\ [][Next]_vars

(* Threads run, time passes, and a callee that is there answers; nobody    *)
(* has to call, and nobody has to expose a function again.                 *)
FairSpec ==
    /\ Spec
    /\ WF_vars(Respond) /\ WF_vars(Dispatcher)
    /\ \A u \in Callers : WF_vars(Step(u)) /\ WF_vars(Expire(u))

(***************************************************************************)
(* Properties.                                                             *)
(***************************************************************************)
Callees == [arena : Arenas, fp : Fps]

Corrs == Callers \X (0..MaxCalls) \X (0..2)

CallerType ==
    [pc : {"idle", "cache", "lookup", "open", "insert", "match", "slot", "push", "full",
           "forget full", "poll", "deadline", "park", "abandon", "forget"},
     call : 0..MaxCalls, attempt : 0..2, refetch : BOOLEAN, callee : Callees \cup {None},
     frame : BOOLEAN, waker : BOOLEAN, notified : BOOLEAN, token : BOOLEAN, expired : BOOLEAN,
     result : {None, "ok", "full", "mismatch", "unreachable", "timed out"}, calm : BOOLEAN]

(* The shape of the state. *)
TypeOK ==
    /\ exposed \in Callees /\ served \in BOOLEAN
    /\ cache \in Callees \cup {None}
    /\ arena \in [Arenas -> SUBSET Corrs] /\ \A a \in Arenas : Cardinality(arena[a]) <= ArenaCap
    /\ replies \subseteq Corrs /\ pending \subseteq Corrs
    /\ th \in [Callers -> CallerType]
    /\ disp \in [corr : Corrs \cup {None}, pc : {"pop", "complete", "wake", "unpark"}]
    /\ runs \in [Callers -> [1..MaxCalls -> Nat]] /\ faults \in 0..MaxFaults

Slotted == {"push", "full", "poll", "deadline", "park", "abandon"}

(* Inner.pending holds the slots of the attempts under way, however they   *)
(* end: answered, refused by a full arena, or abandoned and then answered  *)
(* late.                                                                   *)
AbandonedSlotsFreed ==
    pending \subseteq {Corr(u) : u \in {v \in Callers : th[v].pc \in Slotted}}

(* A thread does not stay parked on an answer that is in its slot: the     *)
(* token is there, or the dispatcher is on its way to set it.              *)
NoLostUnpark ==
    \A u \in Callers :
        At(u, "park") /\ th[u].frame => ParkReturns(u) \/ Completing(u)

(* A stale resolution costs a call its first attempt at most: with the     *)
(* callee in place from the call's beginning and answering in time, the    *)
(* call is answered, or told that an arena is full, and no old arena or    *)
(* interface in the cache makes it fail; and its handler runs once, for    *)
(* all that the call is made a second time.  Excepted is the call into     *)
(* which another caller, slow with its own lookup, put the old arena back. *)
CalmCallsAnswered ==
    \A u \in Callers : th[u].calm =>
        /\ th[u].result \in {None, "ok", "full"}
        /\ th[u].call > 0 => runs[u][th[u].call] <= 1

(* Every call returns, answered or not. *)
CallsReturn == \A u \in Callers : []<>At(u, "idle")

(***************************************************************************)
(* The inductive invariant behind these properties.  A caller between its  *)
(* poll and its park has left its waker, or has been told (Told).  Arenas  *)
(* are not reused, so a resolution that names the current arena is the     *)
(* current one (Resolved).  A correlation id is in the arenas and on the   *)
(* way back only once its attempt has been pushed (Fresh).  And a calm     *)
(* call (Calm) resolves anew what the cache had wrong; what it pushes to   *)
(* the callee that is there stays on its way, is pushed once and comes     *)
(* back.                                                                   *)
(***************************************************************************)
Polling == {"poll", "deadline", "park"}

Unsent == {"cache", "lookup", "open", "insert", "match", "slot", "push"}

HasCallee == {"open", "insert", "match", "slot", "push", "full", "forget full",
              "poll", "deadline", "park", "abandon"}

Shape ==
    /\ \A u \in Callers :
          /\ th[u].pc \in HasCallee => th[u].callee # None
          /\ th[u].pc # "idle" => th[u].call > 0 /\ th[u].attempt > 0
          /\ th[u].pc = "forget" => th[u].attempt = 1
          /\ th[u].pc \in Unsent => ~ th[u].expired
    /\ disp.pc = "pop" <=> disp.corr = None
    /\ ~ served => exposed.arena <= MaxMoves
    /\ \A a \in Arenas : IsFiniteSet(arena[a])

ToldAt(u) ==
    /\ th[u].pc \in {"deadline", "park"} /\ ~ th[u].frame => th[u].waker
    /\ At(u, "deadline") /\ th[u].frame =>
           th[u].notified \/ (disp.pc = "wake" /\ disp.corr = Corr(u))
    /\ At(u, "park") /\ th[u].frame => th[u].token \/ Completing(u)

Told == \A u \in Callers : ToldAt(u)

Framed == \A u \in Callers : Completing(u) /\ ~ At(u, "idle") => th[u].frame

Current(e) == e.arena <= exposed.arena /\ (e.arena = exposed.arena => e = exposed)

Resolved ==
    /\ cache # None => Current(cache)
    /\ \A u \in Callers : th[u].callee # None => Current(th[u].callee)

(* The correlation ids of the requests and of the answers under way. *)
Ids == {c \in Corrs : c \in replies \/ c = disp.corr \/ \E a \in Arenas : c \in arena[a]}

Fresh ==
    /\ \A u \in Callers, c \in Ids :
          c[1] = u => /\ c[2] \in 1..th[u].call
                      /\ c[2] = th[u].call /\ ~ At(u, "idle") => c[3] <= th[u].attempt
                      /\ c[2] = th[u].call /\ th[u].pc \in Unsent => c[3] < th[u].attempt
    /\ \A u \in Callers : \A n \in (th[u].call + 1)..MaxCalls : runs[u][n] = 0

Registered == \A u \in Callers : At(u, "push") => Corr(u) \in pending

(* The requests of a caller's current call that the callee will read. *)
Mine(u) == {c \in arena[exposed.arena] : c[1] = u /\ c[2] = th[u].call}

Sent(u) == th[u].pc \in Polling /\ th[u].callee = exposed

OnItsWay(u) ==
    \/ th[u].frame
    \/ disp.pc = "complete" /\ disp.corr = Corr(u)
    \/ Corr(u) \in pending /\ Corr(u) \in replies \cup arena[exposed.arena]

RunsOnce(u) ==
    \/ runs[u][th[u].call] = 0 /\ \A c, d \in Mine(u) : c = d
    \/ runs[u][th[u].call] = 1 /\ Mine(u) = {}

Again(u) == th[u].refetch \/ th[u].attempt = 2

(* The callee is there, and a caller that looked it up once more has it.   *)
CalmCallee(u) ==
    /\ served /\ exposed.fp = MyFp /\ th[u].call > 0
    /\ th[u].result \in {None, "ok", "full"}
    /\ Again(u) => cache \in {None, exposed}
    /\ th[u].pc \in {"open", "insert"} \/ (th[u].pc \in HasCallee /\ Again(u))
           => th[u].callee = exposed
    /\ At(u, "abandon") => th[u].callee # exposed

CalmAnswer(u) == Sent(u) => ~ th[u].expired /\ OnItsWay(u)

CalmRuns(u) ==
    /\ ~ At(u, "idle") /\ ~ Sent(u) => runs[u][th[u].call] = 0 /\ Mine(u) = {}
    /\ At(u, "idle") \/ Sent(u) => RunsOnce(u)

Calm == \A u \in Callers : th[u].calm => CalmCallee(u) /\ CalmAnswer(u) /\ CalmRuns(u)

CallInv ==
    /\ TypeOK
    /\ Shape
    /\ AbandonedSlotsFreed /\ Registered
    /\ Told /\ Framed
    /\ Resolved
    /\ Fresh
    /\ Calm
=============================================================================
