----------------------------- MODULE CallProofs -----------------------------
(***************************************************************************)
(* Proofs about Call, for any set of callers, of arenas and of interfaces  *)
(* and any number of calls, moves and timeouts.                            *)
(***************************************************************************)
EXTENDS Call, FiniteSetTheorems, TLAPS

(***************************************************************************)
(* What a step does to its caller.                                         *)
(***************************************************************************)
Pcs == {"idle", "cache", "lookup", "open", "insert", "match", "slot", "push", "full",
        "forget full", "poll", "deadline", "park", "abandon", "forget"}

Results == {None, "ok", "full", "mismatch", "unreachable", "timed out"}

(* The other callers stay where they are. *)
Alone(u) ==
    /\ th' \in [Callers -> CallerType]
    /\ \A v \in Callers \ {u} : th'[v] = th[v]

(* The caller stays in its attempt, with its resolution and its slot. *)
SameAttempt(u) ==
    /\ th'[u].call = th[u].call /\ th'[u].attempt = th[u].attempt
    /\ th'[u].frame = th[u].frame /\ th'[u].result = th[u].result

SameCallee(u) ==
    th'[u].callee = th[u].callee /\ th'[u].refetch = th[u].refetch

SameFlags(u) ==
    /\ th'[u].notified = th[u].notified /\ th'[u].token = th[u].token
    /\ th'[u].waker = th[u].waker

SameClock(u) ==
    th'[u].expired = th[u].expired /\ th'[u].calm = th[u].calm

MovedTo(u, p) ==
    Alone(u) /\ th'[u].pc = p /\ SameAttempt(u) /\ SameCallee(u) /\ SameFlags(u) /\ SameClock(u)

(* The caller has resolved the function. *)
ResolvedTo(u, p, c) ==
    /\ Alone(u) /\ th'[u].pc = p /\ SameAttempt(u) /\ th'[u].callee = c
    /\ th'[u].refetch = th[u].refetch /\ SameFlags(u) /\ SameClock(u)

Afresh(u) ==
    /\ ~ th'[u].refetch /\ th'[u].callee = None /\ ~ th'[u].frame /\ ~ th'[u].waker
    /\ ~ th'[u].notified /\ th'[u].token = th[u].token /\ ~ th'[u].expired

Returned(u, res) ==
    /\ Alone(u) /\ Afresh(u)
    /\ th'[u].pc = "idle" /\ th'[u].call = th[u].call /\ th'[u].attempt = 0
    /\ th'[u].result = res /\ th'[u].calm = th[u].calm

(* An attempt begins. *)
Started(u, n, a, b) ==
    /\ Alone(u) /\ Afresh(u)
    /\ th'[u].pc = "cache" /\ th'[u].call = n /\ th'[u].attempt = a
    /\ th'[u].result = None /\ th'[u].calm = b

(* The caller looks the function up once more. *)
Refetching(u) ==
    /\ Alone(u) /\ th'[u].pc = "cache" /\ SameAttempt(u) /\ th'[u].callee = th[u].callee
    /\ th'[u].refetch = TRUE /\ SameFlags(u) /\ SameClock(u)

(* Only the caller's calm ends. *)
Unmoved(u) ==
    /\ th'[u].pc = th[u].pc /\ SameAttempt(u) /\ SameCallee(u) /\ SameFlags(u)
    /\ th'[u].expired = th[u].expired /\ ~ th'[u].calm

(* A step of block_on. *)
Steps(u, p, w, n, t, e, b) ==
    /\ Alone(u) /\ th'[u].pc = p /\ SameAttempt(u) /\ SameCallee(u)
    /\ th'[u].waker = w /\ th'[u].notified = n /\ th'[u].token = t
    /\ th'[u].expired = e /\ th'[u].calm = b

(* A caller's fields have their types. *)
LEMMA CallerFields ==
    ASSUME NEW r \in CallerType
    PROVE  /\ r.pc \in Pcs /\ r.call \in 0..MaxCalls /\ r.attempt \in 0..2
           /\ r.callee \in Callees \cup {None} /\ r.result \in Results
           /\ r.refetch \in BOOLEAN /\ r.frame \in BOOLEAN /\ r.waker \in BOOLEAN
           /\ r.notified \in BOOLEAN /\ r.token \in BOOLEAN /\ r.expired \in BOOLEAN
           /\ r.calm \in BOOLEAN
  BY DEF CallerType, Pcs, Results

LEMMA CalleeFields ==
    ASSUME NEW e \in Callees
    PROVE  e # None /\ e.arena \in Arenas /\ e.arena \in Nat /\ e.fp \in Fps
<1>1. e.arena \in Nat /\ e.fp \in Fps /\ e \in [arena : Nat, fp : Fps]
  BY DEF Callees, Arenas
<1> QED BY <1>1, CallAssumption DEF Callees

LEMMA IdleCaller == Caller \in CallerType
  BY CallAssumption DEF CallerType, Caller

LEMMA OneCaller ==
    ASSUME TypeOK, NEW u \in Callers, NEW r \in CallerType, th' = [th EXCEPT ![u] = r]
    PROVE  Alone(u) /\ th'[u] = r
  BY DEF TypeOK, Alone

(* Go. *)
LEMMA Moving ==
    ASSUME TypeOK, NEW u \in Callers, NEW p \in Pcs, th' = [th EXCEPT ![u].pc = p]
    PROVE  MovedTo(u, p)
<1> DEFINE r == [th[u] EXCEPT !.pc = p]
<1>1. th[u] \in CallerType
  BY DEF TypeOK
<1>2. r \in CallerType
  BY <1>1 DEF CallerType, Pcs
<1>3. Alone(u) /\ th'[u] = r
  <2>1. th' = [th EXCEPT ![u] = r]
    OBVIOUS
  <2> HIDE DEF r
  <2> QED BY <1>2, <2>1, OneCaller
<1>4. /\ r.pc = p /\ r.call = th[u].call /\ r.attempt = th[u].attempt /\ r.frame = th[u].frame
      /\ r.result = th[u].result /\ r.callee = th[u].callee /\ r.refetch = th[u].refetch
      /\ r.notified = th[u].notified /\ r.token = th[u].token /\ r.waker = th[u].waker
      /\ r.expired = th[u].expired /\ r.calm = th[u].calm
  OBVIOUS
<1> HIDE DEF r
<1> QED BY <1>3, <1>4 DEF MovedTo, SameAttempt, SameCallee, SameFlags, SameClock

LEMMA Resolving ==
    ASSUME TypeOK, NEW u \in Callers, NEW p \in Pcs, NEW c \in Callees \cup {None},
           th' = [th EXCEPT ![u] = [@ EXCEPT !.pc = p, !.callee = c]]
    PROVE  ResolvedTo(u, p, c)
<1> DEFINE r == [th[u] EXCEPT !.pc = p, !.callee = c]
<1>1. th[u] \in CallerType
  BY DEF TypeOK
<1>2. r \in CallerType
  BY <1>1 DEF CallerType, Pcs
<1>3. Alone(u) /\ th'[u] = r
  <2>1. th' = [th EXCEPT ![u] = r]
    OBVIOUS
  <2> HIDE DEF r
  <2> QED BY <1>2, <2>1, OneCaller
<1>4. /\ r.pc = p /\ r.call = th[u].call /\ r.attempt = th[u].attempt /\ r.frame = th[u].frame
      /\ r.result = th[u].result /\ r.callee = c /\ r.refetch = th[u].refetch
      /\ r.notified = th[u].notified /\ r.token = th[u].token /\ r.waker = th[u].waker
      /\ r.expired = th[u].expired /\ r.calm = th[u].calm
  OBVIOUS
<1> HIDE DEF r
<1> QED BY <1>3, <1>4 DEF ResolvedTo, SameAttempt, SameFlags, SameClock

LEMMA Refetch ==
    ASSUME TypeOK, NEW u \in Callers,
           th' = [th EXCEPT ![u] = [@ EXCEPT !.pc = "cache", !.refetch = TRUE]]
    PROVE  Refetching(u)
<1> DEFINE r == [th[u] EXCEPT !.pc = "cache", !.refetch = TRUE]
<1>1. th[u] \in CallerType
  BY DEF TypeOK
<1>2. r \in CallerType
  BY <1>1 DEF CallerType
<1>3. Alone(u) /\ th'[u] = r
  <2>1. th' = [th EXCEPT ![u] = r]
    OBVIOUS
  <2> HIDE DEF r
  <2> QED BY <1>2, <2>1, OneCaller
<1>4. /\ r.pc = "cache" /\ r.call = th[u].call /\ r.attempt = th[u].attempt /\ r.frame = th[u].frame
      /\ r.result = th[u].result /\ r.callee = th[u].callee /\ r.refetch = TRUE
      /\ r.notified = th[u].notified /\ r.token = th[u].token /\ r.waker = th[u].waker
      /\ r.expired = th[u].expired /\ r.calm = th[u].calm
  OBVIOUS
<1> HIDE DEF r
<1> QED BY <1>3, <1>4 DEF Refetching, SameAttempt, SameFlags, SameClock

(* A call or its second attempt begins. *)
LEMMA Starting ==
    ASSUME TypeOK, NEW u \in Callers, NEW n \in 0..MaxCalls, NEW a \in 0..2, NEW b \in BOOLEAN,
           th' = [th EXCEPT ![u] = [Caller EXCEPT !.pc = "cache", !.call = n, !.attempt = a,
                                                  !.token = th[u].token, !.calm = b]]
    PROVE  Started(u, n, a, b)
<1> DEFINE r == [Caller EXCEPT !.pc = "cache", !.call = n, !.attempt = a, !.token = th[u].token, !.calm = b]
<1>1. th[u] \in CallerType
  BY DEF TypeOK
<1>2. r \in CallerType
  BY <1>1, IdleCaller DEF CallerType
<1>3. Alone(u) /\ th'[u] = r
  <2>1. th' = [th EXCEPT ![u] = r]
    OBVIOUS
  <2> HIDE DEF r
  <2> QED BY <1>2, <2>1, OneCaller
<1>4. /\ r.pc = "cache" /\ r.call = n /\ r.attempt = a /\ r.frame = FALSE /\ r.result = None
      /\ r.callee = None /\ r.refetch = FALSE /\ r.notified = FALSE /\ r.token = th[u].token
      /\ r.waker = FALSE /\ r.expired = FALSE /\ r.calm = b
  BY DEF Caller
<1> HIDE DEF r
<1> QED BY <1>3, <1>4 DEF Started, Afresh

(* A call returns. *)
LEMMA Returning ==
    ASSUME TypeOK, NEW u \in Callers, NEW res \in Results, th' = [th EXCEPT ![u] = Return(u, res)]
    PROVE  Returned(u, res)
<1>1. th[u] \in CallerType
  BY DEF TypeOK
<1>2. Return(u, res) \in CallerType
  BY <1>1, IdleCaller DEF Return, CallerType, Results
<1>3. Alone(u) /\ th'[u] = Return(u, res)
  BY <1>2, OneCaller
<1>4. /\ Return(u, res).pc = "idle" /\ Return(u, res).call = th[u].call
      /\ Return(u, res).attempt = 0 /\ Return(u, res).refetch = FALSE
      /\ Return(u, res).callee = None /\ Return(u, res).frame = FALSE
      /\ Return(u, res).waker = FALSE /\ Return(u, res).notified = FALSE
      /\ Return(u, res).token = th[u].token /\ Return(u, res).expired = FALSE
      /\ Return(u, res).result = res /\ Return(u, res).calm = th[u].calm
  BY DEF Return, Caller
<1> QED BY <1>3, <1>4 DEF Returned, Afresh

LEMMA DisturbedType ==
    ASSUME TypeOK, NEW u \in Callers
    PROVE  Disturbed(u) \in CallerType
<1>1. th[u] \in CallerType
  BY DEF TypeOK
<1> QED BY <1>1 DEF Disturbed, CallerType

LEMMA DisturbedUnmoved ==
    ASSUME TypeOK, NEW u \in Callers, th'[u] = Disturbed(u)
    PROVE  Unmoved(u)
<1> DEFINE r == [th[u] EXCEPT !.calm = FALSE]
<1>1. th[u] \in CallerType /\ th'[u] = r
  BY DEF TypeOK, Disturbed
<1>2. /\ r.pc = th[u].pc /\ r.call = th[u].call /\ r.attempt = th[u].attempt /\ r.frame = th[u].frame
      /\ r.result = th[u].result /\ r.callee = th[u].callee /\ r.refetch = th[u].refetch
      /\ r.notified = th[u].notified /\ r.token = th[u].token /\ r.waker = th[u].waker
      /\ r.expired = th[u].expired /\ r.calm = FALSE
  OBVIOUS
<1> HIDE DEF r
<1> QED BY <1>1, <1>2 DEF Unmoved, SameAttempt, SameCallee, SameFlags

(* A step of block_on changes the program counter and the flags. *)
LEMMA Stepping ==
    ASSUME TypeOK, NEW u \in Callers, NEW r \in CallerType, th' = [th EXCEPT ![u] = r],
           r.call = th[u].call, r.attempt = th[u].attempt, r.frame = th[u].frame,
           r.result = th[u].result, r.callee = th[u].callee, r.refetch = th[u].refetch
    PROVE  Steps(u, r.pc, r.waker, r.notified, r.token, r.expired, r.calm)
<1>1. Alone(u) /\ th'[u] = r
  BY OneCaller
<1> QED BY <1>1 DEF Steps, SameAttempt, SameCallee

(* Correlation ids name their caller, its call and its attempt. *)
LEMMA CorrIds ==
    ASSUME TypeOK, NEW u \in Callers
    PROVE  /\ Corr(u) \in Corrs
           /\ Corr(u)[1] = u /\ Corr(u)[2] = th[u].call /\ Corr(u)[3] = th[u].attempt
<1>1. th[u] \in CallerType
  BY DEF TypeOK
<1> QED BY <1>1, CallerFields DEF Corr, Corrs

LEMMA CorrFields ==
    ASSUME NEW c \in Corrs
    PROVE  /\ c[1] \in Callers /\ c[2] \in 0..MaxCalls /\ c[3] \in 0..2
           /\ c = <<c[1], c[2], c[3]>>
  BY DEF Corrs

LEMMA CorrsApart ==
    ASSUME TypeOK, NEW u \in Callers
    PROVE  \A v \in Callers \ {u} : Corr(v) # Corr(u)
  BY CorrIds

LEMMA NoneIsNoId == None \notin Corrs
<1>1. Corrs \subseteq Callers \X Nat \X Nat
  BY DEF Corrs
<1> QED BY <1>1, CallAssumption

LEMMA IdsInType ==
    ASSUME TypeOK
    PROVE  /\ Ids \subseteq Corrs /\ replies \subseteq Ids
           /\ \A a \in Arenas : arena[a] \subseteq Ids
           /\ disp.corr # None => disp.corr \in Ids
  BY DEF Ids, TypeOK

(***************************************************************************)
(* The parts of the invariant that most steps leave alone.                 *)
(***************************************************************************)
(* An attempt that has no slot, or drops it. *)
LEMMA SlotGone ==
    ASSUME TypeOK, AbandonedSlotsFreed, Registered, NEW u \in Callers, Alone(u),
           \/ pending' = pending \ {Corr(u)}
           \/ pending' = pending /\ th[u].pc \notin Slotted,
           th'[u].pc # "push"
    PROVE  AbandonedSlotsFreed' /\ Registered'
<1>1. \A v \in Callers \ {u} : Corr(v)' = Corr(v) /\ Corr(v) # Corr(u) /\ th'[v] = th[v]
  BY DEF Alone, Corr
<1>2. Registered'
  BY <1>1 DEF Registered, At
<1>3. ASSUME NEW c \in pending'
      PROVE  \E v \in Callers : th'[v].pc \in Slotted /\ c = Corr(v)'
  <2>1. PICK v \in Callers : th[v].pc \in Slotted /\ c = Corr(v)
    BY DEF AbandonedSlotsFreed
  <2>2. v # u
    BY <2>1
  <2> QED BY <1>1, <2>1
<1> QED BY <1>2, <1>3 DEF AbandonedSlotsFreed

(* An attempt that keeps its slot. *)
LEMMA SlotKept ==
    ASSUME TypeOK, AbandonedSlotsFreed, Registered, NEW u \in Callers, Alone(u), SameAttempt(u),
           pending' = pending, th[u].pc \in Slotted => th'[u].pc \in Slotted,
           th'[u].pc # "push"
    PROVE  AbandonedSlotsFreed' /\ Registered'
<1>1. \A v \in Callers : Corr(v)' = Corr(v) /\ (th[v].pc \in Slotted => th'[v].pc \in Slotted)
  BY DEF Alone, Corr, SameAttempt
<1>2. Registered'
  BY <1>1 DEF Registered, At, Alone
<1>3. ASSUME NEW c \in pending'
      PROVE  \E v \in Callers : th'[v].pc \in Slotted /\ c = Corr(v)'
  BY <1>1 DEF AbandonedSlotsFreed
<1> QED BY <1>2, <1>3 DEF AbandonedSlotsFreed

(* Nothing is sent, and no attempt begins. *)
LEMMA StaysFresh ==
    ASSUME Fresh, NEW u \in Callers, Alone(u), UNCHANGED callTables, th'[u].call = th[u].call,
           th'[u].pc # "idle" => th[u].pc # "idle" /\ th'[u].attempt = th[u].attempt,
           th'[u].pc \in Unsent => th[u].pc \in Unsent
    PROVE  Fresh'
<1>1. \A v \in Callers : th'[v].call = th[v].call
  BY DEF Alone
<1>2. \A v \in Callers : /\ th'[v].pc # "idle" => th[v].pc # "idle" /\ th'[v].attempt = th[v].attempt
                         /\ th'[v].pc \in Unsent => th[v].pc \in Unsent /\ th[v].pc # "idle"
                                                    /\ th'[v].attempt = th[v].attempt
  BY DEF Alone, Unsent
<1>3. Ids' = Ids /\ runs' = runs
  BY DEF Ids, callTables
<1> QED BY <1>1, <1>2, <1>3 DEF Fresh, At

LEMMA OthersCalm ==
    ASSUME Calm, NEW v \in Callers, th'[v] = th[v], UNCHANGED callTables,
           cache' \in {cache, None, exposed}, Corr(v) \in pending => Corr(v) \in pending'
    PROVE  (th[v].calm => CalmCallee(v) /\ CalmAnswer(v) /\ CalmRuns(v))'
<1> SUFFICES ASSUME th[v].calm
             PROVE  CalmCallee(v)' /\ CalmAnswer(v)' /\ CalmRuns(v)'
  OBVIOUS
<1>1. CalmCallee(v) /\ CalmAnswer(v) /\ CalmRuns(v)
  BY DEF Calm
<1>2. CalmCallee(v)'
  BY <1>1 DEF CalmCallee, Again, At, callTables
<1>3. CalmAnswer(v)'
  BY <1>1 DEF CalmAnswer, Sent, OnItsWay, Corr, callTables
<1>4. CalmRuns(v)'
  BY <1>1 DEF CalmRuns, Sent, RunsOnce, Mine, At, callTables
<1> QED BY <1>2, <1>3, <1>4

(* Where the caller's slot is as it was, so is the way of its answer. *)
LEMMA SameAnswer ==
    ASSUME NEW u \in Callers, SameAttempt(u), SameCallee(u), th'[u].expired = th[u].expired,
           UNCHANGED callTables, Corr(u) \in pending => Corr(u) \in pending',
           Sent(u)' => Sent(u), CalmAnswer(u)
    PROVE  CalmAnswer(u)'
  BY DEF CalmAnswer, SameAttempt, Corr, OnItsWay, callTables

LEMMA SameRuns ==
    ASSUME NEW u \in Callers, th'[u].call = th[u].call, UNCHANGED callTables,
           At(u, "idle") <=> At(u, "idle")', Sent(u) <=> Sent(u)', CalmRuns(u)
    PROVE  CalmRuns(u)'
  BY DEF CalmRuns, RunsOnce, Mine, callTables

LEMMA StepKeepsCalm ==
    ASSUME Calm, TypeOK, NEW u \in Callers, Alone(u), UNCHANGED callTables,
           cache' \in {cache, None, exposed}, pending \ {Corr(u)} \subseteq pending',
           th'[u].calm => CalmCallee(u)' /\ CalmAnswer(u)' /\ CalmRuns(u)'
    PROVE  Calm'
<1>1. \A v \in Callers \ {u} : th'[v] = th[v] /\ (Corr(v) \in pending => Corr(v) \in pending')
  BY CorrsApart DEF Alone
<1>2. \A v \in Callers \ {u} : (th[v].calm => CalmCallee(v) /\ CalmAnswer(v) /\ CalmRuns(v))'
  BY <1>1, OthersCalm
<1> QED BY <1>2 DEF Calm

LEMMA ReturnsRuns ==
    ASSUME TypeOK, NEW u \in Callers, th'[u].call = th[u].call, UNCHANGED callTables, th'[u].pc = "idle",
           CalmRuns(u)
    PROVE  CalmRuns(u)'
<1>1. RunsOnce(u)
  BY DEF CalmRuns, RunsOnce
<1>2. RunsOnce(u)'
  BY <1>1 DEF RunsOnce, Mine, callTables
<1> QED BY <1>2 DEF CalmRuns, At

(* Two facts about the callers a step leaves alone. *)
LEMMA OthersTold ==
    ASSUME Told, NEW u \in Callers, Alone(u), UNCHANGED callTables, ToldAt(u)'
    PROVE  Told'
  BY DEF Told, ToldAt, Corr, At, Completing, Alone, callTables

LEMMA StaysFramed ==
    ASSUME Framed, NEW u \in Callers, Alone(u), UNCHANGED callTables,
           th'[u].pc # "idle" => ~ Completing(u)' \/ th'[u].frame
    PROVE  Framed'
  BY DEF Framed, Corr, At, Completing, Alone, callTables

LEMMA FramedAttempt ==
    ASSUME Framed, NEW u \in Callers, SameAttempt(u), UNCHANGED callTables, th[u].pc # "idle"
    PROVE  ~ Completing(u)' \/ th'[u].frame
  BY DEF Framed, Completing, Corr, At, SameAttempt, callTables

LEMMA OthersResolved ==
    ASSUME Resolved, NEW u \in Callers, Alone(u), UNCHANGED callTables, cache' \in {cache, None},
           th'[u].callee # None => Current(th'[u].callee)
    PROVE  Resolved'
  BY DEF Resolved, Current, Alone, callTables

(* A call that returns what it may return. *)
LEMMA ReturnKeeps ==
    ASSUME CallInv, NEW u \in Callers, NEW res \in Results, th' = [th EXCEPT ![u] = Return(u, res)],
           UNCHANGED callTables, UNCHANGED faults, cache' \in {cache, None},
           \/ pending' = pending \ {Corr(u)}
           \/ pending' = pending /\ th[u].pc \notin Slotted,
           th[u].calm => res \in {"ok", "full"}
    PROVE  CallInv'
<1>1. TypeOK /\ Returned(u, res)
  BY Returning DEF CallInv
<1>2. TypeOK'
  BY <1>1 DEF CallInv, TypeOK, Returned, Alone, callTables
<1>3. Shape'
  BY <1>1 DEF CallInv, Shape, HasCallee, Unsent, Returned, Alone, callTables
<1>4. AbandonedSlotsFreed' /\ Registered'
  BY <1>1, SlotGone DEF CallInv, Returned
<1>5. Told'
  BY <1>1 DEF CallInv, Told, ToldAt, Corr, At, Completing, Returned, callTables
<1>6. Framed'
  BY <1>1, StaysFramed DEF CallInv, Returned
<1>7. Resolved'
  BY <1>1 DEF CallInv, Resolved, Current, Returned, Afresh, callTables
<1>8. Fresh'
  BY <1>1, StaysFresh DEF CallInv, Returned, Unsent
<1>9. Calm'
  <2>1. ASSUME th'[u].calm PROVE CalmCallee(u)' /\ CalmAnswer(u)' /\ CalmRuns(u)'
    <3>1. CalmCallee(u) /\ CalmAnswer(u) /\ CalmRuns(u) /\ res \in {"ok", "full"}
      BY <2>1, <1>1 DEF CallInv, Calm, Returned
    <3>2. CalmCallee(u)'
      <4>1. ~ Again(u)'
        BY <1>1 DEF Again, Returned, Afresh
      <4>2. /\ th'[u].call = th[u].call /\ th'[u].result = res /\ th'[u].pc = "idle"
            /\ UNCHANGED <<served, exposed>>
        BY <1>1 DEF Returned, callTables
      <4> QED BY <3>1, <4>1, <4>2 DEF CalmCallee, At
    <3>3. CalmAnswer(u)'
      BY <1>1 DEF CalmAnswer, Sent, Polling, Returned
    <3>4. CalmRuns(u)'
      BY <1>1, <3>1, ReturnsRuns DEF Returned
    <3> QED BY <3>2, <3>3, <3>4
  <2> QED BY <1>1, <2>1, StepKeepsCalm DEF CallInv, Returned
<1> QED BY <1>2, <1>3, <1>4, <1>5, <1>6, <1>7, <1>8, <1>9 DEF CallInv

(* A step of an attempt that is not in block_on, or leaves it. *)
LEMMA MoveKeeps ==
    ASSUME CallInv, NEW u \in Callers, Alone(u), SameAttempt(u), SameClock(u),
           UNCHANGED callTables, UNCHANGED faults, cache' \in {cache, None},
           pending' \subseteq Corrs, pending \ {Corr(u)} \subseteq pending',
           AbandonedSlotsFreed' /\ Registered',
           th[u].pc # "idle", th'[u].pc \notin Polling \cup {"idle"},
           th'[u].pc \in Unsent => th[u].pc \in Unsent,
           th'[u].pc \in HasCallee => th'[u].callee # None,
           th'[u].callee # None => Current(th'[u].callee),
           th'[u].pc = "forget" => th[u].attempt = 1,
           th[u].calm => ~ Sent(u) /\ CalmCallee(u)'
    PROVE  CallInv'
<1>1. TypeOK'
  BY DEF CallInv, TypeOK, Alone, callTables
<1>2. Shape'
  BY DEF CallInv, Shape, SameAttempt, SameClock, Alone, callTables
<1>3. Told'
  BY OthersTold DEF CallInv, ToldAt, At, Polling
<1>4. Framed'
  BY StaysFramed, FramedAttempt DEF CallInv
<1>5. Resolved'
  BY OthersResolved DEF CallInv
<1>6. Fresh'
  BY StaysFresh DEF CallInv, SameAttempt
<1>7. Calm'
  <2>1. ASSUME th'[u].calm PROVE CalmCallee(u)' /\ CalmAnswer(u)' /\ CalmRuns(u)'
    <3>1. CalmRuns(u) /\ CalmCallee(u)' /\ ~ Sent(u) /\ ~ Sent(u)'
      BY <2>1 DEF CallInv, Calm, Sent, SameClock
    <3>2. CalmRuns(u)'
      BY <3>1, SameRuns DEF At, SameAttempt
    <3> QED BY <3>1, <3>2 DEF CalmAnswer
  <2> QED BY <2>1, StepKeepsCalm DEF CallInv
<1> QED BY <1>1, <1>2, <1>3, <1>4, <1>5, <1>6, <1>7 DEF CallInv

(* A step inside block_on. *)
LEMMA PollKeeps ==
    ASSUME CallInv, NEW u \in Callers, Alone(u), SameAttempt(u), SameCallee(u),
           UNCHANGED callTables, UNCHANGED <<cache, pending>>, faults' \in 0..MaxFaults,
           th[u].pc \in Polling, th'[u].pc \in Polling, ToldAt(u)',
           th'[u].calm => th[u].calm /\ (th'[u].expired => th[u].expired \/ ~ Sent(u))
    PROVE  CallInv'
<1>1. TypeOK'
  BY DEF CallInv, TypeOK, Alone, callTables
<1>2. Shape'
  <2>1. /\ th'[u].callee # None /\ th'[u].call > 0 /\ th'[u].attempt > 0
        /\ th'[u].pc # "forget" /\ th'[u].pc \notin Unsent
    BY DEF CallInv, Shape, SameAttempt, SameCallee, HasCallee, Polling, Unsent
  <2> QED BY <2>1 DEF CallInv, Shape, Alone, callTables
<1>3. AbandonedSlotsFreed' /\ Registered'
  BY SlotKept DEF CallInv, Polling, Slotted
<1>4. Told'
  BY OthersTold DEF CallInv
<1>5. Framed'
  BY StaysFramed, FramedAttempt DEF CallInv, Polling
<1>6. Resolved'
  BY OthersResolved DEF CallInv, Resolved, SameCallee
<1>7. Fresh'
  BY StaysFresh DEF CallInv, SameAttempt, Polling, Unsent
<1>8. Calm'
  <2>1. ASSUME th'[u].calm PROVE CalmCallee(u)' /\ CalmAnswer(u)' /\ CalmRuns(u)'
    <3>1. CalmCallee(u) /\ CalmAnswer(u) /\ CalmRuns(u) /\ Sent(u)' = Sent(u)
      BY <2>1 DEF CallInv, Calm, Sent, SameCallee, callTables
    <3>2. CalmCallee(u)'
      BY <3>1 DEF CalmCallee, Again, HasCallee, At, Polling, SameAttempt, SameCallee, callTables
    <3>3. CalmAnswer(u)'
      BY <2>1, <3>1 DEF CalmAnswer, OnItsWay, Corr, SameAttempt, callTables
    <3>4. CalmRuns(u)'
      BY <3>1, SameRuns DEF At, SameAttempt, Polling
    <3> QED BY <3>2, <3>3, <3>4
  <2> QED BY <2>1, StepKeepsCalm DEF CallInv
<1> QED BY <1>1, <1>2, <1>3, <1>4, <1>5, <1>6, <1>7, <1>8 DEF CallInv

(***************************************************************************)
(* The caller's steps.                                                     *)
(***************************************************************************)
(* The cache's entry, which may be stale, is no newer than what the broker says. *)
LEMMA LookInCacheStep ==
    ASSUME CallInv, NEW u \in Callers, LookInCache(u)
    PROVE  CallInv'
<1> DEFINE p == IF cache = None THEN "lookup" ELSE "match"
<1>1. TypeOK /\ th[u].pc = "cache"
  BY DEF CallInv, LookInCache, At
<1>2. (cache = None /\ p = "lookup") \/ (cache # None /\ p = "match")
  OBVIOUS
<1>3. ResolvedTo(u, p, cache)
  <2>1. p \in Pcs /\ cache \in Callees \cup {None}
    BY <1>1 DEF Pcs, TypeOK
  <2> HIDE DEF p
  <2> QED BY <1>1, <2>1, Resolving DEF LookInCache, p
<1> HIDE DEF p
<1>4. AbandonedSlotsFreed' /\ Registered'
  BY <1>1, <1>3, SlotGone DEF CallInv, LookInCache, ResolvedTo, Slotted
<1>5. th[u].calm => ~ Sent(u) /\ CalmCallee(u)'
  BY <1>3, <1>2 DEF CallInv, Calm, CalmCallee, Again, Sent, Polling, HasCallee, At, LookInCache,
                    callTables, ResolvedTo, SameAttempt
<1>6. cache # None => Current(cache)
  BY DEF CallInv, Resolved
<1> QED BY <1>1, <1>3, <1>2, <1>4, <1>5, <1>6, MoveKeeps DEF LookInCache, ResolvedTo, HasCallee,
           Polling, Unsent, TypeOK

(* do_lookup: what the broker says is current. *)
LEMMA LookupStep ==
    ASSUME CallInv, NEW u \in Callers, Lookup(u)
    PROVE  CallInv'
<1>1. /\ TypeOK /\ th[u].pc = "lookup" /\ exposed \in Callees /\ exposed # None
      /\ Current(exposed)
  BY CalleeFields DEF CallInv, TypeOK, Lookup, At, Current
<1>2. ResolvedTo(u, "open", exposed)
  BY <1>1, Resolving DEF Lookup, Pcs
<1>3. AbandonedSlotsFreed' /\ Registered'
  BY <1>1, <1>2, SlotGone DEF CallInv, Lookup, ResolvedTo, Slotted
<1>4. th[u].calm => ~ Sent(u) /\ CalmCallee(u)'
  BY <1>2 DEF CallInv, Calm, CalmCallee, Again, Sent, Polling, At, Lookup, callTables
<1> QED BY <1>1, <1>2, <1>3, <1>4, MoveKeeps DEF Lookup, ResolvedTo, Polling, Unsent, TypeOK

(* Segment::open fails only where the function has moved since the lookup, so not
   for a calm call. *)
LEMMA OpenStep ==
    ASSUME CallInv, NEW u \in Callers, Open(u)
    PROVE  CallInv'
<1>1. TypeOK /\ th[u].pc = "open" /\ (th[u].calm => th[u].callee = exposed)
  BY DEF CallInv, Calm, CalmCallee, Open, At
<1>2. CASE th[u].callee.arena = exposed.arena
  <2>1. MovedTo(u, "insert")
    BY <1>1, <1>2, Moving DEF Open, Pcs
  <2>2. AbandonedSlotsFreed' /\ Registered'
    BY <1>1, <2>1, SlotGone DEF CallInv, Open, MovedTo, Slotted
  <2>3. th[u].calm => ~ Sent(u) /\ CalmCallee(u)'
    BY <2>1 DEF CallInv, Calm, CalmCallee, Again, Sent, Polling, At, Open, callTables
  <2>4. th[u].callee # None /\ Current(th[u].callee)
    BY <1>1 DEF CallInv, Shape, Resolved, HasCallee
  <2> QED BY <1>1, <2>1, <2>2, <2>3, <2>4, MoveKeeps DEF Open, MovedTo, SameCallee, Polling,
             Unsent, TypeOK
<1>3. CASE th[u].callee.arena # exposed.arena
  <2>1. th' = [th EXCEPT ![u] = Return(u, "unreachable")]
    BY <1>3 DEF Open
  <2> QED BY <1>1, <1>3, ReturnKeeps DEF Open, Slotted, Results
<1> QED BY <1>2, <1>3

(* register: the attempt's slot. *)
LEMMA RegisterStep ==
    ASSUME CallInv, NEW u \in Callers, register(u)
    PROVE  CallInv'
<1>1. TypeOK /\ th[u].pc = "slot" /\ Corr(u) \in Corrs
  BY CorrIds DEF CallInv, register, At
<1>2. MovedTo(u, "push")
  BY <1>1, Moving DEF register, Go, Pcs
<1>3. AbandonedSlotsFreed' /\ Registered'
  <2>1. \A v \in Callers : Corr(v)' = Corr(v)
    BY <1>2 DEF MovedTo, Alone, SameAttempt, Corr
  <2> QED BY <1>2, <2>1 DEF CallInv, AbandonedSlotsFreed, Registered, Slotted, At, register,
                            MovedTo, Alone
<1>4. th[u].calm => ~ Sent(u) /\ CalmCallee(u)'
  BY <1>2 DEF CallInv, Calm, CalmCallee, Again, Sent, Polling, HasCallee, At, register,
              callTables, MovedTo, SameAttempt, SameCallee
<1>5. th[u].callee # None /\ Current(th[u].callee)
  BY <1>1 DEF CallInv, Shape, Resolved, HasCallee
<1> QED BY <1>1, <1>2, <1>3, <1>4, <1>5, MoveKeeps DEF register, MovedTo, SameCallee, Polling,
           Unsent, TypeOK

(* The slot of a request that a full arena refused is freed. *)
LEMMA FullStep ==
    ASSUME CallInv, NEW u \in Callers, Full(u)
    PROVE  CallInv'
<1>1. TypeOK /\ th[u].pc = "full"
  BY DEF CallInv, Full, At
<1>2. MovedTo(u, "forget full")
  BY <1>1, Moving DEF Full, Go, Pcs
<1>3. AbandonedSlotsFreed' /\ Registered'
  BY <1>2, SlotGone DEF CallInv, Full, drop_pending, MovedTo
<1>4. th[u].calm => ~ Sent(u) /\ CalmCallee(u)'
  BY <1>2 DEF CallInv, Calm, CalmCallee, Again, Sent, Polling, HasCallee, At, Full, callTables,
              MovedTo, SameAttempt, SameCallee
<1>5. th[u].callee # None /\ Current(th[u].callee)
  BY <1>1 DEF CallInv, Shape, Resolved, HasCallee
<1> QED BY <1>1, <1>2, <1>3, <1>4, <1>5, MoveKeeps DEF Full, drop_pending, MovedTo, SameCallee,
           Polling, Unsent, TypeOK

(* The caller of a full arena is told so. *)
LEMMA ForgetFullStep ==
    ASSUME CallInv, NEW u \in Callers, ForgetFull(u)
    PROVE  CallInv'
  BY ReturnKeeps DEF ForgetFull, forget_callee, At, Slotted, Results

(* forget_callee before the second look: what it finds then is the broker's answer. *)
LEMMA MatchStep ==
    ASSUME CallInv, NEW u \in Callers, Match(u)
    PROVE  CallInv'
<1>1. /\ TypeOK /\ th[u].pc = "match" /\ th[u].callee # None /\ Current(th[u].callee)
      /\ (th[u].calm /\ Again(u) => th[u].callee = exposed)
  BY DEF CallInv, Shape, Resolved, HasCallee, Calm, CalmCallee, Match, At
<1>2. CASE th[u].callee.fp = MyFp
  <2>1. MovedTo(u, "slot")
    BY <1>1, <1>2, Moving DEF Match, Go, Pcs
  <2>2. AbandonedSlotsFreed' /\ Registered'
    BY <1>1, <2>1, SlotGone DEF CallInv, Match, MovedTo, Slotted
  <2>3. UNCHANGED cache
    BY <1>2 DEF Match
  <2>4. th[u].calm => ~ Sent(u) /\ CalmCallee(u)'
    BY <2>1 DEF CallInv, Calm, CalmCallee, Again, Sent, Polling, HasCallee, At, Match,
                callTables, MovedTo, SameAttempt, SameCallee
  <2> QED BY <1>1, <2>1, <2>2, <2>3, <2>4, MoveKeeps DEF Match, MovedTo, SameCallee, Polling,
             Unsent, TypeOK
<1>3. CASE th[u].callee.fp # MyFp /\ ~ th[u].refetch
  <2>1. th' = [th EXCEPT ![u] = [@ EXCEPT !.pc = "cache", !.refetch = TRUE]] /\ cache' = None
    BY <1>3 DEF Match, forget_callee
  <2>2. Refetching(u)
    BY <1>1, <2>1, Refetch
  <2>3. AbandonedSlotsFreed' /\ Registered'
    BY <1>1, <2>2, SlotGone DEF CallInv, Match, Refetching, Slotted
  <2>4. th[u].calm => ~ Sent(u) /\ CalmCallee(u)'
    BY <2>1, <2>2 DEF CallInv, Calm, CalmCallee, Sent, Polling, HasCallee, At, Match,
                      callTables, Refetching, SameAttempt
  <2> QED BY <1>1, <2>1, <2>2, <2>3, <2>4, MoveKeeps DEF Match, Refetching, Polling, Unsent,
             TypeOK
<1>4. CASE th[u].callee.fp # MyFp /\ th[u].refetch
  <2>1. th' = [th EXCEPT ![u] = Return(u, "mismatch")] /\ UNCHANGED cache
    BY <1>4 DEF Match
  <2>2. ~ th[u].calm
    BY <1>1, <1>4 DEF CallInv, Calm, CalmCallee, Again
  <2> QED BY <1>1, <2>1, <2>2, ReturnKeeps DEF Match, Slotted, Results
<1> QED BY <1>2, <1>3, <1>4 DEF Match

(* The arena refuses the request, or takes it: a calm call's goes to the callee that
   is there, and it is the first. *)
LEMMA PushStep ==
    ASSUME CallInv, NEW u \in Callers, Push(u)
    PROVE  CallInv'
<1> DEFINE a == th[u].callee.arena
<1>1. /\ TypeOK /\ th[u].pc = "push" /\ th[u].callee # None /\ Current(th[u].callee)
      /\ th[u] \in CallerType /\ Corr(u) \in Corrs /\ Corr(u) \in pending
      /\ Corr(u)[1] = u /\ Corr(u)[2] = th[u].call /\ Corr(u)[3] = th[u].attempt
      /\ (th[u].calm /\ Again(u) => th[u].callee = exposed)
      /\ th[u].call \in 0..MaxCalls /\ th[u].call > 0 /\ ~ th[u].expired
  BY CorrIds, CallerFields DEF CallInv, TypeOK, Shape, Resolved, Registered, HasCallee, Unsent,
                               Calm, CalmCallee, Push, At
<1>2. a \in Arenas /\ IsFiniteSet(arena[a]) /\ arena[a] \subseteq Corrs
  BY <1>1, CallerFields, CalleeFields DEF CallInv, Shape, TypeOK
<1>3. CASE ~ (Cardinality(arena[a]) < ArenaCap)
  <2>1. MovedTo(u, "full") /\ UNCHANGED arena
    BY <1>1, <1>3, Moving DEF Push, Go, Pcs
  <2>2. AbandonedSlotsFreed' /\ Registered'
    BY <2>1, SlotKept DEF CallInv, Push, MovedTo, Slotted
  <2>3. th[u].calm => ~ Sent(u) /\ CalmCallee(u)'
    BY <2>1 DEF CallInv, Calm, CalmCallee, Again, Sent, Polling, HasCallee, At, Push, MovedTo,
                SameAttempt, SameCallee
  <2> QED BY <1>1, <2>1, <2>2, <2>3, MoveKeeps DEF Push, MovedTo, SameCallee, Polling, Unsent,
             TypeOK, callTables
<1>4. CASE Cardinality(arena[a]) < ArenaCap
  <2>1. MovedTo(u, "poll") /\ arena' = [arena EXCEPT ![a] = @ \cup {Corr(u)}]
    BY <1>1, <1>4, Moving DEF Push, Go, Pcs
  <2>2. /\ IsFiniteSet(arena'[a]) /\ arena'[a] = arena[a] \cup {Corr(u)}
        /\ \A b \in Arenas \ {a} : arena'[b] = arena[b]
        /\ Cardinality(arena'[a]) <= ArenaCap
    <3>1. arena'[a] = arena[a] \cup {Corr(u)} /\ \A b \in Arenas \ {a} : arena'[b] = arena[b]
      BY <1>1, <1>2, <2>1 DEF TypeOK
    <3>2. /\ IsFiniteSet(arena[a] \cup {Corr(u)}) /\ Cardinality(arena[a]) \in Nat
          /\ \/ Cardinality(arena[a] \cup {Corr(u)}) = Cardinality(arena[a])
             \/ Cardinality(arena[a] \cup {Corr(u)}) = Cardinality(arena[a]) + 1
      BY <1>2, FS_AddElement, FS_CardinalityType
    <3> QED BY <1>4, <3>1, <3>2, CallAssumption
  <2>3. TypeOK'
    BY <1>1, <2>1, <2>2 DEF Push, TypeOK, MovedTo, Alone
  <2>4. Shape'
    BY <1>1, <2>1, <2>2 DEF CallInv, Shape, Push, MovedTo, Alone, SameAttempt, SameCallee,
                            HasCallee, Unsent
  <2>5. AbandonedSlotsFreed' /\ Registered'
    BY <2>1, SlotKept DEF CallInv, Push, MovedTo, Slotted
  <2>6. Told'
    BY <2>1 DEF CallInv, Told, ToldAt, Corr, Completing, At, Push, MovedTo, Alone
  <2>7. Framed'
    BY <2>1 DEF CallInv, Framed, Completing, Corr, At, Push, MovedTo, Alone, SameAttempt
  <2>8. Resolved'
    BY <2>1 DEF CallInv, Resolved, Current, Push, MovedTo, Alone, SameCallee
  <2>9. Fresh'
    <3>1. \A c \in Ids' :
              c = Corr(u) \/ c \in Ids
      BY <2>2 DEF Push, Ids
    <3>2. ASSUME NEW v \in Callers, NEW c \in Ids', c[1] = v
          PROVE  /\ c[2] \in 1..th'[v].call
                 /\ c[2] = th'[v].call /\ ~ At(v, "idle")' => c[3] <= th'[v].attempt
                 /\ c[2] = th'[v].call /\ th'[v].pc \in Unsent => c[3] < th'[v].attempt
      <4>1. CASE c = Corr(u)
        BY <1>1, <2>1, <3>2, <4>1, CallerFields DEF MovedTo, SameAttempt, Unsent
      <4>2. CASE c \in Ids
        BY <1>1, <2>1, <3>2, <4>2 DEF CallInv, Fresh, MovedTo, Alone, SameAttempt, Unsent, At
      <4> QED BY <3>1, <4>1, <4>2
    <3>3. \A v \in Callers : th'[v].call = th[v].call
      BY <2>1 DEF MovedTo, Alone, SameAttempt
    <3> QED BY <3>2, <3>3 DEF CallInv, Fresh, Push
  <2>10. ASSUME NEW v \in Callers \ {u}, th'[v].calm
        PROVE  CalmCallee(v)' /\ CalmAnswer(v)' /\ CalmRuns(v)'
    <3>1. /\ CalmCallee(v) /\ CalmAnswer(v) /\ CalmRuns(v) /\ th'[v] = th[v]
          /\ UNCHANGED <<exposed, served, cache, replies, pending, disp, runs>>
      BY <2>1, <2>10 DEF CallInv, Calm, MovedTo, Alone, Push
    <3>2. exposed.arena \in Arenas /\ arena[exposed.arena] \subseteq arena'[exposed.arena]
      BY <1>1, <2>2, CalleeFields DEF TypeOK
    <3>3. Mine(v)' = Mine(v)
      BY <1>1, <2>2, <3>1, <3>2 DEF Mine
    <3>4. CalmCallee(v)'
      BY <3>1 DEF CalmCallee, Again, At
    <3>5. CalmAnswer(v)'
      BY <3>1, <3>2 DEF CalmAnswer, OnItsWay, Sent, Corr
    <3>6. CalmRuns(v)'
      BY <3>1, <3>3 DEF CalmRuns, RunsOnce, Sent, At
    <3> QED BY <3>4, <3>5, <3>6
  <2>11. ASSUME th'[u].calm
         PROVE  CalmCallee(u)' /\ CalmAnswer(u)' /\ CalmRuns(u)'
    <3>1. /\ CalmCallee(u) /\ runs[u][th[u].call] = 0 /\ Mine(u) = {}
          /\ UNCHANGED <<exposed, served, cache, replies, pending, disp, runs>>
      BY <2>1, <2>11 DEF CallInv, Calm, CalmRuns, Sent, Polling, At, MovedTo, SameClock, Push
    <3>2. exposed.arena \in Arenas
      BY <1>1, CalleeFields DEF TypeOK
    <3>3. CalmCallee(u)'
      BY <1>1, <2>1, <3>1 DEF CalmCallee, Again, HasCallee, At, MovedTo, SameAttempt, SameCallee
    <3>4. CalmAnswer(u)'
      <4>1. Corr(u)' = Corr(u) /\ ~ th'[u].expired /\ th'[u].callee = th[u].callee
        BY <1>1, <2>1 DEF Corr, MovedTo, SameAttempt, SameCallee, SameClock
      <4> QED BY <1>1, <2>2, <3>1, <4>1 DEF CalmAnswer, OnItsWay, Sent
    <3>5. CalmRuns(u)'
      <4>1. CASE th[u].callee = exposed
        <5>1. Mine(u)' = {Corr(u)}
          BY <1>1, <2>1, <2>2, <3>1, <4>1 DEF Mine, MovedTo, SameAttempt
        <5>2. RunsOnce(u)' /\ Sent(u)'
          BY <2>1, <3>1, <4>1, <5>1 DEF RunsOnce, Sent, Polling, MovedTo, SameAttempt,
             SameCallee
        <5> QED BY <5>2 DEF CalmRuns
      <4>2. CASE th[u].callee # exposed
        <5>1. Mine(u)' = {}
          BY <1>1, <2>1, <3>1, <4>2 DEF Mine, Current, MovedTo, SameAttempt
        <5> QED BY <2>1, <3>1, <4>2, <5>1 DEF CalmRuns, Sent, At, MovedTo, SameAttempt,
                   SameCallee
      <4> QED BY <4>1, <4>2
    <3> QED BY <3>3, <3>4, <3>5
  <2>12. Calm'
    BY <2>10, <2>11 DEF Calm
  <2> QED BY <2>3, <2>4, <2>5, <2>6, <2>7, <2>8, <2>9, <2>12 DEF CallInv
<1> QED BY <1>3, <1>4

(* callees.insert: a callee that has moved meanwhile ends the calm of the others; the
   one that is there does not. *)
LEMMA InsertStep ==
    ASSUME CallInv, NEW u \in Callers, Insert(u)
    PROVE  CallInv'
<1>1. /\ TypeOK /\ th[u].pc = "insert" /\ th[u].callee # None /\ Current(th[u].callee)
      /\ th[u].callee \in Callees /\ (th[u].calm => th[u].callee = exposed)
  BY CallerFields DEF CallInv, TypeOK, Shape, Resolved, HasCallee, Calm, CalmCallee, Insert, At
<1>2. CASE th[u].callee = exposed
  <2>1. th' = [th EXCEPT ![u].pc = "match"]
    <3>1. th' = [v \in Callers |-> IF v = u THEN [th[u] EXCEPT !.pc = "match"] ELSE th[v]]
      BY <1>2 DEF Insert
    <3> QED BY <1>1, <3>1 DEF TypeOK
  <2>2. MovedTo(u, "match")
    BY <1>1, <2>1, Moving DEF Pcs
  <2>3. TypeOK'
    BY <1>1, <2>2 DEF Insert, TypeOK, MovedTo, Alone, callTables
  <2>4. Shape'
    <3>1. /\ th'[u].callee # None /\ th'[u].call > 0 /\ th'[u].attempt > 0
          /\ ~ th'[u].expired /\ th'[u].pc = "match"
      BY <1>1, <2>2 DEF CallInv, Shape, Unsent, MovedTo, SameAttempt, SameCallee, SameClock
    <3> QED BY <2>2, <3>1 DEF CallInv, Shape, Insert, MovedTo, Alone, callTables
  <2>5. AbandonedSlotsFreed' /\ Registered'
    BY <1>1, <2>2, SlotGone DEF CallInv, Insert, MovedTo, Slotted
  <2>6. Told'
    BY <2>2, OthersTold DEF CallInv, ToldAt, At, Insert, MovedTo
  <2>7. Framed'
    BY <1>1, <2>2, StaysFramed, FramedAttempt DEF CallInv, Insert, MovedTo
  <2>8. Resolved'
    BY <2>2 DEF CallInv, Resolved, Current, Insert, MovedTo, Alone, callTables
  <2>9. Fresh'
    BY <1>1, <2>2, StaysFresh DEF CallInv, Insert, MovedTo, Unsent
  <2>10. Calm'
    <3>1. ASSUME th'[u].calm PROVE CalmCallee(u)' /\ CalmAnswer(u)' /\ CalmRuns(u)'
      <4>1. CalmCallee(u) /\ CalmRuns(u) /\ ~ Sent(u) /\ ~ Sent(u)'
        BY <1>1, <2>2, <3>1 DEF CallInv, Calm, Sent, Polling, MovedTo, SameClock
      <4>2. CalmCallee(u)'
        BY <2>2, <4>1 DEF CalmCallee, At, Insert, callTables, MovedTo, SameAttempt, SameCallee
      <4>3. CalmRuns(u)'
        BY <4>1, SameRuns DEF Insert, At
      <4> QED BY <4>1, <4>2, <4>3 DEF CalmAnswer
    <3> QED BY <1>2, <2>2, <3>1, StepKeepsCalm DEF CallInv, Insert, MovedTo
  <2> QED BY <2>3, <2>4, <2>5, <2>6, <2>7, <2>8, <2>9, <2>10 DEF CallInv
<1>3. CASE th[u].callee # exposed
  <2>1. th' = [v \in Callers |-> IF v = u THEN [th[u] EXCEPT !.pc = "match"] ELSE Disturbed(v)]
    BY <1>3 DEF Insert
  <2>2. /\ th' \in [Callers -> CallerType] /\ \A v \in Callers \ {u} : Unmoved(v)
        /\ th'[u].pc = "match" /\ SameAttempt(u) /\ SameCallee(u) /\ SameFlags(u) /\ SameClock(u)
    <3> DEFINE r == [th[u] EXCEPT !.pc = "match"]
    <3>1. th[u] \in CallerType
      BY <1>1 DEF TypeOK
    <3>2. r \in CallerType
      BY <3>1 DEF CallerType
    <3>3. /\ r.pc = "match" /\ r.call = th[u].call /\ r.attempt = th[u].attempt /\ r.frame = th[u].frame
          /\ r.result = th[u].result /\ r.callee = th[u].callee /\ r.refetch = th[u].refetch
          /\ r.notified = th[u].notified /\ r.token = th[u].token /\ r.waker = th[u].waker
          /\ r.expired = th[u].expired /\ r.calm = th[u].calm
      OBVIOUS
    <3>4. \A v \in Callers : Disturbed(v) \in CallerType
      BY <1>1, DisturbedType
    <3> HIDE DEF r
    <3>5. th'[u] = r /\ \A v \in Callers \ {u} : th'[v] = Disturbed(v)
      BY <2>1 DEF r
    <3>6. th' \in [Callers -> CallerType]
      BY <2>1, <3>2, <3>4 DEF r
    <3>7. \A v \in Callers \ {u} : Unmoved(v)
      BY <1>1, <3>5, DisturbedUnmoved
    <3> QED BY <3>3, <3>5, <3>6, <3>7 DEF SameAttempt, SameCallee, SameFlags, SameClock
  <2>3. TypeOK'
    BY <1>1, <2>2 DEF Insert, TypeOK, callTables
  <2>4. Shape'
    <3>1. /\ th'[u].callee # None /\ th'[u].call > 0 /\ th'[u].attempt > 0
          /\ ~ th'[u].expired /\ th'[u].pc = "match"
      BY <1>1, <2>2 DEF CallInv, Shape, Unsent, SameAttempt, SameCallee, SameClock
    <3>2. \A v \in Callers \ {u} :
              /\ th'[v].pc = th[v].pc /\ th'[v].callee = th[v].callee /\ th'[v].call = th[v].call
              /\ th'[v].attempt = th[v].attempt /\ th'[v].expired = th[v].expired
      BY <2>2 DEF Unmoved, SameAttempt, SameCallee
    <3>3. \A v \in Callers : /\ th'[v].pc \in HasCallee => th'[v].callee # None
                             /\ th'[v].pc # "idle" => th'[v].call > 0 /\ th'[v].attempt > 0
                             /\ th'[v].pc = "forget" => th'[v].attempt = 1
                             /\ th'[v].pc \in Unsent => ~ th'[v].expired
      <4> SUFFICES ASSUME NEW v \in Callers
                   PROVE  /\ th'[v].pc \in HasCallee => th'[v].callee # None
                          /\ th'[v].pc # "idle" => th'[v].call > 0 /\ th'[v].attempt > 0
                          /\ th'[v].pc = "forget" => th'[v].attempt = 1
                          /\ th'[v].pc \in Unsent => ~ th'[v].expired
        OBVIOUS
      <4>1. CASE v = u
        BY <3>1, <4>1
      <4>2. CASE v # u
        BY <3>2, <4>2 DEF CallInv, Shape
      <4> QED BY <4>1, <4>2
    <3> QED BY <3>3 DEF CallInv, Shape, Insert, callTables
  <2>5. \A v \in Callers : Corr(v)' = Corr(v)
    BY <2>2 DEF Corr, SameAttempt, Unmoved
  <2>6. AbandonedSlotsFreed' /\ Registered'
    <3>1. \A v \in Callers : /\ th[v].pc \in Slotted => th'[v].pc \in Slotted
                             /\ th'[v].pc = "push" => th[v].pc = "push"
      BY <1>1, <2>2 DEF Slotted, Unmoved
    <3> QED BY <2>5, <3>1 DEF CallInv, AbandonedSlotsFreed, Registered, At, Insert
  <2>7. Told'
    BY <2>2, <2>5 DEF CallInv, Told, ToldAt, At, Completing, Insert, Unmoved, SameAttempt,
                      SameFlags, callTables
  <2>8. Framed'
    BY <2>2, <2>5 DEF CallInv, Framed, Completing, At, Insert, Unmoved, SameAttempt, callTables
  <2>9. Resolved'
    BY <2>2 DEF CallInv, Resolved, Current, Insert, Unmoved, SameCallee, callTables
  <2>10. Fresh'
    BY <2>2 DEF CallInv, Fresh, Ids, Unsent, At, Insert, Unmoved, SameAttempt, callTables
  <2>11. Calm'
    BY <1>1, <1>3, <2>2 DEF Calm, Unmoved, SameClock
  <2> QED BY <2>3, <2>4, <2>6, <2>7, <2>8, <2>9, <2>10, <2>11 DEF CallInv
<1> QED BY <1>2, <1>3

(* Slot::poll: the answer, which was asked for once; or the waker, and there is none yet. *)
LEMMA PollStep ==
    ASSUME CallInv, NEW u \in Callers, Poll(u)
    PROVE  CallInv'
<1>1. TypeOK /\ th[u].pc = "poll" /\ ~ Completing(u)
  BY DEF CallInv, Poll, At
<1>2. CASE th[u].frame
  BY <1>2, ReturnKeeps DEF Poll, drop_pending, Results
<1>3. CASE ~ th[u].frame
  <2> DEFINE r == [th[u] EXCEPT !.pc = "deadline", !.waker = TRUE]
  <2>1. th' = [th EXCEPT ![u] = r] /\ UNCHANGED pending
    BY <1>3 DEF Poll, LeavesWaker
  <2>2. /\ r \in CallerType /\ r.pc = "deadline" /\ r.waker = TRUE /\ r.notified = th[u].notified
        /\ r.token = th[u].token /\ r.expired = th[u].expired /\ r.calm = th[u].calm
        /\ r.call = th[u].call /\ r.attempt = th[u].attempt /\ r.frame = th[u].frame
        /\ r.result = th[u].result /\ r.callee = th[u].callee /\ r.refetch = th[u].refetch
    <3>1. th[u] \in CallerType
      BY <1>1 DEF TypeOK
    <3> QED BY <3>1 DEF CallerType
  <2> HIDE DEF r
  <2>3. Steps(u, "deadline", TRUE, th[u].notified, th[u].token, th[u].expired, th[u].calm)
    BY <1>1, <2>1, <2>2, Stepping
  <2>4. ToldAt(u)'
    BY <1>3, <2>3 DEF ToldAt, Steps, SameAttempt
  <2> QED BY <1>1, <2>1, <2>3, <2>4, PollKeeps DEF Poll, Steps, Polling, CallInv, TypeOK
<1> QED BY <1>2, <1>3

(* The deadline has passed, and a calm call that is on its way has no such; or the
   flag is taken down; or it was not up, and then the dispatcher is not past it. *)
LEMMA DeadlineStep ==
    ASSUME CallInv, NEW u \in Callers, Deadline(u)
    PROVE  CallInv'
<1>1. TypeOK /\ th[u].pc = "deadline" /\ th[u] \in CallerType /\ th[u].callee # None /\ Current(th[u].callee)
  BY DEF CallInv, TypeOK, Shape, HasCallee, Resolved, Deadline, At
<1>2. CASE th[u].expired
  <2>1. MovedTo(u, "abandon")
    BY <1>1, <1>2, Moving DEF Deadline, Pcs
  <2>2. AbandonedSlotsFreed' /\ Registered'
    BY <2>1, SlotKept DEF CallInv, Deadline, MovedTo, Slotted
  <2>3. th[u].calm => ~ Sent(u) /\ CalmCallee(u)'
    BY <1>2, <2>1 DEF CallInv, Calm, CalmAnswer, CalmCallee, Again, Sent, Polling, HasCallee,
                      At, Deadline, callTables, MovedTo, SameAttempt, SameCallee
  <2> QED BY <1>1, <2>1, <2>2, <2>3, MoveKeeps DEF Deadline, MovedTo, Polling, Unsent, TypeOK
<1>3. CASE ~ th[u].expired /\ th[u].notified
  <2> DEFINE r == [th[u] EXCEPT !.pc = "poll", !.notified = FALSE]
  <2>1. th' = [th EXCEPT ![u] = r]
    BY <1>3 DEF Deadline
  <2>2. /\ r \in CallerType /\ r.pc = "poll" /\ r.waker = th[u].waker /\ r.notified = FALSE
        /\ r.token = th[u].token /\ r.expired = th[u].expired /\ r.calm = th[u].calm
        /\ r.call = th[u].call /\ r.attempt = th[u].attempt /\ r.frame = th[u].frame
        /\ r.result = th[u].result /\ r.callee = th[u].callee /\ r.refetch = th[u].refetch
    BY <1>1 DEF CallerType
  <2> HIDE DEF r
  <2>3. Steps(u, "poll", th[u].waker, FALSE, th[u].token, th[u].expired, th[u].calm)
    BY <1>1, <2>1, <2>2, Stepping
  <2>4. ToldAt(u)'
    BY <2>3 DEF ToldAt, At, Steps
  <2> QED BY <1>1, <2>3, <2>4, PollKeeps DEF Deadline, Steps, Polling, CallInv, TypeOK
<1>4. CASE ~ th[u].expired /\ ~ th[u].notified
  <2>1. MovedTo(u, "park")
    BY <1>1, <1>4, Moving DEF Deadline, Pcs
  <2>2. ToldAt(u)'
    BY DEF CallInv, Told, ToldAt, At, Completing, Corr, Deadline, callTables
  <2> QED BY <1>1, <2>1, <2>2, PollKeeps DEF Deadline, MovedTo, Polling, CallInv, TypeOK
<1> QED BY <1>2, <1>3, <1>4

(* park_timeout returns, and the slot is looked at again. *)
LEMMA UnparkedStep ==
    ASSUME CallInv, NEW u \in Callers, Unparked(u)
    PROVE  CallInv'
<1> DEFINE r == [th[u] EXCEPT !.token = FALSE, !.pc = "poll"]
<1>1. TypeOK /\ th[u].pc = "park" /\ th[u] \in CallerType /\ th' = [th EXCEPT ![u] = r]
  BY DEF CallInv, TypeOK, Unparked, At
<1>2. /\ r \in CallerType /\ r.pc = "poll" /\ r.waker = th[u].waker /\ r.notified = th[u].notified
      /\ r.token = FALSE /\ r.expired = th[u].expired /\ r.calm = th[u].calm
      /\ r.call = th[u].call /\ r.attempt = th[u].attempt /\ r.frame = th[u].frame
      /\ r.result = th[u].result /\ r.callee = th[u].callee /\ r.refetch = th[u].refetch
  BY <1>1 DEF CallerType
<1> HIDE DEF r
<1>3. Steps(u, "poll", th[u].waker, th[u].notified, FALSE, th[u].expired, th[u].calm)
  BY <1>1, <1>2, Stepping
<1>4. ToldAt(u)'
  BY <1>3 DEF ToldAt, At, Steps
<1> QED BY <1>1, <1>3, <1>4, PollKeeps DEF Unparked, Steps, Polling, CallInv, TypeOK

(* The deadline passes: what was on its way is so no more, and the call not calm. *)
LEMMA ExpireStep ==
    ASSUME CallInv, NEW u \in Callers, Expire(u)
    PROVE  CallInv'
<1>1. TypeOK /\ th[u].pc \in Polling /\ th[u] \in CallerType
  BY DEF CallInv, TypeOK, Expire, Polling
<1>2. /\ ~ InFlight(u) => ~ th[u].calm \/ ~ Sent(u)
      /\ faults' \in 0..MaxFaults
  BY CallAssumption DEF CallInv, TypeOK, Calm, CalmCallee, CalmAnswer, OnItsWay, InFlight,
                        Expire
<1>3. \E b \in BOOLEAN : /\ Steps(u, th[u].pc, th[u].waker, th[u].notified, th[u].token, TRUE, b)
                         /\ b => th[u].calm /\ ~ Sent(u)
  <2>1. CASE ~ InFlight(u)
    <3> DEFINE r == [th[u] EXCEPT !.expired = TRUE]
    <3>1. th' = [th EXCEPT ![u] = r]
      BY DEF Expire
    <3>2. /\ r \in CallerType /\ r.pc = th[u].pc /\ r.waker = th[u].waker /\ r.notified = th[u].notified
          /\ r.token = th[u].token /\ r.expired = TRUE /\ r.calm = th[u].calm
          /\ r.call = th[u].call /\ r.attempt = th[u].attempt /\ r.frame = th[u].frame
          /\ r.result = th[u].result /\ r.callee = th[u].callee /\ r.refetch = th[u].refetch
          /\ r.calm \in BOOLEAN
      BY <1>1 DEF CallerType
    <3> HIDE DEF r
    <3>3. Steps(u, th[u].pc, th[u].waker, th[u].notified, th[u].token, TRUE, r.calm)
      BY <1>1, <3>1, <3>2, Stepping
    <3> QED BY <1>2, <2>1, <3>2, <3>3
  <2>2. CASE InFlight(u)
    <3> DEFINE r == [th[u] EXCEPT !.expired = TRUE, !.calm = FALSE]
    <3>1. th' = [th EXCEPT ![u] = r]
      BY <2>2 DEF Expire
    <3>2. /\ r \in CallerType /\ r.pc = th[u].pc /\ r.waker = th[u].waker /\ r.notified = th[u].notified
          /\ r.token = th[u].token /\ r.expired = TRUE /\ r.calm = FALSE
          /\ r.call = th[u].call /\ r.attempt = th[u].attempt /\ r.frame = th[u].frame
          /\ r.result = th[u].result /\ r.callee = th[u].callee /\ r.refetch = th[u].refetch
      BY <1>1 DEF CallerType
    <3> HIDE DEF r
    <3>3. Steps(u, th[u].pc, th[u].waker, th[u].notified, th[u].token, TRUE, FALSE)
      BY <1>1, <3>1, <3>2, Stepping
    <3> QED BY <3>3
  <2> QED BY <2>1, <2>2
<1>4. ToldAt(u)'
  BY <1>3 DEF CallInv, Told, ToldAt, At, Completing, Corr, Steps, SameAttempt, Expire,
              callTables
<1> QED BY <1>2, <1>3, <1>4, PollKeeps DEF Expire, Steps, Polling

(* The future is dropped: the slot with it, and call_blocking tries once more, or
   a second attempt has failed, which is not the calm call's. *)
LEMMA AbandonStep ==
    ASSUME CallInv, NEW u \in Callers, Abandon(u)
    PROVE  CallInv'
<1>1. /\ TypeOK /\ th[u].pc = "abandon" /\ th[u].attempt \in {1, 2} /\ th[u].callee # None
      /\ Current(th[u].callee)
  <2>1. th[u] \in CallerType /\ th[u].pc = "abandon"
    BY DEF CallInv, TypeOK, Abandon, At
  <2>2. th[u].attempt \in 0..2 /\ th[u].attempt > 0
    BY <2>1, CallerFields DEF CallInv, Shape
  <2>3. th[u].attempt \in {1, 2}
    BY <2>2
  <2> QED BY <2>1, <2>3 DEF CallInv, Shape, HasCallee, Resolved
<1>2. CASE OnceMore(u)
  <2>1. MovedTo(u, "forget")
    BY <1>1, <1>2, Moving DEF Abandon, Pcs
  <2>2. AbandonedSlotsFreed' /\ Registered'
    BY <2>1, SlotGone DEF CallInv, Abandon, drop_pending, MovedTo
  <2>3. th[u].calm => ~ Sent(u) /\ CalmCallee(u)'
    BY <2>1 DEF CallInv, Calm, CalmCallee, Again, Sent, HasCallee, Abandon, callTables, MovedTo,
                SameAttempt, SameCallee
  <2> QED BY <1>1, <1>2, <2>1, <2>2, <2>3, MoveKeeps DEF Abandon, OnceMore, drop_pending,
             MovedTo, Polling, Unsent, TypeOK
<1>3. CASE ~ OnceMore(u)
  <2>1. th' = [th EXCEPT ![u] = Return(u, "timed out")]
    BY <1>3 DEF Abandon
  <2>2. ~ th[u].calm
    BY <1>1, <1>3 DEF CallInv, Calm, CalmCallee, Again, HasCallee, At, OnceMore
  <2> QED BY <2>1, <2>2, ReturnKeeps DEF Abandon, drop_pending, Results
<1> QED BY <1>2, <1>3

(* A call begins: nothing of it is anywhere yet. *)
LEMMA BeginStep ==
    ASSUME CallInv, NEW u \in Callers, Begin(u)
    PROVE  CallInv'
<1> DEFINE n == th[u].call + 1
           b == served /\ exposed.fp = MyFp
<1>1. /\ TypeOK /\ th[u].pc = "idle" /\ th[u] \in CallerType /\ th[u].call \in Nat /\ n \in 0..MaxCalls
      /\ n > th[u].call /\ n > 0 /\ b \in BOOLEAN
  <2>1. TypeOK /\ th[u].pc = "idle" /\ th[u] \in CallerType /\ th[u].call < MaxCalls
    BY DEF CallInv, TypeOK, Begin, At
  <2>2. th[u].call \in 0..MaxCalls
    BY <2>1, CallerFields
  <2> QED BY <2>1, <2>2, CallAssumption
<1>2. Started(u, n, 1, b)
  <2>1. th' = [th EXCEPT ![u] = [Caller EXCEPT !.pc = "cache", !.call = n, !.attempt = 1,
                                               !.token = th[u].token, !.calm = b]]
    BY DEF Begin
  <2>2. 1 \in 0..2
    OBVIOUS
  <2> HIDE DEF n, b
  <2> QED BY <1>1, <2>1, <2>2, Starting
<1>3. TypeOK'
  BY <1>1, <1>2 DEF Begin, TypeOK, Started, Alone, callTables
<1>4. Shape'
  <2>1. /\ th'[u].pc = "cache" /\ th'[u].call > 0 /\ th'[u].attempt > 0 /\ ~ th'[u].expired
        /\ \A v \in Callers \ {u} : th'[v] = th[v]
    BY <1>1, <1>2 DEF Started, Afresh, Alone
  <2> QED BY <2>1 DEF CallInv, Shape, HasCallee, Begin, callTables
<1>5. AbandonedSlotsFreed' /\ Registered'
  BY <1>1, <1>2, SlotGone DEF CallInv, Begin, Started, Slotted
<1>6. Told'
  BY <1>2, OthersTold DEF CallInv, ToldAt, At, Begin, Started
<1>7. Framed'
  <2>1. ~ Completing(u)'
    <3>1. CASE disp.corr = None
      BY <3>1 DEF CallInv, Shape, Completing, Begin, callTables
    <3>2. CASE disp.corr # None
      <4>1. disp.corr \in Corrs /\ disp.corr \in Ids
        BY <1>1, <3>2, IdsInType
      <4>2. disp.corr[1] = u => disp.corr[2] # n
        BY <1>1, <4>1 DEF CallInv, Fresh
      <4>3. Corr(u)'[1] = u /\ Corr(u)'[2] = n
        BY <1>2 DEF Corr, Started
      <4> QED BY <4>2, <4>3 DEF Completing, Begin, callTables
    <3> QED BY <3>1, <3>2
  <2> QED BY <1>2, <2>1, StaysFramed DEF CallInv, Begin, Started
<1>8. Resolved'
  BY <1>2, OthersResolved DEF CallInv, Begin, Started, Afresh
<1>9. Fresh' /\ \A c \in arena[exposed.arena] : ~ (c[1] = u /\ c[2] = n)
  <2>1. \A c \in Ids : c[1] = u => c[2] \in 1..th[u].call
    BY DEF CallInv, Fresh
  <2>2. exposed.arena \in Arenas
    BY <1>1, CalleeFields DEF TypeOK
  <2>3. \A c \in Ids : c[1] = u => c[2] \in 1..n /\ c[2] # n
    BY <1>1, <2>1
  <2>4. \A m \in (n + 1)..MaxCalls : runs[u][m] = 0
    BY <1>1 DEF CallInv, Fresh
  <2>5. th'[u].call = n /\ \A v \in Callers \ {u} : th'[v] = th[v]
    BY <1>2 DEF Started, Alone
  <2>6. Ids' = Ids /\ arena[exposed.arena] \subseteq Ids
    BY <1>1, <2>2, IdsInType DEF Ids, Begin, callTables
  <2> HIDE DEF n
  <2> QED BY <2>3, <2>4, <2>5, <2>6 DEF CallInv, Fresh, At, Begin, callTables
<1>10. Calm'
  <2>1. ASSUME th'[u].calm PROVE CalmCallee(u)' /\ CalmAnswer(u)' /\ CalmRuns(u)'
    <3>1. b
      BY <1>2, <2>1 DEF Started
    <3>2. ~ Again(u)' /\ th'[u].pc = "cache" /\ th'[u].call = n /\ th'[u].result = None
      BY <1>2 DEF Again, Started, Afresh
    <3>3. CalmCallee(u)' /\ ~ Sent(u)'
      BY <1>1, <3>1, <3>2 DEF CalmCallee, Sent, Polling, At, Begin, callTables
    <3>4. runs[u][n] = 0
      BY <1>1 DEF CallInv, Fresh
    <3>5. Mine(u)' = {}
      BY <1>9, <3>2 DEF Mine, Begin, callTables
    <3> QED BY <3>2, <3>3, <3>4, <3>5 DEF CalmAnswer, CalmRuns, At, Begin, callTables
  <2> QED BY <1>2, <2>1, StepKeepsCalm DEF CallInv, Begin, Started
<1> QED BY <1>3, <1>4, <1>5, <1>6, <1>7, <1>8, <1>9, <1>10 DEF CallInv

(* The second attempt of a calm call begins: its first has run nowhere. *)
LEMMA SecondAttemptStep ==
    ASSUME CallInv, NEW u \in Callers, SecondAttempt(u)
    PROVE  CallInv'
<1>1. /\ TypeOK /\ th[u].pc = "forget" /\ th[u] \in CallerType /\ th[u].call \in 0..MaxCalls
      /\ th[u].call > 0 /\ th[u].attempt = 1 /\ th[u].calm \in BOOLEAN
  <2>1. TypeOK /\ th[u].pc = "forget" /\ th[u] \in CallerType
    BY DEF CallInv, TypeOK, SecondAttempt, At
  <2> QED BY <2>1, CallerFields DEF CallInv, Shape
<1>2. Started(u, th[u].call, 2, th[u].calm)
  <2>1. th' = [th EXCEPT ![u] = [Caller EXCEPT !.pc = "cache", !.call = th[u].call, !.attempt = 2,
                                               !.token = th[u].token, !.calm = th[u].calm]]
    BY <1>1 DEF SecondAttempt
  <2>2. 2 \in 0..2
    OBVIOUS
  <2> QED BY <1>1, <2>1, <2>2, Starting
<1>3. TypeOK'
  BY <1>1, <1>2 DEF SecondAttempt, forget_callee, TypeOK, Started, Alone, callTables
<1>4. Shape'
  <2>1. /\ th'[u].pc = "cache" /\ th'[u].call > 0 /\ th'[u].attempt > 0 /\ ~ th'[u].expired
        /\ \A v \in Callers \ {u} : th'[v] = th[v]
    BY <1>1, <1>2 DEF Started, Afresh, Alone
  <2> QED BY <2>1 DEF CallInv, Shape, HasCallee, SecondAttempt, callTables
<1>5. AbandonedSlotsFreed' /\ Registered'
  BY <1>1, <1>2, SlotGone DEF CallInv, SecondAttempt, Started, Slotted
<1>6. Told'
  BY <1>2, OthersTold DEF CallInv, ToldAt, At, SecondAttempt, Started
<1>7. Framed'
  <2>1. ~ Completing(u)'
    <3>1. CASE disp.corr = None
      BY <3>1 DEF CallInv, Shape, Completing, SecondAttempt, callTables
    <3>2. CASE disp.corr # None
      <4>1. disp.corr \in Corrs /\ disp.corr \in Ids
        BY <1>1, <3>2, IdsInType
      <4>2. disp.corr[1] = u /\ disp.corr[2] = th[u].call => disp.corr[3] # 2
        BY <1>1, <4>1 DEF CallInv, Fresh, At
      <4>3. Corr(u)'[1] = u /\ Corr(u)'[2] = th[u].call /\ Corr(u)'[3] = 2
        BY <1>2 DEF Corr, Started
      <4> QED BY <4>2, <4>3 DEF Completing, SecondAttempt, callTables
    <3> QED BY <3>1, <3>2
  <2> QED BY <1>2, <2>1, StaysFramed DEF CallInv, SecondAttempt, Started
<1>8. Resolved'
  BY <1>2, OthersResolved DEF CallInv, SecondAttempt, forget_callee, Started, Afresh
<1>9. Fresh'
  <2>1. \A c \in Ids :
            c[1] = u => /\ c[2] \in 1..th[u].call
                        /\ c[2] = th[u].call => c[3] \in 0..2 /\ c[3] <= 1
    <3>1. \A c \in Ids : c \in Corrs
      BY <1>1, IdsInType
    <3> QED BY <1>1, CorrFields DEF CallInv, Fresh, Ids, At
  <2>2. \A c \in Ids :
            c[1] = u => /\ c[2] \in 1..th[u].call
                        /\ c[2] = th[u].call => c[3] < 2 /\ c[3] <= 2
    BY <2>1
  <2>3. th'[u].call = th[u].call /\ th'[u].attempt = 2 /\ \A v \in Callers \ {u} : th'[v] = th[v]
    BY <1>2 DEF Started, Alone
  <2> QED BY <2>2, <2>3 DEF CallInv, Fresh, Ids, At, SecondAttempt, callTables
<1>10. Calm'
  <2>1. ASSUME th'[u].calm PROVE CalmCallee(u)' /\ CalmAnswer(u)' /\ CalmRuns(u)'
    <3>1. CalmCallee(u) /\ CalmRuns(u) /\ ~ Sent(u) /\ ~ Sent(u)'
      BY <1>1, <1>2, <2>1 DEF CallInv, Calm, Sent, Polling, Started
    <3>2. CalmCallee(u)'
      BY <1>2, <3>1 DEF CalmCallee, HasCallee, At, SecondAttempt, forget_callee, callTables,
                        Started
    <3>3. CalmRuns(u)'
      BY <3>1, SameRuns DEF At, SecondAttempt
    <3> QED BY <3>1, <3>2, <3>3 DEF CalmAnswer
  <2> QED BY <1>2, <2>1, StepKeepsCalm DEF CallInv, SecondAttempt, forget_callee, Started
<1> QED BY <1>3, <1>4, <1>5, <1>6, <1>7, <1>8, <1>9, <1>10 DEF CallInv

(***************************************************************************)
(* The callee, the broker and the dispatcher.                              *)
(***************************************************************************)
(* Where every caller's calm ends. *)
LEMMA DisturbKeeps ==
    ASSUME CallInv, th' = [u \in Callers |-> Disturbed(u)], exposed' \in Callees, served' \in BOOLEAN,
           UNCHANGED <<cache, arena, replies, pending, disp, runs, faults>>,
           ~ served' => exposed'.arena <= MaxMoves,
           \A e \in Callees : Current(e) => Current(e)'
    PROVE  CallInv'
<1>1. TypeOK /\ th' \in [Callers -> CallerType] /\ \A u \in Callers : Unmoved(u)
  <2>1. TypeOK /\ \A u \in Callers : Disturbed(u) \in CallerType
    BY DisturbedType DEF CallInv
  <2>2. \A u \in Callers : Unmoved(u)
    BY <2>1, DisturbedUnmoved
  <2> QED BY <2>1, <2>2
<1>2. TypeOK'
  BY <1>1 DEF TypeOK
<1>3. \A u \in Callers :
          /\ th'[u].pc = th[u].pc /\ th'[u].callee = th[u].callee /\ th'[u].call = th[u].call
          /\ th'[u].attempt = th[u].attempt /\ th'[u].expired = th[u].expired
          /\ Corr(u)' = Corr(u)
  BY <1>1 DEF Unmoved, SameAttempt, SameCallee, Corr
<1>4. Shape'
  BY <1>3 DEF CallInv, Shape
<1>5. AbandonedSlotsFreed' /\ Registered'
  BY <1>3 DEF CallInv, AbandonedSlotsFreed, Registered, At
<1>6. Told'
  BY <1>1, <1>3 DEF CallInv, Told, ToldAt, At, Completing, Unmoved, SameAttempt, SameFlags
<1>7. Framed'
  BY <1>1, <1>3 DEF CallInv, Framed, At, Completing, Unmoved, SameAttempt
<1>8. Resolved'
  <2>1. \A u \in Callers : th[u].callee \in Callees \cup {None}
    BY <1>1, CallerFields DEF TypeOK
  <2> QED BY <1>3, <2>1 DEF CallInv, Resolved, TypeOK
<1>9. Fresh'
  BY <1>3 DEF CallInv, Fresh, Ids, At
<1>10. Calm'
  BY <1>1 DEF Calm, Unmoved
<1> QED BY <1>2, <1>4, <1>5, <1>6, <1>7, <1>8, <1>9, <1>10 DEF CallInv

LEMMA DieStep ==
    ASSUME CallInv, Die
    PROVE  CallInv'
<1>1. /\ exposed' \in Callees /\ served' \in BOOLEAN /\ (~ served' => exposed'.arena <= MaxMoves)
      /\ \A e \in Callees : Current(e) => Current(e)'
  <2>1. exposed \in Callees /\ exposed.arena \in Nat /\ MaxMoves \in Nat
    BY CalleeFields, CallAssumption DEF CallInv, TypeOK
  <2>2. exposed.arena <= MaxMoves
    BY <2>1 DEF Die
  <2> QED BY <2>1, <2>2 DEF Die, Current
<1> QED BY <1>1, DisturbKeeps DEF Die

(* Every resolution is older than the new arena. *)
LEMMA ReexposeStep ==
    ASSUME CallInv, Reexpose
    PROVE  CallInv'
<1>1. exposed \in Callees /\ exposed.arena \in Nat /\ exposed.arena \in 1..MaxMoves
  <2>1. exposed \in Callees /\ exposed.arena \in Arenas /\ exposed.arena <= MaxMoves
    BY CalleeFields DEF CallInv, TypeOK, Shape, Reexpose
  <2> QED BY <2>1 DEF Arenas
<1>2. PICK fp \in Fps : exposed' = [arena |-> exposed.arena + 1, fp |-> fp]
  BY DEF Reexpose
<1>3. exposed' \in Callees /\ exposed'.arena = exposed.arena + 1
  BY <1>1, <1>2, CallAssumption DEF Callees, Arenas
<1>4. \A e \in Callees : Current(e) => Current(e)'
  BY <1>1, <1>3, CalleeFields DEF Current
<1> QED BY <1>3, <1>4, DisturbKeeps DEF Reexpose

(* The dispatcher finds nobody waiting for the id, or takes the slot out. *)
LEMMA DispatchStep ==
    ASSUME CallInv, Dispatch
    PROVE  CallInv'
<1>1. PICK c \in replies : /\ replies' = replies \ {c} /\ pending' = pending \ {c}
                           /\ disp' = IF c \in pending THEN [corr |-> c, pc |-> "complete"] ELSE disp
  BY DEF Dispatch
<1>2. TypeOK /\ c \in Corrs /\ c # None /\ disp.pc = "pop" /\ disp.corr = None
  <2>1. c \in Corrs
    BY DEF CallInv, TypeOK
  <2> QED BY <2>1, NoneIsNoId DEF CallInv, Shape, Dispatch
<1>3. TypeOK'
  BY <1>2 DEF TypeOK, Dispatch
<1>4. Shape'
  BY <1>1, <1>2 DEF CallInv, Shape, Dispatch
<1>5. AbandonedSlotsFreed' /\ Fresh'
  <2>1. Ids' \subseteq Ids
    <3>1. disp'.corr \in {c, disp.corr}
      BY <1>1
    <3> QED BY DEF Ids, Dispatch
  <2> QED BY <2>1 DEF CallInv, AbandonedSlotsFreed, Fresh, Corr, At, Dispatch
<1>6. Registered'
  <2>1. \A u \in Callers : At(u, "push") => c # Corr(u)
    <3>1. c \in Ids
      BY <1>2, IdsInType
    <3>2. ASSUME NEW u \in Callers, At(u, "push"), c = Corr(u)
          PROVE  FALSE
      <4>1. c[1] = u /\ c[2] = th[u].call /\ c[3] = th[u].attempt
        BY <1>2, <3>2, CorrIds
      <4>2. th[u].attempt \in Nat
        BY <1>2, CallerFields DEF TypeOK
      <4>3. c[3] < th[u].attempt
        BY <3>1, <3>2, <4>1 DEF CallInv, Fresh, Unsent, At
      <4> QED BY <4>1, <4>2, <4>3
    <3> QED BY <3>2
  <2> QED BY <1>1, <2>1 DEF CallInv, Registered, Corr, At, Dispatch
<1>7. Told' /\ Framed' /\ Resolved'
  BY DEF CallInv, Told, ToldAt, Framed, Completing, Resolved, Current, At, Dispatch
<1>8. Calm'
  <2> SUFFICES ASSUME NEW u \in Callers, th[u].calm
               PROVE  CalmCallee(u)' /\ CalmAnswer(u)' /\ CalmRuns(u)'
    BY DEF Calm, Dispatch
  <2>1. CalmCallee(u) /\ CalmAnswer(u) /\ CalmRuns(u)
    BY DEF CallInv, Calm
  <2>2. CalmCallee(u)' /\ CalmRuns(u)'
    BY <2>1 DEF CalmCallee, CalmRuns, Again, RunsOnce, Mine, Sent, At, Dispatch
  <2>3. CalmAnswer(u)'
    BY <2>1 DEF CalmAnswer, OnItsWay, Sent, Corr, Dispatch
  <2> QED BY <2>2, <2>3
<1> QED BY <1>3, <1>4, <1>5, <1>6, <1>7, <1>8 DEF CallInv

(* The service answers a request that it takes from the arena; of a calm call it has
   had no other. *)
LEMMA RespondStep ==
    ASSUME CallInv, Respond
    PROVE  CallInv'
<1> DEFINE a == exposed.arena
<1>1. TypeOK /\ a \in Arenas /\ IsFiniteSet(arena[a]) /\ served
  BY CalleeFields DEF CallInv, TypeOK, Shape, Respond
<1>2. PICK r \in arena[a] : /\ arena' = [arena EXCEPT ![a] = @ \ {r}]
                            /\ replies' = replies \cup {r}
                            /\ runs' = [runs EXCEPT ![r[1]][r[2]] = @ + 1]
  BY DEF Respond
<1>3. r \in Corrs /\ r \in Ids /\ r[1] \in Callers /\ r[2] \in 1..th[r[1]].call /\ r[2] \in 1..MaxCalls
  <2>1. r \in Ids /\ r \in Corrs
    BY <1>1, IdsInType
  <2>2. r[1] \in Callers /\ r[2] \in 0..MaxCalls
    BY <2>1, CorrFields
  <2>3. r[2] \in 1..th[r[1]].call
    BY <2>1, <2>2 DEF CallInv, Fresh
  <2> QED BY <2>1, <2>2, <2>3
<1>4. /\ arena'[a] = arena[a] \ {r} /\ \A b \in Arenas \ {a} : arena'[b] = arena[b]
      /\ IsFiniteSet(arena'[a]) /\ Cardinality(arena'[a]) <= ArenaCap
  <2>1. arena'[a] = arena[a] \ {r} /\ \A b \in Arenas \ {a} : arena'[b] = arena[b]
    BY <1>1, <1>2 DEF TypeOK
  <2>2. /\ IsFiniteSet(arena[a] \ {r}) /\ Cardinality(arena[a]) \in Nat
        /\ Cardinality(arena[a] \ {r}) \in Nat
        /\ Cardinality(arena[a] \ {r}) <= Cardinality(arena[a])
    BY <1>1, FS_CardinalityType, FS_Subset
  <2>3. Cardinality(arena[a]) <= ArenaCap /\ ArenaCap \in Nat
    BY <1>1, CallAssumption DEF TypeOK
  <2>4. Cardinality(arena[a] \ {r}) <= ArenaCap
    BY <2>2, <2>3
  <2> QED BY <2>1, <2>2, <2>4
<1>5. /\ runs' \in [Callers -> [1..MaxCalls -> Nat]]
      /\ runs'[r[1]][r[2]] = runs[r[1]][r[2]] + 1
      /\ \A u \in Callers, n \in 1..MaxCalls : u # r[1] \/ n # r[2] => runs'[u][n] = runs[u][n]
  <2>1. runs \in [Callers -> [1..MaxCalls -> Nat]]
    BY <1>1 DEF TypeOK
  <2>2. runs[r[1]] \in [1..MaxCalls -> Nat]
    BY <1>3, <2>1
  <2> DEFINE m == runs[r[1]][r[2]] + 1
             f == [runs[r[1]] EXCEPT ![r[2]] = m]
  <2>3. m \in Nat
    <3>1. runs[r[1]][r[2]] \in Nat
      BY <1>3, <2>2
    <3> QED BY <3>1
  <2>4. runs' = [runs EXCEPT ![r[1]] = f]
    BY <1>2
  <2>5. /\ f \in [1..MaxCalls -> Nat] /\ f[r[2]] = m
        /\ \A n \in 1..MaxCalls : n # r[2] => f[n] = runs[r[1]][n]
    <3> HIDE DEF m
    <3> QED BY <1>3, <2>2, <2>3
  <2>6. /\ runs' \in [Callers -> [1..MaxCalls -> Nat]] /\ runs'[r[1]] = f
        /\ \A u \in Callers \ {r[1]} : runs'[u] = runs[u]
    <3> HIDE DEF f
    <3> QED BY <1>3, <2>1, <2>4, <2>5
  <2> HIDE DEF f
  <2> QED BY <2>5, <2>6
<1>6. TypeOK'
  BY <1>1, <1>2, <1>3, <1>4, <1>5 DEF TypeOK, Respond
<1>7. Shape'
  BY <1>4 DEF CallInv, Shape, Respond
<1>8. AbandonedSlotsFreed' /\ Registered' /\ Told' /\ Framed' /\ Resolved'
  BY DEF CallInv, AbandonedSlotsFreed, Registered, Told, ToldAt, Framed, Completing, Resolved,
         Current, Corr, At, Respond
<1>9. Fresh'
  <2>1. Ids' \subseteq Ids
    BY <1>1 DEF Ids, Respond
  <2>2. ASSUME NEW u \in Callers, NEW n \in (th[u].call + 1)..MaxCalls
        PROVE  runs'[u][n] = 0
    <3>1. th[u].call \in 0..MaxCalls
      BY <1>1, CallerFields DEF TypeOK
    <3>2. n \in 1..MaxCalls /\ n \notin 1..th[u].call
      BY <3>1
    <3> QED BY <1>3, <1>5, <3>2 DEF CallInv, Fresh
  <2> QED BY <2>1, <2>2 DEF CallInv, Fresh, At, Respond
<1>10. Calm'
  <2> SUFFICES ASSUME NEW u \in Callers, th[u].calm
               PROVE  CalmCallee(u)' /\ CalmAnswer(u)' /\ CalmRuns(u)'
    BY DEF Calm, Respond
  <2>1. CalmCallee(u) /\ CalmAnswer(u) /\ CalmRuns(u)
    BY DEF CallInv, Calm
  <2>2. CalmCallee(u)'
    BY <2>1 DEF CalmCallee, Again, At, Respond
  <2>3. CalmAnswer(u)'
    BY <2>1 DEF CalmAnswer, OnItsWay, Sent, Corr, Respond
  <2>4. th[u].call \in 1..MaxCalls /\ runs[u][th[u].call] \in Nat
    <3>1. th[u].call \in 0..MaxCalls /\ th[u].call > 0
      BY <1>1, <2>1, CallerFields DEF TypeOK, CalmCallee
    <3>2. th[u].call \in 1..MaxCalls
      BY <3>1
    <3> QED BY <1>1, <3>2 DEF TypeOK
  <2>5. CASE r[1] = u /\ r[2] = th[u].call
    <3>1. r \in Mine(u)
      BY <2>5 DEF Mine
    <3>2. runs[u][th[u].call] = 0 /\ (\A c, d \in Mine(u) : c = d) /\ (At(u, "idle") \/ Sent(u))
      BY <2>1, <3>1 DEF CalmRuns, RunsOnce
    <3>3. Mine(u)' = {} /\ runs'[u][th[u].call] = 1
      BY <1>4, <1>5, <3>1, <3>2 DEF Mine, Respond
    <3> QED BY <2>2, <2>3, <3>2, <3>3 DEF CalmRuns, RunsOnce, Sent, At, Respond
  <2>6. CASE ~ (r[1] = u /\ r[2] = th[u].call)
    <3>1. Mine(u)' = Mine(u) /\ runs'[u][th[u].call] = runs[u][th[u].call]
      BY <1>4, <2>6 DEF Mine, Respond
    <3> QED BY <2>1, <2>2, <2>3, <3>1 DEF CalmRuns, RunsOnce, Sent, At, Respond
  <2> QED BY <2>5, <2>6
<1> QED BY <1>6, <1>7, <1>8, <1>9, <1>10 DEF CallInv

(* Slot::complete: the waker that the caller left goes with the answer. *)
LEMMA CompleteStep ==
    ASSUME CallInv, Complete
    PROVE  CallInv'
<1>1. TypeOK /\ disp.pc = "complete" /\ disp.corr # None
  BY DEF CallInv, Shape, Complete
<1>2. /\ th' \in [Callers -> CallerType]
      /\ \A u \in Callers : /\ Corr(u) # disp.corr => th'[u] = th[u]
                            /\ Corr(u) = disp.corr => th'[u] = [th[u] EXCEPT !.frame = TRUE]
  <2>1. th' = [u \in Callers |-> IF Corr(u) = disp.corr THEN [th[u] EXCEPT !.frame = TRUE] ELSE th[u]]
    BY DEF Complete, WaiterOf
  <2>2. \A u \in Callers : th[u] \in CallerType
    BY <1>1 DEF TypeOK
  <2>3. \A u \in Callers : [th[u] EXCEPT !.frame = TRUE] \in CallerType
    BY <2>2 DEF CallerType
  <2> QED BY <2>1, <2>2, <2>3
<1>3. \A u \in Callers :
          /\ th'[u].pc = th[u].pc /\ th'[u].call = th[u].call /\ th'[u].attempt = th[u].attempt
          /\ th'[u].refetch = th[u].refetch /\ th'[u].callee = th[u].callee
          /\ th'[u].waker = th[u].waker /\ th'[u].notified = th[u].notified
          /\ th'[u].token = th[u].token /\ th'[u].expired = th[u].expired
          /\ th'[u].result = th[u].result /\ th'[u].calm = th[u].calm
          /\ Corr(u) = disp.corr => th'[u].frame = TRUE
          /\ Corr(u) # disp.corr => th'[u].frame = th[u].frame
  <2> SUFFICES ASSUME NEW u \in Callers
               PROVE  /\ th'[u].pc = th[u].pc /\ th'[u].call = th[u].call /\ th'[u].attempt = th[u].attempt
                      /\ th'[u].refetch = th[u].refetch /\ th'[u].callee = th[u].callee
                      /\ th'[u].waker = th[u].waker /\ th'[u].notified = th[u].notified
                      /\ th'[u].token = th[u].token /\ th'[u].expired = th[u].expired
                      /\ th'[u].result = th[u].result /\ th'[u].calm = th[u].calm
                      /\ Corr(u) = disp.corr => th'[u].frame = TRUE
                      /\ Corr(u) # disp.corr => th'[u].frame = th[u].frame
    OBVIOUS
  <2>1. th[u] \in CallerType
    BY <1>1 DEF TypeOK
  <2>2. CASE Corr(u) # disp.corr
    BY <1>2, <2>2
  <2>3. CASE Corr(u) = disp.corr
    <3>1. th'[u] = [th[u] EXCEPT !.frame = TRUE]
      BY <1>2, <2>3
    <3> QED BY <2>3, <3>1
  <2> QED BY <2>2, <2>3
<1>4. \A u \in Callers : Corr(u)' = Corr(u)
  BY <1>3 DEF Corr
<1>5. \/ disp' = [corr |-> None, pc |-> "pop"] /\ \A u \in Callers : Corr(u) = disp.corr => ~ th[u].waker
      \/ disp'.corr = disp.corr /\ disp'.pc = "wake" /\ disp' \in [corr : Corrs \cup {None}, pc : {"wake"}]
  BY <1>1 DEF Complete, WaiterOf, TypeOK
<1>6. TypeOK'
  BY <1>1, <1>2 DEF TypeOK, Complete
<1>7. Shape'
  BY DEF CallInv, Shape, Complete
<1>8. AbandonedSlotsFreed' /\ Registered' /\ Resolved'
  BY <1>4 DEF CallInv, AbandonedSlotsFreed, Registered, Resolved, Current, At, Complete
<1>9. Told' /\ Framed'
  <2> SUFFICES ASSUME NEW u \in Callers
               PROVE  ToldAt(u)' /\ (Completing(u) /\ ~ At(u, "idle") => th[u].frame)'
    BY DEF Told, Framed
  <2>1. ToldAt(u)
    BY DEF CallInv, Told
  <2>2. CASE Corr(u) = disp.corr
    BY <1>1, <1>3, <1>4, <1>5, <2>1 DEF ToldAt, At, Completing
  <2>3. CASE Corr(u) # disp.corr
    BY <1>3, <1>4, <1>5, <2>1, <2>3 DEF ToldAt, At, Completing
  <2> QED BY <2>2, <2>3
<1>10. Fresh'
  <2>1. Ids' \subseteq Ids
    BY NoneIsNoId DEF Ids, Complete
  <2> QED BY <2>1 DEF CallInv, Fresh, At, Complete
<1>11. Calm'
  <2> SUFFICES ASSUME NEW u \in Callers, th[u].calm
               PROVE  CalmCallee(u)' /\ CalmAnswer(u)' /\ CalmRuns(u)'
    BY <1>3 DEF Calm
  <2>1. CalmCallee(u) /\ CalmAnswer(u) /\ CalmRuns(u)
    BY DEF CallInv, Calm
  <2>2. CalmCallee(u)'
    BY <2>1 DEF CalmCallee, Again, At, Complete
  <2>3. CalmAnswer(u)'
    <3>1. th[u].frame => th'[u].frame
      BY <1>3
    <3>2. OnItsWay(u) => OnItsWay(u)'
      BY <1>3, <1>4, <3>1 DEF OnItsWay, Complete
    <3> QED BY <2>1, <3>2 DEF CalmAnswer, Sent, Complete
  <2>4. CalmRuns(u)'
    BY <2>1 DEF CalmRuns, RunsOnce, Mine, Sent, At, Complete
  <2> QED BY <2>2, <2>3, <2>4
<1> QED BY <1>6, <1>7, <1>8, <1>9, <1>10, <1>11 DEF CallInv

(* wake sets the caller's flag; the answer is in the slot. *)
LEMMA WakeStep ==
    ASSUME CallInv, Wake
    PROVE  CallInv'
<1>1. TypeOK /\ disp.pc = "wake" /\ disp.corr # None
  BY DEF CallInv, Shape, Wake
<1>2. /\ th' \in [Callers -> CallerType]
      /\ \A u \in Callers : /\ Corr(u) # disp.corr => th'[u] = th[u]
                            /\ Corr(u) = disp.corr =>
                                   th'[u] = [th[u] EXCEPT !.notified = TRUE, !.waker = FALSE]
  <2>1. th' = [u \in Callers |-> IF Corr(u) = disp.corr
                                 THEN [th[u] EXCEPT !.notified = TRUE, !.waker = FALSE] ELSE th[u]]
    BY DEF Wake, WaiterOf
  <2>2. \A u \in Callers : th[u] \in CallerType
    BY <1>1 DEF TypeOK
  <2>3. \A u \in Callers : [th[u] EXCEPT !.notified = TRUE, !.waker = FALSE] \in CallerType
    BY <2>2 DEF CallerType
  <2> QED BY <2>1, <2>2, <2>3
<1>3. \A u \in Callers :
          /\ th'[u].pc = th[u].pc /\ th'[u].call = th[u].call /\ th'[u].attempt = th[u].attempt
          /\ th'[u].refetch = th[u].refetch /\ th'[u].callee = th[u].callee
          /\ th'[u].frame = th[u].frame /\ th'[u].token = th[u].token
          /\ th'[u].expired = th[u].expired /\ th'[u].result = th[u].result
          /\ th'[u].calm = th[u].calm
          /\ Corr(u) = disp.corr => th'[u].notified = TRUE
          /\ Corr(u) # disp.corr => th'[u].notified = th[u].notified /\ th'[u].waker = th[u].waker
  <2> SUFFICES ASSUME NEW u \in Callers
               PROVE  /\ th'[u].pc = th[u].pc /\ th'[u].call = th[u].call /\ th'[u].attempt = th[u].attempt
                      /\ th'[u].refetch = th[u].refetch /\ th'[u].callee = th[u].callee
                      /\ th'[u].frame = th[u].frame /\ th'[u].token = th[u].token
                      /\ th'[u].expired = th[u].expired /\ th'[u].result = th[u].result
                      /\ th'[u].calm = th[u].calm
                      /\ Corr(u) = disp.corr => th'[u].notified = TRUE
                      /\ Corr(u) # disp.corr => th'[u].notified = th[u].notified /\ th'[u].waker = th[u].waker
    OBVIOUS
  <2>1. th[u] \in CallerType
    BY <1>1 DEF TypeOK
  <2>2. CASE Corr(u) # disp.corr
    BY <1>2, <2>2
  <2>3. CASE Corr(u) = disp.corr
    <3>1. th'[u] = [th[u] EXCEPT !.notified = TRUE, !.waker = FALSE]
      BY <1>2, <2>3
    <3> QED BY <2>3, <3>1
  <2> QED BY <2>2, <2>3
<1>4. \A u \in Callers : Corr(u)' = Corr(u)
  BY <1>3 DEF Corr
<1>5. disp'.corr = disp.corr /\ disp'.pc = "unpark" /\ disp' \in [corr : Corrs \cup {None}, pc : {"unpark"}]
  BY <1>1 DEF Wake, TypeOK
<1>6. UNCHANGED <<exposed, served, cache, arena, replies, pending, runs, faults>>
  BY DEF Wake
<1>7. TypeOK'
  BY <1>1, <1>2, <1>5, <1>6 DEF TypeOK
<1>8. Shape'
  BY <1>1, <1>3, <1>5, <1>6 DEF CallInv, Shape
<1>9. AbandonedSlotsFreed' /\ Registered' /\ Resolved'
  BY <1>3, <1>4, <1>6 DEF CallInv, AbandonedSlotsFreed, Registered, Resolved, Current, At
<1>10. Told' /\ Framed'
  <2> SUFFICES ASSUME NEW u \in Callers
               PROVE  ToldAt(u)' /\ (Completing(u) /\ ~ At(u, "idle") => th[u].frame)'
    BY DEF Told, Framed
  <2>1. ToldAt(u) /\ (Completing(u) /\ ~ At(u, "idle") => th[u].frame)
    BY DEF CallInv, Told, Framed
  <2>2. CASE Corr(u) = disp.corr
    BY <1>1, <1>3, <1>4, <1>5, <2>1 DEF ToldAt, At, Completing
  <2>3. CASE Corr(u) # disp.corr
    BY <1>3, <1>4, <1>5, <2>1, <2>3 DEF ToldAt, At, Completing
  <2> QED BY <2>2, <2>3
<1>11. Fresh'
  <2>1. Ids' = Ids
    BY <1>5, <1>6 DEF Ids
  <2> QED BY <1>3, <1>6, <2>1 DEF CallInv, Fresh, At
<1>12. Calm'
  <2> SUFFICES ASSUME NEW u \in Callers, th[u].calm
               PROVE  CalmCallee(u)' /\ CalmAnswer(u)' /\ CalmRuns(u)'
    BY <1>3 DEF Calm
  <2>1. CalmCallee(u) /\ CalmAnswer(u) /\ CalmRuns(u)
    BY DEF CallInv, Calm
  <2>2. CalmCallee(u)'
    BY <1>3, <1>6, <2>1 DEF CalmCallee, Again, At
  <2>3. CalmAnswer(u)'
    BY <1>1, <1>3, <1>4, <1>6, <2>1 DEF CalmAnswer, OnItsWay, Sent
  <2>4. CalmRuns(u)'
    BY <1>3, <1>6, <2>1 DEF CalmRuns, RunsOnce, Mine, Sent, At
  <2> QED BY <2>2, <2>3, <2>4
<1> QED BY <1>7, <1>8, <1>9, <1>10, <1>11, <1>12 DEF CallInv

(* unpark leaves the token to the thread whose slot was completed. *)
LEMMA UnparkStep ==
    ASSUME CallInv, Unpark
    PROVE  CallInv'
<1> DEFINE w == disp.corr[1]
<1>1. TypeOK /\ disp.pc = "unpark" /\ disp.corr # None /\ w \in Callers /\ th[w] \in CallerType
  <2>1. TypeOK /\ disp.pc = "unpark" /\ disp.corr # None /\ disp.corr \in Corrs
    BY DEF CallInv, Shape, TypeOK, Unpark
  <2>2. w \in Callers
    BY <2>1, CorrFields
  <2> QED BY <2>1, <2>2 DEF TypeOK
<1> DEFINE r == [th[w] EXCEPT !.token = TRUE]
<1>2. /\ r \in CallerType /\ r.pc = th[w].pc /\ r.waker = th[w].waker /\ r.notified = th[w].notified
      /\ r.token = TRUE /\ r.expired = th[w].expired /\ r.calm = th[w].calm
      /\ r.call = th[w].call /\ r.attempt = th[w].attempt /\ r.frame = th[w].frame
      /\ r.result = th[w].result /\ r.callee = th[w].callee /\ r.refetch = th[w].refetch
  BY <1>1 DEF CallerType
<1>3. th' = [th EXCEPT ![w] = r]
  BY DEF Unpark
<1> HIDE DEF r
<1>4. Steps(w, th[w].pc, th[w].waker, th[w].notified, TRUE, th[w].expired, th[w].calm)
  <2> HIDE DEF w
  <2> QED BY <1>1, <1>2, <1>3, Stepping
<1>5. disp' = [corr |-> None, pc |-> "pop"]
  BY DEF Unpark
<1>6. TypeOK'
  BY <1>1, <1>4 DEF TypeOK, Unpark, Steps, Alone
<1>7. \A u \in Callers :
          /\ th'[u].pc = th[u].pc /\ th'[u].call = th[u].call /\ th'[u].attempt = th[u].attempt
          /\ th'[u].refetch = th[u].refetch /\ th'[u].callee = th[u].callee
          /\ th'[u].frame = th[u].frame /\ th'[u].waker = th[u].waker
          /\ th'[u].notified = th[u].notified /\ (th[u].token => th'[u].token)
          /\ th'[u].expired = th[u].expired /\ th'[u].result = th[u].result
          /\ th'[u].calm = th[u].calm
  <2> HIDE DEF w
  <2> QED BY <1>4 DEF Steps, Alone, SameAttempt, SameCallee
<1>8. \A u \in Callers : Corr(u)' = Corr(u)
  BY <1>7 DEF Corr
<1>9. Shape'
  BY DEF CallInv, Shape, Unpark
<1>10. AbandonedSlotsFreed' /\ Registered' /\ Resolved'
  BY <1>8 DEF CallInv, AbandonedSlotsFreed, Registered, Resolved, Current, At, Unpark
<1>11. Told' /\ Framed'
  <2> SUFFICES ASSUME NEW u \in Callers
               PROVE  ToldAt(u)'
    BY <1>5 DEF Told, Framed, Completing
  <2>1. ToldAt(u)
    BY DEF CallInv, Told
  <2>2. Completing(u) => th'[u].token
    <3>1. Completing(u) => u = w
      BY <1>1, CorrIds DEF Completing
    <3> QED BY <1>4, <3>1 DEF Steps
  <2> QED BY <1>1, <1>7, <2>1, <2>2 DEF ToldAt, At
<1>12. Fresh'
  <2>1. Ids' \subseteq Ids
    BY NoneIsNoId DEF Ids, Unpark
  <2> QED BY <2>1 DEF CallInv, Fresh, At, Unpark
<1>13. Calm'
  <2> SUFFICES ASSUME NEW u \in Callers, th[u].calm
               PROVE  CalmCallee(u)' /\ CalmAnswer(u)' /\ CalmRuns(u)'
    BY <1>7 DEF Calm
  <2>1. CalmCallee(u) /\ CalmAnswer(u) /\ CalmRuns(u)
    BY DEF CallInv, Calm
  <2>2. CalmCallee(u)'
    BY <2>1 DEF CalmCallee, Again, At, Unpark
  <2>3. CalmAnswer(u)'
    BY <1>8, <2>1 DEF CalmAnswer, OnItsWay, Sent, Unpark
  <2>4. CalmRuns(u)'
    BY <2>1 DEF CalmRuns, RunsOnce, Mine, Sent, At, Unpark
  <2> QED BY <2>2, <2>3, <2>4
<1> QED BY <1>6, <1>9, <1>10, <1>11, <1>12, <1>13 DEF CallInv

(***************************************************************************)
(* The theorems.                                                           *)
(***************************************************************************)
(* No call is under way, and the callee is there. *)
LEMMA InitOK ==
    Init => CallInv
<1> SUFFICES ASSUME Init PROVE CallInv
  OBVIOUS
<1>1. \A u \in Callers : th[u] = Caller
  BY DEF Init
<1>2. \A a \in Arenas : arena[a] = {} /\ IsFiniteSet(arena[a]) /\ Cardinality(arena[a]) = 0
  BY FS_EmptySet DEF Init
<1>3. TypeOK
  <2>1. exposed \in Callees
    BY CallAssumption DEF Init, Callees, Arenas
  <2>2. th \in [Callers -> CallerType]
    BY IdleCaller DEF Init
  <2>3. runs \in [Callers -> [1..MaxCalls -> Nat]] /\ faults \in 0..MaxFaults
    BY CallAssumption DEF Init
  <2>4. arena \in [Arenas -> SUBSET Corrs] /\ \A a \in Arenas : Cardinality(arena[a]) <= ArenaCap
    BY <1>2, CallAssumption DEF Init
  <2> QED BY <2>1, <2>2, <2>3, <2>4 DEF Init, TypeOK
<1>4. \A u \in Callers : /\ th[u].pc = "idle" /\ th[u].callee = None /\ th[u].call = 0
                         /\ ~ th[u].calm
  BY <1>1 DEF Caller
<1>5. Shape /\ AbandonedSlotsFreed /\ Registered
  BY <1>2, <1>4 DEF Init, Shape, AbandonedSlotsFreed, Registered, HasCallee, Unsent, At
<1>6. Told /\ Framed /\ Resolved /\ Calm
  BY <1>4 DEF Init, Told, ToldAt, Framed, Resolved, Calm, At
<1>7. Fresh
  <2>1. Ids = {}
    BY NoneIsNoId DEF Ids, Init
  <2> QED BY <1>4, <2>1 DEF Fresh, Init
<1> QED BY <1>3, <1>5, <1>6, <1>7 DEF CallInv

(* Every step of a caller, of the callee and of the dispatcher keeps the invariant. *)
LEMMA NextOK ==
    CallInv /\ [Next]_vars => CallInv'
<1> SUFFICES ASSUME CallInv, [Next]_vars PROVE CallInv'
  OBVIOUS
<1>1. CASE Die \/ Reexpose \/ Respond
  BY <1>1, DieStep, ReexposeStep, RespondStep
<1>2. CASE Dispatcher
  BY <1>2, DispatchStep, CompleteStep, WakeStep, UnparkStep DEF Dispatcher
<1>3. ASSUME NEW u \in Callers, Begin(u) \/ Step(u) \/ Expire(u)
      PROVE  CallInv'
  BY <1>3, BeginStep, ExpireStep, LookInCacheStep, LookupStep, OpenStep, InsertStep, MatchStep,
     RegisterStep, PushStep, FullStep, ForgetFullStep, PollStep, DeadlineStep, UnparkedStep,
     AbandonStep, SecondAttemptStep DEF Step
<1>4. CASE UNCHANGED vars
  BY <1>4 DEF vars, CallInv, TypeOK, Shape, AbandonedSlotsFreed, Registered, Told, ToldAt,
              Framed, Completing, Resolved, Current, Fresh, Ids, Calm, CalmCallee, CalmAnswer,
              CalmRuns, Again, OnItsWay, Sent, RunsOnce, Mine, Corr, At
<1> QED BY <1>1, <1>2, <1>3, <1>4 DEF Next

(* CallInv holds in every state of call and call_blocking, whatever the other callers, the
   dispatcher and the callee that is exposed again do between their steps. *)
THEOREM CallInvHolds ==
    Spec => []CallInv
  BY InitOK, NextOK, PTL DEF Spec

(* The state keeps its shape, and no arena takes more requests than it has room for. *)
THEOREM CallTypeCorrect ==
    Spec => []TypeOK
<1>1. CallInv => TypeOK
  BY DEF CallInv
<1> QED BY <1>1, CallInvHolds, PTL

(* Inner.pending never keeps the slot of an attempt that is over: answered, refused
   by a full arena, or abandoned at its deadline and answered late. *)
THEOREM SlotsAreFreed ==
    Spec => []AbandonedSlotsFreed
<1>1. CallInv => AbandonedSlotsFreed
  BY DEF CallInv
<1> QED BY <1>1, CallInvHolds, PTL

(* Between Slot::complete, which sets the flag and then the token, and block_on, which
   reads the flag and then sleeps on the token, no answer is slept through. *)
THEOREM UnparksArrive ==
    Spec => []NoLostUnpark
<1>1. CallInv => NoLostUnpark
  BY DEF CallInv, Told, ToldAt, NoLostUnpark, ParkReturns
<1> QED BY <1>1, CallInvHolds, PTL

(* A call during which the callee is there, answers in time and is not displaced in
   the cache is answered or told of a full arena, and its handler runs once at most,
   whatever the cache held when it began and though call_blocking tries twice. *)
THEOREM CalmCallsSucceed ==
    Spec => []CalmCallsAnswered
<1>1. CallInv => CalmCallsAnswered
  BY DEF CallInv, Calm, CalmCallee, CalmRuns, RunsOnce, CalmCallsAnswered
<1> QED BY <1>1, CallInvHolds, PTL
=============================================================================
