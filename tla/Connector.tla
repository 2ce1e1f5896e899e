------------------------------ MODULE Connector ------------------------------
(***************************************************************************)
(* How a connection survives broker restarts (crates/connector/src:        *)
(* client.rs, and lib.rs and channel.rs where they use it).  The threads   *)
(* of one connection - callers, and the watcher - share the transport, the *)
(* table of pending replies and the table of live handles; any of them may *)
(* find that the broker was restarted and reconnect, while the others go   *)
(* on using the connection.  The watcher is there before connect has       *)
(* registered, so it may reconnect in the middle of that too.              *)
(*                                                                         *)
(* A step is what a thread does between two accesses of shared state: the  *)
(* client id goes into a request, the slot into the table, the request     *)
(* into the submission ring in three steps, and a reconnect may come in    *)
(* between.  Epochs are numbered from 1; a transport is named by the epoch *)
(* of the control segment it was bootstrapped from.  The broker is its     *)
(* Registry and the submission ring; the requests of other connections are *)
(* served in one step.  Channels have no subscribers here, a released one  *)
(* is still in its grace, and the calls that change nothing at the broker  *)
(* (list_channels, subscribe, lookup) are one operation, "list".           *)
(***************************************************************************)
EXTENDS Registry, Sequences, FiniteSets

CONSTANTS
    Users,       \* threads that call the connection's operations
    Watcher,     \* the connection's watcher thread
    Names,       \* names of channels and functions
    Functions,   \* those that are functions
    Contested,   \* those other connections publish as well
    Owned,       \* the channels of a connection that is up at the start, in order
    Me, Other,   \* pids: this process, and one with other connections
    MaxEpoch,    \* bound on broker runs
    MaxOps,      \* bound on the operations the users start
    MaxClients,  \* bound on the clients of one broker run
    MaxFaults    \* bound on timeouts of requests that a slow broker has or will take

ASSUME ConnectorAssumption ==
    /\ IsFiniteSet(Users) /\ Watcher \notin Users /\ None \notin Users \cup {Watcher}
    /\ IsFiniteSet(Names) /\ Functions \cup Contested \subseteq Names /\ None \notin Names
    /\ Owned \in Seq(Names \ Functions) /\ \A i, j \in DOMAIN Owned : Owned[i] = Owned[j] => i = j
    /\ Me # Other /\ None \notin {Me, Other}
    /\ MaxEpoch >= 1 /\ {MaxEpoch, MaxOps, MaxClients, MaxFaults} \subseteq Nat

VARIABLES
    gen,       \* epoch of the latest broker run
    ctl,       \* its control segment: "serving", "stale" (it crashed) or "gone"
    reg,       \* its Registry; a client's pid says whose connection it is
    inbox,     \* its submission ring
    t,         \* Inner.transport: its epoch and client_id
    replies,   \* frames in the transport's reply ring
    pending,   \* Inner.pending: correlation ids
    handles,   \* Inner.registry: the name and the ring cell of each entry
    reg_seq,   \* Inner.reg_seq
    mu,        \* holder of Inner.reconnect_mu
    th,        \* the threads
    phase,     \* "connecting", "up", or "down": connect has failed, running is cleared
    excused,   \* history: entries that are not on the transport's broker, as their
               \* replay failed or they came too late for it; 0 when register failed
    stray,     \* history: connect brought the client id from an earlier broker run
    ops, faults

broker == <<gen, ctl, reg, inbox>>
entries == <<handles, reg_seq, excused>>
conn == <<phase, stray>>
budget == <<ops, faults>>
vars == <<gen, ctl, reg, inbox, t, replies, pending, handles, reg_seq, excused, phase, stray, mu, th, ops, faults>>

Threads == Users \cup {Watcher}

(* A thread's locals: the operation it runs and the control call it is in; *)
(* seen is the epoch the failure is judged by, boot a transport that is    *)
(* bootstrapped and not installed yet, sent the epoch of the transport the *)
(* request went to (history).                                              *)
Idle == [pc |-> "idle", op |-> None, call |-> None, name |-> None, id |-> 0, cid |-> 0,
         corr |-> 0, reply |-> None, retried |-> FALSE, seen |-> 0, boot |-> 0,
         sent |-> 0, todo |-> {}, ring |-> None]

At(x, pc) == th[x].pc = pc

(* A thread's step in its own locals. *)
Becomes(x, c) == th' = [th EXCEPT ![x] = c]

Go(x, pc) == Becomes(x, [th[x] EXCEPT !.pc = pc])

(***************************************************************************)
(* The broker, and everyone else on the bus.                               *)
(***************************************************************************)
Serving == ctl = "serving"

ByName(r, n) == IF n \in Functions THEN r.fn_by_name ELSE r.chan_by_name

Ids(r, n) == DOMAIN (IF n \in Functions THEN r.functions ELSE r.channels)

Taken(r, n) == n \in DOMAIN ByName(r, n) /\ ~ (n \notin Functions /\ Released(r, n))

(* on_publish and on_expose, once the name is free. *)
NextId(r, n) == IF n \in Functions THEN r.next_fn ELSE r.next_channel

Grant(r, n, owner) ==
    LET meta == [id |-> NextId(r, n), name |-> n, owner |-> owner]
        freed == IF n \in DOMAIN r.chan_by_name THEN drop_channels(r, {r.chan_by_name[n]}) ELSE r
    IN  IF n \in Functions
        THEN insert_function(alloc_fn_id(r), meta)
        ELSE insert_channel(alloc_channel_id(freed), meta)

(***************************************************************************)
(* A connection begins in connect, the first operation, which has          *)
(* bootstrapped and started the threads and is about to register.          *)
(* Connected is a state in which connect has succeeded, and so have the    *)
(* first operations.                                                       *)
(***************************************************************************)
Attached ==
    /\ gen = 1 /\ ctl = "serving" /\ inbox = << >>
    /\ replies = {} /\ pending = {} /\ mu = None
    /\ excused = {} /\ stray = FALSE /\ faults = 0

Connecting ==
    /\ Attached
    /\ phase = "connecting" /\ MaxOps >= 1 /\ ops = 1
    /\ reg = NewRegistry /\ t = [epoch |-> 1, client_id |-> 0]
    /\ handles = << >> /\ reg_seq = 1
    /\ \E u \in Users :
          th = [x \in Threads |-> IF x = u THEN [Idle EXCEPT !.pc = "frame", !.call = "connect"] ELSE Idle]

FirstRegistry ==
    [add_client(NewRegistry, Me) EXCEPT
        !.channels = [i \in DOMAIN Owned |-> [id |-> i, name |-> Owned[i], owner |-> 1]],
        !.chan_by_name = [n \in {Owned[i] : i \in DOMAIN Owned} |-> CHOOSE i \in DOMAIN Owned : Owned[i] = n],
        !.next_channel = Len(Owned) + 1]

Connected ==
    /\ Attached
    /\ phase = "up" /\ ops = 0
    /\ reg = FirstRegistry /\ t = [epoch |-> 1, client_id |-> 1]
    /\ handles = [i \in DOMAIN Owned |-> [name |-> Owned[i], ring |-> [epoch |-> 1, id |-> i]]]
    /\ reg_seq = Len(Owned) + 1
    /\ th = [x \in Threads |-> Idle]

Init == Connecting \/ Connected

Answer(m, code, id) == [corr |-> m.corr, status |-> code, id |-> id]

(* Broker::reply: to the reply ring of the client the request names. *)
Reply(m, code, id) ==
    replies' = IF m.cid \in DOMAIN reg.clients /\ reg.clients[m.cid] = Me
               THEN replies \cup {Answer(m, code, id)} ELSE replies

(* The calls that do_register makes.  In a Register, cid stands for the    *)
(* reply segment: that of the transport of this epoch.  The clean-up       *)
(* before a later run has unlinked it, and on_register cannot open it.     *)
Registrations == {"register", "connect"}

Serve ==
    /\ Serving /\ inbox # << >>
    /\ inbox' = Tail(inbox)
    /\ LET m == Head(inbox)
       IN  \/ /\ m.call \in Registrations /\ m.cid = gen
              /\ reg' = add_client(reg, Me)
              /\ replies' = replies \cup {Answer(m, "OK", NextClientId(reg))}
           \/ /\ m.call \in Registrations /\ m.cid # gen
              /\ UNCHANGED <<reg, replies>>
           \/ /\ m.call = "list"
              /\ Reply(m, "OK", 0)
              /\ UNCHANGED reg
           \/ /\ m.call \in {"publish", "replay"} /\ Taken(reg, m.name)
              /\ Reply(m, "ERR_EXISTS", 0)
              /\ UNCHANGED reg
           \/ /\ m.call \in {"publish", "replay"} /\ ~ Taken(reg, m.name)
              /\ reg' = Grant(reg, m.name, m.cid)
              /\ Reply(m, "OK", NextId(reg, m.name))
           \/ /\ m.call = "unpublish"
              /\ reg' = IF MayRelease(reg, m.name, m.cid)
                        THEN defer_release(reg, reg.chan_by_name[m.name]) ELSE reg
              /\ UNCHANGED replies
    /\ UNCHANGED <<gen, ctl, t, pending, entries, mu, th, budget, conn>>

OtherRegisters ==
    /\ Serving /\ reg.next_client <= MaxClients
    /\ reg' = add_client(reg, Other)
    /\ UNCHANGED <<gen, ctl, inbox, t, replies, pending, entries, mu, th, budget, conn>>

OtherPublishes ==
    /\ Serving
    /\ \E c \in DOMAIN reg.clients, n \in Contested :
          reg.clients[c] = Other /\ ~ Taken(reg, n) /\ reg' = Grant(reg, n, c)
    /\ UNCHANGED <<gen, ctl, inbox, t, replies, pending, entries, mu, th, budget, conn>>

(* The broker is killed, or stops and unlinks its segments; until then     *)
(* its arenas are to be found, those of the entries of reg.                *)
Down ==
    /\ Serving
    /\ \/ ctl' = "stale" /\ UNCHANGED reg
       \/ ctl' = "gone" /\ reg' = NewRegistry
    /\ inbox' = << >>
    /\ UNCHANGED <<gen, t, replies, pending, entries, mu, th, budget, conn>>

(* The next run: guard_singleton and cleanup_stale, then a new segment. *)
CleanUp ==
    /\ ctl = "stale" /\ gen < MaxEpoch
    /\ ctl' = "gone" /\ reg' = NewRegistry
    /\ UNCHANGED <<gen, inbox, t, replies, pending, entries, mu, th, budget, conn>>

Restart ==
    /\ ctl = "gone" /\ gen < MaxEpoch
    /\ ctl' = "serving" /\ gen' = gen + 1
    /\ UNCHANGED <<reg, inbox, t, replies, pending, entries, mu, th, budget, conn>>

(***************************************************************************)
(* A control call: the do_ functions of client.rs, call_control and the    *)
(* dispatcher.                                                             *)
(***************************************************************************)
(* The request is built, with the client id or the reply segment of the    *)
(* moment.                                                                 *)
Frame(x) ==
    /\ At(x, "frame")
    /\ Becomes(x, [th[x] EXCEPT !.cid = IF th[x].call \in Registrations THEN t.epoch ELSE t.client_id,
                                !.pc = IF th[x].call = "unpublish" THEN "push" ELSE "slot"])
    /\ UNCHANGED <<broker, t, replies, pending, entries, mu, budget, conn>>

(* next_corr: 64 random bits, so one that is nowhere in use. *)
CorrsInUse ==
    {th[x].corr : x \in Threads} \cup {r.corr : r \in replies}
        \cup {inbox[i].corr : i \in DOMAIN inbox}

next_corr == CHOOSE c \in 1..(Cardinality(CorrsInUse) + 1) : c \notin CorrsInUse

InsertSlot(x) ==
    /\ At(x, "slot")
    /\ Becomes(x, [th[x] EXCEPT !.corr = next_corr, !.pc = "push"])
    /\ pending' = pending \cup {next_corr}
    /\ UNCHANGED <<broker, t, replies, entries, mu, budget, conn>>

(* Onto the transport's submission ring.  Nobody drains the ring of a run  *)
(* that is over.  send_unpublish does not wait for an answer.              *)
Push(x) ==
    /\ At(x, "push")
    /\ inbox' = IF Serving /\ t.epoch = gen
                THEN Append(inbox, [corr |-> th[x].corr, call |-> th[x].call,
                                    cid |-> th[x].cid, name |-> th[x].name])
                ELSE inbox
    /\ Becomes(x, IF th[x].call = "unpublish" THEN Idle ELSE [th[x] EXCEPT !.pc = "wait", !.cid = 0, !.sent = t.epoch])
    /\ UNCHANGED <<gen, ctl, reg, t, replies, pending, entries, mu, budget, conn>>

KeepPending(x) == UNCHANGED pending

DropPending(x) == pending' = pending \ {th[x].corr}

(* ... and in the end it is full: "submission ring full".  So it may be    *)
(* for two seconds when the broker is slow.                                *)
PushFull(x) ==
    /\ At(x, "push") /\ th[x].call # "unpublish"
    /\ \/ ~ (Serving /\ t.epoch = gen) /\ UNCHANGED faults
       \/ Serving /\ t.epoch = gen /\ faults < MaxFaults /\ faults' = faults + 1
    /\ DropPending(x)
    /\ Becomes(x, [th[x] EXCEPT !.pc = "failed", !.corr = 0, !.cid = 0, !.sent = t.epoch])
    /\ UNCHANGED <<broker, t, replies, entries, mu, ops, conn>>

(* run_dispatcher: the slot with the frame's correlation id, if any.  When *)
(* running is cleared it ends, at the latest before it is joined.          *)
Dispatch ==
    /\ phase = "down" => \E u \in Users : At(u, "join")
    /\ \E r \in replies :
          /\ replies' = replies \ {r}
          /\ pending' = pending \ {r.corr}
          /\ th' = [x \in Threads |-> IF r.corr \in pending /\ th[x].corr = r.corr
                                       THEN [th[x] EXCEPT !.reply = r] ELSE th[x]]
    /\ UNCHANGED <<broker, t, entries, mu, budget, conn>>

Answered(x, call) == At(x, "wait") /\ th[x].reply # None /\ th[x].call = call

(* No answer will come: the request, the slot or the dispatcher is gone. *)
Lost(x) ==
    \/ phase = "down"
    \/ th[x].corr \notin pending
    \/ th[x].corr \notin {r.corr : r \in replies} \cup {inbox[i].corr : i \in DOMAIN inbox}

(* Slot::wait runs out: CONTROL_TIMEOUT. *)
TimesOut(x) ==
    /\ At(x, "wait") /\ th[x].reply = None
    /\ \/ Lost(x) /\ UNCHANGED faults
       \/ ~ Lost(x) /\ faults < MaxFaults /\ faults' = faults + 1
    /\ DropPending(x)
    /\ Becomes(x, [th[x] EXCEPT !.pc = "failed", !.corr = 0])
    /\ UNCHANGED <<broker, t, replies, entries, mu, ops, conn>>

(***************************************************************************)
(* connect: do_register, without reconnect_mu.  When it fails, the threads *)
(* are told to stop and waited for.                                        *)
(***************************************************************************)
ConnectReturns(u) ==
    /\ Answered(u, "connect")
    /\ t' = [t EXCEPT !.client_id = th[u].reply.id]
    /\ stray' = (th[u].sent # t.epoch)
    /\ phase' = "up"
    /\ Becomes(u, Idle)
    /\ UNCHANGED <<broker, replies, pending, entries, mu, budget>>

ConnectFails(u) ==
    /\ At(u, "failed") /\ th[u].call = "connect"
    /\ phase' = "down"
    /\ Becomes(u, [Idle EXCEPT !.pc = "join"])
    /\ UNCHANGED <<broker, t, replies, pending, entries, stray, mu, budget>>

Joined(u) ==
    /\ At(u, "join") /\ At(Watcher, "idle")
    /\ Becomes(u, Idle)
    /\ UNCHANGED <<broker, t, replies, pending, entries, mu, budget, conn>>

(* Segment::open of the arena an answer names: the names of a crashed run  *)
(* stay until the next one starts, and each run numbers from 1.            *)
Opens(x) == ctl # "gone" /\ th[x].reply.id \in Ids(reg, th[x].name)

Opened(x) == [epoch |-> gen, id |-> th[x].reply.id]

(***************************************************************************)
(* The operations of a connection's users.                                 *)
(***************************************************************************)
Start(u, op, n) ==
    /\ phase = "up" /\ At(u, "idle") /\ ops < MaxOps
    /\ Becomes(u, [Idle EXCEPT !.pc = "frame", !.op = [call |-> op, name |-> n], !.call = op, !.name = n])
    /\ ops' = ops + 1
    /\ UNCHANGED <<broker, t, replies, pending, mu, faults, conn>>

List(u) == Start(u, "list", None) /\ UNCHANGED entries

Publish(u) == \E n \in Names \ Functions : Start(u, "publish", n) /\ UNCHANGED entries

(* A function is exposed as a channel is published; it has no handle that  *)
(* could be dropped.                                                       *)
Expose(u) == \E n \in Functions : Start(u, "publish", n) /\ UNCHANGED entries

(* Publisher's Drop: deregister, then send_unpublish. *)
DropPublisher(u) ==
    \E id \in DOMAIN handles :
       /\ handles[id].name \notin Functions
       /\ Start(u, "unpublish", handles[id].name)
       /\ handles' = Without(handles, {id})
       /\ excused' = excused \ {id}
       /\ UNCHANGED reg_seq

ListReturns(u) ==
    /\ Answered(u, "list")
    /\ Becomes(u, Idle)
    /\ UNCHANGED <<broker, t, replies, pending, entries, mu, budget, conn>>

PublishReturns(u) ==
    /\ Answered(u, "publish")
    /\ \/ /\ th[u].reply.status # "OK"
          /\ Becomes(u, Idle)
       \/ /\ th[u].reply.status = "OK" /\ Opens(u)
          /\ Becomes(u, [Idle EXCEPT !.pc = "entry", !.name = th[u].name, !.ring = Opened(u)])
       \/ /\ th[u].reply.status = "OK" /\ ~ Opens(u)
          /\ Becomes(u, [th[u] EXCEPT !.pc = "failed", !.corr = 0])
    /\ UNCHANGED <<broker, t, replies, pending, entries, mu, budget, conn>>

SameEntry == reg_seq

NextEntry == reg_seq + 1

register_entry(u) ==
    /\ At(u, "entry")
    /\ handles' = Put(handles, reg_seq, [name |-> th[u].name, ring |-> th[u].ring])
    /\ reg_seq' = NextEntry
    /\ excused' = IF th[u].ring.epoch = t.epoch THEN excused ELSE excused \cup {reg_seq}
    /\ Becomes(u, Idle)
    /\ UNCHANGED <<broker, t, replies, pending, mu, budget, conn>>

(***************************************************************************)
(* with_reconnect and run_watcher.                                         *)
(***************************************************************************)
OpFailsUntilServed(u) ==
    /\ At(u, "failed") /\ th[u].call \in {"list", "publish"}
    /\ Becomes(u, [th[u] EXCEPT !.pc = "frame", !.reply = None])
    /\ UNCHANGED <<broker, t, replies, pending, entries, mu, budget, conn>>

(* broker_unreachable: the error is returned, or judged by the epoch the   *)
(* transport has now.                                                      *)
OpFails(u) ==
    /\ At(u, "failed") /\ th[u].call \in {"list", "publish"}
    /\ Becomes(u, IF th[u].retried THEN Idle
                  ELSE [th[u] EXCEPT !.pc = "live", !.seen = t.epoch, !.reply = None])
    /\ UNCHANGED <<broker, t, replies, pending, entries, mu, budget, conn>>

Tick ==
    /\ phase # "down" /\ At(Watcher, "idle")
    /\ Becomes(Watcher, [th[Watcher] EXCEPT !.pc = "live", !.seen = t.epoch])
    /\ UNCHANGED <<broker, t, replies, pending, entries, mu, budget, conn>>

(* live_broker_epoch: the segment a crash left behind still answers. *)
Restarted(x) == ctl # "gone" /\ gen # th[x].seen

Live(x) ==
    /\ At(x, "live")
    /\ Becomes(x, IF Restarted(x) THEN [th[x] EXCEPT !.pc = "lock"] ELSE Idle)
    /\ UNCHANGED <<broker, t, replies, pending, entries, mu, budget, conn>>

(***************************************************************************)
(* reconnect and replay.                                                   *)
(***************************************************************************)
(* Back from reconnect with Ok: the operation once more. *)
Retry(x) ==
    IF x = Watcher THEN Idle
    ELSE [Idle EXCEPT !.pc = "frame", !.op = th[x].op, !.call = th[x].op.call,
                      !.name = th[x].op.name, !.retried = TRUE]

NeverLate(x) == FALSE

AlreadyReconnected(x) == t.epoch # th[x].seen

Lock(x) ==
    /\ At(x, "lock") /\ mu = None
    /\ \/ /\ AlreadyReconnected(x)
          /\ Becomes(x, Retry(x))
          /\ UNCHANGED mu
       \/ /\ ~ AlreadyReconnected(x)
          /\ mu' = x
          /\ Becomes(x, [th[x] EXCEPT !.pc = "boot", !.seen = 0])
    /\ UNCHANGED <<broker, t, replies, pending, entries, budget, conn>>

Unlock == mu' = None

(* bootstrap fails when the control segment is not there. *)
Bootstrap(x) ==
    /\ At(x, "boot")
    /\ \/ /\ ctl = "gone"
          /\ Unlock
          /\ Becomes(x, Idle)
       \/ /\ ctl # "gone"
          /\ Becomes(x, [th[x] EXCEPT !.boot = gen, !.pc = "clear"])
          /\ UNCHANGED mu
    /\ UNCHANGED <<broker, t, replies, pending, entries, budget, conn>>

ClearPending(x) ==
    /\ At(x, "clear")
    /\ pending' = {}
    /\ Go(x, "swap")
    /\ UNCHANGED <<broker, t, replies, entries, mu, budget, conn>>

Rebooted(x) == [t EXCEPT !.epoch = th[x].boot]

NewTransport(x) == [epoch |-> th[x].boot, client_id |-> 0]

Swap(x) ==
    /\ At(x, "swap")
    /\ t' = NewTransport(x)
    /\ replies' = {}
    /\ excused' = {} /\ stray' = FALSE
    /\ Becomes(x, [th[x] EXCEPT !.pc = "frame", !.call = "register", !.boot = 0])
    /\ UNCHANGED <<broker, pending, handles, reg_seq, phase, mu, budget>>

RegisterReturns(x) ==
    /\ Answered(x, "register")
    /\ t' = [t EXCEPT !.client_id = th[x].reply.id]
    /\ stray' = FALSE
    /\ Becomes(x, [th[x] EXCEPT !.pc = "snapshot", !.corr = 0, !.reply = None])
    /\ UNCHANGED <<broker, replies, pending, entries, phase, mu, budget>>

RegisterFails(x) ==
    /\ At(x, "failed") /\ th[x].call = "register"
    /\ Unlock
    /\ excused' = DOMAIN handles \cup {0}
    /\ Becomes(x, Idle)
    /\ UNCHANGED <<broker, t, replies, pending, handles, reg_seq, budget, conn>>

Snapshot(x) ==
    /\ At(x, "snapshot")
    /\ Becomes(x, [th[x] EXCEPT !.pc = "next",
                                !.todo = {[id |-> i, name |-> handles[i].name] : i \in DOMAIN handles}])
    /\ UNCHANGED <<broker, t, replies, pending, entries, mu, budget, conn>>

(* Channels first, then functions; then reconnect is done. *)
ReplayNext(x) ==
    /\ At(x, "next")
    /\ \/ /\ th[x].todo = {}
          /\ Unlock
          /\ Becomes(x, Retry(x))
       \/ /\ \E e \in th[x].todo :
                /\ e.name \in Functions => \A f \in th[x].todo : f.name \in Functions
                /\ Becomes(x, [th[x] EXCEPT !.pc = "frame", !.call = "replay", !.name = e.name,
                                            !.id = e.id, !.todo = @ \ {e}])
          /\ UNCHANGED mu
    /\ UNCHANGED <<broker, t, replies, pending, entries, budget, conn>>

(* Back in replay's loop. *)
Replayed(x) == [th[x] EXCEPT !.pc = "next", !.name = None, !.id = 0, !.corr = 0, !.reply = None]

RebindsNothing(x) == UNCHANGED handles

(* The write to the entry's cell, which the caller's handle shares. *)
Rebind(x) ==
    handles' = [i \in DOMAIN handles |-> IF i = th[x].id THEN [handles[i] EXCEPT !.ring = Opened(x)]
                                         ELSE handles[i]]

Excuse(id) == excused \cup ({id} \cap DOMAIN handles)

ReplayReturns(x) ==
    /\ Answered(x, "replay")
    /\ \/ /\ th[x].reply.status = "OK" /\ Opens(x)
          /\ Rebind(x)
          /\ excused' = excused \ {th[x].id}
       \/ /\ ~ (th[x].reply.status = "OK" /\ Opens(x))
          /\ excused' = Excuse(th[x].id)
          /\ UNCHANGED handles
    /\ Becomes(x, Replayed(x))
    /\ UNCHANGED <<broker, t, replies, pending, reg_seq, mu, budget, conn>>

ReplayFails(x) ==
    /\ At(x, "failed") /\ th[x].call = "replay"
    /\ excused' = Excuse(th[x].id)
    /\ Becomes(x, Replayed(x))
    /\ UNCHANGED <<broker, t, replies, pending, handles, reg_seq, mu, budget, conn>>

(***************************************************************************)
(* The specification.                                                      *)
(***************************************************************************)
Step(x) ==
    \/ Frame(x) \/ InsertSlot(x) \/ Push(x) \/ PushFull(x) \/ TimesOut(x)
    \/ Live(x) \/ Lock(x) \/ Bootstrap(x) \/ ClearPending(x) \/ Swap(x)
    \/ RegisterReturns(x) \/ RegisterFails(x) \/ Snapshot(x)
    \/ ReplayNext(x) \/ ReplayReturns(x) \/ ReplayFails(x)

Returns(u) ==
    \/ ConnectReturns(u) \/ ConnectFails(u) \/ Joined(u)
    \/ ListReturns(u) \/ PublishReturns(u) \/ register_entry(u) \/ OpFails(u)

Next ==
    \/ Serve \/ OtherRegisters \/ OtherPublishes \/ Down \/ CleanUp \/ Restart
    \/ Dispatch \/ Tick \/ Step(Watcher)
    \/ \E u \in Users : List(u) \/ Publish(u) \/ Expose(u) \/ DropPublisher(u) \/ Returns(u) \/ Step(u)

Spec == Init /\ [][Next]_vars

(* The threads run, the broker's loop and the dispatcher serve; nobody has *)
(* to call anything, and nobody has to restart the broker.                 *)
FairSpec ==
    /\ Spec
    /\ WF_vars(Serve) /\ WF_vars(phase # "down" /\ Dispatch) /\ WF_vars(Tick \/ Step(Watcher))
    /\ \A u \in Users : WF_vars(Returns(u) \/ Step(u))

(***************************************************************************)
(* Properties.                                                             *)
(***************************************************************************)
Rings == [epoch : 1..MaxEpoch, id : Nat]

Answers == [corr : Nat, status : {"OK", "ERR_EXISTS"}, id : Nat]

Calls == {"list", "publish", "unpublish", "replay"} \cup Registrations

Requests == [corr : Nat, call : Calls, cid : Nat, name : Names \cup {None}]

(* Client ids are handed out in order. *)
RegistryShape ==
    /\ DOMAIN reg = DOMAIN NewRegistry
    /\ reg.next_client \in Nat \ {0} /\ reg.next_channel \in Nat /\ reg.next_fn \in Nat
    /\ DOMAIN reg.clients \subseteq 1..(reg.next_client - 1)

InCall == {"frame", "slot", "push", "wait", "failed"}

Reconnecting == {"boot", "clear", "swap", "snapshot", "next"}

ThreadType ==
    [pc : InCall \cup Reconnecting \cup {"idle", "entry", "live", "lock", "join"},
     op : [call : Calls, name : Names \cup {None}] \cup {None},
     call : Calls \cup {None}, name : Names \cup {None}, id : Nat, cid : Nat, corr : Nat,
     reply : Answers \cup {None}, retried : BOOLEAN,
     seen : 0..MaxEpoch, boot : 0..MaxEpoch, sent : 0..MaxEpoch,
     todo : SUBSET [id : Nat, name : Names], ring : Rings \cup {None}]

(* The shape of the state. *)
TypeOK ==
    /\ gen \in 1..MaxEpoch /\ ctl \in {"serving", "stale", "gone"}
    /\ RegistryShape /\ inbox \in Seq(Requests)
    /\ t \in [epoch : 1..MaxEpoch, client_id : Nat]
    /\ replies \subseteq Answers /\ IsFiniteSet(replies) /\ pending \subseteq Nat
    /\ \A i \in DOMAIN handles : handles[i] \in [name : Names, ring : Rings]
    /\ reg_seq \in Nat \ {0} /\ DOMAIN handles \subseteq 1..(reg_seq - 1)
    /\ mu \in Threads \cup {None}
    /\ th \in [Threads -> ThreadType]
    /\ phase \in {"connecting", "up", "down"} /\ stray \in BOOLEAN
    /\ excused \subseteq DOMAIN handles \cup {0} /\ ops \in 0..MaxOps /\ faults \in 0..MaxFaults

(* reconnect is single-flight: however many threads find the same restart, *)
(* the transport is replaced once for it, by one of a later epoch, and     *)
(* never by the transport of a broker run it had left already; otherwise   *)
(* do_register gives it a client id.                                       *)
SingleFlight ==
    [][t' # t => t'.epoch > t.epoch \/ (t'.epoch = t.epoch /\ t'.client_id # 0)]_vars

Ours(id) == id \in DOMAIN reg.clients /\ reg.clients[id] = Me

(* The client id of the transport was given to this connection by the      *)
(* broker the transport leads to, and not to another one's connection by a *)
(* later run that numbers its clients from 1 again.  It is part of the     *)
(* per-generation transport, as the comment on Transport has it.           *)
IdIsOurs == Serving /\ t.epoch = gen /\ t.client_id # 0 => Ours(t.client_id)

(* A reconnect never leaves another client's id in the transport, nor does *)
(* connect, unless a reconnect came between connect's request and its      *)
(* answer: the one way there is for the id of an earlier run to get into a *)
(* later transport, and the next register or reconnect mends it.           *)
ReconnectedIdIsOurs == stray \/ IdIsOurs

(* The table of pending replies holds the slots of calls that still wait,  *)
(* whichever way a call ends: answered, timed out, its push refused, or    *)
(* cut off by another thread's reconnect.                                  *)
NoSlotLeaks ==
    pending \subseteq {th[x].corr : x \in {y \in Threads :
                           th[y].pc \in {"push", "wait"} /\ th[y].reply = None}}

(* What the proofs of these need besides.  c stands for the locals of a    *)
(* thread: it is in reconnect in one of reconnect's own steps, or in a     *)
(* control call that reconnect or replay makes.                            *)
Registers(c) == c.pc \in InCall /\ c.call \in Registrations

Reconnects(c) ==
    \/ c.pc \in Reconnecting
    \/ c.pc \in InCall /\ c.call \in {"register", "replay"}

(* An operation that with_reconnect runs, and may run again. *)
Retriable == [call : {"list"}, name : {None}] \cup [call : {"publish"}, name : Names]

MayRetry(c) ==
    \/ c.pc \in {"live", "lock"} \cup Reconnecting
    \/ c.pc \in InCall /\ c.call \notin {"unpublish", "connect"}

(* What a thread's locals say at each point of its way. *)
LocalsOK(x, c) ==
    /\ c.pc \in InCall => c.call \in Calls
    /\ c.pc \in InCall /\ c.call = "publish" => c.name \in Names
    /\ c.pc = "entry" => c.name \in Names /\ c.ring \in Rings
    /\ x # Watcher /\ MayRetry(c) => c.op \in Retriable
    /\ c.corr # 0 => c.pc \in {"push", "wait"} /\ c.call # "unpublish"
    /\ c.pc = "slot" => c.call # "unpublish"
    /\ c.reply # None => c.pc \in {"wait", "failed"}

Shape == \A x \in Threads : LocalsOK(x, th[x])

(* reconnect_mu is held all through a reconnect. *)
Exclusive == \A x \in Threads : Reconnects(th[x]) => mu = x

(* A reconnect leads to a later epoch: neither the epoch a thread saw nor  *)
(* the one it bootstrapped from nor the transport's is ahead of the broker.*)
EpochsOK(c) ==
    /\ c.seen <= gen /\ c.sent <= gen
    /\ c.pc = "lock" => c.seen < gen
    /\ c.pc = "boot" => t.epoch < gen
    /\ c.pc \in {"clear", "swap"} => t.epoch < c.boot /\ c.boot <= gen
    /\ c.pc = "wait" /\ c.call = "register" => c.sent = t.epoch

Forward == t.epoch <= gen /\ \A x \in Threads : EpochsOK(th[x])

(* A correlation id belongs to one call, and nothing carries it before the *)
(* request is sent.  The submission ring holds what was sent to the broker *)
(* that serves.                                                            *)
Correlated ==
    /\ 0 \notin pending
    /\ \A x, y \in Threads : th[x].corr = th[y].corr /\ th[x].corr # 0 => x = y
    /\ inbox # << >> => Serving /\ t.epoch = gen
    /\ \A x \in Threads, i \in DOMAIN inbox :
          inbox[i].corr = th[x].corr /\ th[x].corr # 0 =>
              inbox[i].call = th[x].call /\ At(x, "wait") /\ th[x].sent = gen
    /\ \A x \in Threads :
          At(x, "push") => \A r \in replies : r.corr = th[x].corr => r.corr = 0

(* The id an answer brings a thread that registers is one that a broker    *)
(* gave out and, if the answer is from the broker that serves, ours.       *)
Brings(x, r) == r.id # 0 /\ (Serving /\ th[x].sent = gen => Ours(r.id))

OursSoon ==
    \A x \in Threads :
       Registers(th[x]) =>
           /\ th[x].reply # None => Brings(x, th[x].reply)
           /\ \A r \in replies : r.corr = th[x].corr /\ r.corr # 0 => Brings(x, r)

ConnectorInv ==
    /\ TypeOK /\ Shape /\ Exclusive /\ Forward /\ Correlated /\ NoSlotLeaks
    /\ ReconnectedIdIsOurs /\ OursSoon

(* Every call of the connection's operations returns, whatever the broker  *)
(* does: no thread waits for ever for an answer or for reconnect_mu.       *)
OpsReturn == \A u \in Users : []<>At(u, "idle")

(* Once a broker stays up, a connection that was not given up is attached  *)
(* to it and registered, however the restarts before fell into the steps   *)
(* of a reconnect, and its handles are bound to arenas of that broker.     *)
(* Excepted is what this very broker failed to take over: the registration *)
(* or an entry whose request to it failed, and an entry made after the     *)
(* replay for it.  An earlier failure is no excuse, the next restart mends *)
(* it.                                                                     *)
HandlesFollow ==
    <>[]Serving =>
        <>[](phase # "down" =>
                /\ t.epoch = gen
                /\ t.client_id # 0 \/ 0 \in excused
                /\ \A id \in DOMAIN handles \ excused : handles[id].ring.epoch = gen)

(* The same without exception, as the comments promise it: a transport is  *)
(* of one generation with its client id, reconnect will "replay every      *)
(* owned channel/function so live handles keep working", and what one      *)
(* replay failed to do "the watcher will retry on the next tick".          *)
WhollyReattached ==
    <>[]Serving =>
        <>[](phase # "down" =>
                /\ t.epoch = gen /\ Ours(t.client_id)
                /\ \A id \in DOMAIN handles : handles[id].ring.epoch = gen)
=============================================================================
