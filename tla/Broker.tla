------------------------------- MODULE Broker -------------------------------
(***************************************************************************)
(* The control plane: impulsed's single control loop                       *)
(* (crates/impulsed/src/broker.rs) over the registry, and the processes    *)
(* that talk to it through the submission ring and one reply ring each     *)
(* (the request paths of crates/connector/src/client.rs and channel.rs).   *)
(*                                                                         *)
(* The two rings are the queues that Ring implements.  A request stays in  *)
(* the submission ring after its sender was killed, and is then handled    *)
(* like any other: that, the names a dead process still holds and the      *)
(* delayed answers are what makes this component hard.  The broker itself  *)
(* does not crash here, and a process connects once.                       *)
(***************************************************************************)
EXTENDS Registry, Sequences, FiniteSets

CONSTANTS
    Procs,      \* processes, each with a pid of its own
    Legacy,     \* those whose connector reports pid 0
    Names,      \* channel and function names
    Keys,       \* access keys
    Schemas,    \* schemas that parse, by fingerprint
    BadSchema,  \* one that does not
    Kinds,      \* the requests processes make in an instance
    MaxMsgs,    \* bound: messages sent altogether
    MaxCalls,   \* bound: calls one process waits for at a time
    MaxFaults,  \* bound: kills, lost sends and timeouts altogether
    ReplyCap    \* answers a reply ring holds

ASSUME BrokerAssumption ==
    /\ Legacy \subseteq Procs
    /\ None \notin Procs \cup Names \cup Keys \cup Schemas \cup {BadSchema}
    /\ BadSchema \notin Schemas
    /\ MaxMsgs \in Nat /\ MaxCalls \in Nat /\ MaxFaults \in Nat /\ ReplyCap \in Nat

VARIABLES
    \* the broker
    reg,          \* the registry
    arenas,       \* segments the broker created and keeps mapped
    reply_rings,  \* client id -> the process whose reply ring it is
    \* the rings
    submission,   \* requests not yet handled
    replies,      \* per process, answers not yet dispatched
    \* the processes
    alive,        \* processes that have not been killed
    conn,         \* "new", "registering", "up" or "left"
    client_id,    \* the id the broker assigned, 0 before
    calls,        \* requests whose callers still wait (the pending slots)
    listed,       \* channel ids of the last listing
    published,    \* Publisher handles: [id, name]
    exposed,      \* exposed functions: [id, name]
    reading,      \* channels it holds a Subscriber of
    sent,         \* messages sent so far: the next correlation id
    faults        \* faults so far

broker == <<reg, arenas, reply_rings>>
handles == <<listed, published, exposed, reading>>
proc == <<alive, conn, client_id, calls, handles>>
vars == <<broker, submission, replies, proc, sent, faults>>

Init ==
    /\ reg = NewRegistry
    /\ arenas = {}
    /\ reply_rings = EmptyMap
    /\ submission = << >>
    /\ replies = [p \in Procs |-> << >>]
    /\ alive = Procs
    /\ conn = [p \in Procs |-> "new"]
    /\ client_id = [p \in Procs |-> 0]
    /\ calls = [p \in Procs |-> {}]
    /\ listed = [p \in Procs |-> {}]
    /\ published = [p \in Procs |-> {}]
    /\ exposed = [p \in Procs |-> {}]
    /\ reading = [p \in Procs |-> {}]
    /\ sent = 0
    /\ faults = 0

(***************************************************************************)
(* Messages.  One record shape for all requests and one for all answers;   *)
(* the field proc of a request is the pid and the reply segment of a       *)
(* Register, and in the others (as in every answer) a history variable     *)
(* that only properties read.                                              *)
(***************************************************************************)
Request(kind, p, name, key, schema, chan) ==
    [kind |-> kind, proc |-> p, client |-> client_id[p], corr |-> sent,
     name |-> name, key |-> key, schema |-> schema, chan |-> chan]

Answer(m, status, id, arena, ids) ==
    [kind |-> m.kind, proc |-> m.proc, corr |-> m.corr,
     status |-> status, id |-> id, arena |-> arena, ids |-> ids]

Refusal(m, status) == Answer(m, status, 0, None, {})

(***************************************************************************)
(* Processes.                                                              *)
(***************************************************************************)
Submit(m) ==
    /\ sent < MaxMsgs
    /\ sent' = sent + 1
    /\ submission' = Append(submission, m)

(* call_control: take a slot for the correlation, push, wait. *)
Call(p, m) ==
    /\ p \in alive
    /\ conn[p] = "up"
    /\ m.kind \in Kinds
    /\ Cardinality(calls[p]) < MaxCalls
    /\ Submit(m)
    /\ calls' = [calls EXCEPT ![p] = @ \cup {m}]
    /\ UNCHANGED <<broker, replies, alive, conn, client_id, handles, faults>>

(* bootstrap and do_register: the reply segment exists from here on. *)
Connect(p) ==
    /\ p \in alive
    /\ conn[p] = "new"
    /\ LET m == Request("Register", p, None, None, None, 0)
       IN  /\ Submit(m)
           /\ calls' = [calls EXCEPT ![p] = {m}]
    /\ conn' = [conn EXCEPT ![p] = "registering"]
    /\ UNCHANGED <<broker, replies, alive, client_id, handles, faults>>

Publish(p) ==
    \E n \in Names, k \in Keys \cup {None}, s \in Schemas \cup {BadSchema} :
        Call(p, Request("PublishChannel", p, n, k, s, 0))

ListChannels(p) == Call(p, Request("ListChannels", p, None, None, None, 0))

Subscribe(p) ==
    \E id \in listed[p], k \in Keys \cup {None}, s \in Schemas \cup {None} :
        Call(p, Request("Subscribe", p, None, k, s, id))

Expose(p) ==
    \E n \in Names, k \in Keys \cup {None}, s \in Schemas \cup {BadSchema} :
        Call(p, Request("ExposeFunction", p, n, k, s, 0))

Lookup(p) ==
    \E n \in Names, k \in Keys \cup {None} :
        Call(p, Request("LookupFunction", p, n, k, None, 0))

(* A send without an answer, which the caller does not see fail. *)
Fault == faults < MaxFaults /\ faults' = faults + 1

FireAndForget(m) ==
    \/ Submit(m) /\ UNCHANGED faults
    \/ Fault /\ UNCHANGED <<submission, sent>>

(* Publisher's Drop and send_unpublish.  A Publisher may outlive its       *)
(* Connection.                                                             *)
DropPublisher(p) ==
    /\ p \in alive
    /\ \E h \in published[p] :
          /\ published' = [published EXCEPT ![p] = @ \ {h}]
          /\ FireAndForget(Request("Unpublish", p, h.name, None, None, 0))
    /\ UNCHANGED <<broker, replies, alive, conn, client_id, calls, listed, exposed, reading>>

(* Connection's Drop: no call can be under way, the handles it gave out    *)
(* may still be.                                                           *)
Disconnect(p) ==
    /\ p \in alive
    /\ conn[p] = "up"
    /\ "Unregister" \in Kinds
    /\ calls[p] = {}
    /\ conn' = [conn EXCEPT ![p] = "left"]
    /\ FireAndForget(Request("Unregister", p, None, None, None, 0))
    /\ UNCHANGED <<broker, replies, alive, client_id, calls, handles>>

(* What the caller does with the answer it waited for.  An arena that was  *)
(* unlinked before the caller opens it makes the call fail.                *)
Granted(p, m, r) == r.kind = m.kind /\ r.status = "OK"

AdoptId(p, m, r) ==
    IF Granted(p, m, r) /\ m.kind = "Register"
    THEN /\ conn' = [conn EXCEPT ![p] = "up"]
         /\ client_id' = [client_id EXCEPT ![p] = r.id]
    ELSE UNCHANGED <<conn, client_id>>

AdoptHandles(p, m, r) ==
    LET opened == Granted(p, m, r) /\ r.arena \in arenas
    IN  /\ listed' = [listed EXCEPT ![p] = IF m.kind = "ListChannels" THEN r.ids ELSE @]
        /\ published' = [published EXCEPT ![p] =
               IF opened /\ m.kind = "PublishChannel" THEN @ \cup {[id |-> r.id, name |-> m.name]} ELSE @]
        /\ exposed' = [exposed EXCEPT ![p] =
               IF opened /\ m.kind = "ExposeFunction" THEN @ \cup {[id |-> r.id, name |-> m.name]} ELSE @]
        /\ reading' = [reading EXCEPT ![p] =
               IF opened /\ m.kind = "Subscribe" THEN @ \cup {m.chan} ELSE @]

(* run_dispatcher: route the next answer to its slot; without a slot it is *)
(* thrown away.                                                            *)
Dispatch(p) ==
    /\ p \in alive
    /\ conn[p] \in {"registering", "up"}
    /\ replies[p] # << >>
    /\ LET r == Head(replies[p])
       IN  \/ \E m \in calls[p] :
                 /\ m.corr = r.corr
                 /\ calls' = [calls EXCEPT ![p] = @ \ {m}]
                 /\ AdoptId(p, m, r)
                 /\ AdoptHandles(p, m, r)
           \/ /\ \A m \in calls[p] : m.corr # r.corr
              /\ UNCHANGED <<conn, client_id, calls, handles>>
    /\ replies' = [replies EXCEPT ![p] = Tail(@)]
    /\ UNCHANGED <<broker, submission, alive, sent, faults>>

(* call_control's timeout: the slot goes, a late answer finds nobody.  A   *)
(* connect that times out gives up its reply segment.                      *)
CallTimeout(p) ==
    /\ p \in alive
    /\ Fault
    /\ \E m \in calls[p] :
          /\ calls' = [calls EXCEPT ![p] = @ \ {m}]
          /\ conn' = [conn EXCEPT ![p] = IF m.kind = "Register" THEN "left" ELSE @]
    /\ UNCHANGED <<broker, submission, replies, alive, client_id, handles, sent>>

(* SIGKILL: what the process had queued and its reply segment stay. *)
Kill(p) ==
    /\ p \in alive
    /\ Fault
    /\ alive' = alive \ {p}
    /\ calls' = [calls EXCEPT ![p] = {}]
    /\ listed' = [listed EXCEPT ![p] = {}]
    /\ published' = [published EXCEPT ![p] = {}]
    /\ exposed' = [exposed EXCEPT ![p] = {}]
    /\ reading' = [reading EXCEPT ![p] = {}]
    /\ UNCHANGED <<broker, submission, replies, conn, client_id, sent>>

(***************************************************************************)
(* The broker.  Each handler takes the head of the submission ring.        *)
(***************************************************************************)
Handling(kind) == submission # << >> /\ Head(submission).kind = kind

Took == submission' = Tail(submission) /\ UNCHANGED <<proc, sent, faults>>

(* reply: to the ring of the client the request named.  No such ring, or   *)
(* one that stays full for 50 ms: the answer is dropped.                   *)
Reply(rings, c, a) ==
    replies' = IF c \in DOMAIN rings /\ Len(replies[rings[c]]) < ReplyCap
               THEN [replies EXCEPT ![rings[c]] = Append(@, a)]
               ELSE replies

owner_alive(pid) == pid = None \/ pid \in alive

LivePids == {pid \in Procs \cup {None} : owner_alive(pid)}

(* on_register: the reply segment is gone if the connect was given up. *)
on_register ==
    /\ Handling("Register")
    /\ LET m == Head(submission)
           c == NextClientId(reg)
       IN  IF conn[m.proc] = "left"
           THEN UNCHANGED <<broker, replies>>
           ELSE /\ reg' = add_client(reg, IF m.proc \in Legacy THEN None ELSE m.proc)
                /\ reply_rings' = Put(reply_rings, c, m.proc)
                /\ Reply(reply_rings', c, Answer(m, "OK", c, None, {}))
                /\ UNCHANGED arenas
    /\ Took

(* release_client, in its three parts. *)
ReleaseClient(r, c) ==
    remove_client(remove_client_functions(remove_client_channels(r, c), c), c)

ArenasOf(r, c) ==
    {r.channels[id].arena : id \in ChannelsOf(r, c)} \cup
    {r.functions[id].arena : id \in FunctionsOf(r, c)}

on_unregister ==
    /\ Handling("Unregister")
    /\ LET c == Head(submission).client
       IN  /\ reg' = ReleaseClient(reg, c)
           /\ arenas' = arenas \ ArenasOf(reg, c)
           /\ reply_rings' = Without(reply_rings, {c})
    /\ UNCHANGED replies
    /\ Took

Entry(m, id, arena) ==
    [id |-> id, name |-> m.name, owner |-> m.client, schema |-> m.schema,
     key |-> IF m.key = None THEN None ELSE key_hash(m.key), arena |-> arena]

(* make_arena failed. *)
NoArenaSilent(m, rings) == UNCHANGED replies

NoArena(m, rings) == Reply(rings, m.client, Refusal(m, "ERR_INTERNAL"))

(* The rest of on_publish once the name is free: r, as and rings are the   *)
(* registry, arenas and reply rings by then.  make_arena may fail; the     *)
(* channel id is used up all the same.                                     *)
CreateChannel(m, r, as, rings) ==
    LET id == r.next_channel
        arena == channel_arena(id)
    IN  /\ reply_rings' = rings
        /\ \/ /\ m.schema = BadSchema
              /\ reg' = r /\ arenas' = as
              /\ Reply(rings, m.client, Refusal(m, "ERR_INTERNAL"))
           \/ /\ m.schema # BadSchema
              /\ reg' = alloc_channel_id(r) /\ arenas' = as
              /\ NoArena(m, rings)
           \/ /\ m.schema # BadSchema
              /\ reg' = insert_channel(alloc_channel_id(r), Entry(m, id, arena))
              /\ arenas' = as \cup {arena}
              /\ Reply(rings, m.client, Answer(m, "OK", id, arena, {}))

on_publish ==
    /\ Handling("PublishChannel")
    /\ LET m == Head(submission)
           taken == m.name \in DOMAIN reg.chan_by_name
           dead == dead_channel_owner(reg, m.name, LivePids)
       IN  \/ /\ ~ taken
              /\ CreateChannel(m, reg, arenas, reply_rings)
           \/ /\ taken /\ Released(reg, m.name)
              /\ LET id == reg.chan_by_name[m.name]
                 IN  CreateChannel(m, drop_channels(reg, {id}),
                                   arenas \ {reg.channels[id].arena}, reply_rings)
           \/ /\ taken /\ ~ Released(reg, m.name)
              /\ \E c \in dead :
                    CreateChannel(m, ReleaseClient(reg, c), arenas \ ArenasOf(reg, c),
                                  Without(reply_rings, {c}))
           \/ /\ taken /\ ~ Released(reg, m.name) /\ dead = {}
              /\ Reply(reply_rings, m.client, Refusal(m, "ERR_EXISTS"))
              /\ UNCHANGED broker
    /\ Took

on_unpublish ==
    /\ Handling("Unpublish")
    /\ LET m == Head(submission)
           id == reg.chan_by_name[m.name]
       IN  \/ /\ ~ MayRelease(reg, m.name, m.client)
              /\ UNCHANGED <<reg, arenas>>
           \/ /\ MayRelease(reg, m.name, m.client) /\ id \in reg.subscribed
              /\ reg' = drop_channels(reg, {id})
              /\ arenas' = arenas \ {reg.channels[id].arena}
           \/ /\ MayRelease(reg, m.name, m.client) /\ id \notin reg.subscribed
              /\ reg' = defer_release(reg, id)
              /\ UNCHANGED arenas
    /\ UNCHANGED <<reply_rings, replies>>
    /\ Took

on_list ==
    /\ Handling("ListChannels")
    /\ LET m == Head(submission)
       IN  Reply(reply_rings, m.client, Answer(m, "OK", 0, None, DOMAIN reg.channels))
    /\ UNCHANGED broker
    /\ Took

on_subscribe ==
    /\ Handling("Subscribe")
    /\ LET m == Head(submission)
           status == resolve_subscribe(reg, m.chan, m.key, m.schema)
       IN  IF status = "OK"
           THEN /\ reg' = mark_subscribed(reg, m.chan)
                /\ Reply(reply_rings, m.client, Answer(m, "OK", m.chan, reg.channels[m.chan].arena, {}))
           ELSE /\ Reply(reply_rings, m.client, Refusal(m, status))
                /\ UNCHANGED reg
    /\ UNCHANGED <<arenas, reply_rings>>
    /\ Took

(* The rest of on_expose once the name is free. *)
CreateFunction(m, r, as, rings) ==
    LET id == r.next_fn
        arena == function_arena(id)
    IN  /\ reply_rings' = rings
        /\ \/ /\ m.schema = BadSchema
              /\ reg' = r /\ arenas' = as
              /\ Reply(rings, m.client, Refusal(m, "ERR_INTERNAL"))
           \/ /\ m.schema # BadSchema
              /\ reg' = alloc_fn_id(r) /\ arenas' = as
              /\ NoArena(m, rings)
           \/ /\ m.schema # BadSchema
              /\ reg' = insert_function(alloc_fn_id(r), Entry(m, id, arena))
              /\ arenas' = as \cup {arena}
              /\ Reply(rings, m.client, Answer(m, "OK", id, arena, {}))

on_expose ==
    /\ Handling("ExposeFunction")
    /\ LET m == Head(submission)
           taken == m.name \in DOMAIN reg.fn_by_name
           dead == dead_function_owner(reg, m.name, LivePids)
       IN  \/ /\ ~ taken
              /\ CreateFunction(m, reg, arenas, reply_rings)
           \/ /\ taken
              /\ \E c \in dead :
                    CreateFunction(m, ReleaseClient(reg, c), arenas \ ArenasOf(reg, c),
                                   Without(reply_rings, {c}))
           \/ /\ taken /\ dead = {}
              /\ Reply(reply_rings, m.client, Refusal(m, "ERR_EXISTS"))
              /\ UNCHANGED broker
    /\ Took

on_lookup ==
    /\ Handling("LookupFunction")
    /\ LET m == Head(submission)
           status == resolve_lookup(reg, m.name, m.key)
           f == reg.functions[reg.fn_by_name[m.name]]
       IN  IF status = "OK"
           THEN Reply(reply_rings, m.client, Answer(m, "OK", f.id, f.arena, {}))
           ELSE Reply(reply_rings, m.client, Refusal(m, status))
    /\ UNCHANGED broker
    /\ Took

(* RELEASE_GRACE passes for a deferred release. *)
GraceElapses(id) ==
    /\ id \in DOMAIN reg.released
    /\ reg.released[id] = "held"
    /\ reg' = [reg EXCEPT !.released = Put(@, id, "due")]
    /\ UNCHANGED <<arenas, reply_rings, submission, replies, proc, sent, faults>>

SweepLeaks ==
    /\ Due(reg) # {}
    /\ reg' = reap_released(reg)
    /\ UNCHANGED <<arenas, reply_rings, submission, replies, proc, sent, faults>>

(* The sweep of the control loop, between two messages. *)
Sweep ==
    /\ Due(reg) # {}
    /\ reg' = reap_released(reg)
    /\ arenas' = arenas \ {reg.channels[id].arena : id \in Due(reg)}
    /\ UNCHANGED <<reply_rings, submission, replies, proc, sent, faults>>

(* Broker::handle *)
Handle ==
    \/ on_register \/ on_unregister \/ on_publish \/ on_unpublish
    \/ on_list \/ on_subscribe \/ on_expose \/ on_lookup

Next ==
    \/ Handle
    \/ Sweep
    \/ \E id \in DOMAIN reg.released : GraceElapses(id)
    \/ \E p \in Procs :
          \/ Connect(p) \/ Publish(p) \/ ListChannels(p) \/ Subscribe(p)
          \/ Expose(p) \/ Lookup(p) \/ DropPublisher(p) \/ Disconnect(p)
          \/ Dispatch(p) \/ CallTimeout(p) \/ Kill(p)

Spec == Init /\ [][Next]_vars

(***************************************************************************)
(* Fairness.  The control loop never stops, its sweep is due every second, *)
(* the clock runs, and the dispatcher thread of a living process drains    *)
(* its reply ring.  No process has to send anything.                       *)
(***************************************************************************)
Fairness ==
    /\ WF_vars(Handle)
    /\ WF_vars(Sweep)
    /\ WF_vars(\E id \in DOMAIN reg.released : GraceElapses(id))
    /\ \A p \in Procs : WF_vars(Dispatch(p))

FairSpec == Spec /\ Fairness

(***************************************************************************)
(* Properties.                                                             *)
(***************************************************************************)
RequestKinds ==
    {"Register", "Unregister", "PublishChannel", "Unpublish", "ListChannels",
     "Subscribe", "ExposeFunction", "LookupFunction"}

Statuses ==
    {"OK", "ERR_EXISTS", "ERR_INTERNAL", "ERR_NOT_FOUND", "ERR_DENIED", "ERR_SCHEMA_MISMATCH"}

(* A publish or an expose names something and carries a schema. *)
RequestType ==
    {m \in [kind : RequestKinds, proc : Procs, client : Nat, corr : Nat,
            name : Names \cup {None}, key : Keys \cup {None},
            schema : Schemas \cup {BadSchema, None}, chan : Nat] :
        m.kind \in {"PublishChannel", "ExposeFunction"} =>
            m.name \in Names /\ m.schema \in Schemas \cup {BadSchema}}

ArenaType == {"arena", "fn"} \X Nat

AnswerType ==
    [kind : RequestKinds, proc : Procs, corr : Nat, status : Statuses,
     id : Nat, arena : ArenaType \cup {None}, ids : SUBSET Nat]

EntryType ==
    [id : Nat, name : Names, owner : Nat, schema : Schemas,
     key : {key_hash(k) : k \in Keys} \cup {None}, arena : ArenaType]

HandleType == [id : Nat, name : Names]

MapsTo(f, D, R) == DOMAIN f \subseteq D /\ \A x \in DOMAIN f : f[x] \in R

RegistryType(r) ==
    /\ DOMAIN r = {"clients", "channels", "chan_by_name", "functions", "fn_by_name",
                   "subscribed", "released", "next_client", "next_channel", "next_fn"}
    /\ r.next_client \in Nat \ {0} /\ r.next_channel \in Nat \ {0} /\ r.next_fn \in Nat \ {0}
    /\ MapsTo(r.clients, 1..(r.next_client - 1), Procs \cup {None})
    /\ MapsTo(r.channels, 1..(r.next_channel - 1), EntryType)
    /\ MapsTo(r.functions, 1..(r.next_fn - 1), EntryType)
    /\ MapsTo(r.chan_by_name, Names, Nat)
    /\ MapsTo(r.fn_by_name, Names, Nat)
    /\ r.subscribed \subseteq Nat
    /\ MapsTo(r.released, Nat, {"held", "due"})

(* Every variable has its type, and every id in use has been allocated:    *)
(* next_channel, next_fn and next_client are ahead of the maps they feed.  *)
TypeOK ==
    /\ RegistryType(reg)
    /\ arenas \subseteq ArenaType
    /\ MapsTo(reply_rings, 1..(reg.next_client - 1), Procs)
    /\ submission \in Seq(RequestType)
    /\ replies \in [Procs -> Seq(AnswerType)]
    /\ alive \subseteq Procs
    /\ conn \in [Procs -> {"new", "registering", "up", "left"}]
    /\ client_id \in [Procs -> Nat]
    /\ calls \in [Procs -> SUBSET RequestType]
    /\ listed \in [Procs -> SUBSET Nat]
    /\ published \in [Procs -> SUBSET HandleType]
    /\ exposed \in [Procs -> SUBSET HandleType]
    /\ reading \in [Procs -> SUBSET Nat]
    /\ sent \in Nat /\ faults \in Nat

(* The two directions of a name index agree: every indexed name leads to   *)
(* the entry of that name and every entry is found under its name.         *)
Indexed(by_name, entries) ==
    /\ \A n \in DOMAIN by_name : by_name[n] \in DOMAIN entries /\ entries[by_name[n]].name = n
    /\ \A id \in DOMAIN entries :
          /\ entries[id].id = id
          /\ entries[id].name \in DOMAIN by_name
          /\ by_name[entries[id].name] = id

Consistent(r) ==
    /\ Indexed(r.chan_by_name, r.channels)
    /\ Indexed(r.fn_by_name, r.functions)
    /\ r.subscribed \subseteq DOMAIN r.channels
    /\ DOMAIN r.released \subseteq DOMAIN r.channels

(* The registry's maps agree with each other whatever mix of publish,      *)
(* release, takeover, departure and sweep led here: the name indexes, and  *)
(* the release bookkeeping, which speaks of existing channels only (a      *)
(* stale mark would end another channel's grace, or unwrap nothing).       *)
IndexesAgree == Consistent(reg)

ArenasIn(r) ==
    {r.channels[id].arena : id \in DOMAIN r.channels} \cup
    {r.functions[id].arena : id \in DOMAIN r.functions}

(* The broker maps exactly the arenas of the channels and functions in its *)
(* registry: every path that forgets an entry unlinks its arena (nothing   *)
(* leaks in /dev/shm), and no arena is unlinked under an entry.            *)
ArenasAccounted == arenas = ArenasIn(reg)

(* An answer lands in the reply ring of the process that asked, also when  *)
(* the request outlived its sender, whose client id has been released and  *)
(* new clients have come since.                                            *)
AnswersReachTheirCaller ==
    \A p \in Procs : \A i \in 1..Len(replies[p]) : replies[p][i].proc = p

(* What a living, connected process was granted stays granted until it     *)
(* gives it up: its Publisher's channel and its functions are in the       *)
(* registry under their names, owned by it, not released, their arenas     *)
(* mapped; whatever other processes do, and whatever a dead owner of the   *)
(* same name left in the submission ring.                                  *)
GrantStands ==
    \A p \in alive : conn[p] = "up" =>
        /\ \A h \in published[p] :
              /\ h.id \in DOMAIN reg.channels
              /\ reg.channels[h.id].owner = client_id[p]
              /\ h.name \in DOMAIN reg.chan_by_name /\ reg.chan_by_name[h.name] = h.id
              /\ h.id \notin DOMAIN reg.released
              /\ channel_arena(h.id) \in arenas
        /\ \A h \in exposed[p] :
              /\ h.id \in DOMAIN reg.functions
              /\ reg.functions[h.id].owner = client_id[p]
              /\ function_arena(h.id) \in arenas

(* A channel released before anybody subscribed stays resolvable for the   *)
(* grace (the late subscriber of RELEASE_GRACE's comment): a step takes it *)
(* away only for a new publish of its name, a second release once somebody *)
(* did subscribe, its owner's departure, or because the owner is dead.     *)
GraceStep(id) ==
    LET m == Head(submission)
        c == reg.channels[id]
    IN  \/ ~ owner_alive(OwnerPid(reg, c.owner))
        \/ /\ submission # << >> /\ submission' = Tail(submission)
           /\ \/ m.kind = "PublishChannel" /\ m.name = c.name
              \/ m.kind = "Unregister" /\ m.client = c.owner
              \/ m.kind = "Unpublish" /\ m.client = c.owner /\ id \in reg.subscribed

GraceHonoured ==
    [][\A id \in DOMAIN reg.released :
          reg.released[id] = "held" /\ id \notin DOMAIN reg'.channels => GraceStep(id)]_vars

(* Every deferred release is reclaimed in the end, subscribed to meanwhile *)
(* or not.  (A run sends finitely many messages: that no release waits for *)
(* ever is that again and again none is waiting.)                          *)
EveryReleaseReaped == []<>(DOMAIN reg.released = {})

(* Every call returns without its timeout, refused ones too, as long as    *)
(* the caller's reply ring has room: the broker answers on every path.     *)
EveryCallReturns == \A p \in Procs : []<>(calls[p] = {})

(* What the comments of on_publish and release_client promise a restarting *)
(* application: the name of a channel whose owner has died can be taken    *)
(* over by the next publish of it.                                         *)
DeadOwnersNamesReclaimable ==
    \A p \in Procs \ (alive \cup Legacy) : \A id \in DOMAIN reg.channels :
        reg.channels[id].owner = client_id[p] =>
            dead_channel_owner(reg, reg.channels[id].name, LivePids) # {}

(***************************************************************************)
(* The inductive invariant behind the type, registry, arena and routing    *)
(* properties.  Arenas are named after their channel or function, so two   *)
(* entries never share one.  A client id that occurs anywhere, in a queued *)
(* request, with its process or in an answer to Register, was allocated,   *)
(* and if it still has a reply ring, it is that process's.                 *)
(***************************************************************************)
ArenaNames(r) ==
    /\ \A id \in DOMAIN r.channels : r.channels[id].arena = channel_arena(id)
    /\ \A id \in DOMAIN r.functions : r.functions[id].arena = function_arena(id)

Routed(c, p) == c < reg.next_client /\ (c \in DOMAIN reply_rings => reply_rings[c] = p)

Routing ==
    /\ \A i \in 1..Len(submission) : Routed(submission[i].client, submission[i].proc)
    /\ \A p \in Procs :
          /\ Routed(client_id[p], p)
          /\ \A i \in 1..Len(replies[p]) : replies[p][i].kind = "Register" => Routed(replies[p][i].id, p)

BrokerInv ==
    /\ TypeOK
    /\ IndexesAgree
    /\ ArenasAccounted
    /\ ArenaNames(reg)
    /\ AnswersReachTheirCaller
    /\ Routing

(***************************************************************************)
(* The inductive invariant behind GrantStands.                             *)
(***************************************************************************)
Items(s) == {s[i] : i \in 1..Len(s)}

(* A correlation id belongs to one request, which is queued or answered    *)
(* but not both; the slot that waits under it is that request's.           *)
Correlated ==
    /\ \A i, j \in 1..Len(submission) : submission[i].corr = submission[j].corr => i = j
    /\ \A m \in Items(submission) : m.corr < sent
    /\ \A p \in Procs :
          /\ \A m \in calls[p] : m.corr < sent
          /\ \A m, n \in calls[p] : m.corr = n.corr => m = n
          /\ \A m \in calls[p], n \in Items(submission) : m.corr = n.corr => m = n
          /\ \A r \in Items(replies[p]) :
                /\ r.corr < sent
                /\ \A n \in Items(submission) : n.corr # r.corr
                /\ \A m \in calls[p] : m.corr = r.corr => m.kind = r.kind

(* Client ids p has, or will have once it reads the answer to Register. *)
IdsOf(p) ==
    {client_id[p]} \cup {r.id : r \in {x \in Items(replies[p]) : x.kind = "Register"}}

(* A process asks for nothing before it has an id, keeps the one it has,   *)
(* shares it with nobody, and is known to the registry by it or not at     *)
(* all; it leaves before its Unregister is queued.                         *)
Enrolled ==
    /\ \A p \in Procs : conn[p] \in {"new", "registering"} =>
          /\ published[p] = {} /\ exposed[p] = {}
          /\ \A m, n \in calls[p] : m.kind = "Register" /\ m = n
          /\ \A m \in Items(submission) : m.proc = p => m.kind = "Register"
    /\ \A p \in Procs : conn[p] = "up" =>
          client_id[p] # 0 /\ \A m \in calls[p] : m.kind # "Register"
    /\ \A m \in Items(submission) :
          /\ m.kind # "Register" => m.client = client_id[m.proc]
          /\ m.kind = "Unregister" => conn[m.proc] = "left"
    /\ \A p \in Procs : \A r \in Items(replies[p]) : r.kind = "Register" => r.id # 0
    /\ \A p, q \in Procs : \A c \in IdsOf(p) \cap IdsOf(q) : c # 0 => p = q
    /\ \A p \in Procs : \A c \in IdsOf(p) \cap DOMAIN reg.clients : reg.clients[c] \in {p, None}

(* Channel id, named n, is p's and not released; function id is p's. *)
Owns(p, id, n) ==
    /\ id \in DOMAIN reg.channels \ DOMAIN reg.released
    /\ reg.channels[id].owner = client_id[p] /\ reg.channels[id].name = n

OwnsFunction(p, id) ==
    id \in DOMAIN reg.functions /\ reg.functions[id].owner = client_id[p]

(* r grants the request m of the given kind. *)
Grants(r, m, kind) == m.corr = r.corr /\ m.kind = kind /\ r.status = "OK"

(* The requests of p that wait for a grant on its way, and those by which  *)
(* it gives up a channel that the broker has not read yet.                 *)
Coming(p) ==
    {m \in calls[p] : \E r \in Items(replies[p]) : Grants(r, m, "PublishChannel")}

Going(p) == {m \in Items(submission) : m.proc = p /\ m.kind = "Unpublish"}

(* What p holds, is being granted or is giving up is p's ...               *)
Owned(p) ==
    /\ \A h \in published[p] : Owns(p, h.id, h.name)
    /\ \A m \in calls[p], r \in Items(replies[p]) :
          Grants(r, m, "PublishChannel") => Owns(p, r.id, m.name)
    /\ \A m \in Going(p) : \E id \in DOMAIN reg.channels : Owns(p, id, m.name)
    /\ \A h \in exposed[p] : OwnsFunction(p, h.id)
    /\ \A m \in calls[p], r \in Items(replies[p]) :
          Grants(r, m, "ExposeFunction") => OwnsFunction(p, r.id)

(* ... and a name is in one of the three states, once.                     *)
ClaimedOnce(p) ==
    /\ \A h \in published[p], m \in Coming(p) \cup Going(p) : h.name # m.name
    /\ \A m \in Coming(p), n \in Going(p) : m.name # n.name
    /\ \A m, n \in Coming(p) : m.name = n.name => m = n
    /\ \A m, n \in Going(p) : m.name = n.name => m = n

GrantInv ==
    /\ BrokerInv
    /\ Correlated
    /\ Enrolled
    /\ \A p \in alive : conn[p] = "up" => Owned(p) /\ ClaimedOnce(p)
=============================================================================
