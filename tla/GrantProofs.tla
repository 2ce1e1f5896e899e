---------------------------- MODULE GrantProofs -----------------------------
(***************************************************************************)
(* Theorems about what Broker grants: a grant stands until its holder      *)
(* gives it up, and a released channel keeps its grace.  They go beyond    *)
(* BrokerProofs in that they relate the registry to what processes hold,   *)
(* wait for and have queued.                                               *)
(***************************************************************************)
EXTENDS BrokerProofs

(***************************************************************************)
(* What a registry method takes away.                                      *)
(***************************************************************************)
(* From r to s at most the channels X and the functions F go or change,    *)
(* nothing but X becomes released, and no client appears.                  *)
Loses(r, s, X, F) ==
    /\ \A id \in DOMAIN r.channels \ X :
          /\ id \in DOMAIN s.channels /\ s.channels[id] = r.channels[id]
          /\ id \in DOMAIN s.released => id \in DOMAIN r.released
    /\ \A id \in DOMAIN r.functions \ F :
          id \in DOMAIN s.functions /\ s.functions[id] = r.functions[id]
    /\ \A c \in DOMAIN s.clients : c \in DOMAIN r.clients /\ s.clients[c] = r.clients[c]

(* Two methods in a row, the second of which takes nothing away. *)
LEMMA LosesThen ==
    ASSUME NEW r, NEW s, NEW t, NEW X, NEW F, Loses(r, s, X, F), Loses(s, t, {}, {})
    PROVE  Loses(r, t, X, F)
  BY DEF Loses

(* drop_channel, for a set of channels. *)
LEMMA DropLoses ==
    ASSUME NEW r, RegOK(r), NEW ids
    PROVE  Loses(r, drop_channels(r, ids), ids, {})
<1> DEFINE s == drop_channels(r, ids)
<1>1. /\ s.channels = Without(r.channels, ids \cap DOMAIN r.channels)
      /\ s.released = Without(r.released, ids \cap DOMAIN r.channels)
      /\ s.functions = r.functions /\ s.clients = r.clients
  BY DEF drop_channels, RegOK, RegistryType
<1> HIDE DEF s
<1>2. Loses(r, s, ids, {})
  BY <1>1 DEF Loses, Without
<1> QED BY <1>2 DEF s

(* release_client. *)
LEMMA ReleaseLoses ==
    ASSUME NEW r, RegOK(r), NEW c
    PROVE  Loses(r, ReleaseClient(r, c), ChannelsOf(r, c), FunctionsOf(r, c))
<1> DEFINE r1 == remove_client_channels(r, c)
<1> DEFINE r2 == remove_client_functions(r1, c)
<1> DEFINE s == remove_client(r2, c)
<1>1. RegOK(r1) /\ r1.functions = r.functions /\ Loses(r, r1, ChannelsOf(r, c), {})
  BY DropLoses, DropChannelsOK DEF remove_client_channels
<1>2. FunctionsOf(r1, c) = FunctionsOf(r, c)
  BY <1>1 DEF FunctionsOf
<1> HIDE DEF r1
<1>3. /\ r2.functions = Without(r1.functions, FunctionsOf(r, c)) /\ RegOK(r2)
      /\ r2.channels = r1.channels /\ r2.released = r1.released /\ r2.clients = r1.clients
  <2>1. RegOK(r2)
    BY <1>1, RemoveFunctionsOK
  <2>2. /\ r2.functions = Without(r1.functions, FunctionsOf(r, c))
        /\ r2.channels = r1.channels /\ r2.released = r1.released /\ r2.clients = r1.clients
    BY <1>1, <1>2 DEF remove_client_functions, RegOK, RegistryType
  <2> QED BY <2>1, <2>2
<1> HIDE DEF r2
<1>4. /\ s.clients = Without(r2.clients, {c}) /\ s.functions = r2.functions
      /\ s.channels = r2.channels /\ s.released = r2.released
  BY <1>3 DEF remove_client, RegOK, RegistryType
<1>5. s = ReleaseClient(r, c)
  BY DEF ReleaseClient, r1, r2
<1> HIDE DEF s
<1> QED BY <1>1, <1>3, <1>4, <1>5 DEF Loses, Without

(* alloc_channel_id and alloc_fn_id. *)
LEMMA AllocLoses ==
    ASSUME NEW r, RegOK(r)
    PROVE  Loses(r, alloc_channel_id(r), {}, {}) /\ Loses(r, alloc_fn_id(r), {}, {})
           /\ Loses(r, r, {}, {})
<1>1. \A s : s.channels = r.channels /\ s.released = r.released /\ s.functions = r.functions
             /\ s.clients = r.clients => Loses(r, s, {}, {})
  BY DEF Loses
<1> QED BY <1>1 DEF alloc_channel_id, alloc_fn_id, RegOK, RegistryType

(* on_publish's insert: the new channel is there, for the client that asked. *)
LEMMA InsertChannelLoses ==
    ASSUME NEW r, RegOK(r), NEW m \in RequestType, NEW arena
    PROVE  LET id == r.next_channel
               s == insert_channel(alloc_channel_id(r), Entry(m, id, arena))
           IN  /\ Loses(r, s, {}, {})
               /\ id \in DOMAIN s.channels \ DOMAIN s.released
               /\ s.channels[id].owner = m.client /\ s.channels[id].name = m.name
<1> DEFINE id == r.next_channel
<1> DEFINE e == Entry(m, id, arena)
<1> DEFINE s == insert_channel(alloc_channel_id(r), e)
<1>1. e.id = id /\ e.owner = m.client /\ e.name = m.name
  BY DEF Entry
<1> HIDE DEF e
<1>2. /\ s.channels = Put(r.channels, id, e) /\ s.released = r.released
      /\ s.functions = r.functions /\ s.clients = r.clients
  BY <1>1 DEF insert_channel, alloc_channel_id, RegOK, RegistryType
<1> HIDE DEF s
<1>3. id \notin DOMAIN r.channels /\ id \notin DOMAIN r.released
  BY DEF RegOK, RegistryType, Consistent, MapsTo
<1> HIDE DEF id
<1>4. Loses(r, s, {}, {}) /\ id \in DOMAIN s.channels \ DOMAIN s.released /\ s.channels[id] = e
  BY <1>2, <1>3 DEF Loses, Put
<1> QED BY <1>1, <1>4 DEF s, id, e

(* on_expose's insert, likewise. *)
LEMMA InsertFunctionLoses ==
    ASSUME NEW r, RegOK(r), NEW m \in RequestType, NEW arena
    PROVE  LET id == r.next_fn
               s == insert_function(alloc_fn_id(r), Entry(m, id, arena))
           IN  /\ Loses(r, s, {}, {})
               /\ id \in DOMAIN s.functions /\ s.functions[id].owner = m.client
<1> DEFINE id == r.next_fn
<1> DEFINE e == Entry(m, id, arena)
<1> DEFINE s == insert_function(alloc_fn_id(r), e)
<1>1. e.id = id /\ e.owner = m.client
  BY DEF Entry
<1> HIDE DEF e
<1>2. /\ s.functions = Put(r.functions, id, e) /\ s.released = r.released
      /\ s.channels = r.channels /\ s.clients = r.clients
  BY <1>1 DEF insert_function, alloc_fn_id, RegOK, RegistryType
<1> HIDE DEF s
<1>3. id \notin DOMAIN r.functions
  BY DEF RegOK, RegistryType, MapsTo
<1> HIDE DEF id
<1>4. Loses(r, s, {}, {}) /\ id \in DOMAIN s.functions /\ s.functions[id] = e
  BY <1>2, <1>3 DEF Loses, Put
<1> QED BY <1>1, <1>4 DEF s, id, e

(* mark_subscribed takes nothing away, a deferred release only its channel. *)
LEMMA MarkLoses ==
    ASSUME NEW r, RegOK(r), NEW id, NEW v
    PROVE  /\ Loses(r, mark_subscribed(r, id), {}, {})
           /\ Loses(r, [r EXCEPT !.released = Put(@, id, v)], {id}, {})
           /\ [r EXCEPT !.released = Put(@, id, v)].channels = r.channels
<1>1. \A s : s.channels = r.channels /\ s.released = r.released /\ s.functions = r.functions
             /\ s.clients = r.clients => Loses(r, s, {}, {})
  BY DEF Loses
<1>2. Loses(r, mark_subscribed(r, id), {}, {})
  BY <1>1 DEF mark_subscribed, RegOK, RegistryType
<1> DEFINE s == [r EXCEPT !.released = Put(@, id, v)]
<1>3. /\ s.channels = r.channels /\ s.released = Put(r.released, id, v)
      /\ s.functions = r.functions /\ s.clients = r.clients
  BY DEF RegOK, RegistryType
<1> HIDE DEF s
<1>4. Loses(r, s, {id}, {}) /\ s.channels = r.channels
  BY <1>3 DEF Loses, Put
<1> QED BY <1>2, <1>4 DEF s

(***************************************************************************)
(* The second halves of on_publish and on_expose.                          *)
(***************************************************************************)
(* At most one answer arrives, a, at the process it is for. *)
Adds(a) ==
    \A p \in Procs : \A x \in Items(replies'[p]) : x \in Items(replies[p]) \/ (p = a.proc /\ x = a)

(* a answers m. *)
AnswerTo(a, m) == a.proc = m.proc /\ a.corr = m.corr /\ a.kind = m.kind

(* One more answer in a reply ring. *)
LEMMA AppendAdds ==
    ASSUME BrokerInv, NEW a, a.proc \in Procs, replies' = [replies EXCEPT ![a.proc] = Append(@, a)]
    PROVE  Adds(a)
<1> DEFINE S == AnswerType \cup {a}
<1>1. replies \in [Procs -> Seq(AnswerType)]
  BY DEF BrokerInv, TypeOK
<1>2. PICK s \in Seq(AnswerType) : s = replies[a.proc]
  BY <1>1
<1>3. s \in Seq(S) /\ a \in S
  OBVIOUS
<1> HIDE DEF S
<1>4. \A i \in 1..Len(Append(s, a)) : (i \in 1..Len(s) /\ Append(s, a)[i] = s[i]) \/ Append(s, a)[i] = a
  BY <1>3
<1>5. \A x \in Items(Append(s, a)) : x \in Items(s) \/ x = a
  BY <1>4 DEF Items
<1>6. replies'[a.proc] = Append(s, a) /\ \A p \in Procs : p # a.proc => replies'[p] = replies[p]
  BY <1>1, <1>2
<1> QED BY <1>2, <1>5, <1>6 DEF Adds

(* Reply adds at most its answer. *)
LEMMA ReplyAdds ==
    ASSUME BrokerInv, NEW rings, NEW m \in RequestType, NEW a, a.proc = m.proc,
           m.client \in DOMAIN rings => rings[m.client] = m.proc,
           Reply(rings, m.client, a)
    PROVE  Adds(a)
<1>1. a.proc \in Procs
  BY DEF RequestType
<1>2. CASE replies' = replies
  BY <1>2 DEF Adds
<1>3. CASE replies' = [replies EXCEPT ![a.proc] = Append(@, a)]
  BY <1>1, <1>3, AppendAdds
<1> QED BY <1>2, <1>3 DEF Reply

(* Without a reply. *)
LEMMA NoReplyAdds == ASSUME UNCHANGED replies, NEW a PROVE Adds(a)
  BY DEF Adds

(* What CreateChannel does once the name is free: it grants a channel that *)
(* is then there for the client that asked, or refuses.                    *)
LEMMA ChannelCreated ==
    ASSUME BrokerInv, NEW r, RegOK(r), NEW m \in RequestType, NEW as, NEW rings,
           m.client \in DOMAIN rings => rings[m.client] = m.proc,
           CreateChannel(m, r, as, rings)
    PROVE  /\ Loses(r, reg', {}, {})
           /\ \E a \in AnswerType :
                 /\ Adds(a) /\ AnswerTo(a, m)
                 /\ a.status = "OK" =>
                       /\ a.id \in DOMAIN reg'.channels \ DOMAIN reg'.released
                       /\ reg'.channels[a.id].owner = m.client /\ reg'.channels[a.id].name = m.name
<1>1. \A status \in Statuses : Refusal(m, status) \in AnswerType /\ AnswerTo(Refusal(m, status), m)
        /\ Refusal(m, status).status = status
  BY RefusalOK DEF AnswerTo, Refusal, Answer
<1> DEFINE id == r.next_channel
<1> DEFINE ok == Answer(m, "OK", id, channel_arena(id), {})
<1>2. ok \in AnswerType /\ AnswerTo(ok, m) /\ ok.id = id
  <2>1. id \in Nat /\ channel_arena(id) \in ArenaType /\ "OK" \in Statuses
    BY DEF RegOK, RegistryType, channel_arena, ArenaType, Statuses
  <2> QED BY <2>1, AnswerOK DEF AnswerTo, Answer
<1>3. CASE (reg' = r \/ reg' = alloc_channel_id(r)) /\ Reply(rings, m.client, Refusal(m, "ERR_INTERNAL"))
  <2>1. Adds(Refusal(m, "ERR_INTERNAL"))
    BY <1>1, <1>3, ReplyAdds DEF AnswerTo, Statuses
  <2> QED BY <1>1, <1>3, <2>1, AllocLoses DEF Statuses
<1>4. CASE /\ reg' = insert_channel(alloc_channel_id(r), Entry(m, id, channel_arena(id)))
           /\ Reply(rings, m.client, ok)
  <2>1. Adds(ok)
    BY <1>2, <1>4, ReplyAdds DEF AnswerTo
  <2> QED BY <1>2, <1>4, <2>1, InsertChannelLoses
<1> QED BY <1>3, <1>4 DEF CreateChannel, NoArena

(* CreateFunction, likewise. *)
LEMMA FunctionCreated ==
    ASSUME BrokerInv, NEW r, RegOK(r), NEW m \in RequestType, NEW as, NEW rings,
           m.client \in DOMAIN rings => rings[m.client] = m.proc,
           CreateFunction(m, r, as, rings)
    PROVE  /\ Loses(r, reg', {}, {})
           /\ \E a \in AnswerType :
                 /\ Adds(a) /\ AnswerTo(a, m)
                 /\ a.status = "OK" =>
                       a.id \in DOMAIN reg'.functions /\ reg'.functions[a.id].owner = m.client
<1>1. \A status \in Statuses : Refusal(m, status) \in AnswerType /\ AnswerTo(Refusal(m, status), m)
        /\ Refusal(m, status).status = status
  BY RefusalOK DEF AnswerTo, Refusal, Answer
<1> DEFINE id == r.next_fn
<1> DEFINE ok == Answer(m, "OK", id, function_arena(id), {})
<1>2. ok \in AnswerType /\ AnswerTo(ok, m) /\ ok.id = id
  <2>1. id \in Nat /\ function_arena(id) \in ArenaType /\ "OK" \in Statuses
    BY DEF RegOK, RegistryType, function_arena, ArenaType, Statuses
  <2> QED BY <2>1, AnswerOK DEF AnswerTo, Answer
<1>3. CASE (reg' = r \/ reg' = alloc_fn_id(r)) /\ Reply(rings, m.client, Refusal(m, "ERR_INTERNAL"))
  <2>1. Adds(Refusal(m, "ERR_INTERNAL"))
    BY <1>1, <1>3, ReplyAdds DEF AnswerTo, Statuses
  <2> QED BY <1>1, <1>3, <2>1, AllocLoses DEF Statuses
<1>4. CASE /\ reg' = insert_function(alloc_fn_id(r), Entry(m, id, function_arena(id)))
           /\ Reply(rings, m.client, ok)
  <2>1. Adds(ok)
    BY <1>2, <1>4, ReplyAdds DEF AnswerTo
  <2> QED BY <1>2, <1>4, <2>1, InsertFunctionLoses
<1> QED BY <1>3, <1>4 DEF CreateFunction, NoArena

(***************************************************************************)
(* What the handlers take away.                                            *)
(***************************************************************************)
(* Why the channels X and the functions F go when a publish or an expose m *)
(* is handled: nothing goes, the released channel of that name does, or    *)
(* all that a dead client had.                                             *)
MayLose(m, X, F) ==
    \/ X = {} /\ F = {}
    \/ /\ m.kind = "PublishChannel" /\ F = {}
       /\ \A id \in X : id \in DOMAIN reg.released /\ reg.channels[id].name = m.name
    \/ \E c : X = ChannelsOf(reg, c) /\ F = FunctionsOf(reg, c) /\ OwnerPid(reg, c) \notin LivePids

(* The first request, where its answer goes, and the rings that are left   *)
(* when a dead client's is dropped.                                        *)
LEMMA Addressee ==
    ASSUME BrokerInv, submission # << >>
    PROVE  LET m == Head(submission)
           IN  /\ m \in RequestType
               /\ m.client \in DOMAIN reply_rings => reply_rings[m.client] = m.proc
               /\ \A c : m.client \in DOMAIN Without(reply_rings, {c}) =>
                            Without(reply_rings, {c})[m.client] = m.proc
  BY HeadOK DEF Routed, Without

(* on_publish: the name is free, or made free, before a grant. *)
LEMMA PublishEffect ==
    ASSUME BrokerInv, on_publish, NEW m, m = Head(submission)
    PROVE  \E X, F : \E a \in AnswerType :
              /\ Loses(reg, reg', X, F) /\ MayLose(m, X, F) /\ Adds(a) /\ AnswerTo(a, m)
              /\ a.status = "OK" =>
                    /\ a.id \in DOMAIN reg'.channels \ DOMAIN reg'.released
                    /\ reg'.channels[a.id].owner = m.client /\ reg'.channels[a.id].name = m.name
                    /\ \A id \in DOMAIN reg.channels : reg.channels[id].name = m.name => id \in X
<1> DEFINE Made(a) == a.status = "OK" =>
             /\ a.id \in DOMAIN reg'.channels \ DOMAIN reg'.released
             /\ reg'.channels[a.id].owner = m.client /\ reg'.channels[a.id].name = m.name
<1> DEFINE Free(X) == \A id \in DOMAIN reg.channels : reg.channels[id].name = m.name => id \in X
<1> DEFINE Effect(X, F) ==
             \E a \in AnswerType :
                /\ Loses(reg, reg', X, F) /\ MayLose(m, X, F) /\ Adds(a) /\ AnswerTo(a, m)
                /\ Made(a) /\ (a.status = "OK" => Free(X))
<1>1. SUFFICES \E X, F : Effect(X, F)
  OBVIOUS
<1> HIDE DEF Made, Free, Effect
<1>2. /\ submission # << >> /\ m \in RequestType /\ m.kind = "PublishChannel"
      /\ m.client \in DOMAIN reply_rings => reply_rings[m.client] = m.proc
      /\ \A c : m.client \in DOMAIN Without(reply_rings, {c}) =>
                   Without(reply_rings, {c})[m.client] = m.proc
  BY Addressee DEF on_publish, Handling
<1>3. RegOK(reg)
  BY InvRegOK
<1>4. /\ \A id \in DOMAIN reg.channels :
            /\ reg.channels[id].name \in DOMAIN reg.chan_by_name
            /\ reg.chan_by_name[reg.channels[id].name] = id
      /\ m.name \in DOMAIN reg.chan_by_name =>
            /\ reg.chan_by_name[m.name] \in DOMAIN reg.channels
            /\ reg.channels[reg.chan_by_name[m.name]].name = m.name
  BY <1>3 DEF RegOK, Consistent, Indexed
<1>5. ASSUME NEW r, RegOK(r), NEW X, NEW F, Loses(reg, r, X, F), MayLose(m, X, F), Free(X),
             NEW as, NEW rings, m.client \in DOMAIN rings => rings[m.client] = m.proc,
             CreateChannel(m, r, as, rings)
      PROVE  Effect(X, F)
  BY <1>2, <1>5, ChannelCreated, LosesThen DEF Made, Effect
<1>6. CASE m.name \notin DOMAIN reg.chan_by_name /\ CreateChannel(m, reg, arenas, reply_rings)
  <2>1. Loses(reg, reg, {}, {}) /\ MayLose(m, {}, {}) /\ Free({})
    BY <1>3, <1>4, <1>6, AllocLoses DEF MayLose, Free
  <2> QED BY <1>2, <1>3, <1>5, <1>6, <2>1
<1>7. CASE /\ m.name \in DOMAIN reg.chan_by_name /\ Released(reg, m.name)
           /\ CreateChannel(m, drop_channels(reg, {reg.chan_by_name[m.name]}),
                            arenas \ {reg.channels[reg.chan_by_name[m.name]].arena}, reply_rings)
  <2> DEFINE X == {reg.chan_by_name[m.name]}
  <2>1. RegOK(drop_channels(reg, X)) /\ Loses(reg, drop_channels(reg, X), X, {})
    BY <1>3, DropChannelsOK, DropLoses
  <2>2. MayLose(m, X, {}) /\ Free(X)
    BY <1>2, <1>4, <1>7 DEF MayLose, Free, Released
  <2> QED BY <1>2, <1>5, <1>7, <2>1, <2>2
<1>8. ASSUME m.name \in DOMAIN reg.chan_by_name,
             NEW c \in dead_channel_owner(reg, m.name, LivePids),
             CreateChannel(m, ReleaseClient(reg, c), arenas \ ArenasOf(reg, c), Without(reply_rings, {c}))
      PROVE  \E X, F : Effect(X, F)
  <2>1. RegOK(ReleaseClient(reg, c))
        /\ Loses(reg, ReleaseClient(reg, c), ChannelsOf(reg, c), FunctionsOf(reg, c))
    BY <1>3, ReleaseClientOK, ReleaseLoses
  <2>2. MayLose(m, ChannelsOf(reg, c), FunctionsOf(reg, c))
    BY <1>8 DEF MayLose, dead_channel_owner
  <2>3. Free(ChannelsOf(reg, c))
    BY <1>4, <1>8 DEF Free, ChannelsOf, dead_channel_owner
  <2> QED BY <1>2, <1>5, <1>8, <2>1, <2>2, <2>3
<1>9. CASE Reply(reply_rings, m.client, Refusal(m, "ERR_EXISTS")) /\ UNCHANGED broker
  <2> DEFINE a == Refusal(m, "ERR_EXISTS")
  <2>1. a \in AnswerType /\ AnswerTo(a, m) /\ a.status = "ERR_EXISTS"
    BY <1>2, RefusalOK DEF AnswerTo, Statuses, Refusal, Answer
  <2>2. Adds(a)
    BY <1>2, <1>9, <2>1, ReplyAdds DEF AnswerTo
  <2>3. Loses(reg, reg', {}, {}) /\ MayLose(m, {}, {})
    BY <1>3, <1>9, AllocLoses DEF broker, MayLose
  <2> QED BY <2>1, <2>2, <2>3 DEF Made, Effect
<1> QED BY <1>6, <1>7, <1>8, <1>9 DEF on_publish

(* on_expose, likewise. *)
LEMMA ExposeEffect ==
    ASSUME BrokerInv, on_expose, NEW m, m = Head(submission)
    PROVE  \E X, F : \E a \in AnswerType :
              /\ Loses(reg, reg', X, F) /\ MayLose(m, X, F) /\ Adds(a) /\ AnswerTo(a, m)
              /\ a.status = "OK" =>
                    a.id \in DOMAIN reg'.functions /\ reg'.functions[a.id].owner = m.client
<1> DEFINE Made(a) == a.status = "OK" =>
             a.id \in DOMAIN reg'.functions /\ reg'.functions[a.id].owner = m.client
<1> DEFINE Effect(X, F) ==
             \E a \in AnswerType :
                Loses(reg, reg', X, F) /\ MayLose(m, X, F) /\ Adds(a) /\ AnswerTo(a, m) /\ Made(a)
<1>1. SUFFICES \E X, F : Effect(X, F)
  OBVIOUS
<1> HIDE DEF Made, Effect
<1>2. /\ submission # << >> /\ m \in RequestType
      /\ m.client \in DOMAIN reply_rings => reply_rings[m.client] = m.proc
      /\ \A c : m.client \in DOMAIN Without(reply_rings, {c}) =>
                   Without(reply_rings, {c})[m.client] = m.proc
  BY Addressee DEF on_expose, Handling
<1>3. RegOK(reg)
  BY InvRegOK
<1>4. ASSUME NEW r, RegOK(r), NEW X, NEW F, Loses(reg, r, X, F), MayLose(m, X, F),
             NEW as, NEW rings, m.client \in DOMAIN rings => rings[m.client] = m.proc,
             CreateFunction(m, r, as, rings)
      PROVE  Effect(X, F)
  BY <1>2, <1>4, FunctionCreated, LosesThen DEF Made, Effect
<1>5. CASE CreateFunction(m, reg, arenas, reply_rings)
  <2>1. Loses(reg, reg, {}, {}) /\ MayLose(m, {}, {})
    BY <1>3, AllocLoses DEF MayLose
  <2> QED BY <1>2, <1>3, <1>4, <1>5, <2>1
<1>6. ASSUME NEW c \in dead_function_owner(reg, m.name, LivePids),
             CreateFunction(m, ReleaseClient(reg, c), arenas \ ArenasOf(reg, c), Without(reply_rings, {c}))
      PROVE  \E X, F : Effect(X, F)
  <2>1. RegOK(ReleaseClient(reg, c))
        /\ Loses(reg, ReleaseClient(reg, c), ChannelsOf(reg, c), FunctionsOf(reg, c))
    BY <1>3, ReleaseClientOK, ReleaseLoses
  <2>2. MayLose(m, ChannelsOf(reg, c), FunctionsOf(reg, c))
    BY <1>6 DEF MayLose, dead_function_owner
  <2> QED BY <1>2, <1>4, <1>6, <2>1, <2>2
<1>7. CASE Reply(reply_rings, m.client, Refusal(m, "ERR_EXISTS")) /\ UNCHANGED broker
  <2> DEFINE a == Refusal(m, "ERR_EXISTS")
  <2>1. a \in AnswerType /\ AnswerTo(a, m) /\ a.status = "ERR_EXISTS"
    BY <1>2, RefusalOK DEF AnswerTo, Statuses, Refusal, Answer
  <2>2. Adds(a)
    BY <1>2, <1>7, <2>1, ReplyAdds DEF AnswerTo
  <2>3. Loses(reg, reg', {}, {}) /\ MayLose(m, {}, {})
    BY <1>3, <1>7, AllocLoses DEF broker, MayLose
  <2> QED BY <2>1, <2>2, <2>3 DEF Made, Effect
<1> QED BY <1>5, <1>6, <1>7 DEF on_expose

(* The other handlers that answer: on_list, on_subscribe and on_lookup. *)
LEMMA AskEffect ==
    ASSUME BrokerInv, on_list \/ on_subscribe \/ on_lookup, NEW m, m = Head(submission)
    PROVE  /\ Loses(reg, reg', {}, {})
           /\ \E a : Adds(a) /\ AnswerTo(a, m)
<1>1. /\ submission # << >> /\ m \in RequestType
      /\ m.client \in DOMAIN reply_rings => reply_rings[m.client] = m.proc
  BY Addressee DEF on_list, on_subscribe, on_lookup, Handling
<1>2. RegOK(reg) /\ replies \in [Procs -> Seq(AnswerType)]
  BY InvRegOK DEF BrokerInv, TypeOK
<1>3. Loses(reg, reg', {}, {})
  <2>1. reg' = reg \/ reg' = mark_subscribed(reg, m.chan)
    BY DEF on_list, on_subscribe, on_lookup, broker
  <2>2. Loses(reg, reg, {}, {})
    BY <1>2, AllocLoses
  <2>3. Loses(reg, mark_subscribed(reg, m.chan), {}, {})
    BY <1>2, MarkLoses
  <2> QED BY <2>1, <2>2, <2>3
<1>4. ASSUME NEW status, NEW id, NEW arena, NEW ids,
             Reply(reply_rings, m.client, Answer(m, status, id, arena, ids))
      PROVE  \E a : Adds(a) /\ AnswerTo(a, m)
  <2> DEFINE a == Answer(m, status, id, arena, ids)
  <2>1. AnswerTo(a, m)
    BY DEF AnswerTo, Answer
  <2> QED BY <1>1, <1>4, <2>1, ReplyAdds DEF AnswerTo
<1>5. \E status, id, arena, ids : Reply(reply_rings, m.client, Answer(m, status, id, arena, ids))
  BY DEF on_list, on_subscribe, on_lookup, Refusal
<1> QED BY <1>3, <1>4, <1>5

(***************************************************************************)
(* The grace of a released channel.                                        *)
(***************************************************************************)
(* A channel released before anybody subscribed to it stays resolvable     *)
(* until its grace is over, unless its owner or its owner's death ends it  *)
(* (release_channel, reap_released, release_client, on_publish).           *)
THEOREM GraceIsHonoured == Spec => GraceHonoured
<1> DEFINE Honoured == \A id \in DOMAIN reg.released :
             reg.released[id] = "held" /\ id \notin DOMAIN reg'.channels => GraceStep(id)
<1>1. ASSUME BrokerInv, [Next]_vars PROVE [Honoured]_vars
  <2>1. RegOK(reg)
    BY <1>1, InvRegOK
  <2>2. DOMAIN reg.released \subseteq DOMAIN reg.channels
    BY <2>1 DEF RegOK, Consistent
  <2>3. ASSUME NEW F, Loses(reg, reg', {}, F) PROVE Honoured
    BY <2>2, <2>3 DEF Loses
  <2>4. ASSUME NEW c, OwnerPid(reg, c) \notin LivePids PROVE ~ owner_alive(OwnerPid(reg, c))
    <3>1. OwnerPid(reg, c) \in Procs \cup {None}
      BY <2>1 DEF OwnerPid, RegOK, RegistryType, MapsTo
    <3> QED BY <2>4, <3>1 DEF LivePids
  <2>5. ASSUME NEW m, m = Head(submission), submission # << >>, submission' = Tail(submission),
               NEW X, NEW F, Loses(reg, reg', X, F), MayLose(m, X, F)
        PROVE  Honoured
    <3> SUFFICES ASSUME NEW id \in DOMAIN reg.released, id \notin DOMAIN reg'.channels
                 PROVE  GraceStep(id)
      OBVIOUS
    <3>1. id \in DOMAIN reg.channels /\ id \in X
      BY <2>2, <2>5 DEF Loses
    <3>2. CASE m.kind = "PublishChannel" /\ reg.channels[id].name = m.name
      BY <2>5, <3>2 DEF GraceStep
    <3>3. ASSUME NEW c, X = ChannelsOf(reg, c), OwnerPid(reg, c) \notin LivePids
          PROVE  GraceStep(id)
      <4>1. reg.channels[id].owner = c
        BY <3>1, <3>3 DEF ChannelsOf
      <4> QED BY <2>4, <3>3, <4>1 DEF GraceStep
    <3> QED BY <2>5, <3>1, <3>2, <3>3 DEF MayLose
  <2>6. CASE on_register
    <3>1. reg'.channels = reg.channels
      BY <2>1, <2>6 DEF on_register, add_client, RegOK, RegistryType, broker
    <3> QED BY <2>2, <3>1
  <2>7. CASE on_unregister
    <3> DEFINE c == Head(submission).client
    <3>1. /\ reg' = ReleaseClient(reg, c) /\ Head(submission).kind = "Unregister"
          /\ submission # << >> /\ submission' = Tail(submission)
      BY <2>7 DEF on_unregister, Handling, Took
    <3>2. Loses(reg, reg', ChannelsOf(reg, c), FunctionsOf(reg, c))
      BY <2>1, <3>1, ReleaseLoses
    <3>3. \A id \in DOMAIN reg.channels : id \notin DOMAIN reg'.channels => reg.channels[id].owner = c
      BY <3>2 DEF Loses, ChannelsOf
    <3> QED BY <2>2, <3>1, <3>3 DEF GraceStep
  <2>8. CASE on_publish \/ on_expose
    <3>1. PICK m : m = Head(submission)
      OBVIOUS
    <3>2. submission # << >> /\ submission' = Tail(submission)
      BY <2>8 DEF on_publish, on_expose, Handling, Took
    <3> QED BY <1>1, <2>5, <2>8, <3>1, <3>2, PublishEffect, ExposeEffect
  <2>9. CASE on_unpublish
    <3> DEFINE m == Head(submission)
    <3> DEFINE id == reg.chan_by_name[m.name]
    <3>1. m.kind = "Unpublish" /\ submission # << >> /\ submission' = Tail(submission)
      BY <2>9 DEF on_unpublish, Handling, Took
    <3>2. CASE reg' = reg
      BY <2>2, <3>2
    <3>3. CASE MayRelease(reg, m.name, m.client) /\ id \in reg.subscribed /\ reg' = drop_channels(reg, {id})
      <4>1. Loses(reg, reg', {id}, {})
        BY <2>1, <3>3, DropLoses
      <4>2. \A x \in DOMAIN reg.channels : x \notin DOMAIN reg'.channels => x = id
        BY <4>1 DEF Loses
      <4>3. reg.channels[id].owner = m.client
        BY <3>3 DEF MayRelease
      <4> QED BY <2>2, <3>1, <3>3, <4>2, <4>3 DEF GraceStep
    <3>4. CASE reg' = defer_release(reg, id)
      BY <2>1, <2>2, <3>4, MarkLoses DEF defer_release
    <3> QED BY <2>9, <3>2, <3>3, <3>4 DEF on_unpublish
  <2>10. CASE on_list \/ on_subscribe \/ on_lookup
    BY <1>1, <2>3, <2>10, AskEffect
  <2>11. CASE Sweep
    <3>1. Loses(reg, reg', Due(reg), {})
      BY <2>1, <2>11, DropLoses DEF Sweep, reap_released
    <3>2. \A id \in DOMAIN reg.channels : id \notin DOMAIN reg'.channels => reg.released[id] = "due"
      BY <3>1 DEF Loses, Due
    <3> QED BY <2>2, <3>2
  <2>12. ASSUME NEW id \in DOMAIN reg.released, GraceElapses(id) PROVE Honoured
    <3>1. reg'.channels = reg.channels
      BY <2>1, <2>12, MarkLoses DEF GraceElapses
    <3> QED BY <2>2, <3>1
  <2>13. CASE UNCHANGED broker
    BY <2>2, <2>13 DEF broker
  <2>14. ASSUME NEW p \in Procs,
                \/ Connect(p) \/ Publish(p) \/ ListChannels(p) \/ Subscribe(p)
                \/ Expose(p) \/ Lookup(p) \/ DropPublisher(p) \/ Disconnect(p)
                \/ Dispatch(p) \/ CallTimeout(p) \/ Kill(p)
         PROVE  UNCHANGED broker
    BY <2>14 DEF Connect, Publish, ListChannels, Subscribe, Expose, Lookup, Call, DropPublisher,
                 Disconnect, Dispatch, CallTimeout, Kill
  <2> HIDE DEF Honoured
  <2>15. CASE Handle
    BY <2>6, <2>7, <2>8, <2>9, <2>10, <2>15 DEF Handle
  <2> QED BY <1>1, <2>11, <2>12, <2>13, <2>14, <2>15 DEF Next
<1> QED BY <1>1, BrokerInvariant, PTL DEF Spec, GraceHonoured

(***************************************************************************)
(* The submission ring as a set.                                           *)
(***************************************************************************)
(* Submit adds its message, with a correlation id of its own. *)
LEMMA Submitted ==
    ASSUME BrokerInv, Correlated, NEW m \in RequestType, m.corr = sent, Submit(m)
    PROVE  /\ Items(submission') = Items(submission) \cup {m}
           /\ \A i, j \in 1..Len(submission') : submission'[i].corr = submission'[j].corr => i = j
           /\ \A n \in Items(submission') : n.corr < sent'
           /\ sent \in Nat /\ sent' = sent + 1
<1>1. submission \in Seq(RequestType) /\ sent \in Nat
  BY DEF BrokerInv, TypeOK
<1>2. submission' = Append(submission, m) /\ sent' = sent + 1
  BY DEF Submit
<1>3. /\ Len(submission) \in Nat /\ Len(submission') = Len(submission) + 1
      /\ \A i \in 1..Len(submission) : submission'[i] = submission[i]
      /\ submission'[Len(submission) + 1] = m
  BY <1>1, <1>2
<1>4. \A i \in 1..Len(submission') : i \in 1..Len(submission) \/ i = Len(submission) + 1
  BY <1>3
<1>5. Items(submission') = Items(submission) \cup {m}
  <2>1. \A x \in Items(submission') : x \in Items(submission) \cup {m}
    BY <1>3, <1>4 DEF Items
  <2>2. m \in Items(submission')
    BY <1>3 DEF Items
  <2>3. \A x \in Items(submission) : x \in Items(submission')
    BY <1>3 DEF Items
  <2> QED BY <2>1, <2>2, <2>3
<1>6. \A i \in 1..Len(submission) : submission[i].corr < sent /\ submission[i].corr \in Nat
  <2>1. \A i \in 1..Len(submission) : submission[i] \in RequestType /\ submission[i] \in Items(submission)
    BY <1>1 DEF Items
  <2> QED BY <2>1 DEF Correlated, RequestType
<1>7. \A i, j \in 1..Len(submission') : submission'[i].corr = submission'[j].corr => i = j
  BY <1>1, <1>3, <1>4, <1>6 DEF Correlated
<1>8. \A n \in Items(submission') : n.corr < sent'
  <2>1. \A n \in Items(submission) : n.corr < sent /\ n.corr \in Nat
    BY <1>6 DEF Items
  <2> QED BY <1>1, <1>2, <1>5, <2>1
<1> QED BY <1>1, <1>2, <1>5, <1>7, <1>8

(* The broker takes the first request; no other has its correlation id. *)
LEMMA Taken ==
    ASSUME BrokerInv, Correlated, submission # << >>, submission' = Tail(submission),
           NEW m, m = Head(submission)
    PROVE  /\ m \in Items(submission) /\ m \in RequestType
           /\ Items(submission') \subseteq Items(submission)
           /\ \A n \in Items(submission') : n.corr # m.corr
           /\ \A i, j \in 1..Len(submission') : submission'[i].corr = submission'[j].corr => i = j
<1>1. submission \in Seq(RequestType)
  BY DEF BrokerInv, TypeOK
<1>2. m = submission[1] /\ 1 \in 1..Len(submission) /\ m \in RequestType
  BY <1>1
<1>3. \A i \in 1..Len(submission') :
         i \in Nat /\ i + 1 \in 1..Len(submission) /\ i + 1 # 1 /\ submission'[i] = submission[i + 1]
  BY <1>1
<1>4. \A n \in Items(submission') : n \in Items(submission) /\ n.corr # m.corr
  <2> SUFFICES ASSUME NEW n \in Items(submission') PROVE n \in Items(submission) /\ n.corr # m.corr
    OBVIOUS
  <2>1. PICK i \in 1..Len(submission') : n = submission'[i]
    BY DEF Items
  <2>2. n = submission[i + 1] /\ i + 1 \in 1..Len(submission) /\ i + 1 # 1
    BY <1>3, <2>1
  <2> QED BY <1>2, <2>2 DEF Items, Correlated
<1>5. \A i, j \in 1..Len(submission') : submission'[i].corr = submission'[j].corr => i = j
  <2> SUFFICES ASSUME NEW i \in 1..Len(submission'), NEW j \in 1..Len(submission'),
                      submission'[i].corr = submission'[j].corr
               PROVE  i = j
    OBVIOUS
  <2>1. i + 1 = j + 1
    BY <1>3 DEF Correlated
  <2> QED BY <1>3, <2>1
<1>6. m \in Items(submission)
  BY <1>2 DEF Items
<1> QED BY <1>2, <1>4, <1>5, <1>6

(***************************************************************************)
(* The parts of the invariant, handler by handler.                         *)
(***************************************************************************)
(* A handler moves one correlation id from the submission ring to a reply  *)
(* ring, or ends it.                                                       *)
LEMMA HandledCorrelated ==
    ASSUME BrokerInv, Correlated, submission # << >>, Took,
           NEW m, m = Head(submission), NEW a, Adds(a), AnswerTo(a, m)
    PROVE  Correlated'
<1>1. submission' = Tail(submission) /\ UNCHANGED <<calls, sent>>
  BY DEF Took, proc
<1>2. /\ m \in Items(submission) /\ m \in RequestType
      /\ Items(submission') \subseteq Items(submission)
      /\ \A n \in Items(submission') : n.corr # m.corr
      /\ \A i, j \in 1..Len(submission') : submission'[i].corr = submission'[j].corr => i = j
  BY <1>1, Taken
<1>3. a.corr = m.corr /\ a.kind = m.kind /\ m.corr < sent
  BY <1>2 DEF AnswerTo, Correlated
<1>4. ASSUME NEW p \in Procs
      PROVE  /\ \A n \in calls[p] : n.corr < sent
             /\ \A n, o \in calls[p] : n.corr = o.corr => n = o
             /\ \A n \in calls[p], o \in Items(submission') : n.corr = o.corr => n = o
  BY <1>2 DEF Correlated
<1>5. ASSUME NEW p \in Procs, NEW r \in Items(replies'[p])
      PROVE  /\ r.corr < sent
             /\ \A n \in Items(submission') : n.corr # r.corr
             /\ \A n \in calls[p] : n.corr = r.corr => n.kind = r.kind
  <2>1. CASE r \in Items(replies[p])
    BY <1>2, <2>1 DEF Correlated
  <2>2. CASE r = a
    BY <1>2, <1>3, <2>2 DEF Correlated
  <2> QED BY <2>1, <2>2 DEF Adds
<1>6. \A n \in Items(submission') : n.corr < sent
  BY <1>2 DEF Correlated
<1> QED BY <1>1, <1>2, <1>4, <1>5, <1>6 DEF Correlated

(* A handler other than on_register gives nobody an id. *)
LEMMA HandledEnrolled ==
    ASSUME BrokerInv, Correlated, Enrolled, submission # << >>, Took,
           NEW m, m = Head(submission), m.kind # "Register", NEW a, Adds(a), AnswerTo(a, m),
           \A c \in DOMAIN reg'.clients : c \in DOMAIN reg.clients /\ reg'.clients[c] = reg.clients[c]
    PROVE  Enrolled'
<1>1. submission' = Tail(submission) /\ UNCHANGED <<calls, conn, client_id, published, exposed>>
  BY DEF Took, proc, handles
<1>2. Items(submission') \subseteq Items(submission)
  BY <1>1, Taken
<1>3. \A p \in Procs : \A r \in Items(replies'[p]) : r.kind = "Register" => r \in Items(replies[p])
  BY DEF Adds, AnswerTo
<1>4. \A p \in Procs : IdsOf(p)' \subseteq IdsOf(p)
  BY <1>1, <1>3 DEF IdsOf
<1>5. /\ \A p, q \in Procs : \A c \in IdsOf(p)' \cap IdsOf(q)' : c # 0 => p = q
      /\ \A p \in Procs : \A c \in IdsOf(p)' \cap DOMAIN reg'.clients : reg'.clients[c] \in {p, None}
  BY <1>4 DEF Enrolled
<1>6. \A p \in Procs : \A r \in Items(replies'[p]) : r.kind = "Register" => r.id # 0
  BY <1>3 DEF Enrolled
<1> QED BY <1>1, <1>2, <1>5, <1>6 DEF Enrolled

(* Whom the grants are for. *)
Holder(p) == p \in alive /\ conn[p] = "up"

Granting == \A p \in alive : conn[p] = "up" => Owned(p) /\ ClaimedOnce(p)

(* The owner's side of a handler: what the holders own stays theirs,       *)
(* except what its owner gave up with m; and if a grants something, then   *)
(* it is there, and nobody had a claim to that name before.                *)
Keeps(m) ==
    \A p \in alive : conn[p] = "up" =>
        /\ \A id, n : Owns(p, id, n) /\ ~ (m \in Going(p) /\ n = m.name) => Owns(p, id, n)'
        /\ \A id : OwnsFunction(p, id) => OwnsFunction(p, id)'

Delivers(m, a) ==
    a.status = "OK" =>
        /\ m.kind = "PublishChannel" =>
              /\ Owns(m.proc, a.id, m.name)'
              /\ Holder(m.proc) => \A id : ~ Owns(m.proc, id, m.name)
        /\ m.kind = "ExposeFunction" => OwnsFunction(m.proc, a.id)'

(* A handler keeps the grants if the registry keeps them. *)
LEMMA HandledGranting ==
    ASSUME BrokerInv, Correlated, Granting, submission # << >>, Took,
           NEW m, m = Head(submission), NEW a, Adds(a), AnswerTo(a, m), Keeps(m), Delivers(m, a)
    PROVE  Granting'
<1>1. /\ submission' = Tail(submission)
      /\ UNCHANGED <<alive, calls, conn, client_id, published, exposed>>
  BY DEF Took, proc, handles
<1>2. /\ m \in Items(submission)
      /\ \A n \in Items(submission') : n \in Items(submission) /\ n # m
  BY <1>1, Taken
<1> SUFFICES ASSUME NEW p \in alive, conn[p] = "up" PROVE Owned(p)' /\ ClaimedOnce(p)'
  BY <1>1 DEF Granting
<1>3. p \in Procs /\ Owned(p) /\ ClaimedOnce(p) /\ Holder(p)
  BY DEF BrokerInv, TypeOK, Granting, Holder
<1>4. Going(p)' \subseteq Going(p) /\ m \notin Going(p)'
  BY <1>2 DEF Going
<1>5. \A n \in calls[p], r \in Items(replies'[p]) : n.corr = r.corr =>
         r \in Items(replies[p]) \/ (n = m /\ r = a /\ p = m.proc)
  BY <1>2, <1>3 DEF Adds, AnswerTo, Correlated
<1>6. /\ \A id, n : Owns(p, id, n) /\ ~ (m \in Going(p) /\ n = m.name) => Owns(p, id, n)'
      /\ \A id : OwnsFunction(p, id) => OwnsFunction(p, id)'
  BY DEF Keeps
<1> DEFINE New == p = m.proc /\ a.status = "OK" /\ m.kind = "PublishChannel"
<1>7. Coming(p)' \subseteq Coming(p) \cup (IF New THEN {m} ELSE {})
  BY <1>1, <1>5 DEF Coming, Grants
<1>8. New => /\ Owns(p, a.id, m.name)' /\ \A id : ~ Owns(p, id, m.name)
             /\ m \notin Going(p)
  BY <1>3 DEF Delivers, Going
<1> HIDE DEF New
<1>9. Owned(p)'
  <2>1. \A h \in published[p] : Owns(p, h.id, h.name)'
    BY <1>3, <1>6 DEF Owned, ClaimedOnce
  <2>2. ASSUME NEW n \in calls[p], NEW r \in Items(replies'[p]), Grants(r, n, "PublishChannel")
        PROVE  Owns(p, r.id, n.name)'
    <3>1. CASE r \in Items(replies[p])
      <4>1. n \in Coming(p) /\ Owns(p, r.id, n.name)
        BY <1>3, <2>2, <3>1 DEF Coming, Owned
      <4> QED BY <1>3, <1>6, <4>1 DEF ClaimedOnce
    <3>2. CASE n = m /\ r = a /\ p = m.proc
      BY <1>8, <2>2, <3>2 DEF Grants, New
    <3> QED BY <1>5, <2>2, <3>1, <3>2 DEF Grants
  <2>3. ASSUME NEW n \in Going(p)' PROVE \E id \in DOMAIN reg'.channels : Owns(p, id, n.name)'
    <3>1. n \in Going(p) /\ n # m
      BY <1>4
    <3>2. PICK id : Owns(p, id, n.name)
      BY <1>3, <3>1 DEF Owned
    <3>3. m \in Going(p) => n.name # m.name
      BY <1>3, <3>1 DEF ClaimedOnce
    <3>4. Owns(p, id, n.name)'
      BY <1>6, <3>2, <3>3
    <3> QED BY <3>4 DEF Owns
  <2>4. \A h \in exposed[p] : OwnsFunction(p, h.id)'
    BY <1>3, <1>6 DEF Owned
  <2>5. ASSUME NEW n \in calls[p], NEW r \in Items(replies'[p]), Grants(r, n, "ExposeFunction")
        PROVE  OwnsFunction(p, r.id)'
    <3>1. CASE r \in Items(replies[p])
      BY <1>3, <1>6, <2>5, <3>1 DEF Owned
    <3>2. CASE n = m /\ r = a /\ p = m.proc
      BY <2>5, <3>2 DEF Grants, Delivers
    <3> QED BY <1>5, <2>5, <3>1, <3>2 DEF Grants
  <2> QED BY <1>1, <2>1, <2>2, <2>3, <2>4, <2>5 DEF Owned, Grants
<1>10. ClaimedOnce(p)'
  <2>1. \A n \in Coming(p) : \E id : Owns(p, id, n.name)
    BY <1>3 DEF Coming, Owned
  <2>2. \A n \in Going(p) : \E id : Owns(p, id, n.name)
    BY <1>3 DEF Owned
  <2>3. \A h \in published[p] : \E id : Owns(p, id, h.name)
    BY <1>3 DEF Owned
  <2>4. New => /\ \A n \in Coming(p) \cup Going(p) : n.name # m.name
               /\ \A h \in published[p] : h.name # m.name
    BY <1>8, <2>1, <2>2, <2>3
  <2>5. published'[p] = published[p]
    BY <1>1
  <2> QED BY <1>3, <1>4, <1>7, <2>4, <2>5 DEF ClaimedOnce
<1> QED BY <1>9, <1>10

(* What a holder owns is not in what a publish or an expose may take away. *)
LEMMA NotLost ==
    ASSUME BrokerInv, Enrolled, NEW p \in alive, conn[p] = "up",
           NEW m, NEW X, NEW F, MayLose(m, X, F)
    PROVE  /\ \A id, n : Owns(p, id, n) => id \notin X
           /\ \A id : OwnsFunction(p, id) => id \notin F
<1>1. CASE X = {} /\ F = {}
  BY <1>1
<1>2. CASE F = {} /\ \A id \in X : id \in DOMAIN reg.released
  BY <1>2 DEF Owns
<1>3. ASSUME NEW c, X = ChannelsOf(reg, c), F = FunctionsOf(reg, c), OwnerPid(reg, c) \notin LivePids
      PROVE  /\ \A id, n : Owns(p, id, n) => id \notin X
             /\ \A id : OwnsFunction(p, id) => id \notin F
  <2>1. c # client_id[p]
    <3>1. p \in Procs /\ client_id[p] \in IdsOf(p)
      BY DEF BrokerInv, TypeOK, IdsOf
    <3>2. OwnerPid(reg, client_id[p]) \in {p, None}
      BY <3>1 DEF Enrolled, OwnerPid
    <3> QED BY <1>3, <3>1, <3>2 DEF LivePids, owner_alive
  <2> QED BY <1>3, <2>1 DEF Owns, OwnsFunction, ChannelsOf, FunctionsOf
<1> QED BY <1>1, <1>2, <1>3 DEF MayLose

(* The registry keeps what nobody takes away. *)
LEMMA LosesKeeps ==
    ASSUME UNCHANGED client_id, NEW m, NEW X, NEW F, Loses(reg, reg', X, F),
           \A p \in alive : conn[p] = "up" =>
              /\ \A id, n : Owns(p, id, n) /\ ~ (m \in Going(p) /\ n = m.name) => id \notin X
              /\ \A id : OwnsFunction(p, id) => id \notin F
    PROVE  Keeps(m)
  BY DEF Keeps, Loses, Owns, OwnsFunction

LEMMA HandleGrants ==
    ASSUME BrokerInv, Correlated, Enrolled, Granting, Handle, ~ on_register
    PROVE  Correlated' /\ Enrolled' /\ Granting'
<1>1. PICK m : m = Head(submission)
  OBVIOUS
<1>2. submission # << >> /\ Took /\ UNCHANGED client_id /\ m.kind # "Register"
  BY <1>1 DEF Handle, on_unregister, on_publish, on_unpublish, on_list, on_subscribe, on_expose,
              on_lookup, Handling, Took, proc
<1>3. m \in RequestType /\ m \in Items(submission) /\ RegOK(reg)
      /\ m.client = client_id[m.proc] /\ m.proc \in Procs
  BY <1>1, <1>2, Taken, InvRegOK DEF Took, Enrolled, RequestType
<1>4. ASSUME NEW X, NEW F, Loses(reg, reg', X, F), Keeps(m), NEW a, Adds(a), AnswerTo(a, m), Delivers(m, a)
      PROVE  Correlated' /\ Enrolled' /\ Granting'
  <2>1. \A c \in DOMAIN reg'.clients : c \in DOMAIN reg.clients /\ reg'.clients[c] = reg.clients[c]
    BY <1>4 DEF Loses
  <2> QED BY <1>1, <1>2, <1>4, <2>1, HandledCorrelated, HandledEnrolled, HandledGranting
<1>5. ASSUME NEW X, NEW F, Loses(reg, reg', X, F), MayLose(m, X, F) PROVE Keeps(m)
  BY <1>2, <1>5, NotLost, LosesKeeps
<1>6. CASE on_publish
  <2>1. PICK X, F : \E a \in AnswerType :
              /\ Loses(reg, reg', X, F) /\ MayLose(m, X, F) /\ Adds(a) /\ AnswerTo(a, m)
              /\ a.status = "OK" =>
                    /\ a.id \in DOMAIN reg'.channels \ DOMAIN reg'.released
                    /\ reg'.channels[a.id].owner = m.client /\ reg'.channels[a.id].name = m.name
                    /\ \A id \in DOMAIN reg.channels : reg.channels[id].name = m.name => id \in X
    BY <1>1, <1>6, PublishEffect
  <2>2. PICK a \in AnswerType :
              /\ Loses(reg, reg', X, F) /\ MayLose(m, X, F) /\ Adds(a) /\ AnswerTo(a, m)
              /\ a.status = "OK" =>
                    /\ a.id \in DOMAIN reg'.channels \ DOMAIN reg'.released
                    /\ reg'.channels[a.id].owner = m.client /\ reg'.channels[a.id].name = m.name
                    /\ \A id \in DOMAIN reg.channels : reg.channels[id].name = m.name => id \in X
    BY <2>1
  <2>3. ASSUME a.status = "OK" PROVE Owns(m.proc, a.id, m.name)'
    BY <1>2, <1>3, <2>2, <2>3 DEF Owns
  <2>4. ASSUME a.status = "OK", Holder(m.proc), NEW id PROVE ~ Owns(m.proc, id, m.name)
    BY <2>2, <2>4, NotLost DEF Owns, Holder
  <2>5. Delivers(m, a)
    BY <1>1, <1>6, <2>3, <2>4 DEF Delivers, on_publish, Handling
  <2> QED BY <1>4, <1>5, <2>2, <2>5
<1>7. CASE on_expose
  <2>1. PICK X, F : \E a \in AnswerType :
              /\ Loses(reg, reg', X, F) /\ MayLose(m, X, F) /\ Adds(a) /\ AnswerTo(a, m)
              /\ a.status = "OK" =>
                    a.id \in DOMAIN reg'.functions /\ reg'.functions[a.id].owner = m.client
    BY <1>1, <1>7, ExposeEffect
  <2>2. PICK a \in AnswerType :
              /\ Loses(reg, reg', X, F) /\ MayLose(m, X, F) /\ Adds(a) /\ AnswerTo(a, m)
              /\ a.status = "OK" =>
                    a.id \in DOMAIN reg'.functions /\ reg'.functions[a.id].owner = m.client
    BY <2>1
  <2>3. ASSUME a.status = "OK" PROVE OwnsFunction(m.proc, a.id)'
    BY <1>2, <1>3, <2>2, <2>3 DEF OwnsFunction
  <2>4. Delivers(m, a)
    BY <1>1, <1>7, <2>3 DEF Delivers, on_expose, Handling
  <2> QED BY <1>4, <1>5, <2>2, <2>4
<1>8. CASE on_list \/ on_subscribe \/ on_lookup
  <2>1. Loses(reg, reg', {}, {}) /\ MayLose(m, {}, {})
    BY <1>1, <1>8, AskEffect DEF MayLose
  <2>2. PICK a : Adds(a) /\ AnswerTo(a, m)
    BY <1>1, <1>8, AskEffect
  <2>3. m.kind \notin {"PublishChannel", "ExposeFunction"}
    BY <1>1, <1>8 DEF on_list, on_subscribe, on_lookup, Handling
  <2>4. Delivers(m, a)
    BY <2>3 DEF Delivers
  <2> QED BY <1>4, <1>5, <2>1, <2>2, <2>4
<1>9. CASE on_unregister
  <2> DEFINE a == Refusal(m, "ERR_INTERNAL")
  <2>1. m.kind = "Unregister" /\ UNCHANGED replies /\ reg' = ReleaseClient(reg, m.client)
    BY <1>1, <1>9 DEF on_unregister, Handling
  <2>2. Adds(a) /\ AnswerTo(a, m) /\ Delivers(m, a)
    BY <2>1, NoReplyAdds DEF AnswerTo, Delivers, Refusal, Answer
  <2>3. Loses(reg, reg', ChannelsOf(reg, m.client), FunctionsOf(reg, m.client))
    BY <1>3, <2>1, ReleaseLoses
  <2>4. ASSUME NEW p \in alive, conn[p] = "up" PROVE client_id[p] # m.client
    <3>1. conn[m.proc] = "left" /\ client_id[p] # 0 /\ p \in Procs
      BY <1>3, <2>1, <2>4 DEF Enrolled, BrokerInv, TypeOK
    <3>2. client_id[p] \in IdsOf(p) /\ client_id[m.proc] \in IdsOf(m.proc)
      BY DEF IdsOf
    <3> QED BY <1>3, <2>4, <3>1, <3>2 DEF Enrolled
  <2>5. Keeps(m)
    <3>1. \A p \in alive : conn[p] = "up" =>
              /\ \A id, n : Owns(p, id, n) => id \notin ChannelsOf(reg, m.client)
              /\ \A id : OwnsFunction(p, id) => id \notin FunctionsOf(reg, m.client)
      BY <2>4 DEF Owns, OwnsFunction, ChannelsOf, FunctionsOf
    <3> QED BY <1>2, <2>3, <3>1, LosesKeeps
  <2> QED BY <1>4, <2>2, <2>3, <2>5
<1>10. CASE on_unpublish
  <2> DEFINE a == Refusal(m, "ERR_INTERNAL")
  <2>1. m.kind = "Unpublish" /\ UNCHANGED replies
    BY <1>1, <1>10 DEF on_unpublish, Handling
  <2>2. Adds(a) /\ AnswerTo(a, m) /\ Delivers(m, a)
    BY <2>1, NoReplyAdds DEF AnswerTo, Delivers, Refusal, Answer
  <2>3. CASE reg' = reg
    <3>1. Loses(reg, reg', {}, {}) /\ MayLose(m, {}, {})
      BY <1>3, <2>3, AllocLoses DEF MayLose
    <3> QED BY <1>4, <1>5, <2>2, <3>1
  <2>4. CASE /\ MayRelease(reg, m.name, m.client)
             /\ \/ reg' = drop_channels(reg, {reg.chan_by_name[m.name]})
                \/ reg' = defer_release(reg, reg.chan_by_name[m.name])
    <3>1. PICK id : id = reg.chan_by_name[m.name]
      OBVIOUS
    <3>2. id \in DOMAIN reg.channels /\ reg.channels[id].owner = m.client /\ reg.channels[id].name = m.name
      BY <1>3, <2>4, <3>1 DEF MayRelease, RegOK, Consistent, Indexed
    <3>3. Loses(reg, reg', {id}, {})
      <4>1. Loses(reg, drop_channels(reg, {id}), {id}, {})
        BY <1>3, DropLoses
      <4>2. Loses(reg, defer_release(reg, id), {id}, {})
        BY <1>3, MarkLoses DEF defer_release
      <4> QED BY <2>4, <3>1, <4>1, <4>2
    <3>4. ASSUME NEW p \in alive, conn[p] = "up", NEW n, Owns(p, id, n)
          PROVE  m \in Going(p) /\ n = m.name
      <4>1. client_id[p] \in IdsOf(p) /\ client_id[m.proc] \in IdsOf(m.proc)
        BY DEF IdsOf
      <4>2. client_id[p] # 0 /\ p \in Procs /\ client_id[p] = client_id[m.proc]
        BY <1>3, <3>2, <3>4 DEF Enrolled, BrokerInv, TypeOK, Owns
      <4>3. p = m.proc
        BY <1>3, <4>1, <4>2 DEF Enrolled
      <4> QED BY <1>3, <2>1, <3>2, <3>4, <4>3 DEF Owns, Going
    <3>5. Keeps(m)
      <4>1. \A p \in alive : conn[p] = "up" =>
              /\ \A x, n : Owns(p, x, n) /\ ~ (m \in Going(p) /\ n = m.name) => x \notin {id}
              /\ \A x : OwnsFunction(p, x) => x \notin {}
        BY <3>4
      <4> QED BY <1>2, <3>3, <4>1, LosesKeeps
    <3> QED BY <1>4, <2>2, <3>3, <3>5
  <2> QED BY <1>1, <1>10, <2>3, <2>4 DEF on_unpublish
<1> QED BY <1>6, <1>7, <1>8, <1>9, <1>10 DEF Handle

(* on_register: the newcomer gets an id nobody has or waits for. *)
LEMMA RegisterGrants ==
    ASSUME BrokerInv, Correlated, Enrolled, Granting, on_register
    PROVE  Correlated' /\ Enrolled' /\ Granting'
<1>1. PICK m : m = Head(submission)
  OBVIOUS
<1>2. submission # << >> /\ Took /\ m.kind = "Register"
  BY <1>1 DEF on_register, Handling
<1>3. /\ submission' = Tail(submission)
      /\ UNCHANGED <<alive, calls, conn, client_id, published, exposed>>
  BY <1>2 DEF Took, proc, handles
<1>4. m \in RequestType /\ m.proc \in Procs /\ RegOK(reg) /\ Items(submission') \subseteq Items(submission)
  BY <1>1, <1>2, <1>3, Taken, InvRegOK DEF RequestType
<1>5. CASE conn[m.proc] = "left"
  <2> DEFINE a == Refusal(m, "ERR_INTERNAL")
  <2>1. UNCHANGED <<reg, replies>>
    BY <1>1, <1>5 DEF on_register, broker
  <2>2. Adds(a) /\ AnswerTo(a, m) /\ Delivers(m, a)
    BY <1>2, <2>1, NoReplyAdds DEF AnswerTo, Delivers, Refusal, Answer
  <2>3. Keeps(m)
    BY <1>3, <2>1 DEF Keeps, Owns, OwnsFunction
  <2>4. Enrolled'
    BY <1>3, <1>4, <2>1 DEF Enrolled, IdsOf
  <2> QED BY <1>1, <1>2, <2>2, <2>3, <2>4, HandledCorrelated, HandledGranting
<1>6. CASE conn[m.proc] # "left"
  <2>1. PICK c : c = reg.next_client
    OBVIOUS
  <2>2. PICK pid : pid = IF m.proc \in Legacy THEN None ELSE m.proc
    OBVIOUS
  <2> DEFINE a == Answer(m, "OK", c, None, {})
  <2>3. /\ reg' = add_client(reg, pid) /\ reply_rings' = Put(reply_rings, c, m.proc)
        /\ Reply(reply_rings', c, a)
    BY <1>1, <1>6, <2>1, <2>2 DEF on_register, NextClientId
  <2>4. /\ reg'.clients = Put(reg.clients, c, pid)
        /\ reg'.channels = reg.channels /\ reg'.functions = reg.functions /\ reg'.released = reg.released
    BY <1>4, <2>1, <2>3 DEF add_client, NextClientId, RegOK, RegistryType
  <2>5. AnswerTo(a, m) /\ a.kind = "Register" /\ a.id = c /\ a.proc = m.proc /\ Delivers(m, a)
    BY <1>2 DEF AnswerTo, Answer, Delivers
  <2>6. Adds(a)
    <3>1. CASE replies' = replies
      BY <3>1, NoReplyAdds
    <3>2. CASE replies' = [replies EXCEPT ![m.proc] = Append(@, a)]
      BY <1>4, <2>5, <3>2, AppendAdds
    <3>3. c \in DOMAIN reply_rings' /\ reply_rings'[c] = m.proc
      BY <2>3 DEF Put
    <3> QED BY <2>3, <3>1, <3>2, <3>3 DEF Reply
  <2>7. Keeps(m)
    BY <1>3, <2>4 DEF Keeps, Owns, OwnsFunction
  <2>8. \A p \in Procs : \A x \in IdsOf(p) : x \in Nat /\ x < c
    <3>1. ASSUME NEW p \in Procs, NEW x \in Items(replies[p]), x.kind = "Register"
          PROVE  x.id \in Nat /\ x.id < c
      <4>1. PICK i \in 1..Len(replies[p]) : x = replies[p][i]
        BY DEF Items
      <4>2. Routed(x.id, p)
        BY <3>1, <4>1 DEF BrokerInv, Routing
      <4>3. replies[p] \in Seq(AnswerType)
        BY DEF BrokerInv, TypeOK
      <4>4. x \in AnswerType
        BY <4>1, <4>3
      <4> QED BY <2>1, <4>2, <4>4 DEF Routed, AnswerType
    <3>2. \A p \in Procs : client_id[p] \in Nat /\ client_id[p] < c
      BY <2>1 DEF BrokerInv, TypeOK, Routing, Routed
    <3> QED BY <3>1, <3>2 DEF IdsOf
  <2>9. \A p \in Procs : \A x \in IdsOf(p)' : x \in IdsOf(p) \/ (p = m.proc /\ x = c)
    BY <1>3, <2>5, <2>6 DEF IdsOf, Adds
  <2>10. c \in Nat \ {0} /\ pid \in {m.proc, None}
    BY <1>4, <2>1, <2>2 DEF RegOK, RegistryType
  <2>11. \A p, q \in Procs : \A x \in IdsOf(p)' \cap IdsOf(q)' : x # 0 => p = q
    BY <2>8, <2>9, <2>10 DEF Enrolled
  <2>12. ASSUME NEW p \in Procs, NEW x \in IdsOf(p)' \cap DOMAIN reg'.clients
         PROVE  reg'.clients[x] \in {p, None}
    <3>1. CASE x = c
      <4>1. p = m.proc
        BY <2>8, <2>9, <2>10, <3>1
      <4> QED BY <2>4, <2>10, <3>1, <4>1 DEF Put
    <3>2. CASE x # c
      <4>1. x \in IdsOf(p) /\ x \in DOMAIN reg.clients /\ reg'.clients[x] = reg.clients[x]
        BY <2>4, <2>9, <3>2 DEF Put
      <4> QED BY <4>1 DEF Enrolled
    <3> QED BY <3>1, <3>2
  <2>13. \A p \in Procs : \A r \in Items(replies'[p]) : r.kind = "Register" => r.id # 0
    BY <2>5, <2>6, <2>10 DEF Enrolled, Adds
  <2>14. Enrolled'
    BY <1>3, <1>4, <2>11, <2>12, <2>13 DEF Enrolled
  <2> QED BY <1>1, <1>2, <2>5, <2>6, <2>7, <2>14, HandledCorrelated, HandledGranting
<1> QED BY <1>5, <1>6

(* The sweep and the clock touch released channels only. *)
LEMMA SweptGrants ==
    ASSUME BrokerInv, Correlated, Enrolled, Granting,
           UNCHANGED <<submission, replies, proc, sent>>,
           NEW X, Loses(reg, reg', X, {}), X \subseteq DOMAIN reg.released
    PROVE  Correlated' /\ Enrolled' /\ Granting'
<1>1. UNCHANGED <<submission, replies, alive, calls, conn, client_id, published, exposed, sent>>
  BY DEF proc, handles
<1>2. Correlated'
  BY <1>1 DEF Correlated
<1>3. Enrolled'
  BY <1>1 DEF Enrolled, IdsOf, Loses
<1>4. \A p, id, n : Owns(p, id, n) => Owns(p, id, n)'
  BY <1>1 DEF Owns, Loses
<1>5. \A p, id : OwnsFunction(p, id) => OwnsFunction(p, id)'
  BY <1>1 DEF OwnsFunction, Loses
<1>6. ASSUME NEW p \in alive, conn[p] = "up" PROVE Owned(p)' /\ ClaimedOnce(p)'
  <2>1. Owned(p) /\ ClaimedOnce(p)
    BY <1>6 DEF Granting
  <2>2. Coming(p)' = Coming(p) /\ Going(p)' = Going(p)
    BY <1>1 DEF Coming, Going, Grants
  <2>3. ClaimedOnce(p)'
    BY <1>1, <2>1, <2>2 DEF ClaimedOnce
  <2>4. \A m \in Going(p) : \E id \in DOMAIN reg'.channels : Owns(p, id, m.name)'
    <3> SUFFICES ASSUME NEW m \in Going(p) PROVE \E id \in DOMAIN reg'.channels : Owns(p, id, m.name)'
      OBVIOUS
    <3>1. PICK id : Owns(p, id, m.name)
      BY <2>1 DEF Owned
    <3>2. Owns(p, id, m.name)'
      BY <1>4, <3>1
    <3> QED BY <3>2 DEF Owns
  <2>5. Owned(p)'
    BY <1>1, <1>4, <1>5, <2>1, <2>2, <2>4 DEF Owned, Grants
  <2> QED BY <2>3, <2>5
<1> QED BY <1>1, <1>2, <1>3, <1>6 DEF Granting

(***************************************************************************)
(* The parts of the invariant, step of a process by step.                  *)
(***************************************************************************)
(* A message with a new correlation id, and a slot for it or none. *)
LEMMA SubmitCorrelated ==
    ASSUME BrokerInv, Correlated, NEW m \in RequestType, m.corr = sent, Submit(m), UNCHANGED replies,
           \A q \in Procs : calls'[q] \subseteq calls[q] \cup {m}
    PROVE  Correlated'
<1>1. /\ Items(submission') = Items(submission) \cup {m}
      /\ \A i, j \in 1..Len(submission') : submission'[i].corr = submission'[j].corr => i = j
      /\ \A n \in Items(submission') : n.corr < sent'
      /\ sent \in Nat /\ sent' = sent + 1
  BY Submitted
<1>2. \A n \in Items(submission) : n.corr < sent
  BY DEF Correlated
<1>3. ASSUME NEW q \in Procs
      PROVE  /\ \A n \in calls[q] : n.corr < sent /\ n.corr \in Nat
             /\ \A r \in Items(replies[q]) : r.corr < sent /\ r.corr \in Nat
  <2>1. calls[q] \subseteq RequestType /\ replies[q] \in Seq(AnswerType)
    BY DEF BrokerInv, TypeOK
  <2>2. \A r \in Items(replies[q]) : r \in AnswerType
    BY <2>1 DEF Items
  <2> QED BY <2>1, <2>2 DEF Correlated, RequestType, AnswerType
<1>4. ASSUME NEW q \in Procs
      PROVE  /\ \A n \in calls'[q] : n.corr < sent'
             /\ \A n, o \in calls'[q] : n.corr = o.corr => n = o
             /\ \A n \in calls'[q], o \in Items(submission') : n.corr = o.corr => n = o
  <2>1. \A n \in calls'[q] : n \in calls[q] \/ n = m
    OBVIOUS
  <2>2. \A n \in calls'[q] : n.corr < sent'
    BY <1>1, <1>3, <2>1
  <2>3. \A n, o \in calls'[q] : n.corr = o.corr => n = o
    BY <1>1, <1>3, <2>1 DEF Correlated
  <2>4. \A n \in calls'[q], o \in Items(submission') : n.corr = o.corr => n = o
    BY <1>1, <1>2, <1>3, <2>1 DEF Correlated
  <2> QED BY <2>2, <2>3, <2>4
<1>5. ASSUME NEW q \in Procs, NEW r \in Items(replies[q])
      PROVE  /\ r.corr < sent'
             /\ \A n \in Items(submission') : n.corr # r.corr
             /\ \A n \in calls'[q] : n.corr = r.corr => n.kind = r.kind
  <2>1. r.corr < sent /\ r.corr \in Nat
    BY <1>3
  <2>2. \A n \in calls'[q] : n \in calls[q] \/ n = m
    OBVIOUS
  <2> QED BY <1>1, <2>1, <2>2 DEF Correlated
<1> QED BY <1>1, <1>4, <1>5 DEF Correlated

(* Fewer slots and fewer answers. *)
LEMMA FewerCorrelated ==
    ASSUME Correlated, UNCHANGED <<submission, sent>>,
           \A q \in Procs : calls'[q] \subseteq calls[q] /\ Items(replies'[q]) \subseteq Items(replies[q])
    PROVE  Correlated'
  BY DEF Correlated

(* Processes that hold no more, wait for no grant more and give up no more *)
(* than before.                                                            *)
LEMMA FewerGranting ==
    ASSUME Granting, UNCHANGED reg,
           \A q \in alive' : conn'[q] = "up" =>
              /\ q \in alive /\ conn[q] = "up" /\ client_id'[q] = client_id[q]
              /\ published'[q] \subseteq published[q] /\ exposed'[q] \subseteq exposed[q]
              /\ \A n \in calls'[q], r \in Items(replies'[q]) :
                    n.corr = r.corr => n \in calls[q] /\ r \in Items(replies[q])
              /\ Going(q)' \subseteq Going(q)
    PROVE  Granting'
<1> SUFFICES ASSUME NEW q \in alive', conn'[q] = "up" PROVE Owned(q)' /\ ClaimedOnce(q)'
  BY DEF Granting
<1>1. /\ Owned(q) /\ ClaimedOnce(q) /\ client_id'[q] = client_id[q]
      /\ published'[q] \subseteq published[q] /\ exposed'[q] \subseteq exposed[q]
      /\ \A n \in calls'[q], r \in Items(replies'[q]) :
            n.corr = r.corr => n \in calls[q] /\ r \in Items(replies[q])
      /\ Going(q)' \subseteq Going(q)
  BY DEF Granting
<1>2. /\ \A id, n : Owns(q, id, n)' <=> Owns(q, id, n)
      /\ \A id : OwnsFunction(q, id)' <=> OwnsFunction(q, id)
  BY <1>1 DEF Owns, OwnsFunction
<1>3. Coming(q)' \subseteq Coming(q)
  BY <1>1 DEF Coming, Grants
<1>4. ClaimedOnce(q)'
  BY <1>1, <1>3 DEF ClaimedOnce
<1>5. Owned(q)'
  BY <1>1, <1>2 DEF Owned, Grants
<1> QED BY <1>4, <1>5

(* A message that gives up no channel. *)
LEMMA SubmitGranting ==
    ASSUME BrokerInv, Correlated, Granting, NEW m \in RequestType, m.corr = sent, Submit(m),
           m.kind # "Unpublish",
           UNCHANGED <<reg, replies, alive, client_id, published, exposed>>,
           \A q \in Procs : calls'[q] \subseteq calls[q] \cup {m},
           \A q \in Procs : conn'[q] = "up" => conn[q] = "up"
    PROVE  Granting'
<1>1. Items(submission') = Items(submission) \cup {m}
  BY Submitted
<1>2. ASSUME NEW q \in Procs PROVE \A r \in Items(replies[q]) : r.corr # m.corr
  <2>1. sent \in Nat /\ replies[q] \in Seq(AnswerType)
    BY DEF BrokerInv, TypeOK
  <2>2. \A r \in Items(replies[q]) : r \in AnswerType
    BY <2>1 DEF Items
  <2>3. \A r \in Items(replies[q]) : r.corr < sent /\ r.corr \in Nat
    BY <2>2 DEF Correlated, AnswerType
  <2> QED BY <2>1, <2>3
<1>3. \A q \in Procs : \A n \in calls'[q], r \in Items(replies'[q]) :
         n.corr = r.corr => n \in calls[q] /\ r \in Items(replies[q])
  BY <1>2
<1>4. \A q \in Procs : Going(q)' \subseteq Going(q)
  BY <1>1 DEF Going
<1>5. alive' \subseteq Procs
  BY DEF BrokerInv, TypeOK
<1> QED BY <1>3, <1>4, <1>5, FewerGranting

(* The requests of a connected process. *)
LEMMA CallGrants ==
    ASSUME BrokerInv, Correlated, Enrolled, Granting, NEW p \in Procs, NEW m \in RequestType,
           m.kind \notin {"Register", "Unregister", "Unpublish"}, m.proc = p, m.corr = sent,
           m.client = client_id[p], Call(p, m)
    PROVE  Correlated' /\ Enrolled' /\ Granting'
<1>1. /\ conn[p] = "up" /\ Submit(m) /\ calls' = [calls EXCEPT ![p] = @ \cup {m}]
      /\ UNCHANGED <<reg, replies, alive, conn, client_id, published, exposed>>
  BY DEF Call, broker, handles
<1>2. calls \in [Procs -> SUBSET RequestType]
  BY DEF BrokerInv, TypeOK
<1>3. /\ calls'[p] = calls[p] \cup {m} /\ \A q \in Procs : q # p => calls'[q] = calls[q]
      /\ \A q \in Procs : calls'[q] \subseteq calls[q] \cup {m}
  BY <1>1, <1>2
<1>4. Items(submission') = Items(submission) \cup {m}
  BY <1>1, Submitted
<1>5. Enrolled'
  <2>1. \A q \in Procs : IdsOf(q)' = IdsOf(q)
    BY <1>1 DEF IdsOf
  <2>2. \A n \in Items(submission') :
           /\ n.kind # "Register" => n.client = client_id'[n.proc]
           /\ n.kind = "Unregister" => conn'[n.proc] = "left"
    BY <1>1, <1>4 DEF Enrolled
  <2>3. ASSUME NEW q \in Procs, conn'[q] \in {"new", "registering"}
        PROVE  /\ published'[q] = {} /\ exposed'[q] = {}
               /\ \A n, o \in calls'[q] : n.kind = "Register" /\ n = o
               /\ \A n \in Items(submission') : n.proc = q => n.kind = "Register"
    <3>1. conn[q] \in {"new", "registering"} /\ q # p
      BY <1>1, <2>3
    <3> QED BY <1>1, <1>3, <1>4, <3>1 DEF Enrolled
  <2>4. \A q \in Procs : conn'[q] = "up" =>
           client_id'[q] # 0 /\ \A n \in calls'[q] : n.kind # "Register"
    BY <1>1, <1>3 DEF Enrolled
  <2> QED BY <1>1, <2>1, <2>2, <2>3, <2>4 DEF Enrolled
<1> QED BY <1>1, <1>3, <1>5, SubmitCorrelated, SubmitGranting

LEMMA RequestsGrant ==
    ASSUME BrokerInv, Correlated, Enrolled, Granting, NEW p \in Procs,
           Publish(p) \/ ListChannels(p) \/ Subscribe(p) \/ Expose(p) \/ Lookup(p)
    PROVE  Correlated' /\ Enrolled' /\ Granting'
<1>1. ASSUME NEW kind \in RequestKinds, kind \notin {"Register", "Unregister", "Unpublish"},
             NEW name \in Names \cup {None}, NEW key \in Keys \cup {None},
             NEW schema \in Schemas \cup {BadSchema, None}, NEW chan \in Nat,
             kind \in {"PublishChannel", "ExposeFunction"} =>
                name \in Names /\ schema \in Schemas \cup {BadSchema},
             Call(p, Request(kind, p, name, key, schema, chan))
      PROVE  Correlated' /\ Enrolled' /\ Granting'
  <2>1. PICK m : m = Request(kind, p, name, key, schema, chan)
    OBVIOUS
  <2>2. m \in RequestType
    BY <1>1, <2>1, RequestOK
  <2>3. m.kind = kind /\ m.proc = p /\ m.corr = sent /\ m.client = client_id[p]
    BY <2>1 DEF Request
  <2> QED BY <1>1, <2>1, <2>2, <2>3, CallGrants
<1>2. 0 \in Nat /\ listed[p] \subseteq Nat
  BY DEF BrokerInv, TypeOK
<1>3. CASE Publish(p)
  BY <1>1, <1>2, <1>3 DEF Publish, RequestKinds
<1>4. CASE ListChannels(p)
  BY <1>1, <1>2, <1>4 DEF ListChannels, RequestKinds
<1>5. CASE Subscribe(p)
  BY <1>1, <1>2, <1>5 DEF Subscribe, RequestKinds
<1>6. CASE Expose(p)
  BY <1>1, <1>2, <1>6 DEF Expose, RequestKinds
<1>7. CASE Lookup(p)
  BY <1>1, <1>2, <1>7 DEF Lookup, RequestKinds
<1> QED BY <1>3, <1>4, <1>5, <1>6, <1>7

LEMMA ConnectGrants ==
    ASSUME BrokerInv, Correlated, Enrolled, Granting, NEW p \in Procs, Connect(p)
    PROVE  Correlated' /\ Enrolled' /\ Granting'
<1>1. PICK m : m = Request("Register", p, None, None, None, 0)
  OBVIOUS
<1>2. m \in RequestType /\ m.kind = "Register" /\ m.proc = p /\ m.corr = sent
  BY <1>1, RequestOK DEF Request, RequestKinds
<1>3. /\ conn[p] = "new" /\ Submit(m) /\ calls' = [calls EXCEPT ![p] = {m}]
      /\ conn' = [conn EXCEPT ![p] = "registering"]
      /\ UNCHANGED <<reg, replies, alive, client_id, published, exposed>>
  BY <1>1 DEF Connect, broker, handles
<1>4. /\ calls \in [Procs -> SUBSET RequestType]
      /\ conn \in [Procs -> {"new", "registering", "up", "left"}]
  BY DEF BrokerInv, TypeOK
<1>5. /\ calls'[p] = {m} /\ conn'[p] = "registering"
      /\ \A q \in Procs : q # p => calls'[q] = calls[q] /\ conn'[q] = conn[q]
      /\ \A q \in Procs : calls'[q] \subseteq calls[q] \cup {m}
      /\ \A q \in Procs : conn'[q] = "up" => conn[q] = "up"
  BY <1>3, <1>4
<1>6. Items(submission') = Items(submission) \cup {m}
  BY <1>2, <1>3, Submitted
<1>7. Enrolled'
  <2>1. \A q \in Procs : IdsOf(q)' = IdsOf(q)
    BY <1>3 DEF IdsOf
  <2>2. \A n \in Items(submission') :
           /\ n.kind # "Register" => n.client = client_id'[n.proc]
           /\ n.kind = "Unregister" => conn'[n.proc] = "left"
    <3> SUFFICES ASSUME NEW n \in Items(submission), n.kind # "Register"
                 PROVE  n.client = client_id'[n.proc] /\ (n.kind = "Unregister" => conn'[n.proc] = "left")
      BY <1>2, <1>6
    <3>1. n.proc \in Procs
      BY DEF BrokerInv, TypeOK, Items, RequestType
    <3>2. n.proc # p
      BY <1>3 DEF Enrolled
    <3> QED BY <1>3, <1>5, <3>1, <3>2 DEF Enrolled
  <2>3. ASSUME NEW q \in Procs, conn'[q] \in {"new", "registering"}
        PROVE  /\ published'[q] = {} /\ exposed'[q] = {}
               /\ \A n, o \in calls'[q] : n.kind = "Register" /\ n = o
               /\ \A n \in Items(submission') : n.proc = q => n.kind = "Register"
    <3>1. conn[q] \in {"new", "registering"}
      BY <1>3, <1>5, <2>3
    <3> QED BY <1>2, <1>3, <1>5, <1>6, <3>1 DEF Enrolled
  <2> QED BY <1>3, <1>5, <2>1, <2>2, <2>3 DEF Enrolled
<1> QED BY <1>2, <1>3, <1>5, <1>7, SubmitCorrelated, SubmitGranting

(* What a process holds under one name it holds once. *)
LEMMA OneHandle ==
    ASSUME BrokerInv, NEW p \in Procs, Owned(p), NEW h \in published[p], NEW k \in published[p],
           h.name = k.name
    PROVE  h = k
<1>1. Owns(p, h.id, h.name) /\ Owns(p, k.id, k.name)
  BY DEF Owned
<1>2. h.id = k.id
  BY <1>1 DEF Owns, BrokerInv, IndexesAgree, Consistent, Indexed
<1>3. h \in HandleType /\ k \in HandleType
  BY DEF BrokerInv, TypeOK
<1> QED BY <1>2, <1>3 DEF HandleType

LEMMA DropPublisherGrants ==
    ASSUME BrokerInv, Correlated, Enrolled, Granting, NEW p \in Procs, DropPublisher(p)
    PROVE  Correlated' /\ Enrolled' /\ Granting'
<1>1. PICK h \in published[p] :
         /\ published' = [published EXCEPT ![p] = @ \ {h}]
         /\ FireAndForget(Request("Unpublish", p, h.name, None, None, 0))
  BY DEF DropPublisher
<1>2. PICK m : m = Request("Unpublish", p, h.name, None, None, 0)
  OBVIOUS
<1>3. h \in HandleType /\ published \in [Procs -> SUBSET HandleType]
  BY DEF BrokerInv, TypeOK
<1>4. /\ m \in RequestType /\ m.kind = "Unpublish" /\ m.proc = p /\ m.corr = sent
      /\ m.client = client_id[p] /\ m.name = h.name
  BY <1>2, <1>3, RequestOK DEF Request, RequestKinds, HandleType
<1>5. UNCHANGED <<reg, replies, alive, conn, client_id, calls, exposed>>
  BY DEF DropPublisher, broker
<1>6. /\ published'[p] = published[p] \ {h}
      /\ \A q \in Procs : q # p => published'[q] = published[q]
      /\ \A q \in Procs : published'[q] \subseteq published[q]
  BY <1>1, <1>3
<1>7. conn[p] \notin {"new", "registering"}
  BY DEF Enrolled
<1>8. \A q \in Procs : IdsOf(q)' = IdsOf(q)
  BY <1>5 DEF IdsOf
<1>9. alive \subseteq Procs
  BY DEF BrokerInv, TypeOK
<1>10. CASE UNCHANGED <<submission, sent>>
  <2>1. Correlated'
    BY <1>5, <1>10, FewerCorrelated
  <2>2. Enrolled'
    BY <1>5, <1>6, <1>8, <1>10 DEF Enrolled
  <2>3. \A q \in Procs : Going(q)' = Going(q)
    BY <1>10 DEF Going
  <2>4. Granting'
    BY <1>5, <1>6, <1>9, <2>3, FewerGranting
  <2> QED BY <2>1, <2>2, <2>4
<1>11. CASE Submit(m)
  <2>1. Items(submission') = Items(submission) \cup {m}
    BY <1>4, <1>11, Submitted
  <2>2. Correlated'
    BY <1>4, <1>5, <1>11, SubmitCorrelated
  <2>3. Enrolled'
    <3>1. \A n \in Items(submission') :
             /\ n.kind # "Register" => n.client = client_id'[n.proc]
             /\ n.kind = "Unregister" => conn'[n.proc] = "left"
      BY <1>4, <1>5, <2>1 DEF Enrolled
    <3>2. ASSUME NEW q \in Procs, conn'[q] \in {"new", "registering"}
          PROVE  /\ published'[q] = {} /\ exposed'[q] = {}
                 /\ \A n, o \in calls'[q] : n.kind = "Register" /\ n = o
                 /\ \A n \in Items(submission') : n.proc = q => n.kind = "Register"
      <4>1. conn[q] \in {"new", "registering"} /\ q # p
        BY <1>5, <1>7, <3>2
      <4> QED BY <1>4, <1>5, <1>6, <2>1, <4>1 DEF Enrolled
    <3> QED BY <1>5, <1>8, <3>1, <3>2 DEF Enrolled
  <2>4. ASSUME NEW q \in alive, conn[q] = "up" PROVE Owned(q)' /\ ClaimedOnce(q)'
    <3>1. q \in Procs /\ Owned(q) /\ ClaimedOnce(q)
      BY <1>9, <2>4 DEF Granting
    <3>2. Going(q)' = IF q = p THEN Going(q) \cup {m} ELSE Going(q)
      BY <1>4, <2>1 DEF Going
    <3>3. Coming(q)' = Coming(q)
      BY <1>5 DEF Coming, Grants
    <3>4. /\ \A id, n : Owns(q, id, n)' <=> Owns(q, id, n)
          /\ \A id : OwnsFunction(q, id)' <=> OwnsFunction(q, id)
      BY <1>5 DEF Owns, OwnsFunction
    <3>5. q = p => \E id \in DOMAIN reg.channels : Owns(q, id, m.name)
      BY <1>4, <3>1 DEF Owned, Owns
    <3>6. Owned(q)'
      BY <1>5, <1>6, <3>1, <3>2, <3>4, <3>5 DEF Owned, Grants
    <3>7. q = p => \A k \in published'[q] : k.name # m.name
      BY <1>4, <1>6, <3>1, OneHandle
    <3>8. ClaimedOnce(q)'
      BY <1>4, <1>6, <3>1, <3>2, <3>3, <3>7 DEF ClaimedOnce
    <3> QED BY <3>6, <3>8
  <2>5. Granting'
    BY <1>5, <2>4 DEF Granting
  <2> QED BY <2>2, <2>3, <2>5
<1> QED BY <1>1, <1>2, <1>10, <1>11 DEF FireAndForget

LEMMA DisconnectGrants ==
    ASSUME BrokerInv, Correlated, Enrolled, Granting, NEW p \in Procs, Disconnect(p)
    PROVE  Correlated' /\ Enrolled' /\ Granting'
<1>1. PICK m : m = Request("Unregister", p, None, None, None, 0)
  OBVIOUS
<1>2. /\ m \in RequestType /\ m.kind = "Unregister" /\ m.proc = p /\ m.corr = sent
      /\ m.client = client_id[p]
  BY <1>1, RequestOK DEF Request, RequestKinds
<1>3. /\ conn[p] = "up" /\ FireAndForget(m) /\ conn' = [conn EXCEPT ![p] = "left"]
      /\ UNCHANGED <<reg, replies, alive, client_id, calls, published, exposed>>
  BY <1>1 DEF Disconnect, broker, handles
<1>4. conn'[p] = "left" /\ \A q \in Procs : q # p => conn'[q] = conn[q]
  BY <1>3 DEF BrokerInv, TypeOK
<1>5. \A q \in Procs : IdsOf(q)' = IdsOf(q)
  BY <1>3 DEF IdsOf
<1>6. alive \subseteq Procs /\ \A n \in Items(submission) : n.proc \in Procs
  BY DEF BrokerInv, TypeOK, Items, RequestType
<1>7. CASE UNCHANGED <<submission, sent>>
  <2>1. Correlated'
    BY <1>3, <1>7, FewerCorrelated
  <2>2. Enrolled'
    BY <1>3, <1>4, <1>5, <1>6, <1>7 DEF Enrolled
  <2>3. \A q \in Procs : Going(q)' = Going(q)
    BY <1>7 DEF Going
  <2>4. Granting'
    BY <1>3, <1>4, <1>6, <2>3, FewerGranting
  <2> QED BY <2>1, <2>2, <2>4
<1>8. CASE Submit(m)
  <2>1. Items(submission') = Items(submission) \cup {m}
    BY <1>2, <1>8, Submitted
  <2>2. Correlated' /\ Granting'
    BY <1>2, <1>3, <1>4, <1>8, SubmitCorrelated, SubmitGranting
  <2>3. \A n \in Items(submission') :
           /\ n.kind # "Register" => n.client = client_id'[n.proc]
           /\ n.kind = "Unregister" => conn'[n.proc] = "left"
    BY <1>2, <1>3, <1>4, <1>6, <2>1 DEF Enrolled
  <2>4. \A q \in Procs : conn'[q] \in {"new", "registering"} =>
           \A n \in Items(submission') : n.proc = q => n.kind = "Register"
    BY <1>2, <1>4, <2>1 DEF Enrolled
  <2>5. Enrolled'
    BY <1>3, <1>4, <1>5, <2>3, <2>4 DEF Enrolled
  <2> QED BY <2>2, <2>5
<1> QED BY <1>3, <1>7, <1>8 DEF FireAndForget

(* A slot given up, by a timeout or by a kill. *)
LEMMA CallTimeoutGrants ==
    ASSUME BrokerInv, Correlated, Enrolled, Granting, NEW p \in Procs, CallTimeout(p)
    PROVE  Correlated' /\ Enrolled' /\ Granting'
<1>1. /\ UNCHANGED <<reg, submission, replies, alive, client_id, published, exposed, sent>>
      /\ \E m \in calls[p] :
            /\ calls' = [calls EXCEPT ![p] = @ \ {m}]
            /\ conn' = [conn EXCEPT ![p] = IF m.kind = "Register" THEN "left" ELSE @]
  BY DEF CallTimeout, broker, handles
<1>2. \A q \in Procs : calls'[q] \subseteq calls[q] /\ conn'[q] \in {conn[q], "left"}
  BY <1>1 DEF BrokerInv, TypeOK
<1>3. alive \subseteq Procs /\ \A n \in Items(submission) : n.proc \in Procs
  BY DEF BrokerInv, TypeOK, Items, RequestType
<1>4. \A q \in Procs : IdsOf(q)' = IdsOf(q) /\ Going(q)' = Going(q)
  BY <1>1 DEF IdsOf, Going
<1>5. Correlated'
  BY <1>1, <1>2, FewerCorrelated
<1>6. Enrolled'
  BY <1>1, <1>2, <1>3, <1>4 DEF Enrolled
<1>7. Granting'
  BY <1>1, <1>2, <1>3, <1>4, FewerGranting
<1> QED BY <1>5, <1>6, <1>7

LEMMA KillGrants ==
    ASSUME BrokerInv, Correlated, Enrolled, Granting, NEW p \in Procs, Kill(p)
    PROVE  Correlated' /\ Enrolled' /\ Granting'
<1>1. /\ UNCHANGED <<reg, submission, replies, conn, client_id, sent>>
      /\ alive' = alive \ {p} /\ calls' = [calls EXCEPT ![p] = {}]
      /\ published' = [published EXCEPT ![p] = {}] /\ exposed' = [exposed EXCEPT ![p] = {}]
  BY DEF Kill, broker
<1>2. \A q \in Procs : /\ calls'[q] \subseteq calls[q] /\ published'[q] \subseteq published[q]
                       /\ exposed'[q] \subseteq exposed[q]
  BY <1>1 DEF BrokerInv, TypeOK
<1>3. alive \subseteq Procs
  BY DEF BrokerInv, TypeOK
<1>4. \A q \in Procs : IdsOf(q)' = IdsOf(q) /\ Going(q)' = Going(q)
  BY <1>1 DEF IdsOf, Going
<1>5. Correlated'
  BY <1>1, <1>2, FewerCorrelated
<1>6. Enrolled'
  BY <1>1, <1>2, <1>4 DEF Enrolled
<1>7. Granting'
  BY <1>1, <1>2, <1>3, <1>4, FewerGranting
<1> QED BY <1>5, <1>6, <1>7

(* The dispatcher: an answer of the reply ring, with its slot or without. *)
LEMMA DispatchGrants ==
    ASSUME BrokerInv, Correlated, Enrolled, Granting, NEW p \in Procs, Dispatch(p)
    PROVE  Correlated' /\ Enrolled' /\ Granting'
<1>1. PICK r : r = Head(replies[p])
  OBVIOUS
<1>2. /\ UNCHANGED <<reg, submission, alive, sent>> /\ conn[p] \in {"registering", "up"}
      /\ replies[p] # << >> /\ replies' = [replies EXCEPT ![p] = Tail(@)]
  BY DEF Dispatch, broker
<1>3. /\ r \in Items(replies[p]) /\ Items(replies'[p]) \subseteq Items(replies[p])
      /\ \A q \in Procs : Items(replies'[q]) \subseteq Items(replies[q])
  <2>1. replies \in [Procs -> Seq(AnswerType)]
    BY DEF BrokerInv, TypeOK
  <2>2. PICK s \in Seq(AnswerType) : s = replies[p]
    BY <2>1
  <2>3. r = s[1] /\ 1 \in 1..Len(s)
    BY <1>1, <1>2, <2>2
  <2>4. \A i \in 1..Len(Tail(s)) : i + 1 \in 1..Len(s) /\ Tail(s)[i] = s[i + 1]
    BY <1>2, <2>2
  <2>5. replies'[p] = Tail(s) /\ \A q \in Procs : q # p => replies'[q] = replies[q]
    BY <1>2, <2>1, <2>2
  <2>6. Items(Tail(s)) \subseteq Items(s)
    BY <2>4 DEF Items
  <2>7. r \in Items(s)
    BY <2>3 DEF Items
  <2> QED BY <2>2, <2>5, <2>6, <2>7
<1>4. alive \subseteq Procs /\ \A n \in Items(submission) : n.proc \in Procs
  BY DEF BrokerInv, TypeOK, Items, RequestType
<1>5. \A q \in Procs : Going(q)' = Going(q)
  BY <1>2 DEF Going
<1>6. CASE UNCHANGED <<conn, client_id, calls, handles>>
  <2>1. UNCHANGED <<conn, client_id, calls, published, exposed>>
    BY <1>6 DEF handles
  <2>2. Correlated'
    BY <1>2, <1>3, <2>1, FewerCorrelated
  <2>3. \A q \in Procs : IdsOf(q)' \subseteq IdsOf(q)
    BY <1>3, <2>1 DEF IdsOf
  <2>4. Enrolled'
    BY <1>2, <1>3, <2>1, <2>3 DEF Enrolled
  <2>5. Granting'
    BY <1>2, <1>3, <1>4, <1>5, <2>1, FewerGranting
  <2> QED BY <2>2, <2>4, <2>5
<1>7. ASSUME NEW m \in calls[p], m.corr = r.corr, calls' = [calls EXCEPT ![p] = @ \ {m}],
             AdoptId(p, m, r), AdoptHandles(p, m, r)
      PROVE  Correlated' /\ Enrolled' /\ Granting'
  <2>1. /\ calls'[p] = calls[p] \ {m} /\ \A q \in Procs : q # p => calls'[q] = calls[q]
        /\ \A q \in Procs : calls'[q] \subseteq calls[q]
    BY <1>7 DEF BrokerInv, TypeOK
  <2>2. m.kind = r.kind
    BY <1>3, <1>7 DEF Correlated
  <2>3. Correlated'
    BY <1>2, <1>3, <2>1, FewerCorrelated
  <2>4. CASE m.kind = "Register" /\ r.status = "OK"
    <3>1. /\ conn' = [conn EXCEPT ![p] = "up"] /\ client_id' = [client_id EXCEPT ![p] = r.id]
      BY <1>7, <2>2, <2>4 DEF AdoptId, Granted
    <3>2. UNCHANGED <<published, exposed>>
      BY <1>7, <2>4 DEF AdoptHandles, BrokerInv, TypeOK
    <3>3. /\ conn'[p] = "up" /\ client_id'[p] = r.id
          /\ \A q \in Procs : q # p => conn'[q] = conn[q] /\ client_id'[q] = client_id[q]
      BY <3>1 DEF BrokerInv, TypeOK
    <3>4. conn[p] = "registering"
      BY <1>2, <2>4 DEF Enrolled
    <3>5. /\ published[p] = {} /\ exposed[p] = {} /\ calls'[p] = {}
          /\ \A n \in Items(submission) : n.proc = p => n.kind = "Register"
      BY <2>1, <3>4 DEF Enrolled
    <3>6. r.id # 0 /\ r.id \in IdsOf(p)
      <4>1. r \in Items(replies[p]) /\ r.kind = "Register"
        BY <1>3, <2>2, <2>4
      <4>2. r.id # 0
        BY <4>1 DEF Enrolled
      <4>3. QED
        BY <4>1, <4>2 DEF IdsOf
    <3>7. \A q \in Procs : IdsOf(q)' \subseteq IdsOf(q)
      BY <1>3, <3>3, <3>6 DEF IdsOf
    <3>8. Enrolled'
      <4>1. \A n \in Items(submission) :
               /\ n.kind # "Register" => n.client = client_id'[n.proc]
               /\ n.kind = "Unregister" => conn'[n.proc] = "left"
        BY <1>4, <3>3, <3>5 DEF Enrolled
      <4>2. /\ \A q, o \in Procs : \A c \in IdsOf(q)' \cap IdsOf(o)' : c # 0 => q = o
            /\ \A q \in Procs : \A c \in IdsOf(q)' \cap DOMAIN reg.clients : reg.clients[c] \in {q, None}
        BY <3>7 DEF Enrolled
      <4>3. \A q \in Procs : conn'[q] = "up" =>
               client_id'[q] # 0 /\ \A n \in calls'[q] : n.kind # "Register"
        BY <2>1, <3>3, <3>5, <3>6 DEF Enrolled
      <4>4. \A q \in Procs : conn'[q] \in {"new", "registering"} =>
               /\ published'[q] = {} /\ exposed'[q] = {}
               /\ \A n, o \in calls'[q] : n.kind = "Register" /\ n = o
               /\ \A n \in Items(submission) : n.proc = q => n.kind = "Register"
        BY <2>1, <3>2, <3>3 DEF Enrolled
      <4>5. \A q \in Procs : \A x \in Items(replies'[q]) : x.kind = "Register" => x.id # 0
        BY <1>3 DEF Enrolled
      <4> QED BY <1>2, <4>1, <4>2, <4>3, <4>4, <4>5 DEF Enrolled
    <3>9. Going(p)' = {} /\ Coming(p)' = {}
      BY <1>2, <3>5 DEF Going, Coming
    <3>10. Owned(p)' /\ ClaimedOnce(p)'
      BY <3>2, <3>5, <3>9 DEF Owned, ClaimedOnce
    <3>11. ASSUME NEW q \in alive, q # p, conn[q] = "up" PROVE Owned(q)' /\ ClaimedOnce(q)'
      <4>1. q \in Procs /\ Owned(q) /\ ClaimedOnce(q) /\ client_id'[q] = client_id[q]
        BY <1>4, <3>3, <3>11 DEF Granting
      <4>2. /\ \A id, n : Owns(q, id, n)' <=> Owns(q, id, n)
            /\ \A id : OwnsFunction(q, id)' <=> OwnsFunction(q, id)
        BY <1>2, <4>1 DEF Owns, OwnsFunction
      <4>3. Coming(q)' \subseteq Coming(q)
        BY <1>3, <2>1, <4>1 DEF Coming, Grants
      <4>4. ClaimedOnce(q)'
        BY <1>5, <3>2, <4>1, <4>3 DEF ClaimedOnce
      <4>5. Owned(q)'
        BY <1>2, <1>3, <1>5, <2>1, <3>2, <4>1, <4>2 DEF Owned, Grants
      <4> QED BY <4>4, <4>5
    <3>12. Granting'
      BY <1>2, <1>4, <3>3, <3>10, <3>11 DEF Granting
    <3> QED BY <2>3, <3>8, <3>12
  <2>5. CASE ~ (m.kind = "Register" /\ r.status = "OK")
    <3>1. UNCHANGED <<conn, client_id>>
      BY <1>7, <2>2, <2>5 DEF AdoptId, Granted
    <3>2. \A q \in Procs : IdsOf(q)' \subseteq IdsOf(q)
      BY <1>3, <3>1 DEF IdsOf
    <3> DEFINE h == [id |-> r.id, name |-> m.name]
    <3>3. /\ published'[p] \in {published[p], published[p] \cup {h}}
          /\ h \in published'[p] \ published[p] => Grants(r, m, "PublishChannel")
          /\ exposed'[p] \in {exposed[p], exposed[p] \cup {h}}
          /\ h \in exposed'[p] \ exposed[p] => Grants(r, m, "ExposeFunction")
          /\ \A q \in Procs : q # p => published'[q] = published[q] /\ exposed'[q] = exposed[q]
      BY <1>7 DEF AdoptHandles, Granted, Grants, BrokerInv, TypeOK
    <3>4. conn[p] = "registering" => m.kind = "Register"
      BY DEF Enrolled
    <3>5. \A q \in Procs : conn[q] \in {"new", "registering"} =>
             published'[q] = published[q] /\ exposed'[q] = exposed[q]
      BY <1>2, <3>3, <3>4 DEF Grants
    <3>6. Enrolled'
      BY <1>2, <1>3, <2>1, <3>1, <3>2, <3>5 DEF Enrolled
    <3>7. ASSUME NEW q \in alive, conn[q] = "up" PROVE Owned(q)' /\ ClaimedOnce(q)'
      <4>1. q \in Procs /\ Owned(q) /\ ClaimedOnce(q)
        BY <1>4, <3>7 DEF Granting
      <4>2. /\ \A id, n : Owns(q, id, n)' <=> Owns(q, id, n)
            /\ \A id : OwnsFunction(q, id)' <=> OwnsFunction(q, id)
        BY <1>2, <3>1 DEF Owns, OwnsFunction
      <4>3. Coming(q)' \subseteq Coming(q) /\ (q = p => m \notin Coming(q)')
        BY <1>3, <2>1, <4>1 DEF Coming, Grants
      <4>4. \A k \in published'[q] : k \in published[q] \/ (q = p /\ k = h /\ Grants(r, m, "PublishChannel"))
        BY <3>3, <4>1
      <4>5. \A k \in exposed'[q] : k \in exposed[q] \/ (q = p /\ k = h /\ Grants(r, m, "ExposeFunction"))
        BY <3>3, <4>1
      <4>6. q = p /\ Grants(r, m, "PublishChannel") => m \in Coming(q) /\ Owns(q, r.id, m.name)
        BY <1>3, <4>1 DEF Coming, Owned
      <4>7. q = p /\ Grants(r, m, "ExposeFunction") => OwnsFunction(q, r.id)
        BY <1>3, <4>1 DEF Owned
      <4>8. ClaimedOnce(q)'
        BY <1>5, <4>1, <4>3, <4>4, <4>6 DEF ClaimedOnce
      <4>9. Owned(q)'
        <5>1. \A k \in published'[q] : Owns(q, k.id, k.name)'
          BY <4>1, <4>2, <4>4, <4>6 DEF Owned
        <5>2. \A k \in exposed'[q] : OwnsFunction(q, k.id)'
          BY <4>1, <4>2, <4>5, <4>7 DEF Owned
        <5>3. \A n \in calls'[q], x \in Items(replies'[q]) :
                 /\ Grants(x, n, "PublishChannel") => Owns(q, x.id, n.name)'
                 /\ Grants(x, n, "ExposeFunction") => OwnsFunction(q, x.id)'
          BY <1>3, <2>1, <4>1, <4>2 DEF Owned
        <5>4. \A n \in Going(q)' : \E id \in DOMAIN reg'.channels : Owns(q, id, n.name)'
          BY <1>2, <1>5, <4>1, <4>2 DEF Owned
        <5> QED BY <5>1, <5>2, <5>3, <5>4 DEF Owned, Grants
      <4> QED BY <4>8, <4>9
    <3>8. Granting'
      BY <1>2, <3>1, <3>7 DEF Granting
    <3> QED BY <2>3, <3>6, <3>8
  <2> QED BY <2>4, <2>5
<1> QED BY <1>1, <1>6, <1>7 DEF Dispatch

(***************************************************************************)
(* Theorems.                                                               *)
(***************************************************************************)
(* Every step of the control plane keeps the invariant. *)
THEOREM GrantInvHolds == Spec => []GrantInv
<1> DEFINE Inv == Correlated /\ Enrolled /\ Granting
<1>1. Init => Inv
  <2> SUFFICES ASSUME Init PROVE Inv
    OBVIOUS
  <2>1. Items(submission) = {} /\ \A p \in Procs : Items(replies[p]) = {}
    BY DEF Init, Items
  <2>2. Correlated
    BY <2>1 DEF Init, Correlated
  <2>3. Enrolled
    BY <2>1 DEF Init, Enrolled, IdsOf, NewRegistry, EmptyMap
  <2>4. Granting
    BY DEF Init, Granting
  <2> QED BY <2>2, <2>3, <2>4
<1>2. BrokerInv /\ Inv /\ [Next]_vars => Inv'
  <2> SUFFICES ASSUME BrokerInv, Inv, [Next]_vars PROVE Inv'
    OBVIOUS
  <2>1. RegOK(reg)
    BY InvRegOK
  <2>2. CASE Handle
    BY <2>2, HandleGrants, RegisterGrants
  <2>3. CASE Sweep
    <3>1. Loses(reg, reg', Due(reg), {}) /\ Due(reg) \subseteq DOMAIN reg.released
      BY <2>1, <2>3, DropLoses DEF Sweep, reap_released, Due
    <3> QED BY <2>3, <3>1, SweptGrants DEF Sweep
  <2>4. ASSUME NEW id \in DOMAIN reg.released, GraceElapses(id) PROVE Inv'
    <3>1. Loses(reg, reg', {id}, {})
      BY <2>1, <2>4, MarkLoses DEF GraceElapses
    <3> QED BY <2>4, <3>1, SweptGrants DEF GraceElapses
  <2>5. ASSUME NEW p \in Procs,
               \/ Connect(p) \/ Publish(p) \/ ListChannels(p) \/ Subscribe(p)
               \/ Expose(p) \/ Lookup(p) \/ DropPublisher(p) \/ Disconnect(p)
               \/ Dispatch(p) \/ CallTimeout(p) \/ Kill(p)
        PROVE  Inv'
    BY <2>5, ConnectGrants, RequestsGrant, DropPublisherGrants, DisconnectGrants, DispatchGrants,
       CallTimeoutGrants, KillGrants
  <2>6. CASE UNCHANGED vars
    <3>1. UNCHANGED <<submission, replies, proc, sent>> /\ Loses(reg, reg', {}, {})
      BY <2>1, <2>6, AllocLoses DEF vars, broker
    <3> QED BY <3>1, SweptGrants
  <2> QED BY <2>2, <2>3, <2>4, <2>5, <2>6 DEF Next
<1>3. BrokerInv /\ Inv => GrantInv
  BY DEF GrantInv, Granting
<1> QED BY <1>1, <1>2, <1>3, BrokerInvariant, PTL DEF Spec

(* What the broker granted a living, connected process stays granted until *)
(* the process gives it up: no takeover, release, sweep or departure of    *)
(* another, and nothing a dead process left queued, takes it away.         *)
THEOREM GrantsStand == Spec => []GrantStands
<1>1. GrantInv => GrantStands
  <2> SUFFICES ASSUME GrantInv, NEW p \in alive, conn[p] = "up"
               PROVE  /\ \A h \in published[p] :
                            /\ h.id \in DOMAIN reg.channels
                            /\ reg.channels[h.id].owner = client_id[p]
                            /\ h.name \in DOMAIN reg.chan_by_name /\ reg.chan_by_name[h.name] = h.id
                            /\ h.id \notin DOMAIN reg.released
                            /\ channel_arena(h.id) \in arenas
                      /\ \A h \in exposed[p] :
                            /\ h.id \in DOMAIN reg.functions
                            /\ reg.functions[h.id].owner = client_id[p]
                            /\ function_arena(h.id) \in arenas
    BY DEF GrantStands
  <2>1. BrokerInv /\ Owned(p)
    BY DEF GrantInv
  <2>2. /\ \A id \in DOMAIN reg.channels :
              /\ reg.channels[id].name \in DOMAIN reg.chan_by_name
              /\ reg.chan_by_name[reg.channels[id].name] = id
              /\ channel_arena(id) \in arenas
        /\ \A id \in DOMAIN reg.functions : function_arena(id) \in arenas
    BY <2>1 DEF BrokerInv, IndexesAgree, Consistent, Indexed, ArenasAccounted, ArenasIn, ArenaNames
  <2>3. /\ \A h \in published[p] : Owns(p, h.id, h.name)
        /\ \A h \in exposed[p] : OwnsFunction(p, h.id)
    BY <2>1 DEF Owned
  <2> QED BY <2>2, <2>3 DEF Owns, OwnsFunction
<1> QED BY <1>1, GrantInvHolds, PTL
=============================================================================
