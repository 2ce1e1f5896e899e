---------------------------- MODULE BrokerProofs ----------------------------
(***************************************************************************)
(* Proofs about Broker, for any set of processes, names, keys and schemas, *)
(* any number of messages, calls and faults.  Each registry method keeps   *)
(* RegOK and changes the set of arenas in a known way; each handler        *)
(* combines them.                                                          *)
(***************************************************************************)
EXTENDS Broker, TLAPS

RegOK(r) == RegistryType(r) /\ Consistent(r) /\ ArenaNames(r)

(* The registry a broker starts with (Registry::new) is consistent and     *)
(* owns no arena.                                                          *)
LEMMA NewRegistryOK ==
    RegOK(NewRegistry) /\ ArenasIn(NewRegistry) = {} /\ NewRegistry.next_client = 1
  BY DEF RegOK, RegistryType, Consistent, ArenaNames, ArenasIn, NewRegistry, EmptyMap, MapsTo, Indexed

(* add_client keeps the registry consistent and takes the next id. *)
LEMMA AddClientOK ==
    ASSUME NEW r, RegOK(r), NEW pid \in Procs \cup {None}
    PROVE  /\ RegOK(add_client(r, pid))
           /\ ArenasIn(add_client(r, pid)) = ArenasIn(r)
           /\ add_client(r, pid).next_client = r.next_client + 1
<1> DEFINE s == add_client(r, pid)
<1>1. /\ DOMAIN s = DOMAIN r
      /\ s.clients = Put(r.clients, r.next_client, pid)
      /\ s.next_client = r.next_client + 1
      /\ s.channels = r.channels /\ s.chan_by_name = r.chan_by_name
      /\ s.functions = r.functions /\ s.fn_by_name = r.fn_by_name
      /\ s.subscribed = r.subscribed /\ s.released = r.released
      /\ s.next_channel = r.next_channel /\ s.next_fn = r.next_fn
  BY DEF add_client, NextClientId, RegOK, RegistryType
<1> HIDE DEF s
<1>2. MapsTo(s.clients, 1..(s.next_client - 1), Procs \cup {None})
  BY <1>1 DEF RegOK, RegistryType, MapsTo, Put
<1>3. RegOK(s)
  BY <1>1, <1>2 DEF RegOK, RegistryType, Consistent, ArenaNames
<1>4. ArenasIn(s) = ArenasIn(r)
  BY <1>1 DEF ArenasIn
<1> QED BY <1>1, <1>3, <1>4 DEF s

(* remove_client touches the client table only. *)
LEMMA RemoveClientOK ==
    ASSUME NEW r, RegOK(r), NEW c
    PROVE  /\ RegOK(remove_client(r, c))
           /\ ArenasIn(remove_client(r, c)) = ArenasIn(r)
           /\ remove_client(r, c).next_client = r.next_client
           /\ remove_client(r, c).chan_by_name = r.chan_by_name
           /\ remove_client(r, c).fn_by_name = r.fn_by_name
<1> DEFINE s == remove_client(r, c)
<1>1. /\ DOMAIN s = DOMAIN r
      /\ s.clients = Without(r.clients, {c})
      /\ s.next_client = r.next_client
      /\ s.channels = r.channels /\ s.chan_by_name = r.chan_by_name
      /\ s.functions = r.functions /\ s.fn_by_name = r.fn_by_name
      /\ s.subscribed = r.subscribed /\ s.released = r.released
      /\ s.next_channel = r.next_channel /\ s.next_fn = r.next_fn
  BY DEF remove_client, RegOK, RegistryType
<1> HIDE DEF s
<1>2. MapsTo(s.clients, 1..(s.next_client - 1), Procs \cup {None})
  BY <1>1 DEF RegOK, RegistryType, MapsTo, Without
<1>3. RegOK(s)
  BY <1>1, <1>2 DEF RegOK, RegistryType, Consistent, ArenaNames
<1>4. ArenasIn(s) = ArenasIn(r)
  BY <1>1 DEF ArenasIn
<1> QED BY <1>1, <1>3, <1>4 DEF s

(* drop_channel forgets a channel in all four maps; exactly the arenas of  *)
(* the dropped channels leave the registry, and their names are free.      *)
LEMMA DropChannelsOK ==
    ASSUME NEW r, RegOK(r), NEW ids
    PROVE  LET s == drop_channels(r, ids)
           IN  /\ RegOK(s)
               /\ ArenasIn(s) = ArenasIn(r) \ {r.channels[id].arena : id \in ids \cap DOMAIN r.channels}
               /\ s.next_client = r.next_client
               /\ s.functions = r.functions /\ s.fn_by_name = r.fn_by_name
               /\ \A id \in ids \cap DOMAIN r.channels : r.channels[id].name \notin DOMAIN s.chan_by_name
<1> DEFINE s == drop_channels(r, ids)
<1> DEFINE live == ids \cap DOMAIN r.channels
<1> DEFINE names == {r.channels[id].name : id \in live}
<1>1. /\ DOMAIN s = DOMAIN r
      /\ s.channels = Without(r.channels, live)
      /\ s.chan_by_name = Without(r.chan_by_name, names)
      /\ s.subscribed = r.subscribed \ live
      /\ s.released = Without(r.released, live)
  BY DEF drop_channels, RegOK, RegistryType
<1>2. /\ s.clients = r.clients /\ s.next_client = r.next_client
      /\ s.functions = r.functions /\ s.fn_by_name = r.fn_by_name
      /\ s.next_channel = r.next_channel /\ s.next_fn = r.next_fn
  BY DEF drop_channels, RegOK, RegistryType
<1> HIDE DEF s
<1>3. /\ DOMAIN s.channels = DOMAIN r.channels \ live
      /\ \A id \in DOMAIN s.channels : s.channels[id] = r.channels[id]
      /\ DOMAIN s.released = DOMAIN r.released \ live
      /\ \A id \in DOMAIN s.released : s.released[id] = r.released[id]
      /\ DOMAIN s.chan_by_name = DOMAIN r.chan_by_name \ names
      /\ \A n \in DOMAIN s.chan_by_name : s.chan_by_name[n] = r.chan_by_name[n]
  BY <1>1 DEF Without
<1>4. RegistryType(s)
  <2>1. MapsTo(s.channels, 1..(s.next_channel - 1), EntryType)
    BY <1>2, <1>3 DEF RegOK, RegistryType, MapsTo
  <2>2. MapsTo(s.chan_by_name, Names, Nat)
    BY <1>3 DEF RegOK, RegistryType, MapsTo
  <2>3. MapsTo(s.released, Nat, {"held", "due"})
    BY <1>3 DEF RegOK, RegistryType, MapsTo
  <2>4. s.subscribed \subseteq Nat
    BY <1>1 DEF RegOK, RegistryType
  <2> QED BY <1>1, <1>2, <2>1, <2>2, <2>3, <2>4 DEF RegOK, RegistryType
<1>5. Indexed(s.chan_by_name, s.channels)
  <2>1. Indexed(r.chan_by_name, r.channels)
    BY DEF RegOK, Consistent
  <2> QED BY <1>3, <2>1 DEF Indexed
<1>6. Consistent(s)
  BY <1>1, <1>2, <1>3, <1>5 DEF RegOK, Consistent
<1>7. ArenaNames(s)
  BY <1>2, <1>3 DEF RegOK, ArenaNames
<1>8. ArenasIn(s) = ArenasIn(r) \ {r.channels[id].arena : id \in live}
  <2>1. \A i, j \in DOMAIN r.channels : r.channels[i].arena = r.channels[j].arena => i = j
    BY DEF RegOK, ArenaNames, channel_arena
  <2>2. \A i \in DOMAIN r.channels, j \in DOMAIN r.functions : r.channels[i].arena # r.functions[j].arena
    BY DEF RegOK, ArenaNames, channel_arena, function_arena
  <2>3. {s.channels[id].arena : id \in DOMAIN s.channels}
            = {r.channels[id].arena : id \in DOMAIN r.channels \ live}
    BY <1>3
  <2> QED BY <1>2, <2>1, <2>2, <2>3 DEF ArenasIn
<1> QED BY <1>2, <1>3, <1>4, <1>6, <1>7, <1>8 DEF RegOK, s

(* The same for a single channel. *)
LEMMA DropOneOK ==
    ASSUME NEW r, RegOK(r), NEW id \in DOMAIN r.channels
    PROVE  LET s == drop_channels(r, {id})
           IN  /\ RegOK(s)
               /\ ArenasIn(s) = ArenasIn(r) \ {r.channels[id].arena}
               /\ s.next_client = r.next_client
               /\ r.channels[id].name \notin DOMAIN s.chan_by_name
<1> DEFINE s == drop_channels(r, {id})
<1>1. {id} \cap DOMAIN r.channels = {id}
  OBVIOUS
<1>2. /\ RegOK(s)
      /\ ArenasIn(s) = ArenasIn(r) \ {r.channels[i].arena : i \in {id} \cap DOMAIN r.channels}
      /\ s.next_client = r.next_client
      /\ \A i \in {id} \cap DOMAIN r.channels : r.channels[i].name \notin DOMAIN s.chan_by_name
  BY DropChannelsOK
<1> HIDE DEF s
<1>3. {r.channels[i].arena : i \in {id} \cap DOMAIN r.channels} = {r.channels[id].arena}
  BY <1>1
<1> QED BY <1>1, <1>2, <1>3 DEF s

(* remove_client_functions, likewise. *)
LEMMA RemoveFunctionsOK ==
    ASSUME NEW r, RegOK(r), NEW c
    PROVE  LET s == remove_client_functions(r, c)
           IN  /\ RegOK(s)
               /\ ArenasIn(s) = ArenasIn(r) \ {r.functions[id].arena : id \in FunctionsOf(r, c)}
               /\ s.next_client = r.next_client
               /\ s.chan_by_name = r.chan_by_name
               /\ \A id \in FunctionsOf(r, c) : r.functions[id].name \notin DOMAIN s.fn_by_name
<1> DEFINE s == remove_client_functions(r, c)
<1> DEFINE ids == FunctionsOf(r, c)
<1> DEFINE names == {r.functions[id].name : id \in ids}
<1>1. /\ DOMAIN s = DOMAIN r
      /\ s.functions = Without(r.functions, ids)
      /\ s.fn_by_name = Without(r.fn_by_name, names)
  BY DEF remove_client_functions, RegOK, RegistryType
<1>2. /\ s.clients = r.clients /\ s.next_client = r.next_client
      /\ s.channels = r.channels /\ s.chan_by_name = r.chan_by_name
      /\ s.subscribed = r.subscribed /\ s.released = r.released
      /\ s.next_channel = r.next_channel /\ s.next_fn = r.next_fn
  BY DEF remove_client_functions, RegOK, RegistryType
<1>0. ids \subseteq DOMAIN r.functions
  BY DEF FunctionsOf
<1> HIDE DEF s, ids
<1>3. /\ DOMAIN s.functions = DOMAIN r.functions \ ids
      /\ \A id \in DOMAIN s.functions : s.functions[id] = r.functions[id]
      /\ DOMAIN s.fn_by_name = DOMAIN r.fn_by_name \ names
      /\ \A n \in DOMAIN s.fn_by_name : s.fn_by_name[n] = r.fn_by_name[n]
  BY <1>1 DEF Without
<1>4. RegistryType(s)
  <2>1. MapsTo(s.functions, 1..(s.next_fn - 1), EntryType)
    BY <1>2, <1>3 DEF RegOK, RegistryType, MapsTo
  <2>2. MapsTo(s.fn_by_name, Names, Nat)
    BY <1>3 DEF RegOK, RegistryType, MapsTo
  <2> QED BY <1>1, <1>2, <2>1, <2>2 DEF RegOK, RegistryType
<1>5. Indexed(s.fn_by_name, s.functions)
  <2>1. Indexed(r.fn_by_name, r.functions)
    BY DEF RegOK, Consistent
  <2> QED BY <1>0, <1>3, <2>1 DEF Indexed
<1>6. Consistent(s)
  BY <1>2, <1>5 DEF RegOK, Consistent
<1>7. ArenaNames(s)
  BY <1>2, <1>3 DEF RegOK, ArenaNames
<1>8. ArenasIn(s) = ArenasIn(r) \ {r.functions[id].arena : id \in ids}
  <2>1. \A i, j \in DOMAIN r.functions : r.functions[i].arena = r.functions[j].arena => i = j
    BY DEF RegOK, ArenaNames, function_arena
  <2>2. \A i \in DOMAIN r.channels, j \in DOMAIN r.functions : r.channels[i].arena # r.functions[j].arena
    BY DEF RegOK, ArenaNames, channel_arena, function_arena
  <2>3. {s.functions[id].arena : id \in DOMAIN s.functions}
            = {r.functions[id].arena : id \in DOMAIN r.functions \ ids}
    BY <1>3
  <2> QED BY <1>0, <1>2, <2>1, <2>2, <2>3 DEF ArenasIn
<1> QED BY <1>2, <1>3, <1>4, <1>6, <1>7, <1>8 DEF RegOK, s, ids

(* release_client: everything the client owned goes, with its arenas, and  *)
(* every name it held is free.                                             *)
LEMMA ReleaseClientOK ==
    ASSUME NEW r, RegOK(r), NEW c
    PROVE  LET s == ReleaseClient(r, c)
           IN  /\ RegOK(s)
               /\ ArenasIn(s) = ArenasIn(r) \ ArenasOf(r, c)
               /\ s.next_client = r.next_client
               /\ \A id \in ChannelsOf(r, c) : r.channels[id].name \notin DOMAIN s.chan_by_name
               /\ \A id \in FunctionsOf(r, c) : r.functions[id].name \notin DOMAIN s.fn_by_name
<1> DEFINE r1 == remove_client_channels(r, c)
<1> DEFINE r2 == remove_client_functions(r1, c)
<1> DEFINE s == remove_client(r2, c)
<1>0. ChannelsOf(r, c) \cap DOMAIN r.channels = ChannelsOf(r, c)
  BY DEF ChannelsOf
<1>1. /\ RegOK(r1)
      /\ ArenasIn(r1) = ArenasIn(r) \ {r.channels[id].arena : id \in ChannelsOf(r, c)}
      /\ r1.next_client = r.next_client
      /\ r1.functions = r.functions
      /\ \A id \in ChannelsOf(r, c) : r.channels[id].name \notin DOMAIN r1.chan_by_name
  BY <1>0, DropChannelsOK DEF remove_client_channels
<1>2. FunctionsOf(r1, c) = FunctionsOf(r, c)
  BY <1>1 DEF FunctionsOf
<1> HIDE DEF r1
<1>3. /\ RegOK(r2)
      /\ ArenasIn(r2) = ArenasIn(r1) \ {r.functions[id].arena : id \in FunctionsOf(r, c)}
      /\ r2.next_client = r1.next_client
      /\ r2.chan_by_name = r1.chan_by_name
      /\ \A id \in FunctionsOf(r, c) : r.functions[id].name \notin DOMAIN r2.fn_by_name
  BY <1>1, <1>2, RemoveFunctionsOK
<1> HIDE DEF r2
<1>4. /\ RegOK(s)
      /\ ArenasIn(s) = ArenasIn(r2)
      /\ s.next_client = r2.next_client
      /\ s.chan_by_name = r2.chan_by_name /\ s.fn_by_name = r2.fn_by_name
  BY <1>3, RemoveClientOK
<1>5. s = ReleaseClient(r, c)
  BY DEF ReleaseClient, r1, r2
<1> HIDE DEF s
<1> QED BY <1>1, <1>3, <1>4, <1>5 DEF ArenasOf

(* alloc_channel_id without an insert: an id is skipped. *)
LEMMA AllocChannelOK ==
    ASSUME NEW r, RegOK(r)
    PROVE  /\ RegOK(alloc_channel_id(r))
           /\ ArenasIn(alloc_channel_id(r)) = ArenasIn(r)
           /\ alloc_channel_id(r).next_client = r.next_client
<1> DEFINE s == alloc_channel_id(r)
<1>1. /\ DOMAIN s = DOMAIN r
      /\ s.clients = r.clients /\ s.next_client = r.next_client
      /\ s.channels = r.channels /\ s.chan_by_name = r.chan_by_name
      /\ s.functions = r.functions /\ s.fn_by_name = r.fn_by_name
      /\ s.subscribed = r.subscribed /\ s.released = r.released
      /\ s.next_channel = r.next_channel + 1 /\ s.next_fn = r.next_fn
  BY DEF alloc_channel_id, RegOK, RegistryType
<1> HIDE DEF s
<1>2. MapsTo(s.channels, 1..(s.next_channel - 1), EntryType)
  BY <1>1 DEF RegOK, RegistryType, MapsTo
<1>3. RegOK(s)
  BY <1>1, <1>2 DEF RegOK, RegistryType, Consistent, ArenaNames
<1>4. ArenasIn(s) = ArenasIn(r)
  BY <1>1 DEF ArenasIn
<1> QED BY <1>1, <1>3, <1>4 DEF s

(* alloc_fn_id, likewise. *)
LEMMA AllocFunctionOK ==
    ASSUME NEW r, RegOK(r)
    PROVE  /\ RegOK(alloc_fn_id(r))
           /\ ArenasIn(alloc_fn_id(r)) = ArenasIn(r)
           /\ alloc_fn_id(r).next_client = r.next_client
<1> DEFINE s == alloc_fn_id(r)
<1>1. /\ DOMAIN s = DOMAIN r
      /\ s.clients = r.clients /\ s.next_client = r.next_client
      /\ s.channels = r.channels /\ s.chan_by_name = r.chan_by_name
      /\ s.functions = r.functions /\ s.fn_by_name = r.fn_by_name
      /\ s.subscribed = r.subscribed /\ s.released = r.released
      /\ s.next_channel = r.next_channel /\ s.next_fn = r.next_fn + 1
  BY DEF alloc_fn_id, RegOK, RegistryType
<1> HIDE DEF s
<1>2. MapsTo(s.functions, 1..(s.next_fn - 1), EntryType)
  BY <1>1 DEF RegOK, RegistryType, MapsTo
<1>3. RegOK(s)
  BY <1>1, <1>2 DEF RegOK, RegistryType, Consistent, ArenaNames
<1>4. ArenasIn(s) = ArenasIn(r)
  BY <1>1 DEF ArenasIn
<1> QED BY <1>1, <1>3, <1>4 DEF s

(* The entry a publish or an expose makes is well formed. *)
LEMMA EntryOK ==
    ASSUME NEW m \in RequestType, m.kind \in {"PublishChannel", "ExposeFunction"},
           m.schema # BadSchema, NEW id \in Nat, NEW arena \in ArenaType
    PROVE  /\ Entry(m, id, arena) \in EntryType
           /\ Entry(m, id, arena).id = id
           /\ Entry(m, id, arena).name = m.name
           /\ Entry(m, id, arena).arena = arena
<1>1. m.name \in Names /\ m.schema \in Schemas /\ m.client \in Nat /\ m.key \in Keys \cup {None}
  BY DEF RequestType
<1> QED BY <1>1 DEF Entry, EntryType

(* insert_channel under a free name and a fresh id keeps the registry      *)
(* consistent and adds one arena.                                          *)
LEMMA InsertChannelOK ==
    ASSUME NEW r, RegOK(r), NEW m \in RequestType, m.kind = "PublishChannel",
           m.schema # BadSchema, m.name \notin DOMAIN r.chan_by_name
    PROVE  LET s == insert_channel(alloc_channel_id(r), Entry(m, r.next_channel, channel_arena(r.next_channel)))
           IN  /\ RegOK(s)
               /\ ArenasIn(s) = ArenasIn(r) \cup {channel_arena(r.next_channel)}
               /\ s.next_client = r.next_client
<1> DEFINE id == r.next_channel
<1> DEFINE e == Entry(m, id, channel_arena(id))
<1> DEFINE s == insert_channel(alloc_channel_id(r), e)
<1>0. id \in Nat \ {0} /\ m.name \in Names /\ id \notin DOMAIN r.channels
  BY DEF RegOK, RegistryType, MapsTo, RequestType
<1>1. e \in EntryType /\ e.id = id /\ e.name = m.name /\ e.arena = channel_arena(id)
  BY <1>0, EntryOK DEF channel_arena, ArenaType
<1> HIDE DEF e
<1>2. /\ DOMAIN s = DOMAIN r
      /\ s.channels = Put(r.channels, id, e)
      /\ s.chan_by_name = Put(r.chan_by_name, m.name, id)
      /\ s.next_channel = r.next_channel + 1
  BY <1>1 DEF insert_channel, alloc_channel_id, RegOK, RegistryType
<1>3. /\ s.clients = r.clients /\ s.next_client = r.next_client
      /\ s.functions = r.functions /\ s.fn_by_name = r.fn_by_name
      /\ s.subscribed = r.subscribed /\ s.released = r.released
      /\ s.next_fn = r.next_fn
  BY DEF insert_channel, alloc_channel_id, RegOK, RegistryType
<1> HIDE DEF s
<1>4. /\ DOMAIN s.channels = DOMAIN r.channels \cup {id}
      /\ s.channels[id] = e
      /\ \A i \in DOMAIN r.channels : s.channels[i] = r.channels[i]
      /\ DOMAIN s.chan_by_name = DOMAIN r.chan_by_name \cup {m.name}
      /\ s.chan_by_name[m.name] = id
      /\ \A n \in DOMAIN r.chan_by_name : s.chan_by_name[n] = r.chan_by_name[n]
  BY <1>0, <1>2 DEF Put
<1>5. RegistryType(s)
  <2>1. MapsTo(s.channels, 1..(s.next_channel - 1), EntryType)
    BY <1>0, <1>1, <1>2, <1>4 DEF RegOK, RegistryType, MapsTo
  <2>2. MapsTo(s.chan_by_name, Names, Nat)
    BY <1>0, <1>4 DEF RegOK, RegistryType, MapsTo
  <2> QED BY <1>2, <1>3, <2>1, <2>2 DEF RegOK, RegistryType
<1>6. Consistent(s)
  <2>1. Indexed(r.chan_by_name, r.channels)
    BY DEF RegOK, Consistent
  <2>2. Indexed(s.chan_by_name, s.channels)
    BY <1>0, <1>1, <1>4, <2>1 DEF Indexed
  <2> QED BY <1>3, <1>4, <2>2 DEF RegOK, Consistent
<1>7. ArenaNames(s)
  BY <1>1, <1>3, <1>4 DEF RegOK, ArenaNames
<1>8. ArenasIn(s) = ArenasIn(r) \cup {channel_arena(id)}
  BY <1>1, <1>3, <1>4 DEF ArenasIn
<1> QED BY <1>3, <1>5, <1>6, <1>7, <1>8 DEF RegOK, s, e

(* insert_function, likewise. *)
LEMMA InsertFunctionOK ==
    ASSUME NEW r, RegOK(r), NEW m \in RequestType, m.kind = "ExposeFunction",
           m.schema # BadSchema, m.name \notin DOMAIN r.fn_by_name
    PROVE  LET s == insert_function(alloc_fn_id(r), Entry(m, r.next_fn, function_arena(r.next_fn)))
           IN  /\ RegOK(s)
               /\ ArenasIn(s) = ArenasIn(r) \cup {function_arena(r.next_fn)}
               /\ s.next_client = r.next_client
<1> DEFINE id == r.next_fn
<1> DEFINE e == Entry(m, id, function_arena(id))
<1> DEFINE s == insert_function(alloc_fn_id(r), e)
<1>0. id \in Nat \ {0} /\ m.name \in Names /\ id \notin DOMAIN r.functions
  BY DEF RegOK, RegistryType, MapsTo, RequestType
<1>1. e \in EntryType /\ e.id = id /\ e.name = m.name /\ e.arena = function_arena(id)
  BY <1>0, EntryOK DEF function_arena, ArenaType
<1> HIDE DEF e
<1>2. /\ DOMAIN s = DOMAIN r
      /\ s.functions = Put(r.functions, id, e)
      /\ s.fn_by_name = Put(r.fn_by_name, m.name, id)
      /\ s.next_fn = r.next_fn + 1
  BY <1>1 DEF insert_function, alloc_fn_id, RegOK, RegistryType
<1>3. /\ s.clients = r.clients /\ s.next_client = r.next_client
      /\ s.channels = r.channels /\ s.chan_by_name = r.chan_by_name
      /\ s.subscribed = r.subscribed /\ s.released = r.released
      /\ s.next_channel = r.next_channel
  BY DEF insert_function, alloc_fn_id, RegOK, RegistryType
<1> HIDE DEF s
<1>4. /\ DOMAIN s.functions = DOMAIN r.functions \cup {id}
      /\ s.functions[id] = e
      /\ \A i \in DOMAIN r.functions : s.functions[i] = r.functions[i]
      /\ DOMAIN s.fn_by_name = DOMAIN r.fn_by_name \cup {m.name}
      /\ s.fn_by_name[m.name] = id
      /\ \A n \in DOMAIN r.fn_by_name : s.fn_by_name[n] = r.fn_by_name[n]
  BY <1>0, <1>2 DEF Put
<1>5. RegistryType(s)
  <2>1. MapsTo(s.functions, 1..(s.next_fn - 1), EntryType)
    BY <1>0, <1>1, <1>2, <1>4 DEF RegOK, RegistryType, MapsTo
  <2>2. MapsTo(s.fn_by_name, Names, Nat)
    BY <1>0, <1>4 DEF RegOK, RegistryType, MapsTo
  <2> QED BY <1>2, <1>3, <2>1, <2>2 DEF RegOK, RegistryType
<1>6. Consistent(s)
  <2>1. Indexed(r.fn_by_name, r.functions)
    BY DEF RegOK, Consistent
  <2>2. Indexed(s.fn_by_name, s.functions)
    BY <1>0, <1>1, <1>4, <2>1 DEF Indexed
  <2> QED BY <1>3, <1>4, <2>2 DEF RegOK, Consistent
<1>7. ArenaNames(s)
  BY <1>1, <1>3, <1>4 DEF RegOK, ArenaNames
<1>8. ArenasIn(s) = ArenasIn(r) \cup {function_arena(id)}
  BY <1>1, <1>3, <1>4 DEF ArenasIn
<1> QED BY <1>3, <1>5, <1>6, <1>7, <1>8 DEF RegOK, s, e

(* mark_subscribed on an existing channel, and any change of the release   *)
(* marks of existing channels, keep the registry consistent.               *)
LEMMA MarkSubscribedOK ==
    ASSUME NEW r, RegOK(r), NEW id \in DOMAIN r.channels
    PROVE  /\ RegOK(mark_subscribed(r, id))
           /\ ArenasIn(mark_subscribed(r, id)) = ArenasIn(r)
           /\ mark_subscribed(r, id).next_client = r.next_client
<1> DEFINE s == mark_subscribed(r, id)
<1>1. /\ DOMAIN s = DOMAIN r
      /\ s.clients = r.clients /\ s.next_client = r.next_client
      /\ s.channels = r.channels /\ s.chan_by_name = r.chan_by_name
      /\ s.functions = r.functions /\ s.fn_by_name = r.fn_by_name
      /\ s.subscribed = r.subscribed \cup {id} /\ s.released = r.released
      /\ s.next_channel = r.next_channel /\ s.next_fn = r.next_fn
  BY DEF mark_subscribed, RegOK, RegistryType
<1> HIDE DEF s
<1>2. s.subscribed \subseteq DOMAIN r.channels /\ s.subscribed \subseteq Nat
  BY <1>1 DEF RegOK, Consistent, RegistryType, MapsTo
<1>3. RegOK(s)
  BY <1>1, <1>2 DEF RegOK, RegistryType, Consistent, ArenaNames
<1>4. ArenasIn(s) = ArenasIn(r)
  BY <1>1 DEF ArenasIn
<1> QED BY <1>1, <1>3, <1>4 DEF s

(* release_channel's Deferred outcome and the passing of the grace. *)
LEMMA MarkReleasedOK ==
    ASSUME NEW r, RegOK(r), NEW id \in DOMAIN r.channels, NEW v \in {"held", "due"}
    PROVE  LET s == [r EXCEPT !.released = Put(@, id, v)]
           IN  /\ RegOK(s)
               /\ ArenasIn(s) = ArenasIn(r)
               /\ s.next_client = r.next_client
<1> DEFINE s == [r EXCEPT !.released = Put(@, id, v)]
<1>1. /\ DOMAIN s = DOMAIN r
      /\ s.clients = r.clients /\ s.next_client = r.next_client
      /\ s.channels = r.channels /\ s.chan_by_name = r.chan_by_name
      /\ s.functions = r.functions /\ s.fn_by_name = r.fn_by_name
      /\ s.subscribed = r.subscribed /\ s.released = Put(r.released, id, v)
      /\ s.next_channel = r.next_channel /\ s.next_fn = r.next_fn
  BY DEF RegOK, RegistryType
<1> HIDE DEF s
<1>2. MapsTo(s.released, Nat, {"held", "due"}) /\ DOMAIN s.released \subseteq DOMAIN r.channels
  BY <1>1 DEF RegOK, Consistent, RegistryType, MapsTo, Put
<1>3. RegOK(s)
  BY <1>1, <1>2 DEF RegOK, RegistryType, Consistent, ArenaNames
<1>4. ArenasIn(s) = ArenasIn(r)
  BY <1>1 DEF ArenasIn
<1> QED BY <1>1, <1>3, <1>4 DEF s

(***************************************************************************)
(* Steps.                                                                  *)
(***************************************************************************)
Shrinks(rings) ==
    DOMAIN rings \subseteq DOMAIN reply_rings /\ \A c \in DOMAIN rings : rings[c] = reply_rings[c]

(* Routed, of the next state, for ids and processes given in this one. *)
RoutedNext(c, p) == c < reg'.next_client /\ (c \in DOMAIN reply_rings' => reply_rings'[c] = p)

(* A handler answers m at most once, with an answer of m's kind. *)
Answered(m) ==
    \/ UNCHANGED replies
    \/ \E a \in AnswerType : a.proc = m.proc /\ a.kind = m.kind /\ Reply(reply_rings', m.client, a)

(* What a handler, or the sweep, leaves behind in the broker. *)
BrokerStep ==
    /\ RegOK(reg')
    /\ arenas' = ArenasIn(reg')
    /\ reg'.next_client = reg.next_client
    /\ Shrinks(reply_rings')

(* The first request of the submission ring is well formed, was sent by    *)
(* the client it names, and the rest of the ring is as good as the ring.   *)
LEMMA HeadOK ==
    ASSUME BrokerInv, submission # << >>
    PROVE  /\ Head(submission) \in RequestType
           /\ Routed(Head(submission).client, Head(submission).proc)
           /\ Tail(submission) \in Seq(RequestType)
           /\ \A i \in 1..Len(Tail(submission)) :
                 Routed(Tail(submission)[i].client, Tail(submission)[i].proc)
<1>1. submission \in Seq(RequestType)
  BY DEF BrokerInv, TypeOK
<1>2. Head(submission) = submission[1] /\ 1 \in 1..Len(submission)
  BY <1>1
<1>3. /\ Tail(submission) \in Seq(RequestType)
      /\ \A i \in 1..Len(Tail(submission)) :
            i + 1 \in 1..Len(submission) /\ Tail(submission)[i] = submission[i + 1]
  BY <1>1
<1> QED BY <1>1, <1>2, <1>3 DEF BrokerInv, Routing

(* Pushing an answer to the ring of the process it is for keeps the reply  *)
(* rings well formed; the new ring holds the old answers and that one.     *)
LEMMA ReplyOK ==
    ASSUME BrokerInv, NEW rings, NEW c, NEW a \in AnswerType,
           c \in DOMAIN rings => rings[c] = a.proc,
           Reply(rings, c, a)
    PROVE  /\ replies' \in [Procs -> Seq(AnswerType)]
           /\ AnswersReachTheirCaller'
           /\ \A p \in Procs : \A i \in 1..Len(replies'[p]) :
                 \/ i \in 1..Len(replies[p]) /\ replies'[p][i] = replies[p][i]
                 \/ p = a.proc /\ replies'[p][i] = a
<1>1. replies \in [Procs -> Seq(AnswerType)] /\ AnswersReachTheirCaller
  BY DEF BrokerInv, TypeOK
<1>2. a.proc \in Procs
  BY DEF AnswerType
<1>3. CASE replies' = replies
  BY <1>1, <1>3 DEF AnswersReachTheirCaller
<1>4. CASE replies' = [replies EXCEPT ![a.proc] = Append(@, a)]
  <2>1. PICK s \in Seq(AnswerType) : s = replies[a.proc]
    BY <1>1, <1>2
  <2>2. /\ Append(s, a) \in Seq(AnswerType)
        /\ Len(Append(s, a)) = Len(s) + 1
        /\ \A i \in 1..Len(Append(s, a)) :
              (i \in 1..Len(s) /\ Append(s, a)[i] = s[i]) \/ Append(s, a)[i] = a
    BY <2>1
  <2>3. replies'[a.proc] = Append(s, a)
    BY <1>1, <1>2, <1>4, <2>1
  <2>4. \A p \in Procs : p # a.proc => replies'[p] = replies[p]
    BY <1>1, <1>4
  <2>5. replies' \in [Procs -> Seq(AnswerType)]
    BY <1>1, <1>4, <2>1, <2>2
  <2>6. \A p \in Procs : \A i \in 1..Len(replies'[p]) :
           \/ i \in 1..Len(replies[p]) /\ replies'[p][i] = replies[p][i]
           \/ p = a.proc /\ replies'[p][i] = a
    BY <2>1, <2>2, <2>3, <2>4
  <2>7. AnswersReachTheirCaller'
    BY <1>1, <2>6 DEF AnswersReachTheirCaller
  <2> QED BY <2>5, <2>6, <2>7
<1> QED BY <1>3, <1>4 DEF Reply

(* Every handler but on_register preserves the invariant, given what it    *)
(* does to the registry, the arenas and the rings.                         *)
LEMMA HandledOK ==
    ASSUME BrokerInv, submission # << >>, Took, BrokerStep,
           Head(submission).kind # "Register", Answered(Head(submission))
    PROVE  BrokerInv'
<1> DEFINE m == Head(submission)
<1>1. /\ m \in RequestType
      /\ Routed(m.client, m.proc)
      /\ submission' \in Seq(RequestType)
      /\ \A i \in 1..Len(submission') : Routed(submission'[i].client, submission'[i].proc)
  BY HeadOK DEF Took
<1>2. \A c, p : Routed(c, p) => Routed(c, p)'
  BY DEF BrokerStep, Shrinks, Routed
<1>3. m.client \in DOMAIN reply_rings' => reply_rings'[m.client] = m.proc
  BY <1>1 DEF BrokerStep, Shrinks, Routed
<1> HIDE DEF m
<1>4. /\ replies' \in [Procs -> Seq(AnswerType)]
      /\ AnswersReachTheirCaller'
      /\ \A p \in Procs : \A i \in 1..Len(replies'[p]) :
            replies'[p][i].kind = "Register" =>
                i \in 1..Len(replies[p]) /\ replies'[p][i] = replies[p][i]
  <2>1. CASE UNCHANGED replies
    BY <2>1 DEF BrokerInv, TypeOK, AnswersReachTheirCaller
  <2>2. ASSUME NEW a \in AnswerType, a.proc = m.proc, a.kind = m.kind, Reply(reply_rings', m.client, a)
        PROVE  <1>4!1 /\ <1>4!2 /\ <1>4!3
    BY <1>3, <2>2, ReplyOK DEF m
  <2> QED BY <2>1, <2>2 DEF Answered, m
<1>5. TypeOK'
  <2>1. MapsTo(reply_rings', 1..(reg'.next_client - 1), Procs)
    BY DEF BrokerInv, TypeOK, MapsTo, BrokerStep, Shrinks
  <2>2. RegistryType(reg')
    BY DEF BrokerStep, RegOK
  <2>3. arenas' \subseteq ArenaType
    BY DEF BrokerStep, RegOK, RegistryType, MapsTo, ArenasIn, EntryType
  <2> QED BY <1>1, <1>4, <2>1, <2>2, <2>3 DEF BrokerInv, TypeOK, Took, proc, handles
<1>6. Routing'
  BY <1>1, <1>2, <1>4 DEF BrokerInv, Routing, Took, proc
<1> QED BY <1>4, <1>5, <1>6 DEF BrokerInv, BrokerStep, RegOK, IndexesAgree, ArenasAccounted

(* The refusals and grants handlers answer with are well formed. *)
LEMMA AnswerOK ==
    ASSUME NEW m \in RequestType, NEW status \in Statuses, NEW id \in Nat,
           NEW arena \in ArenaType \cup {None}, NEW ids \in SUBSET Nat
    PROVE  /\ Answer(m, status, id, arena, ids) \in AnswerType
           /\ Answer(m, status, id, arena, ids).proc = m.proc
           /\ Answer(m, status, id, arena, ids).kind = m.kind
           /\ Answer(m, status, id, arena, ids).id = id
<1>1. m.kind \in RequestKinds /\ m.proc \in Procs /\ m.corr \in Nat
  BY DEF RequestType
<1> QED BY <1>1 DEF Answer, AnswerType

(* An answer that refuses is well formed. *)
LEMMA RefusalOK ==
    ASSUME NEW m \in RequestType, NEW status \in Statuses
    PROVE  /\ Refusal(m, status) \in AnswerType
           /\ Refusal(m, status).proc = m.proc
           /\ Refusal(m, status).kind = m.kind
  BY AnswerOK DEF Refusal

(* The answer to a Register is well formed and is the newcomer's. *)
LEMMA RegisterAnswerOK ==
    ASSUME NEW m \in RequestType, NEW c \in Nat
    PROVE  /\ Answer(m, "OK", c, None, {}) \in AnswerType
           /\ Answer(m, "OK", c, None, {}).proc = m.proc
           /\ Answer(m, "OK", c, None, {}).id = c
  BY AnswerOK DEF Statuses

(* The second half of on_publish, from any registry in which the name is   *)
(* free.                                                                   *)
LEMMA CreateChannelOK ==
    ASSUME NEW r, RegOK(r), NEW m \in RequestType, m.kind = "PublishChannel",
           m.name \notin DOMAIN r.chan_by_name, r.next_client = reg.next_client,
           NEW rings, Shrinks(rings),
           CreateChannel(m, r, ArenasIn(r), rings)
    PROVE  BrokerStep /\ Answered(m)
<1> DEFINE id == r.next_channel
<1>0. id \in Nat /\ channel_arena(id) \in ArenaType /\ reply_rings' = rings
  BY DEF RegOK, RegistryType, channel_arena, ArenaType, CreateChannel
<1>1. CASE m.schema = BadSchema /\ reg' = r /\ arenas' = ArenasIn(r)
           /\ Reply(rings, m.client, Refusal(m, "ERR_INTERNAL"))
  <2>1. Refusal(m, "ERR_INTERNAL") \in AnswerType /\ Refusal(m, "ERR_INTERNAL").proc = m.proc
        /\ Refusal(m, "ERR_INTERNAL").kind = m.kind
    BY RefusalOK DEF Statuses
  <2> QED BY <1>0, <1>1, <2>1 DEF BrokerStep, Answered
<1>2. CASE reg' = alloc_channel_id(r) /\ arenas' = ArenasIn(r)
           /\ Reply(rings, m.client, Refusal(m, "ERR_INTERNAL"))
  <2>1. Refusal(m, "ERR_INTERNAL") \in AnswerType /\ Refusal(m, "ERR_INTERNAL").proc = m.proc
        /\ Refusal(m, "ERR_INTERNAL").kind = m.kind
    BY RefusalOK DEF Statuses
  <2> QED BY <1>0, <1>2, <2>1, AllocChannelOK DEF BrokerStep, Answered
<1>3. CASE /\ m.schema # BadSchema
           /\ reg' = insert_channel(alloc_channel_id(r), Entry(m, id, channel_arena(id)))
           /\ arenas' = ArenasIn(r) \cup {channel_arena(id)}
           /\ Reply(rings, m.client, Answer(m, "OK", id, channel_arena(id), {}))
  <2> DEFINE a == Answer(m, "OK", id, channel_arena(id), {})
  <2>1. a \in AnswerType /\ a.proc = m.proc /\ a.kind = m.kind
    BY <1>0, AnswerOK DEF Statuses
  <2>2. Answered(m)
    BY <1>0, <1>3, <2>1 DEF Answered
  <2>3. BrokerStep
    BY <1>0, <1>3, InsertChannelOK DEF BrokerStep
  <2> QED BY <2>2, <2>3
<1> QED BY <1>1, <1>2, <1>3 DEF CreateChannel, NoArena

(* The second half of on_expose. *)
LEMMA CreateFunctionOK ==
    ASSUME NEW r, RegOK(r), NEW m \in RequestType, m.kind = "ExposeFunction",
           m.name \notin DOMAIN r.fn_by_name, r.next_client = reg.next_client,
           NEW rings, Shrinks(rings),
           CreateFunction(m, r, ArenasIn(r), rings)
    PROVE  BrokerStep /\ Answered(m)
<1> DEFINE id == r.next_fn
<1>0. id \in Nat /\ function_arena(id) \in ArenaType /\ reply_rings' = rings
  BY DEF RegOK, RegistryType, function_arena, ArenaType, CreateFunction
<1>1. CASE m.schema = BadSchema /\ reg' = r /\ arenas' = ArenasIn(r)
           /\ Reply(rings, m.client, Refusal(m, "ERR_INTERNAL"))
  <2>1. Refusal(m, "ERR_INTERNAL") \in AnswerType /\ Refusal(m, "ERR_INTERNAL").proc = m.proc
        /\ Refusal(m, "ERR_INTERNAL").kind = m.kind
    BY RefusalOK DEF Statuses
  <2> QED BY <1>0, <1>1, <2>1 DEF BrokerStep, Answered
<1>2. CASE reg' = alloc_fn_id(r) /\ arenas' = ArenasIn(r)
           /\ Reply(rings, m.client, Refusal(m, "ERR_INTERNAL"))
  <2>1. Refusal(m, "ERR_INTERNAL") \in AnswerType /\ Refusal(m, "ERR_INTERNAL").proc = m.proc
        /\ Refusal(m, "ERR_INTERNAL").kind = m.kind
    BY RefusalOK DEF Statuses
  <2> QED BY <1>0, <1>2, <2>1, AllocFunctionOK DEF BrokerStep, Answered
<1>3. CASE /\ m.schema # BadSchema
           /\ reg' = insert_function(alloc_fn_id(r), Entry(m, id, function_arena(id)))
           /\ arenas' = ArenasIn(r) \cup {function_arena(id)}
           /\ Reply(rings, m.client, Answer(m, "OK", id, function_arena(id), {}))
  <2> DEFINE a == Answer(m, "OK", id, function_arena(id), {})
  <2>1. a \in AnswerType /\ a.proc = m.proc /\ a.kind = m.kind
    BY <1>0, AnswerOK DEF Statuses
  <2>2. Answered(m)
    BY <1>0, <1>3, <2>1 DEF Answered
  <2>3. BrokerStep
    BY <1>0, <1>3, InsertFunctionOK DEF BrokerStep
  <2> QED BY <2>2, <2>3
<1> QED BY <1>1, <1>2, <1>3 DEF CreateFunction, NoArena

(* The registry part of the invariant, as the lemmas above use it. *)
LEMMA InvRegOK ==
    ASSUME BrokerInv
    PROVE  RegOK(reg) /\ arenas = ArenasIn(reg) /\ Shrinks(reply_rings)
           /\ \A c : Shrinks(Without(reply_rings, {c}))
  BY DEF BrokerInv, TypeOK, RegOK, IndexesAgree, ArenasAccounted, Shrinks, Without

(* on_publish keeps the invariant in each of its outcomes: name free, name *)
(* in its release grace, owner dead, owner alive.                          *)
LEMMA PublishOK == ASSUME BrokerInv, on_publish PROVE BrokerInv'
<1> DEFINE m == Head(submission)
<1> DEFINE id == reg.chan_by_name[m.name]
<1>1. m \in RequestType /\ m.kind = "PublishChannel" /\ submission # << >> /\ Took
  BY HeadOK DEF on_publish, Handling
<1>2. RegOK(reg) /\ arenas = ArenasIn(reg) /\ Shrinks(reply_rings)
      /\ \A c : Shrinks(Without(reply_rings, {c}))
  BY InvRegOK
<1>3. m.name \in DOMAIN reg.chan_by_name => id \in DOMAIN reg.channels /\ reg.channels[id].name = m.name
  BY <1>2 DEF RegOK, Consistent, Indexed
<1>4. SUFFICES BrokerStep /\ Answered(m)
  BY <1>1, HandledOK
<1>5. CASE m.name \notin DOMAIN reg.chan_by_name /\ CreateChannel(m, reg, arenas, reply_rings)
  BY <1>1, <1>2, <1>5, CreateChannelOK
<1>6. CASE m.name \in DOMAIN reg.chan_by_name
           /\ CreateChannel(m, drop_channels(reg, {id}), arenas \ {reg.channels[id].arena}, reply_rings)
  <2> DEFINE s == drop_channels(reg, {id})
  <2>2. RegOK(s) /\ ArenasIn(s) = arenas \ {reg.channels[id].arena}
        /\ s.next_client = reg.next_client /\ m.name \notin DOMAIN s.chan_by_name
    BY <1>2, <1>3, <1>6, DropOneOK
  <2> HIDE DEF s
  <2>3. CreateChannel(m, s, ArenasIn(s), reply_rings)
    BY <1>6, <2>2 DEF s
  <2> QED BY <1>1, <1>2, <2>2, <2>3, CreateChannelOK
<1>7. ASSUME m.name \in DOMAIN reg.chan_by_name,
             NEW c \in dead_channel_owner(reg, m.name, LivePids),
             CreateChannel(m, ReleaseClient(reg, c), arenas \ ArenasOf(reg, c), Without(reply_rings, {c}))
      PROVE  BrokerStep /\ Answered(m)
  <2> DEFINE s == ReleaseClient(reg, c)
  <2>1. id \in ChannelsOf(reg, c)
    BY <1>3, <1>7 DEF dead_channel_owner, ChannelsOf
  <2>2. RegOK(s) /\ ArenasIn(s) = arenas \ ArenasOf(reg, c)
        /\ s.next_client = reg.next_client /\ m.name \notin DOMAIN s.chan_by_name
    BY <1>2, <1>3, <1>7, <2>1, ReleaseClientOK
  <2> HIDE DEF s
  <2>3. CreateChannel(m, s, ArenasIn(s), Without(reply_rings, {c}))
    BY <1>7, <2>2 DEF s
  <2> QED BY <1>1, <1>2, <2>2, <2>3, CreateChannelOK
<1>8. CASE Reply(reply_rings, m.client, Refusal(m, "ERR_EXISTS")) /\ UNCHANGED broker
  <2>1. Refusal(m, "ERR_EXISTS") \in AnswerType /\ Refusal(m, "ERR_EXISTS").proc = m.proc
        /\ Refusal(m, "ERR_EXISTS").kind = m.kind
    BY <1>1, RefusalOK DEF Statuses
  <2>2. reg' = reg /\ arenas' = arenas /\ reply_rings' = reply_rings
    BY <1>8 DEF broker
  <2> QED BY <1>2, <1>8, <2>1, <2>2 DEF BrokerStep, Answered
<1> QED BY <1>5, <1>6, <1>7, <1>8 DEF on_publish

(* on_expose, likewise. *)
LEMMA ExposeOK == ASSUME BrokerInv, on_expose PROVE BrokerInv'
<1> DEFINE m == Head(submission)
<1> DEFINE id == reg.fn_by_name[m.name]
<1>1. m \in RequestType /\ m.kind = "ExposeFunction" /\ submission # << >> /\ Took
  BY HeadOK DEF on_expose, Handling
<1>2. RegOK(reg) /\ arenas = ArenasIn(reg) /\ Shrinks(reply_rings)
      /\ \A c : Shrinks(Without(reply_rings, {c}))
  BY InvRegOK
<1>3. m.name \in DOMAIN reg.fn_by_name => id \in DOMAIN reg.functions /\ reg.functions[id].name = m.name
  BY <1>2 DEF RegOK, Consistent, Indexed
<1>4. SUFFICES BrokerStep /\ Answered(m)
  BY <1>1, HandledOK
<1>5. CASE m.name \notin DOMAIN reg.fn_by_name /\ CreateFunction(m, reg, arenas, reply_rings)
  BY <1>1, <1>2, <1>5, CreateFunctionOK
<1>7. ASSUME m.name \in DOMAIN reg.fn_by_name,
             NEW c \in dead_function_owner(reg, m.name, LivePids),
             CreateFunction(m, ReleaseClient(reg, c), arenas \ ArenasOf(reg, c), Without(reply_rings, {c}))
      PROVE  BrokerStep /\ Answered(m)
  <2> DEFINE s == ReleaseClient(reg, c)
  <2>1. id \in FunctionsOf(reg, c)
    BY <1>3, <1>7 DEF dead_function_owner, FunctionsOf
  <2>2. RegOK(s) /\ ArenasIn(s) = arenas \ ArenasOf(reg, c)
        /\ s.next_client = reg.next_client /\ m.name \notin DOMAIN s.fn_by_name
    BY <1>2, <1>3, <1>7, <2>1, ReleaseClientOK
  <2> HIDE DEF s
  <2>3. CreateFunction(m, s, ArenasIn(s), Without(reply_rings, {c}))
    BY <1>7, <2>2 DEF s
  <2> QED BY <1>1, <1>2, <2>2, <2>3, CreateFunctionOK
<1>8. CASE Reply(reply_rings, m.client, Refusal(m, "ERR_EXISTS")) /\ UNCHANGED broker
  <2>1. Refusal(m, "ERR_EXISTS") \in AnswerType /\ Refusal(m, "ERR_EXISTS").proc = m.proc
        /\ Refusal(m, "ERR_EXISTS").kind = m.kind
    BY <1>1, RefusalOK DEF Statuses
  <2>2. reg' = reg /\ arenas' = arenas /\ reply_rings' = reply_rings
    BY <1>8 DEF broker
  <2> QED BY <1>2, <1>8, <2>1, <2>2 DEF BrokerStep, Answered
<1> QED BY <1>5, <1>7, <1>8 DEF on_expose

(* on_unpublish keeps the invariant: refused, reclaimed now or deferred. *)
LEMMA UnpublishOK == ASSUME BrokerInv, on_unpublish PROVE BrokerInv'
<1> DEFINE m == Head(submission)
<1> DEFINE id == reg.chan_by_name[m.name]
<1>1. m.kind = "Unpublish" /\ submission # << >> /\ Took
      /\ reply_rings' = reply_rings /\ replies' = replies
  BY DEF on_unpublish, Handling
<1>2. RegOK(reg) /\ arenas = ArenasIn(reg) /\ Shrinks(reply_rings)
  BY InvRegOK
<1>3. SUFFICES BrokerStep
  BY <1>1, HandledOK DEF Answered
<1>4. CASE UNCHANGED <<reg, arenas>>
  BY <1>1, <1>2, <1>4 DEF BrokerStep
<1>5. CASE MayRelease(reg, m.name, m.client) /\ reg' = drop_channels(reg, {id})
           /\ arenas' = arenas \ {reg.channels[id].arena}
  <2>1. id \in DOMAIN reg.channels
    BY <1>5 DEF MayRelease
  <2> QED BY <1>1, <1>2, <1>5, <2>1, DropOneOK DEF BrokerStep
<1>6. CASE MayRelease(reg, m.name, m.client) /\ reg' = defer_release(reg, id) /\ UNCHANGED arenas
  <2>1. id \in DOMAIN reg.channels
    BY <1>6 DEF MayRelease
  <2> QED BY <1>1, <1>2, <1>6, <2>1, MarkReleasedOK DEF BrokerStep, defer_release
<1> QED BY <1>4, <1>5, <1>6 DEF on_unpublish

(* on_unregister releases the client. *)
LEMMA UnregisterOK == ASSUME BrokerInv, on_unregister PROVE BrokerInv'
<1> DEFINE c == Head(submission).client
<1>1. /\ Head(submission).kind = "Unregister" /\ submission # << >> /\ Took
      /\ reply_rings' = Without(reply_rings, {c}) /\ replies' = replies
      /\ reg' = ReleaseClient(reg, c) /\ arenas' = arenas \ ArenasOf(reg, c)
  BY DEF on_unregister, Handling
<1>2. RegOK(reg) /\ arenas = ArenasIn(reg) /\ Shrinks(Without(reply_rings, {c}))
  BY InvRegOK
<1>3. BrokerStep
  BY <1>1, <1>2, ReleaseClientOK DEF BrokerStep
<1> QED BY <1>1, <1>3, HandledOK DEF Answered

(* The answer to a ListChannels is well formed. *)
LEMMA ListAnswerOK ==
    ASSUME NEW m \in RequestType, NEW ids \in SUBSET Nat
    PROVE  /\ Answer(m, "OK", 0, None, ids) \in AnswerType
           /\ Answer(m, "OK", 0, None, ids).proc = m.proc
           /\ Answer(m, "OK", 0, None, ids).kind = m.kind
<1>1. "OK" \in Statuses /\ 0 \in Nat /\ None \in ArenaType \cup {None}
  BY DEF Statuses
<1> QED BY <1>1, AnswerOK

(* The handlers that only look something up. *)
LEMMA ListOK == ASSUME BrokerInv, on_list PROVE BrokerInv'
<1> DEFINE m == Head(submission)
<1>1. m \in RequestType /\ m.kind = "ListChannels" /\ submission # << >> /\ Took
      /\ reg' = reg /\ arenas' = arenas /\ reply_rings' = reply_rings
      /\ Reply(reply_rings, m.client, Answer(m, "OK", 0, None, DOMAIN reg.channels))
  BY HeadOK DEF on_list, Handling, broker
<1>2. RegOK(reg) /\ arenas = ArenasIn(reg) /\ Shrinks(reply_rings)
  BY InvRegOK
<1>3. PICK ids \in SUBSET Nat : ids = DOMAIN reg.channels
  BY <1>2 DEF RegOK, RegistryType, MapsTo
<1> DEFINE a == Answer(m, "OK", 0, None, ids)
<1>4. a \in AnswerType /\ a.proc = m.proc /\ a.kind = m.kind
  <2>1. m \in RequestType /\ ids \in SUBSET Nat
    BY <1>1, <1>3
  <2> HIDE DEF m
  <2> QED BY <2>1, ListAnswerOK
<1>5. BrokerStep /\ Answered(m)
  BY <1>1, <1>2, <1>3, <1>4 DEF BrokerStep, Answered
<1> QED BY <1>1, <1>5, HandledOK

(* on_subscribe marks an existing channel or changes nothing. *)
LEMMA SubscribeOK == ASSUME BrokerInv, on_subscribe PROVE BrokerInv'
<1> DEFINE m == Head(submission)
<1> DEFINE status == resolve_subscribe(reg, m.chan, m.key, m.schema)
<1>1. m \in RequestType /\ m.kind = "Subscribe" /\ submission # << >> /\ Took
      /\ arenas' = arenas /\ reply_rings' = reply_rings
  BY HeadOK DEF on_subscribe, Handling
<1>2. RegOK(reg) /\ arenas = ArenasIn(reg) /\ Shrinks(reply_rings)
  BY InvRegOK
<1>3. status \in Statuses /\ (status = "OK" => m.chan \in DOMAIN reg.channels)
  BY DEF resolve_subscribe, Statuses
<1>4. SUFFICES BrokerStep /\ Answered(m)
  BY <1>1, HandledOK
<1>5. CASE status = "OK"
  <2> DEFINE a == Answer(m, "OK", m.chan, reg.channels[m.chan].arena, {})
  <2>1. reg' = mark_subscribed(reg, m.chan) /\ Reply(reply_rings, m.client, a)
    BY <1>5 DEF on_subscribe
  <2>2. m.chan \in Nat /\ reg.channels[m.chan].arena \in ArenaType
    BY <1>1, <1>2, <1>3, <1>5 DEF RequestType, RegOK, RegistryType, MapsTo, EntryType
  <2>3. a \in AnswerType /\ a.proc = m.proc /\ a.kind = m.kind
    BY <1>1, <2>2, AnswerOK DEF Statuses
  <2>4. BrokerStep
    BY <1>1, <1>2, <1>3, <1>5, <2>1, MarkSubscribedOK DEF BrokerStep
  <2>5. Answered(m)
    BY <1>1, <2>1, <2>3 DEF Answered
  <2> QED BY <2>4, <2>5
<1>6. CASE status # "OK"
  <2>1. reg' = reg /\ Reply(reply_rings, m.client, Refusal(m, status))
    BY <1>6 DEF on_subscribe
  <2>2. Refusal(m, status) \in AnswerType /\ Refusal(m, status).proc = m.proc
        /\ Refusal(m, status).kind = m.kind
    BY <1>1, <1>3, RefusalOK
  <2> HIDE DEF status
  <2> QED BY <1>1, <1>2, <2>1, <2>2 DEF BrokerStep, Answered
<1> QED BY <1>5, <1>6

(* on_lookup changes nothing but the caller's reply ring. *)
LEMMA LookupOK == ASSUME BrokerInv, on_lookup PROVE BrokerInv'
<1> DEFINE m == Head(submission)
<1> DEFINE status == resolve_lookup(reg, m.name, m.key)
<1> DEFINE f == reg.functions[reg.fn_by_name[m.name]]
<1>1. m \in RequestType /\ m.kind = "LookupFunction" /\ submission # << >> /\ Took
      /\ reg' = reg /\ arenas' = arenas /\ reply_rings' = reply_rings
  BY HeadOK DEF on_lookup, Handling, broker
<1>2. RegOK(reg) /\ arenas = ArenasIn(reg) /\ Shrinks(reply_rings)
  BY InvRegOK
<1>3. status \in Statuses /\ (status = "OK" => m.name \in DOMAIN reg.fn_by_name)
  BY DEF resolve_lookup, Statuses
<1>4. BrokerStep
  BY <1>1, <1>2 DEF BrokerStep
<1>5. SUFFICES Answered(m)
  BY <1>1, <1>4, HandledOK
<1>6. CASE status = "OK"
  <2> DEFINE a == Answer(m, "OK", f.id, f.arena, {})
  <2>1. Reply(reply_rings, m.client, a)
    BY <1>6 DEF on_lookup
  <2>2. f \in EntryType
    BY <1>2, <1>3, <1>6 DEF RegOK, RegistryType, MapsTo, Consistent, Indexed
  <2>3. f.id \in Nat /\ f.arena \in ArenaType
    BY <2>2 DEF EntryType
  <2>4. a \in AnswerType /\ a.proc = m.proc /\ a.kind = m.kind
    <3>1. m \in RequestType /\ f.id \in Nat /\ f.arena \in ArenaType \cup {None}
          /\ "OK" \in Statuses /\ {} \in SUBSET Nat
      BY <1>1, <2>3 DEF Statuses
    <3> HIDE DEF m, f
    <3> QED BY <3>1, AnswerOK
  <2> QED BY <1>1, <2>1, <2>4 DEF Answered
<1>7. CASE status # "OK"
  <2>1. Reply(reply_rings, m.client, Refusal(m, status))
    BY <1>7 DEF on_lookup
  <2>2. Refusal(m, status) \in AnswerType /\ Refusal(m, status).proc = m.proc
        /\ Refusal(m, status).kind = m.kind
    BY <1>1, <1>3, RefusalOK
  <2> HIDE DEF status
  <2> QED BY <1>1, <2>1, <2>2 DEF Answered
<1> QED BY <1>6, <1>7

(* on_register: the new id is larger than every id in use, so nobody's     *)
(* requests are answered to the newcomer.                                  *)
LEMMA RegisterOK == ASSUME BrokerInv, on_register PROVE BrokerInv'
<1> DEFINE m == Head(submission)
<1>0. PICK c : c = reg.next_client
  OBVIOUS
<1>1. /\ m \in RequestType /\ m.kind = "Register" /\ submission # << >> /\ Took
      /\ submission' \in Seq(RequestType)
      /\ \A i \in 1..Len(submission') : Routed(submission'[i].client, submission'[i].proc)
  BY HeadOK DEF on_register, Handling, Took
<1>2. RegOK(reg) /\ arenas = ArenasIn(reg)
  BY InvRegOK
<1>3. CASE UNCHANGED <<broker, replies>>
  <2>1. reg' = reg /\ arenas' = arenas /\ reply_rings' = reply_rings /\ replies' = replies
    BY <1>3 DEF broker
  <2>2. TypeOK'
    BY <1>1, <2>1 DEF BrokerInv, TypeOK, Took, proc, handles
  <2>3. Routing'
    BY <1>1, <2>1 DEF BrokerInv, Routing, Routed, Took, proc
  <2> QED BY <2>1, <2>2, <2>3
          DEF BrokerInv, IndexesAgree, ArenasAccounted, AnswersReachTheirCaller
<1>4. CASE /\ reg' = add_client(reg, IF m.proc \in Legacy THEN None ELSE m.proc)
           /\ reply_rings' = Put(reply_rings, c, m.proc)
           /\ Reply(reply_rings', c, Answer(m, "OK", c, None, {}))
           /\ UNCHANGED arenas
  <2> DEFINE a == Answer(m, "OK", c, None, {})
  <2>1. m.proc \in Procs /\ c \in Nat \ {0}
    BY <1>0, <1>1, <1>2 DEF RequestType, RegOK, RegistryType
  <2>2. RegOK(reg') /\ arenas' = ArenasIn(reg') /\ reg'.next_client = c + 1
    BY <1>0, <1>2, <1>4, <2>1, AddClientOK
  <2>3. a \in AnswerType /\ a.proc = m.proc /\ a.id = c
    BY <1>1, <2>1, RegisterAnswerOK
  <2>4. /\ DOMAIN reply_rings' = DOMAIN reply_rings \cup {c}
        /\ reply_rings'[c] = m.proc
        /\ \A d \in DOMAIN reply_rings : d # c => reply_rings'[d] = reply_rings[d]
    BY <1>4 DEF Put
  <2> HIDE DEF a, m
  <2>5. /\ replies' \in [Procs -> Seq(AnswerType)]
        /\ AnswersReachTheirCaller'
        /\ \A p \in Procs : \A i \in 1..Len(replies'[p]) :
              \/ i \in 1..Len(replies[p]) /\ replies'[p][i] = replies[p][i]
              \/ p = a.proc /\ replies'[p][i] = a
    BY <1>4, <2>3, <2>4, ReplyOK DEF a
  <2>6. \A d \in Nat : \A p : Routed(d, p) => RoutedNext(d, p)
    BY <1>0, <2>1, <2>2, <2>4 DEF Routed, RoutedNext
  <2>7. RoutedNext(c, m.proc)
    BY <2>1, <2>2, <2>4 DEF RoutedNext
  <2>8. TypeOK'
    <3>1. MapsTo(reply_rings', 1..(reg'.next_client - 1), Procs)
      BY <1>0, <2>1, <2>2, <2>4 DEF BrokerInv, TypeOK, MapsTo
    <3>2. RegistryType(reg') /\ arenas' \subseteq ArenaType
      BY <1>4, <2>2 DEF RegOK, BrokerInv, TypeOK
    <3> QED BY <1>1, <2>5, <3>1, <3>2 DEF BrokerInv, TypeOK, Took, proc, handles
  <2>9. Routing'
    <3>1. \A i \in 1..Len(submission') : RoutedNext(submission'[i].client, submission'[i].proc)
      <4>1. \A i \in 1..Len(submission') : submission'[i].client \in Nat
        BY <1>1 DEF RequestType
      <4> QED BY <1>1, <2>6, <4>1
    <3>2. \A p \in Procs : RoutedNext(client_id'[p], p)
      <4>1. \A p \in Procs : Routed(client_id[p], p) /\ client_id[p] \in Nat
        BY DEF BrokerInv, Routing, TypeOK
      <4>2. client_id' = client_id
        BY <1>1 DEF Took, proc
      <4> QED BY <2>6, <4>1, <4>2
    <3>3. ASSUME NEW p \in Procs, NEW i \in 1..Len(replies'[p]), replies'[p][i].kind = "Register"
          PROVE  RoutedNext(replies'[p][i].id, p)
      <4>1. CASE i \in 1..Len(replies[p]) /\ replies'[p][i] = replies[p][i]
        <5>1. Routed(replies[p][i].id, p) /\ replies[p][i].id \in Nat
          <6>1. replies[p] \in Seq(AnswerType)
            BY DEF BrokerInv, TypeOK
          <6>2. replies[p][i] \in AnswerType
            BY <4>1, <6>1
          <6>3. replies[p][i].id \in Nat
            BY <6>2 DEF AnswerType
          <6> QED BY <3>3, <4>1, <6>3 DEF BrokerInv, Routing
        <5> QED BY <2>6, <4>1, <5>1
      <4>2. CASE p = a.proc /\ replies'[p][i] = a
        BY <2>3, <2>7, <4>2
      <4> QED BY <2>5, <4>1, <4>2
    <3> QED BY <3>1, <3>2, <3>3 DEF Routing, Routed, RoutedNext
  <2> QED BY <2>2, <2>5, <2>8, <2>9 DEF BrokerInv, RegOK, IndexesAgree, ArenasAccounted
<1> QED BY <1>0, <1>3, <1>4 DEF on_register, NextClientId

(* A step that touches only the registry and the arenas. *)
LEMMA UnchangedOutsideOK ==
    ASSUME BrokerInv, RegOK(reg'), arenas' = ArenasIn(reg'), reg'.next_client = reg.next_client,
           UNCHANGED <<reply_rings, submission, replies, alive, conn, client_id, calls,
                       listed, published, exposed, reading, sent, faults>>
    PROVE  BrokerInv'
<1>1. TypeOK'
  <2>1. RegistryType(reg')
    BY DEF RegOK
  <2>2. arenas' \subseteq ArenaType
    BY DEF RegOK, RegistryType, MapsTo, ArenasIn, EntryType
  <2> QED BY <2>1, <2>2 DEF BrokerInv, TypeOK
<1>2. Routing'
  BY DEF BrokerInv, Routing, Routed
<1> QED BY <1>1, <1>2 DEF BrokerInv, RegOK, IndexesAgree, ArenasAccounted, AnswersReachTheirCaller

(* The sweep reclaims the arenas of the channels it drops, and the grace   *)
(* marks name existing channels.                                           *)
LEMMA SweepOK == ASSUME BrokerInv, Sweep PROVE BrokerInv'
<1>1. RegOK(reg) /\ arenas = ArenasIn(reg)
  BY InvRegOK
<1>2. Due(reg) \cap DOMAIN reg.channels = Due(reg)
  BY <1>1 DEF RegOK, Consistent, Due
<1>3. RegOK(reg') /\ arenas' = ArenasIn(reg') /\ reg'.next_client = reg.next_client
  BY <1>1, <1>2, DropChannelsOK DEF Sweep, reap_released
<1> QED BY <1>3, UnchangedOutsideOK DEF Sweep, proc, handles

(* The passing of a grace re-marks an existing release. *)
LEMMA GraceOK ==
    ASSUME BrokerInv, NEW id \in DOMAIN reg.released, GraceElapses(id) PROVE BrokerInv'
<1>1. RegOK(reg) /\ arenas = ArenasIn(reg)
  BY InvRegOK
<1>2. id \in DOMAIN reg.channels
  BY <1>1 DEF RegOK, Consistent
<1>3. RegOK(reg') /\ arenas' = ArenasIn(reg') /\ reg'.next_client = reg.next_client
  BY <1>1, <1>2, MarkReleasedOK DEF GraceElapses
<1> QED BY <1>3, UnchangedOutsideOK DEF GraceElapses, proc, handles

(***************************************************************************)
(* Steps of processes.                                                     *)
(***************************************************************************)
(* A request is well formed and names its sender's client id. *)
LEMMA RequestOK ==
    ASSUME BrokerInv, NEW p \in Procs, NEW kind \in RequestKinds, NEW name \in Names \cup {None},
           NEW key \in Keys \cup {None}, NEW schema \in Schemas \cup {BadSchema, None}, NEW chan \in Nat,
           kind \in {"PublishChannel", "ExposeFunction"} =>
               name \in Names /\ schema \in Schemas \cup {BadSchema}
    PROVE  /\ Request(kind, p, name, key, schema, chan) \in RequestType
           /\ Routed(Request(kind, p, name, key, schema, chan).client,
                     Request(kind, p, name, key, schema, chan).proc)
<1>1. client_id[p] \in Nat /\ sent \in Nat /\ Routed(client_id[p], p)
  BY DEF BrokerInv, TypeOK, Routing
<1> QED BY <1>1 DEF Request, RequestType

(* Queueing such a request keeps the ring well formed. *)
LEMMA SubmitOK ==
    ASSUME BrokerInv, NEW m \in RequestType, Routed(m.client, m.proc), Submit(m),
           UNCHANGED <<reg, reply_rings>>
    PROVE  /\ submission' \in Seq(RequestType) /\ sent' \in Nat
           /\ \A i \in 1..Len(submission') : RoutedNext(submission'[i].client, submission'[i].proc)
<1>1. PICK s \in Seq(RequestType) : s = submission
  BY DEF BrokerInv, TypeOK
<1>2. /\ Append(s, m) \in Seq(RequestType)
      /\ \A i \in 1..Len(Append(s, m)) :
            (i \in 1..Len(s) /\ Append(s, m)[i] = s[i]) \/ Append(s, m)[i] = m
  BY <1>1
<1>3. \A i \in 1..Len(s) : Routed(s[i].client, s[i].proc)
  BY <1>1 DEF BrokerInv, Routing
<1>4. submission' = Append(s, m) /\ sent' \in Nat
  BY <1>1 DEF Submit, BrokerInv, TypeOK
<1>5. \A i \in 1..Len(submission') : Routed(submission'[i].client, submission'[i].proc)
  BY <1>2, <1>3, <1>4
<1>6. \A c, q : Routed(c, q) => RoutedNext(c, q)
  BY DEF Routed, RoutedNext
<1> QED BY <1>2, <1>4, <1>5, <1>6

(* The parts of the invariant that steps of processes leave alone. *)
LEMMA ProcessStepOK ==
    ASSUME BrokerInv, UNCHANGED broker,
           TypeOK',
           \A i \in 1..Len(submission') : RoutedNext(submission'[i].client, submission'[i].proc),
           \A p \in Procs : RoutedNext(client_id'[p], p),
           \A p \in Procs : \A i \in 1..Len(replies'[p]) :
               /\ replies'[p][i].proc = p
               /\ replies'[p][i].kind = "Register" => RoutedNext(replies'[p][i].id, p)
    PROVE  BrokerInv'
<1>1. reg' = reg /\ arenas' = arenas
  BY DEF broker
<1>2. Routing'
  BY DEF Routing, Routed, RoutedNext
<1> QED BY <1>1, <1>2 DEF BrokerInv, IndexesAgree, ArenasAccounted, AnswersReachTheirCaller

(* What such a step inherits. *)
LEMMA Inherited ==
    ASSUME BrokerInv, UNCHANGED broker
    PROVE  /\ reg' = reg /\ arenas' = arenas /\ reply_rings' = reply_rings
           /\ \A c, q : Routed(c, q) => RoutedNext(c, q)
           /\ \A i \in 1..Len(submission) : RoutedNext(submission[i].client, submission[i].proc)
           /\ \A p \in Procs : RoutedNext(client_id[p], p)
           /\ \A p \in Procs : \A i \in 1..Len(replies[p]) :
                 /\ replies[p][i].proc = p
                 /\ replies[p][i].kind = "Register" => RoutedNext(replies[p][i].id, p)
<1>1. reg' = reg /\ arenas' = arenas /\ reply_rings' = reply_rings
  BY DEF broker
<1>2. \A c, q : Routed(c, q) => RoutedNext(c, q)
  BY <1>1 DEF Routed, RoutedNext
<1> QED BY <1>1, <1>2 DEF BrokerInv, Routing, AnswersReachTheirCaller

(* call_control, for any well-formed request. *)
LEMMA CallOK ==
    ASSUME BrokerInv, NEW p \in Procs, NEW m \in RequestType, Routed(m.client, m.proc), Call(p, m)
    PROVE  BrokerInv'
<1>1. /\ UNCHANGED broker /\ Submit(m)
      /\ UNCHANGED <<replies, alive, conn, client_id, listed, published, exposed, reading, faults>>
      /\ calls' = [calls EXCEPT ![p] = @ \cup {m}]
  BY DEF Call, handles
<1>2. /\ submission' \in Seq(RequestType) /\ sent' \in Nat
      /\ \A i \in 1..Len(submission') : RoutedNext(submission'[i].client, submission'[i].proc)
  BY <1>1, SubmitOK DEF broker
<1>3. calls' \in [Procs -> SUBSET RequestType]
  BY <1>1 DEF BrokerInv, TypeOK
<1>4. TypeOK'
  BY <1>1, <1>2, <1>3, Inherited DEF BrokerInv, TypeOK
<1> QED BY <1>1, <1>2, <1>4, Inherited, ProcessStepOK

(* The requests a process may call with keep the invariant. *)
LEMMA RequestsOK ==
    ASSUME BrokerInv, NEW p \in Procs,
           Publish(p) \/ ListChannels(p) \/ Subscribe(p) \/ Expose(p) \/ Lookup(p)
    PROVE  BrokerInv'
<1>1. ASSUME Publish(p) PROVE BrokerInv'
  <2>1. PICK n \in Names, k \in Keys \cup {None}, s \in Schemas \cup {BadSchema} :
           Call(p, Request("PublishChannel", p, n, k, s, 0))
    BY <1>1 DEF Publish
  <2> DEFINE m == Request("PublishChannel", p, n, k, s, 0)
  <2>2. m \in RequestType /\ Routed(m.client, m.proc)
    BY RequestOK DEF RequestKinds
  <2> HIDE DEF m
  <2>3. Call(p, m)
    BY <2>1 DEF m
  <2> QED BY <2>2, <2>3, CallOK
<1>2. ASSUME ListChannels(p) PROVE BrokerInv'
  <2> DEFINE m == Request("ListChannels", p, None, None, None, 0)
  <2>2. m \in RequestType /\ Routed(m.client, m.proc)
    BY RequestOK DEF RequestKinds
  <2> HIDE DEF m
  <2>3. Call(p, m)
    BY <1>2 DEF m, ListChannels
  <2> QED BY <2>2, <2>3, CallOK
<1>3. ASSUME Subscribe(p) PROVE BrokerInv'
  <2>1. PICK id \in listed[p], k \in Keys \cup {None}, s \in Schemas \cup {None} :
           Call(p, Request("Subscribe", p, None, k, s, id))
    BY <1>3 DEF Subscribe
  <2> DEFINE m == Request("Subscribe", p, None, k, s, id)
  <2>2. id \in Nat
    BY <2>1 DEF BrokerInv, TypeOK
  <2>3. m \in RequestType /\ Routed(m.client, m.proc)
    BY <2>2, RequestOK DEF RequestKinds
  <2> HIDE DEF m
  <2>4. Call(p, m)
    BY <2>1 DEF m
  <2> QED BY <2>3, <2>4, CallOK
<1>4. ASSUME Expose(p) PROVE BrokerInv'
  <2>1. PICK n \in Names, k \in Keys \cup {None}, s \in Schemas \cup {BadSchema} :
           Call(p, Request("ExposeFunction", p, n, k, s, 0))
    BY <1>4 DEF Expose
  <2> DEFINE m == Request("ExposeFunction", p, n, k, s, 0)
  <2>2. m \in RequestType /\ Routed(m.client, m.proc)
    BY RequestOK DEF RequestKinds
  <2> HIDE DEF m
  <2>3. Call(p, m)
    BY <2>1 DEF m
  <2> QED BY <2>2, <2>3, CallOK
<1>5. ASSUME Lookup(p) PROVE BrokerInv'
  <2>1. PICK n \in Names, k \in Keys \cup {None} :
           Call(p, Request("LookupFunction", p, n, k, None, 0))
    BY <1>5 DEF Lookup
  <2> DEFINE m == Request("LookupFunction", p, n, k, None, 0)
  <2>2. m \in RequestType /\ Routed(m.client, m.proc)
    BY RequestOK DEF RequestKinds
  <2> HIDE DEF m
  <2>3. Call(p, m)
    BY <2>1 DEF m
  <2> QED BY <2>2, <2>3, CallOK
<1> QED BY <1>1, <1>2, <1>3, <1>4, <1>5

(* Connect sends a Register under the id 0, which has no reply ring. *)
LEMMA ConnectOK == ASSUME BrokerInv, NEW p \in Procs, Connect(p) PROVE BrokerInv'
<1> DEFINE m == Request("Register", p, None, None, None, 0)
<1>1. m \in RequestType /\ Routed(m.client, m.proc)
  BY RequestOK DEF RequestKinds
<1>2. /\ UNCHANGED broker /\ Submit(m)
      /\ UNCHANGED <<replies, alive, client_id, listed, published, exposed, reading, faults>>
      /\ calls' = [calls EXCEPT ![p] = {m}]
      /\ conn' = [conn EXCEPT ![p] = "registering"]
  BY DEF Connect, handles
<1> HIDE DEF m
<1>3. /\ submission' \in Seq(RequestType) /\ sent' \in Nat
      /\ \A i \in 1..Len(submission') : RoutedNext(submission'[i].client, submission'[i].proc)
  BY <1>1, <1>2, SubmitOK DEF broker
<1>4. calls' \in [Procs -> SUBSET RequestType]
      /\ conn' \in [Procs -> {"new", "registering", "up", "left"}]
  BY <1>1, <1>2 DEF BrokerInv, TypeOK
<1>5. TypeOK'
  BY <1>2, <1>3, <1>4, Inherited DEF BrokerInv, TypeOK
<1> QED BY <1>2, <1>3, <1>5, Inherited, ProcessStepOK

(* A fire-and-forget send, delivered or lost. *)
LEMMA FireAndForgetOK ==
    ASSUME BrokerInv, UNCHANGED broker, NEW m \in RequestType, Routed(m.client, m.proc), FireAndForget(m)
    PROVE  /\ submission' \in Seq(RequestType) /\ sent' \in Nat /\ faults' \in Nat
           /\ \A i \in 1..Len(submission') : RoutedNext(submission'[i].client, submission'[i].proc)
<1>1. submission \in Seq(RequestType) /\ sent \in Nat /\ faults \in Nat
  BY DEF BrokerInv, TypeOK
<1>2. CASE Submit(m) /\ UNCHANGED faults
  BY <1>1, <1>2, SubmitOK DEF broker
<1>3. CASE Fault /\ UNCHANGED <<submission, sent>>
  BY <1>1, <1>3, Inherited DEF Fault
<1> QED BY <1>2, <1>3 DEF FireAndForget

(* Publisher's Drop sends under the process's own id. *)
LEMMA DropPublisherOK == ASSUME BrokerInv, NEW p \in Procs, DropPublisher(p) PROVE BrokerInv'
<1>1. PICK h \in published[p] :
         /\ published' = [published EXCEPT ![p] = @ \ {h}]
         /\ FireAndForget(Request("Unpublish", p, h.name, None, None, 0))
  BY DEF DropPublisher
<1> DEFINE m == Request("Unpublish", p, h.name, None, None, 0)
<1>2. h.name \in Names
  BY <1>1 DEF BrokerInv, TypeOK, HandleType
<1>3. m \in RequestType /\ Routed(m.client, m.proc)
  BY <1>2, RequestOK DEF RequestKinds
<1> HIDE DEF m
<1>4. UNCHANGED broker /\ FireAndForget(m)
      /\ UNCHANGED <<replies, alive, conn, client_id, calls, listed, exposed, reading>>
  BY <1>1 DEF DropPublisher, m
<1>5. /\ submission' \in Seq(RequestType) /\ sent' \in Nat /\ faults' \in Nat
      /\ \A i \in 1..Len(submission') : RoutedNext(submission'[i].client, submission'[i].proc)
  BY <1>3, <1>4, FireAndForgetOK
<1>6. published' \in [Procs -> SUBSET HandleType]
  BY <1>1 DEF BrokerInv, TypeOK
<1>7. TypeOK'
  BY <1>4, <1>5, <1>6, Inherited DEF BrokerInv, TypeOK
<1> QED BY <1>4, <1>5, <1>7, Inherited, ProcessStepOK

(* Connection's Drop, likewise. *)
LEMMA DisconnectOK == ASSUME BrokerInv, NEW p \in Procs, Disconnect(p) PROVE BrokerInv'
<1> DEFINE m == Request("Unregister", p, None, None, None, 0)
<1>1. m \in RequestType /\ Routed(m.client, m.proc)
  BY RequestOK DEF RequestKinds
<1>2. /\ UNCHANGED broker /\ FireAndForget(m)
      /\ UNCHANGED <<replies, alive, client_id, calls, listed, published, exposed, reading>>
      /\ conn' = [conn EXCEPT ![p] = "left"]
  BY DEF Disconnect, handles
<1> HIDE DEF m
<1>3. /\ submission' \in Seq(RequestType) /\ sent' \in Nat /\ faults' \in Nat
      /\ \A i \in 1..Len(submission') : RoutedNext(submission'[i].client, submission'[i].proc)
  BY <1>1, <1>2, FireAndForgetOK
<1>4. conn' \in [Procs -> {"new", "registering", "up", "left"}]
  BY <1>2 DEF BrokerInv, TypeOK
<1>5. TypeOK'
  BY <1>2, <1>3, <1>4, Inherited DEF BrokerInv, TypeOK
<1> QED BY <1>2, <1>3, <1>5, Inherited, ProcessStepOK

(* A timeout gives up a slot and sends nothing. *)
LEMMA CallTimeoutOK == ASSUME BrokerInv, NEW p \in Procs, CallTimeout(p) PROVE BrokerInv'
<1>1. /\ UNCHANGED broker
      /\ UNCHANGED <<submission, replies, alive, client_id, listed, published, exposed, reading, sent>>
      /\ faults' = faults + 1
      /\ \E m \in calls[p] :
            /\ calls' = [calls EXCEPT ![p] = @ \ {m}]
            /\ conn' = [conn EXCEPT ![p] = IF m.kind = "Register" THEN "left" ELSE @]
  BY DEF CallTimeout, Fault, handles
<1>2. calls' \in [Procs -> SUBSET RequestType]
      /\ conn' \in [Procs -> {"new", "registering", "up", "left"}]
  BY <1>1 DEF BrokerInv, TypeOK
<1>3. TypeOK'
  BY <1>1, <1>2, Inherited DEF BrokerInv, TypeOK
<1> QED BY <1>1, <1>3, Inherited, ProcessStepOK

(* A kill leaves rings, registry and arenas as they are. *)
LEMMA KillOK == ASSUME BrokerInv, NEW p \in Procs, Kill(p) PROVE BrokerInv'
<1>1. UNCHANGED broker /\ UNCHANGED <<submission, replies, client_id>>
  BY DEF Kill
<1>2. TypeOK'
  BY <1>1, Inherited DEF Kill, Fault, BrokerInv, TypeOK
<1> QED BY <1>1, <1>2, Inherited, ProcessStepOK

(* The dispatcher: a Register's answer carries an id routed to its process *)
(* and nothing else changes the process's id.                              *)
LEMMA DispatchOK == ASSUME BrokerInv, NEW p \in Procs, Dispatch(p) PROVE BrokerInv'
<1>1. /\ UNCHANGED broker /\ UNCHANGED <<submission, alive, sent, faults>>
      /\ replies[p] # << >>
      /\ replies' = [replies EXCEPT ![p] = Tail(@)]
  BY DEF Dispatch
<1>2. PICK s \in Seq(AnswerType) : s = replies[p]
  BY DEF BrokerInv, TypeOK
<1>3. /\ Head(s) = s[1] /\ 1 \in 1..Len(s) /\ Head(s) \in AnswerType
      /\ Tail(s) \in Seq(AnswerType)
      /\ \A i \in 1..Len(Tail(s)) : i + 1 \in 1..Len(s) /\ Tail(s)[i] = s[i + 1]
  BY <1>1, <1>2
<1>4. replies'[p] = Tail(s) /\ \A q \in Procs : q # p => replies'[q] = replies[q]
  BY <1>1, <1>2 DEF BrokerInv, TypeOK
<1>5. replies' \in [Procs -> Seq(AnswerType)]
  BY <1>1, <1>2, <1>3 DEF BrokerInv, TypeOK
<1>6. \A q \in Procs : \A i \in 1..Len(replies'[q]) :
         /\ replies'[q][i].proc = q
         /\ replies'[q][i].kind = "Register" => RoutedNext(replies'[q][i].id, q)
  BY <1>1, <1>2, <1>3, <1>4, Inherited
<1> DEFINE r == Head(replies[p])
<1>7. r \in AnswerType /\ r.id \in Nat /\ r.ids \in SUBSET Nat
      /\ (r.kind = "Register" => Routed(r.id, p))
  <2>1. r = s[1] /\ r \in AnswerType
    BY <1>2, <1>3
  <2>2. s[1].kind = "Register" => Routed(s[1].id, p)
    BY <1>2, <1>3 DEF BrokerInv, Routing
  <2> QED BY <2>1, <2>2 DEF AnswerType
<1>8. /\ conn' \in [Procs -> {"new", "registering", "up", "left"}]
      /\ client_id' \in [Procs -> Nat]
      /\ calls' \in [Procs -> SUBSET RequestType]
      /\ listed' \in [Procs -> SUBSET Nat] /\ reading' \in [Procs -> SUBSET Nat]
      /\ published' \in [Procs -> SUBSET HandleType] /\ exposed' \in [Procs -> SUBSET HandleType]
      /\ \A q \in Procs : RoutedNext(client_id'[q], q)
  <2> HIDE DEF r
  <2>1. CASE UNCHANGED <<conn, client_id, calls, handles>>
    BY <1>1, <2>1, Inherited DEF BrokerInv, TypeOK, handles
  <2>2. ASSUME NEW m \in calls[p],
               calls' = [calls EXCEPT ![p] = @ \ {m}], AdoptId(p, m, r), AdoptHandles(p, m, r)
        PROVE  <1>8!1 /\ <1>8!2 /\ <1>8!3 /\ <1>8!4 /\ <1>8!5 /\ <1>8!6
    <3>1. m \in RequestType /\ m.chan \in Nat
      BY DEF BrokerInv, TypeOK, RequestType
    <3>2. m.kind \in {"PublishChannel", "ExposeFunction"} => [id |-> r.id, name |-> m.name] \in HandleType
      BY <1>7, <3>1 DEF RequestType, HandleType
    <3>3. calls' \in [Procs -> SUBSET RequestType]
      BY <2>2 DEF BrokerInv, TypeOK
    <3>4. /\ conn' \in [Procs -> {"new", "registering", "up", "left"}]
          /\ client_id' \in [Procs -> Nat]
          /\ \A q \in Procs : RoutedNext(client_id'[q], q)
      <4>1. /\ conn \in [Procs -> {"new", "registering", "up", "left"}]
            /\ client_id \in [Procs -> Nat]
            /\ \A q \in Procs : RoutedNext(client_id[q], q)
        BY <1>1, Inherited DEF BrokerInv, TypeOK
      <4>2. r.kind = "Register" => RoutedNext(r.id, p)
        BY <1>1, <1>7, Inherited
      <4>3. CASE UNCHANGED <<conn, client_id>>
        BY <4>1, <4>3
      <4>4. CASE /\ r.kind = "Register"
                 /\ conn' = [conn EXCEPT ![p] = "up"]
                 /\ client_id' = [client_id EXCEPT ![p] = r.id]
        BY <1>7, <4>1, <4>2, <4>4
      <4> QED BY <2>2, <4>3, <4>4 DEF AdoptId, Granted
    <3>5. listed' \in [Procs -> SUBSET Nat]
      BY <1>7, <2>2 DEF AdoptHandles, BrokerInv, TypeOK
    <3>6. reading' \in [Procs -> SUBSET Nat]
      BY <2>2, <3>1 DEF AdoptHandles, BrokerInv, TypeOK
    <3>7. published' \in [Procs -> SUBSET HandleType]
      BY <2>2, <3>2 DEF AdoptHandles, BrokerInv, TypeOK
    <3>8. exposed' \in [Procs -> SUBSET HandleType]
      BY <2>2, <3>2 DEF AdoptHandles, BrokerInv, TypeOK
    <3> QED BY <3>3, <3>4, <3>5, <3>6, <3>7, <3>8
  <2> QED BY <2>1, <2>2 DEF Dispatch, r
<1>9. TypeOK'
  BY <1>1, <1>5, <1>8, Inherited DEF BrokerInv, TypeOK
<1> QED BY <1>1, <1>6, <1>8, <1>9, Inherited, ProcessStepOK

(***************************************************************************)
(* Theorems.                                                               *)
(***************************************************************************)
(* Every behaviour of the broker keeps its inductive invariant. *)
THEOREM BrokerInvariant == Spec => []BrokerInv
<1>1. Init => BrokerInv
  <2> SUFFICES ASSUME Init PROVE BrokerInv
    OBVIOUS
  <2>1. RegOK(reg) /\ arenas = ArenasIn(reg) /\ reg.next_client = 1 /\ reply_rings = EmptyMap
    BY NewRegistryOK DEF Init
  <2>2. TypeOK
    BY <2>1 DEF Init, TypeOK, RegOK, MapsTo, EmptyMap
  <2>3. Routing /\ AnswersReachTheirCaller
    BY <2>1 DEF Init, Routing, Routed, AnswersReachTheirCaller, EmptyMap
  <2> QED BY <2>1, <2>2, <2>3 DEF BrokerInv, RegOK, IndexesAgree, ArenasAccounted
<1>2. BrokerInv /\ [Next]_vars => BrokerInv'
  <2> SUFFICES ASSUME BrokerInv, [Next]_vars PROVE BrokerInv'
    OBVIOUS
  <2>1. CASE Handle
    BY <2>1, RegisterOK, UnregisterOK, PublishOK, UnpublishOK, ListOK, SubscribeOK, ExposeOK, LookupOK
       DEF Handle
  <2>2. CASE Sweep
    BY <2>2, SweepOK
  <2>3. CASE \E id \in DOMAIN reg.released : GraceElapses(id)
    BY <2>3, GraceOK
  <2>4. ASSUME NEW p \in Procs,
               \/ Connect(p) \/ Publish(p) \/ ListChannels(p) \/ Subscribe(p)
               \/ Expose(p) \/ Lookup(p) \/ DropPublisher(p) \/ Disconnect(p)
               \/ Dispatch(p) \/ CallTimeout(p) \/ Kill(p)
        PROVE  BrokerInv'
    BY <2>4, ConnectOK, RequestsOK, DropPublisherOK, DisconnectOK, DispatchOK, CallTimeoutOK, KillOK
  <2>5. CASE UNCHANGED vars
    BY <2>5, UnchangedOutsideOK, InvRegOK DEF vars, broker, proc, handles
  <2> QED BY <2>1, <2>2, <2>3, <2>4, <2>5 DEF Next
<1> QED BY <1>1, <1>2, PTL DEF Spec

(* Every variable keeps its type and every id in use was allocated. *)
THEOREM BrokerTypeCorrect == Spec => []TypeOK
  BY BrokerInvariant, PTL DEF BrokerInv

(* The registry's maps agree with each other after every handler, sweep    *)
(* and departure.                                                          *)
THEOREM RegistryConsistent == Spec => []IndexesAgree
  BY BrokerInvariant, PTL DEF BrokerInv

(* The broker neither leaks an arena nor unlinks one in use. *)
THEOREM ArenasExact == Spec => []ArenasAccounted
  BY BrokerInvariant, PTL DEF BrokerInv

(* No answer reaches a process that did not ask, however late a request of *)
(* a dead client is handled.                                               *)
THEOREM AnswersRouted == Spec => []AnswersReachTheirCaller
  BY BrokerInvariant, PTL DEF BrokerInv
=============================================================================
