------------------------------ MODULE Registry ------------------------------
(***************************************************************************)
(* The broker's registry (crates/impulsed/src/registry.rs): who is         *)
(* connected, which channels and functions exist, and who may use them.    *)
(* The struct is a record r, a method that takes &mut self is an operator  *)
(* from a record to the next one.  HashMaps are functions on finite sets.  *)
(* Names, keys and schemas are uninterpreted; a schema stands for its      *)
(* fingerprint.  None is the empty string of a field that is absent, the   *)
(* pid 0 of a client that does not report one, the key of a public         *)
(* channel, and the fingerprint 0 of a subscriber without expectations.    *)
(***************************************************************************)
EXTENDS Naturals

CONSTANT None

Put(f, k, v) == [x \in DOMAIN f \cup {k} |-> IF x = k THEN v ELSE f[x]]
Without(f, S) == [x \in DOMAIN f \ S |-> f[x]]
EmptyMap == [x \in {} |-> None]

(* Registry::new.  clients maps a client id to the pid it reported. *)
NewRegistry ==
    [clients |-> EmptyMap,
     channels |-> EmptyMap, chan_by_name |-> EmptyMap,
     functions |-> EmptyMap, fn_by_name |-> EmptyMap,
     subscribed |-> {}, released |-> EmptyMap,
     next_client |-> 1, next_channel |-> 1, next_fn |-> 1]

(* Segment names of util.rs, and its salted hash: injective, not the key.  *)
channel_arena(id) == <<"arena", id>>
function_arena(id) == <<"fn", id>>
key_hash(k) == <<"sha256", k>>

(***************************************************************************)
(* Clients.                                                                *)
(***************************************************************************)
ReusedClientId(r) == CHOOSE i \in 1..r.next_client : i \notin DOMAIN r.clients

NextClientId(r) == r.next_client

add_client(r, pid) ==
    [r EXCEPT !.clients = Put(@, NextClientId(r), pid), !.next_client = @ + 1]

remove_client(r, c) == [r EXCEPT !.clients = Without(@, {c})]

OwnerPid(r, owner) == IF owner \in DOMAIN r.clients THEN r.clients[owner] ELSE None

(* At most one element: the owner of name, if its pid is not live. *)
dead_channel_owner(r, name, live) ==
    {c \in {r.channels[id].owner : id \in {r.chan_by_name[name]} \cap DOMAIN r.channels} :
         OwnerPid(r, c) \notin live}

any_function_owner(r, name, live) ==
    {r.functions[id].owner : id \in {r.fn_by_name[name]} \cap DOMAIN r.functions}

dead_function_owner(r, name, live) ==
    {c \in {r.functions[id].owner : id \in {r.fn_by_name[name]} \cap DOMAIN r.functions} :
         OwnerPid(r, c) \notin live}

(***************************************************************************)
(* Channels.                                                               *)
(***************************************************************************)
alloc_channel_id_stuck(r) == r

alloc_channel_id(r) == [r EXCEPT !.next_channel = @ + 1]

insert_channel(r, c) ==
    [r EXCEPT !.chan_by_name = Put(@, c.name, c.id), !.channels = Put(@, c.id, c)]

drop_channels_keep_release(r, ids) ==
    LET live == ids \cap DOMAIN r.channels
    IN  [r EXCEPT !.channels = Without(@, live),
                  !.chan_by_name = Without(@, {r.channels[id].name : id \in live}),
                  !.subscribed = @ \ live]

(* drop_channel, for every id of a set. *)
drop_channels(r, ids) ==
    LET live == ids \cap DOMAIN r.channels
    IN  [r EXCEPT !.channels = Without(@, live),
                  !.chan_by_name = Without(@, {r.channels[id].name : id \in live}),
                  !.subscribed = @ \ live,
                  !.released = Without(@, live)]

ChannelsOf(r, owner) == {id \in DOMAIN r.channels : r.channels[id].owner = owner}

remove_client_channels(r, owner) == drop_channels(r, ChannelsOf(r, owner))

mark_subscribed(r, id) == [r EXCEPT !.subscribed = @ \cup {id}]

(* The owner test of release_channel: only the owner's release counts. *)
ReleasesAnyones(r, name, owner) == name \in DOMAIN r.chan_by_name

MayRelease(r, name, owner) ==
    /\ name \in DOMAIN r.chan_by_name
    /\ r.chan_by_name[name] \in DOMAIN r.channels
    /\ r.channels[r.chan_by_name[name]].owner = owner

(* Release::Deferred: the moment of release, as far as the grace goes. *)
defer_release(r, id) == [r EXCEPT !.released = Put(@, id, "held")]

DueEarly(r) == DOMAIN r.released

DueUnsubscribed(r) == {id \in DOMAIN r.released \ r.subscribed : r.released[id] = "due"}

Due(r) == {id \in DOMAIN r.released : r.released[id] = "due"}

reap_released(r) == drop_channels(r, Due(r))

Released(r, name) == r.chan_by_name[name] \in DOMAIN r.released

(***************************************************************************)
(* Functions.                                                              *)
(***************************************************************************)
alloc_fn_id(r) == [r EXCEPT !.next_fn = @ + 1]

insert_function(r, f) ==
    [r EXCEPT !.fn_by_name = Put(@, f.name, f.id), !.functions = Put(@, f.id, f)]

FunctionsOf(r, owner) == {id \in DOMAIN r.functions : r.functions[id].owner = owner}

remove_client_functions(r, owner) ==
    LET ids == FunctionsOf(r, owner)
    IN  [r EXCEPT !.functions = Without(@, ids),
                  !.fn_by_name = Without(@, {r.functions[id].name : id \in ids})]

(***************************************************************************)
(* Access.  The status a resolver answers with.                            *)
(***************************************************************************)
check_key(policy, presented) == policy = None \/ key_hash(presented) = policy

check_fp(expected, actual) == expected = None \/ expected = actual

resolve_subscribe(r, id, key, expected) ==
    CASE id \notin DOMAIN r.channels -> "ERR_NOT_FOUND"
      [] id \in DOMAIN r.channels /\ ~ check_key(r.channels[id].key, key) -> "ERR_DENIED"
      [] id \in DOMAIN r.channels /\ check_key(r.channels[id].key, key)
         /\ ~ check_fp(expected, r.channels[id].schema) -> "ERR_SCHEMA_MISMATCH"
      [] OTHER -> "OK"

resolve_lookup(r, name, key) ==
    CASE name \notin DOMAIN r.fn_by_name -> "ERR_NOT_FOUND"
      [] name \in DOMAIN r.fn_by_name /\ ~ check_key(r.functions[r.fn_by_name[name]].key, key) -> "ERR_DENIED"
      [] OTHER -> "OK"
=============================================================================
