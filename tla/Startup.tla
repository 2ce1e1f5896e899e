------------------------------- MODULE Startup -------------------------------
(***************************************************************************)
(* How a broker takes the bus and gives it up: Broker::start and its Drop  *)
(* (crates/impulsed/src/broker.rs, main.rs), the control segment           *)
(* (crates/core/src/control.rs), the names of /dev/shm                     *)
(* (crates/core/src/shm.rs), and a connector's bootstrap                   *)
(* (crates/connector/src/client.rs).                                       *)
(*                                                                         *)
(* A name leads to a segment or to none; a process that has opened a       *)
(* segment keeps it when the name is unlinked or leads elsewhere.  Each    *)
(* broker process is its own pid and starts once, so it is its own epoch   *)
(* too.  Each connector has one reply segment; a broker run has at most    *)
(* one arena, and every run gives its arena the same name.  Every segment  *)
(* may be opened (mode 0666), so EACCES does not arise.                    *)
(***************************************************************************)
EXTENDS Naturals, FiniteSets

CONSTANTS
    Brokers,      \* impulsed processes, past and future
    Clients,      \* connectors
    None,
    MaxStarting,  \* bound on brokers starting at the same time
    MaxCrashes

ASSUME StartupAssumption ==
    /\ IsFiniteSet(Brokers) /\ IsFiniteSet(Clients) /\ Brokers \cap Clients = {}
    /\ None \notin Brokers \cup Clients /\ {"ctl", "arena"} \cap Clients = {}
    /\ MaxStarting \in Nat \ {0} /\ MaxCrashes \in Nat

VARIABLES
    dir,      \* /dev/shm: the maker of the segment each name leads to, or None
    ctl,      \* control segments, by the broker that made them
    bpc,      \* broker processes
    unlinks,  \* names a broker is about to unlink
    seg,      \* the control segment a broker has created and mapped
    arenas,   \* brokers that have made their arena
    names,    \* Broker.reply_names: clients
    cpc,      \* connectors
    att,      \* the control segment a connector attached to, and what it read
    crashes

broker == <<ctl, bpc, unlinks, seg, arenas, names>>
client == <<cpc, att>>
vars == <<dir, ctl, bpc, unlinks, seg, arenas, names, cpc, att, crashes>>

Names == {"ctl", "arena"} \cup Clients

(* A new segment has no size; its bytes are zero once it has one. *)
NewSegment == [sized |-> FALSE, pid |-> None, epoch |-> None, magic |-> FALSE]

Init ==
    /\ dir = [n \in Names |-> None]
    /\ ctl = [b \in Brokers |-> NewSegment]
    /\ bpc = [b \in Brokers |-> "new"]
    /\ unlinks = [b \in Brokers |-> {}]
    /\ seg = [b \in Brokers |-> None]
    /\ arenas = {}
    /\ names = [b \in Brokers |-> {}]
    /\ cpc = [c \in Clients |-> "new"]
    /\ att = [c \in Clients |-> [seg |-> None, epoch |-> None]]
    /\ crashes = 0

Alive(b) == bpc[b] \notin {"new", "dead", "failed"}

Starting(b) == bpc[b] \in {"guard", "reclaim", "list", "clean", "create", "size", "format", "magic"}

Go(b, pc) == bpc' = [bpc EXCEPT ![b] = pc]

(***************************************************************************)
(* Broker::start.                                                          *)
(***************************************************************************)
CleansFirst == "list"

FirstStep == "guard"

Launch(b) ==
    /\ bpc[b] = "new"
    /\ Cardinality({x \in Brokers : Starting(x)}) < MaxStarting
    /\ Go(b, FirstStep)
    /\ UNCHANGED <<dir, ctl, unlinks, seg, arenas, names, client, crashes>>

(* attach_control succeeds and pid_alive holds of the pid it reads. *)
HeldByNobody(s) == FALSE

HeldByBroker(s) == ctl[s].magic /\ ctl[s].pid # None /\ Alive(ctl[s].pid)

(* guard_singleton.  Segment::open refuses a segment without size, which   *)
(* is neither NotFound nor EACCES: StartError::Io, and the process exits.  *)
guard_singleton(b) ==
    /\ bpc[b] = "guard"
    /\ LET s == dir["ctl"]
       IN  Go(b, CASE s = None -> "list"
                   [] s # None /\ ~ ctl[s].sized -> "failed"
                   [] s # None /\ ctl[s].sized /\ HeldByBroker(s) -> "dead"
                   [] OTHER -> "reclaim")
    /\ UNCHANGED <<dir, ctl, unlinks, seg, arenas, names, client, crashes>>

(* shm::unlink: the name, whatever it leads to by now. *)
Unlink(n) == dir' = [dir EXCEPT ![n] = None]

Reclaim(b) ==
    /\ bpc[b] = "reclaim"
    /\ Unlink("ctl")
    /\ Go(b, "list")
    /\ UNCHANGED <<ctl, unlinks, seg, arenas, names, client, crashes>>

ListsNothing == {}

list_segments == {n \in Names : dir[n] # None}

(* cleanup_stale: what list_segments found, one after the other. *)
ListStale(b) ==
    /\ bpc[b] = "list"
    /\ unlinks' = [unlinks EXCEPT ![b] = list_segments]
    /\ Go(b, "clean")
    /\ UNCHANGED <<dir, ctl, seg, arenas, names, client, crashes>>

CleanStale(b) ==
    /\ bpc[b] = "clean"
    /\ \/ /\ \E n \in unlinks[b] : Unlink(n) /\ unlinks' = [unlinks EXCEPT ![b] = @ \ {n}]
          /\ UNCHANGED bpc
       \/ /\ unlinks[b] = {}
          /\ Go(b, "create")
          /\ UNCHANGED <<dir, unlinks>>
    /\ UNCHANGED <<ctl, seg, arenas, names, client, crashes>>

(* Segment::create: O_CREAT without O_EXCL takes what is there; then       *)
(* ftruncate gives it its size.                                            *)
CreateControl(b) ==
    /\ bpc[b] = "create"
    /\ seg' = [seg EXCEPT ![b] = IF dir["ctl"] = None THEN b ELSE dir["ctl"]]
    /\ dir' = [dir EXCEPT !["ctl"] = seg'[b]]
    /\ Go(b, "size")
    /\ UNCHANGED <<ctl, unlinks, arenas, names, client, crashes>>

SizeControl(b) ==
    /\ bpc[b] = "size"
    /\ ctl' = [ctl EXCEPT ![seg[b]].sized = TRUE]
    /\ Go(b, "format")
    /\ UNCHANGED <<dir, unlinks, seg, arenas, names, client, crashes>>

(* format_control: ring, version, pid and epoch; the magic last. *)
FormatsMagicFirst(b) ==
    /\ bpc[b] \in {"format", "magic"}
    /\ ctl' = [ctl EXCEPT ![seg[b]] = [sized |-> TRUE, pid |-> IF bpc[b] = "magic" THEN b ELSE @.pid,
                                       epoch |-> IF bpc[b] = "magic" THEN b ELSE @.epoch, magic |-> TRUE]]
    /\ Go(b, IF bpc[b] = "format" THEN "magic" ELSE "serving")
    /\ UNCHANGED <<dir, unlinks, seg, arenas, names, client, crashes>>

format_control(b) ==
    /\ \/ /\ bpc[b] = "format"
          /\ ctl' = [ctl EXCEPT ![seg[b]].pid = b, ![seg[b]].epoch = b]
          /\ Go(b, "magic")
       \/ /\ bpc[b] = "magic"
          /\ ctl' = [ctl EXCEPT ![seg[b]].magic = TRUE]
          /\ Go(b, "serving")
    /\ UNCHANGED <<dir, unlinks, seg, arenas, names, client, crashes>>

(***************************************************************************)
(* The broker serves, and goes.                                            *)
(***************************************************************************)
make_arena(b) ==
    /\ bpc[b] = "serving" /\ b \notin arenas
    /\ arenas' = arenas \cup {b}
    /\ dir' = [dir EXCEPT !["arena"] = IF @ = None THEN b ELSE @]
    /\ UNCHANGED <<ctl, bpc, unlinks, seg, names, client, crashes>>

ControlName(c) == "ctl"

ReplyName(c) == c

(* on_register: it opens the reply segment, and notes its name. *)
on_register(b, c) ==
    /\ bpc[b] = "serving" /\ cpc[c] = "attached" /\ att[c].seg = seg[b]
    /\ dir[c] # None
    /\ names' = [names EXCEPT ![b] = @ \cup {ReplyName(c)}]
    /\ cpc' = [cpc EXCEPT ![c] = "registered"]
    /\ UNCHANGED <<dir, ctl, bpc, unlinks, seg, arenas, att, crashes>>

(* A signal ends the loop, and main drops the Broker: first its reply      *)
(* names, ...                                                              *)
Stop(b) ==
    /\ bpc[b] = "serving"
    /\ unlinks' = [unlinks EXCEPT ![b] = names[b]]
    /\ Go(b, "dropping")
    /\ UNCHANGED <<dir, ctl, seg, arenas, names, client, crashes>>

(* ... then its fields in order: the control segment, then the arenas.     *)
DropReply(b) ==
    /\ bpc[b] = "dropping"
    /\ \E c \in unlinks[b] : Unlink(c) /\ unlinks' = [unlinks EXCEPT ![b] = @ \ {c}]
    /\ UNCHANGED <<ctl, bpc, seg, arenas, names, client, crashes>>

DropControl(b) ==
    /\ bpc[b] = "dropping" /\ unlinks[b] = {}
    /\ Unlink("ctl")
    /\ Go(b, "arenas")
    /\ UNCHANGED <<ctl, unlinks, seg, arenas, names, client, crashes>>

DropArenas(b) ==
    /\ bpc[b] = "arenas"
    /\ IF b \in arenas THEN Unlink("arena") ELSE UNCHANGED dir
    /\ Go(b, "dead")
    /\ UNCHANGED <<ctl, unlinks, seg, arenas, names, client, crashes>>

Crash(b) ==
    /\ Alive(b) /\ crashes < MaxCrashes
    /\ Go(b, "dead")
    /\ crashes' = crashes + 1
    /\ UNCHANGED <<dir, ctl, unlinks, seg, arenas, names, client>>

(***************************************************************************)
(* A connector: bootstrap.                                                 *)
(***************************************************************************)
OpenControl(c) ==
    /\ cpc[c] = "new" /\ dir["ctl"] # None /\ ctl[dir["ctl"]].sized
    /\ att' = [att EXCEPT ![c].seg = dir["ctl"]]
    /\ cpc' = [cpc EXCEPT ![c] = "opened"]
    /\ UNCHANGED <<dir, broker, crashes>>

(* attach_control and broker_epoch; without the magic it gives up. *)
Attach(c) ==
    /\ cpc[c] = "opened"
    /\ IF ctl[att[c].seg].magic
       THEN /\ att' = [att EXCEPT ![c].epoch = ctl[att[c].seg].epoch]
            /\ cpc' = [cpc EXCEPT ![c] = "create"]
       ELSE /\ att' = [att EXCEPT ![c].seg = None]
            /\ cpc' = [cpc EXCEPT ![c] = "new"]
    /\ UNCHANGED <<dir, broker, crashes>>

CreateReply(c) ==
    /\ cpc[c] = "create"
    /\ dir' = [dir EXCEPT ![c] = c]
    /\ cpc' = [cpc EXCEPT ![c] = "attached"]
    /\ UNCHANGED <<att, broker, crashes>>

(* The transport is dropped, and the reply segment with it. *)
Leave(c) ==
    /\ cpc[c] \in {"attached", "registered"}
    /\ Unlink(c)
    /\ cpc' = [cpc EXCEPT ![c] = "left"]
    /\ UNCHANGED <<att, broker, crashes>>

(***************************************************************************)
(* The specification.                                                      *)
(***************************************************************************)
BrokerStep(b) ==
    \/ guard_singleton(b) \/ Reclaim(b) \/ ListStale(b) \/ CleanStale(b)
    \/ CreateControl(b) \/ SizeControl(b) \/ format_control(b)
    \/ DropReply(b) \/ DropControl(b) \/ DropArenas(b)

Next ==
    \/ \E b \in Brokers : Launch(b) \/ BrokerStep(b) \/ make_arena(b) \/ Stop(b) \/ Crash(b)
    \/ \E b \in Brokers, c \in Clients : on_register(b, c)
    \/ \E c \in Clients : OpenControl(c) \/ Attach(c) \/ CreateReply(c) \/ Leave(c)

Spec == Init /\ [][Next]_vars

(***************************************************************************)
(* Properties.                                                             *)
(***************************************************************************)
Serving(b) == bpc[b] = "serving"

(* The shape of the state. *)
TypeOK ==
    /\ dir \in [Names -> Brokers \cup Clients \cup {None}]
    /\ ctl \in [Brokers -> [sized : BOOLEAN, pid : Brokers \cup {None},
                            epoch : Brokers \cup {None}, magic : BOOLEAN]]
    /\ bpc \in [Brokers -> {"new", "guard", "reclaim", "list", "clean", "create", "size", "format",
                            "magic", "serving", "dropping", "arenas", "dead", "failed"}]
    /\ unlinks \in [Brokers -> SUBSET Names]
    /\ seg \in [Brokers -> Brokers \cup {None}]
    /\ arenas \subseteq Brokers
    /\ names \in [Brokers -> SUBSET Clients]
    /\ cpc \in [Clients -> {"new", "opened", "create", "attached", "registered", "left"}]
    /\ att \in [Clients -> [seg : Brokers \cup {None}, epoch : Brokers \cup {None}]]
    /\ crashes \in 0..MaxCrashes

(* The promise of guard_singleton, at most one broker owns the bus: while  *)
(* one serves, the control name leads to its own segment, ready and with   *)
(* its pid in it, whatever older brokers still do on their way out and     *)
(* newer ones try.  It rests on brokers starting one at a time.            *)
OneOwner ==
    \A b \in Brokers : Serving(b) =>
        /\ dir["ctl"] = b /\ ctl[b].magic /\ ctl[b].pid = b
        /\ \A x \in Brokers \ {b} : ~ Serving(x)

(* A connector that took the magic for ready read the epoch of the broker  *)
(* whose segment it attached to, and no other's or none.                   *)
AttachReadsItsBroker ==
    \A c \in Clients :
        cpc[c] \in {"create", "attached", "registered"} => att[c].epoch = att[c].seg

(* The reply segment of a connector attached to the broker that serves is  *)
(* there to be opened: no clean-up, of that start or of another's exit,    *)
(* takes its name away.                                                    *)
RepliesReachable ==
    \A b \in Brokers, c \in Clients :
        Serving(b) /\ cpc[c] \in {"attached", "registered"} /\ att[c].seg = b => dir[c] = c

(* Nothing of an earlier run is found under a name the new run will use:   *)
(* Segment::create would map it with the old contents.                     *)
NoLeftovers ==
    \A b \in Brokers : Serving(b) => dir["arena"] \in {b, None}

(***************************************************************************)
(* The inductive invariant behind these properties, where brokers start    *)
(* one at a time.  A broker between its guard and its first request has    *)
(* the bus to itself: no other is serving, or stopping with its control    *)
(* segment in place (Alone).  Control segments are written by their maker  *)
(* alone, the magic last (Segments), and what a connector has read stays   *)
(* true (Read).  The clean-up takes the old arena before the new control   *)
(* segment is there (Cleaned).                                             *)
(***************************************************************************)
Past == {"reclaim", "list", "clean", "create", "size", "format", "magic"}

Owning(b) == bpc[b] \in {"serving", "dropping"}

Alone ==
    /\ \A b, x \in Brokers : Starting(b) /\ Starting(x) => b = x
    /\ \A b, x \in Brokers : bpc[b] \in Past => ~ Owning(x)
    /\ \A b \in Brokers : bpc[b] \in {"list", "clean", "create"} => dir["ctl"] = None
    /\ \A b \in Brokers : Owning(b) \/ bpc[b] \in {"size", "format", "magic"} => dir["ctl"] = b /\ seg[b] = b

Segments ==
    /\ \A b \in Brokers : bpc[b] \in {"new"} \cup Past \cup {"guard"} => ~ ctl[b].magic
    /\ \A b \in Brokers : bpc[b] \in {"new", "guard", "reclaim", "list", "clean", "create"} => ~ ctl[b].sized
    /\ \A b \in Brokers : bpc[b] = "format" => ctl[b].sized
    /\ \A b \in Brokers : ctl[b].magic \/ bpc[b] = "magic" => ctl[b].sized /\ ctl[b].pid = b /\ ctl[b].epoch = b
    /\ \A b \in Brokers : Owning(b) => ctl[b].magic
    /\ dir["ctl"] \in Brokers \cup {None}

Attached(c) == cpc[c] \in {"create", "attached", "registered"}

Read ==
    /\ \A c \in Clients : Attached(c) => att[c].seg \in Brokers /\ ctl[att[c].seg].magic
    /\ \A c \in Clients : cpc[c] = "opened" => att[c].seg \in Brokers
    /\ \A b \in Brokers : bpc[b] = "dropping" => unlinks[b] \subseteq Clients

Cleaned ==
    \A b \in Brokers :
        /\ bpc[b] = "clean" => dir["arena"] = None \/ "arena" \in unlinks[b]
        /\ bpc[b] \in {"create", "size", "format", "magic"} => dir["arena"] = None

StartupInv ==
    /\ TypeOK
    /\ Alone
    /\ Segments
    /\ Read
    /\ Cleaned
    /\ AttachReadsItsBroker
    /\ RepliesReachable
    /\ NoLeftovers
=============================================================================
