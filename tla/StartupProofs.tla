---------------------------- MODULE StartupProofs ----------------------------
(***************************************************************************)
(* Proofs about Startup, for any set of brokers and connectors and any     *)
(* number of crashes, where brokers start one at a time: MaxStarting = 1   *)
(* is assumed by LaunchStep, and by nothing else but what rests on it.     *)
(***************************************************************************)
EXTENDS Startup, FiniteSetTheorems, TLAPS

USE StartupAssumption DEF Names

(* The control segments of TypeOK. *)
Segment == [sized : BOOLEAN, pid : Brokers \cup {None}, epoch : Brokers \cup {None}, magic : BOOLEAN]

(* A launch finds no broker starting, so it stays the only one. *)
LEMMA LaunchStep ==
    ASSUME StartupInv, NEW b \in Brokers, Launch(b), MaxStarting = 1
    PROVE  StartupInv'
<1>1. TypeOK'
  BY DEF StartupInv, Launch, Go, client, FirstStep, TypeOK
<1>2. \A x \in Brokers : ~ Starting(x)
  <2> DEFINE S == {x \in Brokers : Starting(x)}
  <2>1. IsFiniteSet(S)
    BY FS_Subset
  <2>2. Cardinality(S) \in Nat /\ Cardinality(S) < 1
    BY <2>1, FS_CardinalityType DEF Launch
  <2>3. Cardinality(S) = 0
    <3> HIDE DEF S
    <3> QED BY <2>2
  <2> QED BY <2>1, <2>3, FS_EmptySet
<1>3. Alone' /\ Cleaned'
  BY <1>2 DEF StartupInv, Launch, Go, FirstStep, TypeOK, Alone, Cleaned, Starting, Past, Owning
<1>4. Segments'
  BY DEF StartupInv, Launch, Go, FirstStep, TypeOK, Segments, Owning
<1>5. Read' /\ AttachReadsItsBroker'
  BY DEF StartupInv, Launch, Go, client, FirstStep, TypeOK, Read, Attached,
         AttachReadsItsBroker
<1>6. RepliesReachable' /\ NoLeftovers'
  BY DEF StartupInv, Launch, Go, client, FirstStep, TypeOK, Serving, RepliesReachable,
         NoLeftovers
<1> QED BY <1>1, <1>3, <1>4, <1>5, <1>6 DEF StartupInv

(* guard_singleton: a broker passes only where the control name leads nowhere or
   to a segment no living broker has written; an owner's segment is neither. *)
LEMMA GuardStep ==
    ASSUME StartupInv, NEW b \in Brokers, guard_singleton(b)
    PROVE  StartupInv'
<1>1. TypeOK'
  BY DEF StartupInv, guard_singleton, Go, client, TypeOK
<1>2. Alone' /\ Cleaned'
  BY DEF StartupInv, guard_singleton, Go, client, HeldByBroker, Alive, TypeOK, Alone,
         Segments, Cleaned, Read, Starting, Past, Owning, Serving
<1>3. Segments'
  BY DEF StartupInv, guard_singleton, Go, client, TypeOK, Segments, Owning
<1>4. Read' /\ AttachReadsItsBroker'
  BY DEF StartupInv, guard_singleton, Go, client, TypeOK, Read, Attached, AttachReadsItsBroker
<1>5. RepliesReachable' /\ NoLeftovers'
  BY DEF StartupInv, guard_singleton, Go, client, TypeOK, Serving, RepliesReachable,
         NoLeftovers
<1> QED BY <1>1, <1>2, <1>3, <1>4, <1>5 DEF StartupInv

(* The broker that unlinks the control name has no owner to unlink it from. *)
LEMMA ReclaimStep ==
    ASSUME StartupInv, NEW b \in Brokers, Reclaim(b)
    PROVE  StartupInv'
<1>1. TypeOK'
  BY DEF StartupInv, Reclaim, Go, client, Unlink, TypeOK
<1>2. Alone' /\ Cleaned'
  BY DEF StartupInv, Reclaim, Go, Unlink, TypeOK, Alone, Cleaned, Starting, Past, Owning
<1>3. Segments'
  BY DEF StartupInv, Reclaim, Go, Unlink, TypeOK, Segments, Owning
<1>4. Read' /\ AttachReadsItsBroker'
  BY DEF StartupInv, Reclaim, Go, client, Unlink, TypeOK, Read, Attached, AttachReadsItsBroker
<1>5. RepliesReachable' /\ NoLeftovers'
  BY DEF StartupInv, Reclaim, Go, Unlink, TypeOK, Alone, Past, Owning, Serving,
         RepliesReachable, NoLeftovers
<1> QED BY <1>1, <1>2, <1>3, <1>4, <1>5 DEF StartupInv

(* The list has the old arena, if there is one. *)
LEMMA ListStaleStep ==
    ASSUME StartupInv, NEW b \in Brokers, ListStale(b)
    PROVE  StartupInv'
<1>1. TypeOK'
  BY DEF StartupInv, ListStale, Go, client, list_segments, TypeOK
<1>2. Alone' /\ Cleaned'
  BY DEF StartupInv, ListStale, Go, list_segments, TypeOK, Alone, Cleaned, Starting, Owning
<1>3. Segments'
  BY DEF StartupInv, ListStale, Go, TypeOK, Segments, Owning
<1>4. Read' /\ AttachReadsItsBroker'
  BY DEF StartupInv, ListStale, Go, client, TypeOK, Read, Attached, AttachReadsItsBroker
<1>5. RepliesReachable' /\ NoLeftovers'
  BY DEF StartupInv, ListStale, Go, TypeOK, Alone, Owning, Serving, RepliesReachable,
         NoLeftovers
<1> QED BY <1>1, <1>2, <1>3, <1>4, <1>5 DEF StartupInv

(* The clean-up takes names away while nobody serves, and is over only once the
   old arena is gone. *)
LEMMA CleanStaleStep ==
    ASSUME StartupInv, NEW b \in Brokers, CleanStale(b)
    PROVE  StartupInv'
<1>1. TypeOK'
  <2>1. dir' \in [Names -> Brokers \cup Clients \cup {None}]
    BY DEF StartupInv, TypeOK, CleanStale, Unlink
  <2>2. unlinks' \in [Brokers -> SUBSET Names]
    BY DEF StartupInv, TypeOK, CleanStale
  <2> QED BY <2>1, <2>2 DEF StartupInv, TypeOK, CleanStale, Go, client
<1>2. Alone' /\ Cleaned'
  BY DEF StartupInv, CleanStale, Go, Unlink, TypeOK, Alone, Cleaned, Starting, Owning
<1>3. Segments'
  BY DEF StartupInv, CleanStale, Go, Unlink, TypeOK, Segments, Owning
<1>4. Read' /\ AttachReadsItsBroker'
  BY DEF StartupInv, CleanStale, Go, client, Unlink, TypeOK, Segments, Read, Attached,
         AttachReadsItsBroker
<1>5. RepliesReachable' /\ NoLeftovers'
  BY DEF StartupInv, CleanStale, Go, Unlink, TypeOK, Alone, Owning, Serving, RepliesReachable,
         NoLeftovers
<1> QED BY <1>1, <1>2, <1>3, <1>4, <1>5 DEF StartupInv

(* The control name is free, so Segment::create makes a segment of its own. *)
LEMMA CreateControlStep ==
    ASSUME StartupInv, NEW b \in Brokers, CreateControl(b)
    PROVE  StartupInv'
<1>1. TypeOK'
  BY DEF StartupInv, CreateControl, Go, client, TypeOK, Alone
<1>2. Alone' /\ Cleaned'
  BY DEF StartupInv, CreateControl, Go, TypeOK, Alone, Cleaned, Starting, Owning
<1>3. Segments'
  BY DEF StartupInv, CreateControl, Go, TypeOK, Segments, Owning
<1>4. Read' /\ AttachReadsItsBroker'
  BY DEF StartupInv, CreateControl, Go, client, TypeOK, Read, Attached, AttachReadsItsBroker
<1>5. RepliesReachable' /\ NoLeftovers'
  BY DEF StartupInv, CreateControl, Go, TypeOK, Alone, Owning, Serving, RepliesReachable,
         NoLeftovers
<1> QED BY <1>1, <1>2, <1>3, <1>4, <1>5 DEF StartupInv

(* ftruncate sizes the broker's own segment. *)
LEMMA SizeControlStep ==
    ASSUME StartupInv, NEW b \in Brokers, SizeControl(b)
    PROVE  StartupInv'
<1>1. TypeOK'
  <2> DEFINE r == [ctl[b] EXCEPT !.sized = TRUE]
  <2>1. seg[b] = b /\ ctl \in [Brokers -> Segment]
    BY DEF StartupInv, SizeControl, Alone, TypeOK, Segment
  <2>2. r \in Segment
    BY <2>1 DEF Segment
  <2>3. ctl' = [ctl EXCEPT ![b] = r]
    BY <2>1 DEF SizeControl
  <2>4. ctl' \in [Brokers -> Segment]
    <3> HIDE DEF r
    <3> QED BY <2>1, <2>2, <2>3
  <2> QED BY <2>4 DEF StartupInv, TypeOK, SizeControl, Go, client, Segment
<1>2. Alone' /\ Cleaned'
  BY DEF StartupInv, SizeControl, Go, TypeOK, Alone, Cleaned, Starting, Owning
<1>3. Segments'
  BY DEF StartupInv, SizeControl, Go, TypeOK, Alone, Segments, Past, Owning
<1>4. Read' /\ AttachReadsItsBroker'
  BY DEF StartupInv, SizeControl, Go, client, TypeOK, Read, Attached, AttachReadsItsBroker
<1>5. RepliesReachable' /\ NoLeftovers'
  BY DEF StartupInv, SizeControl, Go, TypeOK, Alone, Owning, Serving, RepliesReachable,
         NoLeftovers
<1> QED BY <1>1, <1>2, <1>3, <1>4, <1>5 DEF StartupInv

(* format_control: the pid and the epoch are there before the magic, so the
   segment is true from the moment a connector may take it for ready. *)
LEMMA FormatStep ==
    ASSUME StartupInv, NEW b \in Brokers, format_control(b)
    PROVE  StartupInv'
<1>1. seg[b] = b /\ ~ ctl[b].magic /\ ctl[b].sized /\ bpc[b] \in {"format", "magic"}
  BY DEF StartupInv, format_control, Alone, Segments, Past
<1>2. ctl' = [ctl EXCEPT ![b] = [sized |-> ctl[b].sized, pid |-> b, epoch |-> b,
                                 magic |-> bpc[b] = "magic"]]
  <2>1. CASE bpc[b] = "format"
    <3>1. ctl' = [ctl EXCEPT ![b] = [sized |-> ctl[b].sized, pid |-> b, epoch |-> b,
                                     magic |-> ctl[b].magic]]
      BY <1>1, <2>1 DEF format_control, StartupInv, TypeOK
    <3>2. ctl[b].magic = (bpc[b] = "magic")
      BY <1>1, <2>1 DEF StartupInv, TypeOK
    <3> QED BY <3>1, <3>2
  <2>2. CASE bpc[b] = "magic"
    <3>1. ctl' = [ctl EXCEPT ![b] = [sized |-> ctl[b].sized, pid |-> ctl[b].pid,
                                     epoch |-> ctl[b].epoch, magic |-> TRUE]]
      BY <1>1, <2>2 DEF format_control, StartupInv, TypeOK
    <3>2. ctl[b].pid = b /\ ctl[b].epoch = b
      BY <2>2 DEF StartupInv, Segments
    <3> QED BY <3>1, <3>2, <2>2
  <2> QED BY <2>1, <2>2, <1>1
<1>3. /\ ctl'[b].sized /\ ctl'[b].pid = b /\ ctl'[b].epoch = b
      /\ ctl'[b].magic <=> bpc[b] = "magic"
      /\ \A x \in Brokers \ {b} : ctl'[x] = ctl[x]
  BY <1>1, <1>2 DEF StartupInv, TypeOK
<1>4. /\ bpc[b] = "format" => bpc'[b] = "magic"
      /\ bpc[b] = "magic" => bpc'[b] = "serving"
      /\ \A x \in Brokers \ {b} : bpc'[x] = bpc[x]
  BY DEF format_control, Go, StartupInv, TypeOK
<1>5. TypeOK'
  BY <1>2 DEF StartupInv, format_control, Go, client, TypeOK
<1>6. Alone' /\ Cleaned'
  BY DEF StartupInv, format_control, Go, client, TypeOK, Alone, Cleaned, Starting, Past, Owning
<1>7. Segments'
  <2> SUFFICES ASSUME NEW x \in Brokers
               PROVE  /\ bpc'[x] \in {"new"} \cup Past \cup {"guard"} => ~ ctl'[x].magic
                      /\ bpc'[x] \in {"new", "guard", "reclaim", "list", "clean", "create"} => ~ ctl'[x].sized
                      /\ bpc'[x] = "format" => ctl'[x].sized
                      /\ ctl'[x].magic \/ bpc'[x] = "magic"
                             => ctl'[x].sized /\ ctl'[x].pid = x /\ ctl'[x].epoch = x
                      /\ Owning(x)' => ctl'[x].magic
                      /\ dir'["ctl"] \in Brokers \cup {None}
    BY DEF Segments
  <2>1. dir' = dir /\ dir["ctl"] \in Brokers \cup {None}
    BY DEF format_control, StartupInv, Segments
  <2>2. CASE x = b
    BY <2>1, <2>2, <1>1, <1>3, <1>4 DEF Past, Owning
  <2>3. CASE x # b
    BY <2>1, <2>3, <1>3, <1>4 DEF StartupInv, Segments, Owning
  <2> QED BY <2>2, <2>3
<1>8. Read' /\ AttachReadsItsBroker'
  <2>1. UNCHANGED <<cpc, att, unlinks>>
    BY DEF format_control, client
  <2>2. \A x \in Brokers : ctl[x].magic => ctl'[x].magic
    BY <1>1, <1>3
  <2>3. \A x \in Brokers : bpc'[x] = "dropping" => bpc[x] = "dropping"
    BY <1>1, <1>4
  <2> QED BY <2>1, <2>2, <2>3 DEF StartupInv, Read, Attached, AttachReadsItsBroker
<1>9. RepliesReachable' /\ NoLeftovers'
  BY DEF StartupInv, format_control, Go, client, TypeOK, Segments, Read, Attached, Cleaned,
         Past, Serving, RepliesReachable, NoLeftovers
<1> QED BY <1>5, <1>6, <1>7, <1>8, <1>9 DEF StartupInv

(* The arena of the broker that serves is new under its name. *)
LEMMA MakeArenaStep ==
    ASSUME StartupInv, NEW b \in Brokers, make_arena(b)
    PROVE  StartupInv'
<1>1. TypeOK'
  BY DEF StartupInv, make_arena, Go, client, TypeOK
<1>2. Alone' /\ Cleaned'
  BY DEF StartupInv, make_arena, Go, TypeOK, Alone, Cleaned, Starting, Owning
<1>3. Segments'
  BY DEF StartupInv, make_arena, Go, TypeOK, Segments, Owning
<1>4. Read' /\ AttachReadsItsBroker'
  BY DEF StartupInv, make_arena, Go, client, TypeOK, Read, Attached, AttachReadsItsBroker
<1>5. RepliesReachable' /\ NoLeftovers'
  BY DEF StartupInv, make_arena, Go, client, TypeOK, Alone, Owning, Serving, RepliesReachable,
         NoLeftovers
<1> QED BY <1>1, <1>2, <1>3, <1>4, <1>5 DEF StartupInv

(* A broker that stops has only names of reply segments to unlink. *)
LEMMA StopStep ==
    ASSUME StartupInv, NEW b \in Brokers, Stop(b)
    PROVE  StartupInv'
<1>1. TypeOK'
  BY DEF StartupInv, Stop, Go, client, TypeOK
<1>2. Alone' /\ Cleaned'
  BY DEF StartupInv, Stop, Go, TypeOK, Alone, Cleaned, Starting, Past, Owning
<1>3. Segments'
  BY DEF StartupInv, Stop, Go, TypeOK, Segments, Past, Owning
<1>4. Read' /\ AttachReadsItsBroker'
  BY DEF StartupInv, Stop, Go, client, TypeOK, Read, Attached, AttachReadsItsBroker
<1>5. RepliesReachable' /\ NoLeftovers'
  BY DEF StartupInv, Stop, Go, TypeOK, Alone, Owning, Serving, RepliesReachable, NoLeftovers
<1> QED BY <1>1, <1>2, <1>3, <1>4, <1>5 DEF StartupInv

(* Reply names go when their broker no longer serves. *)
LEMMA DropReplyStep ==
    ASSUME StartupInv, NEW b \in Brokers, DropReply(b)
    PROVE  StartupInv'
<1>1. TypeOK'
  BY DEF StartupInv, DropReply, Go, client, Unlink, TypeOK
<1>2. Alone' /\ Cleaned'
  BY DEF StartupInv, DropReply, Go, Unlink, TypeOK, Alone, Cleaned, Read, Starting, Owning
<1>3. Segments'
  BY DEF StartupInv, DropReply, Go, Unlink, TypeOK, Segments, Owning
<1>4. Read' /\ AttachReadsItsBroker'
  BY DEF StartupInv, DropReply, Go, client, Unlink, TypeOK, Read, Attached,
         AttachReadsItsBroker
<1>5. RepliesReachable' /\ NoLeftovers'
  BY DEF StartupInv, DropReply, Go, Unlink, TypeOK, Alone, Owning, Serving, RepliesReachable,
         NoLeftovers
<1> QED BY <1>1, <1>2, <1>3, <1>4, <1>5 DEF StartupInv

(* The control name a stopping broker unlinks is its own. *)
LEMMA DropControlStep ==
    ASSUME StartupInv, NEW b \in Brokers, DropControl(b)
    PROVE  StartupInv'
<1>1. TypeOK'
  BY DEF StartupInv, DropControl, Go, client, Unlink, TypeOK
<1>2. Alone' /\ Cleaned'
  BY DEF StartupInv, DropControl, Go, Unlink, TypeOK, Alone, Cleaned, Starting, Owning
<1>3. Segments'
  BY DEF StartupInv, DropControl, Go, Unlink, TypeOK, Segments, Past, Owning
<1>4. Read' /\ AttachReadsItsBroker'
  BY DEF StartupInv, DropControl, Go, client, Unlink, TypeOK, Read, Attached,
         AttachReadsItsBroker
<1>5. RepliesReachable' /\ NoLeftovers'
  BY DEF StartupInv, DropControl, Go, Unlink, TypeOK, Alone, Owning, Serving,
         RepliesReachable, NoLeftovers
<1> QED BY <1>1, <1>2, <1>3, <1>4, <1>5 DEF StartupInv

(* The arena's name may be taken from a newer run's arena, never given back. *)
LEMMA DropArenasStep ==
    ASSUME StartupInv, NEW b \in Brokers, DropArenas(b)
    PROVE  StartupInv'
<1>1. TypeOK'
  BY DEF StartupInv, DropArenas, Go, client, Unlink, TypeOK
<1>2. Alone' /\ Cleaned'
  BY DEF StartupInv, DropArenas, Go, Unlink, TypeOK, Alone, Cleaned, Starting, Past, Owning
<1>3. Segments'
  BY DEF StartupInv, DropArenas, Go, Unlink, TypeOK, Segments, Past, Owning
<1>4. Read' /\ AttachReadsItsBroker'
  BY DEF StartupInv, DropArenas, Go, client, Unlink, TypeOK, Read, Attached,
         AttachReadsItsBroker
<1>5. RepliesReachable' /\ NoLeftovers'
  BY DEF StartupInv, DropArenas, Go, client, Unlink, TypeOK, Serving, RepliesReachable,
         NoLeftovers
<1> QED BY <1>1, <1>2, <1>3, <1>4, <1>5 DEF StartupInv

(* A crash changes no segment and no name. *)
LEMMA CrashStep ==
    ASSUME StartupInv, NEW b \in Brokers, Crash(b)
    PROVE  StartupInv'
<1>1. TypeOK'
  BY DEF StartupInv, Crash, Go, client, TypeOK
<1>2. Alone' /\ Cleaned'
  BY DEF StartupInv, Crash, Go, TypeOK, Alone, Cleaned, Starting, Past, Owning
<1>3. Segments'
  BY DEF StartupInv, Crash, Go, TypeOK, Segments, Past, Owning
<1>4. Read' /\ AttachReadsItsBroker'
  BY DEF StartupInv, Crash, Go, client, TypeOK, Read, Attached, AttachReadsItsBroker
<1>5. RepliesReachable' /\ NoLeftovers'
  BY DEF StartupInv, Crash, Go, client, TypeOK, Serving, RepliesReachable, NoLeftovers
<1> QED BY <1>1, <1>2, <1>3, <1>4, <1>5 DEF StartupInv

(* The segment a connector opens was made by a broker. *)
LEMMA OpenControlStep ==
    ASSUME StartupInv, NEW c \in Clients, OpenControl(c)
    PROVE  StartupInv'
<1>1. TypeOK'
  BY DEF StartupInv, OpenControl, broker, TypeOK, Segments, Read
<1>2. Alone' /\ Cleaned'
  BY DEF StartupInv, OpenControl, broker, TypeOK, Alone, Cleaned, Starting, Owning
<1>3. Segments'
  BY DEF StartupInv, OpenControl, broker, TypeOK, Segments, Owning
<1>4. Read' /\ AttachReadsItsBroker'
  BY DEF StartupInv, OpenControl, broker, TypeOK, Segments, Read, Attached,
         AttachReadsItsBroker
<1>5. RepliesReachable' /\ NoLeftovers'
  BY DEF StartupInv, OpenControl, broker, TypeOK, Serving, RepliesReachable, NoLeftovers
<1> QED BY <1>1, <1>2, <1>3, <1>4, <1>5 DEF StartupInv

(* A connector reads the epoch only behind the magic. *)
LEMMA AttachStep ==
    ASSUME StartupInv, NEW c \in Clients, Attach(c)
    PROVE  StartupInv'
<1>0. /\ att[c].seg \in Brokers
      /\ att' = [att EXCEPT ![c] = IF ctl[att[c].seg].magic
                                   THEN [seg |-> att[c].seg, epoch |-> ctl[att[c].seg].epoch]
                                   ELSE [seg |-> None, epoch |-> att[c].epoch]]
      /\ cpc' = [cpc EXCEPT ![c] = IF ctl[att[c].seg].magic THEN "create" ELSE "new"]
  BY DEF StartupInv, Attach, TypeOK, Read
<1>1. TypeOK'
  BY <1>0 DEF StartupInv, Attach, broker, TypeOK
<1>2. Alone' /\ Cleaned'
  BY DEF StartupInv, Attach, broker, TypeOK, Alone, Cleaned, Starting, Owning
<1>3. Segments'
  BY DEF StartupInv, Attach, broker, TypeOK, Segments, Owning
<1>4. Read' /\ AttachReadsItsBroker'
  BY <1>0 DEF StartupInv, Attach, broker, TypeOK, Segments, Read, Attached, AttachReadsItsBroker
<1>5. RepliesReachable' /\ NoLeftovers'
  BY DEF StartupInv, Attach, broker, TypeOK, Serving, RepliesReachable, NoLeftovers
<1> QED BY <1>1, <1>2, <1>3, <1>4, <1>5 DEF StartupInv

(* A connector's reply segment is there once it is made. *)
LEMMA CreateReplyStep ==
    ASSUME StartupInv, NEW c \in Clients, CreateReply(c)
    PROVE  StartupInv'
<1>1. TypeOK'
  BY DEF StartupInv, CreateReply, broker, TypeOK
<1>2. Alone' /\ Cleaned'
  BY DEF StartupInv, CreateReply, broker, TypeOK, Alone, Cleaned, Starting, Owning
<1>3. Segments'
  BY DEF StartupInv, CreateReply, broker, TypeOK, Segments, Owning
<1>4. Read' /\ AttachReadsItsBroker'
  BY DEF StartupInv, CreateReply, broker, TypeOK, Read, Attached, AttachReadsItsBroker
<1>5. RepliesReachable' /\ NoLeftovers'
  BY DEF StartupInv, CreateReply, broker, TypeOK, Serving, RepliesReachable, NoLeftovers
<1> QED BY <1>1, <1>2, <1>3, <1>4, <1>5 DEF StartupInv

(* A connector that leaves takes its own name with it. *)
LEMMA LeaveStep ==
    ASSUME StartupInv, NEW c \in Clients, Leave(c)
    PROVE  StartupInv'
<1>1. TypeOK'
  BY DEF StartupInv, Leave, broker, Unlink, TypeOK
<1>2. Alone' /\ Cleaned'
  BY DEF StartupInv, Leave, broker, Unlink, TypeOK, Alone, Cleaned, Starting, Owning
<1>3. Segments'
  BY DEF StartupInv, Leave, broker, Unlink, TypeOK, Segments, Owning
<1>4. Read' /\ AttachReadsItsBroker'
  BY DEF StartupInv, Leave, broker, Unlink, TypeOK, Read, Attached, AttachReadsItsBroker
<1>5. RepliesReachable' /\ NoLeftovers'
  BY DEF StartupInv, Leave, broker, Unlink, TypeOK, Serving, RepliesReachable, NoLeftovers
<1> QED BY <1>1, <1>2, <1>3, <1>4, <1>5 DEF StartupInv

(* on_register changes no name. *)
LEMMA RegisterStep ==
    ASSUME StartupInv, NEW b \in Brokers, NEW c \in Clients, on_register(b, c)
    PROVE  StartupInv'
<1>1. TypeOK'
  BY DEF StartupInv, on_register, ReplyName, TypeOK
<1>2. Alone' /\ Cleaned'
  BY DEF StartupInv, on_register, TypeOK, Alone, Cleaned, Starting, Owning
<1>3. Segments'
  BY DEF StartupInv, on_register, TypeOK, Segments, Owning
<1>4. Read' /\ AttachReadsItsBroker'
  BY DEF StartupInv, on_register, TypeOK, Read, Attached, AttachReadsItsBroker
<1>5. RepliesReachable' /\ NoLeftovers'
  BY DEF StartupInv, on_register, TypeOK, Serving, RepliesReachable, NoLeftovers
<1> QED BY <1>1, <1>2, <1>3, <1>4, <1>5 DEF StartupInv

(* Nothing is there before the first broker starts. *)
LEMMA InitOK ==
    Init => StartupInv
<1> SUFFICES ASSUME Init PROVE StartupInv
  OBVIOUS
<1>1. TypeOK
  BY DEF Init, TypeOK, NewSegment
<1>2. Alone /\ Cleaned /\ NoLeftovers
  BY DEF Init, Alone, Starting, Owning, Cleaned, NoLeftovers
<1>3. Segments
  BY DEF Init, Segments, NewSegment, Owning
<1>4. Read /\ AttachReadsItsBroker /\ RepliesReachable
  BY DEF Init, Read, Attached, AttachReadsItsBroker, RepliesReachable
<1> QED BY <1>1, <1>2, <1>3, <1>4 DEF StartupInv

(* Every step of a broker or of a connector keeps the invariant. *)
LEMMA NextOK ==
    ASSUME MaxStarting = 1
    PROVE  StartupInv /\ [Next]_vars => StartupInv'
<1> SUFFICES ASSUME StartupInv, [Next]_vars PROVE StartupInv'
  OBVIOUS
<1>1. ASSUME NEW b \in Brokers, Launch(b) \/ make_arena(b) \/ Stop(b) \/ Crash(b)
      PROVE  StartupInv'
  BY <1>1, LaunchStep, MakeArenaStep, StopStep, CrashStep
<1>2. ASSUME NEW b \in Brokers, BrokerStep(b)
      PROVE  StartupInv'
  BY <1>2, GuardStep, ReclaimStep, ListStaleStep, CleanStaleStep, CreateControlStep,
     SizeControlStep, FormatStep, DropReplyStep, DropControlStep, DropArenasStep DEF BrokerStep
<1>3. ASSUME NEW b \in Brokers, NEW c \in Clients, on_register(b, c)
      PROVE  StartupInv'
  BY <1>3, RegisterStep
<1>4. ASSUME NEW c \in Clients, OpenControl(c) \/ Attach(c) \/ CreateReply(c) \/ Leave(c)
      PROVE  StartupInv'
  BY <1>4, OpenControlStep, AttachStep, CreateReplyStep, LeaveStep
<1>5. CASE UNCHANGED vars
  BY <1>5 DEF vars, StartupInv, TypeOK, Alone, Starting, Owning, Segments, Read, Attached,
              Cleaned, AttachReadsItsBroker, RepliesReachable, NoLeftovers, Serving
<1> QED BY <1>1, <1>2, <1>3, <1>4, <1>5 DEF Next

(* The invariant gives each broker that serves the bus to itself: two      *)
(* owners would be the maker of the same segment.                          *)
LEMMA InvOneOwner ==
    StartupInv => OneOwner
  BY DEF StartupInv, Alone, Segments, Owning, Serving, OneOwner

(* Where brokers start one at a time, StartupInv holds in every state.     *)
THEOREM StartupInvHolds ==
    ASSUME MaxStarting = 1
    PROVE  Spec => []StartupInv
  BY InitOK, NextOK, PTL DEF Spec

(* The state keeps its shape. *)
THEOREM StartupTypeCorrect ==
    ASSUME MaxStarting = 1
    PROVE  Spec => []TypeOK
<1>1. StartupInv => TypeOK
  BY DEF StartupInv
<1> QED BY <1>1, StartupInvHolds, PTL

(* guard_singleton's promise, for any number of brokers, connectors and    *)
(* crashes: the control name leads to the segment of the one that serves.  *)
THEOREM OwnerIsAlone ==
    ASSUME MaxStarting = 1
    PROVE  Spec => []OneOwner
  BY InvOneOwner, StartupInvHolds, PTL

(* The magic, written last by format_control, vouches for the epoch that   *)
(* attach_control lets a connector read.                                   *)
THEOREM MagicVouchesForEpoch ==
    ASSUME MaxStarting = 1
    PROVE  Spec => []AttachReadsItsBroker
<1>1. StartupInv => AttachReadsItsBroker
  BY DEF StartupInv
<1> QED BY <1>1, StartupInvHolds, PTL

(* Neither cleanup_stale nor the Drop of an older broker takes away the    *)
(* reply segment of a connector of the broker that serves.                 *)
THEOREM RepliesStayReachable ==
    ASSUME MaxStarting = 1
    PROVE  Spec => []RepliesReachable
<1>1. StartupInv => RepliesReachable
  BY DEF StartupInv
<1> QED BY <1>1, StartupInvHolds, PTL

(* cleanup_stale leaves no arena of an earlier run to the new one.         *)
THEOREM NothingIsLeftOver ==
    ASSUME MaxStarting = 1
    PROVE  Spec => []NoLeftovers
<1>1. StartupInv => NoLeftovers
  BY DEF StartupInv
<1> QED BY <1>1, StartupInvHolds, PTL
=============================================================================
