-------------------------------- MODULE Fifo --------------------------------
(***************************************************************************)
(* What a ring promises its users: a first-in first-out queue of messages  *)
(* whose sizes never exceed Cap together.  A message enters and leaves in  *)
(* one step, whatever the number of producers, and leaves with its payload *)
(* intact.                                                                 *)
(***************************************************************************)
EXTENDS Integers, Sequences

CONSTANTS Cap,          \* bytes of data region
          Message,      \* what may be pushed
          Need(_),      \* bytes a message occupies
          Payload(_)    \* what a pop of the message returns

VARIABLES queue,        \* messages pushed and not yet popped
          used,         \* bytes they occupy
          out           \* results of the pops so far

Init == queue = <<>> /\ used = 0 /\ out = <<>>

Push(m) ==
    /\ used + Need(m) <= Cap
    /\ queue' = Append(queue, m)
    /\ used' = used + Need(m)
    /\ UNCHANGED out

Pop ==
    /\ queue # <<>>
    /\ out' = Append(out, Payload(Head(queue)))
    /\ used' = used - Need(Head(queue))
    /\ queue' = Tail(queue)

Next == (\E m \in Message : Push(m)) \/ Pop

Spec == Init /\ [][Next]_<<queue, used, out>>
=============================================================================
