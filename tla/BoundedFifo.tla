---------------------------- MODULE BoundedFifo ----------------------------
(***************************************************************************)
(* What the queues of include/erl/_impl/queue promise to their clients: a  *)
(* bounded first-in first-out buffer.  A message is <<p, k>>, the k-th     *)
(* message of producer p.  BoundedMPMC and BoundedSPSC are shown to        *)
(* implement this specification; Logger is built on top of it.             *)
(***************************************************************************)
EXTENDS Naturals, Sequences, FiniteSets

CONSTANTS
  Producers,     \* the threads that push
  Consumers,     \* the threads that pop
  Capacity,      \* the number of messages the buffer can hold
  MaxMessages    \* bound: messages a producer pushes

VARIABLES
  items,         \* the messages in the buffer, oldest first
  enqueued,      \* how many messages each producer has put into the buffer
  delivered      \* the messages each consumer has taken, oldest first

vars == <<items, enqueued, delivered>>

Message == Producers \X (1..MaxMessages)

TypeOK ==
  /\ items \in Seq(Message)
  /\ enqueued \in [Producers -> 0..MaxMessages]
  /\ delivered \in [Consumers -> Seq(Message)]

Init ==
  /\ items = <<>>
  /\ enqueued = [p \in Producers |-> 0]
  /\ delivered = [c \in Consumers |-> <<>>]

Enqueue(p) ==
  /\ enqueued[p] < MaxMessages
  /\ Len(items) < Capacity
  /\ items' = Append(items, <<p, enqueued[p] + 1>>)
  /\ enqueued' = [enqueued EXCEPT ![p] = @ + 1]
  /\ UNCHANGED delivered

Dequeue(c) ==
  /\ items # <<>>
  /\ delivered' = [delivered EXCEPT ![c] = Append(@, Head(items))]
  /\ items' = Tail(items)
  /\ UNCHANGED enqueued

Next == \/ \E p \in Producers : Enqueue(p)
        \/ \E c \in Consumers : Dequeue(c)

Spec == Init /\ [][Next]_vars
=============================================================================
