----------------------------- MODULE BasicQueue -----------------------------
(***************************************************************************)
(* The queue of queue/basic.hpp: a std::queue behind a mutex, a condition  *)
(* variable consumers wait on, and a stop token that ends the waiting.     *)
(*                                                                         *)
(* A critical section is two actions, one that takes the mutex and one     *)
(* that does the work and releases it; condition_variable::wait is three:  *)
(* evaluate the predicate, release the mutex and sleep, take it again.     *)
(* try_push and try_pop that find the mutex taken return false and change  *)
(* nothing, which is no step here.                                         *)
(*                                                                         *)
(* Stopping takes two calls of the program: request_stop on the token,     *)
(* which the queue is not told of, and notify_all.                         *)
(***************************************************************************)
EXTENDS Naturals, Sequences, FiniteSets

CONSTANTS
  Producers,     \* threads that call push or try_push
  Consumers,     \* threads that call pop(stop_token) or try_pop
  MaxMessages,   \* bound: messages a producer pushes
  Nobody,        \* the mutex is free
  Empty          \* the default object a pop of an empty queue returns

ASSUME ThreadAssumption ==
  /\ IsFiniteSet(Producers) /\ Producers \cap Consumers = {}
  /\ Consumers # {}
  /\ Nobody \notin Producers \cup Consumers
  /\ MaxMessages \in Nat
  /\ Empty \notin Producers \X (1..MaxMessages)

VARIABLES
  queue,           \* the messages, oldest first
  m,               \* the thread that holds the mutex, or Nobody
  pc,              \* thread -> where it is
  stop_requested,  \* the state of the stop token
  notified,        \* notify_all was called after the stop request
  sent,            \* producer -> number of its messages in or past the queue
  received,        \* consumer -> the messages it has popped
  owed             \* the messages in the queue when the stop was requested

vars == <<queue, m, pc, stop_requested, notified, sent, received, owed>>

Threads == Producers \cup Consumers
Message == Producers \X (1..MaxMessages)

Waiting == {c \in Consumers : pc[c] = "waiting"}

Init ==
  /\ queue = <<>>
  /\ m = Nobody
  /\ pc = [t \in Threads |-> "idle"]
  /\ stop_requested = FALSE
  /\ notified = FALSE
  /\ sent = [p \in Producers |-> 0]
  /\ received = [c \in Consumers |-> <<>>]
  /\ owed = {}

Lock(t, from) ==
  /\ m = Nobody
  /\ m' = t
  /\ pc[t] = from
  /\ pc' = [pc EXCEPT ![t] = "locked"]

-----------------------------------------------------------------------------
LockForPush(p) ==
  /\ sent[p] < MaxMessages
  /\ Lock(p, "idle")
  /\ UNCHANGED <<queue, stop_requested, notified, sent, received, owed>>

Enqueue(p) ==
  /\ queue' = Append(queue, <<p, sent[p] + 1>>)
  /\ sent' = [sent EXCEPT ![p] = @ + 1]

\* Mutant: notify_one is forgotten.
PublishSilently(p) ==
  /\ pc[p] = "locked"
  /\ Enqueue(p)
  /\ m' = Nobody
  /\ pc' = [pc EXCEPT ![p] = "idle"]
  /\ UNCHANGED <<stop_requested, notified, received, owed>>

\* queue.push, notify_one, unlock; notify_one wakes some waiter if there is one
Publish(p) ==
  /\ pc[p] = "locked"
  /\ Enqueue(p)
  /\ m' = Nobody
  /\ \/ Waiting = {} /\ pc' = [pc EXCEPT ![p] = "idle"]
     \/ \E c \in Waiting : pc' = [pc EXCEPT ![p] = "idle", ![c] = "woken"]
  /\ UNCHANGED <<stop_requested, notified, received, owed>>

LockForPop(c) ==
  /\ Lock(c, "idle")
  /\ UNCHANGED <<queue, stop_requested, notified, sent, received, owed>>

\* the predicate of wait
EvaluatePredicate(c) ==
  /\ pc[c] = "locked"
  /\ pc' = [pc EXCEPT ![c] =
              IF queue # <<>> \/ stop_requested THEN "take" ELSE "sleep"]
  /\ UNCHANGED <<queue, m, stop_requested, notified, sent, received, owed>>

\* wait releases the mutex and sleeps in one step
Sleep(c) ==
  /\ pc[c] = "sleep"
  /\ pc' = [pc EXCEPT ![c] = "waiting"]
  /\ m' = Nobody
  /\ UNCHANGED <<queue, stop_requested, notified, sent, received, owed>>

WakeSpuriously(c) ==
  /\ pc[c] = "waiting"
  /\ pc' = [pc EXCEPT ![c] = "woken"]
  /\ UNCHANGED <<queue, m, stop_requested, notified, sent, received, owed>>

LockAgain(c) ==
  /\ Lock(c, "woken")
  /\ UNCHANGED <<queue, stop_requested, notified, sent, received, owed>>

\* Mutant: the stop request is looked at before the queue.
TakeUnlessStopped(c) ==
  /\ pc[c] = "take"
  /\ m' = Nobody
  /\ \/ /\ stop_requested
        /\ pc' = [pc EXCEPT ![c] = "stopped"]
        /\ UNCHANGED <<queue, received>>
     \/ /\ ~stop_requested
        /\ pc' = [pc EXCEPT ![c] = "idle"]
        /\ received' = [received EXCEPT ![c] = Append(@, Head(queue))]
        /\ queue' = Tail(queue)
  /\ UNCHANGED <<stop_requested, notified, sent, owed>>

\* Mutant: the default object is taken for a message.
TakeAnything(c) ==
  /\ pc[c] = "take"
  /\ m' = Nobody
  /\ pc' = [pc EXCEPT ![c] = "idle"]
  /\ received' = [received EXCEPT ![c] =
                    Append(@, IF queue = <<>> THEN Empty ELSE Head(queue))]
  /\ queue' = IF queue = <<>> THEN <<>> ELSE Tail(queue)
  /\ UNCHANGED <<stop_requested, notified, sent, owed>>

\* Mutant: the front is copied and not popped.
TakeCopy(c) ==
  /\ pc[c] = "take"
  /\ m' = Nobody
  /\ \/ /\ queue = <<>>
        /\ pc' = [pc EXCEPT ![c] = "stopped"]
        /\ UNCHANGED received
     \/ /\ queue # <<>>
        /\ pc' = [pc EXCEPT ![c] = "idle"]
        /\ received' = [received EXCEPT ![c] = Append(@, Head(queue))]
  /\ UNCHANGED <<queue, stop_requested, notified, sent, owed>>

\* the rest of pop; a consumer that was given nothing stops
Take(c) ==
  /\ pc[c] = "take"
  /\ m' = Nobody
  /\ \/ /\ queue = <<>>
        /\ pc' = [pc EXCEPT ![c] = "stopped"]
        /\ UNCHANGED <<queue, received>>
     \/ /\ queue # <<>>
        /\ pc' = [pc EXCEPT ![c] = "idle"]
        /\ received' = [received EXCEPT ![c] = Append(@, Head(queue))]
        /\ queue' = Tail(queue)
  /\ UNCHANGED <<stop_requested, notified, sent, owed>>

\* try_pop that gets the mutex and a message
TryPop(c) ==
  /\ pc[c] = "idle"
  /\ m = Nobody
  /\ queue # <<>>
  /\ received' = [received EXCEPT ![c] = Append(@, Head(queue))]
  /\ queue' = Tail(queue)
  /\ UNCHANGED <<m, pc, stop_requested, notified, sent, owed>>

-----------------------------------------------------------------------------
\* request_stop of the token's source; the queue's mutex is not taken
RequestStop ==
  /\ ~stop_requested
  /\ stop_requested' = TRUE
  /\ owed' = {queue[i] : i \in 1..Len(queue)}
  /\ UNCHANGED <<queue, m, pc, notified, sent, received>>

\* notify_all wakes every consumer that is waiting at this moment
NotifyAll ==
  /\ stop_requested
  /\ ~notified
  /\ notified' = TRUE
  /\ pc' = [t \in Threads |-> IF t \in Waiting THEN "woken" ELSE pc[t]]
  /\ UNCHANGED <<queue, m, stop_requested, sent, received, owed>>

Push(p) == LockForPush(p) \/ Publish(p)

Pop(c) ==
  \/ LockForPop(c)
  \/ EvaluatePredicate(c)
  \/ Sleep(c)
  \/ LockAgain(c)
  \/ Take(c)

Next ==
  \/ \E p \in Producers : Push(p)
  \/ \E c \in Consumers : Pop(c) \/ WakeSpuriously(c) \/ TryPop(c)
  \/ RequestStop
  \/ NotifyAll

Spec == Init /\ [][Next]_vars

\* The mutex is fair enough for every thread that wants it, threads inside a
\* call go on, consumers call pop again, and a stop request is followed by
\* notify_all.  Nobody has to push or to stop; there may be no spurious wakeup.
Fairness ==
  /\ \A p \in Producers : WF_vars(Publish(p))
  /\ \A c \in Consumers : /\ SF_vars(LockForPop(c))
                          /\ SF_vars(LockAgain(c))
                          /\ WF_vars(EvaluatePredicate(c))
                          /\ WF_vars(Sleep(c))
                          /\ WF_vars(Take(c))
  /\ WF_vars(NotifyAll)

FairSpec == Spec /\ Fairness

-----------------------------------------------------------------------------
\* The types of the state; every object a pop returns was pushed.
TypeOK ==
  /\ queue \in Seq(Message)
  /\ m \in Threads \cup {Nobody}
  /\ pc \in [Threads -> {"idle", "locked", "take", "sleep", "waiting", "woken",
                         "stopped"}]
  /\ stop_requested \in BOOLEAN
  /\ notified \in BOOLEAN
  /\ sent \in [Producers -> 0..MaxMessages]
  /\ received \in [Consumers -> Seq(Message)]
  /\ owed \subseteq Message

Delivered == UNION {{received[c][i] : i \in 1..Len(received[c])} : c \in Consumers}

AllStopped == \A c \in Consumers : pc[c] = "stopped"

Fifo == INSTANCE BoundedFifo WITH
  Capacity <- MaxMessages * Cardinality(Producers),
  items <- queue, enqueued <- sent, delivered <- received

\* The queue implements a FIFO buffer (without a limit of its own).
ImplementsFifo == Fifo!Spec

\* "drain the queue before stopping": a pop returns nothing only after a stop
\* request, and when the last consumer has stopped, every message that was in the
\* queue at the request has been popped.
DrainedBeforeStop ==
  /\ (\E c \in Consumers : pc[c] = "stopped") => stop_requested
  /\ AllStopped => owed \subseteq Delivered

\* Every pushed message is popped unless all consumers have stopped: the
\* notify_one of a push is never lost.
EveryPushDelivered ==
  \A p \in Producers : \A k \in 1..MaxMessages :
    sent[p] >= k ~> <<p, k>> \in Delivered \/ AllStopped

\* "only return an empty vector if the queue was empty => drain the queue before
\* stopping": once the stop is requested and notify_all called, every consumer
\* drains the queue and stops.
StopEndsPops == \A c \in Consumers : notified ~> pc[c] = "stopped"
=============================================================================
