-------------------------- MODULE BasicQueueProofs --------------------------
(***************************************************************************)
(* Proofs about BasicQueue for every number of producers, consumers and    *)
(* messages: type correctness, that the queue is drained before the last   *)
(* consumer stops, and that it implements a FIFO buffer.                   *)
(***************************************************************************)
EXTENDS BasicQueue, FiniteSetTheorems, SequenceTheorems, TLAPS

-----------------------------------------------------------------------------
(* The inductive invariant.                                                *)

InQueue == {queue[i] : i \in 1..Len(queue)}

\* a thread in a critical section holds the mutex
MutexInv == \A t \in Threads : pc[t] \in {"locked", "take", "sleep"} => m = t

PushInv ==
  \A p \in Producers : /\ pc[p] \in {"idle", "locked"}
                       /\ pc[p] = "locked" => sent[p] < MaxMessages

\* what the predicate found is still so when the message is taken
TakeInv == \A c \in Consumers : pc[c] = "take" => queue # <<>> \/ stop_requested

\* the queue holds messages that were pushed, none of them twice
QueueInv ==
  /\ \A i \in 1..Len(queue) : queue[i][2] <= sent[queue[i][1]]
  /\ \A i, j \in 1..Len(queue) : queue[i] = queue[j] => i = j

\* what the stop request found in the queue is there or has been popped, and
\* popped if some consumer found the queue empty after the request
OwedInv == owed \subseteq Delivered \cup InQueue

StoppedInv ==
  \A c \in Consumers : pc[c] = "stopped" => stop_requested /\ owed \subseteq Delivered

Places == {"idle", "locked", "take", "sleep", "waiting", "woken", "stopped"}

ControlInv == MutexInv /\ PushInv /\ TakeInv
DataInv    == QueueInv /\ OwedInv
IInv       == TypeOK /\ ControlInv /\ DataInv /\ StoppedInv

-----------------------------------------------------------------------------
(* What a push and a pop do to the data.                                   *)

LEMMA Lists ==
  ASSUME TypeOK
  PROVE  /\ Len(queue) \in Nat
         /\ \A c \in Consumers : Len(received[c]) \in Nat
BY LenProperties DEF TypeOK

LEMMA MessageType ==
  ASSUME NEW a \in Message
  PROVE  a[1] \in Producers /\ a[2] \in 1..MaxMessages /\ a = <<a[1], a[2]>>
BY DEF Message

\* a push adds one message, which was not in the queue
LEMMA PushStep ==
  ASSUME TypeOK, DataInv, NEW p \in Producers, sent[p] < MaxMessages, Enqueue(p),
         received' = received, owed' = owed
  PROVE  /\ queue' \in Seq(Message) /\ queue' # <<>>
         /\ sent' \in [Producers -> 0..MaxMessages]
         /\ <<p, sent[p] + 1>> \notin InQueue
         /\ DataInv' /\ Delivered' = Delivered
<1> DEFINE new == <<p, sent[p] + 1>>
<1>1. MaxMessages \in Nat /\ sent[p] \in Nat /\ sent[p] + 1 \in 1..MaxMessages
  BY ThreadAssumption DEF TypeOK
<1>2. new \in Message BY <1>1 DEF Message
<1>3. queue \in Seq(Message) BY DEF TypeOK
<1>4. /\ queue' \in Seq(Message) /\ Len(queue) \in Nat /\ Len(queue') = Len(queue) + 1
      /\ queue'[Len(queue) + 1] = new
      /\ \A i \in 1..Len(queue) : queue'[i] = queue[i]
  BY <1>2, <1>3, AppendProperties, LenProperties DEF Enqueue
<1>5. /\ sent' \in [Producers -> 0..MaxMessages] /\ sent'[p] = sent[p] + 1
      /\ \A q \in Producers : q # p => sent'[q] = sent[q]
  BY <1>1 DEF Enqueue, TypeOK
<1>6. \A i \in 1..Len(queue) :
        queue[i] \in Message /\ queue[i][2] <= sent[queue[i][1]] /\ queue[i] # new
  <2> SUFFICES ASSUME NEW i \in 1..Len(queue)
               PROVE  queue[i] \in Message /\ queue[i][2] <= sent[queue[i][1]] /\ queue[i] # new
    OBVIOUS
  <2>1. queue[i] \in Message BY <1>3, ElementOfSeq
  <2>2. queue[i][2] <= sent[queue[i][1]] BY DEF DataInv, QueueInv
  <2>3. ASSUME queue[i] = new PROVE FALSE
    <3>1. queue[i][1] = p /\ queue[i][2] = sent[p] + 1 BY <2>3
    <3>2. sent[p] + 1 <= sent[p] BY <2>2, <3>1
    <3>3. QED BY <1>1, <3>2
  <2>4. QED BY <2>1, <2>2, <2>3
<1>7. \A i \in 1..Len(queue') : i \in 1..Len(queue) \/ i = Len(queue) + 1
  BY <1>4
<1>8. QueueInv'
  <2>1. ASSUME NEW i \in 1..Len(queue') PROVE queue'[i][2] <= sent'[queue'[i][1]]
    <3>1. CASE i \in 1..Len(queue)
      <4>1. /\ queue[i][1] \in Producers /\ queue[i][2] \in Nat
            /\ queue[i][2] <= sent[queue[i][1]] /\ sent[queue[i][1]] \in Nat
        BY <1>1, <1>6, <3>1, MessageType DEF TypeOK
      <4>2. sent'[queue[i][1]] = sent[queue[i][1]] \/ sent'[queue[i][1]] = sent[queue[i][1]] + 1
        BY <1>5, <4>1
      <4>3. queue[i][2] <= sent'[queue[i][1]] BY <4>1, <4>2
      <4>4. QED BY <1>4, <3>1, <4>3
    <3>2. CASE i = Len(queue) + 1
      <4>1. queue'[i][1] = p /\ queue'[i][2] = sent[p] + 1 BY <1>4, <3>2
      <4>2. QED BY <1>1, <1>5, <4>1
    <3>3. QED BY <1>7, <3>1, <3>2
  <2>2. ASSUME NEW i \in 1..Len(queue'), NEW j \in 1..Len(queue'), queue'[i] = queue'[j]
        PROVE  i = j
    <3>1. CASE i \in 1..Len(queue) /\ j \in 1..Len(queue)
      BY <1>4, <2>2, <3>1 DEF DataInv, QueueInv
    <3>2. CASE i \in 1..Len(queue) /\ j = Len(queue) + 1
      BY <1>4, <1>6, <2>2, <3>2
    <3>3. CASE i = Len(queue) + 1 /\ j \in 1..Len(queue)
      BY <1>4, <1>6, <2>2, <3>3
    <3>4. QED BY <1>7, <3>1, <3>2, <3>3
  <2>3. QED BY <2>1, <2>2 DEF QueueInv
<1>9. Delivered' = Delivered BY DEF Delivered
<1>10. InQueue \subseteq InQueue'
  <2> SUFFICES ASSUME NEW i \in 1..Len(queue) PROVE queue[i] \in InQueue' BY DEF InQueue
  <2>1. i \in 1..Len(queue') /\ queue'[i] = queue[i] BY <1>4
  <2>2. QED BY <2>1 DEF InQueue
<1>11. OwedInv' BY <1>9, <1>10 DEF DataInv, OwedInv
<1>12. queue' # <<>> BY <1>4
<1>13. QED BY <1>4, <1>5, <1>6, <1>8, <1>9, <1>11, <1>12 DEF DataInv, InQueue

\* a pop hands the oldest message to its consumer
LEMMA PopStep ==
  ASSUME TypeOK, DataInv, NEW c \in Consumers, queue # <<>>,
         received' = [received EXCEPT ![c] = Append(@, Head(queue))],
         queue' = Tail(queue), sent' = sent, owed' = owed
  PROVE  /\ queue' \in Seq(Message)
         /\ received' \in [Consumers -> Seq(Message)]
         /\ DataInv' /\ Delivered \subseteq Delivered'
<1>1. queue \in Seq(Message) /\ received \in [Consumers -> Seq(Message)] BY DEF TypeOK
<1>2. /\ Len(queue) \in Nat /\ Len(queue) > 0 /\ Head(queue) = queue[1]
      /\ queue[1] \in Message
      /\ queue' \in Seq(Message) /\ Len(queue') = Len(queue) - 1
      /\ \A i \in 1..Len(queue') : queue'[i] = queue[i + 1]
  BY <1>1, HeadTailProperties, LenProperties, EmptySeq
<1>3. received[c] \in Seq(Message) BY <1>1
<1>4. /\ received'[c] \in Seq(Message) /\ Len(received[c]) \in Nat
      /\ Len(received'[c]) = Len(received[c]) + 1
      /\ received'[c][Len(received[c]) + 1] = queue[1]
      /\ \A i \in 1..Len(received[c]) : received'[c][i] = received[c][i]
  BY <1>1, <1>2, <1>3, AppendProperties, LenProperties
<1>5. /\ received' \in [Consumers -> Seq(Message)]
      /\ \A d \in Consumers : d # c => received'[d] = received[d]
  BY <1>1, <1>4
<1>6. \A i \in 1..Len(queue') : i + 1 \in 1..Len(queue) BY <1>2
<1>7. QueueInv'
  <2>1. ASSUME NEW i \in 1..Len(queue') PROVE queue'[i][2] <= sent'[queue'[i][1]]
    BY <1>2, <1>6 DEF DataInv, QueueInv
  <2>2. ASSUME NEW i \in 1..Len(queue'), NEW j \in 1..Len(queue'), queue'[i] = queue'[j]
        PROVE  i = j
    <3>1. queue[i + 1] = queue[j + 1] BY <1>2, <2>2
    <3>2. i + 1 = j + 1 BY <1>6, <3>1 DEF DataInv, QueueInv
    <3>3. QED BY <3>2
  <2>3. QED BY <2>1, <2>2 DEF QueueInv
<1>8. queue[1] \in Delivered'
  <2>1. Len(received[c]) + 1 \in 1..Len(received'[c]) BY <1>4
  <2>2. QED BY <1>4, <2>1 DEF Delivered
<1>9. Delivered \subseteq Delivered'
  <2> SUFFICES ASSUME NEW d \in Consumers, NEW i \in 1..Len(received[d])
               PROVE  received[d][i] \in Delivered'
    BY DEF Delivered
  <2>1. CASE d = c
    <3>1. i \in 1..Len(received'[c]) /\ received'[c][i] = received[c][i] BY <1>4, <2>1
    <3>2. QED BY <2>1, <3>1 DEF Delivered
  <2>2. CASE d # c
    <3>1. received'[d] = received[d] BY <1>5, <2>2
    <3>2. QED BY <3>1 DEF Delivered
  <2>3. QED BY <2>1, <2>2
<1>10. InQueue \subseteq InQueue' \cup {queue[1]}
  <2> SUFFICES ASSUME NEW i \in 1..Len(queue), i # 1 PROVE queue[i] \in InQueue'
    BY DEF InQueue
  <2>1. i - 1 \in 1..Len(queue') /\ (i - 1) + 1 = i BY <1>2
  <2>2. queue'[i - 1] = queue[i] BY <1>2, <2>1
  <2>3. QED BY <2>1, <2>2 DEF InQueue
<1>11. OwedInv' BY <1>8, <1>9, <1>10 DEF DataInv, OwedInv
<1>12. QED BY <1>2, <1>5, <1>7, <1>9, <1>11 DEF DataInv

-----------------------------------------------------------------------------
(* Each action keeps the invariant.                                        *)

LEMMA Initially == Init => IInv
<1> SUFFICES ASSUME Init PROVE IInv OBVIOUS
<1>1. TypeOK
  <2>1. <<>> \in Seq(Message) BY EmptySeq
  <2>2. 0 \in 0..MaxMessages BY ThreadAssumption
  <2>3. QED BY <2>1, <2>2 DEF Init, TypeOK
<1>2. ControlInv BY DEF Init, ControlInv, MutexInv, PushInv, TakeInv, Threads
<1>3. Len(queue) = 0 BY EmptySeq DEF Init
<1>4. DataInv BY <1>3 DEF Init, DataInv, QueueInv, OwedInv
<1>5. StoppedInv BY DEF Init, StoppedInv, Threads
<1>6. QED BY <1>1, <1>2, <1>4, <1>5 DEF IInv

Data == <<queue, sent, received, owed>>

LEMMA DataKept ==
  ASSUME DataInv, UNCHANGED Data PROVE DataInv' /\ Delivered' = Delivered
BY DEF Data, DataInv, QueueInv, OwedInv, InQueue, Delivered

LEMMA TypesKept ==
  ASSUME TypeOK, UNCHANGED Data, UNCHANGED <<stop_requested, notified>>,
         m' \in Threads \cup {Nobody},
         pc' \in [Threads -> Places]
  PROVE  TypeOK'
BY DEF Data, TypeOK, Places

\* A step of one thread from a place that is not "stopped" to one that is not.
LEMMA Moves ==
  ASSUME IInv, UNCHANGED Data, UNCHANGED <<stop_requested, notified>>,
         NEW t \in Threads, NEW place \in {"locked", "take", "sleep", "waiting", "woken"},
         pc' = [pc EXCEPT ![t] = place], ControlInv',
         m' \in Threads \cup {Nobody}
  PROVE  IInv'
<1>1. TypeOK' BY TypesKept DEF IInv, TypeOK, Places
<1>2. DataInv' /\ Delivered' = Delivered BY DataKept DEF IInv
<1>3. StoppedInv' BY <1>2 DEF IInv, StoppedInv, TypeOK, Data, Threads
<1>4. QED BY <1>1, <1>2, <1>3 DEF IInv

LEMMA Locking ==
  ASSUME IInv, NEW t \in Threads, NEW from, Lock(t, from),
         t \in Producers => sent[t] < MaxMessages, UNCHANGED Data,
         UNCHANGED <<stop_requested, notified>>
  PROVE  IInv'
<1>1. m = Nobody /\ m' = t /\ pc' = [pc EXCEPT ![t] = "locked"] BY DEF Lock
<1>2. pc \in [Threads -> Places] BY DEF IInv, TypeOK, Places
<1>3. \A u \in Threads : u # t => pc'[u] = pc[u] /\ pc[u] \notin {"locked", "take", "sleep"}
  BY <1>1, <1>2, ThreadAssumption DEF IInv, ControlInv, MutexInv, Threads
<1>4. ControlInv'
  BY <1>1, <1>2, <1>3 DEF IInv, ControlInv, MutexInv, PushInv, TakeInv, Threads, Data
<1>5. QED BY <1>1, <1>4, Moves

LEMMA PublishKeeps ==
  ASSUME IInv, NEW p \in Producers, Publish(p) PROVE IInv'
<1>1. p \in Threads /\ pc[p] = "locked" /\ m = p /\ m' = Nobody /\ sent[p] < MaxMessages
  BY DEF Publish, IInv, ControlInv, MutexInv, PushInv, Threads
<1>2. /\ queue' \in Seq(Message) /\ queue' # <<>>
      /\ sent' \in [Producers -> 0..MaxMessages]
      /\ DataInv' /\ Delivered' = Delivered
  BY <1>1, PushStep DEF Publish, IInv
<1>3. pc \in [Threads -> Places]
  BY DEF IInv, TypeOK, Places
<1>4. /\ pc' \in [Threads -> Places]
      /\ \A t \in Threads : \/ pc'[t] = pc[t] /\ t # p
                            \/ pc'[t] = "idle" /\ t = p
                            \/ pc'[t] = "woken" /\ t \in Consumers
  <2>1. CASE pc' = [pc EXCEPT ![p] = "idle"] BY <1>1, <1>3, <2>1 DEF Places
  <2>2. ASSUME NEW c \in Waiting, pc' = [pc EXCEPT ![p] = "idle", ![c] = "woken"]
        PROVE  <1>4!1 /\ <1>4!2
    <3>1. c \in Consumers /\ c \in Threads /\ c # p
      BY ThreadAssumption DEF Waiting, Threads
    <3>2. QED BY <1>1, <1>3, <2>2, <3>1 DEF Places
  <2>3. QED BY <2>1, <2>2 DEF Publish
<1>5. \A t \in Threads : t # p => pc[t] \notin {"locked", "take", "sleep"}
  BY <1>1 DEF IInv, ControlInv, MutexInv
<1>6. \A t \in Threads : pc'[t] \notin {"locked", "take", "sleep"} BY <1>4, <1>5
<1>7. \A q \in Producers : pc'[q] = "idle"
  <2> SUFFICES ASSUME NEW q \in Producers PROVE pc'[q] = "idle" OBVIOUS
  <2>1. q \in Threads /\ q \notin Consumers BY ThreadAssumption DEF Threads
  <2>2. pc[q] \in {"idle", "locked"} BY DEF IInv, ControlInv, PushInv
  <2>3. QED BY <1>4, <1>5, <2>1, <2>2
<1>8. ControlInv' BY <1>6, <1>7 DEF ControlInv, MutexInv, PushInv, TakeInv, Threads
<1>9. TypeOK' BY <1>1, <1>2, <1>4 DEF Publish, IInv, TypeOK
<1>10. StoppedInv'
  BY <1>2, <1>4 DEF Publish, IInv, StoppedInv, Threads
<1>11. QED BY <1>2, <1>8, <1>9, <1>10 DEF IInv

LEMMA TakeKeeps ==
  ASSUME IInv, NEW c \in Consumers, Take(c) PROVE IInv'
<1>1. /\ c \in Threads /\ c \notin Producers /\ pc[c] = "take" /\ m = c /\ m' = Nobody
      /\ sent' = sent /\ owed' = owed /\ stop_requested' = stop_requested /\ notified' = notified
  BY ThreadAssumption DEF Take, IInv, ControlInv, MutexInv, Threads
<1>2. pc \in [Threads -> Places]
  BY DEF IInv, TypeOK, Places
<1>3. \A t \in Threads : t # c => pc[t] \notin {"locked", "take", "sleep"}
  BY <1>1 DEF IInv, ControlInv, MutexInv
<1>4. ASSUME NEW place \in {"idle", "stopped"}, pc' = [pc EXCEPT ![c] = place]
      PROVE  /\ ControlInv' /\ pc'[c] = place
             /\ pc' \in [Threads -> Places]
             /\ \A d \in Consumers : d # c => pc'[d] = pc[d]
  <2>1. pc'[c] = place /\ \A t \in Threads : t # c => pc'[t] = pc[t] BY <1>1, <1>2, <1>4
  <2>2. \A t \in Threads : pc'[t] \notin {"locked", "take", "sleep"} BY <1>3, <2>1
  <2>3. \A p \in Producers : pc'[p] = pc[p] BY <1>1, <2>1 DEF Threads
  <2>4. ControlInv'
    BY <1>1, <2>2, <2>3 DEF IInv, ControlInv, MutexInv, PushInv, TakeInv, Threads
  <2>5. QED BY <1>2, <1>4, <2>1, <2>4 DEF Threads, Places
<1>5. CASE queue = <<>> /\ pc' = [pc EXCEPT ![c] = "stopped"] /\ UNCHANGED <<queue, received>>
  <2>1. DataInv' /\ Delivered' = Delivered BY <1>1, <1>5, DataKept DEF IInv, Data
  <2>2. TypeOK' BY <1>1, <1>4, <1>5, TypesKept DEF IInv, Data
  <2>3. stop_requested BY <1>1, <1>5 DEF IInv, ControlInv, TakeInv
  <2>4. InQueue = {} BY <1>5, EmptySeq DEF InQueue
  <2>5. owed \subseteq Delivered BY <2>4 DEF IInv, DataInv, OwedInv
  <2>6. StoppedInv' BY <1>1, <1>4, <1>5, <2>1, <2>3, <2>5 DEF IInv, StoppedInv
  <2>7. QED BY <1>4, <1>5, <2>1, <2>2, <2>6 DEF IInv
<1>6. CASE /\ queue # <<>> /\ pc' = [pc EXCEPT ![c] = "idle"]
           /\ received' = [received EXCEPT ![c] = Append(@, Head(queue))]
           /\ queue' = Tail(queue)
  <2>1. /\ queue' \in Seq(Message) /\ received' \in [Consumers -> Seq(Message)]
        /\ DataInv' /\ Delivered \subseteq Delivered'
    BY <1>1, <1>6, PopStep DEF IInv
  <2>2. TypeOK' BY <1>1, <1>4, <1>6, <2>1 DEF IInv, TypeOK
  <2>3. StoppedInv' BY <1>1, <1>4, <1>6, <2>1 DEF IInv, StoppedInv
  <2>4. QED BY <1>4, <1>6, <2>1, <2>2, <2>3 DEF IInv
<1>7. QED BY <1>5, <1>6 DEF Take

LEMMA TryPopKeeps ==
  ASSUME IInv, NEW c \in Consumers, TryPop(c) PROVE IInv'
<1>1. /\ queue' \in Seq(Message) /\ received' \in [Consumers -> Seq(Message)]
      /\ DataInv' /\ Delivered \subseteq Delivered'
  BY PopStep DEF TryPop, IInv
<1>2. TypeOK' BY <1>1 DEF TryPop, IInv, TypeOK
<1>3. \A t \in Threads : pc[t] \notin {"locked", "take", "sleep"}
  BY ThreadAssumption DEF TryPop, IInv, ControlInv, MutexInv, Threads
<1>4. ControlInv'
  BY <1>3 DEF TryPop, IInv, ControlInv, MutexInv, PushInv, TakeInv, Threads
<1>5. StoppedInv' BY <1>1 DEF TryPop, IInv, StoppedInv
<1>6. QED BY <1>1, <1>2, <1>4, <1>5 DEF IInv

LEMMA RequestStopKeeps ==
  ASSUME IInv, RequestStop PROVE IInv'
<1>1. InQueue \subseteq Message BY ElementOfSeq DEF IInv, TypeOK, InQueue
<1>2. owed' = InQueue /\ InQueue' = InQueue BY DEF RequestStop, InQueue
<1>3. TypeOK' BY <1>1, <1>2 DEF RequestStop, IInv, TypeOK
<1>4. ControlInv' BY DEF RequestStop, IInv, ControlInv, MutexInv, PushInv, TakeInv
<1>5. DataInv'
  <2>1. QueueInv' BY DEF RequestStop, IInv, DataInv, QueueInv
  <2>2. OwedInv' BY <1>2 DEF OwedInv
  <2>3. QED BY <2>1, <2>2 DEF DataInv
<1>6. StoppedInv' BY DEF RequestStop, IInv, StoppedInv
<1>7. QED BY <1>3, <1>4, <1>5, <1>6 DEF IInv

LEMMA NotifyAllKeeps ==
  ASSUME IInv, NotifyAll PROVE IInv'
<1>1. \A t \in Threads : pc'[t] = IF t \in Waiting THEN "woken" ELSE pc[t]
  BY DEF NotifyAll
<1>2. \A t \in Producers : t \notin Waiting BY ThreadAssumption DEF Waiting
<1>3. TypeOK' BY DEF NotifyAll, IInv, TypeOK
<1>4. ControlInv'
  BY <1>1, <1>2 DEF NotifyAll, IInv, ControlInv, MutexInv, PushInv, TakeInv, Threads
<1>5. DataInv' /\ Delivered' = Delivered BY DataKept DEF NotifyAll, IInv, Data
<1>6. StoppedInv' BY <1>1, <1>5 DEF NotifyAll, IInv, StoppedInv, Threads
<1>7. QED BY <1>3, <1>4, <1>5, <1>6 DEF IInv

\* the consumer's steps that only move it: one line of `wait` each
LEMMA WaitKeeps ==
  ASSUME IInv, NEW c \in Consumers,
         EvaluatePredicate(c) \/ Sleep(c) \/ WakeSpuriously(c)
  PROVE  IInv'
<1>1. c \in Threads /\ c \notin Producers BY ThreadAssumption DEF Threads
<1>2. pc \in [Threads -> Places] /\ m \in Threads \cup {Nobody} BY DEF IInv, TypeOK, Places
<1>3. UNCHANGED Data /\ UNCHANGED <<stop_requested, notified>>
  BY DEF EvaluatePredicate, Sleep, WakeSpuriously, Data
<1>4. CASE EvaluatePredicate(c)
  <2> DEFINE place == IF queue # <<>> \/ stop_requested THEN "take" ELSE "sleep"
  <2>1. pc' = [pc EXCEPT ![c] = place] /\ place \in {"take", "sleep"} /\ m' = m /\ m = c
    BY <1>1, <1>4 DEF EvaluatePredicate, IInv, ControlInv, MutexInv
  <2>2. /\ pc'[c] = place
        /\ \A t \in Threads : t # c => pc'[t] = pc[t] /\ pc[t] \notin {"locked", "take", "sleep"}
    BY <1>1, <1>2, <2>1 DEF IInv, ControlInv, MutexInv
  <2>3. ControlInv'
    BY <1>1, <1>3, <2>1, <2>2
    DEF IInv, ControlInv, MutexInv, PushInv, TakeInv, Threads, Data
  <2>4. QED BY <1>1, <1>2, <1>3, <2>1, <2>3, Moves
<1>5. CASE Sleep(c)
  <2>1. pc' = [pc EXCEPT ![c] = "waiting"] /\ m' = Nobody /\ m = c
    BY <1>1, <1>5 DEF Sleep, IInv, ControlInv, MutexInv
  <2>2. /\ pc'[c] = "waiting"
        /\ \A t \in Threads : t # c => pc'[t] = pc[t] /\ pc[t] \notin {"locked", "take", "sleep"}
    BY <1>1, <1>2, <2>1 DEF IInv, ControlInv, MutexInv
  <2>3. ControlInv'
    BY <1>1, <1>3, <2>1, <2>2
    DEF IInv, ControlInv, MutexInv, PushInv, TakeInv, Threads, Data
  <2>4. QED BY <1>1, <1>2, <1>3, <2>1, <2>3, Moves
<1>6. CASE WakeSpuriously(c)
  <2>1. pc' = [pc EXCEPT ![c] = "woken"] /\ m' = m BY <1>6 DEF WakeSpuriously
  <2>2. pc'[c] = "woken" /\ \A t \in Threads : t # c => pc'[t] = pc[t] BY <1>1, <1>2, <2>1
  <2>3. ControlInv'
    BY <1>1, <1>3, <2>1, <2>2
    DEF IInv, ControlInv, MutexInv, PushInv, TakeInv, Threads, Data
  <2>4. QED BY <1>1, <1>2, <1>3, <2>1, <2>3, Moves
<1>7. QED BY <1>4, <1>5, <1>6

LEMMA Inductive == IInv /\ [Next]_vars => IInv'
<1> SUFFICES ASSUME IInv, [Next]_vars PROVE IInv' OBVIOUS
<1>1. ASSUME NEW p \in Producers, LockForPush(p) PROVE IInv'
  BY <1>1, Locking DEF LockForPush, Threads, Data
<1>2. ASSUME NEW p \in Producers, Publish(p) PROVE IInv' BY <1>2, PublishKeeps
<1>3. ASSUME NEW c \in Consumers, LockForPop(c) \/ LockAgain(c) PROVE IInv'
  <2>1. c \in Threads /\ c \notin Producers BY ThreadAssumption DEF Threads
  <2>2. QED BY <1>3, <2>1, Locking DEF LockForPop, LockAgain, Data
<1>4. ASSUME NEW c \in Consumers, EvaluatePredicate(c) \/ Sleep(c) \/ WakeSpuriously(c)
      PROVE IInv'
  BY <1>4, WaitKeeps
<1>5. ASSUME NEW c \in Consumers, Take(c) PROVE IInv' BY <1>5, TakeKeeps
<1>6. ASSUME NEW c \in Consumers, TryPop(c) PROVE IInv' BY <1>6, TryPopKeeps
<1>7. CASE RequestStop BY <1>7, RequestStopKeeps
<1>8. CASE NotifyAll BY <1>8, NotifyAllKeeps
<1>9. CASE UNCHANGED vars
  BY <1>9 DEF vars, IInv, TypeOK, ControlInv, MutexInv, PushInv, TakeInv, DataInv, QueueInv,
              OwedInv, InQueue, StoppedInv, Delivered
<1>10. QED
  BY <1>1, <1>2, <1>3, <1>4, <1>5, <1>6, <1>7, <1>8, <1>9 DEF Next, Push, Pop

LEMMA Invariance == Spec => []IInv
BY Initially, Inductive, PTL DEF Spec

-----------------------------------------------------------------------------
(* The queue keeps its types, and a pop returns only what was pushed.      *)
THEOREM TypeCorrect == Spec => []TypeOK
<1>1. IInv => TypeOK BY DEF IInv
<1>2. QED BY <1>1, Invariance, PTL

(* A pop returns nothing only after a stop request, and the last consumer  *)
(* stops only when everything the request found in the queue was popped:   *)
(* pop(stop_token) of the code.                                            *)
THEOREM Drained == Spec => []DrainedBeforeStop
<1>1. IInv => DrainedBeforeStop
  <2> SUFFICES ASSUME IInv PROVE DrainedBeforeStop OBVIOUS
  <2>1. \A c \in Consumers : pc[c] = "stopped" => stop_requested /\ owed \subseteq Delivered
    BY DEF IInv, StoppedInv
  <2>2. \E c \in Consumers : TRUE BY ThreadAssumption
  <2>3. QED BY <2>1, <2>2 DEF DrainedBeforeStop, AllStopped
<1>2. QED BY <1>1, Invariance, PTL

-----------------------------------------------------------------------------
(* The refinement.                                                         *)

\* A message that is not in the queue leaves room for one more.
LEMMA Room ==
  ASSUME TypeOK, QueueInv, NEW new \in Message, new \notin InQueue
  PROVE  Len(queue) < MaxMessages * Cardinality(Producers)
<1>1. MaxMessages \in Nat /\ IsFiniteSet(Producers) BY ThreadAssumption
<1>2. /\ IsFiniteSet(1..MaxMessages) /\ Cardinality(1..MaxMessages) = MaxMessages
  BY <1>1, FS_Interval
<1>3. /\ IsFiniteSet(Message) /\ Cardinality(Message) = Cardinality(Producers) * MaxMessages
  BY <1>1, <1>2, FS_Product DEF Message
<1>4. queue \in [1..Len(queue) -> Message] /\ Len(queue) \in Nat
  BY LenProperties DEF TypeOK
<1>5. queue \in [1..Len(queue) -> Message \ {new}] BY <1>4 DEF InQueue
<1>6. queue \in Injection(1..Len(queue), Message \ {new})
  BY <1>4, <1>5 DEF Injection, IsInjective, QueueInv
<1>7. /\ IsFiniteSet(Message \ {new})
      /\ Cardinality(Message \ {new}) = Cardinality(Message) - 1
  BY <1>3, FS_RemoveElement
<1>8. Cardinality(1..Len(queue)) <= Cardinality(Message \ {new})
  BY <1>6, <1>7, FS_Injection
<1>9. Cardinality(1..Len(queue)) = Len(queue)
  <2>1. Cardinality(1..Len(queue)) = IF 1 > Len(queue) THEN 0 ELSE Len(queue) - 1 + 1
    BY <1>4, FS_Interval
  <2>2. QED BY <1>4, <2>1
<1>10. Cardinality(Producers) \in Nat BY <1>1, FS_CardinalityType
<1>11. Cardinality(Producers) * MaxMessages = MaxMessages * Cardinality(Producers)
  BY <1>1, <1>10
<1>12. Cardinality(Message) \in Nat BY <1>3, FS_CardinalityType
<1>13. Len(queue) <= Cardinality(Message) - 1 BY <1>7, <1>8, <1>9
<1>14. QED BY <1>3, <1>4, <1>11, <1>12, <1>13

(* push appends the next message of its thread, pop and try_pop take the   *)
(* oldest, and nothing else changes the queue.                             *)
THEOREM RefinesFifo == Spec => ImplementsFifo
<1>1. Init => Fifo!Init BY DEF Init, Fifo!Init
<1>2. IInv /\ [Next]_vars => [Fifo!Next]_(Fifo!vars)
  <2> SUFFICES ASSUME IInv, [Next]_vars PROVE [Fifo!Next]_(Fifo!vars) OBVIOUS
  <2>1. ASSUME NEW p \in Producers, Publish(p) PROVE Fifo!Next
    <3>1. p \in Threads /\ pc[p] = "locked" /\ sent[p] < MaxMessages
      BY <2>1 DEF Publish, IInv, ControlInv, PushInv, Threads
    <3>2. <<p, sent[p] + 1>> \notin InQueue
      BY <2>1, <3>1, PushStep DEF Publish, IInv
    <3>3. <<p, sent[p] + 1>> \in Message
      BY <3>1, ThreadAssumption DEF IInv, TypeOK, Message
    <3>4. Len(queue) < MaxMessages * Cardinality(Producers)
      BY <3>2, <3>3, Room DEF IInv, DataInv
    <3>5. Fifo!Enqueue(p) BY <2>1, <3>1, <3>4 DEF Publish, Enqueue, Fifo!Enqueue
    <3>6. QED BY <3>5 DEF Fifo!Next
  <2>2. ASSUME NEW c \in Consumers, Take(c) PROVE [Fifo!Next]_(Fifo!vars)
    BY <2>2 DEF Take, Fifo!Next, Fifo!Dequeue, Fifo!vars
  <2>3. ASSUME NEW c \in Consumers, TryPop(c) PROVE Fifo!Next
    BY <2>3 DEF TryPop, Fifo!Next, Fifo!Dequeue
  <2>4. CASE UNCHANGED <<queue, sent, received>> BY <2>4 DEF Fifo!vars
  <2>5. QED
    BY <2>1, <2>2, <2>3, <2>4
    DEF Next, Push, Pop, LockForPush, LockForPop, LockAgain, EvaluatePredicate, Sleep,
        WakeSpuriously, RequestStop, NotifyAll, vars
<1>3. QED BY <1>1, <1>2, Invariance, PTL DEF Spec, ImplementsFifo, Fifo!Spec
=============================================================================
