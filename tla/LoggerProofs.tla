---------------------------- MODULE LoggerProofs ----------------------------
(***************************************************************************)
(* Proofs about Logger for every number of clients, ids, sinks, cells and  *)
(* calls: the state is well typed; no request the clients sent before the  *)
(* shutdown is left behind; no sink is called once main has destroyed it;  *)
(* and a sink is told of a thread that reports itself its id only, which   *)
(* no call of set_name or set_parent ever changes.                         *)
(*                                                                         *)
(* The proofs are about the stream: every message ever put into the queue, *)
(* in order, of which the server has taken the first Got.  A step sends a  *)
(* message, serves the next one or does neither (lemma Steps), and each    *)
(* part of the invariant has one lemma for each of these:                  *)
(*   Base       what is typed, how far threads and main have come, and     *)
(*              that the stream holds each sender's requests in order;     *)
(*   MainInv    where main's requests are among those of the others;       *)
(*   LogInv     how often main's sink was called for what was read;        *)
(*   TurnsInv   how threads with the same id follow each other;            *)
(*   CacheInv   what the server's cache says of the threads it has heard.  *)
(* The other kind of step, the end of the program at a name that is read   *)
(* beyond its message, is the last one (lemmas StepKinds, NoStepAfterCrash). *)
(***************************************************************************)
EXTENDS Logger, SequenceTheorems, FiniteSetTheorems, WellFoundedInduction, TLAPS

-----------------------------------------------------------------------------
(* What is sent and how the state is typed.                                *)

Lives    == {"new", "starting", "running", "leaving", "ended"}
Messages == Senders \X (1..MaxMessages)
Real     == ThreadIds \cup {NoId}

\* Requests about threads; those that say whose they are.
About == {"spawn", "exit", "print", "rename", "set_parent"}
Own   == {"spawn", "exit", "print"}

Request1 == [msg : Messages, op : Own, id : ThreadIds]
Request2 == [msg : Messages, op : {"set_parent"}, parent : Real]
Request3 == [msg : Messages, op : {"add_sink", "remove_sink"}, sink : Sinks]
Request4 == [msg : Messages, op : {"kill"}]
Request5 == [msg : Messages, op : {"rename"}, name : Names]
Requests == Request1 \cup Request2 \cup Request3 \cup Request4 \cup Request5

\* What the server reads of a request.
Read2 == [msg : Messages, op : {"set_parent"}, id : Real, parent : {NoId}]
Read5 == [msg : Messages, op : {"rename"}, id : Ids \ ThreadIds, name : Texts]
Read  == Request1 \cup Read2 \cup Request3 \cup Read5

Called == [sink : Sinks, msg : Messages, kind : About, thread : ThreadInfo]

QueueType ==
  /\ items \in Seq(Messages)
  /\ enqueued \in [Senders -> 0..MaxMessages]
  /\ delivered \in [{Server} -> Seq(Messages)]
  /\ requests \in [Senders -> Seq(Requests)]
  /\ \A t \in Senders : Len(requests[t]) = enqueued[t]

ServiceType ==
  /\ sinks \in Seq(Sinks)
  /\ log \in Seq(Called)
  /\ DOMAIN threads \subseteq Ids
  /\ \A i \in DOMAIN threads : threads[i] \in ThreadInfo

LEMMA SenderFacts ==
  /\ Main \in Senders /\ ServerThread \in Senders /\ Main # ServerThread
  /\ Main \notin Clients /\ ServerThread \notin Clients
  /\ \A t \in Clients : t \in Senders /\ t # ServerThread /\ t # Main
  /\ MaxMessages \in Nat
BY LoggerAssumption DEF Senders, MaxMessages

LEMMA ReadType ==
  ASSUME NEW r \in Requests, r.op # "kill", NEW a \in Arguments(r)
  PROVE  /\ a \in Read /\ a.msg = r.msg /\ a.op = r.op /\ a.msg \in Messages
         /\ r.op \in Own => a = r /\ a \in Request1
         /\ r.op = "set_parent" => a \in Read2 /\ a.id = r.parent
         /\ r.op = "rename" => a \in Read5
         /\ r.op \notin About => a = r /\ a \in Request3
<1>1. CASE r \in Request2
  <2>1. r.op = "set_parent" /\ r.msg \in Messages /\ r.parent \in Real BY <1>1 DEF Request2
  <2>2. a = [msg |-> r.msg, op |-> "set_parent", id |-> r.parent, parent |-> NoId]
    BY <2>1 DEF Arguments
  <2>3. a \in Read2 BY <2>1, <2>2 DEF Read2
  <2>4. QED BY <2>1, <2>2, <2>3 DEF Read, Own, About
<1>2. CASE r \in Request5
  <2>1. r.op = "rename" /\ r.msg \in Messages /\ r.name \in Names BY <1>2 DEF Request5
  <2>2. PICK text \in r.name.texts :
          a = [msg |-> r.msg, op |-> "rename", id |-> r.name.number, name |-> text]
    BY <2>1 DEF Arguments
  <2>3. text \in Texts /\ r.name.number \in Ids \ ThreadIds
    BY <2>1, NamesAssumption DEF Texts, Ids
  <2>4. a \in Read5 BY <2>1, <2>2, <2>3 DEF Read5
  <2>5. QED BY <2>1, <2>2, <2>4 DEF Read, Own, About
<1>3. CASE r \in Request1
  <2>1. r.op \in Own /\ r.msg \in Messages BY <1>3 DEF Request1
  <2>2. a = r BY <2>1 DEF Arguments, Own
  <2>3. QED BY <1>3, <2>1, <2>2 DEF Read, Own, About
<1>4. CASE r \in Request3
  <2>1. r.op \in {"add_sink", "remove_sink"} /\ r.msg \in Messages BY <1>4 DEF Request3
  <2>2. a = r BY <2>1 DEF Arguments
  <2>3. QED BY <1>4, <2>1, <2>2 DEF Read, Own, About
<1>5. r \notin Request4 BY DEF Request4
<1>6. QED BY <1>1, <1>2, <1>3, <1>4, <1>5 DEF Requests

-----------------------------------------------------------------------------
(* The stream: every message ever enqueued, in the order of the queue.  The *)
(* first Got of them have been delivered.                                  *)

Got       == Len(delivered[Server])
Total     == Got + Len(items)
Stream(j) == IF j <= Got THEN delivered[Server][j] ELSE items[j - Got]

LEMMA StreamType ==
  ASSUME QueueType
  PROVE  /\ Got \in Nat /\ Total \in Nat /\ Got <= Total
         /\ Len(items) \in Nat /\ Total = Got + Len(items)
         /\ \A j \in 1..Total : Stream(j) \in Messages
<1>1. delivered[Server] \in Seq(Messages) /\ items \in Seq(Messages) BY DEF QueueType
<1>2. Got \in Nat /\ Len(items) \in Nat BY <1>1, LenProperties DEF Got
<1>3. ASSUME NEW j \in 1..Total PROVE Stream(j) \in Messages
  <2>1. CASE j <= Got
    <3>1. j \in 1..Got BY <1>2, <1>3, <2>1 DEF Total
    <3>2. QED BY <1>1, <2>1, <3>1, ElementOfSeq DEF Stream, Got
  <2>2. CASE ~(j <= Got)
    <3>1. j - Got \in 1..Len(items) BY <1>2, <1>3, <2>2 DEF Total
    <3>2. items[j - Got] \in Messages BY <1>1, <3>1, ElementOfSeq
    <3>3. QED BY <2>2, <3>2 DEF Stream
  <2>3. QED BY <2>1, <2>2
<1>4. QED BY <1>2, <1>3 DEF Total

\* A message is put at the end of the stream, with its request.
LEMMA SendEffect ==
  ASSUME QueueType, NEW t \in Senders, NEW r \in Requests, send(t, r)
  PROVE  /\ QueueType'
         /\ enqueued[t] \in Nat /\ enqueued' = [enqueued EXCEPT ![t] = enqueued[t] + 1]
         /\ requests'[t][enqueued[t] + 1] = r
         /\ \A u \in Senders : \A k \in 1..enqueued[u] : requests'[u][k] = requests[u][k]
         /\ \A u \in Senders \ {t} : requests'[u] = requests[u]
         /\ Got' = Got /\ Total' = Total + 1
         /\ \A j \in 1..Total : Stream(j)' = Stream(j)
         /\ \A j : j = Total + 1 => Stream(j)' = <<t, enqueued[t] + 1>>
<1> DEFINE m == <<t, enqueued[t] + 1>>
<1>1. /\ enqueued[t] < MaxMessages /\ items' = Append(items, m)
      /\ enqueued' = [enqueued EXCEPT ![t] = enqueued[t] + 1] /\ delivered' = delivered
      /\ requests' = [requests EXCEPT ![t] = Append(requests[t], r)]
  BY DEF send, Queue!Enqueue
<1>2. enqueued[t] \in Nat /\ enqueued[t] + 1 \in 1..MaxMessages /\ m \in Messages
  BY <1>1, SenderFacts DEF QueueType, Messages
<1>3. Len(requests[t]) = enqueued[t] /\ requests[t] \in Seq(Requests) BY DEF QueueType
<1> HIDE DEF m
<1>4. /\ items \in Seq(Messages) /\ items' \in Seq(Messages) /\ Len(items') = Len(items) + 1
      /\ items'[Len(items) + 1] = m /\ \A j \in 1..Len(items) : items'[j] = items[j]
  BY <1>1, <1>2, AppendProperties DEF QueueType
<1>5. /\ Append(requests[t], r) \in Seq(Requests)
      /\ Len(Append(requests[t], r)) = enqueued[t] + 1
      /\ Append(requests[t], r)[enqueued[t] + 1] = r
      /\ \A k \in 1..enqueued[t] : Append(requests[t], r)[k] = requests[t][k]
  BY <1>3, AppendProperties
<1>6. requests'[t] = Append(requests[t], r) /\ \A u \in Senders \ {t} : requests'[u] = requests[u]
  BY <1>1 DEF QueueType
<1>7. QueueType'
  <2>1. enqueued' \in [Senders -> 0..MaxMessages] BY <1>1, <1>2 DEF QueueType
  <2>2. requests' \in [Senders -> Seq(Requests)] BY <1>1, <1>5 DEF QueueType
  <2>3. ASSUME NEW u \in Senders PROVE Len(requests'[u]) = enqueued'[u]
    <3>1. CASE u = t BY <1>1, <1>5, <1>6, <3>1 DEF QueueType
    <3>2. CASE u # t BY <1>1, <1>6, <3>2 DEF QueueType
    <3>3. QED BY <3>1, <3>2
  <2>4. QED BY <1>1, <1>4, <2>1, <2>2, <2>3 DEF QueueType
<1>8. Got' = Got /\ Got \in Nat /\ Len(items) \in Nat /\ Total = Got + Len(items)
  BY <1>1, StreamType DEF Got
<1>9. Total' = Total + 1 BY <1>4, <1>8 DEF Total
<1>10. ASSUME NEW j \in 1..Total PROVE Stream(j)' = Stream(j)
  <2>1. CASE j <= Got BY <1>1, <1>8, <2>1 DEF Stream
  <2>2. CASE ~(j <= Got)
    <3>1. j - Got \in 1..Len(items) BY <1>8, <1>10, <2>2
    <3>2. items'[j - Got] = items[j - Got] BY <1>4, <3>1
    <3>3. QED BY <1>8, <2>2, <3>2 DEF Stream
  <2>3. QED BY <2>1, <2>2
<1>11. ASSUME NEW j, j = Total + 1 PROVE Stream(j)' = m
  <2>1. ~(j <= Got) /\ j - Got = Len(items) + 1 BY <1>8, <1>11
  <2>2. QED BY <1>4, <1>8, <2>1 DEF Stream
<1>12. QED
  BY <1>1, <1>2, <1>5, <1>6, <1>7, <1>8, <1>9, <1>10, <1>11 DEF m

\* Delivering a message moves the border.
LEMMA TakeEffect ==
  ASSUME QueueType, Queue!Dequeue(Server), UNCHANGED requests
  PROVE  /\ QueueType' /\ UNCHANGED <<enqueued, requests>>
         /\ Got + 1 <= Total /\ Got' = Got + 1 /\ Total' = Total
         /\ \A j \in 1..Total : Stream(j)' = Stream(j)
         /\ \A j : j = Got + 1 => Stream(j) = Head(items)
<1>1. /\ items # <<>> /\ items' = Tail(items) /\ enqueued' = enqueued
      /\ delivered' = [delivered EXCEPT ![Server] = Append(delivered[Server], Head(items))]
  BY DEF Queue!Dequeue
<1>2. /\ items \in Seq(Messages) /\ delivered[Server] \in Seq(Messages)
      /\ Got \in Nat /\ Total = Got + Len(items) /\ Len(items) \in Nat \ {0}
  BY <1>1, StreamType, EmptySeq DEF QueueType
<1>3. /\ Tail(items) \in Seq(Messages) /\ Len(Tail(items)) = Len(items) - 1
      /\ \A j \in 1..Len(Tail(items)) : Tail(items)[j] = items[j + 1]
      /\ Head(items) \in Messages
  BY <1>1, <1>2, HeadTailProperties
<1>4. Head(items) = items[1] BY <1>1, <1>2
<1>5. delivered'[Server] = Append(delivered[Server], Head(items)) BY <1>1 DEF QueueType
<1>6. /\ delivered'[Server] \in Seq(Messages) /\ Got' = Got + 1
      /\ delivered'[Server][Got + 1] = Head(items)
      /\ \A j \in 1..Got : delivered'[Server][j] = delivered[Server][j]
  BY <1>2, <1>3, <1>5, AppendProperties DEF Got
<1>7. QueueType'
  <2>1. delivered' \in [{Server} -> Seq(Messages)] BY <1>1, <1>5, <1>6 DEF QueueType
  <2>2. QED BY <1>1, <1>3, <2>1 DEF QueueType
<1>8. Total' = Total
  <2>1. Len(items') = Len(items) - 1 BY <1>1, <1>3
  <2>2. Total' = Got' + Len(items') BY DEF Total
  <2>3. QED BY <1>2, <1>6, <2>1, <2>2
<1>9. ASSUME NEW j \in 1..Total PROVE Stream(j)' = Stream(j)
  <2>1. Stream(j)' = IF j <= Got + 1 THEN delivered'[Server][j] ELSE items'[j - (Got + 1)]
    BY <1>6 DEF Stream
  <2>2. CASE j <= Got
    <3>1. j \in 1..Got /\ j <= Got + 1 BY <1>2, <1>9, <2>2
    <3>2. QED BY <1>6, <2>1, <2>2, <3>1 DEF Stream
  <2>3. CASE j = Got + 1
    <3>1. ~(j <= Got) /\ j - Got = 1 /\ j <= Got + 1 BY <1>2, <2>3
    <3>2. QED BY <1>4, <1>6, <2>1, <2>3, <3>1 DEF Stream
  <2>4. CASE j > Got + 1
    <3>1. j - (Got + 1) \in 1..Len(items) - 1 /\ (j - (Got + 1)) + 1 = j - Got
          /\ ~(j <= Got) /\ ~(j <= Got + 1)
      BY <1>2, <1>9, <2>4
    <3>2. items'[j - (Got + 1)] = items[j - Got] BY <1>1, <1>3, <3>1
    <3>3. QED BY <2>1, <3>1, <3>2 DEF Stream
  <2>5. QED BY <1>2, <1>9, <2>2, <2>3, <2>4
<1>10. ASSUME NEW j, j = Got + 1 PROVE Stream(j) = Head(items)
  <2>1. ~(j <= Got) /\ j - Got = 1 BY <1>2, <1>10
  <2>2. QED BY <1>4, <2>1 DEF Stream
<1>11. Got + 1 <= Total BY <1>2
<1>12. QED BY <1>1, <1>6, <1>7, <1>8, <1>9, <1>10, <1>11

-----------------------------------------------------------------------------
(* The service.                                                            *)

\* The well-founded order of the naturals, as it is used below.
LEMMA LeastOf ==
  ASSUME NEW S \in SUBSET Nat, S # {}
  PROVE  \E m \in S : \A n \in S : m <= n
<1>1. PICK m \in S : \A n \in S : <<n, m>> \notin OpToRel(<, Nat)
  BY WFMin, NatLessThanWellFounded, Zenon
<1>2. \A n \in S : ~(n < m) BY <1>1 DEF OpToRel
<1>3. QED BY <1>2

Below(K, i) == {j \in K : j <= i}

\* The n-th smallest of a set of positions is one of them.
LEMMA NthOf ==
  ASSUME NEW top \in Nat, NEW K \in SUBSET (1..top), NEW n \in 1..Cardinality(K)
  PROVE  Nth(K, n) \in K
<1> DEFINE S == {i \in 0..top : Cardinality(Below(K, i)) >= n}
<1>0. \A j \in K : j \in Nat /\ j >= 1 /\ j <= top OBVIOUS
<1>1. IsFiniteSet(K) /\ Cardinality(K) \in Nat
  <2>1. IsFiniteSet(1..top) BY FS_Interval
  <2>2. QED BY <2>1, FS_Subset, FS_CardinalityType
<1>2. ASSUME NEW i
      PROVE  IsFiniteSet(Below(K, i)) /\ Cardinality(Below(K, i)) \in Nat
  <2>1. Below(K, i) \in SUBSET K BY DEF Below
  <2>2. QED BY <1>1, <2>1, FS_Subset, FS_CardinalityType
<1>3. Below(K, top) = K BY <1>0 DEF Below
<1>4. PICK m \in S : \A i \in S : m <= i
  <2>1. top \in S BY <1>1, <1>3
  <2>2. S # {} /\ S \in SUBSET Nat BY <2>1
  <2> HIDE DEF S
  <2>3. QED BY <2>2, LeastOf
<1>5. m \in Nat /\ m <= top /\ Cardinality(Below(K, m)) >= n BY <1>4
<1>6. m # 0
  <2>0. \A j \in K : ~(j <= 0) BY <1>0
  <2>1. Below(K, 0) = {} BY <2>0 DEF Below
  <2>2. Cardinality(Below(K, 0)) = 0 BY <2>1, FS_EmptySet
  <2>3. QED BY <1>5, <2>2
<1>7. m - 1 \in Nat /\ m - 1 <= top /\ Cardinality(Below(K, m - 1)) < n
  <2>1. m - 1 \in 0..top /\ ~(m <= m - 1) BY <1>5, <1>6
  <2>2. m - 1 \notin S BY <1>4, <2>1
  <2>3. ~(Cardinality(Below(K, m - 1)) >= n) BY <2>1, <2>2
  <2>4. QED BY <1>2, <2>1, <2>3
<1> HIDE DEF S
<1>8. m \in K
  <2> SUFFICES ASSUME m \notin K PROVE FALSE
    OBVIOUS
  <2>1. \A j \in K : j <= m <=> j <= m - 1 BY <1>0, <1>5
  <2>2. Below(K, m) = Below(K, m - 1) BY <2>1 DEF Below
  <2>3. QED BY <1>2, <1>5, <1>7, <2>2
<1>9. Cardinality(Below(K, m)) = Cardinality(Below(K, m - 1)) + 1
  <2>1. \A j \in K : j <= m <=> j <= m - 1 \/ j = m BY <1>0, <1>5
  <2>2. m \notin Below(K, m - 1) BY <1>5 DEF Below
  <2>3. m <= m BY <1>5
  <2>4. Below(K, m) = Below(K, m - 1) \cup {m} BY <1>8, <2>1, <2>3 DEF Below
  <2>5. QED BY <1>2, <2>2, <2>4, FS_AddElement
<1>10. Cardinality(Below(K, m)) = n BY <1>2, <1>5, <1>7, <1>9
<1>11. Nth(K, n) = CHOOSE i \in K : Cardinality(Below(K, i)) = n BY DEF Nth, Below
<1>12. QED BY <1>8, <1>10, <1>11

\* What std::erase leaves is a list of sinks.
LEMMA Erased ==
  ASSUME ServiceType, NEW r, remove_sink(r)
  PROVE  sinks' \in Seq(Sinks)
<1> DEFINE kept == {i \in 1..Len(sinks) : sinks[i] # r.sink}
           n == Cardinality(kept)
<1>1. Len(sinks) \in Nat /\ sinks \in Seq(Sinks) BY LenProperties DEF ServiceType
<1>2. n \in Nat
  <2>1. IsFiniteSet(1..Len(sinks)) /\ kept \in SUBSET (1..Len(sinks)) BY <1>1, FS_Interval
  <2> HIDE DEF kept
  <2>2. QED BY <2>1, FS_Subset, FS_CardinalityType
<1>3. ASSUME NEW k \in 1..n PROVE sinks[Nth(kept, k)] \in Sinks
  <2>1. Nth(kept, k) \in kept BY <1>1, NthOf
  <2>2. QED BY <1>1, <2>1, ElementOfSeq
<1>4. sinks' = [k \in 1..n |-> sinks[Nth(kept, k)]] BY DEF remove_sink
<1> HIDE DEF n, kept
<1>5. sinks' \in [1..n -> Sinks] BY <1>3, <1>4
<1>6. QED BY <1>2, <1>5

\* Every subscribed sink is called once, after everything before.
LEMMA Logged ==
  ASSUME ServiceType, NEW m \in Messages, NEW kind \in About, NEW info \in ThreadInfo,
         Dispatch(m, kind, info)
  PROVE  /\ log' \in Seq(Called) /\ Len(log') = Len(log) + Len(sinks)
         /\ Len(log) \in Nat /\ Len(sinks) \in Nat
         /\ \A i \in 1..Len(log) : log'[i] = log[i]
         /\ \A i \in Len(log) + 1..Len(log) + Len(sinks) :
              log'[i].msg = m /\ log'[i].kind = kind /\ log'[i].thread = info
<1> DEFINE n == Len(sinks)
           more == [i \in 1..n |->
                     [sink |-> sinks[i], msg |-> m, kind |-> kind, thread |-> info]]
<1>1. /\ n \in Nat /\ Len(log) \in Nat /\ log \in Seq(Called)
      /\ \A i \in 1..n : sinks[i] \in Sinks
  BY LenProperties, ElementOfSeq DEF ServiceType
<1>2. log' = log \o more BY DEF Dispatch
<1>3. \A i \in 1..n : [sink |-> sinks[i], msg |-> m, kind |-> kind, thread |-> info] \in Called
  BY <1>1 DEF Called
<1> HIDE DEF n
<1>4. more \in Seq(Called) /\ Len(more) = n BY <1>1, <1>3
<1>5. \A i \in 1..n : more[i].msg = m /\ more[i].kind = kind /\ more[i].thread = info
  OBVIOUS
<1> HIDE DEF more
<1>6. /\ log' \in Seq(Called) /\ Len(log') = Len(log) + n
      /\ \A i \in 1..Len(log) + n : log'[i] = IF i <= Len(log) THEN log[i] ELSE more[i - Len(log)]
  BY <1>1, <1>2, <1>4, ConcatProperties
<1>7. ASSUME NEW i \in Len(log) + 1..Len(log) + n
      PROVE  log'[i].msg = m /\ log'[i].kind = kind /\ log'[i].thread = info
  <2>1. ~(i <= Len(log)) /\ i \in 1..Len(log) + n /\ i - Len(log) \in 1..n BY <1>1, <1>7
  <2>2. log'[i] = more[i - Len(log)] BY <1>6, <2>1
  <2>3. QED BY <1>5, <2>1, <2>2
<1>8. \A i \in 1..Len(log) : log'[i] = log[i] BY <1>1, <1>6
<1>9. QED BY <1>1, <1>6, <1>7, <1>8 DEF n

LEMMA EntryType ==
  ASSUME ServiceType
  PROVE  /\ \A i \in Ids : Entry(i) \in ThreadInfo
         /\ \A i \in ThreadIds : /\ Info(i) \in ThreadInfo
                                 /\ [Entry(i) EXCEPT !.id = i] \in ThreadInfo
         /\ [Entry(NoId) EXCEPT !.id = NoId] \in ThreadInfo
         /\ ThreadIds \subseteq Ids /\ NoId \in Ids
<1>1. Default \in ThreadInfo /\ \A i \in Real : [Default EXCEPT !.id = i] \in ThreadInfo
  BY DEF Default, ThreadInfo, Real
<1>2. ThreadIds \subseteq Real /\ NoId \in Real /\ Real \subseteq Ids BY DEF Real, Ids
<1>3. \A i : Entry(i) \in ThreadInfo BY <1>1 DEF ServiceType, Entry
<1>4. \A i \in Real : [Entry(i) EXCEPT !.id = i] \in ThreadInfo
  BY <1>3 DEF ThreadInfo, Real
<1>5. \A i \in Real : Info(i) \in ThreadInfo BY <1>1 DEF ServiceType, Info
<1>6. QED BY <1>2, <1>3, <1>4, <1>5

\* What the sinks are told of the thread of a request.
Shown(r) ==
  CASE r.op \in {"print", "exit"} -> Info(r.id)
    [] r.op = "spawn" -> [Entry(r.id) EXCEPT !.id = r.id]
    [] r.op = "rename" -> Entry(r.id)
    [] r.op = "set_parent" -> IF r.id = NoId THEN [Entry(r.id) EXCEPT !.id = r.id]
                              ELSE Entry(r.id)

\* The table the service has after it.
Table(r) ==
  CASE r.op = "print" -> threads
    [] r.op = "exit" -> [i \in DOMAIN threads \ {r.id} |-> threads[i]]
    [] r.op = "spawn" -> Store(r.id, Shown(r))
    [] r.op = "rename" -> Store(r.id, [Shown(r) EXCEPT !.name = r.name])
    [] r.op = "set_parent" ->
         [i \in DOMAIN threads \cup {r.id, NoId} |->
            CASE i = r.id -> [Shown(r) EXCEPT !.parent = NoId]
              [] i = NoId /\ i # r.id -> [Entry(NoId) EXCEPT !.id = NoId]
              [] OTHER -> threads[i]]

\* A request about a thread is told to every sink, and changes no sink.
LEMMA AboutThreads ==
  ASSUME ServiceType, NEW r \in Read, r.op \in About, dispatch(r)
  PROVE  /\ ServiceType' /\ UNCHANGED sinks
         /\ Dispatch(r.msg, r.op, Shown(r))
         /\ Shown(r) \in ThreadInfo /\ r.msg \in Messages
         /\ threads' = Table(r)
<1>1. r.msg \in Messages BY DEF Read, Request1, Read2, Request3, Read5
<1>2. /\ r.op \in Own => r.id \in ThreadIds
      /\ r.op = "rename" => r.id \in Ids /\ r.name \in Texts
      /\ r.op = "set_parent" => r.id \in Ids /\ r.parent = NoId
  BY EntryType DEF Read, Request1, Read2, Request3, Read5, Own, About, Real
<1>3. Shown(r) \in ThreadInfo BY <1>2, EntryType DEF Shown, About, Own
<1>4. sinks' = sinks /\ Dispatch(r.msg, r.op, Shown(r)) /\ threads' = Table(r)
  <2>1. CASE r.op = "print"
    <3>1. handle_print(r) BY <2>1 DEF dispatch
    <3>2. Shown(r) = Info(r.id) /\ Table(r) = threads BY <2>1 DEF Shown, Table
    <3>3. QED BY <2>1, <3>1, <3>2 DEF handle_print
  <2>2. CASE r.op = "spawn"
    <3>1. spawn(r) BY <2>2 DEF dispatch
    <3>2. Shown(r) = [Entry(r.id) EXCEPT !.id = r.id] /\ Table(r) = Store(r.id, Shown(r))
      BY <2>2 DEF Shown, Table
    <3>3. QED BY <2>2, <3>1, <3>2 DEF spawn
  <2>3. CASE r.op = "exit"
    <3>1. exit(r) BY <2>3 DEF dispatch
    <3>2. /\ Shown(r) = Info(r.id)
          /\ Table(r) = [i \in DOMAIN threads \ {r.id} |-> threads[i]]
      BY <2>3 DEF Shown, Table
    <3>3. QED BY <2>3, <3>1, <3>2 DEF exit
  <2>4. CASE r.op = "rename"
    <3>1. rename(r) BY <2>4 DEF dispatch
    <3>2. /\ Shown(r) = Entry(r.id)
          /\ Table(r) = Store(r.id, [Shown(r) EXCEPT !.name = r.name])
      BY <2>4 DEF Shown, Table
    <3>3. QED BY <2>4, <3>1, <3>2 DEF rename
  <2>5. CASE r.op = "set_parent"
    <3>1. set_parent(r) /\ r.parent = NoId BY <1>2, <2>5 DEF dispatch
    <3>2. Shown(r) = IF r.id = NoId THEN [Entry(NoId) EXCEPT !.id = NoId] ELSE Entry(r.id)
      BY <2>5 DEF Shown
    <3>3. Table(r) = [i \in DOMAIN threads \cup {r.id, NoId} |->
                        CASE i = r.id -> [Shown(r) EXCEPT !.parent = NoId]
                          [] i = NoId /\ i # r.id -> [Entry(NoId) EXCEPT !.id = NoId]
                          [] OTHER -> threads[i]]
      BY <2>5 DEF Table
    <3>4. QED BY <2>5, <3>1, <3>2, <3>3 DEF set_parent
  <2>6. QED BY <2>1, <2>2, <2>3, <2>4, <2>5 DEF About
<1>5. log' \in Seq(Called) BY <1>1, <1>3, <1>4, Logged
<1>6. DOMAIN Table(r) \subseteq Ids /\ \A i \in DOMAIN Table(r) : Table(r)[i] \in ThreadInfo
  <2>1. CASE r.op = "print" BY <2>1 DEF Table, ServiceType
  <2>2. CASE r.op = "spawn"
    <3>1. Table(r) = Store(r.id, Shown(r)) /\ r.id \in Ids
      BY <1>2, <2>2, EntryType DEF Table, Own
    <3>2. QED BY <1>3, <3>1 DEF Store, ServiceType
  <2>3. CASE r.op = "exit" BY <2>3 DEF Table, ServiceType
  <2>4. CASE r.op = "rename"
    <3>1. Table(r) = Store(r.id, [Shown(r) EXCEPT !.name = r.name]) BY <2>4 DEF Table
    <3>2. [Shown(r) EXCEPT !.name = r.name] \in ThreadInfo BY <1>2, <1>3, <2>4 DEF ThreadInfo
    <3>3. QED BY <1>2, <2>4, <3>1, <3>2 DEF Store, ServiceType
  <2>5. CASE r.op = "set_parent"
    <3> DEFINE linked == [Shown(r) EXCEPT !.parent = NoId]
               parent == [Entry(NoId) EXCEPT !.id = NoId]
    <3>1. linked \in ThreadInfo /\ parent \in ThreadInfo
      BY <1>3, EntryType DEF ThreadInfo
    <3>2. Table(r) = [i \in DOMAIN threads \cup {r.id, NoId} |->
                        CASE i = r.id -> linked
                          [] i = NoId /\ i # r.id -> parent
                          [] OTHER -> threads[i]]
      BY <2>5 DEF Table
    <3> HIDE DEF linked, parent
    <3>3. QED BY <1>2, <2>5, <3>1, <3>2, EntryType DEF ServiceType
  <2>6. QED BY <2>1, <2>2, <2>3, <2>4, <2>5 DEF About
<1>7. QED BY <1>1, <1>3, <1>4, <1>5, <1>6 DEF ServiceType

\* The other requests only change the list of sinks.
LEMMA AboutSinks ==
  ASSUME ServiceType, NEW r \in Read, r.op \notin About, dispatch(r)
  PROVE  /\ ServiceType' /\ UNCHANGED <<threads, log>>
         /\ \/ r.op = "add_sink" /\ sinks' = Append(sinks, r.sink)
            \/ r.op = "remove_sink"
<1>1. CASE r.op = "add_sink"
  <2>1. r.sink \in Sinks
    BY <1>1 DEF Read, Request1, Read2, Request3, Read5, Own
  <2>2. sinks' = Append(sinks, r.sink) /\ UNCHANGED <<threads, log>>
    BY <1>1 DEF dispatch, add_sink
  <2>3. QED BY <1>1, <2>1, <2>2, AppendProperties DEF ServiceType
<1>2. CASE r.op = "remove_sink"
  <2>1. remove_sink(r) BY <1>2 DEF dispatch
  <2>2. UNCHANGED <<threads, log>> BY <2>1 DEF remove_sink
  <2>3. QED BY <1>2, <2>1, <2>2, Erased DEF ServiceType
<1>3. QED BY <1>1, <1>2 DEF dispatch, About

-----------------------------------------------------------------------------
(* Threads and what main waits for.                                        *)

AfterKill == {"killed", "joined", "done"}

\* Only main runs before it has started the server; the server thread has ended
\* when main has joined it; if main joins the clients they have ended at its
\* shutdown; the sink is destroyed at the end.
LifeInv ==
  /\ life \in [Senders -> Lives]
  /\ tid \in [Senders -> Real]
  /\ reporting \subseteq Senders /\ joins \in BOOLEAN /\ sink_alive \in BOOLEAN
  /\ main_at \in {"setup", "subscribed", "serving"} \cup AfterKill
  /\ tid[Main] = MainId /\ tid[ServerThread] = ServerId
  /\ \A t \in Clients : /\ life[t] = "new" => tid[t] = NoId
                        /\ life[t] # "new" => tid[t] \in ClientIds
                        /\ life[t] # "leaving"
  /\ main_at \in {"setup", "subscribed"} => \A t \in Senders \ {Main} : life[t] = "new"
  /\ life[Main] = "starting" => main_at = "setup"
  /\ life[Main] # "new"
  /\ joins /\ main_at \in AfterKill => \A t \in Clients : life[t] \in {"new", "ended"}
  /\ main_at \in {"joined", "done"} => life[ServerThread] = "ended"
  /\ ~sink_alive => main_at = "done"

\* A thread that has been started has one of the ids.
LEMMA IdOf ==
  ASSUME LifeInv, NEW t \in Senders, life[t] # "new"
  PROVE  tid[t] \in ThreadIds
BY LoggerAssumption DEF LifeInv, Senders, ClientIds

LEMMA LifeInit == Init => LifeInv
<1> SUFFICES ASSUME Init PROVE LifeInv OBVIOUS
<1>1. tid \in [Senders -> Real] BY LoggerAssumption DEF Init, Real
<1>2. life \in [Senders -> Lives] BY DEF Init, Lives
<1>3. reporting \subseteq Senders /\ joins \in BOOLEAN
  BY LoggerAssumption DEF Init, Senders
<1>4. /\ tid[Main] = MainId /\ tid[ServerThread] = ServerId
      /\ \A t \in Clients : tid[t] = NoId /\ life[t] = "new"
  BY SenderFacts DEF Init
<1>5. QED BY <1>1, <1>2, <1>3, <1>4, SenderFacts DEF Init, LifeInv, AfterKill

\* One thread goes on with its life, from a place that is not its end, and main
\* does not.
LEMMA LifeGoesOn ==
  ASSUME LifeInv, NEW t \in Senders, NEW place \in {"running", "leaving", "ended"},
         life[t] \in {"starting", "running", "leaving"},
         place = "leaving" => t = ServerThread,
         life' = [life EXCEPT ![t] = place],
         UNCHANGED <<tid, choices, main_at, sink_alive>>
  PROVE  LifeInv'
<1>1. life' \in [Senders -> Lives] BY DEF LifeInv, Lives
<1>2. life'[t] = place /\ \A u \in Senders \ {t} : life'[u] = life[u] BY DEF LifeInv
<1>3. \A u \in Clients : /\ life'[u] = "new" => tid[u] = NoId
                         /\ life'[u] # "new" => tid[u] \in ClientIds
                         /\ life'[u] # "leaving"
  BY <1>2, SenderFacts DEF LifeInv
<1>4. main_at \in {"setup", "subscribed"} => \A u \in Senders \ {Main} : life'[u] = "new"
  BY <1>2 DEF LifeInv
<1>5. joins /\ main_at \in AfterKill => \A u \in Clients : life'[u] \in {"new", "ended"}
  BY <1>2, SenderFacts DEF LifeInv
<1>6. main_at \in {"joined", "done"} => life'[ServerThread] = "ended"
  BY <1>2, SenderFacts DEF LifeInv
<1>7. /\ life'[Main] = "starting" => main_at = "setup"
      /\ life'[Main] # "new"
  BY <1>2, SenderFacts DEF LifeInv
<1>8. QED BY <1>1, <1>3, <1>4, <1>5, <1>6, <1>7 DEF LifeInv, choices

\* A step that does not end the program.
Work ==
  \/ \E t \in Clients : Client(t)
  \/ ServerLoop
  \/ MainThread

LEMMA LifeNext ==
  ASSUME LifeInv, [Work]_vars PROVE LifeInv'
<1> USE SenderFacts
<1>1. ASSUME NEW t \in Senders, StartReporting(t) PROVE LifeInv'
  BY <1>1, LifeGoesOn DEF StartReporting
<1>2. ASSUME NEW t \in Senders, NEW from \in {"running", "leaving"}, EndReporting(t, from)
      PROVE  LifeInv'
  BY <1>2, LifeGoesOn DEF EndReporting
<1>3. ASSUME NEW t \in Clients, NEW id \in ClientIds, StartClient(t, id) PROVE LifeInv'
  <2>1. /\ life[t] = "new" /\ main_at = "serving" /\ life' = [life EXCEPT ![t] = "starting"]
        /\ tid' = [tid EXCEPT ![t] = id] /\ UNCHANGED <<choices, main_at, sink_alive>>
    BY <1>3 DEF StartClient
  <2>2. id \in Real BY DEF ClientIds, Real
  <2>3. life' \in [Senders -> Lives] /\ tid' \in [Senders -> Real]
    BY <2>1, <2>2 DEF LifeInv, Lives
  <2>4. /\ life'[t] = "starting" /\ tid'[t] = id
        /\ \A u \in Senders \ {t} : life'[u] = life[u] /\ tid'[u] = tid[u]
    BY <2>1 DEF LifeInv
  <2>5. QED BY <2>1, <2>3, <2>4 DEF LifeInv, choices, AfterKill
<1>4. ASSUME NEW t \in Clients, CanCall(t) PROVE LifeInv'
  BY <1>4 DEF CanCall, LifeInv, status, choices
<1>5. CASE Serve
  <2>1. CASE life' = [life EXCEPT ![ServerThread] = "leaving"]
    BY <1>5, <2>1, LifeGoesOn DEF Serve
  <2>2. CASE UNCHANGED life BY <1>5, <2>2 DEF Serve, LifeInv, choices
  <2>3. QED BY <1>5, <2>1, <2>2 DEF Serve
<1>6. ASSUME NEW s \in Sinks, AddSink(s) \/ RemoveSink(s) PROVE LifeInv'
  <2>1. /\ life[Main] = "running" /\ UNCHANGED <<life, tid, choices, sink_alive>>
        /\ \/ main_at = "setup" /\ main_at' = "subscribed"
           \/ main_at = "serving" /\ main_at' = "serving"
    BY <1>6 DEF AddSink, RemoveSink, MainAt, status
  <2>2. QED BY <2>1 DEF LifeInv, choices, AfterKill
<1>7. CASE StartServer
  <2>1. /\ life[Main] = "running" /\ main_at = "subscribed" /\ main_at' = "serving"
        /\ life' = [life EXCEPT ![ServerThread] = "starting"]
        /\ UNCHANGED <<tid, choices, sink_alive>>
    BY <1>7 DEF StartServer, MainAt
  <2>2. life' \in [Senders -> Lives] BY <2>1 DEF LifeInv, Lives
  <2>3. \A u \in Senders \ {ServerThread} : life'[u] = life[u] BY <2>1 DEF LifeInv
  <2>4. QED BY <2>1, <2>2, <2>3 DEF LifeInv, choices, AfterKill
<1>8. CASE Shutdown \/ JoinServer \/ DestroySink
  <2>1. /\ life[Main] = "running" /\ UNCHANGED <<life, tid, choices>>
        /\ sink_alive' = sink_alive \/ (main_at' = "done" /\ sink_alive' = FALSE)
        /\ \/ /\ main_at = "serving" /\ main_at' = "killed" /\ sink_alive' = sink_alive
              /\ joins => \A t \in Clients : life[t] \in {"new", "ended"}
           \/ main_at = "killed" /\ main_at' = "joined" /\ life[ServerThread] = "ended"
              /\ sink_alive' = sink_alive
           \/ main_at = "joined" /\ main_at' = "done"
    BY <1>8 DEF Shutdown, JoinServer, DestroySink, MainAt, status
  <2>2. sink_alive' \in BOOLEAN /\ (~sink_alive' => main_at' = "done")
    <3>1. sink_alive \in BOOLEAN /\ (~sink_alive => main_at = "done") BY DEF LifeInv
    <3>2. CASE main_at' = "done" BY <2>1, <3>1, <3>2
    <3>3. CASE main_at' # "done"
      <4>1. sink_alive' = sink_alive /\ main_at # "done" BY <2>1, <3>3
      <4>2. QED BY <3>1, <4>1
    <3>4. QED BY <3>2, <3>3
  <2>3. joins /\ main_at' \in AfterKill => \A t \in Clients : life[t] \in {"new", "ended"}
    BY <2>1 DEF LifeInv, AfterKill
  <2>4. main_at' \in {"joined", "done"} => life[ServerThread] = "ended"
    BY <2>1 DEF LifeInv
  <2>5. main_at' \in AfterKill BY <2>1 DEF AfterKill
  <2>6. QED BY <2>1, <2>2, <2>3, <2>4, <2>5 DEF LifeInv, choices, AfterKill
<1>9. CASE UNCHANGED vars BY <1>9 DEF vars, status, choices, LifeInv
<1>10. QED
  BY <1>1, <1>2, <1>3, <1>4, <1>5, <1>6, <1>7, <1>8, <1>9
  DEF Work, Client, CallPrint, CallRename, CallSetParent, ServerLoop, MainThread

-----------------------------------------------------------------------------
(* The kinds of steps: a message is sent, one is served, or neither.       *)

\* A sender pushes a request, and what that says of the sender.
Sends(t, r) ==
  /\ send(t, r)
  /\ UNCHANGED <<service, tid, choices>>
  /\ r.msg = identity(t)
  /\ r.op \in Own => r.id = tid[t]
  /\ t # Main => r.op \in About
  /\ t \notin Clients => r.op \notin {"print", "rename", "set_parent"}
  /\ r.op \in {"spawn", "exit"} => t \in reporting
  /\ life[t] \in {"starting", "running", "leaving"}
  /\ life'[t] \in {"running", "leaving", "ended"}
  /\ \A u \in Senders \ {t} : life'[u] = life[u]
  /\ t = ServerThread /\ life'[t] \in {"leaving", "ended"} => life[t] = "leaving"
  /\ r.op = "spawn" <=> life[t] = "starting"
  /\ r.op = "exit" <=> life'[t] = "ended"
  /\ CASE r.op = "kill" -> main_at = "serving" /\ main_at' = "killed"
       [] r.op = "add_sink" -> main_at = "setup" /\ main_at' = "subscribed"
       [] OTHER -> main_at' = main_at

\* A thread starts, or goes on without reporting.
Lives_on(u) ==
  \/ UNCHANGED <<life[u], tid[u]>>
  \/ /\ u \in Clients /\ main_at = "serving"
     /\ life[u] = "new" /\ life'[u] = "starting" /\ tid'[u] \in ClientIds
     /\ \A v \in Clients : tid[v] = tid'[u] => life[v] = "ended"
     /\ \A v \in Senders \ {u} : UNCHANGED <<life[v], tid[v]>>
  \/ /\ u = ServerThread /\ life[u] = "new" /\ life'[u] = "starting" /\ tid'[u] = tid[u]
  \/ /\ u \notin reporting /\ tid'[u] = tid[u]
     /\ \/ life[u] = "starting" /\ life'[u] = "running"
        \/ life[u] \in {"running", "leaving"} /\ life'[u] = "ended"
     /\ u = ServerThread /\ life'[u] = "ended" => life[u] = "leaving"

Quiet ==
  /\ UNCHANGED <<service, queue, requests, choices>>
  /\ \A u \in Senders : Lives_on(u)
  /\ \/ main_at' = main_at
     \/ main_at = "subscribed" /\ main_at' = "serving"
     \/ main_at \in AfterKill /\ main_at' \in AfterKill

\* A request is well formed.
LEMMA RequestType ==
  ASSUME QueueType, LifeInv, NEW t \in Senders, NEW r, send(t, r)
  PROVE  identity(t) \in Messages
BY SenderFacts DEF QueueType, send, Queue!Enqueue, identity, Messages

LEMMA ReportType ==
  ASSUME QueueType, LifeInv, NEW t \in Senders, life[t] # "new",
         NEW op \in Own, send(t, report(t, op))
  PROVE  /\ report(t, op) \in Requests /\ report(t, op).msg = identity(t)
         /\ report(t, op).op = op /\ report(t, op).id = tid[t]
<1>1. identity(t) \in Messages BY RequestType
<1>2. tid[t] \in ThreadIds BY IdOf
<1>3. report(t, op) = [msg |-> identity(t), op |-> op, id |-> tid[t]] BY DEF report
<1>4. report(t, op) \in Request1 BY <1>1, <1>2, <1>3 DEF Request1
<1>5. QED BY <1>3, <1>4 DEF Requests

LEMMA Steps ==
  ASSUME QueueType, LifeInv, [Work]_vars
  PROVE  \/ Serve
         \/ \E t \in Senders : \E r \in Requests : Sends(t, r)
         \/ Quiet
<1> DEFINE Goal == \/ \E t \in Senders : \E r \in Requests : Sends(t, r)
                   \/ Quiet
<1> USE SenderFacts
<1>1. ASSUME NEW t \in Senders, StartReporting(t) PROVE Goal
  <2>1. /\ life[t] = "starting" /\ life' = [life EXCEPT ![t] = "running"]
        /\ UNCHANGED <<service, tid, choices, main_at, sink_alive>>
    BY <1>1 DEF StartReporting
  <2>2. life'[t] = "running" /\ \A u \in Senders \ {t} : life'[u] = life[u]
    BY <2>1 DEF LifeInv
  <2>3. CASE t \in reporting
    <3> DEFINE r == report(t, "spawn")
    <3>1. send(t, r) BY <1>1, <2>3 DEF StartReporting
    <3>2. r \in Requests /\ r.msg = identity(t) /\ r.op = "spawn" /\ r.id = tid[t]
      BY <2>1, <3>1, ReportType DEF Own
    <3> HIDE DEF r
    <3>3. Sends(t, r) BY <2>1, <2>2, <2>3, <3>1, <3>2 DEF Sends, About, Own
    <3>4. QED BY <3>2, <3>3
  <2>4. CASE t \notin reporting
    <3>1. UNCHANGED <<queue, requests>> BY <1>1, <2>4 DEF StartReporting
    <3>2. \A u \in Senders : Lives_on(u) BY <2>1, <2>2, <2>4 DEF Lives_on
    <3>3. QED BY <2>1, <3>1, <3>2 DEF Quiet
  <2>5. QED BY <2>3, <2>4
<1>2. ASSUME NEW t \in Senders, NEW from \in {"running", "leaving"}, EndReporting(t, from),
             t = ServerThread => from = "leaving"
      PROVE  Goal
  <2>1. /\ life[t] = from /\ life' = [life EXCEPT ![t] = "ended"]
        /\ UNCHANGED <<service, tid, choices, main_at, sink_alive>>
    BY <1>2 DEF EndReporting
  <2>2. life'[t] = "ended" /\ \A u \in Senders \ {t} : life'[u] = life[u]
    BY <2>1 DEF LifeInv
  <2>3. CASE t \in reporting
    <3> DEFINE r == report(t, "exit")
    <3>1. send(t, r) BY <1>2, <2>3 DEF EndReporting
    <3>2. r \in Requests /\ r.msg = identity(t) /\ r.op = "exit" /\ r.id = tid[t]
      BY <1>2, <2>1, <3>1, ReportType DEF Own
    <3> HIDE DEF r
    <3>3. Sends(t, r) BY <1>2, <2>1, <2>2, <2>3, <3>1, <3>2 DEF Sends, About, Own
    <3>4. QED BY <3>2, <3>3
  <2>4. CASE t \notin reporting
    <3>1. UNCHANGED <<queue, requests>> BY <1>2, <2>4 DEF EndReporting
    <3>2. \A u \in Senders : Lives_on(u) BY <1>2, <2>1, <2>2, <2>4 DEF Lives_on
    <3>3. QED BY <2>1, <3>1, <3>2 DEF Quiet
  <2>5. QED BY <2>3, <2>4
<1>3. ASSUME NEW t \in Clients, NEW id \in ClientIds, StartClient(t, id) PROVE Goal
  <2>1. /\ life[t] = "new" /\ main_at = "serving" /\ life'[t] = "starting" /\ tid'[t] = id
        /\ \A u \in Clients : tid[u] = id => life[u] = "ended"
        /\ \A u \in Senders \ {t} : life'[u] = life[u] /\ tid'[u] = tid[u]
        /\ UNCHANGED <<service, queue, requests, choices, main_at>>
    BY <1>3 DEF StartClient, LifeInv
  <2>2. \A u \in Senders : Lives_on(u) BY <2>1 DEF Lives_on
  <2>3. QED BY <2>1, <2>2 DEF Quiet
<1>4. ASSUME NEW t \in Clients, CanCall(t), NEW r \in Requests, send(t, r),
             r.msg = identity(t), r.op \in {"print", "rename", "set_parent"},
             r.op = "print" => r.id = tid[t]
      PROVE  Goal
  <2>1. life[t] = "running" /\ UNCHANGED <<service, life, tid, choices, main_at>>
    BY <1>4 DEF CanCall, status
  <2>2. Sends(t, r) BY <1>4, <2>1 DEF Sends, About, Own
  <2>3. QED BY <1>4, <2>2
<1>5. ASSUME NEW t \in Clients, CallPrint(t) PROVE Goal
  <2>1. /\ CanCall(t) /\ life[t] # "new" /\ send(t, report(t, "print"))
    BY <1>5 DEF CallPrint, CanCall
  <2>2. "print" \in Own BY DEF Own
  <2>3. QED BY <1>4, <2>1, <2>2, ReportType
<1>6. ASSUME NEW t \in Clients, NEW name \in Names, CallRename(t, name) PROVE Goal
  <2> DEFINE r == [msg |-> identity(t), op |-> "rename", name |-> name]
  <2>1. CanCall(t) /\ send(t, r) BY <1>6 DEF CallRename
  <2>2. identity(t) \in Messages BY <2>1, RequestType
  <2>3. r \in Request5 BY <2>2 DEF Request5
  <2>4. QED BY <1>4, <2>1, <2>3 DEF Requests
<1>16. ASSUME NEW t \in Clients, NEW parent \in Real, CallSetParent(t, parent) PROVE Goal
  <2> DEFINE r == [msg |-> identity(t), op |-> "set_parent", parent |-> parent]
  <2>1. CanCall(t) /\ send(t, r) BY <1>16 DEF CallSetParent
  <2>2. identity(t) \in Messages BY <2>1, RequestType
  <2>3. r \in Request2 BY <2>2 DEF Request2
  <2>4. QED BY <1>4, <2>1, <2>3 DEF Requests
<1>7. ASSUME NEW s \in Sinks, AddSink(s) PROVE Goal
  <2> DEFINE r == [msg |-> identity(Main), op |-> "add_sink", sink |-> s]
  <2>1. /\ life[Main] = "running" /\ main_at = "setup" /\ main_at' = "subscribed"
        /\ send(Main, r) /\ UNCHANGED <<service, life, tid, choices>>
    BY <1>7 DEF AddSink, MainAt, status
  <2>2. identity(Main) \in Messages BY <2>1, RequestType
  <2>3. r \in Request3 BY <2>2 DEF Request3
  <2>4. r \in Requests /\ r.msg = identity(Main) /\ r.op = "add_sink" BY <2>3 DEF Requests
  <2> HIDE DEF r
  <2>5. Sends(Main, r) BY <2>1, <2>4 DEF Sends, About, Own
  <2>6. QED BY <2>4, <2>5
<1>8. ASSUME NEW s \in Sinks, RemoveSink(s) PROVE Goal
  <2> DEFINE r == [msg |-> identity(Main), op |-> "remove_sink", sink |-> s]
  <2>1. /\ life[Main] = "running" /\ main_at' = main_at
        /\ send(Main, r) /\ UNCHANGED <<service, life, tid, choices>>
    BY <1>8 DEF RemoveSink, MainAt, status
  <2>2. identity(Main) \in Messages BY <2>1, RequestType
  <2>3. r \in Request3 BY <2>2 DEF Request3
  <2>4. r \in Requests /\ r.msg = identity(Main) /\ r.op = "remove_sink" BY <2>3 DEF Requests
  <2> HIDE DEF r
  <2>5. Sends(Main, r) BY <2>1, <2>4 DEF Sends, About, Own
  <2>6. QED BY <2>4, <2>5
<1>9. CASE StartServer
  <2>1. /\ main_at = "subscribed" /\ main_at' = "serving" /\ life[ServerThread] = "new"
        /\ life' = [life EXCEPT ![ServerThread] = "starting"]
        /\ UNCHANGED <<service, queue, requests, tid, choices>>
    BY <1>9 DEF StartServer, MainAt, LifeInv
  <2>2. \A u \in Senders : Lives_on(u) BY <2>1 DEF Lives_on, LifeInv
  <2>3. QED BY <2>1, <2>2 DEF Quiet
<1>10. CASE Shutdown
  <2> DEFINE r == [msg |-> identity(Main), op |-> "kill"]
  <2>1. /\ life[Main] = "running" /\ main_at = "serving" /\ main_at' = "killed"
        /\ send(Main, r) /\ UNCHANGED <<service, life, tid, choices>>
    BY <1>10 DEF Shutdown, MainAt, status
  <2>2. identity(Main) \in Messages BY <2>1, RequestType
  <2>3. r \in Request4 BY <2>2 DEF Request4
  <2>4. r \in Requests /\ r.msg = identity(Main) /\ r.op = "kill" BY <2>3 DEF Requests
  <2> HIDE DEF r
  <2>5. Sends(Main, r) BY <2>1, <2>4 DEF Sends, About, Own
  <2>6. QED BY <2>4, <2>5
<1>11. CASE JoinServer \/ DestroySink
  <2>1. /\ main_at \in AfterKill /\ main_at' \in AfterKill
        /\ UNCHANGED <<service, queue, requests, life, tid, choices>>
    BY <1>11 DEF JoinServer, DestroySink, MainAt, status, AfterKill
  <2>2. \A u \in Senders : Lives_on(u) BY <2>1 DEF Lives_on
  <2>3. QED BY <2>1, <2>2 DEF Quiet
<1>12. CASE UNCHANGED vars
  <2>1. UNCHANGED <<service, queue, requests, life, tid, choices, main_at>>
    BY <1>12 DEF vars, status
  <2>2. \A u \in Senders : Lives_on(u) BY <2>1 DEF Lives_on
  <2>3. QED BY <2>1, <2>2 DEF Quiet
<1> HIDE DEF Goal
<1>13. ASSUME NEW t \in Clients, Client(t) PROVE Goal
  <2>1. NoId \in Real /\ \A u \in Senders : tid[u] \in Real BY DEF Real, LifeInv
  <2>2. QED BY <1>1, <1>2, <1>3, <1>5, <1>6, <1>16, <1>13, <2>1 DEF Client
<1>14. ASSUME ServerLoop PROVE Goal \/ Serve
  BY <1>1, <1>2, <1>14 DEF ServerLoop
<1>15. ASSUME MainThread PROVE Goal \/ Serve
  <2>1. CASE StartReporting(Main) BY <1>1, <2>1
  <2>2. CASE EndReporting(Main, "running") BY <1>2, <2>2
  <2>3. CASE \E s \in Sinks : AddSink(s) BY <1>7, <2>3
  <2>4. CASE \E s \in Sinks : RemoveSink(s) BY <1>8, <2>4
  <2>5. QED BY <1>9, <1>10, <1>11, <1>15, <2>1, <2>2, <2>3, <2>4 DEF MainThread, Goal
<1>17. Goal \/ Serve
  <2>1. CASE UNCHANGED vars BY <1>12, <2>1 DEF Goal
  <2>2. CASE Work BY <1>13, <1>14, <1>15, <2>2 DEF Work
  <2>3. QED BY <2>1, <2>2
<1>18. QED BY <1>17 DEF Goal

-----------------------------------------------------------------------------
(* The stream holds the requests of each sender once, in the order sent.   *)

RequestInv ==
  \A t \in Senders :
    /\ life[t] \in {"new", "starting"} => enqueued[t] = 0
    /\ \A k \in 1..enqueued[t] :
         LET r == requests[t][k] IN
         /\ r.msg = <<t, k>>
         /\ r.op \in Own => r.id = tid[t]
         /\ t # Main => r.op \in About
         /\ t \notin Clients => r.op \notin {"print", "rename", "set_parent"}
         /\ r.op \in {"spawn", "exit"} => t \in reporting

InStream(t, k) == \E j \in 1..Total : Stream(j) = <<t, k>>

OrderInv ==
  /\ \A j \in 1..Total : Stream(j)[2] <= enqueued[Stream(j)[1]]
  /\ \A t \in Senders : \A k \in 1..enqueued[t] : InStream(t, k)
  /\ \A i, j \in 1..Total :
       i < j /\ Stream(i)[1] = Stream(j)[1] => Stream(i)[2] < Stream(j)[2]

Base == QueueType /\ ServiceType /\ LifeInv /\ RequestInv /\ OrderInv

\* A message of the stream stands for a request of its sender.
LEMMA Place ==
  ASSUME Base, NEW j \in 1..Total
  PROVE  /\ Stream(j)[1] \in Senders /\ Stream(j)[2] \in 1..enqueued[Stream(j)[1]]
         /\ Stream(j) = <<Stream(j)[1], Stream(j)[2]>> /\ Stream(j) \in Messages
         /\ Request(Stream(j)) \in Requests /\ Request(Stream(j)).msg = Stream(j)
<1> DEFINE t == Stream(j)[1]
           k == Stream(j)[2]
<1>1. Stream(j) \in Messages BY StreamType DEF Base
<1>2. t \in Senders /\ k \in Nat /\ k >= 1 /\ Stream(j) = <<t, k>>
  BY <1>1, SenderFacts DEF Messages
<1>3. k <= enqueued[t] BY DEF Base, OrderInv
<1>4. enqueued[t] \in Nat /\ requests[t] \in Seq(Requests) /\ Len(requests[t]) = enqueued[t]
  BY <1>2, SenderFacts DEF Base, QueueType
<1>5. k \in 1..enqueued[t] BY <1>2, <1>3, <1>4
<1>6. requests[t][k] \in Requests BY <1>4, <1>5, ElementOfSeq
<1>7. requests[t][k].msg = <<t, k>> BY <1>2, <1>5 DEF Base, RequestInv
<1> HIDE DEF t, k
<1>8. QED BY <1>1, <1>2, <1>5, <1>6, <1>7 DEF Request, t, k

\* No message is in the stream twice.
LEMMA OnceInStream ==
  ASSUME Base, NEW i \in 1..Total, NEW j \in 1..Total, Stream(i) = Stream(j)
  PROVE  i = j
<1>1. i \in Nat /\ j \in Nat BY StreamType DEF Base
<1>2. Stream(j)[2] \in Nat /\ Stream(i)[2] = Stream(j)[2] /\ Stream(i)[1] = Stream(j)[1]
  BY Place, SenderFacts DEF Base, QueueType
<1>3. ~(i < j) BY <1>2 DEF Base, OrderInv
<1>4. ~(j < i) BY <1>2 DEF Base, OrderInv
<1>5. QED BY <1>1, <1>3, <1>4

LEMMA BaseInit == Init => Base
<1> SUFFICES ASSUME Init PROVE Base OBVIOUS
<1>1. /\ items = <<>> /\ enqueued = [p \in Senders |-> 0]
      /\ delivered = [c \in {Server} |-> <<>>] /\ requests = [t \in Senders |-> <<>>]
      /\ sinks = <<>> /\ log = <<>> /\ DOMAIN threads = {}
  BY DEF Init, Queue!Init, ServiceInit
<1>2. QueueType
  <2>1. <<>> \in Seq(Messages) /\ <<>> \in Seq(Requests) /\ Len(<<>>) = 0 BY EmptySeq
  <2>2. 0 \in 0..MaxMessages BY SenderFacts
  <2>3. QED BY <1>1, <2>1, <2>2 DEF QueueType
<1>3. ServiceType BY <1>1, EmptySeq DEF ServiceType
<1>4. Total = 0
  <2>1. Got = 0 /\ Len(items) = 0 BY <1>1, EmptySeq DEF Got
  <2>2. QED BY <2>1 DEF Total
<1>5. RequestInv BY <1>1 DEF RequestInv
<1>6. OrderInv BY <1>1, <1>4 DEF OrderInv
<1>7. QED BY <1>2, <1>3, <1>5, <1>6, LifeInit DEF Base

LEMMA SendsBase ==
  ASSUME Base, LifeInv', NEW t \in Senders, NEW r \in Requests, Sends(t, r)
  PROVE  Base'
<1> DEFINE e == enqueued[t]
<1>1. /\ QueueType' /\ e \in Nat /\ enqueued' = [enqueued EXCEPT ![t] = e + 1]
      /\ requests'[t][e + 1] = r
      /\ \A u \in Senders : \A k \in 1..enqueued[u] : requests'[u][k] = requests[u][k]
      /\ Got' = Got /\ Total' = Total + 1
      /\ \A j \in 1..Total : Stream(j)' = Stream(j)
      /\ \A j : j = Total + 1 => Stream(j)' = <<t, e + 1>>
  BY SendEffect DEF Base, Sends
<1>2. enqueued'[t] = e + 1 /\ \A u \in Senders \ {t} : enqueued'[u] = enqueued[u]
  BY <1>1 DEF Base, QueueType
<1>3. Total \in Nat BY StreamType DEF Base
<1> HIDE DEF e
<1>4. ServiceType' BY DEF Base, ServiceType, Sends, service
<1>5. RequestInv'
  <2> SUFFICES ASSUME NEW u \in Senders PROVE RequestInv!(u)'
    BY DEF RequestInv
  <2>1. CASE u # t
    <3>1. /\ life'[u] = life[u] /\ enqueued'[u] = enqueued[u] /\ tid' = tid
          /\ reporting' = reporting
      BY <1>2, <2>1 DEF Sends, choices
    <3>2. QED BY <1>1, <3>1 DEF Base, RequestInv
  <2>2. CASE u = t
    <3>1. life'[t] \notin {"new", "starting"} /\ tid' = tid /\ reporting' = reporting
      BY DEF Sends, choices
    <3>2. ASSUME NEW k \in 1..e + 1
          PROVE  /\ requests'[t][k].msg = <<t, k>>
                 /\ requests'[t][k].op \in Own => requests'[t][k].id = tid[t]
                 /\ t # Main => requests'[t][k].op \in About
                 /\ t \notin Clients =>
                      requests'[t][k].op \notin {"print", "rename", "set_parent"}
                 /\ requests'[t][k].op \in {"spawn", "exit"} => t \in reporting
      <4>1. CASE k = e + 1 BY <1>1, <4>1 DEF Sends, identity, e
      <4>2. CASE k # e + 1
        <5>1. k \in 1..e BY <1>1, <4>2
        <5>2. requests'[t][k] = requests[t][k] BY <1>1, <5>1 DEF e
        <5>3. QED BY <5>1, <5>2 DEF Base, RequestInv, e
      <4>3. QED BY <4>1, <4>2
    <3>3. QED BY <1>2, <2>2, <3>1, <3>2
  <2>3. QED BY <2>1, <2>2
<1>6. OrderInv'
  <2>1. \A j \in 1..Total + 1 : j = Total + 1 \/ j \in 1..Total BY <1>3
  <2>2. ASSUME NEW j \in 1..Total + 1 PROVE Stream(j)'[2] <= enqueued'[Stream(j)'[1]]
    <3>1. CASE j = Total + 1 BY <1>1, <1>2, <3>1
    <3>2. CASE j \in 1..Total
      <4>1. Stream(j)' = Stream(j) /\ Stream(j)[1] \in Senders
            /\ Stream(j)[2] \in 1..enqueued[Stream(j)[1]]
        BY <1>1, <3>2, Place
      <4>2. CASE Stream(j)[1] = t BY <1>1, <1>2, <4>1, <4>2 DEF e
      <4>3. CASE Stream(j)[1] # t BY <1>2, <4>1, <4>3
      <4>4. QED BY <4>2, <4>3
    <3>3. QED BY <2>1, <3>1, <3>2
  <2>3. ASSUME NEW u \in Senders, NEW k \in 1..enqueued'[u] PROVE InStream(u, k)'
    <3>1. CASE k \in 1..enqueued[u]
      <4>1. PICK j \in 1..Total : Stream(j) = <<u, k>>
        BY <3>1 DEF Base, OrderInv, InStream
      <4>2. j \in 1..Total + 1 /\ Stream(j)' = <<u, k>> BY <1>1, <1>3, <4>1
      <4>3. QED BY <1>1, <4>2 DEF InStream
    <3>2. CASE k \notin 1..enqueued[u]
      <4>1. u = t /\ k = e + 1 BY <1>1, <1>2, <2>3, <3>2 DEF e
      <4>2. PICK j \in 1..Total + 1 : j = Total + 1 BY <1>3
      <4>3. Stream(j)' = <<u, k>> BY <1>1, <4>1, <4>2
      <4>4. QED BY <1>1, <4>3 DEF InStream
    <3>3. QED BY <3>1, <3>2
  <2>4. ASSUME NEW i \in 1..Total + 1, NEW j \in 1..Total + 1, i < j,
               Stream(i)'[1] = Stream(j)'[1]
        PROVE  Stream(i)'[2] < Stream(j)'[2]
    <3>1. i \in 1..Total BY <1>3, <2>4
    <3>2. Stream(i)' = Stream(i) /\ Stream(i)[2] \in 1..enqueued[Stream(i)[1]]
      BY <1>1, <3>1, Place
    <3>3. CASE j = Total + 1
      <4>1. Stream(j)' = <<t, e + 1>> BY <1>1, <3>3
      <4>2. Stream(i)[2] \in 1..e BY <2>4, <3>2, <4>1 DEF e
      <4>3. QED BY <1>1, <3>2, <4>1, <4>2
    <3>4. CASE j \in 1..Total
      <4>1. Stream(j)' = Stream(j) BY <1>1, <3>4
      <4>2. QED BY <2>4, <3>1, <3>2, <3>4, <4>1 DEF Base, OrderInv
    <3>5. QED BY <2>1, <3>3, <3>4
  <2>5. QED BY <1>1, <2>2, <2>3, <2>4 DEF OrderInv
<1>7. QED BY <1>1, <1>4, <1>5, <1>6 DEF Base

LEMMA QuietBase ==
  ASSUME Base, LifeInv', Quiet
  PROVE  Base' /\ Got' = Got /\ Total' = Total /\ \A j : Stream(j)' = Stream(j)
<1>1. UNCHANGED <<items, enqueued, delivered, requests, sinks, threads, log>>
  BY DEF Quiet, service, queue
<1>2. QueueType' /\ ServiceType' BY <1>1 DEF Base, QueueType, ServiceType
<1>3. Got' = Got /\ Total' = Total /\ \A j : Stream(j)' = Stream(j)
  BY <1>1 DEF Got, Total, Stream
<1>4. OrderInv' BY <1>1, <1>3 DEF Base, OrderInv, InStream
<1>5. RequestInv'
  <2> SUFFICES ASSUME NEW u \in Senders PROVE RequestInv!(u)'
    BY DEF RequestInv
  <2>0. reporting' = reporting BY DEF Quiet, choices
  <2>1. CASE life[u] = "new" BY <1>1, <2>1 DEF Base, RequestInv
  <2>2. CASE life[u] # "new"
    <3>1. tid'[u] = tid[u] /\ (life'[u] = life[u] \/ life'[u] \notin {"new", "starting"})
      BY <2>2 DEF Quiet, Lives_on
    <3>2. QED BY <1>1, <2>0, <3>1 DEF Base, RequestInv
  <2>3. QED BY <2>1, <2>2
<1>6. QED BY <1>2, <1>3, <1>4, <1>5 DEF Base

\* The server takes the next request of the stream.
LEMMA ServeBase ==
  ASSUME Base, LifeInv', Serve
  PROVE  /\ Base' /\ UNCHANGED <<enqueued, requests, tid, choices, main_at>>
         /\ Got + 1 \in 1..Total /\ Got' = Got + 1 /\ Total' = Total /\ Got \in Nat
         /\ \A j \in 1..Total : Stream(j)' = Stream(j)
         /\ LET r == Request(Stream(Got + 1)) IN
            /\ r \in Requests /\ r.msg = Stream(Got + 1)
            /\ \/ /\ r.op = "kill" /\ UNCHANGED service
                  /\ life' = [life EXCEPT ![ServerThread] = "leaving"]
               \/ /\ r.op # "kill" /\ UNCHANGED life
                  /\ \E a \in Arguments(r) : dispatch(a)
<1> DEFINE r == Request(Head(items))
<1>1. /\ Queue!Dequeue(Server) /\ UNCHANGED <<requests, tid, choices, main_at>>
      /\ \/ /\ r.op = "kill" /\ UNCHANGED service
            /\ life' = [life EXCEPT ![ServerThread] = "leaving"]
         \/ /\ r.op # "kill" /\ UNCHANGED life
            /\ \E a \in Arguments(r) : dispatch(a)
      /\ life[ServerThread] = "running"
  BY DEF Serve
<1>2. /\ QueueType' /\ UNCHANGED <<enqueued, requests>>
      /\ Got + 1 <= Total /\ Got' = Got + 1 /\ Total' = Total
      /\ \A j \in 1..Total : Stream(j)' = Stream(j)
      /\ Stream(Got + 1) = Head(items)
  BY <1>1, TakeEffect DEF Base
<1>3. Got \in Nat /\ Got + 1 \in 1..Total BY <1>2, StreamType DEF Base
<1>4. r = Request(Stream(Got + 1)) BY <1>2
<1>5. r \in Requests /\ r.msg = Stream(Got + 1) BY <1>3, <1>4, Place
<1> HIDE DEF r
<1>6. ServiceType'
  <2>1. CASE UNCHANGED service BY <2>1 DEF Base, ServiceType, service
  <2>2. ASSUME NEW a \in Arguments(r), dispatch(a), r.op # "kill" PROVE ServiceType'
    <3>1. a \in Read BY <1>5, <2>2, ReadType
    <3>2. QED BY <2>2, <3>1, AboutThreads, AboutSinks DEF Base
  <2>3. QED BY <1>1, <2>1, <2>2
<1>7. RequestInv'
  <2>1. \A u \in Senders : life'[u] = life[u] \/ life'[u] = "leaving"
    BY <1>1 DEF Base, LifeInv
  <2>2. QED BY <1>1, <1>2, <2>1 DEF Base, RequestInv, choices
<1>8. OrderInv' BY <1>2 DEF Base, OrderInv, InStream
<1>9. QED BY <1>1, <1>2, <1>3, <1>4, <1>5, <1>6, <1>7, <1>8 DEF Base

LEMMA BaseNext == Base /\ [Work]_vars => Base'
<1> SUFFICES ASSUME Base, [Work]_vars PROVE Base' OBVIOUS
<1>1. LifeInv' BY LifeNext DEF Base
<1>2. QED BY <1>1, Steps, SendsBase, QuietBase, ServeBase DEF Base

\* The request at a place of the stream; it stays what it is.
Asks(j) == Request(Stream(j))

LEMMA SendsStream ==
  ASSUME Base, NEW t \in Senders, NEW r \in Requests, Sends(t, r)
  PROVE  /\ Total \in Nat /\ Got \in Nat /\ Got <= Total
         /\ Total' = Total + 1 /\ Got' = Got
         /\ \A j \in 1..Total : Stream(j)' = Stream(j) /\ Asks(j)' = Asks(j)
         /\ \A j : j = Total + 1 => /\ Stream(j)' = r.msg /\ Asks(j)' = r
                                    /\ Stream(j)'[1] = t
<1>1. /\ enqueued[t] \in Nat
      /\ requests'[t][enqueued[t] + 1] = r
      /\ \A u \in Senders : \A k \in 1..enqueued[u] : requests'[u][k] = requests[u][k]
      /\ Got' = Got /\ Total' = Total + 1
      /\ \A j \in 1..Total : Stream(j)' = Stream(j)
      /\ \A j : j = Total + 1 => Stream(j)' = <<t, enqueued[t] + 1>>
  BY SendEffect DEF Base, Sends
<1>2. Total \in Nat /\ Got \in Nat /\ Got <= Total BY StreamType DEF Base
<1>3. r.msg = <<t, enqueued[t] + 1>> BY DEF Sends, identity
<1>4. ASSUME NEW j \in 1..Total PROVE Asks(j)' = Asks(j)
  <2>1. Stream(j)[1] \in Senders /\ Stream(j)[2] \in 1..enqueued[Stream(j)[1]] BY Place
  <2>2. requests'[Stream(j)[1]][Stream(j)[2]] = requests[Stream(j)[1]][Stream(j)[2]]
    BY <1>1, <2>1
  <2>3. Asks(j)' = requests'[Stream(j)'[1]][Stream(j)'[2]] BY DEF Asks, Request
  <2>4. QED BY <1>1, <2>2, <2>3 DEF Asks, Request
<1>5. ASSUME NEW j, j = Total + 1 PROVE Asks(j)' = r
  <2>1. Asks(j)' = requests'[Stream(j)'[1]][Stream(j)'[2]] BY DEF Asks, Request
  <2>2. Stream(j)' = <<t, enqueued[t] + 1>> BY <1>1, <1>5
  <2>3. QED BY <1>1, <2>1, <2>2
<1>6. \A j : j = Total + 1 => Stream(j)'[1] = t BY <1>1
<1>7. QED BY <1>1, <1>2, <1>3, <1>4, <1>5, <1>6

LEMMA QuietStream ==
  ASSUME Base, LifeInv', Quiet
  PROVE  /\ Total \in Nat /\ Got \in Nat /\ Got <= Total
         /\ Total' = Total /\ Got' = Got
         /\ \A j : Stream(j)' = Stream(j) /\ Asks(j)' = Asks(j)
<1>1. Got' = Got /\ Total' = Total /\ \A j : Stream(j)' = Stream(j) BY QuietBase
<1>2. requests' = requests BY DEF Quiet
<1>3. QED BY <1>1, <1>2, StreamType DEF Asks, Request, Base

LEMMA ServeStream ==
  ASSUME Base, LifeInv', Serve
  PROVE  /\ Total \in Nat /\ Got \in Nat /\ Got + 1 \in 1..Total
         /\ Total' = Total /\ Got' = Got + 1
         /\ \A j \in 1..Total : Stream(j)' = Stream(j) /\ Asks(j)' = Asks(j)
<1>1. /\ UNCHANGED requests /\ Got + 1 \in 1..Total /\ Got' = Got + 1 /\ Total' = Total
      /\ \A j \in 1..Total : Stream(j)' = Stream(j)
  BY ServeBase
<1>2. ASSUME NEW j \in 1..Total PROVE Asks(j)' = Asks(j)
  <2>1. Stream(j)' = Stream(j) /\ requests' = requests BY <1>1
  <2>2. QED BY <2>1 DEF Asks, Request
<1>3. QED BY <1>1, <1>2, StreamType DEF Base

-----------------------------------------------------------------------------
(* Nothing that was sent before the shutdown is left behind.               *)

\* Main subscribes its sink before anybody else sends anything, and shuts the
\* server down after the clients it joins have sent what they send; the server
\* leaves its loop when it has read the shutdown.
MainInv ==
  /\ \A i \in 1..Total : Asks(i).op = "kill" => main_at \in AfterKill
  /\ joins => \A i, j \in 1..Total :
                Asks(i).op = "kill" /\ Stream(j)[1] \in Clients => j < i
  /\ life[ServerThread] \in {"leaving", "ended"} =>
       \E i \in 1..Got : Asks(i).op = "kill"
  /\ main_at = "setup" => \A i \in 1..Total : Asks(i).op # "add_sink"
  /\ main_at # "setup" => \E i \in 1..Total : Asks(i).op = "add_sink"
  /\ \A i, j \in 1..Total :
       Asks(i).op = "add_sink" => /\ Asks(j).op = "add_sink" => i = j
                                  /\ Stream(j)[1] # Main => i < j

\* Only main asks for more than what is about threads.
LEMMA OnlyMain ==
  ASSUME Base, NEW j \in 1..Total, Stream(j)[1] # Main
  PROVE  Asks(j).op \in About
BY Place DEF Base, RequestInv, Asks, Request

LEMMA MainInit == Init => MainInv
<1> SUFFICES ASSUME Init PROVE MainInv OBVIOUS
<1>1. Got = 0 /\ Total = 0
  <2>1. items = <<>> /\ delivered = [c \in {Server} |-> <<>>] BY DEF Init, Queue!Init
  <2>2. Got = 0 /\ Len(items) = 0 BY <2>1, EmptySeq DEF Got
  <2>3. QED BY <2>2 DEF Total
<1>2. life[ServerThread] = "new" /\ main_at = "setup" BY SenderFacts DEF Init
<1>3. QED BY <1>1, <1>2 DEF MainInv

LEMMA SendsMain ==
  ASSUME Base, LifeInv', MainInv, NEW t \in Senders, NEW r \in Requests, Sends(t, r)
  PROVE  MainInv'
<1>1. /\ Total \in Nat /\ Got \in Nat /\ Got <= Total /\ Total' = Total + 1 /\ Got' = Got
      /\ \A j \in 1..Total : Stream(j)' = Stream(j) /\ Asks(j)' = Asks(j)
      /\ \A j : j = Total + 1 => Asks(j)' = r /\ Stream(j)'[1] = t
  BY SendsStream
<1>2. \A j \in 1..Total + 1 : j = Total + 1 \/ (j \in 1..Total /\ j < Total + 1)
  BY <1>1
<1>3. /\ r.op = "kill" => main_at = "serving" /\ main_at' = "killed" /\ t = Main
      /\ r.op = "add_sink" => main_at = "setup" /\ main_at' = "subscribed"
      /\ r.op \notin {"kill", "add_sink"} => main_at' = main_at
      /\ joins' = joins
  BY DEF Sends, About, choices
<1>4. main_at = "setup" \/ main_at \in {"subscribed", "serving"} \cup AfterKill
  BY DEF Base, LifeInv
<1>5. \A i \in 1..Total + 1 : Asks(i)'.op = "kill" => main_at' \in AfterKill
  <2>1. main_at \in AfterKill => main_at' \in AfterKill BY <1>3 DEF AfterKill
  <2>2. QED BY <1>1, <1>2, <1>3, <2>1 DEF MainInv, AfterKill
<1>6. ASSUME joins, NEW i \in 1..Total + 1, NEW j \in 1..Total + 1,
             Asks(i)'.op = "kill", Stream(j)'[1] \in Clients
      PROVE  j < i
  <2>1. CASE i \in 1..Total
    <3>1. main_at \in AfterKill BY <1>1, <1>6, <2>1 DEF MainInv
    <3>2. ~(j = Total + 1)
      <4>1. SUFFICES ASSUME j = Total + 1 PROVE FALSE OBVIOUS
      <4>2. t \in Clients BY <1>1, <1>6, <4>1
      <4>3. life[t] \in {"new", "ended"} BY <1>6, <3>1, <4>2 DEF Base, LifeInv
      <4>4. QED BY <4>3 DEF Sends
    <3>3. j \in 1..Total BY <1>2, <3>2
    <3>4. QED BY <1>1, <1>6, <2>1, <3>3 DEF MainInv
  <2>2. CASE i = Total + 1
    <3>1. t = Main BY <1>1, <1>3, <1>6, <2>2
    <3>2. j # Total + 1 BY <1>1, <1>6, <3>1, SenderFacts
    <3>3. QED BY <1>2, <2>2, <3>2
  <2>3. QED BY <1>2, <2>1, <2>2
<1>7. ASSUME life'[ServerThread] \in {"leaving", "ended"}
      PROVE  \E i \in 1..Got : Asks(i)'.op = "kill"
  <2>1. life[ServerThread] \in {"leaving", "ended"}
    BY <1>7, SenderFacts DEF Sends
  <2>2. PICK i \in 1..Got : Asks(i).op = "kill" BY <2>1 DEF MainInv
  <2>3. i \in 1..Total BY <1>1
  <2>4. QED BY <1>1, <2>2, <2>3
<1>8. main_at' = "setup" => \A i \in 1..Total + 1 : Asks(i)'.op # "add_sink"
  BY <1>1, <1>2, <1>3 DEF MainInv
<1>9. ASSUME main_at' # "setup" PROVE \E i \in 1..Total + 1 : Asks(i)'.op = "add_sink"
  <2>1. CASE main_at = "setup"
    <3>1. r.op = "add_sink" BY <1>3, <1>9, <2>1
    <3>2. PICK j \in 1..Total + 1 : j = Total + 1 BY <1>1
    <3>3. QED BY <1>1, <3>1, <3>2
  <2>2. CASE main_at # "setup"
    <3>1. PICK j \in 1..Total : Asks(j).op = "add_sink" BY <2>2 DEF MainInv
    <3>2. j \in 1..Total + 1 BY <1>1
    <3>3. QED BY <1>1, <3>1, <3>2
  <2>3. QED BY <2>1, <2>2
<1>10. ASSUME NEW i \in 1..Total + 1, NEW j \in 1..Total + 1, Asks(i)'.op = "add_sink"
       PROVE  /\ Asks(j)'.op = "add_sink" => i = j
              /\ Stream(j)'[1] # Main => i < j
  <2>1. CASE i \in 1..Total
    <3>1. Asks(i).op = "add_sink" BY <1>1, <1>10, <2>1
    <3>2. main_at # "setup" BY <2>1, <3>1 DEF MainInv
    <3>3. CASE j = Total + 1
      <4>1. r.op # "add_sink" BY <1>3, <3>2
      <4>2. QED BY <1>1, <1>2, <2>1, <3>3, <4>1
    <3>4. CASE j \in 1..Total BY <1>1, <2>1, <3>1, <3>4 DEF MainInv
    <3>5. QED BY <1>2, <3>3, <3>4
  <2>2. CASE i = Total + 1
    <3>1. r.op = "add_sink" BY <1>1, <1>10, <2>2
    <3>2. main_at = "setup" /\ t = Main
      <4>1. main_at = "setup" BY <1>3, <3>1
      <4>2. r.op \notin About BY <3>1 DEF About
      <4>3. QED BY <4>1, <4>2 DEF Sends
    <3>3. CASE j = Total + 1 BY <1>1, <2>2, <3>2, <3>3
    <3>4. CASE j \in 1..Total
      <4>1. Asks(j).op # "add_sink" BY <3>2, <3>4 DEF MainInv
      <4>2. Stream(j)[1] = Main
        <5>1. SUFFICES ASSUME Stream(j)[1] # Main PROVE FALSE OBVIOUS
        <5>2. /\ Stream(j)[1] \in Senders \ {Main}
              /\ Stream(j)[2] \in 1..enqueued[Stream(j)[1]]
          BY <3>4, <5>1, Place
        <5>3. life[Stream(j)[1]] = "new" BY <3>2, <5>2 DEF Base, LifeInv
        <5>4. enqueued[Stream(j)[1]] = 0 BY <5>2, <5>3 DEF Base, RequestInv
        <5>5. QED BY <5>2, <5>4
      <4>3. QED BY <1>1, <3>4, <4>1, <4>2
    <3>5. QED BY <1>2, <3>3, <3>4
  <2>3. QED BY <1>2, <2>1, <2>2
<1>11. QED BY <1>1, <1>3, <1>5, <1>6, <1>7, <1>8, <1>9, <1>10 DEF MainInv

LEMMA QuietMain ==
  ASSUME Base, LifeInv', MainInv, Quiet
  PROVE  MainInv'
<1>1. /\ Total' = Total /\ Got' = Got
      /\ \A j : Stream(j)' = Stream(j) /\ Asks(j)' = Asks(j)
  BY QuietStream
<1>2. /\ joins' = joins /\ (main_at' = "setup" <=> main_at = "setup")
      /\ (main_at \in AfterKill => main_at' \in AfterKill)
  BY DEF Quiet, choices, AfterKill
<1>3. life'[ServerThread] \in {"leaving", "ended"}
        => life[ServerThread] \in {"leaving", "ended"}
  BY SenderFacts DEF Quiet, Lives_on
<1>4. \A i \in 1..Total : Asks(i)'.op = "kill" => main_at' \in AfterKill
  BY <1>1, <1>2 DEF MainInv
<1>5. joins' => \A i, j \in 1..Total :
                  Asks(i)'.op = "kill" /\ Stream(j)'[1] \in Clients => j < i
  BY <1>1, <1>2 DEF MainInv
<1>6. life'[ServerThread] \in {"leaving", "ended"} => \E i \in 1..Got : Asks(i)'.op = "kill"
  BY <1>1, <1>3 DEF MainInv
<1>7. /\ main_at' = "setup" => \A i \in 1..Total : Asks(i)'.op # "add_sink"
      /\ main_at' # "setup" => \E i \in 1..Total : Asks(i)'.op = "add_sink"
  BY <1>1, <1>2 DEF MainInv
<1>8. \A i, j \in 1..Total :
        Asks(i)'.op = "add_sink" => /\ Asks(j)'.op = "add_sink" => i = j
                                    /\ Stream(j)'[1] # Main => i < j
  BY <1>1 DEF MainInv
<1>9. QED BY <1>1, <1>4, <1>5, <1>6, <1>7, <1>8 DEF MainInv

LEMMA ServeMain ==
  ASSUME Base, LifeInv', MainInv, Serve
  PROVE  MainInv'
<1>1. /\ Total \in Nat /\ Got \in Nat /\ Got + 1 \in 1..Total
      /\ Total' = Total /\ Got' = Got + 1
      /\ \A j \in 1..Total : Stream(j)' = Stream(j) /\ Asks(j)' = Asks(j)
  BY ServeStream
<1>2. /\ joins' = joins /\ main_at' = main_at
      /\ \/ /\ Asks(Got + 1).op = "kill"
            /\ life' = [life EXCEPT ![ServerThread] = "leaving"]
         \/ UNCHANGED life
  BY ServeBase DEF choices, Asks
<1>3. ASSUME life'[ServerThread] \in {"leaving", "ended"}
      PROVE  \E i \in 1..Got + 1 : Asks(i)'.op = "kill"
  <2>1. CASE Asks(Got + 1).op = "kill"
    <3>1. PICK i \in 1..Got + 1 : i = Got + 1 BY <1>1
    <3>2. i \in 1..Total /\ Asks(i).op = "kill" BY <1>1, <2>1, <3>1
    <3>3. QED BY <1>1, <3>2
  <2>2. CASE UNCHANGED life
    <3>1. PICK i \in 1..Got : Asks(i).op = "kill" BY <1>3, <2>2 DEF MainInv
    <3>2. i \in 1..Total /\ i \in 1..Got + 1 BY <1>1
    <3>3. QED BY <1>1, <3>1, <3>2
  <2>3. QED BY <1>2, <2>1, <2>2
<1>4. \A i \in 1..Total : Asks(i)'.op = "kill" => main_at' \in AfterKill
  BY <1>1, <1>2 DEF MainInv
<1>5. joins' => \A i, j \in 1..Total :
                  Asks(i)'.op = "kill" /\ Stream(j)'[1] \in Clients => j < i
  BY <1>1, <1>2 DEF MainInv
<1>7. /\ main_at' = "setup" => \A i \in 1..Total : Asks(i)'.op # "add_sink"
      /\ main_at' # "setup" => \E i \in 1..Total : Asks(i)'.op = "add_sink"
  BY <1>1, <1>2 DEF MainInv
<1>8. \A i, j \in 1..Total :
        Asks(i)'.op = "add_sink" => /\ Asks(j)'.op = "add_sink" => i = j
                                    /\ Stream(j)'[1] # Main => i < j
  BY <1>1 DEF MainInv
<1>9. QED BY <1>1, <1>3, <1>4, <1>5, <1>7, <1>8 DEF MainInv

\* Has the sink been subscribed, and may it still be?
Subscribed == \E j \in 1..Got : Asks(j).op = "add_sink"
Kept       == \A j \in 1..Total : Asks(j).op # "remove_sink"

\* The calls are about requests that were read; the sink main keeps is called
\* once for each of those of the clients.
LogInv ==
  /\ \A i \in 1..Len(log) : \E j \in 1..Got : log[i].msg = Stream(j)
  /\ Kept => Len(sinks) = IF Subscribed THEN 1 ELSE 0
  /\ Kept => \A j \in 1..Got : Stream(j)[1] \in Clients =>
       \E i \in 1..Len(log) : /\ log[i].msg = Stream(j)
                              /\ \A h \in 1..Len(log) : log[h].msg = Stream(j) => h = i

LEMMA LogInit == Init => LogInv
<1> SUFFICES ASSUME Init PROVE LogInv OBVIOUS
<1>1. log = <<>> /\ sinks = <<>> /\ delivered = [c \in {Server} |-> <<>>]
  BY DEF Init, ServiceInit, Queue!Init
<1>2. Len(log) = 0 /\ Len(sinks) = 0 /\ Got = 0 BY <1>1, EmptySeq DEF Got
<1>3. QED BY <1>2 DEF LogInv, Subscribed

LEMMA SendsLog ==
  ASSUME Base, LogInv, NEW t \in Senders, NEW r \in Requests, Sends(t, r)
  PROVE  LogInv'
<1>1. /\ Total \in Nat /\ Got \in Nat /\ Got <= Total /\ Total' = Total + 1 /\ Got' = Got
      /\ \A j \in 1..Total : Stream(j)' = Stream(j) /\ Asks(j)' = Asks(j)
  BY SendsStream
<1>2. log' = log /\ sinks' = sinks BY DEF Sends, service
<1>3. \A j \in 1..Got : Stream(j)' = Stream(j) /\ Asks(j)' = Asks(j)
  <2>1. \A j \in 1..Got : j \in 1..Total BY <1>1
  <2>2. QED BY <1>1, <2>1
<1>4. Kept' => Kept
  <2>1. Kept' <=> \A j \in 1..Total + 1 : Asks(j)'.op # "remove_sink" BY <1>1 DEF Kept
  <2>2. \A j \in 1..Total : j \in 1..Total + 1 BY <1>1
  <2>3. QED BY <1>1, <2>1, <2>2 DEF Kept
<1>5. Subscribed' <=> Subscribed BY <1>1, <1>3 DEF Subscribed
<1>6. \A i \in 1..Len(log) : \E j \in 1..Got : log[i].msg = Stream(j)'
  <2>1. TAKE i \in 1..Len(log)
  <2>2. PICK j \in 1..Got : log[i].msg = Stream(j) BY DEF LogInv
  <2>3. QED BY <1>3, <2>2
<1>7. ASSUME Kept, NEW j \in 1..Got, Stream(j)'[1] \in Clients
      PROVE  \E i \in 1..Len(log) :
                /\ log[i].msg = Stream(j)'
                /\ \A h \in 1..Len(log) : log[h].msg = Stream(j)' => h = i
  <2>1. Stream(j)' = Stream(j) BY <1>3
  <2>2. QED BY <1>7, <2>1 DEF LogInv
<1>8. Kept => Len(sinks) = IF Subscribed' THEN 1 ELSE 0 BY <1>5 DEF LogInv
<1>9. QED BY <1>1, <1>2, <1>4, <1>6, <1>7, <1>8 DEF LogInv

LEMMA QuietLog ==
  ASSUME Base, LifeInv', LogInv, Quiet
  PROVE  LogInv'
<1>1. /\ Total' = Total /\ Got' = Got
      /\ \A j : Stream(j)' = Stream(j) /\ Asks(j)' = Asks(j)
  BY QuietStream
<1>2. log' = log /\ sinks' = sinks BY DEF Quiet, service
<1>3. (Kept' <=> Kept) /\ (Subscribed' <=> Subscribed) BY <1>1 DEF Kept, Subscribed
<1>4. QED BY <1>1, <1>2, <1>3 DEF LogInv

LEMMA ServeLog ==
  ASSUME Base, LifeInv', MainInv, LogInv, Serve
  PROVE  LogInv'
<1> DEFINE r == Asks(Got + 1)
           n == Len(log)
<1>1. /\ Total \in Nat /\ Got \in Nat /\ Got + 1 \in 1..Total
      /\ Total' = Total /\ Got' = Got + 1
      /\ \A j \in 1..Total : Stream(j)' = Stream(j) /\ Asks(j)' = Asks(j)
  BY ServeStream
<1>2. /\ r \in Requests /\ r.msg = Stream(Got + 1)
      /\ \/ r.op = "kill" /\ UNCHANGED service
         \/ r.op # "kill" /\ \E a \in Arguments(r) : dispatch(a)
  BY ServeBase DEF Asks
<1>3. /\ \A j \in 1..Got : j \in 1..Total /\ j \in 1..Got + 1 /\ j # Got + 1
      /\ \A j \in 1..Got + 1 : j = Got + 1 \/ j \in 1..Got
      /\ Got + 1 \in 1..Got + 1
  BY <1>1
<1>4. Kept' <=> Kept BY <1>1 DEF Kept
<1>5. Subscribed' <=> Subscribed \/ r.op = "add_sink" BY <1>1, <1>3 DEF Subscribed
<1>6. \A i \in 1..n : log[i].msg \in Messages /\ log[i].msg # Stream(Got + 1)
  <2>1. TAKE i \in 1..n
  <2>2. PICK j \in 1..Got : log[i].msg = Stream(j) BY DEF LogInv
  <2>3. j \in 1..Total /\ j # Got + 1 BY <1>3
  <2>4. Stream(j) # Stream(Got + 1) BY <1>1, <2>3, OnceInStream
  <2>5. QED BY <2>2, <2>3, <2>4, Place
<1> HIDE DEF r
<1>7. CASE r.op \notin About
  <2>1. log' = log /\ Stream(Got + 1)[1] = Main
    <3>1. Stream(Got + 1)[1] = Main BY <1>1, <1>7, OnlyMain DEF r
    <3>2. CASE UNCHANGED service BY <3>1, <3>2 DEF service
    <3>3. ASSUME NEW a \in Arguments(r), dispatch(a), r.op # "kill" PROVE log' = log
      <4>1. a \in Read /\ a.op \notin About BY <1>2, <1>7, <3>3, ReadType
      <4>2. QED BY <3>3, <4>1, AboutSinks DEF Base
    <3>4. QED BY <1>2, <3>1, <3>2, <3>3
  <2>2. \A i \in 1..n : \E j \in 1..Got + 1 : log[i].msg = Stream(j)'
    <3>1. TAKE i \in 1..n
    <3>2. PICK j \in 1..Got : log[i].msg = Stream(j) BY DEF LogInv
    <3>3. j \in 1..Got + 1 /\ Stream(j)' = Stream(j) BY <1>1, <1>3
    <3>4. QED BY <3>2, <3>3
  <2>3. ASSUME Kept PROVE Len(sinks') = IF Subscribed' THEN 1 ELSE 0
    <3>1. Len(sinks) = IF Subscribed THEN 1 ELSE 0 BY <2>3 DEF LogInv
    <3>2. CASE r.op = "add_sink"
      <4>1. ~Subscribed
        <5>1. SUFFICES ASSUME NEW j \in 1..Got PROVE Asks(j).op # "add_sink"
          BY DEF Subscribed
        <5>2. Got + 1 \in 1..Total /\ j \in 1..Total /\ j # Got + 1 BY <1>1, <1>3
        <5>3. QED BY <3>2, <5>2 DEF MainInv, r
      <4>2. dispatch(r) /\ r \in Read
        <5>1. PICK a \in Arguments(r) : dispatch(a) BY <1>2, <3>2
        <5>2. a = r /\ a \in Read BY <1>2, <1>7, <3>2, ReadType
        <5>3. QED BY <5>1, <5>2
      <4>3. sinks' = Append(sinks, r.sink) BY <1>7, <3>2, <4>2, AboutSinks DEF Base
      <4>4. sinks \in Seq(Sinks) /\ r.sink \in Sinks
        BY <3>2, <4>2 DEF Base, ServiceType, Read, Request1, Read2, Request3, Read5, Own
      <4>5. Len(sinks') = Len(sinks) + 1 BY <4>3, <4>4, AppendProperties
      <4>6. QED BY <1>5, <3>1, <3>2, <4>1, <4>5
    <3>3. CASE r.op # "add_sink"
      <4>1. r.op # "remove_sink" BY <1>1, <2>3 DEF Kept, r
      <4>2. sinks' = sinks
        <5>1. CASE UNCHANGED service BY <5>1 DEF service
        <5>2. ASSUME NEW a \in Arguments(r), dispatch(a), r.op # "kill"
              PROVE  sinks' = sinks
          <6>1. a \in Read /\ a = r BY <1>2, <1>7, <5>2, ReadType
          <6>2. QED BY <1>7, <3>3, <4>1, <5>2, <6>1, AboutSinks DEF Base
        <5>3. QED BY <1>2, <5>1, <5>2
      <4>3. QED BY <1>5, <3>1, <3>3, <4>2
    <3>4. QED BY <3>2, <3>3
  <2>4. ASSUME Kept, NEW j \in 1..Got + 1, Stream(j)'[1] \in Clients
        PROVE  \E i \in 1..n : /\ log[i].msg = Stream(j)'
                               /\ \A h \in 1..n : log[h].msg = Stream(j)' => h = i
    <3>1. j # Got + 1 BY <1>1, <2>1, <2>4, SenderFacts
    <3>2. j \in 1..Got /\ j \in 1..Total BY <1>3, <3>1
    <3>3. QED BY <1>1, <2>4, <3>2 DEF LogInv
  <2>5. QED BY <1>1, <1>4, <2>1, <2>2, <2>3, <2>4 DEF LogInv
<1>8. CASE r.op \in About
  <2>1. PICK info \in ThreadInfo :
          UNCHANGED sinks /\ Dispatch(r.msg, r.op, info) /\ r.msg \in Messages
    <3>1. r.op # "kill" BY <1>8 DEF About
    <3>2. PICK a \in Arguments(r) : dispatch(a) BY <1>2, <3>1
    <3>3. a \in Read /\ a.msg = r.msg /\ a.op = r.op BY <1>2, <3>1, ReadType
    <3>4. QED BY <1>8, <3>2, <3>3, AboutThreads DEF Base
  <2>2. /\ n \in Nat /\ Len(sinks) \in Nat /\ Len(log') = n + Len(sinks)
        /\ \A i \in 1..n : log'[i] = log[i]
        /\ \A i \in n + 1..n + Len(sinks) : log'[i].msg = Stream(Got + 1)
    BY <1>2, <1>8, <2>1, Logged DEF Base
  <2>3. \A i \in 1..n + Len(sinks) : i \in 1..n \/ i \in n + 1..n + Len(sinks)
    BY <2>2
  <2>4. \A i \in 1..n : i \in 1..n + Len(sinks) BY <2>2
  <2> HIDE DEF n
  <2>5. \A i \in 1..n + Len(sinks) : \E j \in 1..Got + 1 : log'[i].msg = Stream(j)'
    <3>1. ASSUME NEW i \in 1..n PROVE \E j \in 1..Got + 1 : log'[i].msg = Stream(j)'
      <4>1. PICK j \in 1..Got : log[i].msg = Stream(j) BY DEF LogInv, n
      <4>2. j \in 1..Got + 1 /\ Stream(j)' = Stream(j) BY <1>1, <1>3
      <4>3. QED BY <2>2, <4>1, <4>2
    <3>2. ASSUME NEW i \in n + 1..n + Len(sinks)
          PROVE  \E j \in 1..Got + 1 : log'[i].msg = Stream(j)'
      BY <1>1, <1>3, <2>2
    <3>3. QED BY <2>3, <3>1, <3>2
  <2>6. ASSUME Kept PROVE Len(sinks') = IF Subscribed' THEN 1 ELSE 0
    <3>1. r.op # "add_sink" BY <1>8 DEF About
    <3>2. QED BY <1>5, <2>1, <2>6, <3>1 DEF LogInv
  <2>7. ASSUME Kept, NEW j \in 1..Got + 1, Stream(j)'[1] \in Clients
        PROVE  \E i \in 1..n + Len(sinks) :
                  /\ log'[i].msg = Stream(j)'
                  /\ \A h \in 1..n + Len(sinks) : log'[h].msg = Stream(j)' => h = i
    <3>1. CASE j \in 1..Got
      <4>1. /\ j \in 1..Total /\ Stream(j)' = Stream(j) /\ Stream(j) # Stream(Got + 1)
        BY <1>1, <1>3, <3>1, OnceInStream
      <4>2. PICK i \in 1..n : /\ log[i].msg = Stream(j)
                              /\ \A h \in 1..n : log[h].msg = Stream(j) => h = i
        BY <2>7, <3>1, <4>1 DEF LogInv, n
      <4>3. \A h \in 1..n + Len(sinks) : log'[h].msg = Stream(j) => h = i
        BY <2>2, <2>3, <4>1, <4>2
      <4>4. QED BY <2>2, <2>4, <4>1, <4>2, <4>3
    <3>2. CASE j = Got + 1
      <4>1. Subscribed
        <5>1. main_at # "setup"
          <6>1. Stream(Got + 1)[1] \in Clients BY <1>1, <2>7, <3>2
          <6>2. /\ Stream(Got + 1)[1] \in Senders \ {Main}
                /\ Stream(Got + 1)[2] \in 1..enqueued[Stream(Got + 1)[1]]
            BY <1>1, <6>1, SenderFacts, Place
          <6>3. ~(enqueued[Stream(Got + 1)[1]] = 0) BY <6>2
          <6>4. QED BY <6>2, <6>3 DEF Base, LifeInv, RequestInv
        <5>2. PICK i \in 1..Total : Asks(i).op = "add_sink" BY <5>1 DEF MainInv
        <5>3. i < Got + 1
          <6>1. Stream(Got + 1)[1] # Main BY <1>1, <2>7, <3>2, SenderFacts
          <6>2. QED BY <1>1, <5>2, <6>1 DEF MainInv
        <5>4. i \in 1..Got BY <1>1, <5>3
        <5>5. QED BY <5>2, <5>4 DEF Subscribed
      <4>2. Len(sinks) = 1 BY <2>7, <4>1 DEF LogInv
      <4>3. PICK i \in 1..n + Len(sinks) : i = n + 1 BY <2>2, <4>2
      <4>4. log'[i].msg = Stream(j)' BY <1>1, <2>2, <3>2, <4>2, <4>3
      <4>5. ASSUME NEW h \in 1..n + Len(sinks), log'[h].msg = Stream(j)' PROVE h = i
        <5>1. h \notin 1..n BY <1>1, <1>6, <2>2, <3>2, <4>5 DEF n
        <5>2. QED BY <2>2, <2>3, <4>2, <4>3, <5>1
      <4>6. QED BY <4>4, <4>5
    <3>3. QED BY <1>3, <3>1, <3>2
  <2>8. QED BY <1>1, <1>4, <2>2, <2>5, <2>6, <2>7 DEF LogInv
<1>9. QED BY <1>7, <1>8

NothingLost == Base /\ MainInv /\ LogInv

LEMMA NothingLostNext == NothingLost /\ [Work]_vars => NothingLost'
<1> SUFFICES ASSUME NothingLost, [Work]_vars PROVE NothingLost' OBVIOUS
<1>1. Base /\ MainInv /\ LogInv BY DEF NothingLost
<1>2. Base' /\ LifeInv' BY <1>1, BaseNext DEF Base
<1>3. Serve \/ (\E t \in Senders : \E r \in Requests : Sends(t, r)) \/ Quiet
  BY <1>1, Steps DEF Base
<1>4. MainInv' BY <1>1, <1>2, <1>3, SendsMain, QuietMain, ServeMain
<1>5. LogInv' BY <1>1, <1>2, <1>3, SendsLog, QuietLog, ServeLog
<1>6. QED BY <1>2, <1>4, <1>5 DEF NothingLost

\* What the invariant says of main's sink, in the terms of the property.
LEMMA CalledOnce == NothingLost => NothingLeftBehind
<1> SUFFICES ASSUME NothingLost, life[ServerThread] \in {"leaving", "ended"}, joins,
                    Sent(Main, {"remove_sink"}) = {},
                    NEW t \in Clients, NEW k \in 1..Len(requests[t])
             PROVE  Cardinality({i \in 1..Len(log) : log[i].msg = <<t, k>>}) = 1
  BY DEF NothingLeftBehind
<1>1. Base /\ MainInv /\ LogInv BY DEF NothingLost
<1>2. Kept
  <2>1. SUFFICES ASSUME NEW j \in 1..Total, Asks(j).op = "remove_sink" PROVE FALSE
    BY DEF Kept
  <2>2. Stream(j)[1] = Main BY <1>1, <2>1, OnlyMain DEF About
  <2>3. Stream(j)[2] \in 1..Len(requests[Main])
    BY <1>1, <2>2, Place, SenderFacts DEF Base, QueueType
  <2>4. Asks(j) = requests[Main][Stream(j)[2]] BY <2>2 DEF Asks, Request
  <2>5. Stream(j)[2] \in Sent(Main, {"remove_sink"}) BY <2>1, <2>3, <2>4 DEF Sent
  <2>6. QED BY <2>5
<1>3. t \in Senders /\ k \in 1..enqueued[t] BY <1>1, SenderFacts DEF Base, QueueType
<1>4. PICK j \in 1..Total : Stream(j) = <<t, k>>
  BY <1>1, <1>3 DEF Base, OrderInv, InStream
<1>5. Total \in Nat /\ Got \in Nat /\ Got <= Total BY <1>1, StreamType DEF Base
<1>6. PICK i \in 1..Got : Asks(i).op = "kill" BY <1>1 DEF MainInv
<1>7. j < i
  <2>1. i \in 1..Total /\ Stream(j)[1] \in Clients BY <1>4, <1>5
  <2>2. QED BY <1>1, <1>6, <2>1 DEF MainInv
<1>8. j \in 1..Got /\ Stream(j)[1] \in Clients BY <1>4, <1>5, <1>7
<1>9. PICK h \in 1..Len(log) : /\ log[h].msg = <<t, k>>
                               /\ \A g \in 1..Len(log) : log[g].msg = <<t, k>> => g = h
  BY <1>1, <1>2, <1>4, <1>8 DEF LogInv
<1>10. {g \in 1..Len(log) : log[g].msg = <<t, k>>} = {h} BY <1>9
<1>11. QED BY <1>10, FS_Singleton

-----------------------------------------------------------------------------
(* The end of the program at a name that is read beyond its message: all   *)
(* threads are gone, and nothing they have left behind changes.            *)

Crashed == \A t \in Senders : life[t] = "crashed"

LEMMA StepKinds ==
  ASSUME [Next]_vars
  PROVE  \/ [Work]_vars
         \/ /\ Crashed' /\ life' = [t \in Senders |-> "crashed"]
            /\ UNCHANGED <<service, queue, requests, tid, choices, main_at, sink_alive>>
<1>1. ASSUME Overrun
      PROVE  /\ Crashed' /\ life' = [t \in Senders |-> "crashed"]
             /\ UNCHANGED <<service, queue, requests, tid, choices, main_at, sink_alive>>
  BY <1>1 DEF Overrun, Crashed
<1>2. QED BY <1>1 DEF Next, Work

LEMMA NoStepAfterCrash ==
  ASSUME Crashed, [Next]_vars
  PROVE  UNCHANGED vars
<1> USE SenderFacts DEF Crashed
<1>1. ASSUME NEW t \in Clients PROVE ~Client(t)
  BY DEF Client, StartClient, StartReporting, CallPrint, CallRename, CallSetParent, CanCall,
         EndReporting
<1>2. ~ServerLoop BY DEF ServerLoop, StartReporting, Serve, EndReporting
<1>3. ~Overrun BY DEF Overrun
<1>4. ~MainThread
  BY DEF MainThread, StartReporting, AddSink, StartServer, RemoveSink, Shutdown, JoinServer,
         DestroySink, EndReporting, MainAt
<1>5. QED BY <1>1, <1>2, <1>3, <1>4 DEF Next

(* When the server has left its loop, the sink main has subscribed and not   *)
(* removed has been called once for every request of the clients main has    *)
(* joined: their requests are in the queue before the shutdown is, and the   *)
(* server reads them in that order.                                          *)
THEOREM NothingIsLeftBehind == Spec => []NothingLeftBehind
<1> DEFINE Inv == NothingLost \/ Crashed
<1>1. Init => Inv BY BaseInit, MainInit, LogInit DEF NothingLost
<1>2. Inv /\ [Next]_vars => Inv'
  <2> SUFFICES ASSUME Inv, [Next]_vars PROVE Inv' OBVIOUS
  <2>1. CASE NothingLost BY <2>1, StepKinds, NothingLostNext
  <2>2. CASE Crashed BY <2>2, NoStepAfterCrash DEF Crashed, vars, status
  <2>3. QED BY <2>1, <2>2
<1>3. Inv => NothingLeftBehind
  <2>1. Crashed => NothingLeftBehind BY SenderFacts DEF Crashed, NothingLeftBehind
  <2>2. QED BY <2>1, CalledOnce
<1>4. QED BY <1>1, <1>2, <1>3, PTL DEF Spec

-----------------------------------------------------------------------------
LEMMA BaseTyped == Base => TypeOK
<1> SUFFICES ASSUME Base PROVE TypeOK OBVIOUS
<1>1. Queue!Message = Messages BY DEF Queue!Message, Messages
<1>2. Queue!TypeOK BY <1>1 DEF Base, QueueType, Queue!TypeOK
<1>3. sinks \in Seq(Sinks) /\ DOMAIN threads \subseteq Ids
      /\ \A i \in DOMAIN threads : threads[i] \in ThreadInfo
  BY DEF Base, ServiceType
<1>4. \A t \in Senders : Len(requests[t]) = enqueued[t] BY DEF Base, QueueType
<1>5. /\ life \in [Senders -> Lives] /\ tid \in [Senders -> Real]
      /\ reporting \subseteq Senders /\ joins \in BOOLEAN /\ sink_alive \in BOOLEAN
      /\ main_at \in {"setup", "subscribed", "serving"} \cup AfterKill
  BY DEF Base, LifeInv
<1>6. QED BY <1>2, <1>3, <1>4, <1>5 DEF TypeOK, Lives, Real, AfterKill

(* The state is what the module's type invariant says: the queue holds     *)
(* messages of the senders, each with its request, the list of sinks holds *)
(* sinks, and the cache never holds a parent, whatever the threads' names. *)
THEOREM TypeCorrect == Spec => []TypeOK
<1> DEFINE Inv == Base \/ (Crashed /\ TypeOK)
<1>1. Init => Inv BY BaseInit
<1>2. Inv /\ [Next]_vars => Inv'
  <2> SUFFICES ASSUME Inv, [Next]_vars PROVE Inv' OBVIOUS
  <2>1. TypeOK BY BaseTyped
  <2>2. CASE Base /\ [Work]_vars BY <2>2, BaseNext
  <2>3. CASE /\ Crashed' /\ life' = [t \in Senders |-> "crashed"]
             /\ UNCHANGED <<service, queue, requests, tid, choices, main_at, sink_alive>>
    BY <2>1, <2>3 DEF TypeOK, Queue!TypeOK, service, queue, choices
  <2>4. CASE Crashed /\ UNCHANGED vars
    BY <2>1, <2>4 DEF TypeOK, Queue!TypeOK, Crashed, vars, service, queue, status, choices
  <2>5. QED BY <2>2, <2>3, <2>4, StepKinds, NoStepAfterCrash
<1>3. Inv => TypeOK BY BaseTyped
<1>4. QED BY <1>1, <1>2, <1>3, PTL DEF Spec

\* Only the server's loop calls sinks.
LEMMA OnlyServeLogs ==
  ASSUME [Next]_vars, log' # log PROVE Serve
BY DEF Next, Client, StartClient, StartReporting, EndReporting, CallPrint, CallRename,
       CallSetParent, CanCall, ServerLoop, Overrun, MainThread, AddSink, StartServer,
       RemoveSink, Shutdown, JoinServer, DestroySink, service, vars

(* No sink is called after main has destroyed it: ~jthread waits for the   *)
(* server thread before the sink, declared earlier, goes out of scope.     *)
THEOREM SinksOutliveCalls == Spec => NoCallAfterDestruction
<1> DEFINE Inv == Base \/ Crashed
<1>1. Init => Inv BY BaseInit
<1>2. Inv /\ [Next]_vars => Inv'
  <2> SUFFICES ASSUME Inv, [Next]_vars PROVE Inv' OBVIOUS
  <2>1. CASE Base BY <2>1, StepKinds, BaseNext
  <2>2. CASE Crashed BY <2>2, NoStepAfterCrash DEF Crashed, vars, status
  <2>3. QED BY <2>1, <2>2
<1>3. Inv /\ [Next]_vars => [~sink_alive => log' = log]_vars
  <2> SUFFICES ASSUME Inv, [Next]_vars, ~sink_alive PROVE log' = log OBVIOUS
  <2>1. life[ServerThread] # "running" BY SenderFacts DEF Base, LifeInv, Crashed
  <2>2. ~Serve BY <2>1 DEF Serve
  <2>3. QED BY <2>2, OnlyServeLogs
<1>4. QED BY <1>1, <1>2, <1>3, PTL DEF Spec, NoCallAfterDestruction

-----------------------------------------------------------------------------
(* Who has an id when.                                                     *)

\* The first request of a thread whose helper exists is a spawn, and an exit is
\* its last, sent as it ends.  Clients with the same id follow each other, those
\* that report themselves in the stream too.
TurnsInv ==
  /\ \A t \in reporting : life[t] \in {"running", "leaving"} =>
       \E j \in 1..Total : Stream(j)[1] = t
  /\ \A t \in reporting : life[t] = "ended" =>
       \E e \in 1..Total : Stream(e)[1] = t /\ Asks(e).op = "exit"
  /\ \A e \in 1..Total : Asks(e).op = "exit" =>
       /\ life[Stream(e)[1]] = "ended"
       /\ \A i \in 1..Total : Stream(i)[1] = Stream(e)[1] => i <= e
  /\ \A j \in 1..Total : Stream(j)[1] \in reporting =>
       (Asks(j).op = "spawn" <=> Stream(j)[2] = 1)
  /\ \A t, u \in Clients :
       t # u /\ tid[t] = tid[u] /\ life[t] # "new" /\ life[u] # "new" =>
         life[t] = "ended" \/ life[u] = "ended"
  /\ \A i, j \in 1..Total :
       LET t == Stream(i)[1]  u == Stream(j)[1] IN
       i < j /\ t \in Clients \cap reporting /\ u \in Clients /\ t # u /\ tid[t] = tid[u] =>
         \E e \in 1..Total : e < j /\ Stream(e)[1] = t /\ Asks(e).op = "exit"

\* What has sent something has been started.
LEMMA Started ==
  ASSUME Base, NEW j \in 1..Total
  PROVE  life[Stream(j)[1]] \notin {"new", "starting"}
<1>1. /\ Stream(j)[1] \in Senders
      /\ Stream(j)[2] \in 1..enqueued[Stream(j)[1]]
  BY Place
<1>2. enqueued[Stream(j)[1]] # 0 BY <1>1
<1>3. QED BY <1>1, <1>2 DEF Base, RequestInv

LEMMA TurnsInit == Init => TurnsInv
<1> SUFFICES ASSUME Init PROVE TurnsInv OBVIOUS
<1>1. Got = 0 /\ Total = 0
  <2>1. items = <<>> /\ delivered = [c \in {Server} |-> <<>>] BY DEF Init, Queue!Init
  <2>2. Got = 0 /\ Len(items) = 0 BY <2>1, EmptySeq DEF Got
  <2>3. QED BY <2>2 DEF Total
<1>2. reporting \subseteq Senders BY LoggerAssumption DEF Init, Senders
<1>3. \A t \in Senders : life[t] \in {"new", "starting"} BY SenderFacts DEF Init
<1>4. \A t \in Clients : life[t] = "new" BY SenderFacts DEF Init
<1>5. QED BY <1>1, <1>2, <1>3, <1>4 DEF TurnsInv

LEMMA SendsTurns ==
  ASSUME Base, TurnsInv, NEW t \in Senders, NEW r \in Requests, Sends(t, r)
  PROVE  TurnsInv'
<1>0. reporting \subseteq Senders BY DEF Base, LifeInv
<1>1. /\ Total \in Nat /\ Total' = Total + 1
      /\ \A j \in 1..Total : Stream(j)' = Stream(j) /\ Asks(j)' = Asks(j)
      /\ \A j : j = Total + 1 => /\ Stream(j)' = r.msg /\ Asks(j)' = r
                                 /\ Stream(j)'[1] = t
  BY SendsStream
<1>2. /\ \A j \in 1..Total + 1 : j = Total + 1 \/ (j \in 1..Total /\ j < Total + 1)
      /\ \A j \in 1..Total : j \in 1..Total + 1
      /\ Total + 1 \in 1..Total + 1
  BY <1>1
<1>3. /\ tid' = tid /\ reporting' = reporting
      /\ \A u \in Senders \ {t} : life'[u] = life[u]
      /\ life[t] \in {"starting", "running", "leaving"}
      /\ life'[t] \in {"running", "leaving", "ended"}
      /\ r.op = "spawn" <=> life[t] = "starting"
      /\ r.op = "exit" <=> life'[t] = "ended"
  BY DEF Sends, choices
<1>4. \A u \in Clients \ {t} : life'[u] = life[u] BY <1>3, SenderFacts
<1>5. ASSUME NEW u \in reporting, life'[u] \in {"running", "leaving"}
      PROVE  \E j \in 1..Total + 1 : Stream(j)'[1] = u
  <2>1. CASE u = t BY <1>1, <1>2, <2>1
  <2>2. CASE u # t
    <3>1. PICK j \in 1..Total : Stream(j)[1] = u BY <1>0, <1>3, <1>5, <2>2 DEF TurnsInv
    <3>2. QED BY <1>1, <1>2, <3>1
  <2>3. QED BY <2>1, <2>2
<1>6. ASSUME NEW u \in reporting, life'[u] = "ended"
      PROVE  \E e \in 1..Total + 1 : Stream(e)'[1] = u /\ Asks(e)'.op = "exit"
  <2>1. CASE u = t BY <1>1, <1>2, <1>3, <1>6, <2>1
  <2>2. CASE u # t
    <3>1. PICK e \in 1..Total : Stream(e)[1] = u /\ Asks(e).op = "exit"
      BY <1>0, <1>3, <1>6, <2>2 DEF TurnsInv
    <3>2. QED BY <1>1, <1>2, <3>1
  <2>3. QED BY <2>1, <2>2
<1>7. ASSUME NEW e \in 1..Total + 1, Asks(e)'.op = "exit"
      PROVE  /\ life'[Stream(e)'[1]] = "ended"
             /\ \A i \in 1..Total + 1 : Stream(i)'[1] = Stream(e)'[1] => i <= e
  <2>1. CASE e = Total + 1 BY <1>1, <1>2, <1>3, <1>7, <2>1
  <2>2. CASE e \in 1..Total
    <3>1. /\ Asks(e).op = "exit" /\ Stream(e)' = Stream(e)
          /\ life[Stream(e)[1]] = "ended" /\ Stream(e)[1] \in Senders
          /\ \A i \in 1..Total : Stream(i)[1] = Stream(e)[1] => i <= e
      BY <1>1, <1>7, <2>2, Place DEF TurnsInv
    <3>2. Stream(e)[1] # t BY <1>3, <3>1
    <3>3. QED BY <1>1, <1>2, <1>3, <3>1, <3>2
  <2>3. QED BY <1>2, <2>1, <2>2
<1>8. ASSUME NEW j \in 1..Total + 1, Stream(j)'[1] \in reporting
      PROVE  Asks(j)'.op = "spawn" <=> Stream(j)'[2] = 1
  <2>1. CASE j = Total + 1
    <3>1. t \in reporting /\ Asks(j)' = r /\ Stream(j)' = <<t, enqueued[t] + 1>>
      BY <1>1, <1>8, <2>1 DEF Sends, identity
    <3>2. enqueued[t] \in Nat BY SenderFacts DEF Base, QueueType
    <3>3. life[t] = "starting" => enqueued[t] = 0 BY DEF Base, RequestInv
    <3>4. ASSUME life[t] # "starting" PROVE enqueued[t] # 0
      <4>1. life[t] \in {"running", "leaving"} BY <1>3, <3>4
      <4>2. PICK i \in 1..Total : Stream(i)[1] = t BY <3>1, <4>1 DEF TurnsInv
      <4>3. Stream(i)[2] \in 1..enqueued[t] BY <4>2, Place
      <4>4. QED BY <4>3
    <3>5. enqueued[t] + 1 = 1 <=> life[t] = "starting" BY <3>2, <3>3, <3>4
    <3>6. QED BY <1>3, <3>1, <3>5
  <2>2. CASE j \in 1..Total BY <1>1, <1>8, <2>2 DEF TurnsInv
  <2>3. QED BY <1>2, <2>1, <2>2
<1>9. ASSUME NEW u \in Clients, NEW v \in Clients, u # v, tid'[u] = tid'[v],
             life'[u] # "new", life'[v] # "new"
      PROVE  life'[u] = "ended" \/ life'[v] = "ended"
  <2>1. life[u] # "new" /\ life[v] # "new" BY <1>3, <1>4, <1>9
  <2>2. life[u] = "ended" \/ life[v] = "ended" BY <1>3, <1>9, <2>1 DEF TurnsInv
  <2>3. life[t] # "ended" BY <1>3
  <2>4. QED BY <1>4, <2>2, <2>3
<1>10. ASSUME NEW i \in 1..Total + 1, NEW j \in 1..Total + 1, i < j,
              NEW u \in Clients \cap reporting, NEW v \in Clients,
              Stream(i)'[1] = u, Stream(j)'[1] = v,
              u # v, tid'[u] = tid'[v]
       PROVE  \E e \in 1..Total + 1 : e < j /\ Stream(e)'[1] = u /\ Asks(e)'.op = "exit"
  <2>1. i \in 1..Total /\ Stream(i)[1] = u
    <3>1. i \in 1..Total BY <1>1, <1>10
    <3>2. QED BY <1>1, <1>10, <3>1
  <2>2. PICK e \in 1..Total : e < j /\ Stream(e)[1] = u /\ Asks(e).op = "exit"
    <3>1. CASE j = Total + 1
      <4>1. v = t BY <1>1, <1>10, <3>1
      <4>2. life[u] # "new" /\ life[t] \notin {"new", "ended"}
        BY <1>3, <2>1, Started
      <4>3. life[u] = "ended" BY <1>3, <1>10, <4>1, <4>2 DEF TurnsInv
      <4>4. PICK e \in 1..Total : Stream(e)[1] = u /\ Asks(e).op = "exit"
        BY <4>3 DEF TurnsInv
      <4>5. e < j BY <1>1, <1>2, <3>1
      <4>6. QED BY <4>4, <4>5
    <3>2. CASE j \in 1..Total
      <4>1. Stream(j)[1] = v BY <1>1, <1>10, <3>2
      <4>2. QED BY <1>3, <1>10, <2>1, <3>2, <4>1 DEF TurnsInv
    <3>3. QED BY <1>2, <3>1, <3>2
  <2>3. QED BY <1>1, <1>2, <2>2
<1>11. QED
  BY <1>1, <1>3, <1>5, <1>6, <1>7, <1>8, <1>9, <1>10 DEF TurnsInv

LEMMA QuietTurns ==
  ASSUME Base, LifeInv', TurnsInv, Quiet
  PROVE  TurnsInv'
<1>0. reporting \subseteq Senders BY DEF Base, LifeInv
<1>1. /\ Total \in Nat /\ Total' = Total
      /\ \A j : Stream(j)' = Stream(j) /\ Asks(j)' = Asks(j)
  BY QuietStream
<1>2. reporting' = reporting BY DEF Quiet, choices
\* a thread that reports itself only starts
<1>3. \A u \in reporting : life'[u] = life[u] \/ (life[u] = "new" /\ life'[u] = "starting")
  BY <1>0 DEF Quiet, Lives_on
\* one that has started keeps its id, and one that has ended stays so
<1>4. \A u \in Senders : life[u] # "new" =>
        /\ tid'[u] = tid[u] /\ life'[u] # "new"
        /\ life[u] = "ended" => life'[u] = "ended"
  BY DEF Quiet, Lives_on
<1>5. ASSUME NEW j \in 1..Total
      PROVE  /\ tid'[Stream(j)[1]] = tid[Stream(j)[1]]
             /\ life[Stream(j)[1]] = "ended" => life'[Stream(j)[1]] = "ended"
  <2>1. PICK u \in Senders : u = Stream(j)[1] BY Place
  <2>2. life[u] # "new" BY <2>1, Started
  <2>3. QED BY <1>4, <2>1, <2>2
<1>6. \A t \in reporting : life'[t] \in {"running", "leaving"} =>
        \E j \in 1..Total : Stream(j)'[1] = t
  BY <1>1, <1>3 DEF TurnsInv
<1>7. \A t \in reporting : life'[t] = "ended" =>
        \E e \in 1..Total : Stream(e)'[1] = t /\ Asks(e)'.op = "exit"
  BY <1>1, <1>3 DEF TurnsInv
<1>8. \A e \in 1..Total : Asks(e)'.op = "exit" =>
        /\ life'[Stream(e)'[1]] = "ended"
        /\ \A i \in 1..Total : Stream(i)'[1] = Stream(e)'[1] => i <= e
  BY <1>1, <1>5 DEF TurnsInv
<1>9. \A j \in 1..Total : Stream(j)'[1] \in reporting =>
        (Asks(j)'.op = "spawn" <=> Stream(j)'[2] = 1)
  BY <1>1 DEF TurnsInv
<1>10. ASSUME NEW t \in Clients, NEW u \in Clients, t # u, tid'[t] = tid'[u],
              life'[t] # "new", life'[u] # "new"
       PROVE  life'[t] = "ended" \/ life'[u] = "ended"
  <2>0. t \in Senders /\ u \in Senders BY SenderFacts
  <2>1. CASE life[t] # "new" /\ life[u] # "new"
    <3>1. tid[t] = tid[u] BY <1>4, <1>10, <2>0, <2>1
    <3>2. life[t] = "ended" \/ life[u] = "ended" BY <1>10, <2>1, <3>1 DEF TurnsInv
    <3>3. QED BY <1>4, <2>0, <2>1, <3>2
  <2>2. ASSUME NEW x \in Clients, NEW y \in Clients, x # y, tid'[x] = tid'[y],
               life[x] = "new", life'[x] # "new"
        PROVE  life'[y] = "ended"
    <3>1. /\ \A v \in Clients : tid[v] = tid'[x] => life[v] = "ended"
          /\ \A v \in Senders \ {x} : UNCHANGED <<life[v], tid[v]>>
      BY <2>2, SenderFacts DEF Quiet, Lives_on
    <3>2. QED BY <2>2, <3>1, SenderFacts
  <2>3. QED BY <1>10, <2>1, <2>2
<1>11. ASSUME NEW i \in 1..Total, NEW j \in 1..Total, i < j,
              NEW t \in Clients \cap reporting, NEW u \in Clients,
              Stream(i)'[1] = t, Stream(j)'[1] = u,
              t # u, tid'[t] = tid'[u]
       PROVE  \E e \in 1..Total : e < j /\ Stream(e)'[1] = t /\ Asks(e)'.op = "exit"
  <2>1. Stream(i)[1] = t /\ Stream(j)[1] = u /\ tid[t] = tid[u]
    BY <1>1, <1>5, <1>11
  <2>2. PICK e \in 1..Total : e < j /\ Stream(e)[1] = t /\ Asks(e).op = "exit"
    BY <1>11, <2>1 DEF TurnsInv
  <2>3. QED BY <1>1, <2>2
<1>12. QED BY <1>1, <1>2, <1>6, <1>7, <1>8, <1>9, <1>10, <1>11 DEF TurnsInv

LEMMA ServeTurns ==
  ASSUME Base, LifeInv', TurnsInv, Serve
  PROVE  TurnsInv'
<1>0. reporting \subseteq Senders BY DEF Base, LifeInv
<1>1. /\ Total' = Total
      /\ \A j \in 1..Total : Stream(j)' = Stream(j) /\ Asks(j)' = Asks(j)
  BY ServeStream
<1>2. /\ tid' = tid /\ reporting' = reporting
      /\ \A t \in Senders : \/ life'[t] = life[t]
                            \/ life[t] = "running" /\ life'[t] = "leaving"
      /\ \A t \in Clients : life'[t] = life[t]
  BY SenderFacts DEF Serve, choices, Base, LifeInv
<1>3. \A t \in reporting : life'[t] \in {"running", "leaving"} =>
        \E j \in 1..Total : Stream(j)'[1] = t
  BY <1>0, <1>1, <1>2 DEF TurnsInv
<1>4. \A t \in reporting : life'[t] = "ended" =>
        \E e \in 1..Total : Stream(e)'[1] = t /\ Asks(e)'.op = "exit"
  BY <1>0, <1>1, <1>2 DEF TurnsInv
<1>5. ASSUME NEW e \in 1..Total, Asks(e)'.op = "exit"
      PROVE  /\ life'[Stream(e)'[1]] = "ended"
             /\ \A i \in 1..Total : Stream(i)'[1] = Stream(e)'[1] => i <= e
  <2>1. /\ life[Stream(e)[1]] = "ended" /\ Stream(e)[1] \in Senders
        /\ \A i \in 1..Total : Stream(i)[1] = Stream(e)[1] => i <= e
    BY <1>1, <1>5, Place DEF TurnsInv
  <2>2. QED BY <1>1, <1>2, <2>1
<1>6. \A j \in 1..Total : Stream(j)'[1] \in reporting =>
        (Asks(j)'.op = "spawn" <=> Stream(j)'[2] = 1)
  BY <1>1 DEF TurnsInv
<1>7. ASSUME NEW i \in 1..Total, NEW j \in 1..Total, i < j,
             NEW t \in Clients \cap reporting, NEW u \in Clients,
             Stream(i)'[1] = t, Stream(j)'[1] = u,
             t # u, tid'[t] = tid'[u]
      PROVE  \E e \in 1..Total : e < j /\ Stream(e)'[1] = t /\ Asks(e)'.op = "exit"
  <2>1. Stream(i)[1] = t /\ Stream(j)[1] = u /\ tid[t] = tid[u] BY <1>1, <1>2, <1>7
  <2>2. PICK e \in 1..Total : e < j /\ Stream(e)[1] = t /\ Asks(e).op = "exit"
    BY <1>7, <2>1 DEF TurnsInv
  <2>3. QED BY <1>1, <2>2
<1>8. QED BY <1>1, <1>2, <1>3, <1>4, <1>5, <1>6, <1>7 DEF TurnsInv

-----------------------------------------------------------------------------
(* The cache.                                                              *)

\* What is known of a thread that has reported itself.
Known(id) == [Default EXCEPT !.id = id]

\* Is the message at place j the latest the server has of a thread that reports
\* itself and has not said that it ends?
Latest(j) ==
  /\ Stream(j)[1] \in reporting
  /\ Asks(j).op # "exit"
  /\ \A i \in 1..Got : Stream(i)[1] = Stream(j)[1] => i <= j

\* The entry of a thread that has reported itself has its id; the entries that
\* only other threads' calls have made, under its id or under a number that is
\* none, have no id.  The entry of a thread never has a name.
CacheInv ==
  /\ \A i \in DOMAIN threads :
       /\ i \in ThreadIds => threads[i] \in {Known(i), Known(NoId)}
       /\ i \notin ThreadIds => threads[i].id = NoId
  /\ \A j \in 1..Got : Latest(j) =>
       LET i == tid[Stream(j)[1]] IN i \in DOMAIN threads /\ threads[i] = Known(i)

\* The thread of a latest message has its id for itself: no other thread's exit
\* is served next.
LEMMA OneOwner ==
  ASSUME Base, TurnsInv, Got + 1 \in 1..Total, Asks(Got + 1).op = "exit",
         NEW j \in 1..Got, Latest(j), tid[Stream(Got + 1)[1]] = tid[Stream(j)[1]]
  PROVE  Stream(Got + 1)[1] = Stream(j)[1]
<1> DEFINE t == Stream(Got + 1)[1]
           u == Stream(j)[1]
<1> SUFFICES ASSUME t # u PROVE FALSE OBVIOUS
<1>1. Got \in Nat /\ j \in 1..Total /\ j < Got + 1 BY StreamType DEF Base
<1>2. u \in Senders /\ t \in Senders /\ u \in reporting BY <1>1, Place DEF Latest
<1>3. life[u] # "new" /\ life[t] # "new" BY <1>1, Started
<1>4. /\ tid[Main] = MainId /\ tid[ServerThread] = ServerId /\ MainId # ServerId
      /\ \A v \in Clients : life[v] # "new" => tid[v] \notin {MainId, ServerId}
  BY LoggerAssumption DEF Base, LifeInv, ClientIds
<1> HIDE DEF t, u
<1>5. t \in Clients /\ u \in Clients
  <2>1. tid[t] = tid[u] BY DEF t, u
  <2>2. QED BY <1>2, <1>3, <1>4, <2>1 DEF Senders
<1>6. PICK e \in 1..Total : e < Got + 1 /\ Stream(e)[1] = u /\ Asks(e).op = "exit"
  BY <1>1, <1>2, <1>5 DEF TurnsInv, t, u
<1>7. e \in 1..Got BY <1>1, <1>6
<1>8. e <= j BY <1>6, <1>7 DEF Latest, u
<1>9. j <= e BY <1>1, <1>6 DEF TurnsInv, u
<1>10. e = j BY <1>1, <1>8, <1>9
<1>11. QED BY <1>6, <1>10 DEF Latest

\* Before a request that is no spawn the server has had the one before it.
LEMMA Previous ==
  ASSUME Base, TurnsInv, Got + 1 \in 1..Total,
         NEW t \in reporting, Stream(Got + 1)[1] = t, Asks(Got + 1).op # "spawn"
  PROVE  \E j \in 1..Got : Latest(j) /\ Stream(j)[1] = t
<1>0. t \in Senders BY DEF Base, LifeInv
<1>1. Got \in Nat /\ Got + 1 <= Total /\ Total \in Nat BY StreamType DEF Base
<1>2. PICK k \in 1..enqueued[t] : Stream(Got + 1)[2] = k BY <1>0, Place
<1>3. enqueued[t] \in Nat /\ k # 1
  BY <1>0, <1>2, SenderFacts DEF TurnsInv, Base, QueueType
<1>4. k - 1 \in 1..enqueued[t] BY <1>3
<1>5. PICK j \in 1..Total : Stream(j) = <<t, k - 1>>
  BY <1>0, <1>4 DEF Base, OrderInv, InStream
<1>6. Stream(j)[1] = t /\ Stream(j)[2] = k - 1 BY <1>5
<1>7. ~(Got + 1 < j)
  <2>1. SUFFICES ASSUME Got + 1 < j PROVE FALSE OBVIOUS
  <2>2. k < k - 1 BY <1>2, <1>6, <2>1 DEF Base, OrderInv
  <2>3. QED BY <1>3, <2>2
<1>8. j # Got + 1 BY <1>2, <1>3, <1>6
<1>9. j \in 1..Got BY <1>1, <1>7, <1>8
<1>10. Asks(j).op # "exit"
  <2>1. SUFFICES ASSUME Asks(j).op = "exit" PROVE FALSE OBVIOUS
  <2>2. Got + 1 <= j BY <1>6, <2>1 DEF TurnsInv
  <2>3. QED BY <1>1, <1>9, <2>2
<1>11. ASSUME NEW i \in 1..Got, Stream(i)[1] = t PROVE i <= j
  <2>1. i \in 1..Total /\ i < Got + 1 BY <1>1
  <2>2. Stream(i)[2] < k BY <1>2, <1>11, <2>1 DEF Base, OrderInv
  <2>3. SUFFICES ASSUME j < i PROVE FALSE BY <1>9
  <2>4. k - 1 < Stream(i)[2] BY <1>6, <1>11, <2>1, <2>3 DEF Base, OrderInv
  <2>5. Stream(i)[2] \in 1..enqueued[t] BY <1>11, <2>1, Place
  <2>6. QED BY <1>3, <2>2, <2>4, <2>5
<1>12. QED BY <1>6, <1>9, <1>10, <1>11 DEF Latest

\* What the cache holds under an id, or makes for it.
LEMMA Entries ==
  ASSUME ServiceType, CacheInv
  PROVE  /\ \A i \in ThreadIds : /\ Entry(i) \in {Known(i), Known(NoId)}
                                 /\ [Entry(i) EXCEPT !.id = i] = Known(i)
         /\ \A i : i \notin ThreadIds => Entry(i).id = NoId
         /\ [Entry(NoId) EXCEPT !.id = NoId].id = NoId
         /\ \A i : Known(i).id = i
<1>1. /\ \A i : Known(i) = [id |-> i, name |-> Unnamed, parent |-> NoId]
      /\ Default = Known(NoId) /\ Default.id = NoId
  BY DEF Known, Default
<1>2. \A i \in ThreadIds : Entry(i) \in {Known(i), Known(NoId)}
  BY <1>1 DEF CacheInv, Entry
<1>3. \A i \in ThreadIds : [Entry(i) EXCEPT !.id = i] = Known(i) BY <1>1, <1>2
<1>4. \A i : i \notin ThreadIds => Entry(i).id = NoId BY <1>1 DEF CacheInv, Entry
<1>5. [Entry(NoId) EXCEPT !.id = NoId].id = NoId
  BY <1>4, EntryType DEF ThreadInfo
<1>6. QED BY <1>1, <1>2, <1>3, <1>4, <1>5

\* What a sink may be told for request r.
Told(r, kind, info) ==
  CASE kind = "rename"     -> info.id = NoId
    [] kind = "set_parent" -> info.id \in {NoId, r.parent}
    [] OTHER -> r.msg[1] \in reporting => info = Known(r.id)

LEMMA Truth ==
  ASSUME Base, TurnsInv, CacheInv, Got + 1 \in 1..Total, Asks(Got + 1).op \in About,
         NEW a \in Arguments(Asks(Got + 1))
  PROVE  Told(Asks(Got + 1), a.op, Shown(a))
<1> DEFINE r == Asks(Got + 1)
<1>1. r \in Requests /\ r.msg = Stream(Got + 1) BY Place DEF Asks
<1>2. r.op # "kill" BY DEF About
<1>3. ServiceType BY DEF Base
<1> HIDE DEF r
<1>4. /\ a.op = r.op
      /\ r.op \in Own => a = r /\ a \in Request1
      /\ r.op = "set_parent" => a \in Read2 /\ a.id = r.parent
      /\ r.op = "rename" => a \in Read5
  BY <1>1, <1>2, ReadType DEF r
<1>5. CASE r.op = "rename"
  <2>1. a.id \notin ThreadIds BY <1>4, <1>5 DEF Read5
  <2>2. Shown(a) = Entry(a.id) BY <1>4, <1>5 DEF Shown
  <2>3. QED BY <1>3, <1>4, <1>5, <2>1, <2>2, Entries DEF Told, r
<1>6. CASE r.op = "set_parent"
  <2>1. a.id \in Real BY <1>4, <1>6 DEF Read2
  <2>2. Shown(a) = IF a.id = NoId THEN [Entry(NoId) EXCEPT !.id = NoId] ELSE Entry(a.id)
    BY <1>4, <1>6 DEF Shown
  <2>3. Shown(a).id \in {NoId, a.id}
    <3>1. CASE a.id = NoId BY <1>3, <2>2, <3>1, Entries
    <3>2. CASE a.id # NoId
      <4>1. a.id \in ThreadIds BY <2>1, <3>2 DEF Real
      <4>2. QED BY <1>3, <2>2, <3>2, <4>1, Entries
    <3>3. QED BY <3>1, <3>2
  <2>4. QED BY <1>4, <1>6, <2>3 DEF Told, r
<1>7. CASE r.op \in Own
  <2>1. a = r /\ r.id \in ThreadIds BY <1>4, <1>7 DEF Request1
  <2>2. SUFFICES ASSUME r.msg[1] \in reporting PROVE Shown(r) = Known(r.id)
    BY <1>4, <1>7, <2>1 DEF Told, Own, r
  <2>3. CASE r.op = "spawn"
    <3>1. Shown(r) = [Entry(r.id) EXCEPT !.id = r.id] BY <2>3 DEF Shown
    <3>2. QED BY <1>3, <2>1, <3>1, Entries
  <2>4. CASE r.op # "spawn"
    <3>1. PICK t \in reporting : t = Stream(Got + 1)[1] BY <1>1, <2>2
    <3>2. PICK k \in 1..enqueued[t] : k = Stream(Got + 1)[2] /\ r = requests[t][k]
      BY <3>1, Place DEF r, Asks, Request
    <3>3. r.id = tid[t] BY <1>7, <3>2 DEF Base, RequestInv, LifeInv
    <3>4. PICK j \in 1..Got : Latest(j) /\ Stream(j)[1] = t
      BY <2>4, <3>1, Previous DEF r
    <3>5. r.id \in DOMAIN threads /\ threads[r.id] = Known(r.id)
      BY <3>3, <3>4 DEF CacheInv
    <3>6. Shown(r) = Info(r.id) BY <1>7, <2>4 DEF Shown, Own
    <3>7. QED BY <3>5, <3>6 DEF Info
  <2>5. QED BY <2>3, <2>4
<1>8. QED BY <1>5, <1>6, <1>7 DEF About, Own, r

LEMMA CacheInit == Init => CacheInv /\ Attribution
<1> SUFFICES ASSUME Init PROVE CacheInv /\ Attribution OBVIOUS
<1>1. log = <<>> /\ DOMAIN threads = {} /\ delivered = [c \in {Server} |-> <<>>]
  BY DEF Init, ServiceInit, Queue!Init
<1>2. Len(log) = 0 /\ Got = 0 BY <1>1, EmptySeq DEF Got
<1>3. QED BY <1>1, <1>2 DEF CacheInv, Attribution

LEMMA SendsCache ==
  ASSUME Base, CacheInv, NEW t \in Senders, NEW r \in Requests, Sends(t, r)
  PROVE  CacheInv'
<1>1. /\ Total \in Nat /\ Got \in Nat /\ Got <= Total /\ Got' = Got
      /\ \A j \in 1..Total : Stream(j)' = Stream(j) /\ Asks(j)' = Asks(j)
  BY SendsStream
<1>2. threads' = threads /\ tid' = tid /\ reporting' = reporting
  BY DEF Sends, service, choices
<1>3. \A j \in 1..Got : /\ j \in 1..Total /\ Stream(j)' = Stream(j)
                        /\ Asks(j)' = Asks(j)
  BY <1>1
<1>4. ASSUME NEW j \in 1..Got PROVE Latest(j)' <=> Latest(j)
  BY <1>1, <1>2, <1>3 DEF Latest
<1>5. QED BY <1>1, <1>2, <1>3, <1>4 DEF CacheInv

LEMMA QuietCache ==
  ASSUME Base, LifeInv', CacheInv, Quiet
  PROVE  CacheInv'
<1>1. /\ Got' = Got /\ \A j : Stream(j)' = Stream(j) /\ Asks(j)' = Asks(j)
      /\ Total \in Nat /\ Got \in Nat /\ Got <= Total
  BY QuietStream
<1>2. threads' = threads /\ reporting' = reporting BY DEF Quiet, service, choices
<1>3. ASSUME NEW j \in 1..Got PROVE tid'[Stream(j)[1]] = tid[Stream(j)[1]]
  <2>1. j \in 1..Total BY <1>1
  <2>2. PICK u \in Senders : u = Stream(j)[1] BY <2>1, Place
  <2>3. life[u] \notin {"new", "starting"} BY <2>1, <2>2, Started
  <2>4. tid'[u] = tid[u] BY <2>3 DEF Quiet, Lives_on
  <2>5. QED BY <2>2, <2>4
<1>4. \A j \in 1..Got : Latest(j)' <=> Latest(j) BY <1>1, <1>2 DEF Latest
<1>5. QED BY <1>1, <1>2, <1>3, <1>4 DEF CacheInv

\* What a request makes of the entries: no entry of a thread gets a name or
\* another thread's id, and only the exit of its id takes one away.
LEMMA Entered ==
  ASSUME ServiceType, CacheInv, NEW r \in Requests, r.op \in About, NEW a \in Arguments(r)
  PROVE  /\ \A i \in DOMAIN Table(a) :
              /\ i \in ThreadIds => Table(a)[i] \in {Known(i), Known(NoId)}
              /\ i \notin ThreadIds => Table(a)[i].id = NoId
         /\ \A i \in DOMAIN threads \cap ThreadIds :
              \/ r.op = "exit" /\ r.id = i
              \/ /\ i \in DOMAIN Table(a)
                 /\ threads[i] = Known(i) => Table(a)[i] = Known(i)
         /\ r.op = "spawn" => r.id \in DOMAIN Table(a) /\ Table(a)[r.id] = Known(r.id)
<1>1. /\ a.op = r.op
      /\ r.op \in Own => a = r /\ a \in Request1
      /\ r.op = "set_parent" => a \in Read2
      /\ r.op = "rename" => a \in Read5
  BY ReadType DEF About
<1>2. \A i \in DOMAIN threads :
        /\ i \in ThreadIds => threads[i] \in {Known(i), Known(NoId)}
        /\ i \notin ThreadIds => threads[i].id = NoId
  BY DEF CacheInv
<1>3. NoId \notin ThreadIds BY LoggerAssumption
<1>4. CASE r.op = "print" BY <1>1, <1>2, <1>4 DEF Table
<1>5. CASE r.op = "exit"
  <2>1. Table(a) = [i \in DOMAIN threads \ {r.id} |-> threads[i]]
    BY <1>1, <1>5 DEF Table, Own
  <2>2. QED BY <1>2, <1>5, <2>1
<1>6. CASE r.op = "spawn"
  <2>1. a = r /\ r.id \in ThreadIds BY <1>1, <1>6 DEF Own, Request1
  <2>2. Shown(r) = Known(r.id)
    <3>1. Shown(r) = [Entry(r.id) EXCEPT !.id = r.id] BY <1>6 DEF Shown
    <3>2. QED BY <2>1, <3>1, Entries
  <2>3. Table(a) = [i \in DOMAIN threads \cup {r.id} |->
                      IF i = r.id THEN Known(r.id) ELSE threads[i]]
    BY <1>6, <2>1, <2>2 DEF Table, Store
  <2>4. QED BY <1>2, <1>6, <2>1, <2>3
<1>7. CASE r.op = "rename"
  <2> DEFINE entry == [Entry(a.id) EXCEPT !.name = a.name]
  <2>1. a.id \notin ThreadIds /\ a.id \in Ids BY <1>1, <1>7 DEF Read5
  <2>2. entry.id = NoId
    <3>1. Entry(a.id).id = NoId /\ Entry(a.id) \in ThreadInfo BY <2>1, Entries, EntryType
    <3>2. QED BY <3>1 DEF ThreadInfo
  <2>3. Table(a) = Store(a.id, entry) BY <1>1, <1>7 DEF Table, Shown
  <2> HIDE DEF entry
  <2>4. Table(a) = [i \in DOMAIN threads \cup {a.id} |->
                      IF i = a.id THEN entry ELSE threads[i]]
    BY <2>3 DEF Store
  <2>5. QED BY <1>2, <1>7, <2>1, <2>2, <2>4
<1>8. CASE r.op = "set_parent"
  <2> DEFINE none == [Entry(NoId) EXCEPT !.id = NoId]
             entry == [Shown(a) EXCEPT !.parent = NoId]
  <2>1. a.id \in Real BY <1>1, <1>8 DEF Read2
  <2>2. none \in ThreadInfo /\ none.id = NoId BY Entries, EntryType
  <2>3. Shown(a) = IF a.id = NoId THEN none ELSE Entry(a.id) BY <1>1, <1>8 DEF Shown
  <2>4. Shown(a) \in ThreadInfo
    <3>1. a.id = NoId \/ a.id \in Ids BY <2>1, EntryType DEF Real
    <3>2. QED BY <2>2, <2>3, <3>1, EntryType
  <2>5. entry = Shown(a) BY <2>4 DEF ThreadInfo
  <2>6. Table(a) = [i \in DOMAIN threads \cup {a.id, NoId} |->
                      CASE i = a.id -> entry
                        [] i = NoId /\ i # a.id -> none
                        [] OTHER -> threads[i]]
    BY <1>1, <1>8 DEF Table
  <2> HIDE DEF none, entry
  <2>7. /\ \A i \in DOMAIN Table(a) :
             \/ i = a.id /\ Table(a)[i] = Shown(a)
             \/ i = NoId /\ i # a.id /\ Table(a)[i] = none
             \/ i \in DOMAIN threads /\ i # a.id /\ i # NoId /\ Table(a)[i] = threads[i]
        /\ DOMAIN threads \subseteq DOMAIN Table(a)
    BY <2>5, <2>6
  <2>8. CASE a.id = NoId
    <3>1. Shown(a) = none BY <2>3, <2>8
    <3>2. QED BY <1>2, <1>3, <1>8, <2>2, <2>7, <2>8, <3>1
  <2>9. CASE a.id \in ThreadIds
    <3>1. Shown(a) = Entry(a.id) /\ Entry(a.id) \in {Known(a.id), Known(NoId)}
      BY <1>3, <2>3, <2>9, Entries
    <3>2. a.id \in DOMAIN threads => Shown(a) = threads[a.id] BY <3>1 DEF Entry
    <3>3. QED BY <1>2, <1>3, <1>8, <2>2, <2>7, <2>9, <3>1, <3>2
  <2>10. QED BY <2>1, <2>8, <2>9 DEF Real
<1>9. QED BY <1>4, <1>5, <1>6, <1>7, <1>8 DEF About

LEMMA ServeCache ==
  ASSUME Base, LifeInv', TurnsInv, CacheInv, Serve
  PROVE  CacheInv'
<1> DEFINE r == Asks(Got + 1)
           t == Stream(Got + 1)[1]
<1>1. /\ Total \in Nat /\ Got \in Nat /\ Got + 1 \in 1..Total
      /\ Total' = Total /\ Got' = Got + 1
      /\ \A j \in 1..Total : Stream(j)' = Stream(j) /\ Asks(j)' = Asks(j)
  BY ServeStream
<1>2. /\ r \in Requests /\ r.msg = Stream(Got + 1)
      /\ \/ r.op = "kill" /\ UNCHANGED service
         \/ r.op # "kill" /\ \E a \in Arguments(r) : dispatch(a)
      /\ tid' = tid /\ requests' = requests /\ reporting' = reporting
  BY ServeBase DEF Asks, choices
<1>3. /\ \A j \in 1..Got : j \in 1..Total /\ j \in 1..Got + 1 /\ j < Got + 1
      /\ \A j \in 1..Got + 1 : j = Got + 1 \/ j \in 1..Got
      /\ Got + 1 \in 1..Got + 1
  BY <1>1
<1>4. PICK k \in 1..enqueued[t] : k = Stream(Got + 1)[2] /\ r = requests[t][k]
  BY <1>1, Place DEF Asks, Request
<1>5. t \in Senders /\ (r.op \in Own => r.id = tid[t]) /\ (r.op \in {"spawn", "exit"} => t \in reporting)
  BY <1>1, <1>4, Place DEF Base, RequestInv
<1>6. ServiceType /\ (r.op \in {"spawn", "exit"} => r.op \in Own) BY DEF Base, Own
<1> DEFINE now(j) == LET i == tid[Stream(j)[1]] IN
                     i \in DOMAIN threads /\ threads[i] = Known(i)
<1>7. ASSUME NEW j \in 1..Got, Latest(j)'
      PROVE  Latest(j) /\ Stream(j)[1] # t /\ now(j) /\ tid[Stream(j)[1]] \in ThreadIds
  <2>1. j \in 1..Total /\ \A i \in 1..Got : Stream(i)' = Stream(i) BY <1>1, <1>3
  <2>2. Latest(j) BY <1>1, <1>2, <1>3, <1>7, <2>1 DEF Latest
  <2>3. Stream(j)[1] # t
    <3>1. SUFFICES ASSUME Stream(j)[1] = t PROVE FALSE OBVIOUS
    <3>2. PICK p \in 1..Got' : p = Got + 1 BY <1>1, <1>3
    <3>3. Stream(p)'[1] = t /\ Stream(j)'[1] = t BY <1>1, <2>1, <3>1, <3>2
    <3>4. p <= j BY <1>7, <3>2, <3>3 DEF Latest
    <3>5. QED BY <1>1, <1>3, <3>2, <3>4
  <2>4. now(j) BY <2>2 DEF CacheInv
  <2>5. Stream(j)[1] \in Senders /\ life[Stream(j)[1]] # "new" BY <2>1, Place, Started
  <2>6. tid[Stream(j)[1]] \in ThreadIds BY <2>5, IdOf DEF Base
  <2>7. QED BY <2>2, <2>3, <2>4, <2>6
<1>8. ASSUME NEW j, j = Got + 1, Latest(j)' PROVE t \in reporting /\ r.op # "exit"
  <2>1. Stream(j)' = Stream(j) /\ Asks(j)' = r /\ Stream(j)[1] = t BY <1>1, <1>8
  <2>2. QED BY <1>2, <1>8, <2>1 DEF Latest
<1>9. CASE \/ r.op \notin About /\ threads' = threads
           \/ r.op \in About /\ \E a \in Arguments(r) : threads' = Table(a)
  <2> HIDE DEF r, t
  <2>1. \A i \in DOMAIN threads' :
          /\ i \in ThreadIds => threads'[i] \in {Known(i), Known(NoId)}
          /\ i \notin ThreadIds => threads'[i].id = NoId
    BY <1>2, <1>6, <1>9, Entered DEF CacheInv
  <2>2. ASSUME NEW i \in ThreadIds, i \in DOMAIN threads, threads[i] = Known(i),
               r.op = "exit" => r.id # i
        PROVE  i \in DOMAIN threads' /\ threads'[i] = Known(i)
    BY <1>2, <1>6, <1>9, <2>2, Entered
  <2>3. r.op = "spawn" => r.id \in DOMAIN threads' /\ threads'[r.id] = Known(r.id)
    BY <1>2, <1>6, <1>9, Entered DEF About
  <2>4. ASSUME NEW j \in 1..Got + 1, Latest(j)'
        PROVE  LET i == tid[Stream(j)[1]] IN i \in DOMAIN threads' /\ threads'[i] = Known(i)
    <3>1. CASE j \in 1..Got
      <4>1. /\ Latest(j) /\ Stream(j)[1] # t /\ now(j) /\ tid[Stream(j)[1]] \in ThreadIds
        BY <1>7, <2>4, <3>1
      <4>2. r.op = "exit" => r.id # tid[Stream(j)[1]]
        BY <1>1, <1>5, <1>6, <3>1, <4>1, OneOwner DEF r, t
      <4>3. QED BY <2>2, <4>1, <4>2
    <3>2. CASE j = Got + 1
      <4>1. t \in reporting /\ r.op # "exit" /\ Stream(j)[1] = t BY <1>8, <2>4, <3>2 DEF t
      <4>2. CASE r.op = "spawn" BY <1>5, <1>6, <2>3, <4>1, <4>2
      <4>3. CASE r.op # "spawn"
        <5>1. PICK h \in 1..Got : Latest(h) /\ Stream(h)[1] = t
          BY <1>1, <4>1, <4>3, Previous DEF r, t
        <5>2. tid[t] \in DOMAIN threads /\ threads[tid[t]] = Known(tid[t])
          BY <5>1 DEF CacheInv
        <5>3. tid[t] \in ThreadIds
          <6>1. life[t] # "new" BY <1>1, Started DEF t
          <6>2. QED BY <1>5, <6>1, IdOf DEF Base
        <5>4. QED BY <2>2, <4>1, <5>2, <5>3
      <4>4. QED BY <4>2, <4>3
    <3>3. QED BY <1>3, <3>1, <3>2
  <2>5. /\ Got' = Got + 1 /\ tid' = tid
        /\ \A j \in 1..Got + 1 : Stream(j)' = Stream(j)
    BY <1>1, <1>2, <1>3
  <2>6. QED BY <2>1, <2>4, <2>5 DEF CacheInv
<1>10. ASSUME r.op # "kill", NEW a \in Arguments(r), dispatch(a)
       PROVE  IF r.op \in About THEN threads' = Table(a) ELSE threads' = threads
  <2>1. a \in Read /\ a.op = r.op BY <1>2, <1>10, ReadType
  <2>2. QED BY <1>6, <1>10, <2>1, AboutThreads, AboutSinks
<1>11. UNCHANGED service => threads' = threads BY DEF service
<1>12. r.op = "kill" => r.op \notin About BY DEF About
<1> HIDE DEF r
<1>13. QED BY <1>2, <1>9, <1>10, <1>11, <1>12

\* The call i on a sink has told it what it may.
ToldTruth(i) == Told(Request(log[i].msg), log[i].kind, log[i].thread)

LEMMA AttributionIs == Attribution <=> \A i \in 1..Len(log) : ToldTruth(i)
BY DEF Attribution, ToldTruth, Told, Known

\* It stays so, as requests that were sent are not changed.
LEMMA TruthStays ==
  ASSUME Base, LogInv, reporting' = reporting, NEW i \in 1..Len(log), ToldTruth(i),
         \A j \in 1..Total : Stream(j)' = Stream(j) /\ Asks(j)' = Asks(j),
         log'[i] = log[i]
  PROVE  ToldTruth(i)'
<1>1. PICK j \in 1..Got : log[i].msg = Stream(j) BY DEF LogInv
<1>2. j \in 1..Total BY StreamType DEF Base
<1>3. Asks(j) = Request(log[i].msg) BY <1>1 DEF Asks
<1>4. Asks(j)' = Request(log[i].msg)'
  <2>1. log'[i].msg = Stream(j)' BY <1>1, <1>2
  <2>2. QED BY <2>1 DEF Asks, Request
<1>5. Request(log[i].msg)' = Request(log[i].msg) BY <1>2, <1>3, <1>4
<1>6. QED BY <1>5 DEF ToldTruth, Told

LEMMA TruthNext ==
  ASSUME Base, LifeInv', LogInv, TurnsInv, CacheInv, Attribution, [Work]_vars
  PROVE  Attribution'
<1>0. \A i \in 1..Len(log) : ToldTruth(i) BY AttributionIs
<1>1. Serve \/ (\E t \in Senders : \E r \in Requests : Sends(t, r)) \/ Quiet
  BY Steps DEF Base
<1> DEFINE Stays == /\ reporting' = reporting
                    /\ \A j \in 1..Total : Stream(j)' = Stream(j) /\ Asks(j)' = Asks(j)
<1>2. Stays
  <2>1. ASSUME NEW t \in Senders, NEW r \in Requests, Sends(t, r) PROVE Stays
    BY <2>1, SendsStream DEF Sends, choices
  <2>2. CASE Quiet BY <2>2, QuietStream DEF Quiet, choices
  <2>3. CASE Serve BY <2>3, ServeStream DEF Serve, choices
  <2>4. QED BY <1>1, <2>1, <2>2, <2>3
<1>3. CASE log' = log
  <2>1. \A i \in 1..Len(log) : ToldTruth(i)' BY <1>0, <1>2, <1>3, TruthStays
  <2>2. QED BY <1>3, <2>1 DEF Attribution, ToldTruth, Told, Known
<1>4. CASE log' # log
  <2> DEFINE r == Asks(Got + 1)
             n == Len(log)
  <2>0. Serve BY <1>1, <1>4 DEF Sends, Quiet, service
  <2>1. /\ r \in Requests /\ r.msg = Stream(Got + 1) /\ Got + 1 \in 1..Total
        /\ \/ r.op = "kill" /\ UNCHANGED service
           \/ r.op # "kill" /\ \E a \in Arguments(r) : dispatch(a)
    BY <2>0, ServeBase DEF Asks
  <2>2. PICK a \in Arguments(r) : r.op # "kill" /\ dispatch(a)
    BY <1>4, <2>1 DEF service
  <2>3. a \in Read /\ a.op = r.op /\ a.msg = r.msg BY <2>1, <2>2, ReadType
  <2>4. a.op \in About BY <1>4, <2>2, <2>3, AboutSinks DEF Base
  <2>5. Told(r, a.op, Shown(a)) BY <2>1, <2>3, <2>4, Truth
  <2>6. Asks(Got + 1) = r /\ \A p : p = Got + 1 => Asks(p)' = r /\ Stream(p)' = r.msg
    BY <1>2, <2>1
  <2> HIDE DEF r
  <2>7. /\ Dispatch(a.msg, a.op, Shown(a)) /\ Shown(a) \in ThreadInfo /\ a.msg \in Messages
    BY <2>2, <2>3, <2>4, AboutThreads DEF Base
  <2>8. /\ n \in Nat /\ Len(sinks) \in Nat /\ Len(log') = n + Len(sinks)
        /\ \A i \in 1..n : log'[i] = log[i]
        /\ \A i \in n + 1..n + Len(sinks) :
             log'[i].msg = a.msg /\ log'[i].kind = a.op /\ log'[i].thread = Shown(a)
    BY <2>4, <2>7, Logged DEF Base
  <2>9. \A i \in 1..n : ToldTruth(i)' BY <1>0, <1>2, <2>8, TruthStays
  <2>10. ASSUME NEW i \in n + 1..n + Len(sinks) PROVE ToldTruth(i)'
    <3>1. log'[i].msg = r.msg /\ log'[i].kind = a.op /\ log'[i].thread = Shown(a)
      BY <2>3, <2>8
    <3>2. PICK p : p = Got + 1 OBVIOUS
    <3>3. Request(log[i].msg)' = r
      <4>1. Asks(p)' = Request(Stream(p))' BY DEF Asks
      <4>2. log'[i].msg = Stream(p)' BY <2>6, <3>1, <3>2
      <4>3. QED BY <2>6, <3>2, <4>1, <4>2 DEF Request
    <3>4. QED BY <1>2, <2>5, <3>1, <3>3 DEF ToldTruth, Told
  <2> HIDE DEF n
  <2>11. \A i \in 1..n + Len(sinks) : i \in 1..n \/ i \in n + 1..n + Len(sinks)
    BY <2>8
  <2>12. \A i \in 1..Len(log') : ToldTruth(i)' BY <2>8, <2>9, <2>10, <2>11
  <2>13. QED BY <2>12 DEF Attribution, ToldTruth, Told, Known
<1>5. QED BY <1>3, <1>4

WellInformed == NothingLost /\ TurnsInv /\ CacheInv /\ Attribution

LEMMA WellInformedNext == WellInformed /\ [Work]_vars => WellInformed'
<1> SUFFICES ASSUME WellInformed, [Work]_vars PROVE WellInformed' OBVIOUS
<1>1. NothingLost /\ TurnsInv /\ CacheInv /\ Attribution /\ Base /\ LogInv
  BY DEF WellInformed, NothingLost
<1>2. NothingLost' BY <1>1, NothingLostNext
<1>3. LifeInv' BY <1>2 DEF NothingLost, Base
<1>4. Serve \/ (\E t \in Senders : \E r \in Requests : Sends(t, r)) \/ Quiet
  BY <1>1, Steps DEF Base
<1>5. TurnsInv' BY <1>1, <1>3, <1>4, SendsTurns, QuietTurns, ServeTurns
<1>6. CacheInv' BY <1>1, <1>3, <1>4, SendsCache, QuietCache, ServeCache
<1>7. Attribution' BY <1>1, <1>3, TruthNext
<1>8. QED BY <1>2, <1>5, <1>6, <1>7 DEF WellInformed

(* What a sink is told of a thread whose thread_helper exists is that        *)
(* thread's id and nothing else, though ids are used again: its entry is     *)
(* there from its spawn to its exit, and no call of set_name or set_parent   *)
(* reaches it, as the server reads the number of a name or the parent for    *)
(* the id.  A new name is told of a thread without an id, a new parent of    *)
(* that parent.                                                              *)
THEOREM SinksAreToldIds == Spec => []Attribution
<1> DEFINE Inv == WellInformed \/ (Crashed /\ Attribution)
<1>1. Init => Inv
  BY BaseInit, MainInit, LogInit, TurnsInit, CacheInit DEF WellInformed, NothingLost
<1>2. Inv /\ [Next]_vars => Inv'
  <2> SUFFICES ASSUME Inv, [Next]_vars PROVE Inv' OBVIOUS
  <2>1. Attribution BY DEF WellInformed
  <2>2. CASE WellInformed /\ [Work]_vars BY <2>2, WellInformedNext
  <2>3. CASE Crashed' /\ UNCHANGED <<service, queue, requests, tid, choices, main_at>>
    BY <2>1, <2>3 DEF Attribution, Request, service, choices
  <2>4. CASE Crashed /\ UNCHANGED vars
    BY <2>1, <2>4 DEF Attribution, Request, Crashed, vars, service, status, choices
  <2>5. QED BY <2>2, <2>3, <2>4, StepKinds, NoStepAfterCrash
<1>3. Inv => Attribution BY DEF WellInformed
<1>4. QED BY <1>1, <1>2, <1>3, PTL DEF Spec
=============================================================================
