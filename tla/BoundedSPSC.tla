---------------------------- MODULE BoundedSPSC ----------------------------
(***************************************************************************)
(* The single-producer single-consumer ring of queue/spsc_bounded.hpp with *)
(* the blocking push and pop of queue/base.hpp.                            *)
(*                                                                         *)
(* write_pos and read_pos are positions modulo N; one cell stays empty so  *)
(* that a full ring differs from an empty one.  Each side keeps a cached   *)
(* copy of the other side's position and reloads it only when the cached   *)
(* one says full (empty).                                                  *)
(*                                                                         *)
(* Memory model.  An acquire load may return an older value of the other   *)
(* side's position, but never one older than the cached value.  The k-th   *)
(* store of a position wrote k % N.  `stores[t]' counts the stores of t,   *)
(* `synced[t]' how many stores of the other side happen before t.          *)
(***************************************************************************)
EXTENDS Integers, Sequences

CONSTANTS
  Producer, Consumer,   \* the two threads
  N,                    \* number of cells
  MaxMessages,          \* bound: messages the producer pushes
  None                  \* a default-constructed cell

ASSUME NAssumption == N \in Nat /\ N >= 2
ASSUME ThreadAssumption ==
  /\ Producer # Consumer
  /\ MaxMessages \in Nat
  /\ None \notin {Producer} \X (1..MaxMessages)

VARIABLES
  buffer,            \* cell -> message
  write_pos,         \* next cell to write; stored by the producer only
  read_pos,          \* next cell to read; stored by the consumer only
  write_pos_cached,  \* the consumer's copy of write_pos
  read_pos_cached,   \* the producer's copy of read_pos
  pc,                \* thread -> where it is in try_push or try_pop
  target,            \* the object the running pop fills
  sent,              \* number of push calls begun
  received,          \* results of the completed pops
  stores,            \* thread -> number of stores of its position
  synced             \* thread -> stores of the other side ordered before it

positions == <<write_pos, read_pos, write_pos_cached, read_pos_cached>>
history   == <<sent, received>>
order     == <<stores, synced>>
vars      == <<buffer, positions, pc, target, history, order>>

Threads == {Producer, Consumer}
Cells   == 0..(N - 1)
Message == {Producer} \X (1..MaxMessages)
Other(t) == IF t = Producer THEN Consumer ELSE Producer

\* Mutant: the mask lets the position run one past the buffer.
AfterUnmasked(q) == (q + 1) % (N + 1)

\* (pos + 1) & buffer_mask
After(q) == (q + 1) % N

Goto(t, from, to) ==
  /\ pc[t] = from
  /\ pc' = [pc EXCEPT ![t] = to]

-----------------------------------------------------------------------------
Init ==
  /\ buffer = [i \in Cells |-> None]
  /\ write_pos = 0
  /\ read_pos = 0
  /\ write_pos_cached = 0
  /\ read_pos_cached = 0
  /\ pc = [t \in Threads |-> "idle"]
  /\ target = None
  /\ sent = 0
  /\ received = <<>>
  /\ stores = [t \in Threads |-> 0]
  /\ synced = [t \in Threads |-> 0]

BeginPush ==
  /\ sent < MaxMessages
  /\ Goto(Producer, "idle", "check")
  /\ sent' = sent + 1
  /\ UNCHANGED <<buffer, positions, target, received, order>>

\* Mutant: the cached position is never refreshed.
CheckFullCachedOnly ==
  /\ After(write_pos) # read_pos_cached
  /\ Goto(Producer, "check", "access")
  /\ UNCHANGED <<buffer, positions, target, history, order>>

\* next == read_pos_cached ?
CheckFull ==
  /\ \/ After(write_pos) # read_pos_cached /\ Goto(Producer, "check", "access")
     \/ After(write_pos) = read_pos_cached /\ Goto(Producer, "check", "reload")
  /\ UNCHANGED <<buffer, positions, target, history, order>>

\* Mutant: the cached position is trusted without asking again.
ReloadReadPosUnchecked(k) ==
  /\ k \in synced[Producer]..stores[Consumer]
  /\ read_pos_cached' = k % N
  /\ synced' = [synced EXCEPT ![Producer] = k]
  /\ Goto(Producer, "reload", "access")
  /\ UNCHANGED <<buffer, write_pos, read_pos, write_pos_cached, target, history,
                 stores>>

\* read_pos_cached = read_pos.load(acquire); still full: push yields, retries
ReloadReadPos(k) ==
  /\ k \in synced[Producer]..stores[Consumer]
  /\ read_pos_cached' = k % N
  /\ synced' = [synced EXCEPT ![Producer] = k]
  /\ \/ After(write_pos) # read_pos_cached' /\ Goto(Producer, "reload", "access")
     \/ After(write_pos) = read_pos_cached' /\ Goto(Producer, "reload", "check")
  /\ UNCHANGED <<buffer, write_pos, read_pos, write_pos_cached, target, history,
                 stores>>

\* new (buffer + pos) T(data)
WriteCell ==
  /\ Goto(Producer, "access", "publish")
  /\ buffer' = [buffer EXCEPT ![write_pos] = <<Producer, sent>>]
  /\ UNCHANGED <<positions, target, history, order>>

\* write_pos.store(next, release)
StoreWritePos ==
  /\ Goto(Producer, "publish", "idle")
  /\ write_pos' = After(write_pos)
  /\ stores' = [stores EXCEPT ![Producer] = @ + 1]
  /\ UNCHANGED <<buffer, read_pos, write_pos_cached, read_pos_cached, target,
                 history, synced>>

BeginPop ==
  /\ Goto(Consumer, "idle", "check")
  /\ UNCHANGED <<buffer, positions, target, history, order>>

\* pos == write_pos_cached ?
CheckEmpty ==
  /\ \/ read_pos # write_pos_cached /\ Goto(Consumer, "check", "access")
     \/ read_pos = write_pos_cached /\ Goto(Consumer, "check", "reload")
  /\ UNCHANGED <<buffer, positions, target, history, order>>

\* Mutant: memory_order_relaxed, so the load orders nothing.
ReloadWritePosRelaxed(k) ==
  /\ k \in synced[Consumer]..stores[Producer]
  /\ write_pos_cached' = k % N
  /\ \/ read_pos # write_pos_cached' /\ Goto(Consumer, "reload", "access")
     \/ read_pos = write_pos_cached' /\ Goto(Consumer, "reload", "check")
  /\ UNCHANGED <<buffer, write_pos, read_pos, read_pos_cached, target, history,
                 order>>

\* write_pos_cached = write_pos.load(acquire); still empty: pop yields, retries
ReloadWritePos(k) ==
  /\ k \in synced[Consumer]..stores[Producer]
  /\ write_pos_cached' = k % N
  /\ synced' = [synced EXCEPT ![Consumer] = k]
  /\ \/ read_pos # write_pos_cached' /\ Goto(Consumer, "reload", "access")
     \/ read_pos = write_pos_cached' /\ Goto(Consumer, "reload", "check")
  /\ UNCHANGED <<buffer, write_pos, read_pos, read_pos_cached, target, history,
                 stores>>

\* new (target) T(buffer[pos])
ReadCell ==
  /\ Goto(Consumer, "access", "publish")
  /\ target' = buffer[read_pos]
  /\ UNCHANGED <<buffer, positions, history, order>>

\* read_pos.store(next, release) and return of the filled object
StoreReadPos ==
  /\ Goto(Consumer, "publish", "idle")
  /\ read_pos' = After(read_pos)
  /\ stores' = [stores EXCEPT ![Consumer] = @ + 1]
  /\ received' = Append(received, target)
  /\ target' = None
  /\ UNCHANGED <<buffer, write_pos, write_pos_cached, read_pos_cached, sent,
                 synced>>

-----------------------------------------------------------------------------
Push ==
  \/ BeginPush
  \/ CheckFull
  \/ \E k \in 0..stores[Consumer] : ReloadReadPos(k)
  \/ WriteCell
  \/ StoreWritePos

Pop ==
  \/ BeginPop
  \/ CheckEmpty
  \/ \E k \in 0..stores[Producer] : ReloadWritePos(k)
  \/ ReadCell
  \/ StoreReadPos

Next == Push \/ Pop

Spec == Init /\ [][Next]_vars

\* Both threads are scheduled while they are inside a call, the consumer calls
\* pop again, and a store becomes visible to the reloads in finite time.
Fairness ==
  /\ WF_vars(Push /\ pc[Producer] # "idle")
  /\ WF_vars(Pop)
  /\ SF_vars(ReloadReadPos(stores[Consumer]))
  /\ SF_vars(ReloadWritePos(stores[Producer]))

FairSpec == Spec /\ Fairness

-----------------------------------------------------------------------------
\* The types of the state; positions are indices of the buffer and every
\* object a pop returns is one the producer wrote.
TypeOK ==
  /\ buffer \in [Cells -> Message \cup {None}]
  /\ write_pos \in Cells
  /\ read_pos \in Cells
  /\ write_pos_cached \in Cells
  /\ read_pos_cached \in Cells
  /\ pc \in [Threads -> {"idle", "check", "reload", "access", "publish"}]
  /\ target \in Message \cup {None}
  /\ sent \in 0..MaxMessages
  /\ received \in Seq(Message)
  /\ stores \in [Threads -> Nat]
  /\ synced \in [Threads -> Nat]

\* the number of messages between the two positions
Stored == (write_pos - read_pos) % N

\* A push takes effect when it stores write_pos, a pop when it stores read_pos.
Items     == [k \in 1..Stored |-> buffer[(read_pos + k - 1) % N]]
Enqueued  == [p \in {Producer} |-> IF pc[p] = "idle" THEN sent ELSE sent - 1]
Delivered == [c \in {Consumer} |-> received]

Fifo == INSTANCE BoundedFifo WITH
  Producers <- {Producer}, Consumers <- {Consumer}, Capacity <- N - 1,
  items <- Items, enqueued <- Enqueued, delivered <- Delivered

\* The ring implements a FIFO buffer of N - 1 messages, however stale the
\* cached and reloaded positions are.
ImplementsFifo == Fifo!Spec

\* The cell the producer constructs in (line 30) has been read out, and that
\* read happens before; the cell the consumer copies from (line 44) has been
\* written, and that write happens before.  So they are never the same cell.
DataRaceFree ==
  /\ pc[Producer] = "access" => synced[Producer] >= stores[Producer] - N + 1
  /\ pc[Consumer] = "access" => synced[Consumer] > stores[Consumer]
  /\ pc[Producer] = "access" /\ pc[Consumer] = "access" => write_pos # read_pos

\* Every message whose push has begun is eventually popped, as long as the
\* consumer keeps popping.
EveryPushDelivered ==
  \A k \in 1..MaxMessages : sent >= k ~> Len(received) >= k
=============================================================================
