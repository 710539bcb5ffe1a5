---------------------------- MODULE BoundedMPMC ----------------------------
(***************************************************************************)
(* The multi-producer multi-consumer ring of queue/mpmc_bounded.hpp with   *)
(* the blocking push and pop of queue/base.hpp, one action per atomic      *)
(* access of the code.                                                     *)
(*                                                                         *)
(* Every cell has a sequence number.  sequence = p says "free for the push *)
(* that claims position p"; p + 1 says "holds the message of position p";  *)
(* the pop of position p sets p + N, which frees the cell for the next     *)
(* lap.  Positions are claimed by compare-and-swap on write_pos/read_pos.  *)
(*                                                                         *)
(* Memory model.  A load of an atomic may return any value of its          *)
(* modification order that is not older than what the thread has seen; a   *)
(* successful compare-and-swap reads the newest value.  `accesses',        *)
(* `released' and `acquired' record which accesses to a cell's plain data  *)
(* happen before which others through release stores and acquire loads.    *)
(* The 64-bit positions are natural numbers: wrapping needs 2^64 pushes.   *)
(***************************************************************************)
EXTENDS Integers, Sequences, FiniteSets

CONSTANTS
  Producers,     \* threads inside push
  Consumers,     \* threads inside pop
  Stoppable,     \* the consumers that call pop(stop_token)
  N,             \* number of cells
  MaxMessages,   \* bound: messages a producer pushes
  None           \* what a cell holds before its first write or after a move

ASSUME NAssumption == N \in Nat /\ N >= 2
ASSUME ThreadAssumption ==
  /\ Producers \cap Consumers = {}
  /\ Stoppable \subseteq Consumers
  /\ MaxMessages \in Nat
  /\ None \notin Producers \X (1..MaxMessages)

VARIABLES
  sequence,      \* cell -> its sequence number
  data,          \* cell -> its message
  write_pos,     \* next position to be claimed by a push
  read_pos,      \* next position to be claimed by a pop
  pc,            \* thread -> where it is in try_push or try_pop
  pos,           \* thread -> its local pos
  sent,          \* producer -> number of push calls begun
  received,      \* consumer -> results of its completed pops
  stopped,       \* stop_requested() of the token
  accesses,      \* cell -> number of accesses to its data so far
  released,      \* cell -> accesses that precede the store of its sequence
  acquired       \* thread -> accesses to its cell that happen before it

ring   == <<sequence, data, write_pos, read_pos>>
order  == <<accesses, released, acquired>>
vars   == <<ring, pc, pos, sent, received, stopped, order>>

Threads == Producers \cup Consumers
Cells   == 0..(N - 1)
Message == Producers \X (1..MaxMessages)

Cell(p) == p % N

\* the message a producer inside push carries
Carried(p) == <<p, sent[p]>>

\* Mutant: the pop stores pos + buffer_mask instead of pos + buffer_mask + 1.
NextLapShort(q) == q + N - 1

\* the sequence number that frees the cell of position q for the next lap
NextLap(q) == q + N

\* the values a load of a cell's sequence may return
Loadable(i) == {s \in i..sequence[i] : s % N \in {i, (i + 1) % N}}

Goto(t, from, to) ==
  /\ pc[t] = from
  /\ pc' = [pc EXCEPT ![t] = to]

-----------------------------------------------------------------------------
Init ==
  /\ sequence = [i \in Cells |-> i]
  /\ data = [i \in Cells |-> None]
  /\ write_pos = 0
  /\ read_pos = 0
  /\ pc = [t \in Threads |-> "idle"]
  /\ pos = [t \in Threads |-> 0]
  /\ sent = [p \in Producers |-> 0]
  /\ received = [c \in Consumers |-> <<>>]
  /\ stopped = FALSE
  /\ accesses = [i \in Cells |-> 0]
  /\ released = [i \in Cells |-> 0]
  /\ acquired = [t \in Threads |-> 0]

BeginPush(p) ==
  /\ sent[p] < MaxMessages
  /\ Goto(p, "idle", "load_pos")
  /\ sent' = [sent EXCEPT ![p] = @ + 1]
  /\ UNCHANGED <<ring, pos, received, stopped, order>>

BeginPop(c) ==
  /\ Goto(c, "idle", "load_pos")
  /\ UNCHANGED <<ring, pos, sent, received, stopped, order>>

\* pos = write_pos.load(relaxed) / read_pos.load(relaxed)
LoadPos(t, counter, v) ==
  /\ v \in pos[t]..counter
  /\ Goto(t, "load_pos", "load_seq")
  /\ pos' = [pos EXCEPT ![t] = v]
  /\ UNCHANGED <<ring, sent, received, stopped, order>>

\* Mutant: dif < 0 is not told from dif = 0.
LoadSequenceUnchecked(t, wanted, s) ==
  /\ s \in Loadable(Cell(pos[t]))
  /\ Goto(t, "load_seq", IF s <= wanted THEN "cas" ELSE "load_pos")
  /\ UNCHANGED <<ring, pos, sent, received, stopped, order>>

\* seq = cell->sequence.load(acquire) and the branch on dif = seq - wanted
LoadSequence(t, wanted, s) ==
  LET i == Cell(pos[t]) IN
  /\ s \in Loadable(i)
  /\ \/ s = wanted /\ Goto(t, "load_seq", "cas")
     \/ s < wanted /\ Goto(t, "load_seq", "retry")
     \/ s > wanted /\ Goto(t, "load_seq", "load_pos")
  /\ acquired' = [acquired EXCEPT ![t] =
                    IF s = wanted /\ s = sequence[i] THEN released[i] ELSE 0]
  /\ UNCHANGED <<ring, pos, sent, received, stopped, accesses, released>>

\* compare_exchange_weak reports failure: a stale, newer or (spurious) equal
\* value ends up in pos and the loop reads the sequence of that position
CasFails(t, counter, v) ==
  /\ v \in pos[t]..counter
  /\ Goto(t, "cas", "load_seq")
  /\ pos' = [pos EXCEPT ![t] = v]
  /\ acquired' = [acquired EXCEPT ![t] = 0]
  /\ UNCHANGED <<ring, sent, received, stopped, accesses, released>>

\* try_push / try_pop returned false: the loop of push and pop tries again
Retry(t) ==
  /\ t \in Stoppable => ~stopped
  /\ Goto(t, "retry", "load_pos")
  /\ UNCHANGED <<ring, pos, sent, received, stopped, order>>

-----------------------------------------------------------------------------
\* Mutant: the position is claimed by a store instead of a compare-and-swap.
ClaimWriteByStore(p) ==
  /\ Goto(p, "cas", "access")
  /\ write_pos' = pos[p] + 1
  /\ UNCHANGED <<sequence, data, read_pos, pos, sent, received, stopped, order>>

\* the compare-and-swap of line 39 succeeds: position pos[p] belongs to p
ClaimWrite(p) ==
  /\ pos[p] = write_pos
  /\ Goto(p, "cas", "access")
  /\ write_pos' = write_pos + 1
  /\ UNCHANGED <<sequence, data, read_pos, pos, sent, received, stopped, order>>

\* new (&cell->data) T(std::forward<U>(data))
WriteData(p) ==
  LET i == Cell(pos[p]) IN
  /\ Goto(p, "access", "publish")
  /\ data' = [data EXCEPT ![i] = Carried(p)]
  /\ accesses' = [accesses EXCEPT ![i] = @ + 1]
  /\ UNCHANGED <<sequence, write_pos, read_pos, pos, sent, received, stopped,
                 released, acquired>>

\* Mutant: memory_order_relaxed, so nothing is handed over.
StoreSequenceRelaxed(t, s) ==
  LET i == Cell(pos[t]) IN
  /\ Goto(t, "publish", "idle")
  /\ sequence' = [sequence EXCEPT ![i] = s]
  /\ released' = [released EXCEPT ![i] = 0]
  /\ acquired' = [acquired EXCEPT ![t] = 0]
  /\ UNCHANGED <<data, write_pos, read_pos, pos, sent, received, stopped,
                 accesses>>

\* the release store hands over what the thread acquired and its own access
StoreSequence(t, s) ==
  LET i == Cell(pos[t]) IN
  /\ Goto(t, "publish", "idle")
  /\ sequence' = [sequence EXCEPT ![i] = s]
  /\ released' = [released EXCEPT ![i] = acquired[t] + 1]
  /\ acquired' = [acquired EXCEPT ![t] = 0]
  /\ UNCHANGED <<data, write_pos, read_pos, pos, sent, received, stopped,
                 accesses>>

\* the compare-and-swap of line 64 succeeds: position pos[c] belongs to c
ClaimRead(c) ==
  /\ pos[c] = read_pos
  /\ Goto(c, "cas", "access")
  /\ read_pos' = read_pos + 1
  /\ UNCHANGED <<sequence, data, write_pos, pos, sent, received, stopped, order>>

\* new (target) T(std::move(cell->data))
MoveData(c) ==
  LET i == Cell(pos[c]) IN
  /\ Goto(c, "access", "publish")
  /\ received' = [received EXCEPT ![c] = Append(@, data[i])]
  /\ data' = [data EXCEPT ![i] = None]
  /\ accesses' = [accesses EXCEPT ![i] = @ + 1]
  /\ UNCHANGED <<sequence, write_pos, read_pos, pos, sent, stopped,
                 released, acquired>>

\* pop(token) gives up after a failed try_pop and returns a default object
GiveUp(c) ==
  /\ c \in Stoppable
  /\ stopped
  /\ Goto(c, "retry", "done")
  /\ UNCHANGED <<ring, pos, sent, received, stopped, order>>

RequestStop ==
  /\ Stoppable # {}
  /\ ~stopped
  /\ stopped' = TRUE
  /\ UNCHANGED <<ring, pc, pos, sent, received, order>>

-----------------------------------------------------------------------------
Push(p) ==
  \/ BeginPush(p)
  \/ \E v \in 0..write_pos : LoadPos(p, write_pos, v)
  \/ \E s \in Loadable(Cell(pos[p])) : LoadSequence(p, pos[p], s)
  \/ \E v \in 0..write_pos : CasFails(p, write_pos, v)
  \/ Retry(p)
  \/ ClaimWrite(p)
  \/ WriteData(p)
  \/ StoreSequence(p, pos[p] + 1)

Pop(c) ==
  \/ BeginPop(c)
  \/ \E v \in 0..read_pos : LoadPos(c, read_pos, v)
  \/ \E s \in Loadable(Cell(pos[c])) : LoadSequence(c, pos[c] + 1, s)
  \/ \E v \in 0..read_pos : CasFails(c, read_pos, v)
  \/ Retry(c)
  \/ ClaimRead(c)
  \/ MoveData(c)
  \/ StoreSequence(c, NextLap(pos[c]))
  \/ GiveUp(c)

Next == \/ \E p \in Producers : Push(p)
        \/ \E c \in Consumers : Pop(c)
        \/ RequestStop

Spec == Init /\ [][Next]_vars

(***************************************************************************)
(* Fairness: a thread inside push or pop is eventually scheduled; a store  *)
(* becomes visible to loads in finite time (strong fairness of the newest  *)
(* value); the weak compare-and-swap does not fail spuriously forever; a   *)
(* consumer calls pop again (Server::run).  Nobody is obliged to push.     *)
(***************************************************************************)
Fairness ==
  /\ \A p \in Producers :
       /\ WF_vars(Push(p) /\ pc[p] # "idle")
       /\ SF_vars(LoadPos(p, write_pos, write_pos))
       /\ SF_vars(LoadSequence(p, pos[p], sequence[Cell(pos[p])]))
       /\ SF_vars(ClaimWrite(p))
  /\ \A c \in Consumers :
       /\ WF_vars(Pop(c))
       /\ SF_vars(LoadPos(c, read_pos, read_pos))
       /\ SF_vars(LoadSequence(c, pos[c] + 1, sequence[Cell(pos[c])]))
       /\ SF_vars(ClaimRead(c))

FairSpec == Spec /\ Fairness

-----------------------------------------------------------------------------
\* The types of the state; in particular every object a pop returns is one
\* some push wrote, never a cell that is empty or already moved from.
TypeOK ==
  /\ sequence \in [Cells -> Nat]
  /\ data \in [Cells -> Message \cup {None}]
  /\ write_pos \in Nat
  /\ read_pos \in Nat
  /\ pc \in [Threads -> {"idle", "load_pos", "load_seq", "cas", "access",
                         "publish", "retry", "done"}]
  /\ pos \in [Threads -> Nat]
  /\ sent \in [Producers -> 0..MaxMessages]
  /\ received \in [Consumers -> Seq(Message)]
  /\ stopped \in BOOLEAN
  /\ accesses \in [Cells -> Nat]
  /\ released \in [Cells -> Nat]
  /\ acquired \in [Threads -> Nat]

\* The message at a claimed position: still with its producer, or in its cell.
MessageAt(q) ==
  IF \E p \in Producers : pc[p] = "access" /\ pos[p] = q
  THEN Carried(CHOOSE p \in Producers : pc[p] = "access" /\ pos[p] = q)
  ELSE data[Cell(q)]

\* A push takes effect when it claims a position of write_pos, a pop when it
\* claims one of read_pos; a claimed pop owns the message it is about to move.
Items == [k \in 1..(write_pos - read_pos) |-> MessageAt(read_pos + k - 1)]

Enqueued ==
  [p \in Producers |-> IF pc[p] \in {"load_pos", "load_seq", "cas", "retry"}
                       THEN sent[p] - 1 ELSE sent[p]]

Delivered ==
  [c \in Consumers |-> IF pc[c] = "access"
                       THEN Append(received[c], data[Cell(pos[c])])
                       ELSE received[c]]

Fifo == INSTANCE BoundedFifo WITH
  Capacity <- N, items <- Items, enqueued <- Enqueued, delivered <- Delivered

\* The ring implements a FIFO buffer of N messages: nothing is lost,
\* duplicated, reordered or overwritten, whatever the interleaving of
\* try_push and try_pop and however stale their relaxed loads are.
ImplementsFifo == Fifo!Spec

\* Placement new (line 49) and the move (line 74) touch plain memory: two of
\* them are never in progress on one cell, and everything done to the cell
\* before happens before the access through its sequence number.
DataRaceFree ==
  \A t \in Threads : pc[t] = "access" =>
    /\ acquired[t] = accesses[Cell(pos[t])]
    /\ \A u \in Threads \ {t} :
         pc[u] = "access" => Cell(pos[u]) # Cell(pos[t])

\* Every message whose push has begun is eventually returned by some pop, as
\* long as the consumers keep popping.
EveryPushDelivered ==
  \A p \in Producers : \A k \in 1..MaxMessages :
    sent[p] >= k ~> \E c \in Consumers :
                      \E n \in 1..Len(received[c]) : received[c][n] = <<p, k>>
=============================================================================
