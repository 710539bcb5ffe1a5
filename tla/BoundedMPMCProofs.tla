------------------------- MODULE BoundedMPMCProofs -------------------------
(***************************************************************************)
(* Proofs about BoundedMPMC for every number of cells, producers and       *)
(* consumers: type correctness, freedom from data races, and that the ring *)
(* implements a FIFO buffer.                                               *)
(***************************************************************************)
EXTENDS BoundedMPMC, SequenceTheorems, TLAPS

-----------------------------------------------------------------------------
(* Positions of a ring and the cells they map to.                          *)

\* A position is its lap times n plus its cell.
LEMMA DivMod ==
  ASSUME NEW n \in Nat, n >= 2, NEW p \in Nat
  PROVE  p \div n \in Nat /\ p % n \in 0..(n - 1) /\ p = n * (p \div n) + (p % n)
BY SMT

\* A positive multiple of n is at least n.
LEMMA Multiple ==
  ASSUME NEW n \in Nat, n >= 2, NEW k \in Int, n * k > 0 PROVE n * k >= n
<1>1. k >= 1 BY SMT
<1>2. QED BY <1>1, SMT

\* Two positions of one cell are a lap apart.
LEMMA Far ==
  ASSUME NEW n \in Nat, n >= 2, NEW p \in Nat, NEW q \in Nat, p % n = q % n, p < q
  PROVE  q >= p + n
<1> DEFINE a == p \div n
           b == q \div n
<1>1. /\ a \in Nat /\ b \in Nat /\ p % n \in 0..(n - 1)
      /\ p = n * a + (p % n) /\ q = n * b + (p % n)
  BY DivMod
<1> HIDE DEF a, b
<1>2. q - p = n * (b - a) BY <1>1, SMT
<1>3. QED BY <1>1, <1>2, Multiple, SMT

\* A number below n is its own remainder, and remainders are unique.
LEMMA Remainder ==
  ASSUME NEW n \in Nat, n >= 2, NEW p \in Nat, NEW b \in Nat, NEW x \in 0..(n - 1),
         p = n * b + x
  PROVE  p % n = x
<1> DEFINE a == p \div n
           y == p % n
           k == b - a
<1>1. a \in Nat /\ y \in 0..(n - 1) /\ p = n * a + y BY DivMod
<1> HIDE DEF a, y
<1>2. k \in Int /\ y - x = n * k BY <1>1, SMT
<1>3. -k \in Int /\ n * (-k) = x - y BY <1>1, <1>2, SMT
<1> HIDE DEF k
<1>4. ~(y - x > 0) BY <1>1, <1>2, Multiple, SMT
<1>5. ~(x - y > 0) BY <1>1, <1>3, Multiple, SMT
<1>6. QED BY <1>1, <1>4, <1>5, SMT DEF y

\* One lap later is the same cell.
LEMMA Wrap ==
  ASSUME NEW n \in Nat, n >= 2, NEW p \in Nat PROVE (p + n) % n = p % n
<1> DEFINE a == p \div n
           x == p % n
<1>1. a \in Nat /\ x \in 0..(n - 1) /\ p = n * a + x BY DivMod
<1> HIDE DEF a, x
<1>2. p + n \in Nat /\ a + 1 \in Nat /\ p + n = n * (a + 1) + x BY <1>1, SMT
<1>3. (p + n) % n = x BY <1>1, <1>2, Remainder
<1>4. QED BY <1>3 DEF x

-----------------------------------------------------------------------------
(* Positions and cells.                                                    *)

\* A position maps to a cell of the ring.
LEMMA CellType == ASSUME NEW p \in Nat PROVE Cell(p) \in Cells
BY DivMod, NAssumption DEF Cell, Cells

\* Two positions of one cell are a lap apart.
LEMMA CellFar ==
  ASSUME NEW p \in Nat, NEW q \in Nat, Cell(p) = Cell(q), p < q
  PROVE  q >= p + N
BY Far, NAssumption DEF Cell

\* One lap later is the same cell.
LEMMA CellWrap == ASSUME NEW p \in Nat PROVE Cell(p + N) = Cell(p)
BY Wrap, NAssumption DEF Cell

\* Neighbouring positions are in different cells.
LEMMA Adjacent == ASSUME NEW p \in Nat PROVE Cell(p) # Cell(p + 1)
<1>1. p + 1 \in Nat /\ p < p + 1 /\ ~(p + 1 >= p + N) BY NAssumption, SMT
<1>2. QED BY <1>1, CellFar

-----------------------------------------------------------------------------
(* The inductive invariant.                                                *)

\* A free cell waits for one of the next N positions to be popped; a written
\* one holds a claimed position that is at most a lap old, and its message is
\* there as long as the position is not claimed by a pop.
Free(i) ==
  /\ Cell(sequence[i]) = i
  /\ read_pos <= sequence[i]
  /\ sequence[i] < read_pos + N

Written(i) ==
  LET q == sequence[i] - 1 IN
  /\ q \in Nat
  /\ Cell(q) = i
  /\ q < write_pos
  /\ write_pos <= q + N
  /\ q >= read_pos => data[i] \in Message

Busy == {"access", "publish"}

CellInv == \A i \in Cells : Free(i) \/ Written(i)

PosInv == read_pos <= write_pos /\ write_pos <= read_pos + N

ProducerInv ==
  \A p \in Producers :
    LET i == Cell(pos[p]) IN
    /\ pc[p] # "idle" => sent[p] >= 1
    /\ pc[p] = "cas" => sequence[i] >= pos[p]
    /\ pc[p] = "cas" /\ sequence[i] = pos[p] => acquired[p] = released[i]
    /\ pc[p] \in Busy => sequence[i] = pos[p] /\ pos[p] < write_pos
    /\ pc[p] = "publish" => data[i] \in Message
    /\ pc[p] \in Busy => \A u \in Producers :
                           pc[u] \in Busy /\ pos[u] = pos[p] => u = p

ConsumerInv ==
  \A c \in Consumers :
    LET i == Cell(pos[c]) IN
    /\ pc[c] = "cas" => sequence[i] >= pos[c] + 1
    /\ pc[c] = "cas" /\ sequence[i] = pos[c] + 1 => acquired[c] = released[i]
    /\ pc[c] \in Busy => sequence[i] = pos[c] + 1 /\ pos[c] < read_pos
    /\ pc[c] = "access" => data[i] \in Message
    /\ pc[c] \in Busy => \A u \in Consumers :
                           pc[u] \in Busy /\ pos[u] = pos[c] => u = c

OrderInv ==
  /\ \A t \in Threads :
       LET i == Cell(pos[t]) IN
       /\ pc[t] = "access" => acquired[t] = accesses[i] /\ released[i] = accesses[i]
       /\ pc[t] = "publish" => accesses[i] = acquired[t] + 1
  /\ \A i \in Cells : \/ accesses[i] = released[i]
                      \/ \E t \in Threads : pc[t] = "publish" /\ Cell(pos[t]) = i

IInv == TypeOK /\ CellInv /\ PosInv /\ ProducerInv /\ ConsumerInv /\ OrderInv
-----------------------------------------------------------------------------
LEMMA InitInv == Init => IInv
<1> SUFFICES ASSUME Init PROVE IInv
  OBVIOUS
<1>1. TypeOK
  <2>1. Cells \subseteq Nat BY NAssumption, SMT DEF Cells
  <2>2. received \in [Consumers -> Seq(Message)] BY DEF Init
  <2>3. sent \in [Producers -> 0..MaxMessages]
    BY ThreadAssumption DEF Init
  <2>4. QED BY <2>1, <2>2, <2>3 DEF Init, TypeOK
<1>2. CellInv
  <2> SUFFICES ASSUME NEW i \in Cells PROVE Free(i)
    BY DEF CellInv
  <2>1. i \in Nat /\ i < N /\ i % N = i
    <3>1. i \in Nat /\ i < N BY NAssumption, SMT DEF Cells
    <3>2. i = N * 0 + i BY <3>1, NAssumption, SMT
    <3>3. QED BY <3>1, <3>2, Remainder, NAssumption, SMT DEF Cells
  <2>2. QED BY <2>1, NAssumption DEF Init, Free, Cell
<1>3. PosInv BY NAssumption DEF Init, PosInv
<1>4. ProducerInv BY DEF Init, ProducerInv, Busy, Threads
<1>5. ConsumerInv BY DEF Init, ConsumerInv, Busy, Threads
<1>6. OrderInv BY DEF Init, OrderInv
<1>7. QED BY <1>1, <1>2, <1>3, <1>4, <1>5, <1>6 DEF IInv

\* The ring and the ghost counters of the cells are not changed by a step that
\* only loads.
Loads == UNCHANGED <<ring, sent, received, stopped, accesses, released>>

\* A load by t moves only t, and leaves it outside the busy sections.
Moves(t) ==
  /\ pc[t] \notin Busy /\ pc'[t] \notin Busy
  /\ pc' = [pc EXCEPT ![t] = pc'[t]]
  /\ pos' = [pos EXCEPT ![t] = pos'[t]]
  /\ acquired' = [acquired EXCEPT ![t] = acquired'[t]]

\* A step that only loads keeps the invariant if what it newly says of its
\* thread before a compare-and-swap is right.
LEMMA LoadInv ==
  ASSUME IInv, NEW t \in Threads, Loads, Moves(t),
         t \in Producers => pc[t] # "idle",
         pos'[t] \in Nat, acquired'[t] \in Nat,
         pc'[t] \in {"load_pos", "load_seq", "cas", "retry", "done"},
         pc'[t] = "cas" =>
           LET wanted == IF t \in Producers THEN pos'[t] ELSE pos'[t] + 1 IN
           /\ sequence[Cell(pos'[t])] >= wanted
           /\ sequence[Cell(pos'[t])] = wanted
                => acquired'[t] = released[Cell(pos'[t])]
  PROVE  IInv'
<1> USE DEF Loads, Moves, ring, Busy
<1>1. TypeOK' BY DEF IInv, TypeOK
<1>2. CellInv' BY DEF IInv, CellInv, Free, Written
<1>3. PosInv' BY DEF IInv, PosInv
<1>4. ProducerInv'
  <2>1. \A u \in Threads \ {t} : /\ pc'[u] = pc[u] /\ pos'[u] = pos[u]
                                  /\ acquired'[u] = acquired[u]
    BY DEF IInv, TypeOK
  <2>2. ASSUME NEW p \in Producers, p # t PROVE ProducerInv!(p)'
    BY <2>1, <2>2 DEF IInv, ProducerInv, Threads
  <2>3. ASSUME NEW p \in Producers, p = t PROVE ProducerInv!(p)'
    <3>1. sent[p] >= 1 BY <2>3 DEF IInv, ProducerInv
    <3>2. QED BY <2>3, <3>1 DEF IInv, TypeOK, Threads
  <2>4. QED BY <2>2, <2>3 DEF ProducerInv
<1>5. ConsumerInv'
  <2>1. \A u \in Threads \ {t} : /\ pc'[u] = pc[u] /\ pos'[u] = pos[u]
                                  /\ acquired'[u] = acquired[u]
    BY DEF IInv, TypeOK
  <2>2. ASSUME NEW c \in Consumers, c # t PROVE ConsumerInv!(c)'
    BY <2>1, <2>2 DEF IInv, ConsumerInv, Threads
  <2>3. ASSUME NEW c \in Consumers, c = t PROVE ConsumerInv!(c)'
    BY <2>3, ThreadAssumption DEF IInv, TypeOK, Threads
  <2>4. QED BY <2>2, <2>3 DEF ConsumerInv
<1>6. OrderInv'
  <2>1. \A u \in Threads : pc'[u] \in Busy => /\ pc[u] = pc'[u] /\ pos[u] = pos'[u]
                                             /\ acquired[u] = acquired'[u]
    BY DEF IInv, TypeOK
  <2>2. \A u \in Threads : pc[u] \in Busy => pc[u] = pc'[u] /\ pos[u] = pos'[u]
    BY DEF IInv, TypeOK
  <2>3. ASSUME NEW u \in Threads
        PROVE  /\ pc'[u] = "access" => /\ acquired'[u] = accesses[Cell(pos'[u])]
                                       /\ released[Cell(pos'[u])] = accesses[Cell(pos'[u])]
               /\ pc'[u] = "publish" => accesses[Cell(pos'[u])] = acquired'[u] + 1
    <3>1. CASE pc'[u] \in Busy BY <2>1, <3>1 DEF IInv, OrderInv
    <3>2. CASE pc'[u] \notin Busy BY <3>2
    <3>3. QED BY <3>1, <3>2
  <2>4. ASSUME NEW i \in Cells, accesses[i] # released[i]
        PROVE  \E u \in Threads : pc'[u] = "publish" /\ Cell(pos'[u]) = i
    BY <2>2, <2>4 DEF IInv, OrderInv
  <2>5. QED BY <2>3, <2>4 DEF OrderInv
<1>7. QED BY <1>1, <1>2, <1>3, <1>4, <1>5, <1>6 DEF IInv
\* The cell of a position that a push is about to claim is free for it.
LEMMA WriteClaimable ==
  ASSUME IInv, NEW p \in Producers, pc[p] = "cas", pos[p] = write_pos
  PROVE  /\ sequence[Cell(write_pos)] = write_pos
         /\ write_pos < read_pos + N
         /\ acquired[p] = released[Cell(write_pos)]
<1> DEFINE i == Cell(write_pos)
<1>1. write_pos \in Nat /\ read_pos \in Nat /\ i \in Cells /\ sequence[i] \in Nat
  BY CellType DEF IInv, TypeOK
<1>2. sequence[i] >= write_pos BY DEF IInv, ProducerInv
<1>3. Free(i) \/ Written(i) BY <1>1 DEF IInv, CellInv
<1>4. read_pos <= write_pos BY DEF IInv, PosInv
<1> HIDE DEF i
<1>5. ~Written(i)
  <2> SUFFICES ASSUME Written(i) PROVE FALSE
    OBVIOUS
  <2>1. sequence[i] - 1 \in Nat /\ Cell(sequence[i] - 1) = i /\ sequence[i] - 1 < write_pos
    BY DEF Written
  <2>2. write_pos = (sequence[i] - 1) + 1 BY <1>1, <1>2, <2>1, SMT
  <2>3. QED BY <2>1, <2>2, Adjacent DEF i
<1>6. Cell(sequence[i]) = i /\ sequence[i] < read_pos + N
  BY <1>3, <1>5 DEF Free
<1>7. ~(write_pos < sequence[i])
  <2> SUFFICES ASSUME write_pos < sequence[i] PROVE FALSE
    OBVIOUS
  <2>1. sequence[i] >= write_pos + N BY <1>1, <1>6, CellFar DEF i
  <2>2. QED BY <2>1, <1>1, <1>4, <1>6, NAssumption, SMT
<1>8. sequence[i] = write_pos BY <1>1, <1>2, <1>7, SMT
<1>9. QED BY <1>6, <1>8 DEF i, IInv, ProducerInv

\* The cell of a position that a pop is about to claim holds its message.
LEMMA ReadClaimable ==
  ASSUME IInv, NEW c \in Consumers, pc[c] = "cas", pos[c] = read_pos
  PROVE  /\ sequence[Cell(read_pos)] = read_pos + 1
         /\ read_pos < write_pos
         /\ data[Cell(read_pos)] \in Message
         /\ acquired[c] = released[Cell(read_pos)]
<1> DEFINE i == Cell(read_pos)
<1>1. write_pos \in Nat /\ read_pos \in Nat /\ i \in Cells /\ sequence[i] \in Nat
  BY CellType DEF IInv, TypeOK
<1>2. sequence[i] >= read_pos + 1 BY DEF IInv, ConsumerInv
<1>3. Free(i) \/ Written(i) BY <1>1 DEF IInv, CellInv
<1>4. write_pos <= read_pos + N BY DEF IInv, PosInv
<1> HIDE DEF i
<1>5. ~Free(i)
  <2> SUFFICES ASSUME Free(i) PROVE FALSE
    OBVIOUS
  <2>1. Cell(sequence[i]) = i /\ sequence[i] < read_pos + N BY DEF Free
  <2>2. read_pos < sequence[i] BY <1>1, <1>2, SMT
  <2>3. sequence[i] >= read_pos + N BY <1>1, <2>1, <2>2, CellFar DEF i
  <2>4. QED BY <1>1, <2>1, <2>3, NAssumption, SMT
<1> DEFINE q == sequence[i] - 1
<1>6. /\ q \in Nat /\ Cell(q) = i /\ q < write_pos
      /\ q >= read_pos => data[i] \in Message
  BY <1>3, <1>5 DEF Written
<1>7. q >= read_pos /\ q < read_pos + N BY <1>1, <1>2, <1>4, <1>6, NAssumption, SMT
<1>8. q = read_pos
  <2> HIDE DEF q
  <2>1. CASE read_pos < q
    <3>1. q >= read_pos + N BY <1>1, <1>6, <2>1, CellFar DEF i
    <3>2. QED BY <3>1, <1>7, <1>6, <1>1, NAssumption, SMT
  <2>2. QED BY <2>1, <1>7, <1>6, <1>1, SMT
<1>9. sequence[i] = read_pos + 1 BY <1>1, <1>8, SMT
<1>10. QED BY <1>6, <1>8, <1>9 DEF i, IInv, ConsumerInv

\* The cell of a claimed push is free for it, the cell of a claimed pop holds
\* its message, so the two never meet in one cell.
LEMMA BusyApart ==
  ASSUME IInv, NEW t \in Threads, NEW u \in Threads, t # u,
         pc[t] \in Busy, pc[u] \in Busy
  PROVE  Cell(pos[t]) # Cell(pos[u])
<1> SUFFICES ASSUME Cell(pos[t]) = Cell(pos[u]) PROVE FALSE
  OBVIOUS
<1>1. pos[t] \in Nat /\ pos[u] \in Nat BY DEF IInv, TypeOK
<1>2. CASE t \in Producers /\ u \in Producers
  BY <1>2 DEF IInv, ProducerInv
<1>3. CASE t \in Consumers /\ u \in Consumers
  <2>1. pos[t] + 1 = pos[u] + 1 BY <1>3 DEF IInv, ConsumerInv
  <2>2. pos[t] = pos[u] BY <1>1, <2>1, SMT
  <2>3. QED BY <1>3, <2>2 DEF IInv, ConsumerInv
<1>4. CASE t \in Producers /\ u \in Consumers
  <2>1. pos[t] = pos[u] + 1 BY <1>4 DEF IInv, ProducerInv, ConsumerInv
  <2>2. QED BY <1>1, <2>1, Adjacent
<1>5. CASE t \in Consumers /\ u \in Producers
  <2>1. pos[u] = pos[t] + 1 BY <1>5 DEF IInv, ProducerInv, ConsumerInv
  <2>2. QED BY <1>1, <2>1, Adjacent
<1>6. QED BY <1>2, <1>3, <1>4, <1>5 DEF Threads
-----------------------------------------------------------------------------
(* One lemma per action: it preserves the invariant.                       *)

LEMMA BeginPushInv ==
  ASSUME IInv, NEW p \in Producers, BeginPush(p) PROVE IInv'
<1> USE DEF BeginPush, Goto, ring, order, Busy
<1>0. p \in Threads BY DEF Threads
<1>1. TypeOK'
  <2>1. sent[p] + 1 \in 0..MaxMessages
    BY ThreadAssumption, SMT DEF IInv, TypeOK
  <2>2. QED BY <1>0, <2>1 DEF IInv, TypeOK
<1>2. CellInv' BY DEF IInv, CellInv, Free, Written
<1>3. PosInv' BY DEF IInv, PosInv
<1>4. ProducerInv'
  BY <1>0, ThreadAssumption DEF IInv, TypeOK, ProducerInv, Threads
<1>5. ConsumerInv'
  <2>1. \A c \in Consumers : pc'[c] = pc[c]
    BY ThreadAssumption DEF IInv, TypeOK, Threads
  <2>2. QED BY <2>1 DEF IInv, ConsumerInv
<1>6. OrderInv'
  <2>1. \A u \in Threads : (pc'[u] \in Busy <=> pc[u] \in Busy) /\ (pc[u] \in Busy => pc'[u] = pc[u])
    BY <1>0 DEF IInv, TypeOK
  <2>2. QED BY <2>1 DEF IInv, OrderInv
<1>7. QED BY <1>1, <1>2, <1>3, <1>4, <1>5, <1>6 DEF IInv

LEMMA LoadPosInv ==
  ASSUME IInv, NEW t \in Threads, NEW counter \in Nat, NEW v, LoadPos(t, counter, v)
  PROVE  IInv'
<1>1. v \in Nat /\ pos'[t] = v /\ pc'[t] = "load_seq" /\ pc[t] = "load_pos"
  BY SMT DEF LoadPos, Goto, IInv, TypeOK
<1>2. Loads /\ Moves(t) /\ acquired'[t] \in Nat
  BY <1>1 DEF LoadPos, Goto, Loads, Moves, order, Busy, IInv, TypeOK
<1>3. QED BY <1>1, <1>2, LoadInv

LEMMA LoadSequenceInv ==
  ASSUME IInv, NEW t \in Threads, NEW s,
         NEW wanted, wanted = IF t \in Producers THEN pos[t] ELSE pos[t] + 1,
         LoadSequence(t, wanted, s)
  PROVE  IInv'
<1> DEFINE i == Cell(pos[t])
<1>1. pos[t] \in Nat /\ i \in Cells /\ sequence[i] \in Nat /\ released[i] \in Nat
  BY CellType DEF IInv, TypeOK
<1>2. /\ pc[t] = "load_seq"
      /\ pc'[t] \in {"cas", "retry", "load_pos"}
      /\ pc' = [pc EXCEPT ![t] = pc'[t]]
      /\ pc'[t] = "cas" => s = wanted
  BY DEF LoadSequence, Goto, IInv, TypeOK
<1>3. s <= sequence[i] BY <1>1, SMT DEF LoadSequence, Loadable, Cells
<1>4. acquired'[t] = IF s = wanted /\ s = sequence[i] THEN released[i] ELSE 0
  BY DEF LoadSequence, IInv, TypeOK
<1>5. pos' = pos /\ acquired' = [acquired EXCEPT ![t] = acquired'[t]]
  BY <1>4 DEF LoadSequence
<1>6. Loads /\ Moves(t) /\ acquired'[t] \in Nat /\ pos'[t] = pos[t]
  BY <1>1, <1>2, <1>4, <1>5 DEF LoadSequence, Loads, Moves, Busy, IInv, TypeOK
<1>7. pc'[t] = "cas" => /\ sequence[i] >= wanted
                        /\ sequence[i] = wanted => acquired'[t] = released[i]
  BY <1>1, <1>2, <1>3, <1>4
<1>8. QED BY <1>1, <1>2, <1>6, <1>7, LoadInv

LEMMA CasFailsInv ==
  ASSUME IInv, NEW t \in Threads, NEW counter \in Nat, NEW v, CasFails(t, counter, v)
  PROVE  IInv'
<1>1. v \in Nat /\ pos'[t] = v /\ pc'[t] = "load_seq" /\ pc[t] = "cas" /\ acquired'[t] = 0
  BY SMT DEF CasFails, Goto, IInv, TypeOK
<1>2. Loads /\ Moves(t)
  BY <1>1 DEF CasFails, Goto, Loads, Moves, Busy
<1>3. QED BY <1>1, <1>2, LoadInv

LEMMA RestInv ==
  ASSUME IInv, NEW t \in Threads,
         \/ Retry(t)
         \/ t \in Consumers /\ BeginPop(t)
         \/ t \in Consumers /\ GiveUp(t)
  PROVE  IInv'
<1>1. /\ pc[t] \in {"retry", "idle"} /\ pc'[t] \in {"load_pos", "done"}
      /\ pc' = [pc EXCEPT ![t] = pc'[t]]
      /\ t \in Producers => pc[t] # "idle"
  BY ThreadAssumption DEF Retry, BeginPop, GiveUp, Goto, IInv, TypeOK
<1>2. Loads /\ pos' = pos /\ acquired' = acquired
  BY DEF Retry, BeginPop, GiveUp, Loads, order
<1>3. Moves(t) /\ pos'[t] \in Nat /\ acquired'[t] \in Nat
  BY <1>1, <1>2 DEF Moves, Busy, IInv, TypeOK
<1>4. QED BY <1>1, <1>2, <1>3, LoadInv

LEMMA RequestStopInv == ASSUME IInv, RequestStop PROVE IInv'
<1> USE DEF RequestStop, ring, order
<1>1. TypeOK' BY DEF IInv, TypeOK
<1>2. CellInv' /\ PosInv' BY DEF IInv, CellInv, Free, Written, PosInv
<1>3. ProducerInv' /\ ConsumerInv' BY DEF IInv, ProducerInv, ConsumerInv
<1>4. OrderInv' BY DEF IInv, OrderInv
<1>5. QED BY <1>1, <1>2, <1>3, <1>4 DEF IInv
LEMMA ClaimWriteInv ==
  ASSUME IInv, NEW p \in Producers, ClaimWrite(p) PROVE IInv'
<1> USE DEF ClaimWrite, Goto, order, Busy
<1>0. p \in Threads /\ pc[p] = "cas" /\ pos[p] = write_pos BY DEF Threads
<1>1. /\ sequence[Cell(write_pos)] = write_pos
      /\ write_pos < read_pos + N
      /\ acquired[p] = released[Cell(write_pos)]
  BY <1>0, WriteClaimable
<1>2. /\ write_pos \in Nat /\ read_pos \in Nat /\ Cell(write_pos) \in Cells
      /\ \A u \in Threads : pos[u] \in Nat
      /\ \A i \in Cells : sequence[i] \in Nat
  BY CellType DEF IInv, TypeOK
<1>3. \A u \in Threads : pc'[u] = IF u = p THEN "access" ELSE pc[u]
  BY <1>0 DEF IInv, TypeOK
<1>4. TypeOK' BY <1>0, <1>2 DEF IInv, TypeOK
<1>5. CellInv'
  <2> SUFFICES ASSUME NEW i \in Cells PROVE (Free(i) \/ Written(i))'
    BY DEF CellInv
  <2>1. CASE Free(i) BY <2>1 DEF Free
  <2>2. CASE Written(i)
    <3> DEFINE q == sequence[i] - 1
    <3>1. q \in Nat /\ Cell(q) = i /\ q < write_pos /\ write_pos <= q + N
      BY <2>2 DEF Written
    <3>2. write_pos # q + N
      <4> SUFFICES ASSUME write_pos = q + N PROVE FALSE
        OBVIOUS
      <4>1. Cell(write_pos) = i BY <3>1, CellWrap
      <4>2. sequence[i] = q + N BY <4>1, <1>1
      <4>3. QED BY <4>2, <1>2, NAssumption, SMT
    <3> HIDE DEF q
    <3>3. q < write_pos + 1 /\ write_pos + 1 <= q + N
      BY <1>2, <3>1, <3>2, NAssumption, SMT
    <3>4. QED BY <2>2, <3>1, <3>3 DEF Written, q
  <2>3. QED BY <2>1, <2>2 DEF IInv, CellInv
<1>6. PosInv' BY <1>1, <1>2, NAssumption, SMT DEF IInv, PosInv
<1>7. ProducerInv'
  <2>1. \A u \in Producers : pc[u] \in Busy => pos[u] # write_pos
    BY <1>2, SMT DEF IInv, ProducerInv, Threads
  <2> SUFFICES ASSUME NEW u \in Producers PROVE ProducerInv!(u)'
    BY DEF ProducerInv
  <2>2. CASE u = p BY <1>0, <1>1, <1>2, <1>3, <2>1, <2>2, SMT DEF IInv, ProducerInv, Threads
  <2>3. CASE u # p
    <3>1. pc'[u] = pc[u] /\ u \in Threads BY <1>3, <2>3 DEF Threads
    <3>2. pc[u] \in Busy => pos[u] < write_pos + 1
      BY <1>2, <3>1, SMT DEF IInv, ProducerInv
    <3>3. pc[u] \in Busy => \A x \in Producers : pc'[x] \in Busy /\ pos[x] = pos[u] => x = u
      BY <1>0, <1>3, <2>1 DEF IInv, ProducerInv, Threads
    <3>4. QED BY <3>1, <3>2, <3>3 DEF IInv, ProducerInv
  <2>4. QED BY <2>2, <2>3
<1>8. ConsumerInv'
  <2>1. \A c \in Consumers : pc'[c] = pc[c] BY <1>3, ThreadAssumption DEF Threads
  <2>2. QED BY <2>1 DEF IInv, ConsumerInv
<1>9. OrderInv'
  <2> DEFINE i == Cell(write_pos)
  <2>1. \A u \in Threads : pc[u] \in Busy => Cell(pos[u]) # i
    <3> SUFFICES ASSUME NEW u \in Threads, pc[u] \in Busy, Cell(pos[u]) = i PROVE FALSE
      OBVIOUS
    <3>1. CASE u \in Producers
      <4>1. write_pos = pos[u] /\ pos[u] < write_pos BY <1>1, <3>1 DEF IInv, ProducerInv
      <4>2. QED BY <4>1, <1>2, SMT
    <3>2. CASE u \in Consumers
      <4>1. write_pos = pos[u] + 1 BY <1>1, <3>2 DEF IInv, ConsumerInv
      <4>2. QED BY <4>1, <1>2, Adjacent
    <3>3. QED BY <3>1, <3>2 DEF Threads
  <2>2. accesses[i] = released[i] BY <1>2, <2>1 DEF IInv, OrderInv
  <2>3. ASSUME NEW u \in Threads
        PROVE  /\ pc'[u] = "access" => /\ acquired[u] = accesses[Cell(pos[u])]
                                       /\ released[Cell(pos[u])] = accesses[Cell(pos[u])]
               /\ pc'[u] = "publish" => accesses[Cell(pos[u])] = acquired[u] + 1
    <3>1. CASE u = p BY <1>0, <1>1, <1>3, <2>2, <3>1
    <3>2. CASE u # p BY <1>3, <3>2 DEF IInv, OrderInv
    <3>3. QED BY <3>1, <3>2
  <2>4. ASSUME NEW j \in Cells, accesses[j] # released[j]
        PROVE  \E u \in Threads : pc'[u] = "publish" /\ Cell(pos[u]) = j
    <3>1. PICK u \in Threads : pc[u] = "publish" /\ Cell(pos[u]) = j
      BY <2>4 DEF IInv, OrderInv
    <3>2. pc'[u] = "publish" BY <1>0, <1>3, <3>1
    <3>3. QED BY <3>1, <3>2
  <2>5. QED BY <2>3, <2>4 DEF OrderInv
<1>10. QED BY <1>4, <1>5, <1>6, <1>7, <1>8, <1>9 DEF IInv

LEMMA ClaimReadInv ==
  ASSUME IInv, NEW c \in Consumers, ClaimRead(c) PROVE IInv'
<1> USE DEF ClaimRead, Goto, order, Busy
<1>0. c \in Threads /\ pc[c] = "cas" /\ pos[c] = read_pos BY DEF Threads
<1>1. /\ sequence[Cell(read_pos)] = read_pos + 1
      /\ read_pos < write_pos
      /\ data[Cell(read_pos)] \in Message
      /\ acquired[c] = released[Cell(read_pos)]
  BY <1>0, ReadClaimable
<1>2. /\ write_pos \in Nat /\ read_pos \in Nat /\ Cell(read_pos) \in Cells
      /\ \A u \in Threads : pos[u] \in Nat
      /\ \A i \in Cells : sequence[i] \in Nat
  BY CellType DEF IInv, TypeOK
<1>3. \A u \in Threads : pc'[u] = IF u = c THEN "access" ELSE pc[u]
  BY <1>0 DEF IInv, TypeOK
<1>4. TypeOK' BY <1>0, <1>2 DEF IInv, TypeOK
<1>5. CellInv'
  <2> SUFFICES ASSUME NEW i \in Cells PROVE (Free(i) \/ Written(i))'
    BY DEF CellInv
  <2>1. CASE Free(i)
    <3>1. Cell(sequence[i]) = i /\ read_pos <= sequence[i] /\ sequence[i] < read_pos + N
      BY <2>1 DEF Free
    <3>2. sequence[i] # read_pos
      <4> SUFFICES ASSUME sequence[i] = read_pos PROVE FALSE
        OBVIOUS
      <4>1. i = Cell(read_pos) BY <3>1
      <4>2. QED BY <4>1, <1>1, <1>2, SMT
    <3>3. read_pos + 1 <= sequence[i] /\ sequence[i] < read_pos + 1 + N
      BY <1>2, <3>1, <3>2, NAssumption, SMT
    <3>4. QED BY <3>1, <3>3 DEF Free
  <2>2. CASE Written(i)
    BY <2>2, <1>2, SMT DEF Written
  <2>3. QED BY <2>1, <2>2 DEF IInv, CellInv
<1>6. PosInv' BY <1>1, <1>2, NAssumption, SMT DEF IInv, PosInv
<1>7. ProducerInv'
  <2>1. \A p \in Producers : pc'[p] = pc[p] BY <1>3, ThreadAssumption DEF Threads
  <2>2. QED BY <2>1 DEF IInv, ProducerInv
<1>8. ConsumerInv'
  <2>1. \A u \in Consumers : pc[u] \in Busy => pos[u] # read_pos
    BY <1>2, SMT DEF IInv, ConsumerInv, Threads
  <2> SUFFICES ASSUME NEW u \in Consumers PROVE ConsumerInv!(u)'
    BY DEF ConsumerInv
  <2>2. CASE u = c BY <1>0, <1>1, <1>2, <1>3, <2>1, <2>2, SMT DEF IInv, ConsumerInv, Threads
  <2>3. CASE u # c
    <3>1. pc'[u] = pc[u] /\ u \in Threads BY <1>3, <2>3 DEF Threads
    <3>2. pc[u] \in Busy => pos[u] < read_pos + 1
      BY <1>2, <3>1, SMT DEF IInv, ConsumerInv
    <3>3. pc[u] \in Busy => \A x \in Consumers : pc'[x] \in Busy /\ pos[x] = pos[u] => x = u
      BY <1>0, <1>3, <2>1 DEF IInv, ConsumerInv, Threads
    <3>4. QED BY <3>1, <3>2, <3>3 DEF IInv, ConsumerInv
  <2>4. QED BY <2>2, <2>3
<1>9. OrderInv'
  <2> DEFINE i == Cell(read_pos)
  <2>1. \A u \in Threads : pc[u] \in Busy => Cell(pos[u]) # i
    <3> SUFFICES ASSUME NEW u \in Threads, pc[u] \in Busy, Cell(pos[u]) = i PROVE FALSE
      OBVIOUS
    <3>1. CASE u \in Producers
      <4>1. pos[u] = read_pos + 1 BY <1>1, <3>1 DEF IInv, ProducerInv
      <4>2. QED BY <4>1, <1>2, Adjacent
    <3>2. CASE u \in Consumers
      <4>1. pos[u] + 1 = read_pos + 1 /\ pos[u] < read_pos
        BY <1>1, <3>2 DEF IInv, ConsumerInv
      <4>2. QED BY <4>1, <1>2, SMT
    <3>3. QED BY <3>1, <3>2 DEF Threads
  <2>2. accesses[i] = released[i] BY <1>2, <2>1 DEF IInv, OrderInv
  <2>3. ASSUME NEW u \in Threads
        PROVE  /\ pc'[u] = "access" => /\ acquired[u] = accesses[Cell(pos[u])]
                                       /\ released[Cell(pos[u])] = accesses[Cell(pos[u])]
               /\ pc'[u] = "publish" => accesses[Cell(pos[u])] = acquired[u] + 1
    <3>1. CASE u = c BY <1>0, <1>1, <1>3, <2>2, <3>1
    <3>2. CASE u # c BY <1>3, <3>2 DEF IInv, OrderInv
    <3>3. QED BY <3>1, <3>2
  <2>4. ASSUME NEW j \in Cells, accesses[j] # released[j]
        PROVE  \E u \in Threads : pc'[u] = "publish" /\ Cell(pos[u]) = j
    <3>1. PICK u \in Threads : pc[u] = "publish" /\ Cell(pos[u]) = j
      BY <2>4 DEF IInv, OrderInv
    <3>2. pc'[u] = "publish" BY <1>0, <1>3, <3>1
    <3>3. QED BY <3>1, <3>2
  <2>5. QED BY <2>3, <2>4 DEF OrderInv
<1>10. QED BY <1>4, <1>5, <1>6, <1>7, <1>8, <1>9 DEF IInv
\* What an access to the data of t's cell leaves alone: the order of accesses
\* to every cell stays recorded.
LEMMA AccessOrder ==
  ASSUME IInv, NEW t \in Threads, Goto(t, "access", "publish"),
         accesses' = [accesses EXCEPT ![Cell(pos[t])] = @ + 1],
         UNCHANGED <<pos, released, acquired>>
  PROVE  OrderInv'
<1> DEFINE i == Cell(pos[t])
<1> USE DEF Busy
<1>1. i \in Cells /\ accesses[i] \in Nat BY CellType DEF IInv, TypeOK
<1>2. \A u \in Threads : pc'[u] = IF u = t THEN "publish" ELSE pc[u]
  BY DEF Goto, IInv, TypeOK
<1>3. pc[t] = "access" /\ acquired[t] = accesses[i]
  BY DEF Goto, IInv, OrderInv
<1>4. \A u \in Threads \ {t} : pc[u] \in Busy => Cell(pos[u]) # i
  BY <1>3, BusyApart
<1>5. \A j \in Cells : accesses'[j] = IF j = i THEN accesses[i] + 1 ELSE accesses[j]
  BY <1>1 DEF IInv, TypeOK
<1>6. \A u \in Threads : Cell(pos[u]) \in Cells BY CellType DEF IInv, TypeOK
<1> HIDE DEF i
<1>7. ASSUME NEW u \in Threads
      PROVE  /\ pc'[u] = "access" => /\ acquired[u] = accesses'[Cell(pos[u])]
                                     /\ released[Cell(pos[u])] = accesses'[Cell(pos[u])]
             /\ pc'[u] = "publish" => accesses'[Cell(pos[u])] = acquired[u] + 1
  <2>1. CASE u = t BY <1>1, <1>2, <1>3, <1>5, <2>1 DEF i
  <2>2. CASE u # t
    <3>1. pc[u] \in Busy => accesses'[Cell(pos[u])] = accesses[Cell(pos[u])]
      BY <1>4, <1>5, <1>6, <2>2
    <3>2. QED BY <1>2, <2>2, <3>1 DEF IInv, OrderInv
  <2>3. QED BY <2>1, <2>2
<1>8. ASSUME NEW j \in Cells, accesses'[j] # released[j]
      PROVE  \E u \in Threads : pc'[u] = "publish" /\ Cell(pos[u]) = j
  <2>1. CASE j = i BY <1>2, <2>1 DEF i
  <2>2. CASE j # i
    <3>1. PICK u \in Threads : pc[u] = "publish" /\ Cell(pos[u]) = j
      BY <1>5, <1>8, <2>2 DEF IInv, OrderInv
    <3>2. pc'[u] = "publish" BY <1>2, <3>1
    <3>3. QED BY <3>1, <3>2
  <2>3. QED BY <2>1, <2>2
<1>9. QED BY <1>7, <1>8 DEF OrderInv

LEMMA WriteDataInv ==
  ASSUME IInv, NEW p \in Producers, WriteData(p) PROVE IInv'
<1> DEFINE i == Cell(pos[p])
<1> USE DEF WriteData, Busy
<1>0. p \in Threads BY DEF Threads
<1>1. /\ i \in Cells /\ pc[p] = "access"
      /\ \A u \in Threads : pc'[u] = IF u = p THEN "publish" ELSE pc[u]
      /\ \A u \in Threads : Cell(pos[u]) \in Cells
  BY <1>0, CellType DEF Goto, IInv, TypeOK
<1>2. Carried(p) \in Message
  BY <1>1, ThreadAssumption, SMT DEF Carried, Message, IInv, TypeOK, ProducerInv
<1>3. \A j \in Cells : data'[j] = IF j = i THEN Carried(p) ELSE data[j]
  BY DEF IInv, TypeOK
<1>4. \A u \in Threads \ {p} : pc[u] \in Busy => Cell(pos[u]) # i
  BY <1>0, <1>1, BusyApart
<1>5. TypeOK' BY <1>0, <1>1, <1>2 DEF Goto, IInv, TypeOK
<1>6. CellInv'
  BY <1>2, <1>3 DEF IInv, CellInv, Free, Written
<1>7. PosInv' BY DEF IInv, PosInv
<1>8. ProducerInv'
  <2> SUFFICES ASSUME NEW u \in Producers PROVE ProducerInv!(u)'
    BY DEF ProducerInv
  <2>0. u \in Threads BY DEF Threads
  <2>1. pc'[u] = "publish" => data'[Cell(pos[u])] \in Message
    BY <1>1, <1>2, <1>3, <2>0 DEF IInv, ProducerInv
  <2>2. \A x \in Producers : pc'[x] \in Busy <=> pc[x] \in Busy
    BY <1>1 DEF Threads
  <2>3. pc'[u] = "cas" => pc[u] = "cas" BY <1>1, <2>0
  <2>4. pc'[u] # "idle" => pc[u] # "idle" BY <1>1, <2>0
  <2>5. QED BY <2>1, <2>2, <2>3, <2>4 DEF IInv, ProducerInv
<1>9. ConsumerInv'
  <2>1. \A c \in Consumers : pc'[c] = pc[c]
    BY <1>1, ThreadAssumption DEF Threads
  <2>2. \A c \in Consumers : pc[c] = "access" => data'[Cell(pos[c])] \in Message
    BY <1>1, <1>2, <1>3 DEF Threads, IInv, ConsumerInv
  <2>3. QED BY <2>1, <2>2 DEF IInv, ConsumerInv
<1>10. OrderInv' BY <1>0, AccessOrder
<1>11. QED BY <1>5, <1>6, <1>7, <1>8, <1>9, <1>10 DEF IInv

LEMMA MoveDataInv ==
  ASSUME IInv, NEW c \in Consumers, MoveData(c) PROVE IInv'
<1> DEFINE i == Cell(pos[c])
<1> USE DEF MoveData, Busy
<1>0. c \in Threads BY DEF Threads
<1>1. /\ i \in Cells /\ pc[c] = "access"
      /\ \A u \in Threads : pc'[u] = IF u = c THEN "publish" ELSE pc[u]
      /\ \A u \in Threads : Cell(pos[u]) \in Cells
  BY <1>0, CellType DEF Goto, IInv, TypeOK
<1>2. data[i] \in Message BY <1>1 DEF IInv, ConsumerInv
<1>3. \A j \in Cells : data'[j] = IF j = i THEN None ELSE data[j]
  BY DEF IInv, TypeOK
<1>4. \A u \in Threads \ {c} : pc[u] \in Busy => Cell(pos[u]) # i
  BY <1>0, <1>1, BusyApart
<1>5. sequence[i] = pos[c] + 1 /\ pos[c] < read_pos /\ pos[c] \in Nat
  BY <1>0, <1>1 DEF IInv, ConsumerInv, TypeOK
<1>6. TypeOK' BY <1>0, <1>1, <1>2 DEF Goto, IInv, TypeOK
<1>7. CellInv'
  <2> SUFFICES ASSUME NEW j \in Cells PROVE (Free(j) \/ Written(j))'
    BY DEF CellInv
  <2>1. CASE Free(j) BY <2>1 DEF Free
  <2>2. CASE Written(j)
    <3>1. CASE j = i
      <4>1. ~(sequence[i] - 1 >= read_pos) BY <1>5, SMT DEF IInv, TypeOK
      <4>2. QED BY <2>2, <3>1, <4>1 DEF Written
    <3>2. CASE j # i BY <1>3, <2>2, <3>2 DEF Written
    <3>3. QED BY <3>1, <3>2
  <2>3. QED BY <2>1, <2>2 DEF IInv, CellInv
<1>8. PosInv' BY DEF IInv, PosInv
<1>9. ProducerInv'
  <2>1. \A p \in Producers : pc'[p] = pc[p]
    BY <1>1, ThreadAssumption DEF Threads
  <2>2. \A p \in Producers : pc[p] = "publish" => data'[Cell(pos[p])] \in Message
    BY <1>1, <1>3, <1>4, ThreadAssumption DEF Threads, IInv, ProducerInv
  <2>3. QED BY <2>1, <2>2 DEF IInv, ProducerInv
<1>10. ConsumerInv'
  <2> SUFFICES ASSUME NEW u \in Consumers PROVE ConsumerInv!(u)'
    BY DEF ConsumerInv
  <2>0. u \in Threads BY DEF Threads
  <2>1. pc'[u] = "access" => data'[Cell(pos[u])] \in Message
    BY <1>1, <1>3, <1>4, <2>0 DEF IInv, ConsumerInv
  <2>2. \A x \in Consumers : pc'[x] \in Busy <=> pc[x] \in Busy
    BY <1>1 DEF Threads
  <2>3. pc'[u] = "cas" => pc[u] = "cas" BY <1>1, <2>0
  <2>4. QED BY <2>1, <2>2, <2>3 DEF IInv, ConsumerInv
<1>11. OrderInv' BY <1>0, AccessOrder
<1>12. QED BY <1>6, <1>7, <1>8, <1>9, <1>10, <1>11 DEF IInv
\* Raising the sequence number of a busy thread's cell keeps everything but
\* what is said of that cell itself, which depends on the new number.
LEMMA StoreInv ==
  ASSUME IInv, NEW t \in Threads, NEW s \in Nat, StoreSequence(t, s),
         s > sequence[Cell(pos[t])],
         (Free(Cell(pos[t])) \/ Written(Cell(pos[t])))'
  PROVE  IInv'
<1> DEFINE i == Cell(pos[t])
<1> USE DEF StoreSequence, Busy
<1>1. /\ i \in Cells /\ pc[t] = "publish"
      /\ \A u \in Threads : pc'[u] = IF u = t THEN "idle" ELSE pc[u]
      /\ \A u \in Threads : Cell(pos[u]) \in Cells
      /\ \A u \in Threads : acquired'[u] = IF u = t THEN 0 ELSE acquired[u]
      /\ \A u \in Threads : pos[u] \in Nat
      /\ \A j \in Cells : sequence'[j] = IF j = i THEN s ELSE sequence[j]
      /\ \A j \in Cells : released'[j] = IF j = i THEN acquired[t] + 1 ELSE released[j]
      /\ acquired[t] \in Nat /\ sequence[i] \in Nat
  BY CellType DEF Goto, IInv, TypeOK
<1>2. \A u \in Threads \ {t} : pc[u] \in Busy => Cell(pos[u]) # i
  BY <1>1, BusyApart
<1>3. TypeOK' BY <1>1 DEF Goto, IInv, TypeOK
<1>4. CellInv'
  <2> SUFFICES ASSUME NEW j \in Cells, j # i PROVE (Free(j) \/ Written(j))'
    BY DEF CellInv
  <2>1. sequence'[j] = sequence[j] BY <1>1
  <2>2. QED BY <2>1 DEF IInv, CellInv, Free, Written
<1>5. PosInv' BY DEF IInv, PosInv
<1> HIDE DEF i
<1>6. ProducerInv'
  <2> SUFFICES ASSUME NEW u \in Producers PROVE ProducerInv!(u)'
    BY DEF ProducerInv
  <2>0. u \in Threads BY DEF Threads
  <2>1. CASE u = t BY <1>1, <2>1
  <2>2. CASE u # t
    <3>1. pc'[u] = pc[u] /\ pos'[u] = pos[u] /\ acquired'[u] = acquired[u]
      BY <1>1, <2>0, <2>2
    <3>2. pc[u] \in Busy => sequence'[Cell(pos[u])] = sequence[Cell(pos[u])]
      BY <1>1, <1>2, <2>0, <2>2
    <3>3. CASE Cell(pos[u]) = i
      <4>1. pc[u] = "cas" => s > pos[u] BY <1>1, <2>0, <3>3, SMT DEF IInv, ProducerInv, i
      <4>2. QED BY <1>1, <1>2, <2>0, <2>2, <3>1, <3>3, <4>1, SMT DEF IInv, ProducerInv
    <3>4. CASE Cell(pos[u]) # i
      <4>1. /\ sequence'[Cell(pos[u])] = sequence[Cell(pos[u])]
            /\ released'[Cell(pos[u])] = released[Cell(pos[u])]
        BY <1>1, <2>0, <3>4
      <4>2. \A x \in Producers : pc'[x] \in Busy => pc[x] \in Busy
        BY <1>1 DEF Threads
      <4>3. QED BY <3>1, <4>1, <4>2 DEF IInv, ProducerInv
    <3>5. QED BY <3>3, <3>4
  <2>3. QED BY <2>1, <2>2
<1>7. ConsumerInv'
  <2> SUFFICES ASSUME NEW u \in Consumers PROVE ConsumerInv!(u)'
    BY DEF ConsumerInv
  <2>0. u \in Threads BY DEF Threads
  <2>1. CASE u = t BY <1>1, <2>1
  <2>2. CASE u # t
    <3>1. pc'[u] = pc[u] /\ pos'[u] = pos[u] /\ acquired'[u] = acquired[u]
      BY <1>1, <2>0, <2>2
    <3>3. CASE Cell(pos[u]) = i
      <4>1. pc[u] = "cas" => s > pos[u] + 1 BY <1>1, <2>0, <3>3, SMT DEF IInv, ConsumerInv, i
      <4>2. QED BY <1>1, <1>2, <2>0, <2>2, <3>1, <3>3, <4>1, SMT DEF IInv, ConsumerInv
    <3>4. CASE Cell(pos[u]) # i
      <4>1. /\ sequence'[Cell(pos[u])] = sequence[Cell(pos[u])]
            /\ released'[Cell(pos[u])] = released[Cell(pos[u])]
        BY <1>1, <2>0, <3>4
      <4>2. \A x \in Consumers : pc'[x] \in Busy => pc[x] \in Busy
        BY <1>1 DEF Threads
      <4>3. QED BY <3>1, <4>1, <4>2 DEF IInv, ConsumerInv
    <3>5. QED BY <3>3, <3>4
  <2>3. QED BY <2>1, <2>2
<1>8. OrderInv'
  <2>1. accesses[i] = acquired[t] + 1 BY <1>1 DEF IInv, OrderInv, i
  <2>2. ASSUME NEW u \in Threads
        PROVE  /\ pc'[u] = "access" => /\ acquired'[u] = accesses[Cell(pos[u])]
                                       /\ released'[Cell(pos[u])] = accesses[Cell(pos[u])]
               /\ pc'[u] = "publish" => accesses[Cell(pos[u])] = acquired'[u] + 1
    <3>1. CASE u = t BY <1>1, <3>1
    <3>2. CASE u # t
      <4>1. pc[u] \in Busy => released'[Cell(pos[u])] = released[Cell(pos[u])]
        BY <1>1, <1>2, <3>2
      <4>2. QED BY <1>1, <3>2, <4>1 DEF IInv, OrderInv
    <3>3. QED BY <3>1, <3>2
  <2>3. ASSUME NEW j \in Cells, accesses[j] # released'[j]
        PROVE  \E u \in Threads : pc'[u] = "publish" /\ Cell(pos[u]) = j
    <3>1. j # i BY <1>1, <2>1, <2>3
    <3>2. PICK u \in Threads : pc[u] = "publish" /\ Cell(pos[u]) = j
      BY <1>1, <2>3, <3>1 DEF IInv, OrderInv
    <3>3. pc'[u] = "publish" BY <1>1, <3>1, <3>2 DEF i
    <3>4. QED BY <3>2, <3>3
  <2>4. QED BY <2>2, <2>3 DEF OrderInv
<1>9. QED BY <1>3, <1>4, <1>5, <1>6, <1>7, <1>8 DEF IInv

LEMMA PublishInv ==
  ASSUME IInv, NEW p \in Producers, StoreSequence(p, pos[p] + 1) PROVE IInv'
<1> DEFINE i == Cell(pos[p])
<1>0. p \in Threads /\ pc[p] = "publish" BY DEF Threads, StoreSequence, Goto
<1>1. /\ pos[p] \in Nat /\ i \in Cells /\ sequence[i] = pos[p] /\ pos[p] < write_pos
      /\ data[i] \in Message /\ write_pos \in Nat /\ read_pos \in Nat
  BY <1>0, CellType DEF IInv, TypeOK, ProducerInv, Busy
<1>2. ~Written(i)
  <2> SUFFICES ASSUME Written(i) PROVE FALSE
    OBVIOUS
  <2>1. pos[p] - 1 \in Nat /\ Cell(pos[p] - 1) = i BY <1>1 DEF Written
  <2>2. pos[p] = (pos[p] - 1) + 1 BY <1>1, SMT
  <2>3. QED BY <2>1, <2>2, Adjacent
<1>3. read_pos <= pos[p] BY <1>1, <1>2 DEF IInv, CellInv, Free
<1>4. write_pos <= pos[p] + N BY <1>1, <1>3, NAssumption, SMT DEF IInv, PosInv
<1>5. sequence'[i] = pos[p] + 1 BY <1>1 DEF StoreSequence, IInv, TypeOK
<1>6. Written(i)'
  <2>1. sequence'[i] - 1 = pos[p] BY <1>1, <1>5, SMT
  <2>2. QED BY <1>1, <1>4, <2>1 DEF Written, StoreSequence
<1>7. pos[p] + 1 \in Nat /\ pos[p] + 1 > sequence[i] BY <1>1, SMT
<1>8. Written(Cell(pos[p]))' BY <1>6 DEF StoreSequence
<1>9. QED BY <1>0, <1>7, <1>8, StoreInv

LEMMA ReleaseInv ==
  ASSUME IInv, NEW c \in Consumers, StoreSequence(c, NextLap(pos[c])) PROVE IInv'
<1> DEFINE i == Cell(pos[c])
<1>0. c \in Threads /\ pc[c] = "publish" BY DEF Threads, StoreSequence, Goto
<1>1. /\ pos[c] \in Nat /\ i \in Cells /\ sequence[i] = pos[c] + 1
      /\ pos[c] < read_pos /\ write_pos \in Nat /\ read_pos \in Nat
  BY <1>0, CellType DEF IInv, TypeOK, ConsumerInv, Busy
<1>2. ~Free(i)
  <2> SUFFICES ASSUME Free(i) PROVE FALSE
    OBVIOUS
  <2>1. Cell(pos[c] + 1) = i BY <1>1 DEF Free
  <2>2. QED BY <1>1, <2>1, Adjacent
<1>3. write_pos <= (sequence[i] - 1) + N BY <1>1, <1>2 DEF IInv, CellInv, Written
<1>4. read_pos <= pos[c] + N BY <1>1, <1>3, NAssumption, SMT DEF IInv, PosInv
<1>5. sequence'[i] = pos[c] + N BY <1>1 DEF StoreSequence, NextLap, IInv, TypeOK
<1>6. pos[c] + N < read_pos + N BY <1>1, NAssumption, SMT
<1>7. Free(i)'
  <2>1. Cell(pos[c] + N) = i BY <1>1, CellWrap
  <2>2. QED BY <1>4, <1>5, <1>6, <2>1 DEF Free, StoreSequence
<1>8. NextLap(pos[c]) \in Nat /\ NextLap(pos[c]) > sequence[i]
  BY <1>1, NAssumption, SMT DEF NextLap
<1>9. Free(Cell(pos[c]))' BY <1>7 DEF StoreSequence
<1>10. QED BY <1>0, <1>8, <1>9, StoreInv

-----------------------------------------------------------------------------
LEMMA NextInv == IInv /\ [Next]_vars => IInv'
<1> SUFFICES ASSUME IInv, [Next]_vars PROVE IInv'
  OBVIOUS
<1>0. write_pos \in Nat /\ read_pos \in Nat BY DEF IInv, TypeOK
<1>1. ASSUME NEW p \in Producers, Push(p) PROVE IInv'
  <2>0. p \in Threads BY DEF Threads
  <2>1. CASE BeginPush(p) BY <2>1, BeginPushInv
  <2>2. ASSUME NEW v \in 0..write_pos, LoadPos(p, write_pos, v) PROVE IInv'
    BY <1>0, <2>0, <2>2, LoadPosInv
  <2>3. ASSUME NEW s \in Loadable(Cell(pos[p])), LoadSequence(p, pos[p], s) PROVE IInv'
    BY <2>0, <2>3, LoadSequenceInv
  <2>4. ASSUME NEW v \in 0..write_pos, CasFails(p, write_pos, v) PROVE IInv'
    BY <1>0, <2>0, <2>4, CasFailsInv
  <2>5. CASE Retry(p) BY <2>0, <2>5, RestInv
  <2>6. CASE ClaimWrite(p) BY <2>6, ClaimWriteInv
  <2>7. CASE WriteData(p) BY <2>7, WriteDataInv
  <2>8. CASE StoreSequence(p, pos[p] + 1) BY <2>8, PublishInv
  <2>9. QED BY <1>1, <2>1, <2>2, <2>3, <2>4, <2>5, <2>6, <2>7, <2>8 DEF Push
<1>2. ASSUME NEW c \in Consumers, Pop(c) PROVE IInv'
  <2>0. c \in Threads /\ c \notin Producers BY ThreadAssumption DEF Threads
  <2>1. CASE BeginPop(c) BY <2>0, <2>1, RestInv
  <2>2. ASSUME NEW v \in 0..read_pos, LoadPos(c, read_pos, v) PROVE IInv'
    BY <1>0, <2>0, <2>2, LoadPosInv
  <2>3. ASSUME NEW s \in Loadable(Cell(pos[c])), LoadSequence(c, pos[c] + 1, s) PROVE IInv'
    BY <2>0, <2>3, LoadSequenceInv
  <2>4. ASSUME NEW v \in 0..read_pos, CasFails(c, read_pos, v) PROVE IInv'
    BY <1>0, <2>0, <2>4, CasFailsInv
  <2>5. CASE Retry(c) BY <2>0, <2>5, RestInv
  <2>6. CASE ClaimRead(c) BY <2>6, ClaimReadInv
  <2>7. CASE MoveData(c) BY <2>7, MoveDataInv
  <2>8. CASE StoreSequence(c, NextLap(pos[c])) BY <2>8, ReleaseInv
  <2>9. CASE GiveUp(c) BY <2>0, <2>9, RestInv
  <2>10. QED
    BY <1>2, <2>1, <2>2, <2>3, <2>4, <2>5, <2>6, <2>7, <2>8, <2>9 DEF Pop
<1>3. CASE RequestStop BY <1>3, RequestStopInv
<1>4. CASE UNCHANGED vars
  <2> USE <1>4 DEF vars, ring, order
  <2>1. TypeOK' BY DEF IInv, TypeOK
  <2>2. CellInv' /\ PosInv' BY DEF IInv, CellInv, Free, Written, PosInv
  <2>3. ProducerInv' /\ ConsumerInv' BY DEF IInv, ProducerInv, ConsumerInv
  <2>4. OrderInv' BY DEF IInv, OrderInv
  <2>5. QED BY <2>1, <2>2, <2>3, <2>4 DEF IInv
<1>5. QED BY <1>1, <1>2, <1>3, <1>4 DEF Next

LEMMA Invariance == Spec => []IInv
BY InitInv, NextInv, PTL DEF Spec

\* Every state is well typed for any number of cells and threads; in
\* particular a pop only ever returns objects that some push wrote.
THEOREM TypeCorrect == Spec => []TypeOK
<1>1. IInv => TypeOK BY DEF IInv
<1>2. QED BY <1>1, Invariance, PTL

\* The plain accesses of try_push (line 49) and try_pop (line 74) to one cell
\* never overlap and are ordered by the release stores and acquire loads of
\* its sequence number, for any number of cells and threads.
THEOREM NoDataRace == Spec => []DataRaceFree
<1>1. ASSUME IInv PROVE DataRaceFree
  <2>1. ASSUME NEW t \in Threads, pc[t] = "access"
        PROVE  acquired[t] = accesses[Cell(pos[t])]
    BY <1>1, <2>1 DEF IInv, OrderInv
  <2>2. ASSUME NEW t \in Threads, NEW u \in Threads \ {t}, pc[t] = "access", pc[u] = "access"
        PROVE  Cell(pos[u]) # Cell(pos[t])
    BY <1>1, <2>2, BusyApart DEF Busy
  <2>3. QED BY <2>1, <2>2 DEF DataRaceFree
<1>2. QED BY <1>1, Invariance, PTL
-----------------------------------------------------------------------------
(* The refinement.                                                         *)

\* The message at the position a producer is writing is the one it carries, for
\* no other producer is at that position.
LEMMA AtProducer ==
  IInv => \A p \in Producers : pc[p] = "access" => MessageAt(pos[p]) = Carried(p)
<1> SUFFICES ASSUME IInv, NEW p \in Producers, pc[p] = "access"
             PROVE  MessageAt(pos[p]) = Carried(p)
  OBVIOUS
<1> DEFINE At(u) == pc[u] = "access" /\ pos[u] = pos[p]
<1>1. \A u \in Producers : At(u) => u = p BY DEF IInv, ProducerInv, Busy
<1>2. (CHOOSE u \in Producers : At(u)) = p BY <1>1
<1>3. QED BY <1>2 DEF MessageAt

LEMMA AtProducerAfter ==
  IInv' => \A p \in Producers :
             pc'[p] = "access" => MessageAt(pos[p])' = <<p, sent'[p]>>
<1>1. IInv' => (\A p \in Producers : pc[p] = "access" => MessageAt(pos[p]) = Carried(p))'
  BY AtProducer, PTL
<1>2. QED BY <1>1 DEF Carried

Writer(p, q) == pc[p] = "access" /\ pos[p] = q

\* The message at a position is the same if the same producer is writing it, or
\* nobody and its cell has not changed.
LEMMA SameMessage ==
  ASSUME IInv, IInv', NEW q,
         \A p \in Producers : Writer(p, q)' <=> Writer(p, q),
         \A p \in Producers : Writer(p, q) => sent'[p] = sent[p],
         (\A p \in Producers : ~Writer(p, q)) => data'[Cell(q)] = data[Cell(q)]
  PROVE  MessageAt(q)' = MessageAt(q)
<1>1. CASE \E p \in Producers : Writer(p, q)
  <2>1. PICK p \in Producers : Writer(p, q) BY <1>1
  <2>2. pc[p] = "access" /\ pos[p] = q /\ pc'[p] = "access" /\ pos'[p] = q
        /\ sent'[p] = sent[p]
    BY <2>1 DEF Writer
  <2>3. MessageAt(q) = <<p, sent[p]>> BY <2>2, AtProducer DEF Carried
  <2>4. MessageAt(pos[p])' = <<p, sent'[p]>> BY <2>2, AtProducerAfter
  <2>5. MessageAt(pos[p])' = MessageAt(q)' BY <2>2 DEF MessageAt, Carried
  <2>6. QED BY <2>2, <2>3, <2>4, <2>5
<1>2. CASE \A p \in Producers : ~Writer(p, q)
  <2>1. MessageAt(q) = data[Cell(q)] BY <1>2 DEF MessageAt, Writer
  <2>2. MessageAt(q)' = data'[Cell(q)] BY <1>2 DEF MessageAt, Writer
  <2>3. QED BY <1>2, <2>1, <2>2
<1>3. QED BY <1>1, <1>2

Window == {q \in Nat : read_pos <= q /\ q < write_pos}

\* The positions claimed by pushes and not by pops hold the abstract queue.
LEMMA ItemsSeq ==
  ASSUME IInv
  PROVE  /\ Items \in Seq({MessageAt(q) : q \in Nat})
         /\ Len(Items) = write_pos - read_pos
         /\ \A k \in 1..(write_pos - read_pos) :
              read_pos + k - 1 \in Window /\ Items[k] = MessageAt(read_pos + k - 1)
<1> DEFINE n == write_pos - read_pos
           S == {MessageAt(q) : q \in Nat}
<1>1. write_pos \in Nat /\ read_pos \in Nat /\ n \in Nat
  BY SMT DEF IInv, TypeOK, PosInv
<1>2. \A k \in 1..n : read_pos + k - 1 \in Window BY <1>1, SMT DEF Window
<1>3. Items = [k \in 1..n |-> MessageAt(read_pos + k - 1)] BY DEF Items
<1>4. \A k \in 1..n : MessageAt(read_pos + k - 1) \in S BY <1>2 DEF Window
<1> HIDE DEF n, S
<1>5. Items \in [1..n -> S] BY <1>3, <1>4
<1>6. Items \in Seq(S) /\ Len(Items) = n BY <1>1, <1>5
<1>7. QED BY <1>2, <1>3, <1>6 DEF n, S

\* What a step that claims no position must leave alone.
LEMMA SameItems ==
  ASSUME IInv, UNCHANGED <<write_pos, read_pos>>,
         \A q \in Window : MessageAt(q)' = MessageAt(q)
  PROVE  Items' = Items
<1>1. \A k \in 1..(write_pos - read_pos) : read_pos + k - 1 \in Window BY ItemsSeq
<1>2. Items' = [k \in 1..(write_pos - read_pos) |-> MessageAt(read_pos + k - 1)']
  BY DEF Items
<1>3. QED BY <1>1, <1>2 DEF Items

\* A step that neither claims nor accesses a position changes nothing.
LEMMA Stutters ==
  ASSUME IInv, IInv', UNCHANGED <<data, write_pos, read_pos, received>>,
         \A p \in Producers : Enqueued'[p] = Enqueued[p],
         \A t \in Threads : (pc[t] = "access" \/ pc'[t] = "access") =>
           pc'[t] = pc[t] /\ pos'[t] = pos[t],
         \A p \in Producers : pc[p] = "access" => sent'[p] = sent[p]
  PROVE  UNCHANGED <<Items, Enqueued, Delivered>>
<1>1. \A q \in Window : MessageAt(q)' = MessageAt(q)
  BY SameMessage DEF Writer, Threads
<1>2. Items' = Items BY <1>1, SameItems
<1>3. Enqueued' = Enqueued BY DEF Enqueued
<1>4. Delivered' = Delivered BY DEF Delivered, Threads
<1>5. QED BY <1>2, <1>3, <1>4

\* Beginning, loading, comparing, retrying and giving up are not seen.
LEMMA SearchStutters ==
  ASSUME IInv, IInv', NEW t \in Threads, UNCHANGED <<ring, received>>,
         NEW from, NEW to, Goto(t, from, to),
         \/ /\ from \in {"load_pos", "load_seq", "cas", "retry"}
            /\ to \in {"load_pos", "load_seq", "cas", "retry", "done"}
            /\ to = "done" => t \in Consumers
            /\ UNCHANGED sent
         \/ from = "idle" /\ to = "load_pos"
            /\ sent' = [u \in Producers |-> IF u = t THEN sent[u] + 1 ELSE sent[u]],
         \A u \in Threads \ {t} : pos'[u] = pos[u]
  PROVE  UNCHANGED <<Items, Enqueued, Delivered>>
<1>1. /\ pc[t] = from /\ pc'[t] = to /\ \A u \in Threads \ {t} : pc'[u] = pc[u]
      /\ \A p \in Producers : p \in Threads /\ sent[p] \in Int
  BY ThreadAssumption DEF Goto, IInv, TypeOK, Threads
<1>2. t \in Producers => t \notin Consumers BY ThreadAssumption
<1>3. \A p \in Producers : Enqueued'[p] = Enqueued[p]
  <2>1. TAKE p \in Producers
  <2>2. CASE p = t
    <3>1. CASE from = "idle"
      <4>1. sent'[p] - 1 = sent[p] /\ pc'[p] = "load_pos" /\ pc[p] = "idle"
        BY <1>1, <2>2, <3>1
      <4>2. QED BY <4>1 DEF Enqueued
    <3>2. CASE from # "idle" BY <1>1, <1>2, <2>2, <3>2 DEF Enqueued
    <3>3. QED BY <3>1, <3>2
  <2>3. CASE p # t BY <1>1, <2>3 DEF Enqueued
  <2>4. QED BY <2>2, <2>3
<1>4. QED BY <1>1, <1>3, Stutters DEF ring

\* The window is no longer than the ring, so that a position of it is told by
\* its cell.
LEMMA WindowCells ==
  ASSUME IInv, NEW q \in Window, NEW r \in Window, Cell(q) = Cell(r)
  PROVE  q = r
<1>1. /\ q \in Nat /\ r \in Nat /\ read_pos \in Nat /\ write_pos \in Nat
      /\ read_pos <= q /\ q < read_pos + N /\ read_pos <= r /\ r < read_pos + N
  BY NAssumption, SMT DEF IInv, PosInv, TypeOK, Window
<1>2. ~(q < r) BY <1>1, CellFar, NAssumption, SMT
<1>3. ~(r < q) BY <1>1, CellFar, NAssumption, SMT
<1>4. QED BY <1>1, <1>2, <1>3, SMT

\* The producer that writes its message puts it where the queue has it.
LEMMA WriteStutters ==
  ASSUME IInv, IInv', NEW p \in Producers, WriteData(p)
  PROVE  UNCHANGED <<Items, Enqueued, Delivered>>
<1> DEFINE i == Cell(pos[p])
<1>1. /\ p \in Threads /\ pc[p] = "access" /\ pc'[p] = "publish" /\ i \in Cells
      /\ \A u \in Threads \ {p} : pc'[u] = pc[u]
      /\ UNCHANGED <<pos, sent, received, read_pos, write_pos>>
      /\ data' = [data EXCEPT ![i] = Carried(p)] /\ data \in [Cells -> Message \cup {None}]
      /\ pos \in [Threads -> Nat]
  BY CellType DEF WriteData, Goto, IInv, TypeOK, Threads
<1>2. pos[p] \in Window
  <2>1. sequence[i] = pos[p] /\ pos[p] < write_pos /\ pos[p] \in Nat
    BY <1>1 DEF IInv, ProducerInv, Busy
  <2>2. ~Written(i)
    <3> SUFFICES ASSUME Written(i) PROVE FALSE
      OBVIOUS
    <3>1. pos[p] - 1 \in Nat /\ Cell(pos[p] - 1) = i BY <2>1 DEF Written
    <3>2. pos[p] = (pos[p] - 1) + 1 BY <2>1, SMT
    <3>3. QED BY <3>1, <3>2, Adjacent
  <2>3. QED BY <1>1, <2>1, <2>2 DEF IInv, CellInv, Free, Window
<1>3. \A u \in Producers : pc[u] = "access" /\ pos[u] = pos[p] => u = p
  BY <1>1 DEF IInv, ProducerInv, Busy
<1>4. MessageAt(pos[p]) = Carried(p) BY <1>1, AtProducer
<1>5. MessageAt(pos[p])' = Carried(p)
  <2>1. \A u \in Producers : ~(pc'[u] = "access" /\ pos'[u] = pos'[p])
    BY <1>1, <1>3 DEF Threads
  <2>2. MessageAt(pos[p])' = data'[Cell(pos'[p])] BY <2>1 DEF MessageAt
  <2>3. QED BY <1>1, <2>2
<1>6. ASSUME NEW q \in Window PROVE MessageAt(q)' = MessageAt(q)
  <2>1. CASE q = pos[p]
    <3>1. MessageAt(pos[p])' = MessageAt(q)' BY <1>1, <2>1 DEF MessageAt, Carried
    <3>2. QED BY <1>4, <1>5, <2>1, <3>1
  <2>2. CASE q # pos[p]
    <3>1. Cell(q) # i BY <1>2, <2>2, WindowCells
    <3>2. q \in Nat /\ Cell(q) \in Cells BY CellType DEF Window
    <3>3. data'[Cell(q)] = data[Cell(q)] BY <1>1, <3>1, <3>2
    <3>4. \A u \in Producers : Writer(u, q)' <=> Writer(u, q)
      BY <1>1, <2>2 DEF Writer, Threads
    <3>5. QED BY <1>1, <3>3, <3>4, SameMessage
  <2>3. QED BY <2>1, <2>2
<1>7. Items' = Items BY <1>1, <1>6, SameItems
<1>8. Enqueued' = Enqueued BY <1>1 DEF Enqueued, Threads
<1>9. ASSUME NEW c \in Consumers PROVE Delivered'[c] = Delivered[c]
  <2>1. c \in Threads \ {p} BY ThreadAssumption DEF Threads
  <2>2. pc[c] = "access" => data'[Cell(pos[c])] = data[Cell(pos[c])]
    <3> SUFFICES ASSUME pc[c] = "access" PROVE data'[Cell(pos[c])] = data[Cell(pos[c])]
      OBVIOUS
    <3>1. Cell(pos[c]) # i BY <1>1, <2>1, BusyApart DEF Busy
    <3>2. Cell(pos[c]) \in Cells BY <1>1, <2>1, CellType
    <3>3. QED BY <1>1, <3>1, <3>2
  <2>3. QED BY <1>1, <2>1, <2>2 DEF Delivered
<1>10. Delivered' = Delivered BY <1>9 DEF Delivered
<1>11. QED BY <1>7, <1>8, <1>10

\* The consumer that moves its message out holds it already in the queue.
LEMMA MoveStutters ==
  ASSUME IInv, IInv', NEW c \in Consumers, MoveData(c)
  PROVE  UNCHANGED <<Items, Enqueued, Delivered>>
<1> DEFINE i == Cell(pos[c])
<1>1. /\ c \in Threads /\ c \notin Producers /\ i \in Cells
      /\ pc[c] = "access" /\ pc'[c] = "publish" /\ \A u \in Threads \ {c} : pc'[u] = pc[u]
      /\ UNCHANGED <<pos, sent, read_pos, write_pos>>
      /\ received' = [received EXCEPT ![c] = Append(@, data[i])]
      /\ received \in [Consumers -> Seq(Message)]
      /\ data' = [data EXCEPT ![i] = None] /\ data \in [Cells -> Message \cup {None}]
      /\ pos \in [Threads -> Nat]
  BY CellType, ThreadAssumption DEF MoveData, Goto, IInv, TypeOK, Threads
<1>2. /\ pos[c] \in Nat /\ pos[c] < read_pos /\ write_pos <= pos[c] + N
      /\ read_pos \in Nat /\ write_pos \in Nat
  <2>1. sequence[i] = pos[c] + 1 /\ pos[c] < read_pos /\ pos[c] \in Nat
    BY <1>1 DEF IInv, ConsumerInv, Busy
  <2>2. ~Free(i)
    <3> SUFFICES ASSUME Free(i) PROVE FALSE
      OBVIOUS
    <3>1. Cell(pos[c] + 1) = i BY <2>1 DEF Free
    <3>2. QED BY <2>1, <3>1, Adjacent
  <2>3. sequence[i] - 1 = pos[c] BY <2>1, SMT
  <2>4. write_pos <= pos[c] + N BY <1>1, <2>2, <2>3 DEF IInv, CellInv, Written
  <2>5. QED BY <2>1, <2>4 DEF IInv, TypeOK
<1>3. ASSUME NEW q \in Window PROVE Cell(q) # i
  <2>1. q \in Nat /\ pos[c] < q /\ ~(q >= pos[c] + N)
    BY <1>2, NAssumption, SMT DEF Window
  <2>2. QED BY <1>2, <2>1, CellFar
<1>4. ASSUME NEW q \in Window PROVE MessageAt(q)' = MessageAt(q)
  <2>1. Cell(q) \in Cells BY CellType DEF Window
  <2>2. data'[Cell(q)] = data[Cell(q)] BY <1>1, <1>3, <2>1
  <2>3. \A u \in Producers : Writer(u, q)' <=> Writer(u, q)
    BY <1>1 DEF Writer, Threads
  <2>4. QED BY <1>1, <2>2, <2>3, SameMessage
<1>5. Items' = Items BY <1>1, <1>4, SameItems
<1>6. Enqueued' = Enqueued BY <1>1 DEF Enqueued, Threads
<1>7. ASSUME NEW u \in Consumers PROVE Delivered'[u] = Delivered[u]
  <2>1. CASE u = c BY <1>1, <2>1 DEF Delivered
  <2>2. CASE u # c
    <3>1. u \in Threads \ {c} BY <2>2 DEF Threads
    <3>2. pc[u] = "access" => data'[Cell(pos[u])] = data[Cell(pos[u])]
      <4> SUFFICES ASSUME pc[u] = "access" PROVE data'[Cell(pos[u])] = data[Cell(pos[u])]
        OBVIOUS
      <4>1. Cell(pos[u]) # i BY <1>1, <3>1, BusyApart DEF Busy
      <4>2. Cell(pos[u]) \in Cells BY <1>1, <3>1, CellType
      <4>3. QED BY <1>1, <4>1, <4>2
    <3>3. QED BY <1>1, <2>2, <3>1, <3>2 DEF Delivered
  <2>3. QED BY <2>1, <2>2
<1>8. Delivered' = Delivered BY <1>7 DEF Delivered
<1>9. QED BY <1>5, <1>6, <1>8

\* Storing a sequence number is not seen.
LEMMA StoreStutters ==
  ASSUME IInv, IInv', NEW t \in Threads, NEW s, StoreSequence(t, s)
  PROVE  UNCHANGED <<Items, Enqueued, Delivered>>
<1>1. /\ pc[t] = "publish" /\ pc'[t] = "idle" /\ \A u \in Threads \ {t} : pc'[u] = pc[u]
      /\ UNCHANGED <<data, write_pos, read_pos, pos, sent, received>>
  BY DEF StoreSequence, Goto, IInv, TypeOK
<1>2. \A p \in Producers : Enqueued'[p] = Enqueued[p]
  BY <1>1 DEF Enqueued, Threads
<1>3. QED BY <1>1, <1>2, Stutters

\* Claiming a position for writing puts the message into the abstract queue.
LEMMA ClaimWriteEnqueues ==
  ASSUME IInv, IInv', NEW p \in Producers, ClaimWrite(p)
  PROVE  Fifo!Enqueue(p)
<1> DEFINE n == write_pos - read_pos
           S == {MessageAt(q) : q \in Nat}
           m == Carried(p)
<1>0. PICK w \in Nat, r \in Nat : w = write_pos /\ r = read_pos BY DEF IInv, TypeOK
<1>1. /\ p \in Threads /\ pc[p] = "cas" /\ pos[p] = w /\ pc'[p] = "access"
      /\ \A u \in Threads \ {p} : pc'[u] = pc[u]
      /\ UNCHANGED <<data, read_pos, pos, sent, received>> /\ write_pos' = w + 1
      /\ sent[p] \in 0..MaxMessages
  BY <1>0 DEF ClaimWrite, Goto, IInv, TypeOK, Threads
<1>2. w < r + N BY <1>0, <1>1, WriteClaimable
<1>3. n \in Nat /\ n < N /\ n = w - r BY <1>0, <1>2, NAssumption, SMT DEF IInv, PosInv
<1>4. /\ Items \in Seq(S) /\ Len(Items) = n
      /\ \A k \in 1..n : r + k - 1 \in Window /\ Items[k] = MessageAt(r + k - 1)
  BY <1>0, ItemsSeq
<1>5. MessageAt(w)' = m
  <2>1. MessageAt(pos[p])' = <<p, sent'[p]>> BY <1>1, AtProducerAfter
  <2>2. pos'[p] = w BY <1>1
  <2>3. MessageAt(pos[p])' = MessageAt(w)' BY <2>2 DEF MessageAt, Carried
  <2>4. QED BY <1>1, <2>1, <2>3 DEF Carried
<1>6. ASSUME NEW q \in Window PROVE MessageAt(q)' = MessageAt(q)
  <2>1. q # w BY <1>0, SMT DEF Window
  <2>2. \A u \in Producers : Writer(u, q)' <=> Writer(u, q)
    BY <1>1, <2>1 DEF Writer, Threads
  <2>3. QED BY <1>1, <2>2, SameMessage
<1>7. Items' = Append(Items, m)
  <2>1. (w + 1) - r = n + 1 /\ r + (n + 1) - 1 = w BY <1>3, SMT
  <2>2. Items' = [k \in 1..n + 1 |-> MessageAt(r + k - 1)']
    BY <1>0, <1>1, <2>1 DEF Items
  <2> HIDE DEF n, S, m
  <2>3. \A k \in 1..n : MessageAt(r + k - 1)' = Items[k] BY <1>4, <1>6
  <2> DEFINE t == Append(Items, m)
  <2>4. /\ Len(t) = n + 1 /\ t[n + 1] = m /\ \A k \in 1..n : t[k] = Items[k]
        /\ t \in Seq(S \cup {m})
    <3>1. Items \in Seq(S \cup {m}) /\ m \in S \cup {m} BY <1>4
    <3>2. QED BY <1>4, <3>1, AppendProperties
  <2> HIDE DEF t
  <2>5. ASSUME NEW k \in 1..n + 1 PROVE t[k] = MessageAt(r + k - 1)'
    <3>1. CASE k = n + 1 BY <1>5, <2>1, <2>4, <3>1
    <3>2. CASE k # n + 1
      <4>1. k \in 1..n BY <1>3, <3>2, SMT
      <4>2. QED BY <2>3, <2>4, <4>1
    <3>3. QED BY <3>1, <3>2
  <2>6. t = [k \in 1..Len(t) |-> t[k]] BY <2>4
  <2>7. t = [k \in 1..n + 1 |-> MessageAt(r + k - 1)'] BY <2>4, <2>5, <2>6
  <2>8. QED BY <2>2, <2>7 DEF t
<1>8. /\ Enqueued[p] = sent[p] - 1 /\ Enqueued'[p] = sent[p]
      /\ \A u \in Producers \ {p} : Enqueued'[u] = Enqueued[u]
  BY <1>1 DEF Enqueued, Threads
<1>9. Enqueued[p] + 1 = sent[p] /\ Enqueued[p] < MaxMessages
  BY <1>1, <1>8, ThreadAssumption, SMT
<1>10. Enqueued' = [Enqueued EXCEPT ![p] = Enqueued[p] + 1]
  <2>1. Enqueued \in [Producers -> {Enqueued[u] : u \in Producers}] BY DEF Enqueued
  <2>2. Enqueued' = [u \in Producers |-> Enqueued'[u]] BY DEF Enqueued
  <2>3. QED BY <1>8, <1>9, <2>1, <2>2
<1>11. Delivered' = Delivered
  <2>1. \A c \in Consumers : c \in Threads \ {p} BY ThreadAssumption DEF Threads
  <2>2. QED BY <1>1, <2>1 DEF Delivered
<1>12. m = <<p, Enqueued[p] + 1>> BY <1>9 DEF Carried
<1>13. Len(Items) < N BY <1>3, <1>4
<1>14. QED BY <1>7, <1>9, <1>10, <1>11, <1>12, <1>13 DEF Fifo!Enqueue

\* Claiming a position for reading takes the oldest message off it.
LEMMA ClaimReadDequeues ==
  ASSUME IInv, IInv', NEW c \in Consumers, ClaimRead(c)
  PROVE  Fifo!Dequeue(c)
<1> DEFINE n == write_pos - read_pos
           S == {MessageAt(q) : q \in Nat}
<1>0. PICK w \in Nat, r \in Nat : w = write_pos /\ r = read_pos BY DEF IInv, TypeOK
<1>1. /\ c \in Threads /\ c \notin Producers /\ pc[c] = "cas" /\ pos[c] = r
      /\ pc'[c] = "access" /\ \A u \in Threads \ {c} : pc'[u] = pc[u]
      /\ UNCHANGED <<data, write_pos, pos, sent, received>> /\ read_pos' = r + 1
  BY <1>0, ThreadAssumption DEF ClaimRead, Goto, IInv, TypeOK, Threads
<1>2. sequence[Cell(r)] = r + 1 /\ r < w BY <1>0, <1>1, ReadClaimable
<1>3. n \in Nat /\ n >= 1 /\ n = w - r BY <1>0, <1>2, SMT
<1>4. /\ Items \in Seq(S) /\ Len(Items) = n
      /\ \A k \in 1..n : r + k - 1 \in Window /\ Items[k] = MessageAt(r + k - 1)
  BY <1>0, ItemsSeq
<1>5. MessageAt(r) = data[Cell(r)]
  <2>1. ASSUME NEW p \in Producers, pc[p] = "access", pos[p] = r PROVE FALSE
    <3>1. sequence[Cell(r)] = r BY <2>1 DEF IInv, ProducerInv, Busy
    <3>2. QED BY <1>2, <3>1, SMT
  <2>2. QED BY <2>1 DEF MessageAt
<1>6. ASSUME NEW q PROVE MessageAt(q)' = MessageAt(q)
  <2>1. \A u \in Producers : Writer(u, q)' <=> Writer(u, q) BY <1>1 DEF Writer, Threads
  <2>2. QED BY <1>1, <2>1, SameMessage
<1>7. Items' = Tail(Items)
  <2> DEFINE t == Tail(Items)
  <2>1. w - (r + 1) = n - 1 BY <1>3, SMT
  <2>2. Items' = [k \in 1..n - 1 |-> MessageAt((r + 1) + k - 1)']
    BY <1>0, <1>1, <2>1 DEF Items
  <2> HIDE DEF n, S
  <2>3. t \in Seq(S) /\ Len(t) = n - 1 /\ \A k \in 1..Len(t) : t[k] = Items[k + 1]
    BY <1>3, <1>4, HeadTailProperties, EmptySeq
  <2> HIDE DEF t
  <2>4. ASSUME NEW k \in 1..n - 1 PROVE t[k] = MessageAt((r + 1) + k - 1)'
    <3>1. k + 1 \in 1..n /\ r + (k + 1) - 1 = (r + 1) + k - 1 BY <1>3, SMT
    <3>2. t[k] = MessageAt((r + 1) + k - 1) BY <1>4, <2>3, <3>1
    <3>3. QED BY <1>6, <3>2
  <2>5. t = [k \in 1..Len(t) |-> t[k]] BY <2>3
  <2>6. QED BY <2>2, <2>3, <2>4, <2>5 DEF t
<1>8. Items # <<>> /\ Head(Items) = data[Cell(r)]
  <2>1. 1 \in 1..n /\ r + 1 - 1 = r BY <1>3, SMT
  <2>2. Items[1] = data[Cell(r)] BY <1>4, <1>5, <2>1
  <2>3. Items # <<>> BY <1>3, <1>4
  <2>4. QED BY <1>4, <2>2, <2>3
<1>9. Enqueued' = Enqueued
  <2>1. \A p \in Producers : p \in Threads \ {c} BY <1>1 DEF Threads
  <2>2. QED BY <1>1, <2>1 DEF Enqueued
<1>10. /\ Delivered[c] = received[c] /\ Delivered'[c] = Append(received[c], data[Cell(r)])
       /\ \A u \in Consumers \ {c} : Delivered'[u] = Delivered[u]
  BY <1>1 DEF Delivered, Threads
<1>11. Delivered' = [Delivered EXCEPT ![c] = Append(Delivered[c], Head(Items))]
  <2>1. Delivered \in [Consumers -> {Delivered[u] : u \in Consumers}] BY DEF Delivered
  <2>2. Delivered' = [u \in Consumers |-> Delivered'[u]] BY DEF Delivered
  <2>3. QED BY <1>8, <1>10, <2>1, <2>2
<1>12. QED BY <1>7, <1>8, <1>9, <1>11 DEF Fifo!Dequeue

\* Every step is one of the abstract queue or is not seen by it.
LEMMA StepRefines ==
  ASSUME IInv, IInv', [Next]_vars PROVE [Fifo!Next]_(Fifo!vars)
<1> DEFINE Unseen == UNCHANGED <<Items, Enqueued, Delivered>>
<1>1. ASSUME NEW p \in Producers, Push(p) PROVE Fifo!Enqueue(p) \/ Unseen
  <2>0. p \in Threads BY DEF Threads
  <2>1. CASE BeginPush(p)
    <3>1. sent' = [u \in Producers |-> IF u = p THEN sent[u] + 1 ELSE sent[u]]
      BY <2>1 DEF BeginPush, IInv, TypeOK
    <3>2. QED BY <2>0, <2>1, <3>1, SearchStutters DEF BeginPush
  <2>2. ASSUME NEW v \in 0..write_pos, LoadPos(p, write_pos, v) PROVE Unseen
    <3>1. \A u \in Threads \ {p} : pos'[u] = pos[u] BY <2>2 DEF LoadPos, IInv, TypeOK
    <3>2. QED BY <2>0, <2>2, <3>1, SearchStutters DEF LoadPos
  <2>3. ASSUME NEW s \in Loadable(Cell(pos[p])), LoadSequence(p, pos[p], s) PROVE Unseen
    BY <2>0, <2>3, SearchStutters DEF LoadSequence
  <2>4. ASSUME NEW v \in 0..write_pos, CasFails(p, write_pos, v) PROVE Unseen
    <3>1. \A u \in Threads \ {p} : pos'[u] = pos[u] BY <2>4 DEF CasFails, IInv, TypeOK
    <3>2. QED BY <2>0, <2>4, <3>1, SearchStutters DEF CasFails
  <2>5. CASE Retry(p) BY <2>0, <2>5, SearchStutters DEF Retry
  <2>6. CASE ClaimWrite(p) BY <2>6, ClaimWriteEnqueues
  <2>7. CASE WriteData(p) BY <2>7, WriteStutters
  <2>8. CASE StoreSequence(p, pos[p] + 1) BY <2>0, <2>8, StoreStutters
  <2>9. QED BY <1>1, <2>1, <2>2, <2>3, <2>4, <2>5, <2>6, <2>7, <2>8 DEF Push
<1>2. ASSUME NEW c \in Consumers, Pop(c) PROVE Fifo!Dequeue(c) \/ Unseen
  <2>0. c \in Threads BY DEF Threads
  <2>1. CASE BeginPop(c)
    <3>1. sent' = [u \in Producers |-> IF u = c THEN sent[u] + 1 ELSE sent[u]]
      <4>1. c \notin Producers BY ThreadAssumption
      <4>2. QED BY <2>1, <4>1 DEF BeginPop, IInv, TypeOK
    <3>2. QED BY <2>0, <2>1, <3>1, SearchStutters DEF BeginPop
  <2>2. ASSUME NEW v \in 0..read_pos, LoadPos(c, read_pos, v) PROVE Unseen
    <3>1. \A u \in Threads \ {c} : pos'[u] = pos[u] BY <2>2 DEF LoadPos, IInv, TypeOK
    <3>2. QED BY <2>0, <2>2, <3>1, SearchStutters DEF LoadPos
  <2>3. ASSUME NEW s \in Loadable(Cell(pos[c])), LoadSequence(c, pos[c] + 1, s) PROVE Unseen
    BY <2>0, <2>3, SearchStutters DEF LoadSequence
  <2>4. ASSUME NEW v \in 0..read_pos, CasFails(c, read_pos, v) PROVE Unseen
    <3>1. \A u \in Threads \ {c} : pos'[u] = pos[u] BY <2>4 DEF CasFails, IInv, TypeOK
    <3>2. QED BY <2>0, <2>4, <3>1, SearchStutters DEF CasFails
  <2>5. CASE Retry(c) BY <2>0, <2>5, SearchStutters DEF Retry
  <2>6. CASE ClaimRead(c) BY <2>6, ClaimReadDequeues
  <2>7. CASE MoveData(c) BY <2>7, MoveStutters
  <2>8. CASE StoreSequence(c, NextLap(pos[c])) BY <2>0, <2>8, StoreStutters
  <2>9. CASE GiveUp(c) BY <2>0, <2>9, SearchStutters DEF GiveUp
  <2>10. QED
    BY <1>2, <2>1, <2>2, <2>3, <2>4, <2>5, <2>6, <2>7, <2>8, <2>9 DEF Pop
<1>3. CASE RequestStop \/ UNCHANGED vars
  <2>1. UNCHANGED <<data, write_pos, read_pos, received, pc, pos, sent>>
    BY <1>3 DEF RequestStop, vars, ring
  <2>2. \A p \in Producers : Enqueued'[p] = Enqueued[p] BY <2>1 DEF Enqueued
  <2>3. Unseen BY <2>1, <2>2, Stutters
  <2>4. QED BY <2>3 DEF Fifo!vars
<1>4. Unseen => UNCHANGED Fifo!vars BY DEF Fifo!vars
<1> HIDE DEF Unseen
<1>5. QED BY <1>1, <1>2, <1>3, <1>4 DEF Next, Fifo!Next

(* The ring implements a FIFO buffer of N messages for any number of cells, *)
(* producers and consumers, however its loads are delayed: a push takes      *)
(* effect at the compare-and-swap of line 39, a pop at that of line 64.      *)
THEOREM RefinesFifo == Spec => ImplementsFifo
<1>1. Init => Fifo!Init
  <2> SUFFICES ASSUME Init PROVE Fifo!Init
    OBVIOUS
  <2>1. IInv BY InitInv
  <2>2. write_pos - read_pos = 0 BY DEF Init
  <2>3. Items = <<>> BY <2>1, <2>2, ItemsSeq, EmptySeq
  <2>4. Enqueued = [p \in Producers |-> 0] /\ Delivered = [c \in Consumers |-> <<>>]
    BY DEF Init, Enqueued, Delivered, Threads
  <2>5. QED BY <2>3, <2>4 DEF Fifo!Init
<1>2. IInv /\ IInv' /\ [Next]_vars => [Fifo!Next]_(Fifo!vars) BY StepRefines
<1>3. QED BY <1>1, <1>2, Invariance, PTL DEF Spec, ImplementsFifo, Fifo!Spec
=============================================================================
