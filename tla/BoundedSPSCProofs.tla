------------------------- MODULE BoundedSPSCProofs -------------------------
(***************************************************************************)
(* Proofs about BoundedSPSC for every number of cells: type correctness,   *)
(* freedom from data races, and that the ring implements a FIFO buffer of  *)
(* N - 1 messages.                                                         *)
(***************************************************************************)
EXTENDS BoundedSPSC, SequenceTheorems, TLAPS

-----------------------------------------------------------------------------
(* Positions of a ring and the cells they map to.                          *)

\* A position is its lap times n plus its cell.
LEMMA DivMod ==
  ASSUME NEW n \in Nat, n >= 2, NEW p \in Nat
  PROVE  p \div n \in Nat /\ p % n \in 0..(n - 1) /\ p = n * (p \div n) + (p % n)
BY SMT

\* A positive multiple of n is at least n.
LEMMA Multiple ==
  ASSUME NEW n \in Nat, n >= 2, NEW k \in Int, n * k > 0 PROVE n * k >= n
<1>1. k >= 1 BY SMT
<1>2. QED BY <1>1, SMT

\* Two positions of one cell are a lap apart.
LEMMA Far ==
  ASSUME NEW n \in Nat, n >= 2, NEW p \in Nat, NEW q \in Nat, p % n = q % n, p < q
  PROVE  q >= p + n
<1> DEFINE a == p \div n
           b == q \div n
<1>1. /\ a \in Nat /\ b \in Nat /\ p % n \in 0..(n - 1)
      /\ p = n * a + (p % n) /\ q = n * b + (p % n)
  BY DivMod
<1> HIDE DEF a, b
<1>2. q - p = n * (b - a) BY <1>1, SMT
<1>3. QED BY <1>1, <1>2, Multiple, SMT

\* A number below n is its own remainder, and remainders are unique.
LEMMA Remainder ==
  ASSUME NEW n \in Nat, n >= 2, NEW p \in Nat, NEW b \in Nat, NEW x \in 0..(n - 1),
         p = n * b + x
  PROVE  p % n = x
<1> DEFINE a == p \div n
           y == p % n
           k == b - a
<1>1. a \in Nat /\ y \in 0..(n - 1) /\ p = n * a + y BY DivMod
<1> HIDE DEF a, y
<1>2. k \in Int /\ y - x = n * k BY <1>1, SMT
<1>3. -k \in Int /\ n * (-k) = x - y BY <1>1, <1>2, SMT
<1> HIDE DEF k
<1>4. ~(y - x > 0) BY <1>1, <1>2, Multiple, SMT
<1>5. ~(x - y > 0) BY <1>1, <1>3, Multiple, SMT
<1>6. QED BY <1>1, <1>4, <1>5, SMT DEF y

\* One lap later is the same cell.
LEMMA Wrap ==
  ASSUME NEW n \in Nat, n >= 2, NEW p \in Nat PROVE (p + n) % n = p % n
<1> DEFINE a == p \div n
           x == p % n
<1>1. a \in Nat /\ x \in 0..(n - 1) /\ p = n * a + x BY DivMod
<1> HIDE DEF a, x
<1>2. p + n \in Nat /\ a + 1 \in Nat /\ p + n = n * (a + 1) + x BY <1>1, SMT
<1>3. (p + n) % n = x BY <1>1, <1>2, Remainder
<1>4. QED BY <1>3 DEF x

\* Advancing the cell of a position is the cell of the next position.
LEMMA Advance ==
  ASSUME NEW n \in Nat, n >= 2, NEW p \in Nat, NEW d \in Nat
  PROVE  ((p % n) + d) % n = (p + d) % n
<1> DEFINE a == p \div n
           x == p % n
           q == x + d
           b == q \div n
           y == q % n
<1>1. a \in Nat /\ x \in 0..(n - 1) /\ p = n * a + x BY DivMod
<1> HIDE DEF a, x
<1>2. q \in Nat BY <1>1, SMT
<1>3. b \in Nat /\ y \in 0..(n - 1) /\ q = n * b + y BY <1>2, DivMod
<1> HIDE DEF b, y
<1>4. p + d \in Nat /\ a + b \in Nat /\ p + d = n * (a + b) + y BY <1>1, <1>3, SMT
<1>5. (p + d) % n = y BY <1>3, <1>4, Remainder
<1>6. QED BY <1>5 DEF x, y

\* The distance between two positions less than a lap apart can be computed
\* from their cells.
LEMMA Distance ==
  ASSUME NEW n \in Nat, n >= 2, NEW p \in Nat, NEW q \in Nat, p <= q, q < p + n
  PROVE  ((q % n) - (p % n)) % n = q - p
<1> DEFINE a == p \div n
           x == p % n
           b == q \div n
           y == q % n
           z == (y - x) % n
           c == (y - x) \div n
<1>1. a \in Nat /\ x \in 0..(n - 1) /\ p = n * a + x BY DivMod
<1>2. b \in Nat /\ y \in 0..(n - 1) /\ q = n * b + y BY DivMod
<1> HIDE DEF a, b, x, y
<1>3. c \in Int /\ z \in 0..(n - 1) /\ y - x = n * c + z BY <1>1, <1>2, SMT
<1> HIDE DEF c, z
<1> DEFINE d == q - p
           k == b - a + c
<1>4. d \in 0..(n - 1) BY SMT
<1>5. k \in Int /\ d - z = n * k BY <1>1, <1>2, <1>3, SMT
<1>6. -k \in Int /\ n * (-k) = z - d BY <1>1, <1>2, <1>3, <1>5, SMT
<1> HIDE DEF d, k
<1>7. ~(d - z > 0) BY <1>3, <1>4, <1>5, Multiple, SMT
<1>8. ~(z - d > 0) BY <1>3, <1>4, <1>6, Multiple, SMT
<1>9. d = z BY <1>3, <1>4, <1>7, <1>8, SMT
<1>10. (y - x) % n = q - p BY <1>9 DEF d, z
<1>11. QED BY <1>10 DEF x, y

-----------------------------------------------------------------------------
(* The inductive invariant, over the number of stores of each position.    *)

Written == stores[Producer]
Taken   == stores[Consumer]

Busy == {"access", "publish"}

\* each position is the cell of a number of stores
PositionInv ==
  /\ write_pos = Written % N
  /\ read_pos = Taken % N
  /\ read_pos_cached = synced[Producer] % N
  /\ write_pos_cached = synced[Consumer] % N

\* what each side knows of the other is old but never wrong: the producer
\* knows at least that there is room for what it wrote, the consumer that what
\* it took was there
CountInv ==
  /\ synced[Producer] <= Taken
  /\ Taken <= synced[Consumer]
  /\ synced[Consumer] <= Written
  /\ Written <= synced[Producer] + (N - 1)
  /\ pc[Producer] \in Busy => Written < synced[Producer] + (N - 1)
  /\ pc[Consumer] \in Busy => Taken < synced[Consumer]

SentInv == sent = IF pc[Producer] = "idle" THEN Written ELSE Written + 1

DataInv ==
  /\ \A k \in Taken..(Written - 1) : buffer[k % N] = <<Producer, k + 1>>
  /\ pc[Producer] = "publish" => buffer[Written % N] = <<Producer, Written + 1>>
  /\ pc[Consumer] = "publish" => target = <<Producer, Taken + 1>>

ReceivedInv ==
  /\ Len(received) = Taken
  /\ \A k \in 1..Taken : received[k] = <<Producer, k>>

IInv == TypeOK /\ PositionInv /\ CountInv /\ SentInv /\ DataInv /\ ReceivedInv

-----------------------------------------------------------------------------
LEMMA CellType == ASSUME NEW p \in Nat PROVE p % N \in Cells
BY DivMod, NAssumption DEF Cells

\* The cell after a position's cell is the cell of the next position.
LEMMA AfterCell == ASSUME NEW p \in Nat PROVE After(p % N) = (p + 1) % N
BY Advance, NAssumption DEF After

\* The cells of positions less than a lap apart differ.
LEMMA CellsDiffer ==
  ASSUME NEW p \in Nat, NEW q \in Nat, p < q, q < p + N PROVE p % N # q % N
<1>1. ~(q >= p + N) BY NAssumption, SMT
<1>2. QED BY <1>1, Far, NAssumption

LEMMA InitInv == Init => IInv
<1> SUFFICES ASSUME Init PROVE IInv
  OBVIOUS
<1>1. 0 \in Cells /\ 0 % N = 0
  <2>1. 0 \in 0..(N - 1) /\ 0 = N * 0 + 0 BY NAssumption, SMT
  <2>2. QED BY <2>1, Remainder, NAssumption, SMT DEF Cells
<1>2. stores[Producer] = 0 /\ stores[Consumer] = 0 /\ synced[Producer] = 0
      /\ synced[Consumer] = 0 /\ pc[Producer] = "idle" /\ pc[Consumer] = "idle"
  BY DEF Init, Threads
<1>3. TypeOK BY <1>1, ThreadAssumption DEF Init, TypeOK
<1>4. PositionInv BY <1>1, <1>2 DEF Init, PositionInv, Written, Taken
<1>5. CountInv BY <1>2, NAssumption, SMT DEF CountInv, Written, Taken, Busy
<1>6. SentInv /\ ReceivedInv
  BY <1>2, SMT DEF Init, SentInv, ReceivedInv, Written, Taken
<1>7. DataInv BY <1>2, SMT DEF DataInv, Written, Taken
<1>8. QED BY <1>3, <1>4, <1>5, <1>6, <1>7 DEF IInv

\* The facts every step starts from.
LEMMA Types ==
  ASSUME IInv
  PROVE  /\ Written \in Nat /\ Taken \in Nat
         /\ synced[Producer] \in Nat /\ synced[Consumer] \in Nat
         /\ Producer \in Threads /\ Consumer \in Threads /\ Producer # Consumer
BY ThreadAssumption DEF IInv, TypeOK, Threads, Written, Taken

-----------------------------------------------------------------------------
LEMMA BeginPushInv == ASSUME IInv, BeginPush PROVE IInv'
<1> USE DEF BeginPush, Goto, positions, order, Written, Taken, Busy
<1>1. pc[Producer] = "idle" /\ pc'[Producer] = "check" /\ pc'[Consumer] = pc[Consumer]
  BY Types DEF IInv, TypeOK
<1>2. sent + 1 \in 0..MaxMessages BY ThreadAssumption, SMT DEF IInv, TypeOK
<1>3. TypeOK' BY <1>2 DEF IInv, TypeOK
<1>4. PositionInv' /\ ReceivedInv' BY DEF IInv, PositionInv, ReceivedInv
<1>5. CountInv' /\ DataInv' BY <1>1 DEF IInv, CountInv, DataInv
<1>6. SentInv' BY <1>1 DEF IInv, SentInv
<1>7. QED BY <1>3, <1>4, <1>5, <1>6 DEF IInv

LEMMA CheckFullInv == ASSUME IInv, CheckFull PROVE IInv'
<1> USE DEF CheckFull, Goto, positions, order, history, Written, Taken, Busy
<1>1. /\ pc[Producer] = "check" /\ pc'[Producer] \in {"access", "reload"}
      /\ pc'[Consumer] = pc[Consumer]
      /\ pc'[Producer] = "access" => After(write_pos) # read_pos_cached
  BY Types DEF IInv, TypeOK
<1>2. TypeOK' BY DEF IInv, TypeOK
<1>3. PositionInv' /\ ReceivedInv' BY DEF IInv, PositionInv, ReceivedInv
<1>4. CountInv'
  <2>1. ASSUME After(write_pos) # read_pos_cached
        PROVE  Written < synced[Producer] + (N - 1)
    <3>1. (Written + 1) % N # synced[Producer] % N
      BY <2>1, Types, AfterCell DEF IInv, PositionInv
    <3>2. Written + 1 # synced[Producer] + N
      BY <3>1, Types, Wrap, NAssumption
    <3>3. QED BY <3>2, Types, NAssumption, SMT DEF IInv, CountInv
  <2>2. QED BY <1>1, <2>1 DEF IInv, CountInv
<1>5. SentInv' /\ DataInv' BY <1>1 DEF IInv, SentInv, DataInv
<1>6. QED BY <1>2, <1>3, <1>4, <1>5 DEF IInv

LEMMA ReloadReadPosInv == ASSUME IInv, NEW k, ReloadReadPos(k) PROVE IInv'
<1> USE DEF ReloadReadPos, Goto, history, Written, Taken, Busy
<1>1. /\ pc[Producer] = "reload" /\ pc'[Producer] \in {"access", "check"}
      /\ pc'[Consumer] = pc[Consumer]
      /\ pc'[Producer] = "access" => After(write_pos) # read_pos_cached'
  BY Types DEF IInv, TypeOK
<1>2. k \in Nat /\ synced[Producer] <= k /\ k <= Taken BY Types, SMT
<1>3. synced'[Producer] = k /\ synced'[Consumer] = synced[Consumer]
  BY Types DEF IInv, TypeOK
<1>4. TypeOK' BY <1>2, CellType DEF IInv, TypeOK
<1>5. PositionInv' BY <1>3 DEF IInv, PositionInv
<1>6. CountInv'
  <2>1. Written <= k + (N - 1) BY <1>2, Types, NAssumption, SMT DEF IInv, CountInv
  <2>2. ASSUME After(write_pos) # k % N PROVE Written < k + (N - 1)
    <3>1. (Written + 1) % N # k % N BY <2>2, Types, AfterCell DEF IInv, PositionInv
    <3>2. (k + N) % N = k % N BY <1>2, Wrap, NAssumption
    <3> HIDE DEF Written
    <3>3. Written + 1 # k + N BY <3>1, <3>2
    <3>4. QED BY <1>2, <2>1, <3>3, Types, NAssumption, SMT
  <2>3. QED BY <1>1, <1>2, <1>3, <2>1, <2>2 DEF IInv, CountInv
<1>7. SentInv' /\ DataInv' /\ ReceivedInv'
  BY <1>1 DEF IInv, SentInv, DataInv, ReceivedInv
<1>8. QED BY <1>4, <1>5, <1>6, <1>7 DEF IInv

LEMMA WriteCellInv == ASSUME IInv, WriteCell PROVE IInv'
<1> USE DEF WriteCell, Goto, positions, order, history, Written, Taken, Busy
<1>1. /\ pc[Producer] = "access" /\ pc'[Producer] = "publish"
      /\ pc'[Consumer] = pc[Consumer]
  BY Types DEF IInv, TypeOK
<1>2. write_pos = Written % N /\ write_pos \in Cells /\ sent = Written + 1
  BY <1>1, Types, CellType DEF IInv, PositionInv, SentInv
<1>3. <<Producer, sent>> \in Message
  BY <1>2, Types, ThreadAssumption, SMT DEF IInv, TypeOK, Message
<1>4. TypeOK' BY <1>3 DEF IInv, TypeOK
<1>5. PositionInv' /\ CountInv' BY <1>1 DEF IInv, PositionInv, CountInv
<1>6. SentInv' /\ ReceivedInv' BY <1>1 DEF IInv, SentInv, ReceivedInv
<1>7. DataInv'
  <2>1. \A j \in Cells : buffer'[j] = IF j = write_pos THEN <<Producer, sent>> ELSE buffer[j]
    BY DEF IInv, TypeOK
  <2>2. ASSUME NEW j \in Taken..(Written - 1) PROVE buffer'[j % N] = <<Producer, j + 1>>
    <3>1. j \in Nat /\ j < Written /\ Written < j + N
      BY <1>1, Types, NAssumption, SMT DEF IInv, CountInv
    <3>2. j % N # write_pos /\ j % N \in Cells
      BY <1>2, <3>1, Types, CellsDiffer, CellType
    <3>3. QED BY <2>1, <3>2 DEF IInv, DataInv
  <2>3. buffer'[Written % N] = <<Producer, Written + 1>> BY <1>2, <2>1
  <2>4. QED BY <1>1, <2>2, <2>3 DEF IInv, DataInv
<1>8. QED BY <1>4, <1>5, <1>6, <1>7 DEF IInv

LEMMA StoreWritePosInv == ASSUME IInv, StoreWritePos PROVE IInv'
<1> USE DEF StoreWritePos, Goto, history, Written, Taken, Busy
<1>1. /\ pc[Producer] = "publish" /\ pc'[Producer] = "idle"
      /\ pc'[Consumer] = pc[Consumer]
      /\ Written' = Written + 1 /\ Taken' = Taken
  BY Types DEF IInv, TypeOK
<1>2. write_pos' = (Written + 1) % N BY Types, AfterCell DEF IInv, PositionInv
<1>3. TypeOK' BY <1>2, Types, CellType DEF IInv, TypeOK
<1>4. PositionInv' BY <1>1, <1>2 DEF IInv, PositionInv
<1>5. CountInv' BY <1>1, Types, NAssumption, SMT DEF IInv, CountInv
<1>6. SentInv' /\ ReceivedInv' BY <1>1 DEF IInv, SentInv, ReceivedInv
<1>7. DataInv'
  <2>1. ASSUME NEW j \in Taken..Written PROVE buffer[j % N] = <<Producer, j + 1>>
    <3>1. CASE j = Written BY <1>1, <3>1 DEF IInv, DataInv
    <3>2. CASE j # Written
      <4>1. j \in Taken..(Written - 1) BY <3>2, Types, SMT
      <4>2. QED BY <4>1 DEF IInv, DataInv
    <3>3. QED BY <3>1, <3>2
  <2>2. Written' - 1 = Written BY <1>1, Types, SMT
  <2>3. QED BY <1>1, <2>1, <2>2 DEF IInv, DataInv
<1>8. QED BY <1>3, <1>4, <1>5, <1>6, <1>7 DEF IInv
-----------------------------------------------------------------------------
LEMMA BeginPopInv == ASSUME IInv, BeginPop PROVE IInv'
<1> USE DEF BeginPop, Goto, positions, order, history, Written, Taken, Busy
<1>1. pc[Consumer] = "idle" /\ pc'[Consumer] = "check" /\ pc'[Producer] = pc[Producer]
  BY Types DEF IInv, TypeOK
<1>2. TypeOK' BY DEF IInv, TypeOK
<1>3. PositionInv' /\ ReceivedInv' BY DEF IInv, PositionInv, ReceivedInv
<1>4. CountInv' /\ DataInv' BY <1>1 DEF IInv, CountInv, DataInv
<1>5. SentInv' BY <1>1 DEF IInv, SentInv
<1>6. QED BY <1>2, <1>3, <1>4, <1>5 DEF IInv

LEMMA CheckEmptyInv == ASSUME IInv, CheckEmpty PROVE IInv'
<1> USE DEF CheckEmpty, Goto, positions, order, history, Written, Taken, Busy
<1>1. /\ pc[Consumer] = "check" /\ pc'[Consumer] \in {"access", "reload"}
      /\ pc'[Producer] = pc[Producer]
      /\ pc'[Consumer] = "access" => read_pos # write_pos_cached
  BY Types DEF IInv, TypeOK
<1>2. TypeOK' BY DEF IInv, TypeOK
<1>3. PositionInv' /\ ReceivedInv' BY DEF IInv, PositionInv, ReceivedInv
<1>4. CountInv'
  <2>1. read_pos # write_pos_cached => Taken # synced[Consumer]
    BY DEF IInv, PositionInv
  <2>2. read_pos # write_pos_cached => Taken < synced[Consumer]
    BY <2>1, Types, SMT DEF IInv, CountInv
  <2>3. QED BY <1>1, <2>2 DEF IInv, CountInv
<1>5. SentInv' /\ DataInv' BY <1>1 DEF IInv, SentInv, DataInv
<1>6. QED BY <1>2, <1>3, <1>4, <1>5 DEF IInv

LEMMA ReloadWritePosInv == ASSUME IInv, NEW k, ReloadWritePos(k) PROVE IInv'
<1> USE DEF ReloadWritePos, Goto, history, Written, Taken, Busy
<1>1. /\ pc[Consumer] = "reload" /\ pc'[Consumer] \in {"access", "check"}
      /\ pc'[Producer] = pc[Producer]
      /\ pc'[Consumer] = "access" => read_pos # write_pos_cached'
  BY Types DEF IInv, TypeOK
<1>2. k \in Nat /\ synced[Consumer] <= k /\ k <= Written BY Types, SMT
<1>3. synced'[Consumer] = k /\ synced'[Producer] = synced[Producer]
  BY Types DEF IInv, TypeOK
<1>4. TypeOK' BY <1>2, CellType DEF IInv, TypeOK
<1>5. PositionInv' BY <1>3 DEF IInv, PositionInv
<1>6. CountInv'
  <2>1. Taken <= k BY <1>2, Types, SMT DEF IInv, CountInv
  <2>2. read_pos # k % N => Taken # k BY DEF IInv, PositionInv
  <2>3. read_pos # k % N => Taken < k BY <1>2, <2>1, <2>2, Types, SMT
  <2>4. QED BY <1>1, <1>2, <1>3, <2>1, <2>3 DEF IInv, CountInv
<1>7. SentInv' /\ DataInv' /\ ReceivedInv'
  BY <1>1 DEF IInv, SentInv, DataInv, ReceivedInv
<1>8. QED BY <1>4, <1>5, <1>6, <1>7 DEF IInv

\* The cell the consumer copies holds the next message.
LEMMA Readable ==
  ASSUME IInv, pc[Consumer] = "access"
  PROVE  buffer[read_pos] = <<Producer, Taken + 1>>
<1>1. Taken \in Taken..(Written - 1)
  BY Types, SMT DEF IInv, CountInv, Busy
<1>2. QED BY <1>1 DEF IInv, DataInv, PositionInv

LEMMA ReadCellInv == ASSUME IInv, ReadCell PROVE IInv'
<1> USE DEF ReadCell, Goto, positions, order, history, Written, Taken, Busy
<1>1. /\ pc[Consumer] = "access" /\ pc'[Consumer] = "publish"
      /\ pc'[Producer] = pc[Producer]
  BY Types DEF IInv, TypeOK
<1>2. TypeOK' BY DEF IInv, TypeOK
<1>3. PositionInv' /\ CountInv' BY <1>1 DEF IInv, PositionInv, CountInv
<1>4. SentInv' /\ ReceivedInv' BY <1>1 DEF IInv, SentInv, ReceivedInv
<1>5. DataInv' BY <1>1, Readable DEF IInv, DataInv
<1>6. QED BY <1>2, <1>3, <1>4, <1>5 DEF IInv

LEMMA StoreReadPosInv == ASSUME IInv, StoreReadPos PROVE IInv'
<1> USE DEF StoreReadPos, Goto, Written, Taken, Busy
<1>1. /\ pc[Consumer] = "publish" /\ pc'[Consumer] = "idle"
      /\ pc'[Producer] = pc[Producer]
      /\ Taken' = Taken + 1 /\ Written' = Written
  BY Types DEF IInv, TypeOK
<1>2. target = <<Producer, Taken + 1>> BY <1>1 DEF IInv, DataInv
<1>3. read_pos' = (Taken + 1) % N BY Types, AfterCell DEF IInv, PositionInv
<1>4. target \in Message
  <2>1. Taken + 1 <= Written BY <1>1, Types, SMT DEF IInv, CountInv
  <2>2. Written <= MaxMessages
    BY Types, ThreadAssumption, SMT DEF IInv, TypeOK, SentInv
  <2>3. Taken + 1 \in 1..MaxMessages BY <2>1, <2>2, Types, ThreadAssumption, SMT
  <2>4. QED BY <1>2, <2>3 DEF Message
<1>5. TypeOK' BY <1>3, <1>4, Types, CellType DEF IInv, TypeOK
<1>6. PositionInv' BY <1>1, <1>3 DEF IInv, PositionInv
<1>7. CountInv' BY <1>1, Types, NAssumption, SMT DEF IInv, CountInv
<1>8. SentInv' BY <1>1 DEF IInv, SentInv
<1>9. DataInv'
  <2>1. ASSUME NEW j \in (Taken + 1)..(Written - 1)
        PROVE  buffer[j % N] = <<Producer, j + 1>>
    <3>1. j \in Taken..(Written - 1) BY Types, SMT
    <3>2. QED BY <3>1 DEF IInv, DataInv
  <2>2. QED BY <1>1, <2>1 DEF IInv, DataInv
<1>10. ReceivedInv'
  <2>1. received \in Seq(Message) /\ Len(received) = Taken BY DEF IInv, TypeOK, ReceivedInv
  <2>2. Len(received') = Taken + 1 BY <2>1
  <2>3. ASSUME NEW k \in 1..(Taken + 1) PROVE received'[k] = <<Producer, k>>
    <3>1. CASE k = Taken + 1 BY <1>2, <2>1, <3>1
    <3>2. CASE k # Taken + 1
      <4>1. k \in 1..Taken BY <3>2, Types, SMT
      <4>2. received'[k] = received[k] BY <2>1, <4>1
      <4>3. QED BY <4>1, <4>2 DEF IInv, ReceivedInv
    <3>3. QED BY <3>1, <3>2
  <2>4. QED BY <1>1, <2>2, <2>3 DEF ReceivedInv
<1>11. QED BY <1>5, <1>6, <1>7, <1>8, <1>9, <1>10 DEF IInv

LEMMA NextInv == IInv /\ [Next]_vars => IInv'
<1> SUFFICES ASSUME IInv, [Next]_vars PROVE IInv'
  OBVIOUS
<1>1. CASE Push
  BY <1>1, BeginPushInv, CheckFullInv, ReloadReadPosInv, WriteCellInv, StoreWritePosInv
  DEF Push
<1>2. CASE Pop
  BY <1>2, BeginPopInv, CheckEmptyInv, ReloadWritePosInv, ReadCellInv, StoreReadPosInv
  DEF Pop
<1>3. CASE UNCHANGED vars
  BY <1>3 DEF vars, positions, history, order, IInv, TypeOK, PositionInv, CountInv,
              SentInv, DataInv, ReceivedInv, Written, Taken
<1>4. QED BY <1>1, <1>2, <1>3 DEF Next

LEMMA Invariance == Spec => []IInv
BY InitInv, NextInv, PTL DEF Spec

\* Every state is well typed, and positions stay inside the buffer, for any
\* number of cells.
THEOREM TypeCorrect == Spec => []TypeOK
<1>1. IInv => TypeOK BY DEF IInv
<1>2. QED BY <1>1, Invariance, PTL

\* The cell the producer constructs in was read out, the one the consumer
\* copies from was written, and both happen before, for any number of cells.
THEOREM NoDataRace == Spec => []DataRaceFree
<1>1. ASSUME IInv PROVE DataRaceFree
  <2> USE <1>1 DEF Busy
  <2>1. pc[Producer] = "access" => synced[Producer] >= Written - N + 1
    BY Types, NAssumption, SMT DEF IInv, CountInv
  <2>2. pc[Consumer] = "access" => synced[Consumer] > Taken
    BY Types, SMT DEF IInv, CountInv
  <2>3. ASSUME pc[Producer] = "access", pc[Consumer] = "access"
        PROVE  write_pos # read_pos
    <3>1. Taken < Written /\ Written < Taken + N
      BY <2>3, Types, NAssumption, SMT DEF IInv, CountInv
    <3>2. Taken % N # Written % N BY <3>1, Types, CellsDiffer
    <3>3. QED BY <3>2 DEF IInv, PositionInv
  <2>4. QED BY <2>1, <2>2, <2>3 DEF DataRaceFree, Written, Taken
<1>2. QED BY <1>1, Invariance, PTL
-----------------------------------------------------------------------------
(* The refinement.                                                         *)

\* The messages between the two positions, and what was sent and received, in
\* terms of the number of stores.
Pending == [k \in 1..(Written - Taken) |-> <<Producer, Taken + k>>]

Abstracts ==
  /\ Items = Pending
  /\ Enqueued = [p \in {Producer} |-> Written]

LEMMA Abstraction == IInv => Abstracts
<1> SUFFICES ASSUME IInv PROVE Abstracts
  OBVIOUS
<1>1. Stored = Written - Taken
  <2>1. Taken <= Written /\ Written < Taken + N
    BY Types, NAssumption, SMT DEF IInv, CountInv
  <2>2. ((Written % N) - (Taken % N)) % N = Written - Taken
    BY <2>1, Types, Distance, NAssumption
  <2>3. QED BY <2>2 DEF Stored, IInv, PositionInv
<1>2. ASSUME NEW k \in 1..(Written - Taken)
      PROVE  buffer[(read_pos + k - 1) % N] = <<Producer, Taken + k>>
  <2>1. k - 1 \in Nat /\ Taken + (k - 1) \in Taken..(Written - 1)
    BY Types, SMT
  <2>2. ((Taken % N) + (k - 1)) % N = (Taken + (k - 1)) % N
    BY <2>1, Types, Advance, NAssumption
  <2>3. read_pos + k - 1 = (Taken % N) + (k - 1)
    BY Types, CellType, SMT DEF IInv, PositionInv, Cells, TypeOK
  <2>4. (Taken + (k - 1)) + 1 = Taken + k BY Types, SMT
  <2>5. buffer[(Taken + (k - 1)) % N] = <<Producer, Taken + k>>
    BY <2>1, <2>4 DEF IInv, DataInv
  <2>6. QED BY <2>2, <2>3, <2>5
<1>3. Enqueued = [p \in {Producer} |-> Written]
  <2>1. \A p \in {Producer} : (IF pc[p] = "idle" THEN sent ELSE sent - 1) = Written
    BY Types, SMT DEF IInv, SentInv
  <2>2. QED BY <2>1 DEF Enqueued
<1>4. QED BY <1>1, <1>2, <1>3 DEF Items, Pending, Abstracts

LEMMA AbstractionAfter == IInv' => Abstracts'
BY Abstraction, PTL

Entry == {Producer} \X Nat

LEMMA PendingSeq ==
  ASSUME IInv
  PROVE  /\ Pending \in Seq(Entry) /\ Len(Pending) = Written - Taken
         /\ \A k \in 1..(Written - Taken) : Pending[k] = <<Producer, Taken + k>>
<1> DEFINE n == Written - Taken
<1>1. n \in Nat BY Types, SMT DEF IInv, CountInv
<1>2. \A k \in 1..n : <<Producer, Taken + k>> \in Entry
  BY Types, SMT DEF Entry
<1>3. Pending = [k \in 1..n |-> <<Producer, Taken + k>>] BY DEF Pending
<1> HIDE DEF n
<1>4. /\ Pending \in [1..n -> Entry]
      /\ \A k \in 1..n : Pending[k] = <<Producer, Taken + k>>
  BY <1>2, <1>3
<1>5. Pending \in Seq(Entry) /\ Len(Pending) = n
  BY <1>1, <1>4
<1>6. QED BY <1>4, <1>5 DEF n

\* Storing write_pos appends the message to the abstract buffer.
LEMMA StoreWritePosEnqueues ==
  ASSUME IInv, StoreWritePos PROVE Fifo!Enqueue(Producer)
<1>0. IInv' BY StoreWritePosInv
<1>1. /\ pc[Producer] = "publish" /\ pc'[Producer] = "idle"
      /\ Written' = Written + 1 /\ Taken' = Taken
  BY Types DEF StoreWritePos, Goto, IInv, TypeOK, Written, Taken
<1> DEFINE n == Written - Taken
           m == <<Producer, Written + 1>>
<1>2. n \in Nat /\ n < N - 1 /\ Written + 1 <= MaxMessages
  BY <1>1, Types, NAssumption, ThreadAssumption, SMT
  DEF IInv, CountInv, SentInv, TypeOK, Busy
<1>3. Items = Pending /\ Enqueued = [p \in {Producer} |-> Written]
  BY Abstraction DEF Abstracts
<1>4. /\ Items' = [k \in 1..(n + 1) |-> <<Producer, Taken + k>>]
      /\ Enqueued' = [p \in {Producer} |-> Written + 1]
  <2>1. Items' = Pending' /\ Enqueued' = [p \in {Producer} |-> Written']
    BY <1>0, AbstractionAfter DEF Abstracts
  <2>2. (Written + 1) - Taken = n + 1 BY Types, SMT
  <2>3. Pending' = [k \in 1..(Written' - Taken') |-> <<Producer, Taken' + k>>]
    BY DEF Pending
  <2>4. QED BY <1>1, <2>1, <2>2, <2>3
<1>5. Items' = Append(Items, m)
  <2>1. /\ Items \in Seq(Entry) /\ Len(Items) = n
        /\ \A k \in 1..n : Items[k] = <<Producer, Taken + k>>
    BY <1>3, PendingSeq
  <2>2. m \in Entry BY Types DEF Entry
  <2> DEFINE t == Append(Items, m)
  <2>3. /\ t \in Seq(Entry) /\ Len(t) = n + 1
        /\ \A k \in 1..n : t[k] = <<Producer, Taken + k>>
        /\ t[n + 1] = m
    BY <2>1, <2>2, AppendProperties
  <2>4. Taken + (n + 1) = Written + 1 BY Types, SMT
  <2> HIDE DEF t
  <2>5. \A k \in 1..(n + 1) : t[k] = <<Producer, Taken + k>>
    <3> HIDE DEF n
    <3>1. TAKE k \in 1..(n + 1)
    <3>2. CASE k = n + 1 BY <2>3, <2>4, <3>2
    <3>3. CASE k # n + 1
      <4>1. k \in 1..n BY <1>2, <3>3, SMT
      <4>2. QED BY <2>3, <4>1
    <3>4. QED BY <3>2, <3>3
  <2>6. t = [k \in 1..Len(t) |-> t[k]] BY <2>3
  <2>7. QED BY <1>4, <2>3, <2>5, <2>6 DEF t
<1>6. Len(Items) < N - 1 BY <1>2, <1>3, PendingSeq
<1>7. Enqueued[Producer] = Written /\ UNCHANGED Delivered
  BY <1>3 DEF StoreWritePos, Delivered, history
<1>8. Enqueued' = [Enqueued EXCEPT ![Producer] = Enqueued[Producer] + 1]
  BY <1>3, <1>4, <1>7
<1> HIDE DEF n
<1>9. Enqueued[Producer] < MaxMessages
  BY <1>2, <1>7, Types, ThreadAssumption, SMT
<1>10. Items' = Append(Items, <<Producer, Enqueued[Producer] + 1>>)
  BY <1>5, <1>7
<1>11. QED BY <1>6, <1>7, <1>8, <1>9, <1>10 DEF Fifo!Enqueue

\* Storing read_pos takes the oldest message off the abstract buffer.
LEMMA StoreReadPosDequeues ==
  ASSUME IInv, StoreReadPos PROVE Fifo!Dequeue(Consumer)
<1>0. IInv' BY StoreReadPosInv
<1>1. /\ pc[Consumer] = "publish"
      /\ Written' = Written /\ Taken' = Taken + 1
  BY Types DEF StoreReadPos, Goto, IInv, TypeOK, Written, Taken
<1> DEFINE n == Written - Taken
<1>2. n \in Nat /\ n >= 1 BY <1>1, Types, SMT DEF IInv, CountInv, Busy
<1>3. Items = Pending /\ Enqueued = [p \in {Producer} |-> Written]
  BY Abstraction DEF Abstracts
<1>4. /\ Items' = [k \in 1..(n - 1) |-> <<Producer, (Taken + 1) + k>>]
      /\ Enqueued' = [p \in {Producer} |-> Written]
  <2>1. Items' = Pending' /\ Enqueued' = [p \in {Producer} |-> Written']
    BY <1>0, AbstractionAfter DEF Abstracts
  <2>2. Written - (Taken + 1) = n - 1 BY Types, SMT
  <2>3. Pending' = [k \in 1..(Written' - Taken') |-> <<Producer, Taken' + k>>]
    BY DEF Pending
  <2>4. QED BY <1>1, <2>1, <2>2, <2>3
<1>5. /\ Items \in Seq(Entry) /\ Len(Items) = n
      /\ \A k \in 1..n : Items[k] = <<Producer, Taken + k>>
  BY <1>3, PendingSeq
<1>6. Items # <<>> BY <1>2, <1>5
<1>7. Items' = Tail(Items)
  <2> DEFINE t == Tail(Items)
  <2>1. /\ t \in Seq(Entry) /\ Len(t) = n - 1
        /\ \A k \in 1..Len(t) : t[k] = Items[k + 1]
    BY <1>5, <1>6, HeadTailProperties
  <2> HIDE DEF t
  <2>2. \A k \in 1..(n - 1) : t[k] = <<Producer, (Taken + 1) + k>>
    <3>1. TAKE k \in 1..(n - 1)
    <3>2. k + 1 \in 1..n /\ Taken + (k + 1) = (Taken + 1) + k BY <1>2, Types, SMT
    <3>3. QED BY <1>5, <2>1, <3>2
  <2>3. t = [k \in 1..Len(t) |-> t[k]] BY <2>1
  <2>4. QED BY <1>4, <2>1, <2>2, <2>3 DEF t
<1>8. Head(Items) = target
  <2>1. target = <<Producer, Taken + 1>> BY <1>1 DEF IInv, DataInv
  <2>2. 1 \in 1..n BY <1>2, SMT
  <2>3. Items[1] = <<Producer, Taken + 1>> BY <1>5, <2>2
  <2>4. QED BY <1>5, <1>6, <2>1, <2>3
<1>9. Delivered' = [Delivered EXCEPT ![Consumer] = Append(Delivered[Consumer], Head(Items))]
  BY <1>8 DEF StoreReadPos, Delivered
<1>10. Enqueued' = Enqueued BY <1>3, <1>4
<1>11. QED BY <1>6, <1>7, <1>9, <1>10 DEF Fifo!Dequeue
\* Every other step leaves the abstract state alone.
LEMMA OtherStepsStutter ==
  ASSUME IInv, IInv', UNCHANGED <<stores, received>>
  PROVE  UNCHANGED <<Items, Enqueued, Delivered>>
<1>1. Abstracts /\ Abstracts' BY Abstraction, AbstractionAfter
<1>2. Pending' = Pending BY DEF Pending, Written, Taken
<1>3. Enqueued' = Enqueued BY <1>1 DEF Abstracts, Written
<1>4. Delivered' = Delivered BY DEF Delivered
<1>5. QED BY <1>1, <1>2, <1>3, <1>4 DEF Abstracts

\* The ring implements a FIFO buffer of N - 1 messages for any number of cells:
\* nothing is lost, duplicated, reordered or overwritten.
THEOREM RefinesFifo == Spec => ImplementsFifo
<1>1. Init => Fifo!Init
  <2> SUFFICES ASSUME Init PROVE Fifo!Init
    OBVIOUS
  <2>1. IInv BY InitInv
  <2>2. Written = 0 /\ Taken = 0 BY DEF Init, Written, Taken, Threads
  <2>3. Abstracts BY <2>1, Abstraction
  <2>4. Items = <<>>
    <3>1. Len(Items) = 0 /\ Items \in Seq(Entry)
      BY <2>1, <2>2, <2>3, PendingSeq DEF Abstracts
    <3>2. QED BY <3>1
  <2>5. QED BY <2>2, <2>3, <2>4 DEF Init, Fifo!Init, Abstracts, Delivered
<1>2. IInv /\ IInv' /\ [Next]_vars => [Fifo!Next]_(Fifo!vars)
  <2> SUFFICES ASSUME IInv, IInv', [Next]_vars PROVE [Fifo!Next]_(Fifo!vars)
    OBVIOUS
  <2>1. CASE StoreWritePos
    BY <2>1, StoreWritePosEnqueues DEF Fifo!Next
  <2>2. CASE StoreReadPos
    BY <2>2, StoreReadPosDequeues DEF Fifo!Next
  <2>3. CASE UNCHANGED <<stores, received>>
    BY <2>3, OtherStepsStutter DEF Fifo!vars
  <2>4. QED
    BY <2>1, <2>2, <2>3
    DEF Next, Push, Pop, BeginPush, CheckFull, ReloadReadPos, WriteCell, BeginPop,
        CheckEmpty, ReloadWritePos, ReadCell, vars, order, history
<1>3. QED BY <1>1, <1>2, Invariance, PTL DEF Spec, ImplementsFifo, Fifo!Spec
=============================================================================
