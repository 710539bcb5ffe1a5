---------------------------- MODULE HybridBuffer ----------------------------
(***************************************************************************)
(* The message buffer of net/message/buffer.hpp: short messages live in    *)
(* the object, longer ones in a block of the heap.  cursor >= 0 is the     *)
(* size of an inline message; cursor < 0 says that the message is on the   *)
(* heap and has size -cursor - 1.  The inline bytes and the pair (ptr,     *)
(* capacity) share their memory: setting one clears the other here.        *)
(*                                                                         *)
(* An object is a record, a block of the heap its capacity and the bytes   *)
(* written to it so far.  malloc and realloc return any free block and     *)
(* realloc may stay in place; realloc of a block to size 0 frees it and    *)
(* returns nullptr, as glibc does, and a build without assertions goes on. *)
(* Assignment is one action per operator: destructor and placement new run *)
(* in one thread.                                                          *)
(***************************************************************************)
EXTENDS Integers, Sequences, FiniteSets

CONSTANTS
  Objects,           \* the message objects of the program
  Bytes,             \* byte values
  Lengths,           \* lengths a write may have
  Reservations,      \* amounts reserve may be asked for
  Blocks,            \* addresses of heap blocks
  inline_capacity,   \* bytes in the object (58 for the logger)
  MaxSize,           \* bound: longest message
  nullptr,
  Absent             \* an object that does not exist

ASSUME SizeAssumption ==
  /\ inline_capacity \in Nat \ {0}
  /\ Lengths \subseteq Nat
  /\ Reservations \subseteq Nat
  /\ MaxSize \in Nat
  /\ nullptr \notin Blocks
  /\ Absent \notin [cursor : Int, bytes : Seq(Bytes), ptr : Blocks \cup {nullptr},
                    capacity : Nat]
  /\ Absent \notin Seq(Bytes)

VARIABLES
  object,            \* object -> its fields, or Absent
  heap               \* allocated block -> [capacity, bytes]

vars == <<object, heap>>

Live == {o \in Objects : object[o] # Absent}

is_heap(s) == s.cursor < 0

size(s) == IF is_heap(s) THEN -s.cursor - 1 ELSE s.cursor

Larger(m, n)  == IF m >= n THEN m ELSE n
Smaller(m, n) == IF m <= n THEN m ELSE n

\* the first n of the bytes written to a block or an inline buffer
Prefix(bytes, n) == SubSeq(bytes, 1, n)

InlineFields(bytes) ==
  [cursor |-> Len(bytes), bytes |-> bytes, ptr |-> nullptr, capacity |-> 0]

HeapFields(cursor, ptr, capacity) ==
  [cursor |-> cursor, bytes |-> <<>>, ptr |-> ptr, capacity |-> capacity]

Block(capacity, bytes) == [capacity |-> capacity, bytes |-> bytes]

\* what has been written to the memory s points to
Written(s) ==
  IF ~is_heap(s) THEN s.bytes
  ELSE IF s.ptr = nullptr THEN <<>> ELSE heap[s.ptr].bytes

\* finalize(): the message
Content(s) == Prefix(Written(s), size(s))

-----------------------------------------------------------------------------
(* The heap.                                                               *)

Put(h, b, block) == [p \in DOMAIN h \cup {b} |-> IF p = b THEN block ELSE h[p]]

Free(h, b) == [p \in DOMAIN h \ {b} |-> h[p]]

Available(h) == Blocks \ DOMAIN h

\* the heap after the destructor of an object with fields s
Destroyed(s) == IF is_heap(s) THEN Free(heap, s.ptr) ELSE heap

Set(o, s, h) ==
  /\ object' = [object EXCEPT ![o] = s]
  /\ heap' = h

-----------------------------------------------------------------------------
Init ==
  /\ object = [o \in Objects |-> Absent]
  /\ heap = [b \in {} |-> Block(0, <<>>)]

Construct(o) ==
  /\ object[o] = Absent
  /\ Set(o, InlineFields(<<>>), heap)

Destroy(o) ==
  /\ o \in Live
  /\ Set(o, Absent, Destroyed(object[o]))

\* the copy constructor builds o from `other'; h is the heap it finds
CopyConstruct(o, other, h) ==
  LET s == object[other] IN
  \/ /\ is_heap(s)
     /\ \E b \in Available(h) :
          Set(o, HeapFields(s.cursor, b, s.capacity),
              Put(h, b, Block(s.capacity, Content(s))))
  \/ /\ ~is_heap(s)
     /\ Set(o, InlineFields(Content(s)), h)

\* the move constructor builds o from `other' and empties it
MoveConstruct(o, other, h) ==
  /\ object' = [object EXCEPT ![o] = object[other], ![other] = InlineFields(<<>>)]
  /\ heap' = h

Copy(o, other) ==
  /\ object[o] = Absent
  /\ other \in Live
  /\ CopyConstruct(o, other, heap)

Move(o, other) ==
  /\ object[o] = Absent
  /\ other \in Live
  /\ MoveConstruct(o, other, heap)

\* Mutant: the old message is not destroyed before the placement new.
CopyAssignOver(o, other) ==
  /\ {o, other} \subseteq Live
  /\ o # other
  /\ CopyConstruct(o, other, heap)

\* this != &other, destructor, placement new
CopyAssign(o, other) ==
  /\ {o, other} \subseteq Live
  /\ o # other
  /\ CopyConstruct(o, other, Destroyed(object[o]))

MoveAssign(o, other) ==
  /\ {o, other} \subseteq Live
  /\ o # other
  /\ MoveConstruct(o, other, Destroyed(object[o]))

-----------------------------------------------------------------------------
\* memcpy of data behind the first n bytes of block b
WriteAt(h, b, n, data) ==
  [p \in DOMAIN h |-> IF p = b THEN Block(h[p].capacity, Prefix(h[p].bytes, n) \o data)
                     ELSE h[p]]

\* Mutant: the capacity of the block is taken for larger than it is.
WriteInPlaceUnchecked(o, data) ==
  LET s == object[o] IN
  /\ is_heap(s)
  /\ Set(o, [s EXCEPT !.cursor = @ - Len(data)],
         WriteAt(heap, s.ptr, size(s), data))

\* the block has room
WriteInPlace(o, data) ==
  LET s == object[o] IN
  /\ is_heap(s)
  /\ size(s) + Len(data) <= s.capacity
  /\ Set(o, [s EXCEPT !.cursor = @ - Len(data)],
         WriteAt(heap, s.ptr, size(s), data))

\* the heap after realloc has moved the block of s to block b of n bytes
Reallocated(s, b, n) ==
  Put(Free(heap, s.ptr), b, Block(n, Prefix(Written(s), Smaller(n, Len(Written(s))))))

\* resize_heap, then the write
WriteResized(o, data) ==
  LET s == object[o]
      n == size(s) + Len(data)
  IN
  /\ is_heap(s)
  /\ n > s.capacity
  /\ \E b \in Available(Free(heap, s.ptr)) :
       Set(o, HeapFields(s.cursor - Len(data), b, n),
           WriteAt(Reallocated(s, b, n), b, size(s), data))

WriteInline(o, data) ==
  LET s == object[o] IN
  /\ ~is_heap(s)
  /\ size(s) + Len(data) <= inline_capacity
  /\ Set(o, InlineFields(Content(s) \o data), heap)

\* Mutant: the sign of the cursor is changed without the offset of one.
WriteSpilledAtSize(o, data) ==
  LET s == object[o]
      n == size(s) + Len(data)
  IN
  /\ ~is_heap(s)
  /\ n > inline_capacity
  /\ \E b \in Available(heap) :
       Set(o, HeapFields(-n, b, Larger(n, 2 * inline_capacity)),
           Put(heap, b, Block(Larger(n, 2 * inline_capacity), Content(s) \o data)))

\* allocate_heap, then the write
WriteSpilled(o, data) ==
  LET s == object[o]
      n == size(s) + Len(data)
  IN
  /\ ~is_heap(s)
  /\ n > inline_capacity
  /\ \E b \in Available(heap) :
       Set(o, HeapFields(-n - 1, b, Larger(n, 2 * inline_capacity)),
           Put(heap, b, Block(Larger(n, 2 * inline_capacity), Content(s) \o data)))

Write(o, data) ==
  /\ o \in Live
  /\ size(object[o]) + Len(data) <= MaxSize
  /\ \/ WriteInPlace(o, data)
     \/ WriteResized(o, data)
     \/ WriteInline(o, data)
     \/ WriteSpilled(o, data)

\* resize_heap to less than a byte: nothing but the null pointer is left
ReserveNothing(o, n) ==
  LET s == object[o] IN
  /\ is_heap(s)
  /\ s.ptr # nullptr
  /\ size(s) + n = 0
  /\ Set(o, HeapFields(s.cursor, nullptr, 0), Free(heap, s.ptr))

ReserveResized(o, n) ==
  LET s == object[o] IN
  /\ is_heap(s)
  /\ size(s) + n > 0 \/ s.ptr = nullptr
  /\ \E b \in Available(Free(heap, s.ptr)) :
       Set(o, HeapFields(s.cursor, b, size(s) + n),
           Reallocated(s, b, size(s) + n))

ReserveSpilled(o, n) ==
  LET s == object[o] IN
  /\ ~is_heap(s)
  /\ size(s) + n > inline_capacity
  /\ \E b \in Available(heap) :
       Set(o, HeapFields(-size(s) - 1, b, size(s) + n),
           Put(heap, b, Block(size(s) + n, Content(s))))

\* an inline message with room left is not changed
Reserve(o, n) ==
  /\ o \in Live
  /\ \/ ReserveNothing(o, n)
     \/ ReserveResized(o, n)
     \/ ReserveSpilled(o, n)

-----------------------------------------------------------------------------
Data == UNION {{[i \in 1..n |-> b] : b \in Bytes} : n \in Lengths}

Next ==
  \/ \E o \in Objects : Construct(o) \/ Destroy(o)
  \/ \E o, other \in Objects : \/ Copy(o, other)
                               \/ Move(o, other)
                               \/ CopyAssign(o, other)
                               \/ MoveAssign(o, other)
  \/ \E o \in Objects : \/ \E data \in Data : Write(o, data)
                        \/ \E n \in Reservations : Reserve(o, n)

Spec == Init /\ [][Next]_vars

-----------------------------------------------------------------------------
Fields == [cursor : Int, bytes : Seq(Bytes), ptr : Blocks \cup {nullptr},
           capacity : Nat]

\* The types of the state; no message is written past the object's inline
\* capacity, no block past the capacity it was allocated with.
TypeOK ==
  /\ object \in [Objects -> Fields \cup {Absent}]
  /\ DOMAIN heap \subseteq Blocks
  /\ \A b \in DOMAIN heap : /\ heap[b] \in [capacity : Nat, bytes : Seq(Bytes)]
                            /\ Len(heap[b].bytes) <= heap[b].capacity
  /\ \A o \in Live : Len(object[o].bytes) <= inline_capacity

\* The objects whose message is on the heap.
Owners == {o \in Live : is_heap(object[o]) /\ object[o].ptr # nullptr}

\* Every block has exactly one owner: no block is leaked, freed twice or read
\* after it was freed, and the owner knows its capacity.
Ownership ==
  /\ \A b \in DOMAIN heap : \E o \in Owners : object[o].ptr = b
  /\ \A o \in Owners : /\ object[o].ptr \in DOMAIN heap
                       /\ object[o].capacity = heap[object[o].ptr].capacity
  /\ \A o, other \in Owners : object[o].ptr = object[other].ptr => o = other

MessageContent ==
  [o \in Objects |-> IF o \in Live THEN Content(object[o]) ELSE Absent]

Message == INSTANCE MessageValue WITH content <- MessageContent

\* A message is a value: writes append to it, copies are equal and independent,
\* moves empty the source, reserve changes nothing, wherever its bytes are.
ImplementsMessage == Message!Spec
=============================================================================
