------------------------- MODULE HybridBufferProofs -------------------------
(***************************************************************************)
(* Proofs about HybridBuffer for every set of objects and blocks, every    *)
(* inline capacity and every length: messages stay within their memory,    *)
(* every block has exactly one owner, and a buffer is a value.             *)
(***************************************************************************)
EXTENDS HybridBuffer, SequenceTheorems, TLAPS

-----------------------------------------------------------------------------
(* The inductive invariant: size() counts the bytes written to the memory  *)
(* the object points to, and what it does not use is cleared.              *)

Sound(s) ==
  \/ s.cursor >= 0 /\ Len(s.bytes) = s.cursor /\ s.ptr = nullptr
  \/ s.cursor + 1 = 0 /\ s.bytes = <<>> /\ s.ptr = nullptr /\ s.capacity = 0
  \/ /\ s.cursor < 0
     /\ s.bytes = <<>>
     /\ s.ptr \in DOMAIN heap
     /\ Len(heap[s.ptr].bytes) = -s.cursor - 1

SoundInv == \A o \in Live : Sound(object[o])

IInv == TypeOK /\ Ownership /\ SoundInv

-----------------------------------------------------------------------------
LEMMA WholePrefix ==
  ASSUME NEW s \in Seq(Bytes) PROVE Prefix(s, Len(s)) = s
BY SubSeqFull DEF Prefix

LEMMA PrefixType ==
  ASSUME NEW s \in Seq(Bytes), NEW n \in 0..Len(s)
  PROVE  Prefix(s, n) \in Seq(Bytes) /\ Len(Prefix(s, n)) = n
<1>1. \A i \in 1..n : s[i] \in Bytes BY ElementOfSeq, LenProperties
<1>2. QED BY <1>1, SubSeqProperties, LenProperties DEF Prefix

LEMMA InlineType ==
  ASSUME NEW bytes \in Seq(Bytes)
  PROVE  /\ InlineFields(bytes) \in Fields
         /\ InlineFields(bytes) # Absent
BY LenProperties, SizeAssumption DEF InlineFields, Fields

LEMMA HeapType ==
  ASSUME NEW cursor \in Int, NEW b \in Blocks \cup {nullptr}, NEW n \in Nat
  PROVE  /\ HeapFields(cursor, b, n) \in Fields
         /\ HeapFields(cursor, b, n) # Absent
<1>1. <<>> \in Seq(Bytes) BY EmptySeq
<1>2. HeapFields(cursor, b, n) \in Fields BY <1>1 DEF HeapFields, Fields
<1>3. QED BY <1>2, SizeAssumption DEF Fields

-----------------------------------------------------------------------------
(* What a live object tells under the invariant.                           *)

LEMMA LiveObject ==
  ASSUME IInv, NEW o \in Live
  PROVE  /\ o \in Objects
         /\ object[o] \in Fields
         /\ object[o].cursor \in Int
         /\ Written(object[o]) \in Seq(Bytes)
         /\ size(object[o]) = Len(Written(object[o]))
         /\ size(object[o]) \in Nat
         /\ Content(object[o]) = Written(object[o])
         /\ ~is_heap(object[o]) => /\ object[o].bytes = Written(object[o])
                                   /\ size(object[o]) <= inline_capacity
         /\ is_heap(object[o]) => object[o].bytes = <<>>
         /\ is_heap(object[o]) /\ object[o].ptr # nullptr
              => /\ o \in Owners
                 /\ object[o].ptr \in DOMAIN heap
                 /\ object[o].ptr \in Blocks
                 /\ object[o].capacity \in Nat
                 /\ heap[object[o].ptr] = Block(object[o].capacity, Written(object[o]))
                 /\ size(object[o]) <= object[o].capacity
         /\ is_heap(object[o]) /\ object[o].ptr = nullptr
              => /\ Written(object[o]) = <<>>
                 /\ object[o].cursor + 1 = 0
                 /\ object[o].capacity = 0
<1> DEFINE s == object[o]
<1>1. o \in Objects /\ s \in Fields /\ Sound(s)
  BY DEF Live, IInv, TypeOK, SoundInv
<1>2. /\ s.cursor \in Int /\ s.bytes \in Seq(Bytes) /\ s.capacity \in Nat
      /\ s.ptr \in Blocks \cup {nullptr}
  BY <1>1 DEF Fields
<1>3. CASE s.cursor >= 0
  <2>1. ~is_heap(s) /\ Written(s) = s.bytes /\ size(s) = s.cursor
    BY <1>2, <1>3 DEF is_heap, Written, size
  <2>2. Len(s.bytes) = s.cursor BY <1>1, <1>2, <1>3 DEF Sound
  <2>3. Content(s) = Written(s) BY <2>1, <2>2, <1>2, WholePrefix DEF Content
  <2>4. Len(s.bytes) <= inline_capacity BY DEF IInv, TypeOK
  <2>5. QED BY <1>1, <1>2, <1>3, <2>1, <2>2, <2>3, <2>4
<1>4. CASE s.cursor < 0 /\ s.ptr = nullptr
  <2>1. is_heap(s) /\ Written(s) = <<>> BY <1>2, <1>4 DEF is_heap, Written
  <2>2. s.cursor + 1 = 0 /\ s.capacity = 0 /\ s.bytes = <<>>
    <3>1. nullptr \notin DOMAIN heap BY SizeAssumption DEF IInv, TypeOK
    <3>2. QED BY <3>1, <1>1, <1>2, <1>4 DEF Sound
  <2>3. <<>> \in Seq(Bytes) /\ Len(<<>>) = 0 BY EmptySeq
  <2>4. size(s) = 0 BY <1>2, <2>2 DEF size, is_heap
  <2>5. Content(s) = Written(s) BY <2>1, <2>3, <2>4, WholePrefix DEF Content
  <2>6. QED BY <1>1, <1>2, <2>1, <2>2, <2>3, <2>4, <2>5, <1>4
<1>5. CASE s.cursor < 0 /\ s.ptr # nullptr
  <2>1. is_heap(s) /\ Written(s) = heap[s.ptr].bytes /\ size(s) = -s.cursor - 1
    BY <1>2, <1>5 DEF is_heap, Written, size
  <2>2. /\ s.ptr \in DOMAIN heap /\ Len(heap[s.ptr].bytes) = -s.cursor - 1
        /\ s.bytes = <<>>
    BY <1>1, <1>2, <1>5 DEF Sound
  <2>3. o \in Owners BY <2>1, <1>5 DEF Owners
  <2>4. /\ heap[s.ptr] \in [capacity : Nat, bytes : Seq(Bytes)]
        /\ Len(heap[s.ptr].bytes) <= heap[s.ptr].capacity
    BY <2>2 DEF IInv, TypeOK
  <2>5. s.capacity = heap[s.ptr].capacity BY <2>3 DEF IInv, Ownership
  <2>6. Content(s) = Written(s) BY <2>1, <2>2, <2>4, WholePrefix DEF Content
  <2>7. heap[s.ptr] = Block(s.capacity, Written(s))
    BY <2>1, <2>4, <2>5 DEF Block
  <2>8. QED
    BY <1>1, <1>2, <1>5, <2>1, <2>2, <2>3, <2>4, <2>5, <2>6, <2>7
<1>6. QED BY <1>2, <1>3, <1>4, <1>5

\* the block the destructor of o frees, if any
OldBlock(o) ==
  IF o \in Live /\ is_heap(object[o]) THEN {object[o].ptr} ELSE {}

\* Another object's block is not the old block of o.
LEMMA NotShared ==
  ASSUME IInv, NEW o \in Objects, NEW u \in Owners, u # o
  PROVE  object[u].ptr \notin OldBlock(o)
<1>1. CASE o \in Owners BY <1>1 DEF IInv, Ownership, OldBlock
<1>2. CASE o \notin Owners BY <1>2 DEF Owners, OldBlock
<1>3. QED BY <1>1, <1>2

-----------------------------------------------------------------------------
(* A step that gives object o the fields s and frees its old block.  Every  *)
(* action but the moves is one, with or without a new block.                *)

\* the value of an object whose bytes are known
Value(s, bytes) == IF s = Absent THEN Absent ELSE bytes

\* fields that own no block and hold bytes
Blockless(s, bytes) ==
  \/ s = Absent
  \/ s = InlineFields(bytes) /\ Len(bytes) <= inline_capacity
  \/ \E cursor \in Int : /\ cursor + 1 = 0
                          /\ s = HeapFields(cursor, nullptr, 0)
                          /\ bytes = <<>>

LEMMA WithoutBlock ==
  ASSUME IInv, NEW o \in Objects, NEW s, NEW bytes \in Seq(Bytes),
         Blockless(s, bytes),
         object' = [object EXCEPT ![o] = s],
         DOMAIN heap' = DOMAIN heap \ OldBlock(o),
         \A p \in DOMAIN heap' : heap'[p] = heap[p]
  PROVE  /\ IInv'
         /\ MessageContent' = [MessageContent EXCEPT ![o] = Value(s, bytes)]
<1>1. /\ object \in [Objects -> Fields \cup {Absent}]
      /\ DOMAIN heap \subseteq Blocks
  BY DEF IInv, TypeOK
<1>2. s \in Fields \cup {Absent} BY InlineType, HeapType DEF Blockless
<1>3. object' \in [Objects -> Fields \cup {Absent}] BY <1>1, <1>2
<1>4. \A u \in Objects : object'[u] = IF u = o THEN s ELSE object[u]
  BY <1>1
<1>5. /\ Live' \subseteq Objects
      /\ o \in Live' <=> s # Absent
      /\ \A u \in Objects \ {o} : u \in Live' <=> u \in Live
  BY <1>4 DEF Live
<1>6. ASSUME s # Absent
      PROVE  /\ s.cursor \in Int /\ s.bytes \in Seq(Bytes)
             /\ Len(s.bytes) <= inline_capacity
             /\ Sound(s)'
             /\ Written(s)' = bytes
             /\ size(s) = Len(bytes)
             /\ is_heap(s) => s.ptr = nullptr
  <2>1. CASE s = InlineFields(bytes) /\ Len(bytes) <= inline_capacity
    <3>1. s.cursor = Len(bytes) /\ s.bytes = bytes /\ s.ptr = nullptr
      BY <2>1 DEF InlineFields
    <3>2. Len(bytes) \in Nat BY LenProperties
    <3>3. QED BY <2>1, <3>1, <3>2 DEF Sound, Written, size, is_heap
  <2>2. CASE \E cursor \in Int : /\ cursor + 1 = 0
                                 /\ s = HeapFields(cursor, nullptr, 0)
                                 /\ bytes = <<>>
    <3>1. s.cursor + 1 = 0 /\ s.cursor \in Int /\ s.bytes = <<>> /\ s.ptr = nullptr /\ s.capacity = 0
      BY <2>2 DEF HeapFields
    <3>2. <<>> \in Seq(Bytes) /\ Len(<<>>) = 0 BY EmptySeq
    <3>3. is_heap(s) /\ size(s) = 0 BY <3>1 DEF size, is_heap
    <3>4. Written(s)' = bytes BY <2>2, <3>1, <3>3 DEF Written, is_heap
    <3>5. Sound(s)' BY <3>1 DEF Sound
    <3>6. bytes = <<>> /\ inline_capacity \in Nat BY <2>2, SizeAssumption
    <3>7. 0 <= inline_capacity BY <3>6
    <3>8. /\ s.bytes \in Seq(Bytes) /\ Len(s.bytes) <= inline_capacity
          /\ size(s) = Len(bytes)
      BY <3>1, <3>2, <3>3, <3>6, <3>7
    <3>9. QED BY <3>1, <3>4, <3>5, <3>8
  <2>3. QED BY <1>6, <2>1, <2>2 DEF Blockless
<1>7. /\ Owners' \subseteq Objects
      /\ \A u \in Objects : u \in Owners' <=> u \in Owners /\ u # o
      /\ \A u \in Owners' : object'[u] = object[u]
  BY <1>4, <1>5, <1>6 DEF Owners, Live, is_heap
<1>8. ASSUME NEW u \in Owners'
      PROVE  object[u].ptr \in DOMAIN heap' /\ heap'[object[u].ptr] = heap[object[u].ptr]
  <2>1. u \in Owners /\ u # o BY <1>7
  <2>2. object[u].ptr \in DOMAIN heap BY <2>1 DEF IInv, Ownership
  <2>3. QED BY <2>1, <2>2, NotShared
<1>9. TypeOK'
  <2>1. DOMAIN heap' \subseteq DOMAIN heap OBVIOUS
  <2>2. \A u \in Live' : Len(object'[u].bytes) <= inline_capacity
    BY <1>4, <1>5, <1>6 DEF IInv, TypeOK
  <2>3. QED BY <1>3, <2>1, <2>2 DEF IInv, TypeOK, Fields
<1>10. Ownership'
  <2>1. ASSUME NEW b \in DOMAIN heap' PROVE \E u \in Owners' : object'[u].ptr = b
    <3>1. PICK u \in Owners : object[u].ptr = b BY DEF IInv, Ownership
    <3>2. u # o BY <3>1 DEF OldBlock, Owners
    <3>3. QED BY <3>1, <3>2, <1>7 DEF Owners, Live
  <2>2. QED BY <2>1, <1>7, <1>8 DEF IInv, Ownership
<1>11. ASSUME NEW u \in Objects, u \in Live', u # o
       PROVE  /\ u \in Live
              /\ Sound(object[u])'
              /\ Written(object[u])' = Written(object[u])
              /\ size(object[u])' = size(object[u])
  <2>1. u \in Live /\ object'[u] = object[u] BY <1>4, <1>5, <1>11
  <2>2. Sound(object[u]) BY <2>1 DEF IInv, SoundInv
  <2>3. CASE u \in Owners'
    BY <2>1, <2>2, <2>3, <1>8 DEF Sound, Written, size, is_heap
  <2>4. CASE u \notin Owners'
    <3>1. ~is_heap(object[u]) \/ object[u].ptr = nullptr
      BY <2>1, <2>4, <1>7, <1>11 DEF Owners
    <3>2. nullptr \notin DOMAIN heap /\ nullptr \notin DOMAIN heap'
      BY <1>1, SizeAssumption
    <3>3. object[u].cursor \in Int BY <2>1, LiveObject
    <3>4. QED BY <2>1, <2>2, <3>1, <3>2, <3>3 DEF Sound, Written, size, is_heap
  <2>5. QED BY <2>3, <2>4
<1>12. SoundInv' BY <1>4, <1>5, <1>6, <1>11 DEF SoundInv
<1>13. ASSUME NEW u \in Objects
       PROVE  MessageContent'[u] = IF u = o THEN Value(s, bytes) ELSE MessageContent[u]
  <2>1. CASE u = o /\ s = Absent
    BY <2>1, <1>5 DEF MessageContent, Value
  <2>2. CASE u = o /\ s # Absent
    <3>1. Content(object[o])' = bytes BY <2>2, <1>4, <1>6, WholePrefix DEF Content, size, is_heap
    <3>2. QED BY <2>2, <3>1, <1>5 DEF MessageContent, Value
  <2>3. CASE u # o /\ u \in Live'
    <3>1. Content(object[u])' = Content(object[u]) BY <2>3, <1>11 DEF Content
    <3>2. QED BY <2>3, <3>1, <1>11 DEF MessageContent
  <2>4. CASE u # o /\ u \notin Live'
    BY <2>4, <1>5 DEF MessageContent
  <2>5. QED BY <2>1, <2>2, <2>3, <2>4
<1>14. MessageContent' = [MessageContent EXCEPT ![o] = Value(s, bytes)]
  BY <1>13 DEF MessageContent
<1>15. QED BY <1>9, <1>10, <1>12, <1>14 DEF IInv

LEMMA WithBlock ==
  ASSUME IInv, NEW o \in Objects, NEW s, NEW bytes \in Seq(Bytes),
         NEW b \in Blocks, NEW n \in Nat, NEW cursor \in Int,
         b \notin DOMAIN heap \ OldBlock(o),
         Len(bytes) <= n,
         cursor + 1 + Len(bytes) = 0,
         s = HeapFields(cursor, b, n),
         object' = [object EXCEPT ![o] = s],
         DOMAIN heap' = (DOMAIN heap \ OldBlock(o)) \cup {b},
         heap'[b] = Block(n, bytes),
         \A p \in DOMAIN heap' \ {b} : heap'[p] = heap[p]
  PROVE  /\ IInv'
         /\ MessageContent' = [MessageContent EXCEPT ![o] = bytes]
<1>1. /\ object \in [Objects -> Fields \cup {Absent}]
      /\ DOMAIN heap \subseteq Blocks
  BY DEF IInv, TypeOK
<1>2. s \in Fields /\ s # Absent BY HeapType
<1>3. object' \in [Objects -> Fields \cup {Absent}] BY <1>1, <1>2
<1>4. \A u \in Objects : object'[u] = IF u = o THEN s ELSE object[u]
  BY <1>1
<1>5. /\ Live' \subseteq Objects
      /\ o \in Live'
      /\ \A u \in Objects \ {o} : u \in Live' <=> u \in Live
  BY <1>2, <1>4 DEF Live
<1>6. /\ s.cursor = cursor /\ s.bytes = <<>> /\ s.ptr = b /\ s.capacity = n
      /\ heap'[b].capacity = n /\ heap'[b].bytes = bytes
  BY DEF HeapFields, Block
<1>7. /\ Len(bytes) \in Nat /\ <<>> \in Seq(Bytes) /\ Len(<<>>) = 0
      /\ b # nullptr
  BY LenProperties, EmptySeq, SizeAssumption
<1>8. /\ is_heap(s) /\ size(s) = Len(bytes)
      /\ Written(s)' = bytes
      /\ Sound(s)'
  BY <1>6, <1>7 DEF is_heap, size, Written, Sound
<1>9. /\ o \in Owners'
      /\ \A u \in Objects \ {o} : u \in Owners' <=> u \in Owners
      /\ \A u \in Owners' : u # o => object'[u] = object[u]
      /\ Owners' \subseteq Objects
  BY <1>4, <1>5, <1>6, <1>7, <1>8 DEF Owners, is_heap
<1>10. ASSUME NEW u \in Owners', u # o
       PROVE  /\ u \in Owners
              /\ object'[u] = object[u]
              /\ object[u].ptr \in DOMAIN heap'
              /\ object[u].ptr # b
              /\ heap'[object[u].ptr] = heap[object[u].ptr]
  <2>1. u \in Owners /\ object'[u] = object[u] BY <1>9, <1>10
  <2>2. object[u].ptr \in DOMAIN heap BY <2>1 DEF IInv, Ownership
  <2>3. QED BY <1>10, <2>1, <2>2, NotShared
<1>11. TypeOK'
  <2>1. \A p \in DOMAIN heap' : /\ heap'[p] \in [capacity : Nat, bytes : Seq(Bytes)]
                                /\ Len(heap'[p].bytes) <= heap'[p].capacity
    BY <1>6 DEF IInv, TypeOK, Block
  <2>2. \A u \in Live' : Len(object'[u].bytes) <= inline_capacity
    BY <1>4, <1>5, <1>6, <1>7, SizeAssumption DEF IInv, TypeOK
  <2>3. QED BY <1>1, <1>3, <2>1, <2>2 DEF TypeOK, Fields
<1>12. Ownership'
  <2>1. ASSUME NEW p \in DOMAIN heap' PROVE \E u \in Owners' : object'[u].ptr = p
    <3>1. CASE p = b BY <3>1, <1>4, <1>6, <1>9
    <3>2. CASE p # b
      <4>1. PICK u \in Owners : object[u].ptr = p BY <3>2 DEF IInv, Ownership
      <4>2. u # o BY <3>2, <4>1 DEF OldBlock, Owners
      <4>3. QED BY <4>1, <4>2, <1>9 DEF Owners, Live
    <3>3. QED BY <3>1, <3>2
  <2>2. ASSUME NEW u \in Owners'
        PROVE  /\ object'[u].ptr \in DOMAIN heap'
               /\ object'[u].capacity = heap'[object'[u].ptr].capacity
    <3>1. CASE u = o BY <3>1, <1>4, <1>6
    <3>2. CASE u # o BY <3>2, <1>10 DEF IInv, Ownership
    <3>3. QED BY <3>1, <3>2
  <2>3. ASSUME NEW u \in Owners', NEW v \in Owners', object'[u].ptr = object'[v].ptr
        PROVE  u = v
    <3>1. object'[o].ptr = b BY <1>4, <1>6
    <3>2. CASE u = o \/ v = o BY <3>1, <3>2, <2>3, <1>10
    <3>3. CASE u # o /\ v # o BY <3>3, <2>3, <1>10 DEF IInv, Ownership
    <3>4. QED BY <3>2, <3>3
  <2>4. QED BY <2>1, <2>2, <2>3 DEF Ownership
<1>13. ASSUME NEW u \in Objects, u \in Live', u # o
       PROVE  /\ u \in Live
              /\ Sound(object[u])'
              /\ Written(object[u])' = Written(object[u])
              /\ size(object[u])' = size(object[u])
  <2>1. u \in Live /\ object'[u] = object[u] BY <1>4, <1>5, <1>13
  <2>2. Sound(object[u]) BY <2>1 DEF IInv, SoundInv
  <2>3. CASE u \in Owners'
    BY <2>1, <2>2, <2>3, <1>10, <1>13 DEF Sound, Written, size, is_heap
  <2>4. CASE u \notin Owners'
    <3>1. ~is_heap(object[u]) \/ object[u].ptr = nullptr
      BY <2>1, <2>4, <1>9, <1>13 DEF Owners
    <3>2. nullptr \notin DOMAIN heap /\ nullptr \notin DOMAIN heap'
      BY <1>1, SizeAssumption
    <3>3. object[u].cursor \in Int BY <2>1, LiveObject
    <3>4. QED BY <2>1, <2>2, <3>1, <3>2, <3>3 DEF Sound, Written, size, is_heap
  <2>5. QED BY <2>3, <2>4
<1>14. SoundInv' BY <1>4, <1>5, <1>8, <1>13 DEF SoundInv
<1>15. ASSUME NEW u \in Objects
       PROVE  MessageContent'[u] = IF u = o THEN bytes ELSE MessageContent[u]
  <2>1. CASE u = o
    <3>1. Content(object[o])' = bytes BY <1>4, <1>8, WholePrefix DEF Content, size, is_heap
    <3>2. QED BY <2>1, <3>1, <1>5 DEF MessageContent
  <2>2. CASE u # o /\ u \in Live'
    <3>1. Content(object[u])' = Content(object[u]) BY <2>2, <1>13 DEF Content
    <3>2. QED BY <2>2, <3>1, <1>13 DEF MessageContent
  <2>3. CASE u # o /\ u \notin Live'
    BY <2>3, <1>5 DEF MessageContent
  <2>4. QED BY <2>1, <2>2, <2>3
<1>16. MessageContent' = [MessageContent EXCEPT ![o] = bytes]
  BY <1>15 DEF MessageContent
<1>17. QED BY <1>11, <1>12, <1>14, <1>16 DEF IInv

\* A step that moves the message of `other' into object o, whose old block is
\* freed, and empties `other'.
LEMMA Moved ==
  ASSUME IInv, NEW o \in Objects, NEW other \in Live, o # other,
         object' = [object EXCEPT ![o] = object[other],
                                  ![other] = InlineFields(<<>>)],
         DOMAIN heap' = DOMAIN heap \ OldBlock(o),
         \A p \in DOMAIN heap' : heap'[p] = heap[p]
  PROVE  /\ IInv'
         /\ MessageContent' = [MessageContent EXCEPT ![o] = MessageContent[other],
                                                     ![other] = <<>>]
<1> DEFINE t == InlineFields(<<>>)
<1>1. /\ object \in [Objects -> Fields \cup {Absent}]
      /\ DOMAIN heap \subseteq Blocks
  BY DEF IInv, TypeOK
<1>2. <<>> \in Seq(Bytes) /\ Len(<<>>) = 0 BY EmptySeq
<1>3. /\ t \in Fields /\ t # Absent
      /\ t.cursor = 0 /\ t.bytes = <<>> /\ t.ptr = nullptr
  BY <1>2, InlineType DEF InlineFields
<1>4. other \in Objects /\ object[other] \in Fields /\ object[other] # Absent
  BY LiveObject DEF Live
<1>5. object' \in [Objects -> Fields \cup {Absent}] BY <1>1, <1>3, <1>4
<1>6. \A u \in Objects : object'[u] = CASE u = o -> object[other]
                                        [] u = other -> t
                                        [] OTHER -> object[u]
  BY <1>1
<1>7. /\ Live' \subseteq Objects /\ o \in Live' /\ other \in Live'
      /\ \A u \in Objects \ {o, other} : u \in Live' <=> u \in Live
  BY <1>3, <1>4, <1>6 DEF Live
<1>8. /\ ~is_heap(t) /\ size(t) = 0 /\ Written(t)' = <<>> /\ Sound(t)'
  BY <1>2, <1>3 DEF is_heap, size, Written, Sound
\* where the message of an object of the new state was before
<1> DEFINE Origin(u) == IF u = o THEN other ELSE u
<1>9. \A u \in Objects \ {other} : /\ Origin(u) \in Objects
                                   /\ Origin(u) # o
                                   /\ object'[u] = object[Origin(u)]
                                   /\ u \in Live' <=> Origin(u) \in Live
  BY <1>4, <1>6, <1>7
<1>10. \A u, v \in Objects \ {other} : Origin(u) = Origin(v) => u = v
  BY DEF Origin
<1>11. /\ other \notin Owners'
       /\ Owners' \subseteq Objects
       /\ \A u \in Objects \ {other} : u \in Owners' <=> Origin(u) \in Owners
  BY <1>6, <1>7, <1>8, <1>9, <1>4 DEF Owners, is_heap
<1> HIDE DEF t, Origin
<1>12. ASSUME NEW u \in Owners'
       PROVE  /\ u \in Objects \ {other}
              /\ Origin(u) \in Owners
              /\ object'[u] = object[Origin(u)]
              /\ object'[u].ptr \in DOMAIN heap'
              /\ heap'[object'[u].ptr] = heap[object'[u].ptr]
  <2>1. u \in Objects \ {other} BY <1>11
  <2>2. Origin(u) \in Owners /\ Origin(u) # o /\ object'[u] = object[Origin(u)]
    BY <2>1, <1>9, <1>11
  <2>3. object[Origin(u)].ptr \in DOMAIN heap BY <2>2 DEF IInv, Ownership
  <2>4. object[Origin(u)].ptr \notin OldBlock(o) BY <2>2, NotShared
  <2>5. QED BY <2>1, <2>2, <2>3, <2>4
<1>13. TypeOK'
  <2>1. DOMAIN heap' \subseteq DOMAIN heap OBVIOUS
  <2>2. ASSUME NEW u \in Live' PROVE Len(object'[u].bytes) <= inline_capacity
    <3>1. CASE u = other
      <4>1. object'[u] = t BY <3>1, <1>4, <1>6
      <4>2. Len(t.bytes) = 0 BY <1>2, <1>3
      <4>3. 0 <= inline_capacity BY SizeAssumption
      <4>4. QED BY <4>1, <4>2, <4>3
    <3>2. CASE u # other BY <3>2, <1>7, <1>9 DEF IInv, TypeOK
    <3>3. QED BY <3>1, <3>2
  <2>3. QED BY <1>5, <2>1, <2>2 DEF IInv, TypeOK, Fields
<1>14. Ownership'
  <2>1. ASSUME NEW p \in DOMAIN heap' PROVE \E u \in Owners' : object'[u].ptr = p
    <3>1. PICK v \in Owners : object[v].ptr = p BY DEF IInv, Ownership
    <3>2. v # o BY <3>1 DEF OldBlock, Owners
    <3>3. PICK u \in Objects \ {other} : Origin(u) = v
      BY <3>2 DEF Origin, Owners, Live
    <3>4. QED BY <3>1, <3>3, <1>9, <1>11
  <2>2. ASSUME NEW u \in Owners'
        PROVE  /\ object'[u].ptr \in DOMAIN heap'
               /\ object'[u].capacity = heap'[object'[u].ptr].capacity
    <3>1. object[Origin(u)].capacity = heap[object[Origin(u)].ptr].capacity
      BY <1>12 DEF IInv, Ownership
    <3>2. QED BY <3>1, <1>12
  <2>3. ASSUME NEW u \in Owners', NEW v \in Owners', object'[u].ptr = object'[v].ptr
        PROVE  u = v
    <3>1. Origin(u) = Origin(v) BY <1>12, <2>3 DEF IInv, Ownership
    <3>2. QED BY <3>1, <1>10, <1>12
  <2>4. QED BY <2>1, <2>2, <2>3 DEF Ownership
<1>15. ASSUME NEW u \in Objects \ {other}, u \in Live'
       PROVE  /\ Origin(u) \in Live
              /\ Sound(object[u])'
              /\ Content(object[u])' = Content(object[Origin(u)])
  <2>1. PICK s : s = object[Origin(u)] OBVIOUS
  <2>2. Origin(u) \in Live /\ object'[u] = s BY <2>1, <1>9, <1>15
  <2>3. Sound(s) BY <2>1, <2>2 DEF IInv, SoundInv
  <2>4. Sound(s)' /\ Written(s)' = Written(s)
    <3>1. CASE u \in Owners'
      <4>1. s.ptr \in DOMAIN heap' /\ heap'[s.ptr] = heap[s.ptr]
        BY <2>1, <2>2, <3>1, <1>12
      <4>2. QED BY <2>3, <4>1 DEF Sound, Written, is_heap
    <3>2. CASE u \notin Owners'
      <4>1. ~is_heap(s) \/ s.ptr = nullptr
        BY <2>1, <2>2, <3>2, <1>11 DEF Owners
      <4>2. nullptr \notin DOMAIN heap /\ nullptr \notin DOMAIN heap'
        BY <1>1, SizeAssumption
      <4>3. s.cursor \in Int BY <2>1, <2>2, LiveObject
      <4>4. QED BY <2>3, <4>1, <4>2, <4>3 DEF Sound, Written, is_heap
    <3>3. QED BY <3>1, <3>2
  <2>5. Content(s)' = Content(s) BY <2>4 DEF Content, size, is_heap
  <2>6. QED BY <2>1, <2>2, <2>4, <2>5
<1>16. SoundInv'
  <2>1. ASSUME NEW u \in Live' PROVE Sound(object[u])'
    <3>1. CASE u = other BY <3>1, <1>4, <1>6, <1>8
    <3>2. CASE u # other BY <3>2, <1>7, <1>15
    <3>3. QED BY <3>1, <3>2
  <2>2. QED BY <2>1 DEF SoundInv
<1>17. ASSUME NEW u \in Objects
       PROVE  MessageContent'[u] = CASE u = o -> MessageContent[other]
                                     [] u = other -> <<>>
                                     [] OTHER -> MessageContent[u]
  <2>1. CASE u = other
    <3>1. object'[other] = t BY <1>4, <1>6
    <3>2. Content(object[other])' = <<>>
      BY <3>1, <1>8, <1>2, WholePrefix DEF Content, size, is_heap
    <3>3. QED BY <2>1, <3>2, <1>7 DEF MessageContent
  <2>2. CASE u # other /\ u \in Live'
    <3>1. Origin(u) \in Live /\ Content(object[u])' = Content(object[Origin(u)])
      BY <2>2, <1>15
    <3>2. MessageContent'[u] = MessageContent[Origin(u)]
      BY <2>2, <3>1, <1>9 DEF MessageContent
    <3>3. QED BY <2>2, <3>2 DEF Origin
  <2>3. CASE u # other /\ u \notin Live'
    BY <2>3, <1>7, <1>9 DEF MessageContent, Origin
  <2>4. QED BY <2>1, <2>2, <2>3
<1>18. MessageContent' = [MessageContent EXCEPT ![o] = MessageContent[other],
                                               ![other] = <<>>]
  BY <1>4, <1>17 DEF MessageContent
<1>19. QED BY <1>13, <1>14, <1>16, <1>18 DEF IInv

-----------------------------------------------------------------------------
(* The actions.                                                            *)

LEMMA DataType ==
  ASSUME NEW data \in Data PROVE data \in Seq(Bytes) /\ Len(data) \in Nat
<1>1. PICK n \in Lengths, b \in Bytes : data = [i \in 1..n |-> b] BY DEF Data
<1>2. n \in Nat BY SizeAssumption
<1>3. data \in [1..n -> Bytes] BY <1>1
<1>4. data \in Seq(Bytes) BY <1>2, <1>3, SeqDef
<1>5. QED BY <1>4, LenProperties

\* the objects the abstract specification knows, and their bytes
LEMMA LiveContent ==
  ASSUME IInv
  PROVE  /\ Message!Constructed = Live
         /\ \A o \in Live : MessageContent[o] = Written(object[o])
<1>1. \A o \in Live : o \in Objects /\ MessageContent[o] = Written(object[o])
  BY LiveObject DEF MessageContent
<1>2. \A o \in Live : MessageContent[o] # Absent
  BY <1>1, LiveObject, SizeAssumption
<1>3. \A o \in Objects \ Live : MessageContent[o] = Absent
  BY DEF MessageContent
<1>4. QED BY <1>1, <1>2, <1>3 DEF Message!Constructed

\* what the destructor leaves
LEMMA AfterDestructor ==
  ASSUME NEW o \in Live
  PROVE  /\ DOMAIN Destroyed(object[o]) = DOMAIN heap \ OldBlock(o)
         /\ \A p \in DOMAIN Destroyed(object[o]) : Destroyed(object[o])[p] = heap[p]
BY DEF Destroyed, OldBlock, Free

LEMMA ConstructStep ==
  ASSUME IInv, NEW o \in Objects, Construct(o)
  PROVE  IInv' /\ Message!Construct(o)
<1>1. OldBlock(o) = {} /\ o \notin Live BY DEF Construct, OldBlock, Live
<1>2. <<>> \in Seq(Bytes) /\ Blockless(InlineFields(<<>>), <<>>)
  <2>1. Len(<<>>) = 0 /\ <<>> \in Seq(Bytes) BY EmptySeq
  <2>2. 0 <= inline_capacity BY SizeAssumption
  <2>3. QED BY <2>1, <2>2 DEF Blockless
<1>3. /\ object' = [object EXCEPT ![o] = InlineFields(<<>>)]
      /\ heap' = heap
  BY DEF Construct, Set
<1>4. /\ IInv'
      /\ MessageContent' = [MessageContent EXCEPT ![o] = Value(InlineFields(<<>>), <<>>)]
  BY <1>1, <1>2, <1>3, WithoutBlock
<1>5. MessageContent[o] = Absent BY <1>1 DEF MessageContent
<1>6. QED BY <1>2, <1>4, <1>5, InlineType DEF Value, Message!Construct

LEMMA DestroyStep ==
  ASSUME IInv, NEW o \in Objects, Destroy(o)
  PROVE  IInv' /\ Message!Destroy(o)
<1>1. o \in Live BY DEF Destroy
<1>2. <<>> \in Seq(Bytes) /\ Blockless(Absent, <<>>) BY EmptySeq DEF Blockless
<1>3. /\ object' = [object EXCEPT ![o] = Absent]
      /\ heap' = Destroyed(object[o])
  BY DEF Destroy, Set
<1>4. /\ IInv'
      /\ MessageContent' = [MessageContent EXCEPT ![o] = Value(Absent, <<>>)]
  BY <1>1, <1>2, <1>3, AfterDestructor, WithoutBlock
<1>5. QED BY <1>1, <1>4, LiveContent DEF Value, Message!Destroy

LEMMA CopyBuilt ==
  ASSUME IInv, NEW o \in Objects, NEW other \in Live, NEW h,
         DOMAIN h = DOMAIN heap \ OldBlock(o),
         \A p \in DOMAIN h : h[p] = heap[p],
         CopyConstruct(o, other, h)
  PROVE  IInv' /\ Message!Copy(o, other)
<1>1. PICK s, bytes : s = object[other] /\ bytes = Written(s) OBVIOUS
<1>2. /\ s \in Fields /\ s.cursor \in Int /\ s.capacity \in Nat
      /\ bytes \in Seq(Bytes) /\ size(s) = Len(bytes) /\ Content(s) = bytes
      /\ ~is_heap(s) => Len(bytes) <= inline_capacity
      /\ is_heap(s) => Len(bytes) <= s.capacity
  <2>1. s.capacity \in Nat BY <1>1, LiveObject DEF Fields
  <2>2. Len(<<>>) = 0 BY EmptySeq
  <2>3. QED BY <1>1, <2>1, <2>2, LiveObject
<1>3. CASE is_heap(s)
  <2>1. PICK b \in Available(h) :
          Set(o, HeapFields(s.cursor, b, s.capacity), Put(h, b, Block(s.capacity, bytes)))
    BY <1>1, <1>2, <1>3 DEF CopyConstruct
  <2>2. s.cursor + 1 + Len(bytes) = 0
    BY <1>2, <1>3, LenProperties DEF size, is_heap
  <2>3. b \in Blocks /\ b \notin DOMAIN heap \ OldBlock(o)
    BY <2>1 DEF Available
  <2>4. /\ object' = [object EXCEPT ![o] = HeapFields(s.cursor, b, s.capacity)]
        /\ DOMAIN heap' = (DOMAIN heap \ OldBlock(o)) \cup {b}
        /\ heap'[b] = Block(s.capacity, bytes)
        /\ \A p \in DOMAIN heap' \ {b} : heap'[p] = heap[p]
    BY <2>1 DEF Set, Put
  <2>5. IInv' /\ MessageContent' = [MessageContent EXCEPT ![o] = bytes]
    BY <1>2, <1>3, <2>2, <2>3, <2>4, WithBlock
  <2>6. QED BY <1>1, <2>5, LiveContent DEF Message!Copy
<1>4. CASE ~is_heap(s)
  <2>1. /\ object' = [object EXCEPT ![o] = InlineFields(bytes)]
        /\ heap' = h
    BY <1>1, <1>2, <1>4 DEF CopyConstruct, Set
  <2>2. /\ bytes \in Seq(Bytes)
        /\ Blockless(InlineFields(bytes), bytes)
        /\ DOMAIN heap' = DOMAIN heap \ OldBlock(o)
        /\ \A p \in DOMAIN heap' : heap'[p] = heap[p]
    BY <1>2, <1>4, <2>1 DEF Blockless
  <2>3. /\ IInv'
        /\ MessageContent' = [MessageContent EXCEPT ![o] = Value(InlineFields(bytes), bytes)]
    BY <2>1, <2>2, WithoutBlock
  <2>4. QED BY <1>1, <1>2, <2>3, InlineType, LiveContent DEF Value, Message!Copy
<1>5. QED BY <1>3, <1>4

LEMMA MoveBuilt ==
  ASSUME IInv, NEW o \in Objects, NEW other \in Live, o # other, NEW h,
         DOMAIN h = DOMAIN heap \ OldBlock(o),
         \A p \in DOMAIN h : h[p] = heap[p],
         MoveConstruct(o, other, h)
  PROVE  IInv' /\ Message!Move(o, other)
<1>1. /\ IInv'
      /\ MessageContent' = [MessageContent EXCEPT ![o] = MessageContent[other],
                                                 ![other] = <<>>]
  BY Moved DEF MoveConstruct
<1>2. QED BY <1>1, LiveContent DEF Message!Move

LEMMA CopyStep ==
  ASSUME IInv, NEW o \in Objects, NEW other \in Objects, Copy(o, other)
  PROVE  IInv' /\ Message!Copy(o, other)
<1>1. other \in Live /\ OldBlock(o) = {} BY DEF Copy, OldBlock, Live
<1>2. CopyConstruct(o, other, heap) BY DEF Copy
<1>3. QED BY <1>1, <1>2, CopyBuilt

LEMMA CopyAssignStep ==
  ASSUME IInv, NEW o \in Objects, NEW other \in Objects, CopyAssign(o, other)
  PROVE  IInv' /\ Message!Copy(o, other)
<1>1. o \in Live /\ other \in Live BY DEF CopyAssign
<1>2. CopyConstruct(o, other, Destroyed(object[o])) BY DEF CopyAssign
<1>3. QED BY <1>1, <1>2, AfterDestructor, CopyBuilt

LEMMA MoveStep ==
  ASSUME IInv, NEW o \in Objects, NEW other \in Objects, Move(o, other)
  PROVE  IInv' /\ Message!Move(o, other)
<1>1. other \in Live /\ o # other /\ OldBlock(o) = {}
  BY DEF Move, OldBlock, Live
<1>2. MoveConstruct(o, other, heap) BY DEF Move
<1>3. QED BY <1>1, <1>2, MoveBuilt

LEMMA MoveAssignStep ==
  ASSUME IInv, NEW o \in Objects, NEW other \in Objects, MoveAssign(o, other)
  PROVE  IInv' /\ Message!Move(o, other)
<1>1. o \in Live /\ other \in Live /\ o # other BY DEF MoveAssign
<1>2. MoveConstruct(o, other, Destroyed(object[o])) BY DEF MoveAssign
<1>3. QED BY <1>1, <1>2, AfterDestructor, MoveBuilt

\* the bytes of a message that was written to
LEMMA Appended ==
  ASSUME IInv, NEW o \in Live, NEW data \in Data
  PROVE  /\ Written(object[o]) \o data \in Seq(Bytes)
         /\ Len(Written(object[o]) \o data) = size(object[o]) + Len(data)
<1>1. /\ Written(object[o]) \in Seq(Bytes)
      /\ Len(Written(object[o])) = size(object[o])
  BY LiveObject
<1>2. data \in Seq(Bytes) BY DataType
<1>3. QED BY <1>1, <1>2, ConcatProperties

LEMMA WriteInPlaceStep ==
  ASSUME IInv, NEW o \in Live, NEW data \in Data, WriteInPlace(o, data)
  PROVE  /\ IInv'
         /\ MessageContent' = [MessageContent EXCEPT ![o] = Written(object[o]) \o data]
<1>1. PICK s, bytes : s = object[o] /\ bytes = Written(s) OBVIOUS
<1>2. /\ o \in Objects /\ is_heap(s) /\ s \in Fields /\ s.cursor \in Int
      /\ s.bytes = <<>> /\ size(s) = Len(bytes) /\ size(s) \in Nat
      /\ size(s) + Len(data) <= s.capacity
      /\ OldBlock(o) = {s.ptr}
  BY <1>1, LiveObject DEF WriteInPlace, OldBlock
<1>3. /\ Len(data) \in Nat /\ bytes \o data \in Seq(Bytes)
      /\ Len(bytes \o data) = size(s) + Len(data)
  BY <1>1, DataType, Appended
<1>4. object' = [object EXCEPT ![o] = HeapFields(s.cursor - Len(data), s.ptr, s.capacity)]
  <2>1. [s EXCEPT !.cursor = @ - Len(data)]
          = HeapFields(s.cursor - Len(data), s.ptr, s.capacity)
    BY <1>2 DEF Fields, HeapFields
  <2>2. QED BY <1>1, <2>1 DEF WriteInPlace, Set
<1>5. heap' = WriteAt(heap, s.ptr, size(s), data) BY <1>1 DEF WriteInPlace, Set
<1>6. s.cursor + 1 + size(s) = 0 BY <1>2 DEF is_heap, size
<1>7. CASE s.ptr = nullptr
  <2>1. bytes = <<>> /\ s.cursor + 1 = 0 /\ s.capacity = 0
    BY <1>1, <1>2, <1>7, LiveObject
  <2>2. Len(data) = 0 /\ size(s) = 0 BY <1>2, <1>3, <2>1
  <2>3. bytes \o data = <<>>
    BY <1>3, <2>2, EmptySeq
  <2>4. s.ptr \notin DOMAIN heap BY <1>7, SizeAssumption DEF IInv, TypeOK
  <2>5. /\ DOMAIN heap' = DOMAIN heap \ OldBlock(o)
        /\ \A p \in DOMAIN heap' : heap'[p] = heap[p]
    BY <1>2, <1>5, <2>4 DEF WriteAt
  <2>6. object' = [object EXCEPT ![o] = HeapFields(s.cursor, nullptr, 0)]
    <3>1. s.cursor - Len(data) = s.cursor BY <1>2, <2>2
    <3>2. QED BY <3>1, <1>4, <1>7, <2>1
  <2>7. /\ IInv'
        /\ MessageContent' = [MessageContent EXCEPT
                                 ![o] = Value(HeapFields(s.cursor, nullptr, 0), <<>>)]
    <3>1. <<>> \in Seq(Bytes) /\ Blockless(HeapFields(s.cursor, nullptr, 0), <<>>)
      BY <1>2, <2>1, EmptySeq DEF Blockless
    <3>2. o \in Objects BY <1>2
    <3>3. QED BY <3>1, <3>2, <2>5, <2>6, WithoutBlock
  <2>8. HeapFields(s.cursor, nullptr, 0) # Absent BY <1>2, HeapType
  <2>9. QED BY <1>1, <2>3, <2>7, <2>8 DEF Value
<1>8. CASE s.ptr # nullptr
  <2>1. /\ s.ptr \in DOMAIN heap /\ s.ptr \in Blocks /\ s.capacity \in Nat
        /\ heap[s.ptr] = Block(s.capacity, bytes) /\ bytes \in Seq(Bytes)
    BY <1>1, <1>2, <1>8, LiveObject
  <2>2. Prefix(bytes, size(s)) = bytes BY <1>2, <2>1, WholePrefix
  <2>3. /\ DOMAIN heap' = (DOMAIN heap \ OldBlock(o)) \cup {s.ptr}
        /\ heap'[s.ptr] = Block(s.capacity, bytes \o data)
        /\ \A p \in DOMAIN heap' \ {s.ptr} : heap'[p] = heap[p]
        /\ s.ptr \notin DOMAIN heap \ OldBlock(o)
    <3>1. heap[s.ptr].capacity = s.capacity /\ heap[s.ptr].bytes = bytes
      BY <2>1 DEF Block
    <3>2. /\ DOMAIN heap' = DOMAIN heap
          /\ \A p \in DOMAIN heap \ {s.ptr} : heap'[p] = heap[p]
      BY <1>5 DEF WriteAt
    <3>3. heap'[s.ptr] = Block(heap[s.ptr].capacity, Prefix(heap[s.ptr].bytes, size(s)) \o data)
      BY <1>5, <2>1 DEF WriteAt
    <3>4. heap'[s.ptr] = Block(s.capacity, bytes \o data) BY <3>1, <3>3, <2>2
    <3>5. QED BY <1>2, <2>1, <3>2, <3>4
  <2>4. /\ s.cursor - Len(data) \in Int
        /\ s.cursor - Len(data) + 1 + Len(bytes \o data) = 0
        /\ Len(bytes \o data) <= s.capacity
    BY <1>2, <1>3, <1>6
  <2>5. /\ IInv'
        /\ MessageContent' = [MessageContent EXCEPT ![o] = bytes \o data]
    BY <1>2, <1>3, <1>4, <2>1, <2>3, <2>4, WithBlock
  <2>6. QED BY <1>1, <2>5
<1>9. QED BY <1>7, <1>8

\* The block of o is moved to block b of n bytes, and data is appended.
LEMMA ResizedHeap ==
  ASSUME IInv, NEW o \in Live, is_heap(object[o]), NEW n \in Nat,
         size(object[o]) <= n,
         NEW b \in Available(Free(heap, object[o].ptr))
  PROVE  /\ b \in Blocks /\ b \notin DOMAIN heap \ OldBlock(o)
         /\ Reallocated(object[o], b, n)
              = Put(Free(heap, object[o].ptr), b, Block(n, Written(object[o])))
         /\ DOMAIN Free(heap, object[o].ptr) = DOMAIN heap \ OldBlock(o)
<1>1. PICK s : s = object[o] OBVIOUS
<1>2. /\ size(s) = Len(Written(s)) /\ size(s) \in Nat
      /\ Written(s) \in Seq(Bytes)
  BY <1>1, LiveObject
<1>3. Smaller(n, Len(Written(s))) = Len(Written(s)) BY <1>1, <1>2 DEF Smaller
<1>4. Prefix(Written(s), Smaller(n, Len(Written(s)))) = Written(s)
  BY <1>2, <1>3, WholePrefix
<1>5. Reallocated(s, b, n) = Put(Free(heap, s.ptr), b, Block(n, Written(s)))
  BY <1>4 DEF Reallocated
<1>6. DOMAIN Free(heap, s.ptr) = DOMAIN heap \ OldBlock(o)
  BY <1>1 DEF Free, OldBlock
<1>7. QED BY <1>1, <1>5, <1>6 DEF Available

LEMMA WriteResizedStep ==
  ASSUME IInv, NEW o \in Live, NEW data \in Data, WriteResized(o, data)
  PROVE  /\ IInv'
         /\ MessageContent' = [MessageContent EXCEPT ![o] = Written(object[o]) \o data]
<1>1. PICK s, bytes, n : /\ s = object[o] /\ bytes = Written(s)
                         /\ n = size(s) + Len(data)
  OBVIOUS
<1>2. /\ o \in Objects /\ is_heap(s) /\ s.cursor \in Int
      /\ size(s) = Len(bytes) /\ size(s) \in Nat /\ bytes \in Seq(Bytes)
  BY <1>1, LiveObject DEF WriteResized
<1>3. /\ Len(data) \in Nat /\ bytes \o data \in Seq(Bytes)
      /\ Len(bytes \o data) = n /\ n \in Nat /\ size(s) <= n
  BY <1>1, <1>2, DataType, Appended
<1>4. PICK b \in Available(Free(heap, s.ptr)) :
        Set(o, HeapFields(s.cursor - Len(data), b, n),
            WriteAt(Reallocated(s, b, n), b, size(s), data))
  BY <1>1 DEF WriteResized
<1>5. /\ b \in Blocks /\ b \notin DOMAIN heap \ OldBlock(o)
      /\ Reallocated(s, b, n) = Put(Free(heap, s.ptr), b, Block(n, bytes))
      /\ DOMAIN Free(heap, s.ptr) = DOMAIN heap \ OldBlock(o)
  BY <1>1, <1>2, <1>3, <1>4, ResizedHeap
<1>6. PICK r : r = Reallocated(s, b, n) OBVIOUS
<1>7. /\ DOMAIN r = (DOMAIN heap \ OldBlock(o)) \cup {b}
      /\ r[b] = Block(n, bytes)
      /\ \A p \in DOMAIN r \ {b} : r[p] = heap[p]
  BY <1>5, <1>6 DEF Put, Free
<1>8. r[b].capacity = n /\ r[b].bytes = bytes BY <1>7 DEF Block
<1>9. Prefix(bytes, size(s)) = bytes BY <1>2, WholePrefix
<1>10. heap' = WriteAt(r, b, size(s), data) BY <1>4, <1>6 DEF Set
<1>11. /\ DOMAIN heap' = DOMAIN r
       /\ \A p \in DOMAIN r \ {b} : heap'[p] = r[p]
  BY <1>10 DEF WriteAt
<1>12. heap'[b] = Block(r[b].capacity, Prefix(r[b].bytes, size(s)) \o data)
  BY <1>7, <1>10 DEF WriteAt
<1>13. /\ DOMAIN heap' = (DOMAIN heap \ OldBlock(o)) \cup {b}
       /\ heap'[b] = Block(n, bytes \o data)
       /\ \A p \in DOMAIN heap' \ {b} : heap'[p] = heap[p]
  BY <1>7, <1>8, <1>9, <1>11, <1>12
<1>14. /\ s.cursor - Len(data) \in Int
       /\ s.cursor - Len(data) + 1 + Len(bytes \o data) = 0
       /\ Len(bytes \o data) <= n
  BY <1>1, <1>2, <1>3 DEF size, is_heap
<1>15. object' = [object EXCEPT ![o] = HeapFields(s.cursor - Len(data), b, n)]
  BY <1>4 DEF Set
<1>16. o \in Objects BY <1>2
<1>17. /\ IInv'
       /\ MessageContent' = [MessageContent EXCEPT ![o] = bytes \o data]
  BY <1>3, <1>5, <1>13, <1>14, <1>15, <1>16, WithBlock
<1>18. QED BY <1>1, <1>17

LEMMA WriteInlineStep ==
  ASSUME IInv, NEW o \in Live, NEW data \in Data, WriteInline(o, data)
  PROVE  /\ IInv'
         /\ MessageContent' = [MessageContent EXCEPT ![o] = Written(object[o]) \o data]
<1>1. PICK bytes : bytes = Written(object[o]) \o data OBVIOUS
<1>2. /\ o \in Objects /\ ~is_heap(object[o])
      /\ Content(object[o]) = Written(object[o])
  BY LiveObject DEF WriteInline
<1>3. /\ bytes \in Seq(Bytes)
      /\ Blockless(InlineFields(bytes), bytes)
  BY <1>1, Appended DEF WriteInline, Blockless
<1>4. OldBlock(o) = {} BY <1>2 DEF OldBlock
<1>5. /\ object' = [object EXCEPT ![o] = InlineFields(bytes)]
      /\ heap' = heap
  BY <1>1, <1>2 DEF WriteInline, Set
<1>6. o \in Objects BY <1>2
<1>7. /\ IInv'
      /\ MessageContent' = [MessageContent EXCEPT ![o] = Value(InlineFields(bytes), bytes)]
  BY <1>3, <1>4, <1>5, <1>6, WithoutBlock
<1>8. QED BY <1>1, <1>3, <1>7, InlineType DEF Value

\* An inline message moves to a new block of n bytes.
LEMMA Spilled ==
  ASSUME IInv, NEW o \in Live, ~is_heap(object[o]),
         NEW bytes \in Seq(Bytes), NEW n \in Nat, Len(bytes) <= n,
         NEW cursor \in Int, cursor + 1 + Len(bytes) = 0,
         NEW b \in Available(heap),
         Set(o, HeapFields(cursor, b, n), Put(heap, b, Block(n, bytes)))
  PROVE  /\ IInv'
         /\ MessageContent' = [MessageContent EXCEPT ![o] = bytes]
<1>1. o \in Objects /\ OldBlock(o) = {} BY DEF Live, OldBlock
<1>2. /\ b \in Blocks /\ b \notin DOMAIN heap \ OldBlock(o)
      /\ object' = [object EXCEPT ![o] = HeapFields(cursor, b, n)]
      /\ DOMAIN heap' = (DOMAIN heap \ OldBlock(o)) \cup {b}
      /\ heap'[b] = Block(n, bytes)
      /\ \A p \in DOMAIN heap' \ {b} : heap'[p] = heap[p]
  BY <1>1 DEF Available, Set, Put
<1>3. o \in Objects BY <1>1
<1>4. QED BY <1>2, <1>3, WithBlock

LEMMA WriteSpilledStep ==
  ASSUME IInv, NEW o \in Live, NEW data \in Data, WriteSpilled(o, data)
  PROVE  /\ IInv'
         /\ MessageContent' = [MessageContent EXCEPT ![o] = Written(object[o]) \o data]
<1>1. PICK s, bytes, n, m : /\ s = object[o] /\ bytes = Written(s) \o data
                            /\ n = size(s) + Len(data)
                            /\ m = Larger(n, 2 * inline_capacity)
  OBVIOUS
<1>2. /\ ~is_heap(s) /\ Content(s) = Written(s) /\ size(s) \in Nat
  BY <1>1, LiveObject DEF WriteSpilled
<1>3. /\ bytes \in Seq(Bytes) /\ Len(bytes) = n /\ n \in Nat
  BY <1>1, <1>2, Appended, DataType
<1>4. inline_capacity \in Nat BY SizeAssumption
<1>5. m \in Nat /\ n <= m BY <1>1, <1>3, <1>4 DEF Larger
<1>6. PICK b \in Available(heap) :
        Set(o, HeapFields(-n - 1, b, m), Put(heap, b, Block(m, bytes)))
  BY <1>1, <1>2 DEF WriteSpilled
<1>7. -n - 1 \in Int /\ -n - 1 + 1 + Len(bytes) = 0 BY <1>3
<1>8. /\ IInv'
      /\ MessageContent' = [MessageContent EXCEPT ![o] = bytes]
  BY <1>1, <1>2, <1>3, <1>5, <1>6, <1>7, Spilled
<1>9. QED BY <1>1, <1>8

LEMMA WriteStep ==
  ASSUME IInv, NEW o \in Objects, NEW data \in Data, Write(o, data)
  PROVE  IInv' /\ Message!Write(o, data)
<1>1. o \in Live BY DEF Write
<1>2. /\ IInv'
      /\ MessageContent' = [MessageContent EXCEPT ![o] = Written(object[o]) \o data]
  BY <1>1, WriteInPlaceStep, WriteResizedStep, WriteInlineStep, WriteSpilledStep
     DEF Write
<1>3. MessageContent[o] = Written(object[o]) /\ o \in Message!Constructed
  BY <1>1, LiveContent
<1>4. QED BY <1>2, <1>3 DEF Message!Write

LEMMA ReserveNothingStep ==
  ASSUME IInv, NEW o \in Live, NEW n \in Nat, ReserveNothing(o, n)
  PROVE  IInv' /\ MessageContent' = MessageContent
<1>1. PICK s, cleared : /\ s = object[o]
                        /\ cleared = HeapFields(s.cursor, nullptr, 0)
  OBVIOUS
<1>2. /\ o \in Objects /\ is_heap(s) /\ s.cursor \in Int
      /\ size(s) = Len(Written(s)) /\ size(s) \in Nat /\ Written(s) \in Seq(Bytes)
      /\ size(s) + n = 0
  BY <1>1, LiveObject DEF ReserveNothing
<1>3. size(s) = 0 /\ s.cursor + 1 = 0
  <2>1. size(s) = 0 BY <1>2
  <2>2. s.cursor + 1 + size(s) = 0 BY <1>2 DEF size, is_heap
  <2>3. QED BY <1>2, <2>1, <2>2
<1>4. Written(s) = <<>> BY <1>2, <1>3, EmptySeq
<1>5. <<>> \in Seq(Bytes) /\ Blockless(cleared, <<>>)
  BY <1>1, <1>2, <1>3, EmptySeq DEF Blockless
<1>6. cleared # Absent
  <2>1. s.cursor \in Int /\ nullptr \in Blocks \cup {nullptr} /\ 0 \in Nat
    BY <1>2
  <2>2. QED BY <1>1, <2>1, HeapType
<1>7. /\ object' = [object EXCEPT ![o] = cleared]
      /\ DOMAIN heap' = DOMAIN heap \ OldBlock(o)
      /\ \A p \in DOMAIN heap' : heap'[p] = heap[p]
  BY <1>1, <1>2 DEF ReserveNothing, Set, Free, OldBlock
<1>8. o \in Objects BY <1>2
<1>9. /\ IInv'
      /\ MessageContent' = [MessageContent EXCEPT ![o] = Value(cleared, <<>>)]
  BY <1>5, <1>7, <1>8, WithoutBlock
<1>10. MessageContent[o] = <<>> BY <1>1, <1>4, LiveContent
<1>11. QED BY <1>6, <1>9, <1>10 DEF Value, MessageContent

LEMMA ReserveResizedStep ==
  ASSUME IInv, NEW o \in Live, NEW n \in Nat, ReserveResized(o, n)
  PROVE  IInv' /\ MessageContent' = MessageContent
<1>1. PICK s, bytes, m : /\ s = object[o] /\ bytes = Written(s)
                         /\ m = size(s) + n
  OBVIOUS
<1>2. /\ o \in Objects /\ is_heap(s) /\ s.cursor \in Int
      /\ size(s) = Len(bytes) /\ size(s) \in Nat /\ bytes \in Seq(Bytes)
  BY <1>1, LiveObject DEF ReserveResized
<1>3. m \in Nat /\ size(s) <= m BY <1>1, <1>2
<1>4. PICK b \in Available(Free(heap, s.ptr)) :
        Set(o, HeapFields(s.cursor, b, m), Reallocated(s, b, m))
  BY <1>1 DEF ReserveResized
<1>5. /\ b \in Blocks /\ b \notin DOMAIN heap \ OldBlock(o)
      /\ Reallocated(s, b, m) = Put(Free(heap, s.ptr), b, Block(m, bytes))
      /\ DOMAIN Free(heap, s.ptr) = DOMAIN heap \ OldBlock(o)
  BY <1>1, <1>2, <1>3, <1>4, ResizedHeap
<1>6. /\ DOMAIN heap' = (DOMAIN heap \ OldBlock(o)) \cup {b}
      /\ heap'[b] = Block(m, bytes)
      /\ \A p \in DOMAIN heap' \ {b} : heap'[p] = heap[p]
  BY <1>4, <1>5 DEF Set, Put, Free
<1>7. /\ s.cursor + 1 + Len(bytes) = 0 /\ Len(bytes) <= m
  BY <1>2, <1>3 DEF size, is_heap
<1>8. o \in Objects /\ bytes \in Seq(Bytes) /\ s.cursor \in Int BY <1>2
<1>9. object' = [object EXCEPT ![o] = HeapFields(s.cursor, b, m)]
  BY <1>4 DEF Set
<1>10. /\ IInv'
       /\ MessageContent' = [MessageContent EXCEPT ![o] = bytes]
  BY <1>3, <1>5, <1>6, <1>7, <1>8, <1>9, WithBlock
<1>11. MessageContent[o] = bytes BY <1>1, LiveContent
<1>12. QED BY <1>10, <1>11 DEF MessageContent

LEMMA ReserveSpilledStep ==
  ASSUME IInv, NEW o \in Live, NEW n \in Nat, ReserveSpilled(o, n)
  PROVE  IInv' /\ MessageContent' = MessageContent
<1>1. PICK s, bytes, m : /\ s = object[o] /\ bytes = Written(s)
                         /\ m = size(s) + n
  OBVIOUS
<1>2. /\ ~is_heap(s) /\ Content(s) = bytes /\ bytes \in Seq(Bytes)
      /\ size(s) = Len(bytes) /\ size(s) \in Nat
  BY <1>1, LiveObject DEF ReserveSpilled
<1>3. m \in Nat /\ Len(bytes) <= m BY <1>1, <1>2
<1>4. PICK b \in Available(heap) :
        Set(o, HeapFields(-size(s) - 1, b, m), Put(heap, b, Block(m, bytes)))
  BY <1>1, <1>2 DEF ReserveSpilled
<1>5. -size(s) - 1 \in Int /\ -size(s) - 1 + 1 + Len(bytes) = 0 BY <1>2
<1>6. /\ IInv'
      /\ MessageContent' = [MessageContent EXCEPT ![o] = bytes]
  BY <1>1, <1>2, <1>3, <1>4, <1>5, Spilled
<1>7. MessageContent[o] = bytes BY <1>1, LiveContent
<1>8. QED BY <1>6, <1>7 DEF MessageContent

LEMMA ReserveStep ==
  ASSUME IInv, NEW o \in Objects, NEW n \in Nat, Reserve(o, n)
  PROVE  IInv' /\ MessageContent' = MessageContent
BY ReserveNothingStep, ReserveResizedStep, ReserveSpilledStep DEF Reserve

-----------------------------------------------------------------------------
LEMMA Initially == Init => IInv /\ Message!Init
<1> SUFFICES ASSUME Init PROVE IInv /\ Message!Init
  OBVIOUS
<1>1. Live = {} /\ Owners = {} /\ DOMAIN heap = {}
  BY DEF Init, Live, Owners
<1>2. IInv BY <1>1 DEF IInv, TypeOK, Ownership, SoundInv, Init
<1>3. Message!Init BY <1>1 DEF Message!Init, MessageContent
<1>4. QED BY <1>2, <1>3

LEMMA Step ==
  ASSUME IInv, [Next]_vars
  PROVE  IInv' /\ [Message!Next]_MessageContent
<1>1. CASE UNCHANGED vars
  <2>1. object' = object /\ heap' = heap BY <1>1 DEF vars
  <2>2. IInv'
    BY <2>1 DEF IInv, TypeOK, Ownership, SoundInv, Live, Owners, Sound, is_heap
  <2>3. MessageContent' = MessageContent
    BY <2>1 DEF MessageContent, Live, Content, Written
  <2>4. QED BY <2>2, <2>3
<1>2. ASSUME NEW o \in Objects, Construct(o) \/ Destroy(o)
      PROVE  IInv' /\ [Message!Next]_MessageContent
  BY <1>2, ConstructStep, DestroyStep DEF Message!Next
<1>3. ASSUME NEW o \in Objects, NEW other \in Objects,
             Copy(o, other) \/ CopyAssign(o, other)
      PROVE  IInv' /\ [Message!Next]_MessageContent
  BY <1>3, CopyStep, CopyAssignStep DEF Message!Next
<1>4. ASSUME NEW o \in Objects, NEW other \in Objects,
             Move(o, other) \/ MoveAssign(o, other)
      PROVE  IInv' /\ [Message!Next]_MessageContent
  BY <1>4, MoveStep, MoveAssignStep DEF Message!Next
<1>5. ASSUME NEW o \in Objects, NEW data \in Data, Write(o, data)
      PROVE  IInv' /\ [Message!Next]_MessageContent
  BY <1>5, WriteStep DEF Message!Next
<1>6. ASSUME NEW o \in Objects, NEW n \in Reservations, Reserve(o, n)
      PROVE  IInv' /\ [Message!Next]_MessageContent
  BY <1>6, ReserveStep, SizeAssumption
<1>7. QED BY <1>1, <1>2, <1>3, <1>4, <1>5, <1>6 DEF Next

LEMMA Inductive == Spec => []IInv
<1>1. IInv /\ [Next]_vars => IInv' BY Step
<1>2. QED BY Initially, <1>1, PTL DEF Spec

\* Whatever the objects, lengths and capacities, no message is written past
\* the memory it lives in.
THEOREM TypeCorrect == Spec => []TypeOK
<1>1. IInv => TypeOK BY DEF IInv
<1>2. QED BY Inductive, <1>1, PTL

\* Every heap block has exactly one owner: copies, moves, assignments, growth
\* and destruction neither leak a block nor free one twice.
THEOREM SingleOwner == Spec => []Ownership
<1>1. IInv => Ownership BY DEF IInv
<1>2. QED BY Inductive, <1>1, PTL

\* A buffer is a value: every step of the buffer is the step of the abstract
\* message with the same name, or changes no message.
THEOREM RefinesMessage == Spec => ImplementsMessage
<1>1. IInv /\ [Next]_vars => [Message!Next]_MessageContent BY Step
<1>2. QED BY Inductive, Initially, <1>1, PTL DEF Spec, ImplementsMessage, Message!Spec
=============================================================================
