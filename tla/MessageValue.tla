---------------------------- MODULE MessageValue ----------------------------
(***************************************************************************)
(* What a message buffer promises to the code that passes messages around: *)
(* it is a value, a string of bytes.  A copy is equal and independent, a   *)
(* move empties its source, and reserving room changes nothing.            *)
(* HybridBuffer is shown to implement this specification.                  *)
(***************************************************************************)
EXTENDS Sequences

CONSTANTS
  Objects,     \* the message objects of the program
  Data,        \* the strings a write may append
  Absent       \* the content of an object that does not exist

VARIABLE content   \* object -> its bytes; Absent: not constructed

Constructed == {o \in Objects : content[o] # Absent}

Init == content = [o \in Objects |-> Absent]

Construct(o) ==
  /\ content[o] = Absent
  /\ content' = [content EXCEPT ![o] = <<>>]

Write(o, data) ==
  /\ o \in Constructed
  /\ content' = [content EXCEPT ![o] = @ \o data]

\* copy construction and copy assignment
Copy(o, other) ==
  /\ other \in Constructed
  /\ content' = [content EXCEPT ![o] = content[other]]

\* move construction and move assignment from another object
Move(o, other) ==
  /\ other \in Constructed \ {o}
  /\ content' = [content EXCEPT ![o] = content[other], ![other] = <<>>]

Destroy(o) ==
  /\ o \in Constructed
  /\ content' = [content EXCEPT ![o] = Absent]

Next ==
  \/ \E o \in Objects : Construct(o) \/ Destroy(o)
  \/ \E o, other \in Objects : Copy(o, other) \/ Move(o, other)
  \/ \E o \in Objects, data \in Data : Write(o, data)

Spec == Init /\ [][Next]_content
=============================================================================
