---------------------------- MODULE MCAlgorithms ----------------------------
(* The algorithms of the library for TLC, one at a time: tries are filled and   *)
(* searched, expectations checked, and what a format string becomes is compared *)
(* with what the string means.  The ones not chosen stay where they start.      *)
EXTENDS Expect, StringTrie, TLC

CONSTANTS
  Subjects,       \* which algorithms are run
  MaxLetters,     \* bound: letters of a word
  MaxWords,       \* bound: words of a trie
  MaxSegments,    \* bound: fields and texts of a format string
  MaxArgs,        \* bound: arguments of a format call
  Members, Bad    \* of FormatParser: the first is MemberNames

VARIABLES
  subject,   \* the algorithm that is run
  input,     \* what format is called with
  printed    \* what it printed, when it did

F == INSTANCE FormatParser

MemberNames == <<"x", "y">>

-----------------------------------------------------------------------------
(* Tries: two letters, every list of words, and every string a letter longer.  *)

Lookups == UNION {[1..n -> {1, 2}] : n \in 0..MaxLetters + 1}
Words   == {s \in Lookups : Len(s) <= MaxLetters}
Lists   == UNION {[1..n -> Words] : n \in 0..MaxWords}

-----------------------------------------------------------------------------
(* Expectations: trees of up to two levels, and chains of four operands.      *)

Operands == {Constant(0), Constant(2), Placeholder(1)}

\* an operator of the library has a placeholder below it
Node(op, l, r) ==
  IF l.op = "constant" /\ r.op = "constant" THEN {} ELSE {make_expr(op, l, r)}

Inner == UNION {Node(op, l, r) : op \in {"<", "!=", "+"}, l \in Operands, r \in Operands}
Outer == UNION {Node(op, l, r) : op \in {"<", "==", "&&"},
                                 l \in Operands \cup Inner, r \in Operands \cup Inner}

Trees == {Placeholder(1)} \cup Outer \cup
  {make_expr(op, e, l) : op \in {">=", "||"}, e \in Outer, l \in {Constant(1), Placeholder(1)}}

Values == {<<v>> : v \in 0..3}

-----------------------------------------------------------------------------
(* Format strings: sequences of texts and fields.                             *)

Segment(kind, index, path, spec) ==
  [kind |-> kind, index |-> index, path |-> path, spec |-> spec]

Segments ==
  {Segment("text", 0, <<>>, <<"a">>), Segment("escaped", 0, <<>>, <<"0">>),
   Segment("empty", 0, <<>>, <<>>), Segment("empty", 0, <<>>, <<":", "a">>),
   Segment("index", 0, <<>>, <<>>), Segment("index", 1, <<>>, <<":", "a">>),
   Segment("index", 2, <<>>, <<>>),
   Segment("access", 1, <<"y">>, <<>>), Segment("access", 0, <<"1", ".", "x">>, <<":", "a">>),
   Segment("name", 0, <<"x">>, <<>>)}

FormatInputs == {[segments |-> s, args |-> n] :
  s \in UNION {[1..n -> Segments] : n \in 0..MaxSegments}, n \in 0..MaxArgs}

Source(s) ==
  CASE s.kind = "text"    -> s.spec
    [] s.kind = "escaped" -> <<"{", "{">> \o s.spec \o <<"}", "}">>
    [] s.kind = "empty"   -> <<"{">> \o s.spec \o <<"}">>
    [] s.kind = "index"   -> <<"{">> \o F!utos(s.index) \o s.spec \o <<"}">>
    [] s.kind = "access"  -> <<"{">> \o F!utos(s.index) \o <<".">> \o s.path
                             \o s.spec \o <<"}">>
    [] s.kind = "name"    -> <<"{">> \o s.path \o s.spec \o <<"}">>

Nothing == [segments |-> <<>>, args |-> 0]

FormatInit ==
  /\ input \in IF subject = "format" THEN FormatInputs ELSE {Nothing}
  /\ printed = {}

EvaluateFormat ==
  /\ printed = {}
  /\ printed' = {F!format(FlattenSeq([i \in 1..Len(input.segments) |->
                                        Source(input.segments[i])]),
                          input.args)}
  /\ UNCHANGED input

Kind(i) == input.segments[i].kind
Count(i, kinds) == Len(SelectSeq(SubSeq(input.segments, 1, i),
                                 LAMBDA s : s.kind \in kinds))

\* Empty and numbered fields do not mix, a name alone needs a single argument,
\* and every field needs its argument.
Valid ==
  LET all == 1..Len(input.segments) IN
  /\ \A i, j \in all : Kind(i) = "empty" => Kind(j) \notin {"index", "access", "name"}
  /\ \A i \in all : /\ Kind(i) = "name" => input.args = 1
                    /\ input.segments[i].index < input.args \/ Kind(i) \in {"text", "escaped"}
                    /\ Count(i, {"empty"}) <= input.args

Used == {input.segments[i].index : i \in {j \in 1..Len(input.segments) : Kind(j) = "index"}}

FirstUse(a) == First({i \in 1..Len(input.segments) :
                        Kind(i) = "index" /\ input.segments[i].index = a})

\* The argument a by-index field prints: the fields are numbered by first use,
\* the arguments in the order of the call.
Shown(a) ==
  CHOOSE b \in Used : Cardinality({c \in Used : c < b})
                      = Cardinality({c \in Used : FirstUse(c) < FirstUse(a)})

Path(s) == LET steps == SelectSeq(s.path, LAMBDA c : c # ".")
           IN  [i \in 1..Len(steps) |-> CASE steps[i] \in {"x", "0"} -> 0
                                          [] steps[i] \in {"y", "1"} -> 1]

Prints(i, Argument(_)) ==
  LET s == input.segments[i] IN
  CASE s.kind = "text"    -> <<F!Character("a")>>
    [] s.kind = "escaped" -> <<F!Character("{"), F!Character("0"), F!Character("}")>>
    [] s.kind = "empty"   -> <<F!Value(<<Count(i, {"empty"}) - 1>>, s.spec)>>
    [] s.kind = "index"   -> <<F!Value(<<Argument(s.index)>>, s.spec)>>
    [] s.kind \in {"access", "name"} -> <<F!Value(<<s.index>> \o Path(s), s.spec)>>

Expected(Argument(_)) ==
  FlattenSeq([i \in 1..Len(input.segments) |-> Prints(i, Argument)])

\* A valid format string prints its texts and, field by field, the value the
\* field names, with its specification; the argument of a by-index field is the
\* one it names if the indices first appear in increasing order.  Any other
\* string is refused.
FormatExact ==
  \A p \in printed : IF Valid THEN p = Expected(Shown) ELSE Bad \in ToSet(p)

\* "by-index field, ie. {0}": a field prints the argument with its index.
FieldsNameTheirArguments ==
  Valid => \A p \in printed : p = Expected(LAMBDA a : a)

-----------------------------------------------------------------------------
Init ==
  /\ subject \in Subjects
  /\ subject = "trie" \/ words = <<>>
  /\ subject = "expect" \/ written = Placeholder(1)
  /\ ExpectInit /\ TrieInit /\ FormatInit

Next ==
  \/ subject = "trie"   /\ TrieNext       /\ UNCHANGED <<subject, expectVars, input, printed>>
  \/ subject = "expect" /\ ExpectNext     /\ UNCHANGED <<subject, trieVars, input, printed>>
  \/ subject = "format" /\ EvaluateFormat /\ UNCHANGED <<subject, trieVars, expectVars>>

Spec == Init /\ [][Next]_<<subject, trieVars, expectVars, input, printed>>
=============================================================================
