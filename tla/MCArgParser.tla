---------------------------- MODULE MCArgParser ----------------------------
(* ArgParser for TLC: classes with up to two positional arguments, an option   *)
(* `a` and a static option `c`, and classes with fields that are no arguments,  *)
(* or bases with fields, under every command line of up to MaxWords.            *)
EXTENDS ArgParser, TLC

CONSTANTS MaxWords, NoName

Word(start, rest, short) == [start |-> start, rest |-> rest, short |-> short]

Text     == Word("plain", NoName, FALSE)
Rejected == Word("plain", "rejected", FALSE)   \* no constraint accepts it
Letter   == Word("plain", NoName, TRUE)        \* one character
Negative == Word("minus_digit", NoName, FALSE)
Undashed == Word("plain", "a", FALSE)          \* two characters and a name
Dashed   == {Word("minus", name, FALSE) : name \in {"a", "c", "help", "unknown"}}

Words == {Text, Rejected, Letter, Negative, Undashed} \cup Dashed

Lines == UNION {[1..n -> Words] : n \in 0..MaxWords}
WithProgram == {<<Text>> \o line : line \in Lines}

Param(required) == [required |-> required, rejects |-> {Rejected}]
Params(flags)   == [i \in 1..Len(flags) |-> Param(flags[i])]

Data(required) == [kind |-> "data", option |-> FALSE, descend |-> FALSE,
                   name |-> "field", params |-> <<>>] @@ Param(required)

Descend(required) == [Data(required) EXCEPT !.descend = TRUE]

Function(kind, option, name, params) ==
  [kind |-> kind, option |-> option, descend |-> FALSE, name |-> name,
   params |-> params, exits |-> FALSE]

R == TRUE
O == FALSE

\* `c` comes between the fields and `a`, and a static function without an
\* annotation is nobody's option.
ClassOf(data, a, c) ==
  <<Function("static", FALSE, "a", Params(<<R, R>>)),
    Function("method", TRUE, "a", Params(a)), Function("static", TRUE, "c", Params(c))>>
  \o [i \in 1..Len(data) |-> Data(data[i])]

Classes ==
  {ClassOf(data, a, c) : data \in {<<>>, <<R>>, <<R, O>>, <<O, O>>, <<O, R>>},
                         a \in {<<>>, <<R, O>>}, c \in {<<R>>, <<O, O>>}}

help == [Function("static", TRUE, "help", <<>>) EXCEPT !.exits = TRUE]

\* CLI has no fields.
CLI == <<>>

Plain == ClassOf(<<R>>, <<R, O>>, <<R>>)

\* Fields with a Descend annotation come before the argument, between two of them
\* or after it.
Descending == {<<Descend(O), Data(O)>>, <<Descend(R), Data(O)>>,
               <<Data(R), Descend(R), Data(O)>>, <<Data(R), Descend(O)>>}

\* Classes derived from CLI, which have its `help`; the same with a further base;
\* one that is not derived from anything, and one with no functions at all.
SomeSpecs ==
  {SpecOf(members, <<help>>, <<CLI>>) :
     members \in {c \in Classes : Compiles(c)} \cup Descending}
  \cup {SpecOf(Plain, <<help>>, <<CLI, base>>) : base \in {<<Data(R)>>, <<Data(O)>>}}
  \cup {SpecOf(Plain, <<>>, <<>>), SpecOf(<<Data(O)>>, <<>>, <<>>)}
=============================================================================
