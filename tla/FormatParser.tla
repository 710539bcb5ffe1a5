---------------------------- MODULE FormatParser ----------------------------
(* format/named.hpp: a format string with named and nested fields becomes one  *)
(* std::format understands, the arguments it passes on, and accessors for the  *)
(* nested ones.  A string is a sequence of one-character strings; a position   *)
(* counts from 1.  A value is named by the argument it is taken from and the   *)
(* members on the way to it.                                                   *)
EXTENDS Integers, Sequences, SequencesExt

CONSTANTS
  Members,   \* the names of the members of every argument and member, in order
  Bad        \* what does not compile, or std::format throws on

Digits   == <<"0", "1", "2", "3", "4", "5", "6", "7", "8", "9">>
digit(c) == CHOOSE n \in 0..9 : Digits[n + 1] = c

is_digit(c)   == \E n \in 0..9 : Digits[n + 1] = c
\* a sign is left out: no field has one
is_integer(s) == s # <<>> /\ \A i \in 1..Len(s) : is_digit(s[i])

stou(s) == FoldLeft(LAMBDA n, c : 10 * n + digit(c), 0, s)

RECURSIVE utos(_)
utos(n) == (IF n < 10 THEN <<>> ELSE utos(n \div 10)) \o <<Digits[(n % 10) + 1]>>

\* The first position from `from` on that holds a needle outside of all brackets
\* opened since, or the end.
Depth(s, from, to) ==
  LET Count(set) == Len(SelectSeq(SubSeq(s, from, to - 1), LAMBDA c : c \in set))
  IN  Count({"{", "[", "("}) - Count({"}", "]", ")"})

skip_to(s, from, needles) ==
  CHOOSE p \in from..Len(s) + 1 :
    /\ p = Len(s) + 1 \/ (s[p] \in needles /\ Depth(s, from, p) = 0)
    /\ \A q \in from..p - 1 : s[q] \notin needles \/ Depth(s, from, q) # 0

find_dot(s) == CHOOSE p \in 1..Len(s) + 1 :
                 /\ p <= Len(s) => s[p] = "."
                 /\ \A q \in 1..p - 1 : s[q] # "."

RECURSIVE split(_)
split(s) ==
  LET dot == find_dot(s) IN
  IF dot > Len(s) THEN <<s>>
  ELSE <<SubSeq(s, 1, dot - 1)>> \o split(SubSeq(s, dot + 1, Len(s)))

-----------------------------------------------------------------------------
(* The parser, as a record: what is left of a field when it goes wrong is Bad. *)

\* get_accessor: each subfield is a member by its number or by its name
step_index(subfield) ==
  IF is_integer(subfield) THEN stou(subfield)
  ELSE IF \E i \in 1..Len(Members) : <<Members[i]>> = subfield
       THEN (CHOOSE i \in 1..Len(Members) : <<Members[i]>> = subfield) - 1
       ELSE Len(Members)

get_accessor(expression, index) ==
  LET subfields == split(expression)
  IN  <<index>> \o [i \in 1..Len(subfields) |-> step_index(subfields[i])]

FormatParser(source, args) ==
  [data |-> source, cursor |-> 1, fragment_start |-> 1, fragments |-> <<>>,
   direct |-> [i \in 0..args - 1 |-> -1], used |-> 0, accessors |-> <<>>,
   has_empty |-> FALSE, has_positional |-> FALSE]

push(p, fragment) ==
  [p EXCEPT !.fragments = Append(@, fragment), !.fragment_start = p.cursor]

text(str)       == [accessor |-> FALSE, data |-> str]
accessor(index) == [accessor |-> TRUE, index |-> index]

push_text(p) ==
  IF p.fragment_start = p.cursor THEN p
  ELSE push(p, text(SubSeq(p.data, p.fragment_start, p.cursor - 1)))

\* "{}": the arguments in turn
empty_field(p) ==
  IF p.has_positional THEN Bad
  ELSE push_text([p EXCEPT !.cursor = @ + 1, !.has_empty = TRUE])

\* "{0}": an argument is numbered by the order of its first use
\* Mutant: it keeps its own number.
index_kept(p, index) ==
  IF index \notin DOMAIN p.direct THEN Bad
  ELSE push([p EXCEPT !.direct[index] = index], text(utos(index)))

index_field(p, index) ==
  IF index \notin DOMAIN p.direct THEN Bad
  ELSE LET new == p.direct[index] = -1
           q == [p EXCEPT !.direct[index] = IF new THEN p.used ELSE @,
                          !.used = IF new THEN @ + 1 ELSE @]
       IN  push(q, text(utos(q.direct[index])))

\* "{0.x}", and "{x}" if there is only one argument
access_field(p, index, expression) ==
  LET path == get_accessor(expression, index)
      q == [p EXCEPT !.accessors = Append(@, path)]
      r == push(q, accessor(Len(q.accessors)))
  IN  IF \/ index \notin DOMAIN p.direct
         \/ \E i \in 2..Len(path) : path[i] >= Len(Members)
      THEN Bad
      ELSE [r EXCEPT !.cursor = @ + 1]

named_field(p, name) ==
  LET dot == find_dot(name) IN
  IF is_integer(name) THEN index_field(p, stou(name))
  ELSE IF dot > Len(name) \/ ~is_digit(name[1])
  THEN IF DOMAIN p.direct = {0} THEN access_field(p, 0, name) ELSE Bad
  ELSE access_field(p, stou(SubSeq(name, 1, dot - 1)), SubSeq(name, dot + 1, Len(name)))

field(p) ==
  LET stop == skip_to(p.data, p.cursor, {"}", ":"}) IN
  IF stop = p.cursor THEN empty_field(p)
  ELSE IF p.has_empty THEN Bad
  ELSE named_field([p EXCEPT !.cursor = stop, !.has_positional = TRUE],
                   SubSeq(p.data, p.cursor, stop - 1))

\* the loop of do_parse
RECURSIVE do_parse(_)
do_parse(p) ==
  IF p = Bad THEN Bad
  ELSE IF p.cursor > Len(p.data) THEN push_text(p)
  ELSE LET next == [p EXCEPT !.cursor = @ + 1] IN
    IF p.data[p.cursor] # "{" THEN do_parse(next)
    ELSE IF next.cursor > Len(p.data) THEN Bad
    ELSE IF p.data[next.cursor] = "{"    \* escaped: up to the one that closes it
    THEN do_parse(push_text([p EXCEPT !.cursor = skip_to(p.data, next.cursor, {"}"})]))
    ELSE do_parse(field(push_text(next)))

\* what an accessor's number becomes when the number of arguments is known
render(p, offset) ==
  FlattenSeq([i \in 1..Len(p.fragments) |->
    IF p.fragments[i].accessor THEN utos(offset + p.fragments[i].index)
    ELSE p.fragments[i].data])

\* the arguments passed on directly: all, or those with a number, in the order
\* of the call
direct_indices(p) ==
  SetToSortSeq({i \in DOMAIN p.direct : p.has_positional => p.direct[i] # -1}, <)

Transformed(p) ==
  LET direct == direct_indices(p) IN
  [fmt |-> render(p, Len(direct) - 1),
   values |-> [i \in 1..Len(direct) |-> <<direct[i]>>] \o p.accessors]

-----------------------------------------------------------------------------
(* std::format: characters, and values with what follows the colon.          *)

Character(c)   == [character |-> c]
Value(v, spec) == [value |-> v, spec |-> spec]

RECURSIVE std_format(_, _, _)
std_format(fmt, values, next) ==
  IF fmt = <<>> THEN <<>>
  ELSE LET c == fmt[1]
           twice == Len(fmt) > 1 /\ fmt[2] = c
           close == skip_to(fmt, 2, {"}"})
           colon == skip_to(fmt, 2, {"}", ":"})
           id == SubSeq(fmt, 2, colon - 1)
           index == IF id = <<>> THEN next ELSE stou(id)
           After(n, following) == std_format(SubSeq(fmt, n + 1, Len(fmt)), values, following)
       IN  CASE c \notin {"{", "}"} -> <<Character(c)>> \o After(1, next)
             [] c \in {"{", "}"} /\ twice -> <<Character(c)>> \o After(2, next)
             [] c = "}" /\ ~twice -> <<Bad>>
             [] c = "{" /\ ~twice ->
                  IF close > Len(fmt) \/ index >= Len(values) THEN <<Bad>>
                  ELSE <<Value(values[index + 1], SubSeq(fmt, colon, close - 1))>>
                       \o After(close, IF id = <<>> THEN next + 1 ELSE next)

\* format of a string and a number of arguments: what is printed
format(source, args) ==
  LET p == do_parse(FormatParser(source, args))
  IN  IF p = Bad THEN <<Bad>>
      ELSE std_format(Transformed(p).fmt, Transformed(p).values, 0)
=============================================================================
