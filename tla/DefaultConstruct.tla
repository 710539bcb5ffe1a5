-------------------------- MODULE DefaultConstruct --------------------------
(* How a function or an aggregate is called with the leading part of its      *)
(* parameters (config/default_construct.hpp).  A call is dispatched by the     *)
(* number of optional arguments present, over a switch whose cases a macro     *)
(* stamps out in powers of four.  A parameter is a record with a field         *)
(* `required`: it has no default argument or member initializer.               *)
EXTENDS Naturals, Sequences, FiniteSets

CONSTANT Stamp      \* cases the innermost macro stamps (4 in the code)

ASSUME StampAssumption == Stamp \in Nat \ {0}

required_args_count(params) ==
  Cardinality({i \in 1..Len(params) : params[i].required})

branches(params) == Len(params) - required_args_count(params)

\* the cases the macros stamp: 4, 16, 64 or 256 of them in the code
sizes == LET s == Stamp IN <<s, s * s, s * s * s, s * s * s * s>>

\* strategy_idx: the smallest of four sizes said to be enough
strategy_idx(b) == CASE b <= sizes[1] -> 1
                     [] sizes[1] < b /\ b <= sizes[2] -> 2
                     [] sizes[2] < b /\ b <= sizes[3] -> 3
                     [] OTHER -> 4

\* the cases of the switch are 0 .. cases - 1
cases(b) == sizes[strategy_idx(b)]

\* What becomes of a call with the first n of the parameters: "called", "throw"
\* if a required one is missing, "unreachable" if the switch has no case for it.
visit(params, n) ==
  CASE n < required_args_count(params) -> "throw"
    [] n >= required_args_count(params) /\ branches(params) = 0 -> "called"
    [] OTHER -> IF n - required_args_count(params) < cases(branches(params))
                THEN "called" ELSE "unreachable"

\* What becomes of an aggregate made from the first n of its fields: each of its
\* bases, direct or not, is made from none of its own.
construct(fields, bases, n) ==
  IF visit(fields, n) = "called" /\ \E i \in 1..Len(bases) : visit(bases[i], 0) = "throw"
  THEN "throw" ELSE visit(fields, n)
=============================================================================
