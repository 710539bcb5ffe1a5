------------------------------- MODULE Expect -------------------------------
(***************************************************************************)
(* expect.hpp: an expectation on an argument is written with operators,    *)
(* kept as a tree, turned into the conjunction a chained comparison stands *)
(* for, and evaluated for each value that is given.  In the code the left  *)
(* operand of a BinaryExpr is its member `rhs` and the right one `lhs`;    *)
(* here they are `left` and `right`.  A Boolean is 0 or 1, as C++ converts *)
(* it.                                                                     *)
(***************************************************************************)
EXTENDS Integers, Sequences

CONSTANTS
  MaxHeight,    \* bound: operators inside each other in an expectation
  Arity,        \* the arguments an expectation is about
  Expectations, \* the expressions that are written
  Arguments     \* the arguments they are evaluated for

Ops == {"<", "<=", ">", ">=", "==", "!=", "&&", "||", "+", "-", "*"}

Leaves == [op : {"constant"}, value : Int] \cup [op : {"placeholder"}, index : 1..Arity]

\* the expressions with at most h operators inside each other
Expressions(h) ==
  LET upto[n \in 0..h] ==
        IF n = 0 THEN Leaves
        ELSE Leaves \cup [op : Ops, left : upto[n - 1], right : upto[n - 1]]
  IN  upto[h]

\* what can be written, and what that may be transformed into
Written == Expressions(MaxHeight)
Expr    == Expressions(2 * MaxHeight)

ASSUME ExpectAssumption ==
  /\ MaxHeight \in Nat /\ Arity \in Nat
  /\ Expectations \subseteq Written
  /\ Arguments \subseteq [1..Arity -> Int]

Constant(n)        == [op |-> "constant", value |-> n]
Placeholder(i)     == [op |-> "placeholder", index |-> i]
make_expr(o, l, r) == [op |-> o, left |-> l, right |-> r]

is_binary_expr(e)       == e.op \notin {"constant", "placeholder"}
is_binary_comparison(e) == e.op \in {"<", "<=", ">", ">=", "==", "!="}

Truth(P) == IF P THEN 1 ELSE 0

\* eval_operator: both operands have been evaluated, also those of && and ||
eval_operator(op, l, r) ==
  CASE op = "<"  -> Truth(l < r)
    [] op = "<=" -> Truth(l <= r)
    [] op = ">"  -> Truth(l > r)
    [] op = ">=" -> Truth(l >= r)
    [] op = "==" -> Truth(l = r)
    [] op = "!=" -> Truth(l # r)
    [] op = "&&" -> Truth(l # 0 /\ r # 0)
    [] op = "||" -> Truth(l # 0 \/ r # 0)
    [] op = "+"  -> l + r
    [] op = "-"  -> l - r
    [] op = "*"  -> l * r

\* get_left_most follows the right operands, get_right_most the left ones: each
\* is the operand next to the outer comparison.
get_left_most(e) ==
  LET most[t \in Written] == IF is_binary_expr(t) THEN most[t.right] ELSE t IN most[e]

get_right_most(e) ==
  LET most[t \in Written] == IF is_binary_expr(t) THEN most[t.left] ELSE t IN most[e]

\* Mutant: the operand the two comparisons share is taken from the wrong end.
transform_outer(e) ==
  LET result[t \in Written] ==
        IF is_binary_comparison(t) /\ is_binary_comparison(t.left)
        THEN make_expr("&&", result[t.left],
                       make_expr(t.op, get_right_most(t.left), t.right))
        ELSE t
  IN  result[e]

\* the comparison between the chains (or single operands) on its two sides
between(t) ==
  make_expr(t.op, IF is_binary_comparison(t.left) THEN get_left_most(t.left) ELSE t.left,
                  IF is_binary_comparison(t.right) THEN get_right_most(t.right) ELSE t.right)

\* a comparison of comparisons becomes a conjunction of comparisons
transform(e) ==
  LET result[t \in Written] ==
        IF ~is_binary_comparison(t) THEN t
        ELSE LET upto == IF is_binary_comparison(t.left)
                         THEN make_expr("&&", result[t.left], between(t)) ELSE between(t)
             IN  IF is_binary_comparison(t.right)
                 THEN make_expr("&&", upto, result[t.right]) ELSE upto
  IN  result[e]

\* what an annotation keeps: a placeholder alone is left as it is
expect(e) == IF is_binary_expr(e) THEN transform(e) ELSE e

eval(e, args) ==
  LET value[t \in Expr] ==
        IF is_binary_expr(t) THEN eval_operator(t.op, value[t.left], value[t.right])
        ELSE IF t.op = "placeholder" THEN args[t.index] ELSE t.value
  IN  value[e]

\* eval_verbose also lists the terms that came out false, operands first.
\* Mutant: && stops at a left operand that is false.
failed_lazily(e, args) ==
  LET failed[t \in Expr] ==
        IF ~is_binary_expr(t) THEN <<>>
        ELSE failed[t.left]
             \o (IF t.op = "&&" /\ eval(t.left, args) = 0 THEN <<>> ELSE failed[t.right])
             \o (IF eval(t, args) = 0 THEN <<t>> ELSE <<>>)
  IN  failed[e]

failed_terms(e, args) ==
  LET failed[t \in Expr] ==
        IF ~is_binary_expr(t) THEN <<>>
        ELSE failed[t.left] \o failed[t.right]
             \o (IF eval(t, args) = 0 THEN <<t>> ELSE <<>>)
  IN  failed[e]

-----------------------------------------------------------------------------
(* What an expectation means: a comparison whose operand is a comparison goes *)
(* on where that one ends.                                                    *)

LeftEnd(e) ==
  LET end[t \in Written] == IF is_binary_comparison(t) THEN end[t.left] ELSE t IN end[e]

RightEnd(e) ==
  LET end[t \in Written] == IF is_binary_comparison(t) THEN end[t.right] ELSE t IN end[e]

Meaning(e, args) ==
  LET meaning[t \in Written] ==
        IF ~is_binary_expr(t) THEN eval(t, args)
        ELSE IF ~is_binary_comparison(t)
        THEN eval_operator(t.op, meaning[t.left], meaning[t.right])
        ELSE Truth(/\ is_binary_comparison(t.left) => meaning[t.left] # 0
                   /\ eval_operator(t.op, meaning[RightEnd(t.left)],
                                          meaning[LeftEnd(t.right)]) # 0
                   /\ is_binary_comparison(t.right) => meaning[t.right] # 0)
  IN  meaning[e]

\* the comparisons a chain consists of
Neighbours(e) ==
  LET pairs[t \in Written] ==
        IF ~is_binary_comparison(t) THEN {}
        ELSE {make_expr(t.op, RightEnd(t.left), LeftEnd(t.right))}
             \cup pairs[t.left] \cup pairs[t.right]
  IN  pairs[e]

IsChain(t) ==
  is_binary_comparison(t) /\ (is_binary_comparison(t.left) \/ is_binary_comparison(t.right))

HasChain(e) ==
  LET has[t \in Written] == is_binary_expr(t) /\ (IsChain(t) \/ has[t.left] \/ has[t.right])
  IN  has[e]

\* What the code understands: a chain is the whole expectation, and the operand
\* two of its comparisons share is not computed.
Understood(e) ==
  LET understood[t \in Written] ==
        IF ~is_binary_comparison(t) THEN ~HasChain(t)
        ELSE /\ IF is_binary_comparison(t.left)
                THEN understood[t.left] /\ ~is_binary_expr(RightEnd(t.left))
                ELSE ~HasChain(t.left)
             /\ IF is_binary_comparison(t.right)
                THEN understood[t.right] /\ ~is_binary_expr(LeftEnd(t.right))
                ELSE ~HasChain(t.right)
  IN  understood[e]

-----------------------------------------------------------------------------
(* A program writes an expectation, the compiler keeps what it is transformed  *)
(* into, and every value is checked against that.                              *)

VARIABLES
  written,   \* the expression of the annotation
  kept,      \* the tree that is evaluated
  checked    \* the last check, if there was one: arguments, result, terms that failed

expectVars == <<written, kept, checked>>

ExpectInit ==
  /\ written \in Expectations
  /\ kept = expect(written)
  /\ checked = {}

\* eval_verbose, as Unevaluated::validate calls it: a refusal ends the program
Check(args) ==
  /\ \A check \in checked : check.value # 0
  /\ checked' = {[args |-> args, value |-> eval(kept, args),
                  failed |-> failed_terms(kept, args)]}
  /\ UNCHANGED <<written, kept>>

ExpectNext == \E args \in Arguments : Check(args)

ExpectSpec == ExpectInit /\ [][ExpectNext]_expectVars

Reports(check, term) == \E i \in 1..Len(check.failed) : check.failed[i] = term

\* A chained comparison holds of a value exactly when each of its comparisons
\* does, although the code finds the operand two of them share by descending
\* through the tree (get_left_most, get_right_most, transform).
ChainsMeanConjunctions ==
  Understood(written) =>
    \A check \in checked : check.value # 0 <=> Meaning(written, check.args) # 0

\* A refused argument is explained in full by eval_verbose: for a comparison the
\* code understands, the comparisons of neighbouring operands that are reported
\* are exactly those that are false, also to the right of one that failed
\* already; and the last term reported (the first printed) is the whole.
RefusalExplained ==
  is_binary_comparison(written) /\ Understood(written) =>
    \A check \in checked :
      /\ check.value = 0 => /\ check.failed # <<>>
                            /\ check.failed[Len(check.failed)] = kept
      /\ \A c \in Neighbours(written) :
           Reports(check, c) <=> Meaning(c, check.args) = 0
=============================================================================
