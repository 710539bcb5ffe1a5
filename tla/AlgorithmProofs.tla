-------------------------- MODULE AlgorithmProofs --------------------------
(***************************************************************************)
(* Proofs about Expect, for expressions of every height, any number of     *)
(* arguments and any values, and about StringTrie, for all lists of words  *)
(* and all strings.                                                        *)
(*                                                                         *)
(* Expressions are the levels of a recursive function of the height.  The  *)
(* first lemmas say what that function is (Level), how to argue by         *)
(* induction over expressions (Induction) and that a recursive definition  *)
(* over them has a solution (Recursion).  Then there is one lemma for each *)
(* operator of the module that is recursive, and the argument itself.      *)
(*                                                                         *)
(* Nodes of a trie are paths, so the lemmas the second part starts from    *)
(* are about strings and their prefixes.  The inductive invariant TrieInv  *)
(* is preserved by each step of the insertion, and of a lookup.            *)
(***************************************************************************)
EXTENDS Expect, StringTrie, SequenceTheorems, WellFoundedInduction, TLAPS

LEMMA LeastOf ==
  ASSUME NEW S \in SUBSET Nat, S # {}
  PROVE  \E m \in S : \A n \in S : m <= n
<1>1. PICK m \in S : \A n \in S : <<n, m>> \notin OpToRel(<, Nat)
  BY WFMin, NatLessThanWellFounded, Zenon
<1>2. \A n \in S : ~(n < m)
  BY <1>1 DEF OpToRel
<1>3. QED BY <1>2

-----------------------------------------------------------------------------
(* Heights.                                                                *)

Nodes(S) == [op : Ops, left : S, right : S]

Upto(h, f) == f = [n \in 0..h |-> IF n = 0 THEN Leaves ELSE Leaves \cup Nodes(f[n - 1])]

Level(h) == CHOOSE f : Upto(h, f)

\* The levels can be built one after the other.
LEMMA LevelExists ==
  ASSUME NEW h \in Nat
  PROVE  /\ Level(h)[0] = Leaves
         /\ \A n \in 1..h : Level(h)[n] = Leaves \cup Nodes(Level(h)[n - 1])
<1> DEFINE S == {n \in 0..h : ~\E f : Upto(n, f)}
<1>1. \A n \in 0..h : \E f : Upto(n, f)
  <2>1. SUFFICES ASSUME S # {} PROVE FALSE OBVIOUS
  <2>2. PICK m \in S : \A n \in S : m <= n
    <3>1. S \in SUBSET Nat OBVIOUS
    <3> HIDE DEF S
    <3>2. QED BY <2>1, <3>1, LeastOf
  <2>3. CASE m = 0
    <3>1. Upto(0, [k \in 0..0 |-> Leaves]) BY DEF Upto
    <3>2. QED BY <2>2, <2>3, <3>1
  <2>4. CASE m # 0
    <3>1. m \in Nat /\ m - 1 \in 0..h /\ m - 1 \notin S BY <2>2, <2>4
    <3>2. PICK f : Upto(m - 1, f) BY <3>1
    <3> DEFINE g == [k \in 0..m |-> IF k = m THEN Leaves \cup Nodes(f[m - 1]) ELSE f[k]]
    <3>3. \A k \in 0..m : g[k] = IF k = 0 THEN Leaves ELSE Leaves \cup Nodes(g[k - 1])
      <4>1. SUFFICES ASSUME NEW k \in 0..m
                     PROVE  g[k] = IF k = 0 THEN Leaves ELSE Leaves \cup Nodes(g[k - 1])
        OBVIOUS
      <4>2. CASE k = m
        <5>1. m - 1 \in 0..m /\ m - 1 # m BY <3>1, <2>4
        <5>2. g[m - 1] = f[m - 1] /\ g[m] = Leaves \cup Nodes(f[m - 1]) BY <3>1, <5>1
        <5>3. QED BY <2>4, <4>2, <5>2
      <4>3. CASE k # m
        <5>1. k \in 0..m - 1 BY <3>1, <4>3
        <5>2. f[k] = IF k = 0 THEN Leaves ELSE Leaves \cup Nodes(f[k - 1])
          BY <3>2, <5>1 DEF Upto
        <5>3. g[k] = f[k] BY <4>3
        <5>4. k # 0 => g[k - 1] = f[k - 1]
          <6>1. k # 0 => k - 1 \in 0..m /\ k - 1 # m BY <3>1, <5>1
          <6>2. QED BY <6>1
        <5>5. QED BY <5>2, <5>3, <5>4
      <4>4. QED BY <4>2, <4>3
    <3>4. Upto(m, g) BY <3>3 DEF Upto
    <3>5. QED BY <2>2, <3>4
  <2>5. QED BY <2>3, <2>4
<1>2. Upto(h, Level(h))
  <2>1. \E f : Upto(h, f) BY <1>1
  <2> HIDE DEF Upto
  <2>2. QED BY <2>1 DEF Level
<1> HIDE DEF S
<1>3. Level(h)[0] = Leaves BY <1>2 DEF Upto
<1>4. ASSUME NEW n \in 1..h PROVE Level(h)[n] = Leaves \cup Nodes(Level(h)[n - 1])
  <2>1. n \in 0..h /\ n # 0 OBVIOUS
  <2>2. QED BY <1>2, <2>1 DEF Upto
<1>5. QED BY <1>3, <1>4

LEMMA LevelsAgree ==
  ASSUME NEW h \in Nat
  PROVE  \A n \in 0..h : Level(h + 1)[n] = Level(h)[n]
<1> DEFINE S == {n \in 0..h : Level(h + 1)[n] # Level(h)[n]}
<1>1. SUFFICES ASSUME S # {} PROVE FALSE OBVIOUS
<1>2. PICK m \in S : \A n \in S : m <= n
  <2>1. S \in SUBSET Nat OBVIOUS
  <2> HIDE DEF S
  <2>2. QED BY <1>1, <2>1, LeastOf
<1>3. m # 0
  <2>1. Level(h + 1)[0] = Level(h)[0] BY LevelExists
  <2>2. QED BY <1>2, <2>1
<1>4. m \in 1..h /\ m \in 1..h + 1 /\ m - 1 \in 0..h BY <1>2, <1>3
<1>5. Level(h + 1)[m - 1] = Level(h)[m - 1] BY <1>2, <1>4
<1>6. /\ Level(h + 1)[m] = Leaves \cup Nodes(Level(h + 1)[m - 1])
      /\ Level(h)[m] = Leaves \cup Nodes(Level(h)[m - 1])
  BY <1>4, LevelExists
<1>7. QED BY <1>2, <1>5, <1>6

LEMMA Heights ==
  /\ Expressions(0) = Leaves
  /\ \A h \in Nat : Expressions(h + 1) = Leaves \cup Nodes(Expressions(h))
<1>1. \A h \in Nat : Expressions(h) = Level(h)[h]
  <2>1. SUFFICES ASSUME NEW h \in Nat PROVE Expressions(h) = Level(h)[h] OBVIOUS
  <2>2. QED BY Zenon DEF Expressions, Level, Upto, Nodes
<1>2. Expressions(0) = Leaves BY <1>1, LevelExists
<1>3. ASSUME NEW h \in Nat PROVE Expressions(h + 1) = Leaves \cup Nodes(Expressions(h))
  <2>1. h + 1 \in Nat /\ h + 1 \in 1..h + 1 /\ (h + 1) - 1 = h /\ h \in 0..h OBVIOUS
  <2>2. Level(h + 1)[h + 1] = Leaves \cup Nodes(Level(h + 1)[h]) BY <2>1, LevelExists
  <2>3. Level(h + 1)[h] = Level(h)[h] BY <2>1, LevelsAgree
  <2>4. QED BY <1>1, <2>1, <2>2, <2>3
<1>4. QED BY <1>2, <1>3

\* What an expression is made of.
LEMMA LeafShape ==
  ASSUME NEW t \in Leaves
  PROVE  /\ ~is_binary_expr(t) /\ ~is_binary_comparison(t)
         /\ \/ t.op = "constant" /\ t.value \in Int
            \/ t.op = "placeholder" /\ t.index \in 1..Arity
BY DEF Leaves, is_binary_expr, is_binary_comparison

LEMMA NodeShape ==
  ASSUME NEW S, NEW t \in Nodes(S)
  PROVE  /\ t.op \in Ops /\ t.left \in S /\ t.right \in S /\ is_binary_expr(t)
         /\ t = make_expr(t.op, t.left, t.right)
<1>1. t.op \in Ops /\ t.left \in S /\ t.right \in S BY DEF Nodes
<1>2. t = make_expr(t.op, t.left, t.right) BY DEF Nodes, make_expr
<1>3. QED BY <1>1, <1>2 DEF Ops, is_binary_expr

LEMMA ExprShape ==
  ASSUME NEW h \in Nat, NEW t \in Expressions(h)
  PROVE  /\ ~is_binary_expr(t) => t \in Leaves
         /\ is_binary_expr(t) =>
              /\ h > 0 /\ h - 1 \in Nat /\ t.op \in Ops
              /\ t.left \in Expressions(h - 1) /\ t.right \in Expressions(h - 1)
              /\ t = make_expr(t.op, t.left, t.right)
<1>1. CASE h = 0 BY <1>1, Heights, LeafShape
<1>2. CASE h # 0
  <2>1. h - 1 \in Nat /\ h = (h - 1) + 1 BY <1>2
  <2>2. Expressions(h) = Leaves \cup Nodes(Expressions(h - 1)) BY <2>1, Heights, Zenon
  <2>3. CASE t \in Leaves BY <2>3, LeafShape
  <2>4. CASE t \in Nodes(Expressions(h - 1)) BY <1>2, <2>1, <2>4, NodeShape
  <2>5. QED BY <2>2, <2>3, <2>4
<1>3. QED BY <1>1, <1>2

LEMMA Comparisons ==
  ASSUME NEW t, is_binary_comparison(t)
  PROVE  is_binary_expr(t) /\ t.op \in Ops /\ t.op \notin {"&&", "||", "+", "-", "*"}
BY DEF is_binary_comparison, is_binary_expr, Ops

LEMMA Made ==
  ASSUME NEW op \in Ops, NEW l, NEW r
  PROVE  LET t == make_expr(op, l, r) IN
         /\ t.op = op /\ t.left = l /\ t.right = r /\ is_binary_expr(t)
         /\ is_binary_comparison(t) <=> op \in {"<", "<=", ">", ">=", "==", "!="}
BY DEF make_expr, is_binary_expr, is_binary_comparison, Ops

LEMMA MadeHeight ==
  ASSUME NEW h \in Nat, NEW op \in Ops, NEW l \in Expressions(h), NEW r \in Expressions(h)
  PROVE  make_expr(op, l, r) \in Expressions(h + 1)
<1>1. make_expr(op, l, r) \in Nodes(Expressions(h)) BY DEF make_expr, Nodes
<1>2. QED BY <1>1, Heights

LEMMA Grows ==
  ASSUME NEW h \in Nat
  PROVE  Expressions(h) \subseteq Expressions(h + 1)
<1> DEFINE S == {n \in Nat : ~(Expressions(n) \subseteq Expressions(n + 1))}
<1>1. SUFFICES ASSUME S # {} PROVE FALSE OBVIOUS
<1>2. PICK m \in S : \A n \in S : m <= n
  <2>1. S \in SUBSET Nat OBVIOUS
  <2> HIDE DEF S
  <2>2. QED BY <1>1, <2>1, LeastOf
<1>3. m # 0
  <2>1. Expressions(0) \subseteq Expressions(0 + 1) BY Heights
  <2>2. QED BY <1>2, <2>1
<1>4. m - 1 \in Nat /\ m - 1 \notin S /\ (m - 1) + 1 = m BY <1>2, <1>3
<1>5. Expressions(m - 1) \subseteq Expressions(m) BY <1>4
<1>6. /\ Expressions(m) = Leaves \cup Nodes(Expressions(m - 1))
      /\ Expressions(m + 1) = Leaves \cup Nodes(Expressions(m))
  BY <1>2, <1>4, Heights, Zenon
<1>7. Nodes(Expressions(m - 1)) \subseteq Nodes(Expressions(m)) BY <1>5 DEF Nodes
<1>8. QED BY <1>2, <1>6, <1>7

LEMMA Taller ==
  ASSUME NEW h \in Nat, NEW n \in 0..h
  PROVE  Expressions(n) \subseteq Expressions(h)
<1> DEFINE S == {m \in n..h : ~(Expressions(n) \subseteq Expressions(m))}
<1>1. SUFFICES ASSUME S # {} PROVE FALSE
  <2>1. h \in n..h OBVIOUS
  <2>2. QED BY <2>1
<1>2. PICK m \in S : \A k \in S : m <= k
  <2>1. S \in SUBSET Nat OBVIOUS
  <2> HIDE DEF S
  <2>2. QED BY <1>1, <2>1, LeastOf
<1>3. m # n BY <1>2
<1>4. m - 1 \in Nat /\ m - 1 \in n..h /\ m - 1 \notin S /\ (m - 1) + 1 = m BY <1>2, <1>3
<1>5. Expressions(n) \subseteq Expressions(m - 1) BY <1>4
<1>6. Expressions(m - 1) \subseteq Expressions(m) BY <1>4, Grows
<1>7. QED BY <1>2, <1>5, <1>6

\* What holds of the leaves, and of an operator when it holds of its operands,
\* holds of every expression.
LEMMA Induction ==
  ASSUME NEW h \in Nat, NEW P,
         \A t \in Leaves : t \in P,
         \A t \in Expressions(h) : is_binary_expr(t) /\ t.left \in P /\ t.right \in P => t \in P
  PROVE  Expressions(h) \subseteq P
<1> DEFINE S == {n \in 0..h : ~(Expressions(n) \subseteq P)}
<1>1. SUFFICES ASSUME S # {} PROVE FALSE
  <2>1. h \in 0..h OBVIOUS
  <2>2. QED BY <2>1
<1>2. PICK m \in S : \A k \in S : m <= k
  <2>1. S \in SUBSET Nat OBVIOUS
  <2> HIDE DEF S
  <2>2. QED BY <1>1, <2>1, LeastOf
<1>3. m \in Nat /\ m \in 0..h BY <1>2
<1>4. PICK t \in Expressions(m) : t \notin P BY <1>2
<1>5. is_binary_expr(t) BY <1>3, <1>4, ExprShape
<1>6. /\ m - 1 \in Nat /\ t.left \in Expressions(m - 1) /\ t.right \in Expressions(m - 1)
  BY <1>3, <1>5, ExprShape
<1>7. m - 1 \in 0..h /\ m - 1 \notin S BY <1>2, <1>3, <1>6
<1>8. t.left \in P /\ t.right \in P BY <1>6, <1>7
<1>9. t \in Expressions(h) BY <1>3, Taller
<1>10. QED BY <1>4, <1>5, <1>8, <1>9

(* A definition by recursion over the expressions of a height has a solution  *)
(* if what it says of an expression depends on lower expressions only.        *)
Local(h, V, step) ==
  \A n \in 0..h : \A t \in Expressions(n) : \A f, g \in [Expressions(h) -> V] :
    (n > 0 => \A s \in Expressions(n - 1) : f[s] = g[s]) => step[<<t, f>>] = step[<<t, g>>]

Solvable(h, V, step) ==
  \E f \in [Expressions(h) -> V] : \A t \in Expressions(h) : f[t] = step[<<t, f>>]

LEMMA Recursion ==
  ASSUME NEW h \in Nat, NEW V, NEW v \in V,
         NEW step \in [Expressions(h) \X [Expressions(h) -> V] -> V], Local(h, V, step)
  PROVE  Solvable(h, V, step)
<1> DEFINE Functions == [Expressions(h) -> V]
           Solves(f, n) == \A t \in Expressions(n) : f[t] = step[<<t, f>>]
           S == {n \in 0..h : ~\E f \in Functions : Solves(f, n)}
<1>1. SUFFICES ASSUME S # {} PROVE FALSE
  <2>1. h \in 0..h OBVIOUS
  <2>2. QED BY <2>1 DEF Solvable
<1>2. PICK m \in S : \A k \in S : m <= k
  <2>1. S \in SUBSET Nat OBVIOUS
  <2> HIDE DEF S
  <2>2. QED BY <1>1, <2>1, LeastOf
<1>3. m \in Nat /\ m \in 0..h BY <1>2
<1>4. PICK f \in Functions : m > 0 => Solves(f, m - 1)
  <2>1. CASE m = 0
    <3>1. [t \in Expressions(h) |-> v] \in Functions OBVIOUS
    <3>2. ~(m > 0) BY <2>1
    <3>3. QED BY <3>1, <3>2, Zenon
  <2>2. CASE m # 0
    <3>1. m - 1 \in 0..h /\ m - 1 \notin S BY <1>2, <1>3, <2>2
    <3>2. QED BY <3>1
  <2>3. QED BY <2>1, <2>2
<1> DEFINE low(t) == m > 0 /\ t \in Expressions(m - 1)
           g == [t \in Expressions(h) |-> IF low(t) THEN f[t] ELSE step[<<t, f>>]]
<1>5. g \in Functions
  <2>1. \A t \in Expressions(h) : f[t] \in V /\ step[<<t, f>>] \in V BY <1>4
  <2>2. QED BY <2>1
<1>6. m > 0 => \A s \in Expressions(m - 1) : f[s] = g[s]
  <2>1. m > 0 => m - 1 \in 0..h BY <1>3
  <2>2. m > 0 => Expressions(m - 1) \subseteq Expressions(h) BY <2>1, Taller
  <2>3. QED BY <2>2
<1>7. Expressions(m) \subseteq Expressions(h) BY <1>3, Taller
<1>8. Solves(g, m)
  <2>1. SUFFICES ASSUME NEW t \in Expressions(m) PROVE g[t] = step[<<t, g>>] OBVIOUS
  <2>2. step[<<t, f>>] = step[<<t, g>>]
    <3> HIDE DEF g
    <3>1. QED BY <1>3, <1>4, <1>5, <1>6 DEF Local
  <2>3. g[t] = step[<<t, f>>]
    <3>1. CASE low(t) BY <1>4, <1>7, <3>1
    <3>2. CASE ~low(t) BY <1>7, <3>2
    <3>3. QED BY <3>1, <3>2
  <2>4. QED BY <2>2, <2>3
<1> HIDE DEF g, Solves
<1>9. QED BY <1>2, <1>5, <1>8

-----------------------------------------------------------------------------
(* The recursive operators.                                                *)

LEMMA Operands ==
  ASSUME NEW h \in Nat, NEW t \in Expressions(h), is_binary_expr(t)
  PROVE  t.left \in Expressions(h) /\ t.right \in Expressions(h)
<1>1. /\ h - 1 \in 0..h
      /\ t.left \in Expressions(h - 1) /\ t.right \in Expressions(h - 1)
  BY ExprShape
<1>2. QED BY <1>1, Taller

LEMMA WrittenOperands ==
  ASSUME NEW t \in Written, is_binary_expr(t)
  PROVE  t.left \in Written /\ t.right \in Written
BY ExpectAssumption, Operands DEF Written

LEMMA SomeLeaf ==
  ASSUME NEW h \in Nat
  PROVE  Constant(0) \in Leaves /\ Constant(0) \in Expressions(h)
<1>1. Constant(0) \in Leaves BY DEF Constant, Leaves
<1>2. 0 \in 0..h OBVIOUS
<1>3. QED BY <1>1, <1>2, Taller, Heights

\* Most definitions look at the operands only.
Structural(h, V, step) ==
  \A t \in Expressions(h) : \A f, g \in [Expressions(h) -> V] :
    (is_binary_expr(t) => f[t.left] = g[t.left] /\ f[t.right] = g[t.right]) =>
      step[<<t, f>>] = step[<<t, g>>]

LEMMA StructuralRecursion ==
  ASSUME NEW h \in Nat, NEW V, NEW v \in V,
         NEW step \in [Expressions(h) \X [Expressions(h) -> V] -> V], Structural(h, V, step)
  PROVE  Solvable(h, V, step)
<1>1. ASSUME NEW n \in 0..h, NEW t \in Expressions(n),
             NEW f \in [Expressions(h) -> V], NEW g \in [Expressions(h) -> V],
             n > 0 => \A s \in Expressions(n - 1) : f[s] = g[s]
      PROVE  step[<<t, f>>] = step[<<t, g>>]
  <2>1. n \in Nat /\ t \in Expressions(h) BY Taller
  <2>2. is_binary_expr(t) => f[t.left] = g[t.left] /\ f[t.right] = g[t.right]
    BY <1>1, <2>1, ExprShape
  <2>3. QED BY <2>1, <2>2 DEF Structural
<1>2. Local(h, V, step) BY <1>1 DEF Local
<1>3. QED BY <1>2, Recursion

(* A walk goes from some expressions to one of their operands and stops at  *)
(* the others.                                                              *)
LEMMA Walk ==
  ASSUME NEW go \in SUBSET Written, NEW next \in [go -> Written],
         \A t \in go : is_binary_expr(t) /\ next[t] \in {t.left, t.right}
  PROVE  \E f \in [Written -> Written] :
           f = [t \in Written |-> IF t \in go THEN f[next[t]] ELSE t]
<1> DEFINE D == Written
           Body(t, f) == IF t \in go THEN f[next[t]] ELSE t
           step == [p \in D \X [D -> D] |-> Body(p[1], p[2])]
<1>1. MaxHeight \in Nat /\ D = Expressions(MaxHeight) BY ExpectAssumption DEF Written
<1>2. step \in [D \X [D -> D] -> D] OBVIOUS
<1>3. \A t \in D, f \in [D -> D] : step[<<t, f>>] = Body(t, f) OBVIOUS
<1>4. Structural(MaxHeight, D, step)
  <2>1. ASSUME NEW t \in D, NEW f \in [D -> D], NEW g \in [D -> D],
               is_binary_expr(t) => f[t.left] = g[t.left] /\ f[t.right] = g[t.right]
        PROVE  step[<<t, f>>] = step[<<t, g>>]
    <3>1. Body(t, f) = Body(t, g) BY <2>1
    <3> HIDE DEF step, Body
    <3>2. QED BY <1>3, <3>1
  <2> HIDE DEF step, D
  <2>2. QED BY <1>1, <2>1 DEF Structural
<1>5. PICK v \in D : TRUE BY <1>1, SomeLeaf
<1> HIDE DEF step, D
<1>6. PICK f \in [D -> D] : \A t \in D : f[t] = step[<<t, f>>]
  <2>1. Solvable(MaxHeight, D, step) BY <1>1, <1>2, <1>4, <1>5, StructuralRecursion
  <2>2. QED BY <1>1, <2>1 DEF Solvable
<1>7. \A t \in D : f[t] = Body(t, f) BY <1>3, <1>6, Zenon
<1>8. f = [t \in D |-> Body(t, f)]
  <2> HIDE DEF Body
  <2>1. QED BY <1>7
<1>9. QED BY <1>8 DEF D

LEMMA LowerWritten ==
  ASSUME NEW n \in 0..MaxHeight
  PROVE  n \in Nat /\ Leaves \subseteq Expressions(n) /\ Expressions(n) \subseteq Written
<1>1. MaxHeight \in Nat /\ n \in Nat /\ 0 \in 0..n BY ExpectAssumption
<1>2. Leaves \subseteq Expressions(n) BY <1>1, Taller, Heights
<1>3. QED BY <1>1, <1>2, Taller DEF Written

(* Where a chain begins, *)
LEMMA LeftEnds ==
  /\ \A t \in Written : LeftEnd(t) = IF is_binary_comparison(t) THEN LeftEnd(t.left) ELSE t
  /\ \A n \in 0..MaxHeight : \A t \in Expressions(n) :
       LeftEnd(t) \in Expressions(n) /\ ~is_binary_comparison(LeftEnd(t))
<1> DEFINE go == {t \in Written : is_binary_comparison(t)}
           next == [t \in go |-> t.left]
           Body(t, f) == IF is_binary_comparison(t) THEN f[t.left] ELSE t
           Is(f) == f = [t \in Written |-> Body(t, f)]
           walk == CHOOSE f : Is(f)
<1>1. \A t \in go : is_binary_expr(t) /\ t.left \in Written /\ t.right \in Written
  BY WrittenOperands, Comparisons
<1>2. next \in [go -> Written] /\ \A t \in go : next[t] = t.left BY <1>1
<1>3. PICK f \in [Written -> Written] : f = [t \in Written |-> IF t \in go THEN f[next[t]] ELSE t]
  <2>1. /\ go \in SUBSET Written
        /\ \A t \in go : is_binary_expr(t) /\ next[t] \in {t.left, t.right}
    BY <1>1, <1>2
  <2> HIDE DEF go, next
  <2>2. QED BY <1>2, <2>1, Walk
<1>4. \A t \in Written : f[t] = Body(t, f) BY <1>2, <1>3
<1>5. Is(f)
  <2> HIDE DEF Body
  <2>1. QED BY <1>3, <1>4
<1>6. Is(walk)
  <2> HIDE DEF Is
  <2>1. QED BY <1>5
<1>7. \A t : LeftEnd(t) = walk[t] BY Zenon DEF LeftEnd
<1> HIDE DEF walk
<1>8. \A t \in Written : walk[t] = Body(t, walk)
  <2> HIDE DEF Body
  <2>1. QED BY <1>6
<1>9. \A t \in Written : LeftEnd(t) = IF is_binary_comparison(t) THEN LeftEnd(t.left) ELSE t BY <1>7, <1>8
<1>10. ASSUME NEW n \in 0..MaxHeight, NEW t \in Expressions(n)
       PROVE  LeftEnd(t) \in Expressions(n) /\ ~is_binary_comparison(LeftEnd(t))
  <2> DEFINE P == {e \in Written : LeftEnd(e) \in Expressions(n) /\ ~is_binary_comparison(LeftEnd(e))}
  <2>1. n \in Nat /\ Leaves \subseteq Expressions(n) /\ Expressions(n) \subseteq Written
    BY LowerWritten
  <2>2. \A e \in Leaves : e \in P BY <1>9, <2>1, LeafShape
  <2>3. ASSUME NEW e \in Expressions(n), e.left \in P PROVE e \in P BY <1>9, <2>1, <2>3
  <2> HIDE DEF P
  <2>4. Expressions(n) \subseteq P BY <2>1, <2>2, <2>3, Induction
  <2>5. QED BY <2>4 DEF P
<1>11. QED BY <1>9, <1>10

(* and where it ends. *)
LEMMA RightEnds ==
  /\ \A t \in Written : RightEnd(t) = IF is_binary_comparison(t) THEN RightEnd(t.right) ELSE t
  /\ \A n \in 0..MaxHeight : \A t \in Expressions(n) :
       RightEnd(t) \in Expressions(n) /\ ~is_binary_comparison(RightEnd(t))
<1> DEFINE go == {t \in Written : is_binary_comparison(t)}
           next == [t \in go |-> t.right]
           Body(t, f) == IF is_binary_comparison(t) THEN f[t.right] ELSE t
           Is(f) == f = [t \in Written |-> Body(t, f)]
           walk == CHOOSE f : Is(f)
<1>1. \A t \in go : is_binary_expr(t) /\ t.left \in Written /\ t.right \in Written
  BY WrittenOperands, Comparisons
<1>2. next \in [go -> Written] /\ \A t \in go : next[t] = t.right BY <1>1
<1>3. PICK f \in [Written -> Written] : f = [t \in Written |-> IF t \in go THEN f[next[t]] ELSE t]
  <2>1. /\ go \in SUBSET Written
        /\ \A t \in go : is_binary_expr(t) /\ next[t] \in {t.left, t.right}
    BY <1>1, <1>2
  <2> HIDE DEF go, next
  <2>2. QED BY <1>2, <2>1, Walk
<1>4. \A t \in Written : f[t] = Body(t, f) BY <1>2, <1>3
<1>5. Is(f)
  <2> HIDE DEF Body
  <2>1. QED BY <1>3, <1>4
<1>6. Is(walk)
  <2> HIDE DEF Is
  <2>1. QED BY <1>5
<1>7. \A t : RightEnd(t) = walk[t] BY Zenon DEF RightEnd
<1> HIDE DEF walk
<1>8. \A t \in Written : walk[t] = Body(t, walk)
  <2> HIDE DEF Body
  <2>1. QED BY <1>6
<1>9. \A t \in Written : RightEnd(t) = IF is_binary_comparison(t) THEN RightEnd(t.right) ELSE t BY <1>7, <1>8
<1>10. ASSUME NEW n \in 0..MaxHeight, NEW t \in Expressions(n)
       PROVE  RightEnd(t) \in Expressions(n) /\ ~is_binary_comparison(RightEnd(t))
  <2> DEFINE P == {e \in Written : RightEnd(e) \in Expressions(n) /\ ~is_binary_comparison(RightEnd(e))}
  <2>1. n \in Nat /\ Leaves \subseteq Expressions(n) /\ Expressions(n) \subseteq Written
    BY LowerWritten
  <2>2. \A e \in Leaves : e \in P BY <1>9, <2>1, LeafShape
  <2>3. ASSUME NEW e \in Expressions(n), e.right \in P PROVE e \in P BY <1>9, <2>1, <2>3
  <2> HIDE DEF P
  <2>4. Expressions(n) \subseteq P BY <2>1, <2>2, <2>3, Induction
  <2>5. QED BY <2>4 DEF P
<1>11. QED BY <1>9, <1>10

(* Where the code looks for the end of what is on the left, *)
LEMMA LeftMosts ==
  /\ \A t \in Written : get_left_most(t) = IF is_binary_expr(t) THEN get_left_most(t.right) ELSE t
  /\ \A t \in Written : get_left_most(t) \in Leaves
<1> DEFINE go == {t \in Written : is_binary_expr(t)}
           next == [t \in go |-> t.right]
           Body(t, f) == IF is_binary_expr(t) THEN f[t.right] ELSE t
           Is(f) == f = [t \in Written |-> Body(t, f)]
           walk == CHOOSE f : Is(f)
<1>1. \A t \in go : is_binary_expr(t) /\ t.left \in Written /\ t.right \in Written
  BY WrittenOperands, Comparisons
<1>2. next \in [go -> Written] /\ \A t \in go : next[t] = t.right BY <1>1
<1>3. PICK f \in [Written -> Written] : f = [t \in Written |-> IF t \in go THEN f[next[t]] ELSE t]
  <2>1. /\ go \in SUBSET Written
        /\ \A t \in go : is_binary_expr(t) /\ next[t] \in {t.left, t.right}
    BY <1>1, <1>2
  <2> HIDE DEF go, next
  <2>2. QED BY <1>2, <2>1, Walk
<1>4. \A t \in Written : f[t] = Body(t, f) BY <1>2, <1>3
<1>5. Is(f)
  <2> HIDE DEF Body
  <2>1. QED BY <1>3, <1>4
<1>6. Is(walk)
  <2> HIDE DEF Is
  <2>1. QED BY <1>5
<1>7. \A t : get_left_most(t) = walk[t] BY Zenon DEF get_left_most
<1> HIDE DEF walk
<1>8. \A t \in Written : walk[t] = Body(t, walk)
  <2> HIDE DEF Body
  <2>1. QED BY <1>6
<1>9. \A t \in Written : get_left_most(t) = IF is_binary_expr(t) THEN get_left_most(t.right) ELSE t BY <1>7, <1>8
<1>10. \A t \in Written : get_left_most(t) \in Leaves
  <2> DEFINE P == {e \in Written : get_left_most(e) \in Leaves}
  <2>1. MaxHeight \in Nat /\ Leaves \subseteq Written /\ Written = Expressions(MaxHeight)
    BY ExpectAssumption, LowerWritten DEF Written
  <2>2. \A e \in Leaves : e \in P BY <1>9, <2>1, LeafShape
  <2>3. ASSUME NEW e \in Written, is_binary_expr(e), e.right \in P PROVE e \in P BY <1>9, <2>3
  <2> HIDE DEF P
  <2>4. Written \subseteq P BY <2>1, <2>2, <2>3, Induction
  <2>5. QED BY <2>4 DEF P
<1>11. QED BY <1>9, <1>10

(* and for the beginning of what is on the right. *)
LEMMA RightMosts ==
  /\ \A t \in Written : get_right_most(t) = IF is_binary_expr(t) THEN get_right_most(t.left) ELSE t
  /\ \A t \in Written : get_right_most(t) \in Leaves
<1> DEFINE go == {t \in Written : is_binary_expr(t)}
           next == [t \in go |-> t.left]
           Body(t, f) == IF is_binary_expr(t) THEN f[t.left] ELSE t
           Is(f) == f = [t \in Written |-> Body(t, f)]
           walk == CHOOSE f : Is(f)
<1>1. \A t \in go : is_binary_expr(t) /\ t.left \in Written /\ t.right \in Written
  BY WrittenOperands, Comparisons
<1>2. next \in [go -> Written] /\ \A t \in go : next[t] = t.left BY <1>1
<1>3. PICK f \in [Written -> Written] : f = [t \in Written |-> IF t \in go THEN f[next[t]] ELSE t]
  <2>1. /\ go \in SUBSET Written
        /\ \A t \in go : is_binary_expr(t) /\ next[t] \in {t.left, t.right}
    BY <1>1, <1>2
  <2> HIDE DEF go, next
  <2>2. QED BY <1>2, <2>1, Walk
<1>4. \A t \in Written : f[t] = Body(t, f) BY <1>2, <1>3
<1>5. Is(f)
  <2> HIDE DEF Body
  <2>1. QED BY <1>3, <1>4
<1>6. Is(walk)
  <2> HIDE DEF Is
  <2>1. QED BY <1>5
<1>7. \A t : get_right_most(t) = walk[t] BY Zenon DEF get_right_most
<1> HIDE DEF walk
<1>8. \A t \in Written : walk[t] = Body(t, walk)
  <2> HIDE DEF Body
  <2>1. QED BY <1>6
<1>9. \A t \in Written : get_right_most(t) = IF is_binary_expr(t) THEN get_right_most(t.left) ELSE t BY <1>7, <1>8
<1>10. \A t \in Written : get_right_most(t) \in Leaves
  <2> DEFINE P == {e \in Written : get_right_most(e) \in Leaves}
  <2>1. MaxHeight \in Nat /\ Leaves \subseteq Written /\ Written = Expressions(MaxHeight)
    BY ExpectAssumption, LowerWritten DEF Written
  <2>2. \A e \in Leaves : e \in P BY <1>9, <2>1, LeafShape
  <2>3. ASSUME NEW e \in Written, is_binary_expr(e), e.left \in P PROVE e \in P BY <1>9, <2>3
  <2> HIDE DEF P
  <2>4. Written \subseteq P BY <2>1, <2>2, <2>3, Induction
  <2>5. QED BY <2>4 DEF P
<1>11. QED BY <1>9, <1>10

LEMMA ExprOperands ==
  ASSUME NEW t \in Expr, is_binary_expr(t)
  PROVE  t.left \in Expr /\ t.right \in Expr
<1>1. 2 * MaxHeight \in Nat BY ExpectAssumption
<1>2. QED BY <1>1, Operands DEF Expr

LEMMA OperatorType ==
  ASSUME NEW op \in Ops, NEW l \in Int, NEW r \in Int
  PROVE  eval_operator(op, l, r) \in Int
BY DEF eval_operator, Truth, Ops

(* Values, *)
LEMMA Evals ==
  ASSUME NEW args \in [1..Arity -> Int]
  PROVE  \A t \in Expr : 
           eval(t, args) = IF is_binary_expr(t)
                           THEN eval_operator(t.op, eval(t.left, args), eval(t.right, args))
                           ELSE IF t.op = "placeholder" THEN args[t.index] ELSE t.value
<1> DEFINE Body(t, f) == IF is_binary_expr(t) THEN eval_operator(t.op, f[t.left], f[t.right])
                         ELSE IF t.op = "placeholder" THEN args[t.index] ELSE t.value
           V == Int
           step == [p \in Expr \X [Expr -> V] |-> Body(p[1], p[2])]
           Is(f) == f = [t \in Expr |-> Body(t, f)]
           solution == CHOOSE f : Is(f)
<1>1. 2 * MaxHeight \in Nat /\ Expr = Expressions(2 * MaxHeight) BY ExpectAssumption DEF Expr
<1>2. ASSUME NEW t \in Expr, NEW f \in [Expr -> V] PROVE Body(t, f) \in V
  <2>1. CASE is_binary_expr(t)
    <3>1. t.op \in Ops /\ f[t.left] \in Int /\ f[t.right] \in Int
      BY <1>1, <2>1, ExprShape, ExprOperands
    <3>2. eval_operator(t.op, f[t.left], f[t.right]) \in Int BY <3>1, OperatorType
    <3>3. QED BY <2>1, <3>2
  <2>2. CASE ~is_binary_expr(t)
    <3>1. t \in Leaves BY <1>1, <2>2, ExprShape
    <3>2. QED BY <2>2, <3>1, LeafShape
  <2>3. QED BY <2>1, <2>2
<1>3. step \in [Expr \X [Expr -> V] -> V]
  <2> HIDE DEF Body, V
  <2>1. QED BY <1>2
<1>4. \A t \in Expr, f \in [Expr -> V] : step[<<t, f>>] = Body(t, f)
  <2> HIDE DEF Body, V
  <2>1. QED OBVIOUS
<1> HIDE DEF step
<1>5. Structural(2 * MaxHeight, V, step)
  <2>1. ASSUME NEW t \in Expr, NEW f \in [Expr -> V], NEW g \in [Expr -> V],
               is_binary_expr(t) => f[t.left] = g[t.left] /\ f[t.right] = g[t.right]
        PROVE  step[<<t, f>>] = step[<<t, g>>]
    <3>1. Body(t, f) = Body(t, g) BY <2>1
    <3> HIDE DEF Body, V
    <3>2. QED BY <1>4, <3>1
  <2> HIDE DEF V
  <2>2. QED BY <1>1, <2>1 DEF Structural
<1>6. PICK v \in V : TRUE OBVIOUS
<1> HIDE DEF V
<1>7. PICK f \in [Expr -> V] : \A t \in Expr : f[t] = step[<<t, f>>]
  <2>1. Solvable(2 * MaxHeight, V, step) BY <1>1, <1>3, <1>5, <1>6, StructuralRecursion
  <2>2. QED BY <1>1, <2>1 DEF Solvable
<1>8. \A t \in Expr : f[t] = Body(t, f) BY <1>4, <1>7, Zenon
<1>9. Is(f)
  <2> HIDE DEF Body
  <2>1. QED BY <1>8
<1>10. Is(solution)
  <2> HIDE DEF Is
  <2>1. QED BY <1>9
<1>11. \A t : eval(t, args) = solution[t] BY Zenon DEF eval
<1> HIDE DEF solution
<1>12. \A t \in Expr : solution[t] = Body(t, solution)
  <2> HIDE DEF Body
  <2>1. QED BY <1>10
<1>13. QED BY <1>11, <1>12

(* terms that fail, *)
LEMMA Failures ==
  ASSUME NEW args
  PROVE  \A t \in Expr : 
           failed_terms(t, args) =
             IF ~is_binary_expr(t) THEN <<>>
             ELSE failed_terms(t.left, args) \o failed_terms(t.right, args)
                  \o (IF eval(t, args) = 0 THEN <<t>> ELSE <<>>)
<1> DEFINE Body(t, f) == IF ~is_binary_expr(t) THEN <<>>
                         ELSE f[t.left] \o f[t.right]
                              \o (IF eval(t, args) = 0 THEN <<t>> ELSE <<>>)
           V == Seq(Expr)
           step == [p \in Expr \X [Expr -> V] |-> Body(p[1], p[2])]
           Is(f) == f = [t \in Expr |-> Body(t, f)]
           solution == CHOOSE f : Is(f)
<1>1. 2 * MaxHeight \in Nat /\ Expr = Expressions(2 * MaxHeight) BY ExpectAssumption DEF Expr
<1>2. ASSUME NEW t \in Expr, NEW f \in [Expr -> V] PROVE Body(t, f) \in V
  <2>1. is_binary_expr(t) => f[t.left] \in V /\ f[t.right] \in V BY ExprOperands
  <2>2. <<>> \in V /\ <<t>> \in V OBVIOUS
  <2>3. \A a, b \in V : a \o b \in V OBVIOUS
  <2>4. (IF eval(t, args) = 0 THEN <<t>> ELSE <<>>) \in V BY <2>2
  <2> HIDE DEF V
  <2>5. QED BY <2>1, <2>2, <2>3, <2>4
<1>3. step \in [Expr \X [Expr -> V] -> V]
  <2> HIDE DEF Body, V
  <2>1. QED BY <1>2
<1>4. \A t \in Expr, f \in [Expr -> V] : step[<<t, f>>] = Body(t, f)
  <2> HIDE DEF Body, V
  <2>1. QED OBVIOUS
<1> HIDE DEF step
<1>5. Structural(2 * MaxHeight, V, step)
  <2>1. ASSUME NEW t \in Expr, NEW f \in [Expr -> V], NEW g \in [Expr -> V],
               is_binary_expr(t) => f[t.left] = g[t.left] /\ f[t.right] = g[t.right]
        PROVE  step[<<t, f>>] = step[<<t, g>>]
    <3>1. Body(t, f) = Body(t, g) BY <2>1
    <3> HIDE DEF Body, V
    <3>2. QED BY <1>4, <3>1
  <2> HIDE DEF V
  <2>2. QED BY <1>1, <2>1 DEF Structural
<1>6. PICK v \in V : TRUE 
  <2>1. <<>> \in V OBVIOUS
  <2>2. QED BY <2>1
<1> HIDE DEF V
<1>7. PICK f \in [Expr -> V] : \A t \in Expr : f[t] = step[<<t, f>>]
  <2>1. Solvable(2 * MaxHeight, V, step) BY <1>1, <1>3, <1>5, <1>6, StructuralRecursion
  <2>2. QED BY <1>1, <2>1 DEF Solvable
<1>8. \A t \in Expr : f[t] = Body(t, f) BY <1>4, <1>7, Zenon
<1>9. Is(f)
  <2> HIDE DEF Body
  <2>1. QED BY <1>8
<1>10. Is(solution)
  <2> HIDE DEF Is
  <2>1. QED BY <1>9
<1>11. \A t : failed_terms(t, args) = solution[t] BY Zenon DEF failed_terms
<1> HIDE DEF solution
<1>12. \A t \in Expr : solution[t] = Body(t, solution)
  <2> HIDE DEF Body
  <2>1. QED BY <1>10
<1>13. QED BY <1>11, <1>12

LEMMA AnyHeight ==
  LET All == UNION {Expressions(n) : n \in Nat} IN
  /\ Written \subseteq All
  /\ \A op \in Ops, l, r \in All : make_expr(op, l, r) \in All
<1> DEFINE All == UNION {Expressions(n) : n \in Nat}
<1>1. Written \subseteq All BY ExpectAssumption DEF Written
<1>2. ASSUME NEW op \in Ops, NEW l \in All, NEW r \in All PROVE make_expr(op, l, r) \in All
  <2>1. PICK m \in Nat : l \in Expressions(m) OBVIOUS
  <2>2. PICK n \in Nat : r \in Expressions(n) OBVIOUS
  <2> DEFINE h == IF m < n THEN n ELSE m
  <2>3. h \in Nat /\ m \in 0..h /\ n \in 0..h OBVIOUS
  <2> HIDE DEF h
  <2>4. l \in Expressions(h) /\ r \in Expressions(h) BY <2>1, <2>2, <2>3, Taller
  <2>5. make_expr(op, l, r) \in Expressions(h + 1) /\ h + 1 \in Nat BY <2>3, <2>4, MadeHeight
  <2>6. QED BY <2>5
<1>3. QED BY <1>1, <1>2

LEMMA BetweenMade ==
  ASSUME NEW t \in Written, is_binary_comparison(t)
  PROVE  \E l, r \in Written : between(t) = make_expr(t.op, l, r)
<1>1. t.left \in Written /\ t.right \in Written BY Comparisons, WrittenOperands
<1>2. Leaves \subseteq Written
  <2>1. 0 \in 0..MaxHeight BY ExpectAssumption
  <2>2. QED BY <2>1, LowerWritten
<1>3. get_left_most(t.left) \in Written /\ get_right_most(t.right) \in Written
  BY <1>1, <1>2, LeftMosts, RightMosts
<1>4. QED BY <1>1, <1>3 DEF between

(* conjunctions, *)
LEMMA Transforms ==
  \A t \in Written : 
    transform(t) =
      IF ~is_binary_comparison(t) THEN t
      ELSE LET upto == IF is_binary_comparison(t.left)
                       THEN make_expr("&&", transform(t.left), between(t)) ELSE between(t)
           IN  IF is_binary_comparison(t.right)
               THEN make_expr("&&", upto, transform(t.right)) ELSE upto
<1> DEFINE Body(t, f) == IF ~is_binary_comparison(t) THEN t
                         ELSE LET upto == IF is_binary_comparison(t.left)
                                          THEN make_expr("&&", f[t.left], between(t))
                                          ELSE between(t)
                              IN  IF is_binary_comparison(t.right)
                                  THEN make_expr("&&", upto, f[t.right]) ELSE upto
           V == UNION {Expressions(n) : n \in Nat}
           step == [p \in Written \X [Written -> V] |-> Body(p[1], p[2])]
           Is(f) == f = [t \in Written |-> Body(t, f)]
           solution == CHOOSE f : Is(f)
<1>1. MaxHeight \in Nat /\ Written = Expressions(MaxHeight) BY ExpectAssumption DEF Written
<1>2. ASSUME NEW t \in Written, NEW f \in [Written -> V] PROVE Body(t, f) \in V
  <2>1. CASE ~is_binary_comparison(t)
    <3>1. t \in V BY AnyHeight
    <3>2. QED BY <2>1, <3>1
  <2>2. CASE is_binary_comparison(t)
    <3>1. t.left \in Written /\ t.right \in Written /\ t.op \in Ops
      BY <2>2, Comparisons, WrittenOperands
    <3>2. f[t.left] \in V /\ f[t.right] \in V BY <3>1
    <3>3. between(t) \in V BY <2>2, <3>1, BetweenMade, AnyHeight
    <3>4. "&&" \in Ops /\ \A l, r \in V : make_expr("&&", l, r) \in V BY AnyHeight DEF Ops
    <3> DEFINE upto == IF is_binary_comparison(t.left)
                       THEN make_expr("&&", f[t.left], between(t)) ELSE between(t)
    <3> HIDE DEF V
    <3>5. upto \in V BY <3>2, <3>3, <3>4
    <3> HIDE DEF upto
    <3>6. (IF is_binary_comparison(t.right) THEN make_expr("&&", upto, f[t.right]) ELSE upto) \in V
      BY <3>2, <3>4, <3>5
    <3>7. QED BY <2>2, <3>6 DEF upto
  <2>3. QED BY <2>1, <2>2
<1>3. step \in [Written \X [Written -> V] -> V]
  <2> HIDE DEF Body, V
  <2>1. QED BY <1>2
<1>4. \A t \in Written, f \in [Written -> V] : step[<<t, f>>] = Body(t, f)
  <2> HIDE DEF Body, V
  <2>1. QED OBVIOUS
<1> HIDE DEF step
<1>5. Structural(MaxHeight, V, step)
  <2>1. ASSUME NEW t \in Written, NEW f \in [Written -> V], NEW g \in [Written -> V],
               is_binary_expr(t) => f[t.left] = g[t.left] /\ f[t.right] = g[t.right]
        PROVE  step[<<t, f>>] = step[<<t, g>>]
    <3>1. Body(t, f) = Body(t, g) BY <2>1, Comparisons
    <3> HIDE DEF Body, V
    <3>2. QED BY <1>4, <3>1
  <2> HIDE DEF V
  <2>2. QED BY <1>1, <2>1 DEF Structural
<1>6. PICK v \in V : TRUE 
  <2>1. Constant(0) \in Expressions(0) /\ 0 \in Nat BY SomeLeaf
  <2>2. QED BY <2>1
<1> HIDE DEF V
<1>7. PICK f \in [Written -> V] : \A t \in Written : f[t] = step[<<t, f>>]
  <2>1. Solvable(MaxHeight, V, step) BY <1>1, <1>3, <1>5, <1>6, StructuralRecursion
  <2>2. QED BY <1>1, <2>1 DEF Solvable
<1>8. \A t \in Written : f[t] = Body(t, f) BY <1>4, <1>7, Zenon
<1>9. Is(f)
  <2> HIDE DEF Body
  <2>1. QED BY <1>8
<1>10. Is(solution)
  <2> HIDE DEF Is
  <2>1. QED BY <1>9
<1>11. \A t : transform(t) = solution[t] BY Zenon DEF transform
<1> HIDE DEF solution
<1>12. \A t \in Written : solution[t] = Body(t, solution)
  <2> HIDE DEF Body
  <2>1. QED BY <1>10
<1>13. QED BY <1>11, <1>12

\* The ends of its operands are lower than the comparison between them.
LEMMA EndsLower ==
  ASSUME NEW n \in 0..MaxHeight, NEW t \in Expressions(n), is_binary_expr(t)
  PROVE  /\ n > 0 /\ n - 1 \in 0..MaxHeight /\ t.op \in Ops
         /\ t.left \in Expressions(n - 1) /\ t.right \in Expressions(n - 1)
         /\ RightEnd(t.left) \in Expressions(n - 1) /\ ~is_binary_comparison(RightEnd(t.left))
         /\ LeftEnd(t.right) \in Expressions(n - 1) /\ ~is_binary_comparison(LeftEnd(t.right))
<1>1. /\ n > 0 /\ n - 1 \in 0..MaxHeight /\ t.op \in Ops
      /\ t.left \in Expressions(n - 1) /\ t.right \in Expressions(n - 1)
  BY LowerWritten, ExprShape, ExpectAssumption
<1>2. QED BY <1>1, LeftEnds, RightEnds

LEMMA PairWritten ==
  ASSUME NEW n \in 0..MaxHeight, NEW t \in Expressions(n), is_binary_expr(t)
  PROVE  make_expr(t.op, RightEnd(t.left), LeftEnd(t.right)) \in Expressions(n)
<1>1. n - 1 \in Nat /\ (n - 1) + 1 = n BY EndsLower, ExpectAssumption
<1>2. make_expr(t.op, RightEnd(t.left), LeftEnd(t.right)) \in Expressions((n - 1) + 1)
  BY <1>1, EndsLower, MadeHeight
<1>3. QED BY <1>1, <1>2

LEMMA WholeHeight ==
  /\ MaxHeight \in Nat /\ MaxHeight \in 0..MaxHeight
  /\ Written = Expressions(MaxHeight) /\ Leaves \subseteq Written
BY ExpectAssumption, LowerWritten DEF Written

(* the comparisons of a chain, *)
LEMMA Pairs ==
  \A t \in Written : 
    Neighbours(t) =
      IF ~is_binary_comparison(t) THEN {}
      ELSE {make_expr(t.op, RightEnd(t.left), LeftEnd(t.right))}
           \cup Neighbours(t.left) \cup Neighbours(t.right)
<1> DEFINE Body(t, f) == IF ~is_binary_comparison(t) THEN {}
                         ELSE {make_expr(t.op, RightEnd(t.left), LeftEnd(t.right))}
                              \cup f[t.left] \cup f[t.right]
           V == SUBSET Written
           step == [p \in Written \X [Written -> V] |-> Body(p[1], p[2])]
           Is(f) == f = [t \in Written |-> Body(t, f)]
           solution == CHOOSE f : Is(f)
<1>1. MaxHeight \in Nat /\ Written = Expressions(MaxHeight) BY ExpectAssumption DEF Written
<1>2. ASSUME NEW t \in Written, NEW f \in [Written -> V] PROVE Body(t, f) \in V
  <2>1. CASE ~is_binary_comparison(t) BY <2>1
  <2>2. CASE is_binary_comparison(t)
    <3>1. t.left \in Written /\ t.right \in Written /\ is_binary_expr(t)
      BY <2>2, Comparisons, WrittenOperands
    <3>2. f[t.left] \in V /\ f[t.right] \in V BY <3>1
    <3>3. make_expr(t.op, RightEnd(t.left), LeftEnd(t.right)) \in Written
      BY <3>1, PairWritten, WholeHeight
    <3>4. QED BY <2>2, <3>2, <3>3
  <2>3. QED BY <2>1, <2>2
<1>3. step \in [Written \X [Written -> V] -> V]
  <2> HIDE DEF Body, V
  <2>1. QED BY <1>2
<1>4. \A t \in Written, f \in [Written -> V] : step[<<t, f>>] = Body(t, f)
  <2> HIDE DEF Body, V
  <2>1. QED OBVIOUS
<1> HIDE DEF step
<1>5. Structural(MaxHeight, V, step)
  <2>1. ASSUME NEW t \in Written, NEW f \in [Written -> V], NEW g \in [Written -> V],
               is_binary_expr(t) => f[t.left] = g[t.left] /\ f[t.right] = g[t.right]
        PROVE  step[<<t, f>>] = step[<<t, g>>]
    <3>1. Body(t, f) = Body(t, g) BY <2>1, Comparisons
    <3> HIDE DEF Body, V
    <3>2. QED BY <1>4, <3>1
  <2> HIDE DEF V
  <2>2. QED BY <1>1, <2>1 DEF Structural
<1>6. PICK v \in V : TRUE OBVIOUS
<1> HIDE DEF V
<1>7. PICK f \in [Written -> V] : \A t \in Written : f[t] = step[<<t, f>>]
  <2>1. Solvable(MaxHeight, V, step) BY <1>1, <1>3, <1>5, <1>6, StructuralRecursion
  <2>2. QED BY <1>1, <2>1 DEF Solvable
<1>8. \A t \in Written : f[t] = Body(t, f) BY <1>4, <1>7, Zenon
<1>9. Is(f)
  <2> HIDE DEF Body
  <2>1. QED BY <1>8
<1>10. Is(solution)
  <2> HIDE DEF Is
  <2>1. QED BY <1>9
<1>11. \A t : Neighbours(t) = solution[t] BY Zenon DEF Neighbours
<1> HIDE DEF solution
<1>12. \A t \in Written : solution[t] = Body(t, solution)
  <2> HIDE DEF Body
  <2>1. QED BY <1>10
<1>13. QED BY <1>11, <1>12

(* where chains are, *)
LEMMA Chains ==
  \A t \in Written : 
    HasChain(t) = (is_binary_expr(t) /\ (IsChain(t) \/ HasChain(t.left) \/ HasChain(t.right)))
<1> DEFINE Body(t, f) == is_binary_expr(t) /\ (IsChain(t) \/ f[t.left] \/ f[t.right])
           V == BOOLEAN
           step == [p \in Written \X [Written -> V] |-> Body(p[1], p[2])]
           Is(f) == f = [t \in Written |-> Body(t, f)]
           solution == CHOOSE f : Is(f)
<1>1. MaxHeight \in Nat /\ Written = Expressions(MaxHeight) BY ExpectAssumption DEF Written
<1>2. ASSUME NEW t \in Written, NEW f \in [Written -> V] PROVE Body(t, f) \in V
  OBVIOUS
<1>3. step \in [Written \X [Written -> V] -> V]
  <2> HIDE DEF Body, V
  <2>1. QED BY <1>2
<1>4. \A t \in Written, f \in [Written -> V] : step[<<t, f>>] = Body(t, f)
  <2> HIDE DEF Body, V
  <2>1. QED OBVIOUS
<1> HIDE DEF step
<1>5. Structural(MaxHeight, V, step)
  <2>1. ASSUME NEW t \in Written, NEW f \in [Written -> V], NEW g \in [Written -> V],
               is_binary_expr(t) => f[t.left] = g[t.left] /\ f[t.right] = g[t.right]
        PROVE  step[<<t, f>>] = step[<<t, g>>]
    <3>1. Body(t, f) = Body(t, g) BY <2>1
    <3> HIDE DEF Body, V
    <3>2. QED BY <1>4, <3>1
  <2> HIDE DEF V
  <2>2. QED BY <1>1, <2>1 DEF Structural
<1>6. PICK v \in V : TRUE OBVIOUS
<1> HIDE DEF V
<1>7. PICK f \in [Written -> V] : \A t \in Written : f[t] = step[<<t, f>>]
  <2>1. Solvable(MaxHeight, V, step) BY <1>1, <1>3, <1>5, <1>6, StructuralRecursion
  <2>2. QED BY <1>1, <2>1 DEF Solvable
<1>8. \A t \in Written : f[t] = Body(t, f) BY <1>4, <1>7, Zenon
<1>9. Is(f)
  <2> HIDE DEF Body
  <2>1. QED BY <1>8
<1>10. Is(solution)
  <2> HIDE DEF Is
  <2>1. QED BY <1>9
<1>11. \A t : HasChain(t) = solution[t] BY Zenon DEF HasChain
<1> HIDE DEF solution
<1>12. \A t \in Written : solution[t] = Body(t, solution)
  <2> HIDE DEF Body
  <2>1. QED BY <1>10
<1>13. QED BY <1>11, <1>12

(* which of them are understood, *)
LEMMA Understanding ==
  \A t \in Written : 
    Understood(t) =
      IF ~is_binary_comparison(t) THEN ~HasChain(t)
      ELSE /\ IF is_binary_comparison(t.left)
              THEN Understood(t.left) /\ ~is_binary_expr(RightEnd(t.left))
              ELSE ~HasChain(t.left)
           /\ IF is_binary_comparison(t.right)
              THEN Understood(t.right) /\ ~is_binary_expr(LeftEnd(t.right))
              ELSE ~HasChain(t.right)
<1> DEFINE Body(t, f) == 
             IF ~is_binary_comparison(t) THEN ~HasChain(t)
             ELSE /\ IF is_binary_comparison(t.left)
                     THEN f[t.left] /\ ~is_binary_expr(RightEnd(t.left))
                     ELSE ~HasChain(t.left)
                  /\ IF is_binary_comparison(t.right)
                     THEN f[t.right] /\ ~is_binary_expr(LeftEnd(t.right))
                     ELSE ~HasChain(t.right)
           V == BOOLEAN
           step == [p \in Written \X [Written -> V] |-> Body(p[1], p[2])]
           Is(f) == f = [t \in Written |-> Body(t, f)]
           solution == CHOOSE f : Is(f)
<1>1. MaxHeight \in Nat /\ Written = Expressions(MaxHeight) BY ExpectAssumption DEF Written
<1>2. ASSUME NEW t \in Written, NEW f \in [Written -> V] PROVE Body(t, f) \in V
  OBVIOUS
<1>3. step \in [Written \X [Written -> V] -> V]
  <2> HIDE DEF Body, V
  <2>1. QED BY <1>2
<1>4. \A t \in Written, f \in [Written -> V] : step[<<t, f>>] = Body(t, f)
  <2> HIDE DEF Body, V
  <2>1. QED OBVIOUS
<1> HIDE DEF step
<1>5. Structural(MaxHeight, V, step)
  <2>1. ASSUME NEW t \in Written, NEW f \in [Written -> V], NEW g \in [Written -> V],
               is_binary_expr(t) => f[t.left] = g[t.left] /\ f[t.right] = g[t.right]
        PROVE  step[<<t, f>>] = step[<<t, g>>]
    <3>1. Body(t, f) = Body(t, g) BY <2>1, Comparisons
    <3> HIDE DEF Body, V
    <3>2. QED BY <1>4, <3>1
  <2> HIDE DEF V
  <2>2. QED BY <1>1, <2>1 DEF Structural
<1>6. PICK v \in V : TRUE OBVIOUS
<1> HIDE DEF V
<1>7. PICK f \in [Written -> V] : \A t \in Written : f[t] = step[<<t, f>>]
  <2>1. Solvable(MaxHeight, V, step) BY <1>1, <1>3, <1>5, <1>6, StructuralRecursion
  <2>2. QED BY <1>1, <2>1 DEF Solvable
<1>8. \A t \in Written : f[t] = Body(t, f) BY <1>4, <1>7, Zenon
<1>9. Is(f)
  <2> HIDE DEF Body
  <2>1. QED BY <1>8
<1>10. Is(solution)
  <2> HIDE DEF Is
  <2>1. QED BY <1>9
<1>11. \A t : Understood(t) = solution[t] BY Zenon DEF Understood
<1> HIDE DEF solution
<1>12. \A t \in Written : solution[t] = Body(t, solution)
  <2> HIDE DEF Body
  <2>1. QED BY <1>10
<1>13. QED BY <1>11, <1>12

LEMMA LeafValue ==
  ASSUME NEW args \in [1..Arity -> Int], NEW t \in Leaves
  PROVE  t \in Expr /\ eval(t, args) \in Int
<1>1. 0 \in 0..2 * MaxHeight /\ 2 * MaxHeight \in Nat BY ExpectAssumption
<1>2. t \in Expr BY <1>1, Taller, Heights DEF Expr
<1>3. QED BY <1>2, LeafShape, Evals

(* and meanings, which depend on more than the operands. *)
LEMMA Meanings ==
  ASSUME NEW args \in [1..Arity -> Int]
  PROVE  \A t \in Written : 
           Meaning(t, args) =
             IF ~is_binary_expr(t) THEN eval(t, args)
             ELSE IF ~is_binary_comparison(t)
             THEN eval_operator(t.op, Meaning(t.left, args), Meaning(t.right, args))
             ELSE Truth(/\ is_binary_comparison(t.left) => Meaning(t.left, args) # 0
                        /\ eval_operator(t.op, Meaning(RightEnd(t.left), args),
                                               Meaning(LeftEnd(t.right), args)) # 0
                        /\ is_binary_comparison(t.right) => Meaning(t.right, args) # 0)
<1> DEFINE Body(t, f) == 
             IF ~is_binary_expr(t) THEN eval(t, args)
             ELSE IF ~is_binary_comparison(t)
             THEN eval_operator(t.op, f[t.left], f[t.right])
             ELSE Truth(/\ is_binary_comparison(t.left) => f[t.left] # 0
                        /\ eval_operator(t.op, f[RightEnd(t.left)], f[LeftEnd(t.right)]) # 0
                        /\ is_binary_comparison(t.right) => f[t.right] # 0)
           V == Int
           step == [p \in Written \X [Written -> V] |-> Body(p[1], p[2])]
           Is(f) == f = [t \in Written |-> Body(t, f)]
           solution == CHOOSE f : Is(f)
<1>1. MaxHeight \in Nat /\ Written = Expressions(MaxHeight) BY ExpectAssumption DEF Written
<1>2. ASSUME NEW t \in Written, NEW f \in [Written -> V] PROVE Body(t, f) \in V
  <2>1. CASE ~is_binary_expr(t)
    <3>1. t \in Leaves BY <1>1, <2>1, ExprShape
    <3>2. eval(t, args) \in Int BY <3>1, LeafValue
    <3>3. QED BY <2>1, <3>2
  <2>2. CASE is_binary_expr(t) /\ ~is_binary_comparison(t)
    <3>1. t.op \in Ops /\ f[t.left] \in Int /\ f[t.right] \in Int
      BY <1>1, <2>2, ExprShape, WrittenOperands
    <3>2. eval_operator(t.op, f[t.left], f[t.right]) \in Int BY <3>1, OperatorType
    <3>3. QED BY <2>2, <3>2
  <2>3. CASE is_binary_comparison(t)
    <3>1. \A P : Truth(P) \in Int BY DEF Truth
    <3>2. QED BY <2>3, <3>1, Comparisons
  <2>4. QED BY <2>1, <2>2, <2>3
<1>3. step \in [Written \X [Written -> V] -> V]
  <2> HIDE DEF Body, V
  <2>1. QED BY <1>2
<1>4. \A t \in Written, f \in [Written -> V] : step[<<t, f>>] = Body(t, f)
  <2> HIDE DEF Body, V
  <2>1. QED OBVIOUS
<1> HIDE DEF step
<1>5. Local(MaxHeight, V, step)
  <2>1. ASSUME NEW n \in 0..MaxHeight, NEW t \in Expressions(n),
               NEW f \in [Written -> V], NEW g \in [Written -> V],
               n > 0 => \A s \in Expressions(n - 1) : f[s] = g[s]
        PROVE  step[<<t, f>>] = step[<<t, g>>]
    <3>1. is_binary_expr(t) =>
            /\ f[t.left] = g[t.left] /\ f[t.right] = g[t.right]
            /\ f[RightEnd(t.left)] = g[RightEnd(t.left)]
            /\ f[LeftEnd(t.right)] = g[LeftEnd(t.right)]
      BY <2>1, EndsLower
    <3>2. Body(t, f) = Body(t, g) BY <3>1
    <3>3. t \in Written BY LowerWritten
    <3> HIDE DEF Body, V
    <3>4. QED BY <1>4, <3>2, <3>3
  <2> HIDE DEF V
  <2>2. QED BY <1>1, <2>1 DEF Local
<1>6. PICK v \in V : TRUE OBVIOUS
<1> HIDE DEF V
<1>7. PICK f \in [Written -> V] : \A t \in Written : f[t] = step[<<t, f>>]
  <2>1. Solvable(MaxHeight, V, step) BY <1>1, <1>3, <1>5, <1>6, Recursion
  <2>2. QED BY <1>1, <2>1 DEF Solvable
<1>8. \A t \in Written : f[t] = Body(t, f) BY <1>4, <1>7, Zenon
<1>9. Is(f)
  <2> HIDE DEF Body
  <2>1. QED BY <1>8
<1>10. Is(solution)
  <2> HIDE DEF Is
  <2>1. QED BY <1>9
<1>11. \A t : Meaning(t, args) = solution[t] BY Zenon DEF Meaning
<1> HIDE DEF solution
<1>12. \A t \in Written : solution[t] = Body(t, solution)
  <2> HIDE DEF Body
  <2>1. QED BY <1>10
<1>13. QED BY <1>11, <1>12 DEF Truth

-----------------------------------------------------------------------------
(* The trees stay in bounds.                                               *)

LEMMA WrittenExpr ==
  /\ Written \subseteq Expr
  /\ \A n \in 0..2 * MaxHeight : Expressions(n) \subseteq Expr
<1>1. 2 * MaxHeight \in Nat /\ MaxHeight \in 0..2 * MaxHeight BY ExpectAssumption
<1>2. QED BY <1>1, Taller DEF Written, Expr

LEMMA BetweenHeight ==
  ASSUME NEW n \in 0..MaxHeight, NEW t \in Expressions(n), is_binary_comparison(t)
  PROVE  between(t) \in Expressions(n)
<1>1. /\ n > 0 /\ n - 1 \in 0..MaxHeight /\ t.op \in Ops
      /\ t.left \in Expressions(n - 1) /\ t.right \in Expressions(n - 1)
  BY EndsLower, Comparisons
<1>2. n - 1 \in Nat /\ (n - 1) + 1 = n BY <1>1, ExpectAssumption
<1>3. Leaves \subseteq Expressions(n - 1) /\ Expressions(n - 1) \subseteq Written
  BY <1>1, LowerWritten
<1>4. get_left_most(t.left) \in Expressions(n - 1) /\ get_right_most(t.right) \in Expressions(n - 1)
  BY <1>1, <1>3, LeftMosts, RightMosts
<1>5. between(t) \in Expressions((n - 1) + 1)
  BY <1>1, <1>2, <1>4, MadeHeight DEF between
<1>6. QED BY <1>2, <1>5

\* A conjunction for each end of a comparison: at most two operators more for
\* each that was there.
LEMMA TransformHeight ==
  \A t \in Written : \A n \in 0..MaxHeight :
    t \in Expressions(n) /\ is_binary_comparison(t) => transform(t) \in Expressions(2 * n)
<1> DEFINE Bounded(t) ==
             \A n \in 0..MaxHeight :
               t \in Expressions(n) /\ is_binary_comparison(t) =>
                 transform(t) \in Expressions(2 * n)
           P == {t \in Written : Bounded(t)}
<1>1. \A t \in Leaves : t \in P BY LeafShape, WholeHeight
<1>2. ASSUME NEW t \in Written, is_binary_expr(t), t.left \in P, t.right \in P
      PROVE  t \in P
  <2>1. SUFFICES ASSUME NEW n \in 0..MaxHeight, t \in Expressions(n), is_binary_comparison(t)
                 PROVE  transform(t) \in Expressions(2 * n)
    OBVIOUS
  <2>2. /\ n > 0 /\ n - 1 \in 0..MaxHeight
        /\ t.left \in Expressions(n - 1) /\ t.right \in Expressions(n - 1)
    BY <2>1, EndsLower, Comparisons
  <2>3. n \in Nat /\ 2 * n \in Nat /\ "&&" \in Ops BY ExpectAssumption DEF Ops
  <2>4. between(t) \in Expressions(n) BY <2>1, BetweenHeight
  <2>5. \A s \in {t.left, t.right} : is_binary_comparison(s) =>
          n > 1 /\ transform(s) \in Expressions(2 * n - 2)
    <3>1. SUFFICES ASSUME NEW s \in {t.left, t.right}, is_binary_comparison(s)
                   PROVE  n > 1 /\ transform(s) \in Expressions(2 * n - 2)
      OBVIOUS
    <3>2. s \in Expressions(n - 1) /\ s \in P BY <1>2, <2>2
    <3>3. n - 1 > 0 BY <2>2, <3>1, <3>2, EndsLower, Comparisons
    <3>4. transform(s) \in Expressions(2 * (n - 1)) BY <2>2, <3>1, <3>2
    <3>5. 2 * (n - 1) = 2 * n - 2 BY <2>3
    <3>6. QED BY <2>3, <3>3, <3>4, <3>5
  <2> DEFINE upto == IF is_binary_comparison(t.left)
                     THEN make_expr("&&", transform(t.left), between(t)) ELSE between(t)
  <2>6. transform(t) = IF is_binary_comparison(t.right)
                       THEN make_expr("&&", upto, transform(t.right)) ELSE upto
    BY <1>2, <2>1, Transforms
  <2>7. /\ is_binary_comparison(t.left) => upto \in Expressions(2 * n - 1)
        /\ ~is_binary_comparison(t.left) => upto \in Expressions(n)
    <3>1. CASE is_binary_comparison(t.left)
      <4>1. n > 1 /\ transform(t.left) \in Expressions(2 * n - 2) BY <2>5, <3>1
      <4>2. /\ 2 * n - 2 \in Nat /\ n \in 0..2 * n - 2
            /\ (2 * n - 2) + 1 = 2 * n - 1
        BY <2>3, <4>1
      <4>3. between(t) \in Expressions(2 * n - 2) BY <2>4, <4>2, Taller
      <4>4. upto \in Expressions((2 * n - 2) + 1)
        BY <2>3, <3>1, <4>1, <4>2, <4>3, MadeHeight
      <4>5. QED BY <3>1, <4>2, <4>4
    <3>2. CASE ~is_binary_comparison(t.left) BY <2>4, <3>2
    <3>3. QED BY <3>1, <3>2
  <2>8. upto \in Expressions(2 * n)
    <3>1. n \in 0..2 * n /\ 2 * n - 1 \in 0..2 * n BY <2>2, <2>3
    <3> HIDE DEF upto
    <3>2. QED BY <2>3, <2>7, <3>1, Taller
  <2> HIDE DEF upto
  <2>9. CASE is_binary_comparison(t.right)
    <3>1. n > 1 /\ transform(t.right) \in Expressions(2 * n - 2) BY <2>5, <2>9
    <3>2. /\ 2 * n - 1 \in Nat /\ n \in 0..2 * n - 1 /\ 2 * n - 2 \in 0..2 * n - 1
          /\ (2 * n - 1) + 1 = 2 * n
      BY <2>3, <3>1
    <3>3. upto \in Expressions(2 * n - 1) /\ transform(t.right) \in Expressions(2 * n - 1)
      BY <2>7, <3>1, <3>2, Taller
    <3>4. make_expr("&&", upto, transform(t.right)) \in Expressions((2 * n - 1) + 1)
      BY <2>3, <3>2, <3>3, MadeHeight
    <3>5. QED BY <2>6, <2>9, <3>2, <3>4
  <2>10. QED BY <2>6, <2>8, <2>9
<1> HIDE DEF P
<1>3. Written \subseteq P BY <1>1, <1>2, WholeHeight, Induction
<1>4. QED BY <1>3 DEF P

LEMMA Transformed ==
  ASSUME NEW t \in Written, is_binary_comparison(t)
  PROVE  transform(t) \in Expr /\ between(t) \in Written
<1>1. transform(t) \in Expressions(2 * MaxHeight) BY WholeHeight, TransformHeight
<1>2. QED BY <1>1, WholeHeight, BetweenHeight DEF Expr

-----------------------------------------------------------------------------
(* What the tree that is kept means.                                       *)

LEMMA EvalMade ==
  ASSUME NEW args \in [1..Arity -> Int], NEW op \in Ops, NEW l, NEW r,
         make_expr(op, l, r) \in Expr
  PROVE  /\ l \in Expr /\ r \in Expr
         /\ eval(make_expr(op, l, r), args) = eval_operator(op, eval(l, args), eval(r, args))
<1> DEFINE t == make_expr(op, l, r)
<1>1. t.op = op /\ t.left = l /\ t.right = r /\ is_binary_expr(t) BY Made
<1> HIDE DEF t
<1>2. t \in Expr BY DEF t
<1>3. eval(t, args) = eval_operator(t.op, eval(t.left, args), eval(t.right, args))
  BY <1>1, <1>2, Evals
<1>4. QED BY <1>1, <1>2, <1>3, ExprOperands DEF t

LEMMA EvalAnd ==
  ASSUME NEW args \in [1..Arity -> Int], NEW l, NEW r, make_expr("&&", l, r) \in Expr
  PROVE  eval(make_expr("&&", l, r), args) # 0 <=> eval(l, args) # 0 /\ eval(r, args) # 0
<1>1. "&&" \in Ops BY DEF Ops
<1>2. eval(make_expr("&&", l, r), args) = eval_operator("&&", eval(l, args), eval(r, args))
  BY <1>1, EvalMade
<1>3. QED BY <1>2 DEF eval_operator, Truth

\* A comparison is 0 or 1, so that it is the truth of being different from 0.
LEMMA ComparisonTruth ==
  ASSUME NEW op \in {"<", "<=", ">", ">=", "==", "!="}, NEW l, NEW r
  PROVE  Truth(eval_operator(op, l, r) # 0) = eval_operator(op, l, r)
BY DEF eval_operator, Truth

\* Without a chain the tree means what it says.
LEMMA MeaningOfUnchained ==
  ASSUME NEW args \in [1..Arity -> Int]
  PROVE  \A t \in Written : ~HasChain(t) => Meaning(t, args) = eval(t, args)
<1> DEFINE P == {t \in Written : ~HasChain(t) => Meaning(t, args) = eval(t, args)}
<1>1. ASSUME NEW t \in Leaves PROVE t \in P
  <2>1. t \in Written /\ ~is_binary_expr(t) BY WholeHeight, LeafShape
  <2>2. Meaning(t, args) = eval(t, args) BY <2>1, Meanings
  <2>3. QED BY <2>1, <2>2
<1>2. ASSUME NEW t \in Written, is_binary_expr(t), t.left \in P, t.right \in P
      PROVE  t \in P
  <2>1. SUFFICES ASSUME ~HasChain(t) PROVE Meaning(t, args) = eval(t, args) OBVIOUS
  <2>2. ~IsChain(t) /\ ~HasChain(t.left) /\ ~HasChain(t.right) BY <1>2, <2>1, Chains
  <2>3. /\ Meaning(t.left, args) = eval(t.left, args)
        /\ Meaning(t.right, args) = eval(t.right, args)
    BY <1>2, <2>2
  <2>4. eval(t, args) = eval_operator(t.op, eval(t.left, args), eval(t.right, args))
    BY <1>2, WrittenExpr, Evals
  <2>5. CASE ~is_binary_comparison(t) BY <1>2, <2>3, <2>4, <2>5, Meanings
  <2>6. CASE is_binary_comparison(t)
    <3>1. ~is_binary_comparison(t.left) /\ ~is_binary_comparison(t.right)
      BY <2>2, <2>6 DEF IsChain
    <3>2. RightEnd(t.left) = t.left /\ LeftEnd(t.right) = t.right
      BY <1>2, <3>1, LeftEnds, RightEnds
    <3>3. Meaning(t, args) =
            Truth(eval_operator(t.op, eval(t.left, args), eval(t.right, args)) # 0)
      BY <1>2, <2>3, <2>6, <3>1, <3>2, Meanings DEF Truth
    <3>4. t.op \in {"<", "<=", ">", ">=", "==", "!="} BY <2>6 DEF is_binary_comparison
    <3>5. QED BY <2>4, <3>3, <3>4, ComparisonTruth
  <2>7. QED BY <2>5, <2>6
<1> HIDE DEF P
<1>3. Written \subseteq P BY <1>1, <1>2, WholeHeight, Induction
<1>4. QED BY <1>3 DEF P

LEMMA MeaningOfLeaf ==
  ASSUME NEW args \in [1..Arity -> Int], NEW t \in Written, ~is_binary_expr(t)
  PROVE  Meaning(t, args) = eval(t, args) /\ ~HasChain(t)
BY Meanings, Chains

\* An end that is not computed is found by going down the same side.
LEMMA MostIsEnd ==
  \A t \in Written :
    /\ ~is_binary_expr(RightEnd(t)) => get_left_most(t) = RightEnd(t)
    /\ ~is_binary_expr(LeftEnd(t)) => get_right_most(t) = LeftEnd(t)
<1> DEFINE P == {t \in Written :
                   /\ ~is_binary_expr(RightEnd(t)) => get_left_most(t) = RightEnd(t)
                   /\ ~is_binary_expr(LeftEnd(t)) => get_right_most(t) = LeftEnd(t)}
<1>1. ASSUME NEW t \in Leaves PROVE t \in P
  <2>1. t \in Written /\ ~is_binary_expr(t) /\ ~is_binary_comparison(t)
    BY WholeHeight, LeafShape
  <2>2. QED BY <2>1, LeftEnds, RightEnds, LeftMosts, RightMosts
<1>2. ASSUME NEW t \in Written, is_binary_expr(t), t.left \in P, t.right \in P
      PROVE  t \in P
  <2>1. /\ get_left_most(t) = get_left_most(t.right)
        /\ get_right_most(t) = get_right_most(t.left)
    BY <1>2, LeftMosts, RightMosts
  <2>2. CASE is_binary_comparison(t)
    <3>1. RightEnd(t) = RightEnd(t.right) /\ LeftEnd(t) = LeftEnd(t.left)
      BY <2>2, LeftEnds, RightEnds
    <3>2. QED BY <1>2, <2>1, <3>1
  <2>3. CASE ~is_binary_comparison(t)
    <3>1. RightEnd(t) = t /\ LeftEnd(t) = t BY <2>3, LeftEnds, RightEnds
    <3>2. QED BY <1>2, <3>1
  <2>4. QED BY <2>2, <2>3
<1> HIDE DEF P
<1>3. Written \subseteq P BY <1>1, <1>2, WholeHeight, Induction
<1>4. QED BY <1>3 DEF P

Pair(t) == make_expr(t.op, RightEnd(t.left), LeftEnd(t.right))

\* What the code puts between two chains is the comparison of the operands that
\* stand there, and it means what it says.
LEMMA BetweenIsPair ==
  ASSUME NEW args \in [1..Arity -> Int],
         NEW t \in Written, is_binary_comparison(t), Understood(t)
  PROVE  /\ between(t) = Pair(t) /\ Pair(t) \in Written /\ is_binary_comparison(Pair(t))
         /\ Meaning(Pair(t), args) = eval(Pair(t), args)
         /\ eval(Pair(t), args) # 0 <=>
              eval_operator(t.op, Meaning(RightEnd(t.left), args),
                                  Meaning(LeftEnd(t.right), args)) # 0
<1> DEFINE l == RightEnd(t.left)
           r == LeftEnd(t.right)
<1>1. t.left \in Written /\ t.right \in Written /\ is_binary_expr(t) /\ t.op \in Ops
  BY Comparisons, WrittenOperands
<1>2. l \in Written /\ r \in Written /\ ~is_binary_comparison(l) /\ ~is_binary_comparison(r)
  BY <1>1, WholeHeight, LeftEnds, RightEnds
<1>3. /\ Meaning(l, args) = eval(l, args) /\ ~HasChain(l)
      /\ l = IF is_binary_comparison(t.left) THEN get_left_most(t.left) ELSE t.left
  <2>1. CASE is_binary_comparison(t.left)
    <3>1. ~is_binary_expr(l) BY <2>1, Understanding
    <3>2. QED BY <1>1, <1>2, <2>1, <3>1, MeaningOfLeaf, MostIsEnd
  <2>2. CASE ~is_binary_comparison(t.left)
    <3>1. ~HasChain(t.left) /\ l = t.left BY <1>1, <2>2, Understanding, RightEnds
    <3>2. QED BY <1>1, <2>2, <3>1, MeaningOfUnchained
  <2>3. QED BY <2>1, <2>2
<1>4. /\ Meaning(r, args) = eval(r, args) /\ ~HasChain(r)
      /\ r = IF is_binary_comparison(t.right) THEN get_right_most(t.right) ELSE t.right
  <2>1. CASE is_binary_comparison(t.right)
    <3>1. ~is_binary_expr(r) BY <2>1, Understanding
    <3>2. QED BY <1>1, <1>2, <2>1, <3>1, MeaningOfLeaf, MostIsEnd
  <2>2. CASE ~is_binary_comparison(t.right)
    <3>1. ~HasChain(t.right) /\ r = t.right BY <1>1, <2>2, Understanding, LeftEnds
    <3>2. QED BY <1>1, <2>2, <3>1, MeaningOfUnchained
  <2>3. QED BY <2>1, <2>2
<1>5. between(t) = Pair(t) BY <1>3, <1>4 DEF between, Pair
<1> DEFINE p == Pair(t)
<1>6. p \in Written BY <1>1, WholeHeight, PairWritten DEF Pair
<1>7. p.op = t.op /\ p.left = l /\ p.right = r /\ is_binary_comparison(p)
  BY <1>1, Made DEF Pair, is_binary_comparison
<1>8. eval(p, args) = eval_operator(t.op, eval(l, args), eval(r, args))
  BY <1>1, <1>6, WrittenExpr, EvalMade DEF Pair
<1>9. ~HasChain(p)
  <2> HIDE DEF l, r, p
  <2>1. ~IsChain(p) BY <1>2, <1>7 DEF IsChain
  <2>2. QED BY <1>3, <1>4, <1>6, <1>7, <2>1, Chains
<1>10. Meaning(p, args) = eval(p, args) BY <1>6, <1>9, MeaningOfUnchained
<1>11. QED BY <1>3, <1>4, <1>5, <1>6, <1>7, <1>8, <1>10

\* The conjunction is the chain.
LEMMA ChainKept ==
  ASSUME NEW args \in [1..Arity -> Int]
  PROVE  \A t \in Written : is_binary_comparison(t) /\ Understood(t) =>
           (eval(transform(t), args) # 0 <=> Meaning(t, args) # 0)
<1> DEFINE P == {t \in Written : is_binary_comparison(t) /\ Understood(t) =>
                   (eval(transform(t), args) # 0 <=> Meaning(t, args) # 0)}
<1>1. \A t \in Leaves : t \in P BY LeafShape, WholeHeight
<1>2. ASSUME NEW t \in Written, is_binary_expr(t), t.left \in P, t.right \in P
      PROVE  t \in P
  <2>1. SUFFICES ASSUME is_binary_comparison(t), Understood(t)
                 PROVE  eval(transform(t), args) # 0 <=> Meaning(t, args) # 0
    OBVIOUS
  <2>2. /\ is_binary_comparison(t.left) => Understood(t.left)
        /\ is_binary_comparison(t.right) => Understood(t.right)
    BY <2>1, Understanding
  <2>3. /\ is_binary_comparison(t.left) =>
             (eval(transform(t.left), args) # 0 <=> Meaning(t.left, args) # 0)
        /\ is_binary_comparison(t.right) =>
             (eval(transform(t.right), args) # 0 <=> Meaning(t.right, args) # 0)
    BY <1>2, <2>2
  <2> DEFINE here == eval_operator(t.op, Meaning(RightEnd(t.left), args),
                                         Meaning(LeftEnd(t.right), args)) # 0
             upto == IF is_binary_comparison(t.left)
                     THEN make_expr("&&", transform(t.left), between(t)) ELSE between(t)
  <2>4. eval(between(t), args) # 0 <=> here BY <2>1, BetweenIsPair, Zenon
  <2>5. Meaning(t, args) # 0 <=>
          /\ is_binary_comparison(t.left) => Meaning(t.left, args) # 0
          /\ here
          /\ is_binary_comparison(t.right) => Meaning(t.right, args) # 0
    BY <1>2, <2>1, Meanings DEF Truth
  <2> HIDE DEF here
  <2>6. transform(t) = IF is_binary_comparison(t.right)
                       THEN make_expr("&&", upto, transform(t.right)) ELSE upto
    BY <2>1, Transforms
  <2>7. transform(t) \in Expr BY <2>1, Transformed
  <2>8. upto \in Expr
    <3> HIDE DEF upto
    <3>1. "&&" \in Ops BY DEF Ops
    <3>2. CASE is_binary_comparison(t.right) BY <2>6, <2>7, <3>1, <3>2, EvalMade
    <3>3. CASE ~is_binary_comparison(t.right) BY <2>6, <2>7, <3>3
    <3>4. QED BY <3>2, <3>3
  <2>9. eval(upto, args) # 0 <=>
          (is_binary_comparison(t.left) => eval(transform(t.left), args) # 0) /\ here
    <3>1. CASE is_binary_comparison(t.left)
      <4>1. upto = make_expr("&&", transform(t.left), between(t)) BY <3>1
      <4> HIDE DEF upto
      <4>2. QED BY <2>4, <2>8, <3>1, <4>1, EvalAnd
    <3>2. CASE ~is_binary_comparison(t.left) BY <2>4, <3>2
    <3>3. QED BY <3>1, <3>2
  <2> HIDE DEF upto
  <2>10. eval(transform(t), args) # 0 <=>
           /\ eval(upto, args) # 0
           /\ is_binary_comparison(t.right) => eval(transform(t.right), args) # 0
    <3>1. CASE is_binary_comparison(t.right)
      <4>1. transform(t) = make_expr("&&", upto, transform(t.right)) BY <2>6, <3>1
      <4>2. QED BY <2>7, <3>1, <4>1, EvalAnd
    <3>2. CASE ~is_binary_comparison(t.right) BY <2>6, <3>2
    <3>3. QED BY <3>1, <3>2
  <2>11. QED BY <2>3, <2>5, <2>9, <2>10
<1> HIDE DEF P
<1>3. Written \subseteq P BY <1>1, <1>2, WholeHeight, Induction
<1>4. QED BY <1>3 DEF P

-----------------------------------------------------------------------------
(* What a refusal reports.                                                 *)

Among(c, s) == \E i \in 1..Len(s) : s[i] = c

LEMMA AmongJoined ==
  ASSUME NEW S, NEW a \in Seq(S), NEW b \in Seq(S), NEW c
  PROVE  Among(c, a \o b) <=> Among(c, a) \/ Among(c, b)
<1>1. ASSUME Among(c, a \o b) PROVE Among(c, a) \/ Among(c, b)
  <2>1. PICK i \in 1..Len(a \o b) : (a \o b)[i] = c BY <1>1 DEF Among
  <2>2. CASE i \in 1..Len(a) BY <2>1, <2>2 DEF Among
  <2>3. CASE i \notin 1..Len(a)
    <3>1. i - Len(a) \in 1..Len(b) /\ b[i - Len(a)] = c BY <2>1, <2>3
    <3>2. QED BY <3>1 DEF Among
  <2>4. QED BY <2>2, <2>3
<1>2. ASSUME Among(c, a) PROVE Among(c, a \o b)
  <2>1. PICK i \in 1..Len(a) : a[i] = c BY <1>2 DEF Among
  <2>2. i \in 1..Len(a \o b) /\ (a \o b)[i] = c BY <2>1
  <2>3. QED BY <2>2 DEF Among
<1>3. ASSUME Among(c, b) PROVE Among(c, a \o b)
  <2>1. PICK i \in 1..Len(b) : b[i] = c BY <1>3 DEF Among
  <2>2. i + Len(a) \in 1..Len(a \o b) /\ (a \o b)[i + Len(a)] = c BY <2>1
  <2>3. QED BY <2>2 DEF Among
<1>4. QED BY <1>1, <1>2, <1>3

LEMMA FailedType ==
  ASSUME NEW args
  PROVE  \A t \in Expr : failed_terms(t, args) \in Seq(Expr)
<1> DEFINE P == {t \in Expr : failed_terms(t, args) \in Seq(Expr)}
<1>1. 2 * MaxHeight \in Nat /\ Expr = Expressions(2 * MaxHeight)
  BY ExpectAssumption DEF Expr
<1>2. \A t \in Leaves : t \in P
  <2>1. \A t \in Leaves : t \in Expr /\ ~is_binary_expr(t)
    BY LeafShape, WholeHeight, WrittenExpr
  <2>2. \A t \in Leaves : failed_terms(t, args) = <<>> BY <2>1, Failures
  <2>3. <<>> \in Seq(Expr) OBVIOUS
  <2>4. QED BY <2>1, <2>2, <2>3
<1>3. ASSUME NEW t \in Expr, is_binary_expr(t), t.left \in P, t.right \in P
      PROVE  t \in P
  <2>1. failed_terms(t, args) = failed_terms(t.left, args) \o failed_terms(t.right, args)
                                \o (IF eval(t, args) = 0 THEN <<t>> ELSE <<>>)
    BY <1>3, Failures
  <2>2. (IF eval(t, args) = 0 THEN <<t>> ELSE <<>>) \in Seq(Expr) OBVIOUS
  <2>3. \A a, b, d \in Seq(Expr) : a \o b \o d \in Seq(Expr) OBVIOUS
  <2>4. failed_terms(t, args) \in Seq(Expr) BY <1>3, <2>1, <2>2, <2>3
  <2>5. QED BY <2>4
<1> HIDE DEF P
<1>4. Expr \subseteq P BY <1>1, <1>2, <1>3, Induction
<1>5. QED BY <1>4 DEF P

\* A tree reports what its operands report, and itself where it is false.
LEMMA FailedParts ==
  ASSUME NEW args, NEW t \in Expr, is_binary_expr(t)
  PROVE  /\ \A c : Among(c, failed_terms(t, args)) <=>
               \/ Among(c, failed_terms(t.left, args))
               \/ Among(c, failed_terms(t.right, args))
               \/ c = t /\ eval(t, args) = 0
         /\ eval(t, args) = 0 =>
              /\ failed_terms(t, args) # <<>>
              /\ failed_terms(t, args)[Len(failed_terms(t, args))] = t
<1> DEFINE a == failed_terms(t.left, args)
           b == failed_terms(t.right, args)
           d == IF eval(t, args) = 0 THEN <<t>> ELSE <<>>
<1>1. a \in Seq(Expr) /\ b \in Seq(Expr) BY ExprOperands, FailedType
<1>2. d \in Seq(Expr) OBVIOUS
<1>3. failed_terms(t, args) = a \o b \o d BY Failures
<1>4. \A c : Among(c, d) <=> c = t /\ eval(t, args) = 0 BY DEF Among
<1>5. eval(t, args) = 0 => d = <<t>> OBVIOUS
<1> HIDE DEF a, b, d
<1>6. a \o b \in Seq(Expr) BY <1>1
<1>7. \A c : Among(c, a \o b \o d) <=> Among(c, a) \/ Among(c, b) \/ Among(c, d)
  BY <1>1, <1>2, <1>6, AmongJoined
<1>8. ASSUME eval(t, args) = 0
      PROVE  a \o b \o d # <<>> /\ (a \o b \o d)[Len(a \o b \o d)] = t
  <2> DEFINE s == a \o b
  <2>1. s \in Seq(Expr) BY <1>6
  <2> HIDE DEF s
  <2>2. Len(s \o <<t>>) = Len(s) + 1 /\ (s \o <<t>>)[Len(s) + 1] = t BY <2>1
  <2>3. s \o <<t>> # <<>> BY <2>1, <2>2
  <2>4. QED BY <1>5, <1>8, <2>2, <2>3 DEF s
<1>9. QED BY <1>3, <1>4, <1>7, <1>8 DEF a, b

\* What is reported is false,
LEMMA ReportedIsFalse ==
  ASSUME NEW args
  PROVE  \A t \in Expr : \A c : Among(c, failed_terms(t, args)) => eval(c, args) = 0
<1> DEFINE P == {t \in Expr : \A c : Among(c, failed_terms(t, args)) => eval(c, args) = 0}
<1>1. 2 * MaxHeight \in Nat /\ Expr = Expressions(2 * MaxHeight)
  BY ExpectAssumption DEF Expr
<1>2. \A t \in Leaves : t \in P
  <2>1. \A t \in Leaves : t \in Expr /\ ~is_binary_expr(t)
    BY LeafShape, WholeHeight, WrittenExpr
  <2>2. \A t \in Leaves : failed_terms(t, args) = <<>> BY <2>1, Failures
  <2>3. QED BY <2>1, <2>2 DEF Among
<1>3. ASSUME NEW t \in Expr, is_binary_expr(t), t.left \in P, t.right \in P
      PROVE  t \in P
  BY <1>3, FailedParts
<1> HIDE DEF P
<1>4. Expr \subseteq P BY <1>1, <1>2, <1>3, Induction
<1>5. QED BY <1>4 DEF P

\* the conjunction reports every comparison of the chain that is false, and each
\* of them means what it says.
LEMMA FalseIsReported ==
  ASSUME NEW args \in [1..Arity -> Int]
  PROVE  \A t \in Written : is_binary_comparison(t) /\ Understood(t) =>
           \A c \in Neighbours(t) :
             /\ Meaning(c, args) = eval(c, args)
             /\ eval(c, args) = 0 => Among(c, failed_terms(transform(t), args))
<1> DEFINE Fine(t) == \A c \in Neighbours(t) :
                         /\ Meaning(c, args) = eval(c, args)
                         /\ eval(c, args) = 0 => Among(c, failed_terms(transform(t), args))
           P == {t \in Written : is_binary_comparison(t) /\ Understood(t) => Fine(t)}
<1>1. \A t \in Leaves : t \in P BY LeafShape, WholeHeight
<1>2. ASSUME NEW t \in Written, is_binary_expr(t), t.left \in P, t.right \in P
      PROVE  t \in P
  <2>1. SUFFICES ASSUME is_binary_comparison(t), Understood(t) PROVE Fine(t) OBVIOUS
  <2>2. /\ is_binary_comparison(t.left) => Fine(t.left)
        /\ is_binary_comparison(t.right) => Fine(t.right)
    <3>1. /\ is_binary_comparison(t.left) => Understood(t.left)
          /\ is_binary_comparison(t.right) => Understood(t.right)
      BY <2>1, Understanding
    <3> HIDE DEF Fine
    <3>2. QED BY <1>2, <3>1
  <2>3. /\ between(t) = Pair(t) /\ Pair(t) \in Expr /\ is_binary_expr(Pair(t))
        /\ Meaning(Pair(t), args) = eval(Pair(t), args)
    <3>1. /\ between(t) = Pair(t) /\ Pair(t) \in Written /\ is_binary_comparison(Pair(t))
          /\ Meaning(Pair(t), args) = eval(Pair(t), args)
      BY <2>1, BetweenIsPair, Zenon
    <3> HIDE DEF Fine
    <3>2. QED BY <3>1, Comparisons, WrittenExpr
  <2> DEFINE upto == IF is_binary_comparison(t.left)
                     THEN make_expr("&&", transform(t.left), between(t)) ELSE between(t)
  <2>4. transform(t) = IF is_binary_comparison(t.right)
                       THEN make_expr("&&", upto, transform(t.right)) ELSE upto
    BY <2>1, Transforms
  <2>5. transform(t) \in Expr BY <2>1, Transformed
  <2>6. "&&" \in Ops BY DEF Ops
  <2>7. /\ upto \in Expr
        /\ \A c : Among(c, failed_terms(upto, args)) => Among(c, failed_terms(transform(t), args))
        /\ is_binary_comparison(t.right) =>
             \A c : Among(c, failed_terms(transform(t.right), args)) =>
                      Among(c, failed_terms(transform(t), args))
    <3> HIDE DEF upto
    <3>1. CASE is_binary_comparison(t.right)
      <4>1. transform(t) = make_expr("&&", upto, transform(t.right)) BY <2>4, <3>1
      <4>2. /\ transform(t).left = upto /\ transform(t).right = transform(t.right)
            /\ is_binary_expr(transform(t))
        BY <2>6, <4>1, Made
      <4>3. upto \in Expr BY <2>5, <4>2, ExprOperands
      <4>4. QED BY <2>5, <4>2, <4>3, FailedParts
    <3>2. CASE ~is_binary_comparison(t.right) BY <2>4, <2>5, <3>2
    <3>3. QED BY <3>1, <3>2
  <2>8. /\ \A c : Among(c, failed_terms(between(t), args)) => Among(c, failed_terms(upto, args))
        /\ is_binary_comparison(t.left) =>
             \A c : Among(c, failed_terms(transform(t.left), args)) =>
                      Among(c, failed_terms(upto, args))
    <3>1. CASE is_binary_comparison(t.left)
      <4>1. upto = make_expr("&&", transform(t.left), between(t)) BY <3>1
      <4> HIDE DEF upto
      <4>2. /\ upto.left = transform(t.left) /\ upto.right = between(t)
            /\ is_binary_expr(upto)
        BY <2>6, <4>1, Made
      <4>3. QED BY <2>7, <4>2, FailedParts
    <3>2. CASE ~is_binary_comparison(t.left) BY <3>2
    <3>3. QED BY <3>1, <3>2
  <2> HIDE DEF upto
  <2>9. eval(Pair(t), args) = 0 => Among(Pair(t), failed_terms(between(t), args))
    BY <2>3, FailedParts
  <2>10. \A c \in Neighbours(t) :
           \/ c = Pair(t)
           \/ is_binary_comparison(t.left) /\ c \in Neighbours(t.left)
           \/ is_binary_comparison(t.right) /\ c \in Neighbours(t.right)
    <3>1. t.left \in Written /\ t.right \in Written BY <1>2, WrittenOperands
    <3>2. Neighbours(t) = {Pair(t)} \cup Neighbours(t.left) \cup Neighbours(t.right)
      BY <2>1, Pairs DEF Pair
    <3>3. /\ ~is_binary_comparison(t.left) => Neighbours(t.left) = {}
          /\ ~is_binary_comparison(t.right) => Neighbours(t.right) = {}
      BY <3>1, Pairs
    <3>4. QED BY <3>2, <3>3
  <2>11. ASSUME NEW c \in Neighbours(t)
         PROVE  /\ Meaning(c, args) = eval(c, args)
                /\ eval(c, args) = 0 => Among(c, failed_terms(transform(t), args))
    <3>1. CASE c = Pair(t) BY <2>3, <2>7, <2>8, <2>9, <3>1
    <3>2. CASE is_binary_comparison(t.left) /\ c \in Neighbours(t.left)
      BY <2>2, <2>7, <2>8, <3>2
    <3>3. CASE is_binary_comparison(t.right) /\ c \in Neighbours(t.right)
      BY <2>2, <2>7, <3>3
    <3>4. QED BY <2>10, <3>1, <3>2, <3>3
  <2>12. QED BY <2>11
<1> HIDE DEF P
<1>3. Written \subseteq P BY <1>1, <1>2, WholeHeight, Induction
<1>4. QED BY <1>3 DEF P

\* What an annotation keeps is a tree that can be evaluated, an operator if an
\* operator was written, and it means what was written.
LEMMA ExpectKept ==
  ASSUME NEW t \in Written
  PROVE  /\ expect(t) \in Expr
         /\ is_binary_comparison(t) => is_binary_expr(expect(t)) /\ expect(t) = transform(t)
         /\ \A args \in [1..Arity -> Int] : Understood(t) =>
              (eval(expect(t), args) # 0 <=> Meaning(t, args) # 0)
<1>1. CASE is_binary_comparison(t)
  <2>1. expect(t) = transform(t) BY <1>1, Comparisons DEF expect
  <2>2. transform(t) \in Expr BY <1>1, Transformed
  <2>3. is_binary_expr(transform(t))
    <3> DEFINE upto == IF is_binary_comparison(t.left)
                       THEN make_expr("&&", transform(t.left), between(t)) ELSE between(t)
    <3>1. is_binary_expr(between(t))
      <4>1. t.op \in Ops BY <1>1, Comparisons
      <4>2. QED BY <1>1, <4>1, BetweenMade, Made
    <3>2. "&&" \in Ops BY DEF Ops
    <3>3. is_binary_expr(upto) BY <3>1, <3>2, Made
    <3>4. transform(t) = IF is_binary_comparison(t.right)
                         THEN make_expr("&&", upto, transform(t.right)) ELSE upto
      BY <1>1, Transforms
    <3> HIDE DEF upto
    <3>5. QED BY <3>2, <3>3, <3>4, Made
  <2>4. QED BY <1>1, <2>1, <2>2, <2>3, ChainKept
<1>2. CASE ~is_binary_comparison(t)
  <2>1. expect(t) = t BY <1>2, Transforms DEF expect
  <2>2. Understood(t) => ~HasChain(t) BY <1>2, Understanding
  <2>3. QED BY <1>2, <2>1, <2>2, WrittenExpr, MeaningOfUnchained
<1>3. QED BY <1>1, <1>2

-----------------------------------------------------------------------------
(* What was written stays, with the tree it was transformed into, and a check *)
(* is the evaluation of that tree.                                            *)

Evaluated ==
  /\ written \in Expectations
  /\ kept = expect(written)
  /\ \A check \in checked :
       /\ check.args \in Arguments
       /\ check.value = eval(kept, check.args)
       /\ check.failed = failed_terms(kept, check.args)

LEMMA EvaluatedHolds == ExpectSpec => []Evaluated
<1>1. ExpectInit => Evaluated BY DEF ExpectInit, Evaluated
<1>2. Evaluated /\ [ExpectNext]_expectVars => Evaluated'
  <2>1. SUFFICES ASSUME Evaluated, [ExpectNext]_expectVars PROVE Evaluated' OBVIOUS
  <2>2. ASSUME NEW args \in Arguments, Check(args) PROVE Evaluated'
    BY <2>1, <2>2 DEF Check, Evaluated
  <2>3. CASE UNCHANGED expectVars BY <2>1, <2>3 DEF expectVars, Evaluated
  <2>4. QED BY <2>1, <2>2, <2>3 DEF ExpectNext
<1>3. QED BY <1>1, <1>2, PTL DEF ExpectSpec

\* For every expectation the code understands, however long its chains and deep
\* its operands, and for all arguments: what eval_verbose returns for the tree
\* transform made is different from 0 exactly when each comparison of the chain
\* holds.
THEOREM ChainsHold == ExpectSpec => []ChainsMeanConjunctions
<1>1. Evaluated => ChainsMeanConjunctions
  <2>1. SUFFICES ASSUME Evaluated, Understood(written), NEW check \in checked
                 PROVE  check.value # 0 <=> Meaning(written, check.args) # 0
    BY DEF ChainsMeanConjunctions
  <2>2. written \in Written /\ check.args \in [1..Arity -> Int]
    BY <2>1, ExpectAssumption DEF Evaluated
  <2>3. check.value = eval(expect(written), check.args) BY <2>1 DEF Evaluated
  <2>4. QED BY <2>1, <2>2, <2>3, ExpectKept
<1>2. QED BY <1>1, EvaluatedHolds, PTL

\* A refusal is explained in full, for a chain of any length: eval_verbose
\* reports the whole last, and of the comparisons of neighbouring operands those
\* that are false and no other.
THEOREM RefusalsExplained == ExpectSpec => []RefusalExplained
<1>1. Evaluated => RefusalExplained
  <2>1. SUFFICES ASSUME Evaluated, is_binary_comparison(written), Understood(written),
                        NEW check \in checked
                 PROVE  /\ check.value = 0 => /\ check.failed # <<>>
                                              /\ check.failed[Len(check.failed)] = kept
                        /\ \A c \in Neighbours(written) :
                             Reports(check, c) <=> Meaning(c, check.args) = 0
    BY DEF RefusalExplained
  <2>2. written \in Written /\ check.args \in [1..Arity -> Int]
    BY <2>1, ExpectAssumption DEF Evaluated
  <2>3. /\ kept = transform(written) /\ kept \in Expr /\ is_binary_expr(kept)
        /\ check.value = eval(kept, check.args)
        /\ check.failed = failed_terms(kept, check.args)
    BY <2>1, <2>2, ExpectKept DEF Evaluated
  <2>4. check.value = 0 => /\ check.failed # <<>>
                           /\ check.failed[Len(check.failed)] = kept
    <3>1. eval(kept, check.args) = 0 =>
            /\ failed_terms(kept, check.args) # <<>>
            /\ failed_terms(kept, check.args)[Len(failed_terms(kept, check.args))] = kept
      BY <2>3, FailedParts
    <3>2. QED BY <2>3, <3>1, Zenon
  <2>5. ASSUME NEW c \in Neighbours(written)
        PROVE  Reports(check, c) <=> Meaning(c, check.args) = 0
    <3>1. Reports(check, c) <=> Among(c, failed_terms(kept, check.args))
      BY <2>3 DEF Reports, Among
    <3>2. /\ Meaning(c, check.args) = eval(c, check.args)
          /\ eval(c, check.args) = 0 => Among(c, failed_terms(kept, check.args))
      BY <2>1, <2>2, <2>3, FalseIsReported
    <3>3. Among(c, failed_terms(kept, check.args)) => eval(c, check.args) = 0
      BY <2>3, ReportedIsFalse
    <3>4. QED BY <3>1, <3>2, <3>3
  <2>6. QED BY <2>4, <2>5
<1>2. QED BY <1>1, EvaluatedHolds, PTL

-----------------------------------------------------------------------------
(* Strings and their prefixes.                                             *)

Str == Seq(Nat)

Letter(n, s) == s[Len(n) + 1]

LEMMA WordsAreStrings ==
  ASSUME NEW list \in WordLists
  PROVE  list \in Seq(Str)
<1>1. list \in Seq(Seq(Characters)) BY TrieAssumption
<1>2. ASSUME NEW s \in Seq(Characters) PROVE s \in Str
  <2>1. Len(s) \in Nat /\ s \in [1..Len(s) -> Nat] BY <1>2 DEF Characters
  <2>2. QED BY <2>1 DEF Str
<1>3. Len(list) \in Nat /\ list \in [1..Len(list) -> Seq(Characters)] BY <1>1
<1>4. list \in [1..Len(list) -> Str] BY <1>2, <1>3
<1>5. QED BY <1>3, <1>4

LEMMA PrefixLetters ==
  ASSUME NEW a \in Str, NEW b \in Str
  PROVE  IsPrefix(a, b) <=> Len(a) <= Len(b) /\ \A i \in 1..Len(a) : a[i] = b[i]
<1>1. ASSUME Len(a) <= Len(b)
      PROVE  SubSeq(a, 1, Len(a)) = SubSeq(b, 1, Len(a)) <=> \A i \in 1..Len(a) : a[i] = b[i]
  <2> DEFINE x == SubSeq(a, 1, Len(a))
             y == SubSeq(b, 1, Len(a))
  <2>1. /\ x \in Seq(Nat) /\ Len(x) = Len(a)
        /\ y \in Seq(Nat) /\ Len(y) = Len(a)
        /\ \A i \in 1..Len(a) : x[i] = a[i] /\ y[i] = b[i]
    BY <1>1 DEF Str
  <2> HIDE DEF x, y
  <2>2. (\A i \in 1..Len(a) : a[i] = b[i]) => x = y BY <2>1, SeqEqual
  <2>3. x = y => \A i \in 1..Len(a) : a[i] = b[i] BY <2>1
  <2>4. QED BY <2>2, <2>3 DEF x, y
<1>2. QED BY <1>1 DEF IsPrefix, Str

LEMMA SamePrefix ==
  ASSUME NEW a \in Str, NEW b \in Str, IsPrefix(a, b), Len(a) = Len(b)
  PROVE  a = b
<1>1. \A i \in 1..Len(a) : a[i] = b[i] BY PrefixLetters
<1>2. QED BY <1>1 DEF Str

LEMMA PrefixOrder ==
  ASSUME NEW a \in Str, NEW b \in Str
  PROVE  /\ IsPrefix(a, a) /\ IsPrefix(<<>>, a)
         /\ IsPrefix(a, b) /\ IsPrefix(b, a) => a = b
         /\ \A c \in Str : IsPrefix(a, b) /\ IsPrefix(b, c) => IsPrefix(a, c)
         /\ \A c \in Str : IsPrefix(a, c) /\ IsPrefix(b, c) => IsPrefix(a, b) \/ IsPrefix(b, a)
<1>1. Len(a) \in Nat /\ Len(b) \in Nat /\ <<>> \in Str /\ Len(<<>>) = 0 BY DEF Str
<1>2. IsPrefix(a, a) /\ IsPrefix(<<>>, a) BY <1>1, PrefixLetters
<1>3. ASSUME IsPrefix(a, b), IsPrefix(b, a) PROVE a = b
  <2>1. Len(a) = Len(b) BY <1>1, <1>3, PrefixLetters
  <2>2. QED BY <1>3, <2>1, SamePrefix
<1>4. ASSUME NEW c \in Str, IsPrefix(a, b), IsPrefix(b, c) PROVE IsPrefix(a, c)
  <2>1. Len(c) \in Nat BY DEF Str
  <2>2. /\ Len(a) <= Len(b) /\ Len(b) <= Len(c)
        /\ \A i \in 1..Len(a) : a[i] = b[i]
        /\ \A i \in 1..Len(b) : b[i] = c[i]
    BY <1>4, PrefixLetters
  <2>3. QED BY <1>1, <2>1, <2>2, PrefixLetters
<1>5. ASSUME NEW c \in Str, IsPrefix(a, c), IsPrefix(b, c)
      PROVE  IsPrefix(a, b) \/ IsPrefix(b, a)
  <2>1. /\ \A i \in 1..Len(a) : a[i] = c[i]
        /\ \A i \in 1..Len(b) : b[i] = c[i]
    BY <1>5, PrefixLetters
  <2>2. CASE Len(a) <= Len(b) BY <1>1, <2>1, <2>2, PrefixLetters
  <2>3. CASE Len(b) <= Len(a) BY <1>1, <2>1, <2>3, PrefixLetters
  <2>4. QED BY <1>1, <2>2, <2>3
<1>6. QED BY <1>2, <1>3, <1>4, <1>5

\* A string that goes on from a prefix has a letter more.
LEMMA StrictPrefixes ==
  ASSUME NEW a \in Str, NEW b \in Str, IsStrictPrefix(a, b)
  PROVE  /\ IsPrefix(a, b) /\ a # b /\ ~IsPrefix(b, a) /\ Len(a) \in Nat /\ Len(b) \in Nat
         /\ Len(a) < Len(b)
         /\ \A c \in Str : IsPrefix(b, c) => IsStrictPrefix(a, c) /\ Letter(a, c) = Letter(a, b)
         /\ \A c \in Str : IsPrefix(c, a) => IsStrictPrefix(c, b)
<1>1. IsPrefix(a, b) /\ a # b BY DEF IsStrictPrefix
<1>2. Len(a) \in Nat /\ Len(b) \in Nat BY DEF Str
<1>3. ~IsPrefix(b, a) BY <1>1, PrefixOrder
<1>4. Len(a) < Len(b)
  <2>1. Len(a) <= Len(b) BY <1>1, PrefixLetters
  <2>2. Len(a) # Len(b) BY <1>1, SamePrefix
  <2>3. QED BY <1>2, <2>1, <2>2
<1>5. ASSUME NEW c \in Str, IsPrefix(b, c)
      PROVE  IsStrictPrefix(a, c) /\ Letter(a, c) = Letter(a, b)
  <2>1. IsPrefix(a, c) BY <1>1, <1>5, PrefixOrder
  <2>2. a # c BY <1>3, <1>5
  <2>3. Len(a) + 1 \in 1..Len(b) BY <1>2, <1>4
  <2>4. b[Len(a) + 1] = c[Len(a) + 1] BY <1>5, <2>3, PrefixLetters
  <2>5. QED BY <2>1, <2>2, <2>4 DEF IsStrictPrefix, Letter
<1>6. ASSUME NEW c \in Str, IsPrefix(c, a) PROVE IsStrictPrefix(c, b)
  <2>1. IsPrefix(c, b) BY <1>1, <1>6, PrefixOrder
  <2>2. c # b BY <1>3, <1>6
  <2>3. QED BY <2>1, <2>2 DEF IsStrictPrefix
<1>7. QED BY <1>1, <1>2, <1>3, <1>4, <1>5, <1>6

\* Two strings that go on from a prefix with different letters part there.
LEMMA OneMore ==
  ASSUME NEW a \in Str, NEW b \in Str, NEW c \in Str,
         IsStrictPrefix(a, b), IsStrictPrefix(a, c), Len(b) = Len(a) + 1
  PROVE  IsPrefix(b, c) <=> Letter(a, b) = Letter(a, c)
<1>1. Len(a) \in Nat /\ Len(c) \in Nat /\ Len(a) < Len(c) BY StrictPrefixes
<1>2. \A i \in 1..Len(a) : b[i] = c[i]
  <2>1. IsPrefix(a, b) /\ IsPrefix(a, c) BY StrictPrefixes
  <2>2. /\ \A i \in 1..Len(a) : a[i] = b[i]
        /\ \A i \in 1..Len(a) : a[i] = c[i]
    BY <2>1, PrefixLetters
  <2>3. QED BY <2>2
<1>3. \A i \in 1..Len(b) : i \in 1..Len(a) \/ i = Len(a) + 1 BY <1>1
<1>4. Len(a) + 1 \in 1..Len(b) BY <1>1
<1>5. QED BY <1>1, <1>2, <1>3, <1>4, PrefixLetters DEF Letter

\* The first letters of a string.
LEMMA Cut ==
  ASSUME NEW s \in Str, NEW n \in 0..Len(s)
  PROVE  /\ SubSeq(s, 1, n) \in Str /\ Len(SubSeq(s, 1, n)) = n
         /\ \A i \in 1..n : SubSeq(s, 1, n)[i] = s[i]
         /\ IsPrefix(SubSeq(s, 1, n), s)
         /\ n < Len(s) => IsStrictPrefix(SubSeq(s, 1, n), s)
         /\ n = Len(s) => SubSeq(s, 1, n) = s
<1> DEFINE a == SubSeq(s, 1, n)
<1>1. Len(s) \in Nat /\ n \in Nat /\ n <= Len(s) BY DEF Str
<1>2. a \in Str /\ Len(a) = n /\ \A i \in 1..n : a[i] = s[i]
  <2>1. 1 \in 1..Len(s) + 1 /\ n \in 1 - 1..Len(s) BY <1>1
  <2>2. /\ a \in Seq(Nat)
        /\ Len(a) = IF 1 <= n THEN n - 1 + 1 ELSE 0
        /\ \A i \in 1..n - 1 + 1 : a[i] = s[1 + i - 1]
    BY <2>1, SubSeqProperties DEF Str
  <2> HIDE DEF a
  <2>3. Len(a) = n BY <1>1, <2>2
  <2>4. \A i \in 1..n : a[i] = s[i] BY <1>1, <2>2
  <2>5. QED BY <2>2, <2>3, <2>4 DEF Str
<1> HIDE DEF a
<1>3. IsPrefix(a, s) BY <1>1, <1>2, PrefixLetters
<1>4. n < Len(s) => IsStrictPrefix(a, s) BY <1>1, <1>2, <1>3 DEF IsStrictPrefix
<1>5. n = Len(s) => a = s BY <1>2, <1>3, SamePrefix
<1>6. QED BY <1>2, <1>3, <1>4, <1>5 DEF a

LEMMA Fronts ==
  ASSUME NEW w \in Str, w # <<>>
  PROVE  Front(w) \in Str /\ IsStrictPrefix(Front(w), w) /\ Len(w) = Len(Front(w)) + 1
<1>1. Len(w) \in Nat /\ Len(w) # 0 BY DEF Str
<1>2. Len(w) - 1 \in 0..Len(w) /\ Len(w) - 1 < Len(w) BY <1>1
<1>3. /\ SubSeq(w, 1, Len(w) - 1) \in Str /\ Len(SubSeq(w, 1, Len(w) - 1)) = Len(w) - 1
      /\ IsStrictPrefix(SubSeq(w, 1, Len(w) - 1), w)
  BY <1>2, Cut
<1>4. QED BY <1>1, <1>3 DEF Front

LEMMA FrontOf ==
  ASSUME NEW a \in Str, NEW w \in Str, IsStrictPrefix(a, w)
  PROVE  /\ w # <<>> /\ IsPrefix(a, Front(w))
         /\ Len(w) = Len(a) + 1 <=> Front(w) = a
         /\ Front(w) # a => IsStrictPrefix(a, Front(w)) /\ Letter(a, Front(w)) = Letter(a, w)
<1>1. /\ Len(a) \in Nat /\ Len(w) \in Nat /\ Len(a) < Len(w) /\ IsPrefix(a, w)
  BY StrictPrefixes
<1>2. w # <<>> BY <1>1
<1>3. Front(w) \in Str /\ IsStrictPrefix(Front(w), w) /\ Len(w) = Len(Front(w)) + 1
  BY <1>2, Fronts
<1>4. Len(Front(w)) \in Nat /\ IsPrefix(Front(w), w) BY <1>3, StrictPrefixes
<1>5. IsPrefix(a, Front(w))
  <2>1. /\ \A i \in 1..Len(a) : a[i] = w[i]
        /\ \A i \in 1..Len(Front(w)) : Front(w)[i] = w[i]
    BY <1>1, <1>3, <1>4, PrefixLetters
  <2>2. QED BY <1>1, <1>3, <1>4, <2>1, PrefixLetters
<1>6. Len(w) = Len(a) + 1 => Front(w) = a
  <2>1. Len(w) = Len(a) + 1 => Len(a) = Len(Front(w)) BY <1>1, <1>3, <1>4
  <2>2. QED BY <1>3, <1>5, <2>1, SamePrefix
<1>7. ASSUME Front(w) # a
      PROVE  IsStrictPrefix(a, Front(w)) /\ Letter(a, Front(w)) = Letter(a, w)
  <2>1. IsStrictPrefix(a, Front(w)) BY <1>5, <1>7 DEF IsStrictPrefix
  <2>2. QED BY <1>3, <1>4, <2>1, StrictPrefixes
<1>8. QED BY <1>2, <1>3, <1>5, <1>6, <1>7

-----------------------------------------------------------------------------
(* What is sorted, searched and compared.                                  *)

\* Sorting keeps the words, and puts none behind one it begins.
LEMMA SortedWords ==
  ASSUME NEW list \in Seq(Str), NEW s \in Sorted(list)
  PROVE  /\ s \in Seq(Str) /\ Len(s) = Len(list) /\ Len(list) \in Nat
         /\ \A i \in 1..Len(list) : \E j \in 1..Len(list) : s[i] = list[j]
         /\ \A j \in 1..Len(list) : \E i \in 1..Len(list) : s[i] = list[j]
         /\ \A i, j \in 1..Len(list) : i < j => ~IsStrictPrefix(s[j], s[i])
<1>1. s \in Arranged(list) /\ \A i, j \in Positions(s) : i < j => ~Less(s[j], s[i])
  BY DEF Sorted
<1>2. Len(list) \in Nat /\ Positions(list) = 1..Len(list) BY DEF Positions
<1>3. PICK p \in Bijection(1..Len(list), 1..Len(list)) : s = [i \in 1..Len(list) |-> list[p[i]]]
  BY <1>1, <1>2 DEF Arranged
<1>4. /\ p \in [1..Len(list) -> 1..Len(list)]
      /\ \A j \in 1..Len(list) : \E i \in 1..Len(list) : p[i] = j
  BY DEF Bijection, Injection, Surjection
<1>5. \A j \in 1..Len(list) : list[j] \in Str OBVIOUS
<1>6. s \in [1..Len(list) -> Str] BY <1>3, <1>4, <1>5
<1>7. s \in Seq(Str) /\ Len(s) = Len(list) BY <1>2, <1>6
<1>8. \A i, j \in 1..Len(list) : i < j => ~IsStrictPrefix(s[j], s[i])
  BY <1>1, <1>7 DEF Positions, Less
<1>9. QED BY <1>2, <1>3, <1>4, <1>7, <1>8

\* The first position of a word in a list is one.
LEMMA WordIndex ==
  ASSUME NEW list \in Seq(Str), NEW i \in 1..Len(list)
  PROVE  word_idx(list, list[i]) \in 1..Len(list) /\ list[word_idx(list, list[i])] = list[i]
<1> DEFINE S == {j \in Positions(list) : list[j] = list[i]}
<1>1. S \in SUBSET Nat /\ i \in S BY DEF Positions
<1> HIDE DEF S
<1>2. \E m \in S : \A n \in S : m <= n BY <1>1, LeastOf
<1>3. First(S) \in S BY <1>2 DEF First
<1>4. QED BY <1>3 DEF S, word_idx, Positions

\* A comparison goes on to the end of the prefix, the end of the word or the
\* first letter that differs.
LEMMA Mismatch ==
  ASSUME NEW c \in Str, NEW s \in Str, NEW n \in Str, IsStrictPrefix(n, c),
         IsPrefix(n, s), Len(n) < Len(s), Letter(n, c) = Letter(n, s)
  PROVE  LET m == mismatch(c, s)
             upper == SubSeq(c, 1, m)
         IN  /\ m \in 0..Len(c) /\ m <= Len(s) /\ upper \in Str /\ Len(upper) = m
             /\ IsPrefix(upper, c) /\ IsPrefix(upper, s)
             /\ IsStrictPrefix(n, upper) /\ Letter(n, upper) = Letter(n, c)
             /\ upper = c <=> m = Len(c)
             /\ m < Len(c) /\ m < Len(s) => Letter(upper, c) # Letter(upper, s)
<1> DEFINE S == {k \in 0..Len(c) : k = Len(c) \/ k >= Len(s) \/ c[k + 1] # s[k + 1]}
           m == mismatch(c, s)
           upper == SubSeq(c, 1, m)
<1>1. /\ Len(c) \in Nat /\ Len(s) \in Nat /\ Len(n) \in Nat /\ Len(n) < Len(c)
      /\ IsPrefix(n, c)
  <2>1. Len(s) \in Nat BY DEF Str
  <2>2. QED BY <2>1, StrictPrefixes
<1>2. S \in SUBSET Nat /\ Len(c) \in S BY <1>1
<1>3. m \in S /\ \A k \in S : m <= k
  <2> HIDE DEF S
  <2>1. \E l \in S : \A k \in S : l <= k BY <1>2, LeastOf
  <2>2. First(S) \in S /\ \A k \in S : First(S) <= k BY <2>1 DEF First
  <2>3. QED BY <2>2 DEF S, mismatch
<1> HIDE DEF m
<1>4. m \in Nat /\ m <= Len(c) BY <1>1, <1>3
<1>5. \A k \in 0..m - 1 : k < Len(s) /\ c[k + 1] = s[k + 1]
  <2>1. ASSUME NEW k \in 0..m - 1 PROVE k < Len(s) /\ c[k + 1] = s[k + 1]
    <3>1. k \in 0..Len(c) /\ k < m BY <1>1, <1>4
    <3>2. k \notin S
      <4> HIDE DEF S
      <4>1. QED BY <1>3, <1>4, <3>1
    <3>3. QED BY <1>1, <3>1, <3>2
  <2>2. QED BY <2>1
<1>6. m <= Len(s)
  <2>1. m > Len(s) => m - 1 \in 0..m - 1 /\ ~(m - 1 < Len(s)) BY <1>1, <1>4
  <2>2. QED BY <1>1, <1>4, <1>5, <2>1
<1>7. \A i \in 1..Len(n) : c[i] = n[i] /\ n[i] = s[i] BY <1>1, PrefixLetters
<1>8. m > Len(n)
  <2>1. SUFFICES ASSUME m <= Len(n) PROVE FALSE BY <1>1, <1>4
  <2>2. m + 1 \in 1..Len(n) \/ m = Len(n) BY <1>1, <1>4, <2>1
  <2>3. c[m + 1] = s[m + 1] BY <1>7, <2>2 DEF Letter
  <2>4. ~(m = Len(c)) /\ ~(m >= Len(s)) BY <1>1, <1>4, <2>1
  <2>5. QED BY <1>3, <2>3, <2>4
<1>9. /\ upper \in Str /\ Len(upper) = m /\ IsPrefix(upper, c)
      /\ \A i \in 1..m : upper[i] = c[i]
      /\ m = Len(c) => upper = c
  BY <1>1, <1>4, Cut
<1> HIDE DEF upper
<1>10. IsPrefix(upper, s)
  <2>1. \A i \in 1..m : c[i] = s[i]
    <3>1. \A i \in 1..m : i - 1 \in 0..m - 1 /\ (i - 1) + 1 = i BY <1>4
    <3>2. QED BY <1>5, <3>1
  <2>2. QED BY <1>4, <1>6, <1>9, <2>1, PrefixLetters
<1>11. IsStrictPrefix(n, upper)
  <2>1. IsPrefix(n, upper)
    <3>1. \A i \in 1..Len(n) : i \in 1..m BY <1>1, <1>4, <1>8
    <3>2. QED BY <1>1, <1>4, <1>7, <1>8, <1>9, <3>1, PrefixLetters
  <2>2. n # upper BY <1>1, <1>4, <1>8, <1>9
  <2>3. QED BY <2>1, <2>2 DEF IsStrictPrefix
<1>12. Letter(n, upper) = Letter(n, c) BY <1>9, <1>11, StrictPrefixes
<1>13. upper = c => m = Len(c) BY <1>9
<1>14. m < Len(c) /\ m < Len(s) => Letter(upper, c) # Letter(upper, s)
  BY <1>1, <1>3, <1>4, <1>9 DEF Letter
<1>15. QED BY <1>1, <1>4, <1>6, <1>9, <1>10, <1>11, <1>12, <1>13, <1>14 DEF m, upper

-----------------------------------------------------------------------------
(* The inductive invariant.                                                *)

Paths == DOMAIN transitions

TrieTyped ==
  /\ words \in WordLists /\ sorted_words \in Sorted(words) /\ inserted \in 0..Len(words)
  /\ Paths \in SUBSET Str /\ <<>> \in Paths
  /\ transitions \in [Paths -> SUBSET Paths]
  /\ word_index \in [Paths -> 0..Len(words)]
  /\ node \in Paths /\ str \in Str /\ matched \in BOOLEAN
  /\ pc \in {"insert", "visit", "answered"}
  /\ pc # "insert" => inserted = Len(words)

\* Children go on from their parents, each with a letter of its own; what goes
\* on with that letter is below the child, and nothing goes on without one.
Descends == \A n \in Paths : \A c \in transitions[n] : IsStrictPrefix(n, c)
Gathers  == \A n, d \in Paths : \A c \in transitions[n] :
              IsStrictPrefix(n, d) /\ Letter(n, d) = Letter(n, c) => IsPrefix(c, d)
Reaches  == \A n, d \in Paths : IsStrictPrefix(n, d) =>
              \E c \in transitions[n] : IsPrefix(c, d)
Shape == Descends /\ Gathers /\ Reaches

\* A node begins a word that was inserted; the words inserted, and no other
\* nodes, have their index; and not all words that begin with a node go on from
\* it with one letter.
Begins  == \A d \in Paths : d # <<>> => \E j \in 1..inserted : IsPrefix(d, sorted_words[j])
Indexed == \A j \in 1..inserted : sorted_words[j] # <<>> =>
             /\ sorted_words[j] \in Paths
             /\ word_index[sorted_words[j]] = word_idx(words, sorted_words[j])
Bare    == \A d \in Paths : word_index[d] # 0 =>
             d # <<>> /\ \E j \in 1..inserted : sorted_words[j] = d
Needed  == \A d \in Paths : \A a \in Nat : d # <<>> =>
             \E j \in 1..Len(words) :
               /\ IsPrefix(d, sorted_words[j])
               /\ ~(Len(sorted_words[j]) > Len(d) /\ Letter(d, sorted_words[j]) = a)
Holds == Begins /\ Indexed /\ Bare /\ Needed

\* The walk is on the way to its word or string, which no state on the way
\* turned away.
Follows == Inserting => IsPrefix(node, word)
Looks   == pc = "visit" =>
             /\ IsStrictPrefix(node, str) /\ ~matched
             /\ \A w \in Paths : w # <<>> /\ word_index[w] # 0 /\ IsPrefix(w, node) =>
                  Front(w) \notin Paths

TrieInv == TrieTyped /\ Shape /\ Holds /\ Follows /\ Looks /\ LookupExact

LEMMA Setting ==
  ASSUME TrieTyped
  PROVE  /\ words \in Seq(Str) /\ Len(words) \in Nat /\ Len(words) + 2 < Modulus /\ Modulus \in Nat
         /\ sorted_words \in Seq(Str) /\ Len(sorted_words) = Len(words) /\ inserted \in Nat
         /\ \A i \in 1..Len(words) : sorted_words[i] \in Str
         /\ \A i \in 1..Len(words) : \E j \in 1..Len(words) : sorted_words[i] = words[j]
         /\ \A j \in 1..Len(words) : \E i \in 1..Len(words) : sorted_words[i] = words[j]
         /\ \A i, j \in 1..Len(words) : i < j => ~IsStrictPrefix(sorted_words[j], sorted_words[i])
<1>1. words \in Seq(Str) /\ Len(words) + 2 < Modulus /\ Modulus \in Nat
  BY TrieAssumption, WordsAreStrings DEF TrieTyped
<1>2. /\ sorted_words \in Seq(Str) /\ Len(sorted_words) = Len(words) /\ Len(words) \in Nat
      /\ \A i \in 1..Len(words) : \E j \in 1..Len(words) : sorted_words[i] = words[j]
      /\ \A j \in 1..Len(words) : \E i \in 1..Len(words) : sorted_words[i] = words[j]
      /\ \A i, j \in 1..Len(words) : i < j => ~IsStrictPrefix(sorted_words[j], sorted_words[i])
  BY <1>1, SortedWords DEF TrieTyped
<1>3. inserted \in Nat BY <1>2 DEF TrieTyped
<1>4. \A i \in 1..Len(words) : sorted_words[i] \in Str BY <1>2
<1>5. QED BY <1>1, <1>2, <1>3, <1>4

LEMMA Current ==
  ASSUME TrieTyped, Inserting
  PROVE  /\ inserted + 1 \in 1..Len(words) /\ word = sorted_words[inserted + 1] /\ word \in Str
         /\ Len(word) \in Nat
         /\ \A j \in 1..inserted : j \in 1..Len(words) /\ ~IsStrictPrefix(word, sorted_words[j])
<1> DEFINE len == Len(words)
<1>1. len \in Nat /\ inserted \in Nat /\ inserted < len
  <2>1. Len(sorted_words) = len /\ len \in Nat /\ inserted \in Nat BY Setting
  <2>2. QED BY <2>1 DEF Inserting
<1> HIDE DEF len
<1>2. inserted + 1 \in 1..len /\ \A j \in 1..inserted : j \in 1..len /\ j < inserted + 1
  BY <1>1
<1> USE DEF len
<1>3. word = sorted_words[inserted + 1] /\ word \in Str BY <1>2, Setting DEF word
<1>4. \A j \in 1..inserted : ~IsStrictPrefix(word, sorted_words[j])
  BY <1>2, <1>3, Setting
<1>5. Len(word) \in Nat BY <1>3 DEF Str
<1>6. QED BY <1>2, <1>3, <1>4, <1>5

\* No path goes on where the word ends: what a word begins is sorted behind it.
LEMMA NothingBeyond ==
  ASSUME TrieTyped, Begins, Inserting, NEW d \in Paths
  PROVE  ~IsStrictPrefix(word, d)
<1>1. word \in Str /\ d \in Str BY Current DEF TrieTyped
<1>2. SUFFICES ASSUME IsStrictPrefix(word, d) PROVE FALSE OBVIOUS
<1>3. d # <<>>
  <2>1. Len(word) \in Nat /\ Len(d) \in Nat /\ Len(word) < Len(d) BY <1>1, <1>2, StrictPrefixes
  <2>2. Len(<<>>) = 0 OBVIOUS
  <2>3. QED BY <2>1, <2>2
<1>4. PICK j \in 1..inserted : IsPrefix(d, sorted_words[j]) BY <1>3 DEF Begins
<1>5. sorted_words[j] \in Str BY Setting, Current
<1>6. IsStrictPrefix(word, sorted_words[j]) BY <1>1, <1>2, <1>4, <1>5, StrictPrefixes
<1>7. QED BY <1>6, Current

-----------------------------------------------------------------------------
(* A new child.                                                            *)

LEMMA Grown ==
  ASSUME TrieTyped, Shape, Follows, Grow
  PROVE  /\ Inserting /\ IsStrictPrefix(node, word) /\ word \notin Paths /\ word # <<>>
         /\ \A d \in Paths : IsStrictPrefix(node, d) => Letter(node, d) # Letter(node, word)
         /\ Paths' = Paths \cup {word}
         /\ transitions'[word] = {}
         /\ transitions'[node] = transitions[node] \cup {word}
         /\ \A n \in Paths : n # node => transitions'[n] = transitions[n]
         /\ word_index' \in [Paths' -> 0..Len(words)]
         /\ word_index'[word] = word_idx(words, word)
         /\ \A n \in Paths : word_index'[n] = word_index[n]
<1>1. Inserting /\ Len(node) < Len(word) /\ Branches(node, word) = {} /\ IsPrefix(node, word)
  BY DEF Grow, Reading, Follows
<1>2. /\ word \in Str /\ node \in Str /\ node \in Paths /\ Paths \subseteq Str /\ Len(node) \in Nat
  BY <1>1, Current DEF TrieTyped, Str
<1>3. IsStrictPrefix(node, word)
  <2>1. node # word BY <1>1, <1>2
  <2>2. QED BY <1>1, <2>1 DEF IsStrictPrefix
<1>4. \A c \in transitions[node] : Letter(node, c) # Letter(node, word)
  BY <1>1 DEF Branches, Letter
<1>5. ASSUME NEW d \in Paths, IsStrictPrefix(node, d) PROVE Letter(node, d) # Letter(node, word)
  <2>1. PICK c \in transitions[node] : IsPrefix(c, d) BY <1>2, <1>5 DEF Shape, Reaches
  <2>2. c \in Str /\ d \in Str BY <1>2, <2>1 DEF TrieTyped
  <2>3. IsStrictPrefix(node, c) BY <1>2, <2>1 DEF Shape, Descends
  <2>4. Letter(node, d) = Letter(node, c) BY <1>2, <2>1, <2>2, <2>3, StrictPrefixes
  <2>5. QED BY <1>4, <2>1, <2>4
<1>6. word \notin Paths BY <1>3, <1>5
<1>7. word # node /\ word # <<>> BY <1>2, <1>6 DEF TrieTyped
<1>8. /\ transitions' = [n \in Paths \cup {word} |->
                           CASE n = word -> {}
                             [] n = node -> transitions[n] \cup {word}
                             [] OTHER -> transitions[n]]
      /\ word_index' = [n \in Paths \cup {word} |->
                          IF n = word THEN word_idx(words, word) ELSE word_index[n]]
  BY DEF Grow, Paths
<1>9. Paths' = Paths \cup {word} BY <1>8 DEF Paths
<1>10. /\ transitions'[word] = {}
       /\ transitions'[node] = transitions[node] \cup {word}
       /\ \A n \in Paths : n # node => transitions'[n] = transitions[n]
  BY <1>2, <1>6, <1>7, <1>8
<1>11. word_idx(words, word) \in 1..Len(words)
  <2>1. PICK j \in 1..Len(words) : word = words[j] BY <1>1, Current, Setting
  <2>2. QED BY <2>1, Setting, WordIndex
<1>12. /\ word_index' \in [Paths' -> 0..Len(words)]
       /\ word_index'[word] = word_idx(words, word)
       /\ \A n \in Paths : word_index'[n] = word_index[n]
  <2>1. word_idx(words, word) \in 0..Len(words) BY <1>11
  <2>2. word_index \in [Paths -> 0..Len(words)] BY DEF TrieTyped
  <2>3. QED BY <1>6, <1>8, <1>9, <2>1, <2>2
<1>13. QED BY <1>1, <1>3, <1>5, <1>6, <1>7, <1>9, <1>10, <1>12

LEMMA GrowsDown ==
  ASSUME TrieTyped, Shape, Follows, Grow
  PROVE  Shape'
<1>1. /\ IsStrictPrefix(node, word) /\ word \notin Paths
      /\ \A d \in Paths : IsStrictPrefix(node, d) => Letter(node, d) # Letter(node, word)
      /\ Paths' = Paths \cup {word}
      /\ transitions'[word] = {}
      /\ transitions'[node] = transitions[node] \cup {word}
      /\ \A n \in Paths : n # node => transitions'[n] = transitions[n]
  BY Grown
<1>2. /\ word \in Str /\ node \in Str /\ node \in Paths /\ Paths \subseteq Str
      /\ \A n \in Paths : transitions[n] \subseteq Paths
  BY Current, Grown DEF TrieTyped
<1>3. IsPrefix(node, word) BY <1>1, <1>2, StrictPrefixes
<1>4. /\ \A n \in Paths : transitions[n] \subseteq transitions'[n]
      /\ \A n \in Paths : \A c \in transitions'[n] : c \in transitions[n] \/ (n = node /\ c = word)
  BY <1>1
\* nothing in the tree is beyond the node on the way to the word
<1>5. ASSUME NEW n \in Paths, IsPrefix(n, word) PROVE IsPrefix(n, node)
  <2>1. IsPrefix(n, node) \/ IsPrefix(node, n) BY <1>2, <1>3, <1>5, PrefixOrder
  <2>2. ~IsStrictPrefix(node, n)
    <3>1. SUFFICES ASSUME IsStrictPrefix(node, n) PROVE FALSE OBVIOUS
    <3>2. Letter(node, word) = Letter(node, n) BY <1>2, <1>5, <3>1, StrictPrefixes
    <3>3. QED BY <1>1, <3>1, <3>2
  <2>3. QED BY <2>1, <2>2 DEF IsStrictPrefix
<1>6. Descends'
  <2>1. ASSUME NEW n \in Paths', NEW c \in transitions'[n] PROVE IsStrictPrefix(n, c)
    <3>1. n \in Paths BY <1>1, <2>1
    <3>2. QED BY <1>1, <1>4, <2>1, <3>1 DEF Shape, Descends
  <2>2. QED BY <2>1 DEF Descends, Paths
<1>7. Gathers'
  <2>1. ASSUME NEW n \in Paths', NEW d \in Paths', NEW c \in transitions'[n],
               IsStrictPrefix(n, d), Letter(n, d) = Letter(n, c)
        PROVE  IsPrefix(c, d)
    <3>1. n \in Paths BY <1>1, <2>1
    <3>2. CASE n = node /\ c = word
      <4>1. d = word BY <1>1, <2>1, <3>2
      <4>2. QED BY <1>2, <3>2, <4>1, PrefixOrder
    <3>3. CASE c \in transitions[n] /\ d \in Paths BY <2>1, <3>1, <3>3 DEF Shape, Gathers
    <3>4. CASE c \in transitions[n] /\ d = word
      <4>1. IsPrefix(n, node) BY <1>2, <2>1, <3>1, <3>4, <1>5, StrictPrefixes
      <4>2. c \in Paths /\ c \in Str /\ n \in Str BY <1>2, <3>1, <3>4
      <4>3. IsStrictPrefix(n, c) BY <3>1, <3>4 DEF Shape, Descends
      <4>4. n # node BY <1>1, <2>1, <3>4, <4>2, <4>3
      <4>5. IsStrictPrefix(n, node) BY <4>1, <4>4 DEF IsStrictPrefix
      <4>6. Letter(n, word) = Letter(n, node) BY <1>2, <1>3, <4>2, <4>5, StrictPrefixes
      <4>7. IsPrefix(c, node) BY <1>2, <2>1, <3>1, <3>4, <4>5, <4>6 DEF Shape, Gathers
      <4>8. QED BY <1>2, <1>3, <3>4, <4>2, <4>7, PrefixOrder
    <3>5. QED BY <1>1, <1>4, <2>1, <3>1, <3>2, <3>3, <3>4
  <2>2. QED BY <2>1 DEF Gathers, Paths, Letter
<1>8. Reaches'
  <2>1. ASSUME NEW n \in Paths', NEW d \in Paths', IsStrictPrefix(n, d)
        PROVE  \E c \in transitions'[n] : IsPrefix(c, d)
    <3>1. CASE n \in Paths /\ d \in Paths
      <4>1. PICK c \in transitions[n] : IsPrefix(c, d) BY <2>1, <3>1 DEF Shape, Reaches
      <4>2. QED BY <1>4, <3>1, <4>1
    <3>2. CASE n \in Paths /\ d = word
      <4>1. n \in Str /\ IsPrefix(n, node) BY <1>2, <1>5, <2>1, <3>2, StrictPrefixes
      <4>2. CASE n = node BY <1>1, <1>2, <3>2, <4>2, PrefixOrder
      <4>3. CASE n # node
        <5>1. IsStrictPrefix(n, node) BY <4>1, <4>3 DEF IsStrictPrefix
        <5>2. PICK c \in transitions[n] : IsPrefix(c, node)
          BY <1>2, <3>2, <5>1 DEF Shape, Reaches
        <5>3. c \in Str BY <1>2, <3>2, <5>2
        <5>4. IsPrefix(c, word) BY <1>2, <1>3, <5>2, <5>3, PrefixOrder
        <5>5. QED BY <1>4, <3>2, <5>2, <5>4
      <4>4. QED BY <4>2, <4>3
    <3>3. CASE n = word
      <4>1. d \in Str BY <1>1, <1>2, <2>1
      <4>2. IsPrefix(word, d) BY <1>2, <2>1, <3>3, <4>1, StrictPrefixes
      <4>3. IsStrictPrefix(node, d) /\ Letter(node, d) = Letter(node, word)
        BY <1>1, <1>2, <4>1, <4>2, StrictPrefixes
      <4>4. d # word BY <2>1, <3>3 DEF IsStrictPrefix
      <4>5. QED BY <1>1, <2>1, <4>3, <4>4
    <3>4. QED BY <1>1, <2>1, <3>1, <3>2, <3>3
  <2>2. QED BY <2>1 DEF Reaches, Paths
<1>9. QED BY <1>6, <1>7, <1>8 DEF Shape

LEMMA GrowsHold ==
  ASSUME TrieTyped, Shape, Holds, Follows, Grow
  PROVE  Holds'
<1>1. /\ Inserting /\ word \notin Paths /\ word # <<>>
      /\ Paths' = Paths \cup {word}
      /\ word_index'[word] = word_idx(words, word)
      /\ \A n \in Paths : word_index'[n] = word_index[n]
  BY Grown
<1>2. inserted' = inserted + 1 /\ words' = words /\ sorted_words' = sorted_words
  BY DEF Grow, NextWord
<1>3. /\ word = sorted_words[inserted + 1] /\ word \in Str /\ inserted \in Nat
      /\ inserted + 1 \in 1..Len(words) /\ Len(word) \in Nat
  BY <1>1, Current, Setting
<1>4. \A j \in 1..inserted + 1 : j \in 1..inserted \/ j = inserted + 1 BY <1>3
<1>5. \A j \in 1..inserted : j \in 1..inserted + 1 BY <1>3
<1>6. inserted + 1 \in 1..inserted + 1 BY <1>3
<1>7. Begins'
  <2>1. ASSUME NEW d \in Paths', d # <<>>
        PROVE  \E j \in 1..inserted + 1 : IsPrefix(d, sorted_words[j])
    <3>1. CASE d \in Paths BY <1>5, <2>1, <3>1 DEF Holds, Begins
    <3>2. CASE d = word BY <1>3, <1>6, <3>2, PrefixOrder
    <3>3. QED BY <1>1, <2>1, <3>1, <3>2
  <2>2. QED BY <1>2, <2>1 DEF Begins, Paths
<1>8. Indexed'
  <2>1. ASSUME NEW j \in 1..inserted + 1, sorted_words[j] # <<>>
        PROVE  /\ sorted_words[j] \in Paths'
               /\ word_index'[sorted_words[j]] = word_idx(words, sorted_words[j])
    BY <1>1, <1>3, <1>4, <2>1 DEF Holds, Indexed
  <2>2. QED BY <1>2, <2>1 DEF Indexed, Paths
<1>9. Bare'
  <2>1. ASSUME NEW d \in Paths', word_index'[d] # 0
        PROVE  d # <<>> /\ \E j \in 1..inserted + 1 : sorted_words[j] = d
    BY <1>1, <1>3, <1>5, <1>6, <2>1 DEF Holds, Bare
  <2>2. QED BY <1>2, <2>1 DEF Bare, Paths
<1>10. Needed'
  <2>1. ASSUME NEW d \in Paths', NEW a \in Nat, d # <<>>
        PROVE  \E j \in 1..Len(words) :
                 /\ IsPrefix(d, sorted_words[j])
                 /\ ~(Len(sorted_words[j]) > Len(d) /\ Letter(d, sorted_words[j]) = a)
    <3>1. CASE d \in Paths BY <2>1, <3>1 DEF Holds, Needed
    <3>2. CASE d = word
      <4>1. IsPrefix(d, word) /\ ~(Len(word) > Len(d)) BY <1>3, <3>2, PrefixOrder
      <4>2. QED BY <1>3, <4>1
    <3>3. QED BY <1>1, <2>1, <3>1, <3>2
  <2>2. QED BY <1>2, <2>1 DEF Needed, Paths, Letter
<1>11. QED BY <1>7, <1>8, <1>9, <1>10 DEF Holds

-----------------------------------------------------------------------------
(* A prefix that is divided.                                               *)

Meets(child, upper) ==
  /\ child \in transitions[node] /\ child \in Paths /\ child \in Str /\ upper \in Str
  /\ IsStrictPrefix(node, child) /\ IsStrictPrefix(node, upper)
  /\ IsPrefix(upper, child) /\ IsPrefix(upper, word) /\ Letter(node, upper) = Letter(node, child)
  /\ upper # child =>
       /\ IsStrictPrefix(upper, child) /\ Len(upper) < Len(word)
       /\ Letter(upper, child) # Letter(upper, word)

LEMMA Meeting ==
  ASSUME TrieTyped, Shape, Begins, Follows, Reading, NEW child \in Branches(node, word)
  PROVE  Meets(child, SubSeq(child, 1, mismatch(child, word)))
<1> DEFINE m == mismatch(child, word)
           upper == SubSeq(child, 1, m)
<1>1. Inserting /\ Len(node) < Len(word) /\ IsPrefix(node, word) BY DEF Reading, Follows
<1>2. child \in transitions[node] /\ Letter(node, child) = Letter(node, word)
  BY DEF Branches, Letter
<1>3. /\ child \in Paths /\ child \in Str /\ node \in Str /\ word \in Str
      /\ Len(word) \in Nat /\ Len(child) \in Nat
  BY <1>1, <1>2, Current DEF TrieTyped, Str
<1>4. IsStrictPrefix(node, child) BY <1>2 DEF Shape, Descends, TrieTyped
<1>5. /\ m \in 0..Len(child) /\ m <= Len(word) /\ upper \in Str /\ Len(upper) = m
      /\ IsPrefix(upper, child) /\ IsPrefix(upper, word)
      /\ IsStrictPrefix(node, upper) /\ Letter(node, upper) = Letter(node, child)
      /\ upper = child <=> m = Len(child)
      /\ m < Len(child) /\ m < Len(word) => Letter(upper, child) # Letter(upper, word)
  BY <1>1, <1>2, <1>3, <1>4, Mismatch
<1> HIDE DEF m, upper
<1>6. ASSUME upper # child
      PROVE  /\ IsStrictPrefix(upper, child) /\ Len(upper) < Len(word)
             /\ Letter(upper, child) # Letter(upper, word)
  <2>1. IsStrictPrefix(upper, child) BY <1>5, <1>6 DEF IsStrictPrefix
  <2>2. upper # word BY <1>1, <1>3, <2>1, NothingBeyond
  <2>3. Len(upper) # Len(word) BY <1>3, <1>5, <2>2, SamePrefix
  <2>4. m < Len(child) /\ m < Len(word) BY <1>3, <1>5, <1>6, <2>3
  <2>5. QED BY <1>5, <2>1, <2>4
<1>7. Meets(child, upper) BY <1>2, <1>3, <1>4, <1>5, <1>6 DEF Meets
<1>8. QED BY <1>7 DEF m, upper

LEMMA Divided ==
  ASSUME TrieTyped, Shape, NEW child, NEW upper, Meets(child, upper), upper # child,
         transitions' = divided(child, upper)
  PROVE  /\ upper \notin Paths /\ upper # node /\ upper # <<>>
         /\ Paths' = Paths \cup {upper}
         /\ transitions'[upper] = {child}
         /\ transitions'[node] = (transitions[node] \ {child}) \cup {upper}
         /\ \A n \in Paths : n # node => transitions'[n] = transitions[n]
<1>1. node \in Paths /\ node \in Str BY DEF TrieTyped
<1>2. upper # node /\ upper # <<>>
  <2>1. upper # node BY DEF Meets, IsStrictPrefix
  <2>2. Len(node) \in Nat /\ Len(node) < Len(upper) BY <1>1, StrictPrefixes DEF Meets
  <2>3. Len(<<>>) = 0 OBVIOUS
  <2>4. QED BY <2>1, <2>2, <2>3
<1>3. upper \notin Paths
  <2>1. SUFFICES ASSUME upper \in Paths PROVE FALSE OBVIOUS
  <2>2. IsPrefix(child, upper) BY <1>1, <2>1 DEF Meets, Shape, Gathers
  <2>3. QED BY <2>2, PrefixOrder DEF Meets
<1>4. transitions' = [n \in Paths \cup {upper} |->
                        CASE n = upper -> {child}
                          [] n = node -> (transitions[n] \ {child}) \cup {upper}
                          [] OTHER -> transitions[n]]
  BY DEF divided, Paths
<1>5. Paths' = Paths \cup {upper} BY <1>4 DEF Paths
<1>6. QED BY <1>1, <1>2, <1>3, <1>4, <1>5

LEMMA DividesDown ==
  ASSUME TrieTyped, Shape, NEW child, NEW upper, Meets(child, upper), upper # child,
         transitions' = divided(child, upper)
  PROVE  Shape'
<1>1. /\ upper \notin Paths /\ upper # node
      /\ Paths' = Paths \cup {upper}
      /\ transitions'[upper] = {child}
      /\ transitions'[node] = (transitions[node] \ {child}) \cup {upper}
      /\ \A n \in Paths : n # node => transitions'[n] = transitions[n]
  BY Divided
<1>2. /\ upper \in Str /\ child \in Str /\ child \in Paths /\ child \in transitions[node]
      /\ node \in Str /\ node \in Paths /\ Paths \subseteq Str
      /\ \A n \in Paths : transitions[n] \subseteq Paths
      /\ IsStrictPrefix(node, child) /\ IsStrictPrefix(node, upper)
      /\ IsStrictPrefix(upper, child) /\ IsPrefix(upper, child)
      /\ Letter(node, upper) = Letter(node, child)
  BY DEF TrieTyped, Meets
<1>3. \A n \in Paths : \A c \in transitions'[n] :
        (c \in transitions[n] /\ (n = node => c # child)) \/ (n = node /\ c = upper)
  BY <1>1
<1>4. \A n \in Paths : \A c \in transitions[n] :
        c \in transitions'[n] \/ (n = node /\ c = child)
  BY <1>1
\* what goes on as the child did is below it,
<1>5. ASSUME NEW d \in Paths, IsStrictPrefix(node, d), Letter(node, d) = Letter(node, child)
      PROVE  IsPrefix(child, d)
  BY <1>2, <1>5 DEF Shape, Gathers
\* and no node is between.
<1>6. ASSUME NEW n \in Paths, IsPrefix(n, upper) PROVE IsPrefix(n, node)
  <2>1. IsPrefix(node, upper) BY <1>2, StrictPrefixes
  <2>2. n \in Str BY <1>2
  <2>3. IsPrefix(n, node) \/ IsPrefix(node, n) BY <1>2, <1>6, <2>1, <2>2, PrefixOrder
  <2>4. ~IsStrictPrefix(node, n)
    <3>1. SUFFICES ASSUME IsStrictPrefix(node, n) PROVE FALSE OBVIOUS
    <3>2. Letter(node, n) = Letter(node, child)
      BY <1>2, <1>6, <2>2, <3>1, StrictPrefixes
    <3>3. IsPrefix(child, n) BY <1>5, <3>1, <3>2
    <3>4. IsPrefix(child, upper) BY <1>2, <1>6, <2>2, <3>3, PrefixOrder
    <3>5. QED BY <1>2, <3>4, StrictPrefixes
  <2>5. QED BY <2>3, <2>4 DEF IsStrictPrefix
<1>7. Descends'
  <2>1. ASSUME NEW n \in Paths', NEW c \in transitions'[n] PROVE IsStrictPrefix(n, c)
    <3>1. CASE n = upper BY <1>1, <1>2, <2>1, <3>1
    <3>2. CASE n \in Paths BY <1>2, <1>3, <2>1, <3>2 DEF Shape, Descends
    <3>3. QED BY <1>1, <2>1, <3>1, <3>2
  <2>2. QED BY <2>1 DEF Descends, Paths
<1>8. Gathers'
  <2>1. ASSUME NEW n \in Paths', NEW d \in Paths', NEW c \in transitions'[n],
               IsStrictPrefix(n, d), Letter(n, d) = Letter(n, c)
        PROVE  IsPrefix(c, d)
    <3>1. CASE n = upper
      <4>1. c = child BY <1>1, <2>1, <3>1
      <4>2. d \in Paths /\ d \in Str
        <5>1. d # upper BY <2>1, <3>1 DEF IsStrictPrefix
        <5>2. QED BY <1>1, <1>2, <2>1, <5>1
      <4>3. IsPrefix(upper, d) BY <1>2, <2>1, <3>1, <4>2, StrictPrefixes
      <4>4. IsStrictPrefix(node, d) /\ Letter(node, d) = Letter(node, child)
        BY <1>2, <4>2, <4>3, StrictPrefixes
      <4>5. QED BY <1>5, <4>1, <4>2, <4>4
    <3>2. CASE n = node /\ c = upper
      <4>1. CASE d = upper BY <1>2, <3>2, <4>1, PrefixOrder
      <4>2. CASE d # upper
        <5>1. d \in Paths /\ d \in Str BY <1>1, <1>2, <2>1, <4>2
        <5>2. IsPrefix(child, d) BY <1>2, <1>5, <2>1, <3>2, <5>1
        <5>3. QED BY <1>2, <3>2, <5>1, <5>2, PrefixOrder
      <4>3. QED BY <4>1, <4>2
    <3>3. CASE n \in Paths /\ c \in transitions[n] /\ (n = node => c # child)
      <4>1. CASE d \in Paths BY <2>1, <3>3, <4>1 DEF Shape, Gathers
      <4>2. CASE d = upper
        <5>1. /\ n \in Str /\ c \in Str /\ c \in Paths /\ IsStrictPrefix(n, c)
              /\ IsPrefix(n, node)
          BY <1>2, <1>6, <2>1, <3>3, <4>2, StrictPrefixes DEF Shape, Descends
        <5>2. CASE n = node
          <6>1. Letter(node, c) = Letter(node, child) BY <1>2, <2>1, <4>2, <5>2
          <6>2. IsPrefix(child, c) BY <1>5, <5>1, <5>2, <6>1
          <6>3. IsPrefix(c, child) BY <1>2, <3>3, <5>2, <6>1 DEF Shape, Gathers
          <6>4. QED BY <1>2, <3>3, <5>1, <5>2, <6>2, <6>3, PrefixOrder
        <5>3. CASE n # node
          <6>1. IsStrictPrefix(n, node) BY <5>1, <5>3 DEF IsStrictPrefix
          <6>2. IsPrefix(node, upper) BY <1>2, StrictPrefixes
          <6>3. Letter(n, upper) = Letter(n, node) BY <1>2, <5>1, <6>1, <6>2, StrictPrefixes
          <6>4. IsPrefix(c, node) BY <1>2, <2>1, <3>3, <4>2, <6>1, <6>3 DEF Shape, Gathers
          <6>5. QED BY <1>2, <4>2, <5>1, <6>2, <6>4, PrefixOrder
        <5>4. QED BY <5>2, <5>3
      <4>3. QED BY <1>1, <2>1, <4>1, <4>2
    <3>4. QED BY <1>1, <1>3, <2>1, <3>1, <3>2, <3>3
  <2>2. QED BY <2>1 DEF Gathers, Paths, Letter
<1>9. Reaches'
  <2>1. ASSUME NEW n \in Paths', NEW d \in Paths', IsStrictPrefix(n, d)
        PROVE  \E c \in transitions'[n] : IsPrefix(c, d)
    <3>1. CASE n \in Paths /\ d \in Paths
      <4>1. PICK c \in transitions[n] : IsPrefix(c, d) BY <2>1, <3>1 DEF Shape, Reaches
      <4>2. CASE n = node /\ c = child
        <5>1. IsPrefix(upper, d) BY <1>2, <3>1, <4>1, <4>2, PrefixOrder
        <5>2. QED BY <1>1, <4>2, <5>1
      <4>3. CASE ~(n = node /\ c = child) BY <1>4, <3>1, <4>1, <4>3
      <4>4. QED BY <4>2, <4>3
    <3>2. CASE n \in Paths /\ d = upper
      <4>1. n \in Str /\ IsPrefix(n, node) BY <1>2, <1>6, <2>1, <3>2, StrictPrefixes
      <4>2. CASE n = node BY <1>1, <1>2, <3>2, <4>2, PrefixOrder
      <4>3. CASE n # node
        <5>1. IsStrictPrefix(n, node) BY <4>1, <4>3 DEF IsStrictPrefix
        <5>2. PICK c \in transitions[n] : IsPrefix(c, node)
          BY <1>2, <3>2, <5>1 DEF Shape, Reaches
        <5>3. c \in Str /\ c \in transitions'[n] BY <1>1, <1>2, <3>2, <4>3, <5>2
        <5>4. IsPrefix(node, upper) BY <1>2, StrictPrefixes
        <5>5. IsPrefix(c, upper) BY <1>2, <5>2, <5>3, <5>4, PrefixOrder
        <5>6. QED BY <3>2, <5>3, <5>5
      <4>4. QED BY <4>2, <4>3
    <3>3. CASE n = upper
      <4>1. d \in Paths /\ d \in Str
        <5>1. d # upper BY <2>1, <3>3 DEF IsStrictPrefix
        <5>2. QED BY <1>1, <1>2, <2>1, <5>1
      <4>2. IsPrefix(upper, d) BY <1>2, <2>1, <3>3, <4>1, StrictPrefixes
      <4>3. IsStrictPrefix(node, d) /\ Letter(node, d) = Letter(node, child)
        BY <1>2, <4>1, <4>2, StrictPrefixes
      <4>4. IsPrefix(child, d) BY <1>5, <4>1, <4>3
      <4>5. QED BY <1>1, <3>3, <4>4
    <3>4. QED BY <1>1, <2>1, <3>1, <3>2, <3>3
  <2>2. QED BY <2>1 DEF Reaches, Paths
<1>10. QED BY <1>7, <1>8, <1>9 DEF Shape

LEMMA DividesHold ==
  ASSUME TrieTyped, Shape, Holds, Inserting, NEW child, NEW upper,
         Meets(child, upper), upper # child, transitions' = divided(child, upper),
         word_index' = [n \in Paths \cup {upper} |-> IF n = upper THEN 0 ELSE word_index[n]],
         UNCHANGED <<words, sorted_words, inserted>>
  PROVE  Holds' /\ word_index' \in [Paths' -> 0..Len(words)]
<1>1. upper \notin Paths /\ upper # <<>> /\ Paths' = Paths \cup {upper} BY Divided
<1>2. /\ word_index'[upper] = 0
      /\ \A n \in Paths : word_index'[n] = word_index[n]
      /\ word_index' \in [Paths' -> 0..Len(words)]
  <2>1. word_index \in [Paths -> 0..Len(words)] /\ 0 \in 0..Len(words) BY Setting DEF TrieTyped
  <2>2. QED BY <1>1, <2>1
<1>3. /\ words' = words /\ sorted_words' = sorted_words /\ inserted' = inserted OBVIOUS
<1>4. /\ upper \in Str /\ child \in Str /\ child \in Paths /\ word \in Str
      /\ IsStrictPrefix(upper, child) /\ IsPrefix(upper, word)
      /\ Len(upper) < Len(word) /\ Letter(upper, child) # Letter(upper, word)
      /\ word = sorted_words[inserted + 1] /\ inserted + 1 \in 1..Len(words)
  BY Current DEF Meets
<1>5. PICK k \in 1..inserted : IsPrefix(child, sorted_words[k])
  <2>1. child # <<>>
    <3>1. Len(upper) \in Nat /\ Len(upper) < Len(child) BY <1>4, StrictPrefixes
    <3>2. Len(<<>>) = 0 OBVIOUS
    <3>3. QED BY <3>1, <3>2
  <2>2. QED BY <1>4, <2>1 DEF Holds, Begins
<1>6. /\ k \in 1..Len(words) /\ sorted_words[k] \in Str
      /\ IsStrictPrefix(upper, sorted_words[k]) /\ IsPrefix(upper, sorted_words[k])
      /\ Letter(upper, sorted_words[k]) = Letter(upper, child)
  <2>1. k \in 1..Len(words) /\ sorted_words[k] \in Str BY Current, Setting
  <2>2. QED BY <1>4, <1>5, <2>1, StrictPrefixes
<1>7. Begins'
  <2>1. ASSUME NEW d \in Paths', d # <<>>
        PROVE  \E j \in 1..inserted : IsPrefix(d, sorted_words[j])
    BY <1>1, <1>5, <1>6, <2>1 DEF Holds, Begins
  <2>2. QED BY <1>3, <2>1 DEF Begins, Paths
<1>8. Indexed'
  <2>1. ASSUME NEW j \in 1..inserted, sorted_words[j] # <<>>
        PROVE  /\ sorted_words[j] \in Paths'
               /\ word_index'[sorted_words[j]] = word_idx(words, sorted_words[j])
    BY <1>1, <1>2, <2>1 DEF Holds, Indexed
  <2>2. QED BY <1>3, <2>1 DEF Indexed, Paths
<1>9. Bare'
  <2>1. ASSUME NEW d \in Paths', word_index'[d] # 0
        PROVE  d # <<>> /\ \E j \in 1..inserted : sorted_words[j] = d
    BY <1>1, <1>2, <2>1 DEF Holds, Bare
  <2>2. QED BY <1>3, <2>1 DEF Bare, Paths
<1>10. Needed'
  <2>1. ASSUME NEW d \in Paths', NEW a \in Nat, d # <<>>
        PROVE  \E j \in 1..Len(words) :
                 /\ IsPrefix(d, sorted_words[j])
                 /\ ~(Len(sorted_words[j]) > Len(d) /\ Letter(d, sorted_words[j]) = a)
    <3>1. CASE d \in Paths BY <2>1, <3>1 DEF Holds, Needed
    <3>2. CASE d = upper
      <4>1. CASE Letter(upper, child) = a BY <1>4, <3>2, <4>1
      <4>2. CASE Letter(upper, child) # a BY <1>6, <3>2, <4>2
      <4>3. QED BY <4>1, <4>2
    <3>3. QED BY <1>1, <2>1, <3>1, <3>2
  <2>2. QED BY <1>3, <2>1 DEF Needed, Paths, Letter
<1>11. QED BY <1>2, <1>7, <1>8, <1>9, <1>10 DEF Holds

-----------------------------------------------------------------------------
(* The steps of the insertion.                                             *)

LEMMA GoesOn ==
  ASSUME TrieTyped, Inserting, NextWord
  PROVE  Follows' /\ Looks' /\ LookupExact' /\ inserted' \in 0..Len(words)
<1>1. /\ inserted' = inserted + 1 /\ node' = <<>> /\ pc' = "insert"
      /\ sorted_words' = sorted_words
  BY DEF NextWord, Inserting
<1>2. /\ Len(words) \in Nat /\ Len(sorted_words) = Len(words)
      /\ \A i \in 1..Len(words) : sorted_words[i] \in Str
      /\ inserted \in Nat /\ inserted + 1 \in 1..Len(words)
  BY Setting, Current
<1>3. inserted' \in 0..Len(words) BY <1>1, <1>2
<1>4. Follows'
  <2>1. ASSUME inserted' < Len(sorted_words) PROVE IsPrefix(<<>>, sorted_words[inserted' + 1])
    <3>1. inserted + 1 < Len(words) /\ inserted' = inserted + 1 BY <1>1, <1>2, <2>1
    <3>2. inserted' + 1 \in 1..Len(words) BY <1>2, <3>1
    <3>3. QED BY <1>2, <3>2, PrefixOrder
  <2>2. QED BY <1>1, <2>1 DEF Follows, Inserting, word
<1>5. QED BY <1>1, <1>3, <1>4 DEF Looks, LookupExact

LEMMA FinishKeeps == TrieInv /\ Finish => TrieInv'
<1> SUFFICES ASSUME TrieInv, Finish PROVE TrieInv'
  OBVIOUS
<1>1. TrieTyped /\ Shape /\ Holds /\ Follows BY DEF TrieInv
<1>2. /\ Inserting /\ Len(node) = Len(word) /\ NextWord
      /\ transitions' = transitions /\ word_index' = word_index /\ inserted' = inserted + 1
      /\ node' = <<>> /\ words' = words /\ sorted_words' = sorted_words
      /\ pc' = pc /\ str' = str /\ matched' = matched
  BY DEF Finish, NextWord
<1>3. Follows' /\ Looks' /\ LookupExact' /\ inserted' \in 0..Len(words) BY <1>1, <1>2, GoesOn
<1>4. /\ word = sorted_words[inserted + 1] /\ word \in Str /\ inserted \in Nat
      /\ \A j \in 1..inserted : /\ j \in 1..Len(words) /\ ~IsStrictPrefix(word, sorted_words[j])
                                /\ sorted_words[j] \in Str
  BY <1>1, <1>2, Current, Setting
<1>5. word = node /\ node \in Paths
  <2>1. node \in Str /\ node \in Paths BY <1>1 DEF TrieTyped
  <2>2. IsPrefix(node, word) BY <1>1, <1>2 DEF Follows
  <2>3. QED BY <1>2, <1>4, <2>1, <2>2, SamePrefix
<1>6. ASSUME word # <<>> PROVE word_index[word] = word_idx(words, word)
  <2>1. PICK j \in 1..inserted : IsPrefix(word, sorted_words[j])
    BY <1>1, <1>5, <1>6 DEF Holds, Begins
  <2>2. sorted_words[j] = word BY <1>4, <2>1 DEF IsStrictPrefix
  <2>3. QED BY <1>1, <1>6, <2>2 DEF Holds, Indexed
<1>7. /\ \A j \in 1..inserted + 1 : j \in 1..inserted \/ j = inserted + 1
      /\ \A j \in 1..inserted : j \in 1..inserted + 1
  BY <1>4
<1>8. Holds'
  <2>1. Begins' BY <1>1, <1>2, <1>7 DEF Holds, Begins, Paths
  <2>2. Indexed'
    <3>1. \A j \in 1..inserted + 1 : sorted_words[j] # <<>> =>
            /\ sorted_words[j] \in Paths
            /\ word_index[sorted_words[j]] = word_idx(words, sorted_words[j])
      BY <1>1, <1>4, <1>5, <1>6, <1>7 DEF Holds, Indexed
    <3>2. QED BY <1>2, <3>1 DEF Indexed, Paths
  <2>3. Bare' BY <1>1, <1>2, <1>7 DEF Holds, Bare, Paths
  <2>4. Needed' BY <1>1, <1>2 DEF Holds, Needed, Paths, Letter
  <2>5. QED BY <2>1, <2>2, <2>3, <2>4 DEF Holds
<1>9. Shape' BY <1>1, <1>2 DEF Shape, Descends, Gathers, Reaches, Paths, Letter
<1>10. TrieTyped' BY <1>1, <1>2, <1>3 DEF TrieTyped, Paths, Inserting
<1>11. QED BY <1>3, <1>8, <1>9, <1>10 DEF TrieInv

LEMMA GrowKeeps == TrieInv /\ Grow => TrieInv'
<1> SUFFICES ASSUME TrieInv, Grow PROVE TrieInv'
  OBVIOUS
<1>1. TrieTyped /\ Shape /\ Holds /\ Follows BY DEF TrieInv
<1>2. /\ Inserting /\ Paths' = Paths \cup {word}
      /\ transitions'[word] = {}
      /\ transitions'[node] = transitions[node] \cup {word}
      /\ \A n \in Paths : n # node => transitions'[n] = transitions[n]
      /\ word_index' \in [Paths' -> 0..Len(words)]
  BY <1>1, Grown
<1>3. /\ NextWord /\ node' = <<>> /\ words' = words /\ sorted_words' = sorted_words
      /\ pc' = pc /\ str' = str /\ matched' = matched
  BY DEF Grow, NextWord
<1>4. Follows' /\ Looks' /\ LookupExact' /\ inserted' \in 0..Len(words)
  BY <1>1, <1>2, <1>3, GoesOn
<1>5. Shape' /\ Holds' BY <1>1, GrowsDown, GrowsHold
<1>6. word \in Str BY <1>1, <1>2, Current
<1>7. transitions' \in [Paths' -> SUBSET Paths']
  <2>1. transitions' = [n \in Paths' |-> transitions'[n]] BY DEF Grow, Paths
  <2>2. ASSUME NEW n \in Paths' PROVE transitions'[n] \subseteq Paths'
    BY <1>1, <1>2, <2>2 DEF TrieTyped
  <2>3. QED BY <2>1, <2>2
<1>8. pc = "insert" BY <1>2 DEF Inserting
<1>9. TrieTyped'
  <2>1. Paths' \in SUBSET Str /\ <<>> \in Paths' /\ node' \in Paths'
    BY <1>1, <1>2, <1>3, <1>6 DEF TrieTyped
  <2>2. QED BY <1>1, <1>2, <1>3, <1>4, <1>7, <1>8, <2>1 DEF TrieTyped
<1>10. QED BY <1>4, <1>5, <1>9 DEF TrieInv

LEMMA DescendKeeps == TrieInv /\ Descend => TrieInv'
<1> SUFFICES ASSUME TrieInv, Descend PROVE TrieInv'
  OBVIOUS
<1>1. TrieTyped /\ Shape /\ Holds /\ Follows BY DEF TrieInv
<1>2. /\ Reading /\ Inserting /\ pc = "insert"
      /\ words' = words /\ sorted_words' = sorted_words /\ inserted' = inserted
      /\ pc' = pc /\ str' = str /\ matched' = matched
  BY DEF Descend, Reading, Inserting
<1>3. PICK child \in Branches(node, word) :
        LET upper == SubSeq(child, 1, mismatch(child, word)) IN
        /\ IF upper = child THEN UNCHANGED <<transitions, word_index>>
           ELSE /\ transitions' = divided(child, upper)
                /\ word_index' = [n \in DOMAIN transitions \cup {upper} |->
                                    IF n = upper THEN 0 ELSE word_index[n]]
        /\ node' = upper
  BY DEF Descend
<1> DEFINE upper == SubSeq(child, 1, mismatch(child, word))
<1>4. Meets(child, upper) BY <1>1, <1>2, Meeting DEF Holds
<1>5. /\ node' = upper
      /\ upper = child => transitions' = transitions /\ word_index' = word_index
      /\ upper # child => /\ transitions' = divided(child, upper)
                          /\ word_index' = [n \in Paths \cup {upper} |->
                                              IF n = upper THEN 0 ELSE word_index[n]]
  BY <1>3 DEF Paths
<1> HIDE DEF upper
<1>6. IsPrefix(upper, word) /\ upper \in Str /\ child \in Paths BY <1>4 DEF Meets
<1>7. Follows' /\ Looks' /\ LookupExact'
  <2>1. word' = word BY <1>2 DEF word
  <2>2. QED BY <1>2, <1>5, <1>6, <2>1 DEF Follows, Looks, LookupExact
<1>8. CASE upper = child
  <2>1. transitions' = transitions /\ word_index' = word_index BY <1>5, <1>8
  <2>2. Shape' BY <1>1, <2>1 DEF Shape, Descends, Gathers, Reaches, Paths, Letter
  <2>3. Holds' BY <1>1, <1>2, <2>1 DEF Holds, Begins, Indexed, Bare, Needed, Paths, Letter
  <2>4. TrieTyped' BY <1>1, <1>2, <1>5, <1>6, <1>8, <2>1 DEF TrieTyped, Paths
  <2>5. QED BY <1>7, <2>2, <2>3, <2>4 DEF TrieInv
<1>9. CASE upper # child
  <2>1. transitions' = divided(child, upper) BY <1>5, <1>9
  <2>2. Shape' BY <1>1, <1>4, <1>9, <2>1, DividesDown
  <2>3. Holds' /\ word_index' \in [Paths' -> 0..Len(words)]
    BY <1>1, <1>2, <1>4, <1>5, <1>9, <2>1, DividesHold
  <2>4. /\ Paths' = Paths \cup {upper}
        /\ transitions'[upper] = {child}
        /\ transitions'[node] = (transitions[node] \ {child}) \cup {upper}
        /\ \A n \in Paths : n # node => transitions'[n] = transitions[n]
    BY <1>1, <1>4, <1>9, <2>1, Divided
  <2>5. transitions' \in [Paths' -> SUBSET Paths']
    <3>1. transitions' = [n \in Paths' |-> transitions'[n]] BY <2>1 DEF divided, Paths
    <3>2. ASSUME NEW n \in Paths' PROVE transitions'[n] \subseteq Paths'
      <4>1. transitions \in [Paths -> SUBSET Paths] BY <1>1 DEF TrieTyped
      <4>2. CASE n = upper BY <1>6, <2>4, <4>2
      <4>3. CASE n = node /\ n \in Paths BY <2>4, <4>1, <4>3
      <4>4. CASE n # node /\ n \in Paths BY <2>4, <4>1, <4>4
      <4>5. QED BY <2>4, <3>2, <4>2, <4>3, <4>4
    <3>3. QED BY <3>1, <3>2
  <2>6. TrieTyped'
    <3>1. Paths' \in SUBSET Str /\ <<>> \in Paths' /\ node' \in Paths'
      BY <1>1, <1>5, <1>6, <2>4 DEF TrieTyped
    <3>2. QED BY <1>1, <1>2, <2>3, <2>5, <3>1 DEF TrieTyped
  <2>7. QED BY <1>7, <2>2, <2>3, <2>6 DEF TrieInv
<1>10. QED BY <1>8, <1>9

-----------------------------------------------------------------------------
(* What is in the tree when all words are.                                 *)

LEMMA Placed ==
  ASSUME TrieTyped, Holds, inserted = Len(words), NEW w \in Str, w # <<>>
  PROVE  /\ Contains(words, w) <=> w \in Paths /\ word_index[w] # 0
         /\ Contains(words, w) => /\ word_index[w] = word_idx(words, w)
                                  /\ word_index[w] \in 1..Len(words)
<1>1. Contains(words, w) <=> \E i \in 1..Len(words) : words[i] = w BY DEF Contains
<1>2. ASSUME NEW i \in 1..Len(words), words[i] = w
      PROVE  /\ w \in Paths
             /\ word_index[w] = word_idx(words, w)
             /\ word_index[w] \in 1..Len(words)
  <2>1. PICK j \in 1..Len(words) : sorted_words[j] = words[i] BY Setting
  <2>2. w \in Paths /\ word_index[w] = word_idx(words, w) BY <1>2, <2>1 DEF Holds, Indexed
  <2>3. word_idx(words, w) \in 1..Len(words) BY <1>2, Setting, WordIndex
  <2>4. QED BY <2>2, <2>3
<1>3. ASSUME w \in Paths, word_index[w] # 0 PROVE \E i \in 1..Len(words) : words[i] = w
  <2>1. PICK j \in 1..Len(words) : sorted_words[j] = w BY <1>3 DEF Holds, Bare
  <2>2. QED BY <2>1, Setting
<1>4. \A k \in 1..Len(words) : k # 0 BY Setting
<1>5. QED BY <1>1, <1>2, <1>3, <1>4

\* There is a node wherever two nodes part.
LEMMA Branching ==
  ASSUME TrieTyped, Shape, NEW q \in Str, NEW u \in Paths, NEW v \in Paths,
         IsStrictPrefix(q, u), IsStrictPrefix(q, v), Letter(q, u) # Letter(q, v)
  PROVE  q \in Paths
<1> DEFINE S == {k \in Nat : \E n \in Paths : IsPrefix(n, q) /\ k = Len(q) - Len(n)}
<1>1. /\ Paths \subseteq Str /\ <<>> \in Paths /\ u \in Str /\ v \in Str
      /\ Len(q) \in Nat /\ Len(<<>>) = 0
  BY DEF TrieTyped, Str
<1>2. \A n \in Paths : IsPrefix(n, q) => Len(q) - Len(n) \in S
  <2>1. ASSUME NEW n \in Paths, IsPrefix(n, q) PROVE Len(q) - Len(n) \in Nat
    <3>1. n \in Str BY <1>1
    <3>2. Len(n) <= Len(q) BY <2>1, <3>1, PrefixLetters
    <3>3. Len(n) \in Nat BY <3>1 DEF Str
    <3>4. QED BY <1>1, <3>2, <3>3
  <2>2. QED BY <2>1
<1>3. S \in SUBSET Nat /\ S # {}
  <2>1. IsPrefix(<<>>, q) BY PrefixOrder
  <2>2. QED BY <1>1, <1>2, <2>1
<1>4. PICK m \in S : \A k \in S : m <= k
  <2> HIDE DEF S
  <2>1. QED BY <1>3, LeastOf
\* the deepest node that begins q
<1>5. PICK n \in Paths : IsPrefix(n, q) /\ m = Len(q) - Len(n) BY <1>4
<1>6. \A d \in Paths : IsPrefix(d, q) => Len(q) - Len(n) <= Len(q) - Len(d)
  <2> HIDE DEF S
  <2>1. QED BY <1>2, <1>4, <1>5
<1>7. SUFFICES ASSUME n # q PROVE FALSE BY <1>5
<1>8. n \in Str /\ IsStrictPrefix(n, q) BY <1>1, <1>5, <1>7 DEF IsStrictPrefix
<1>9. /\ IsPrefix(q, u) /\ IsPrefix(q, v)
      /\ IsStrictPrefix(n, u) /\ Letter(n, u) = Letter(n, q)
      /\ IsStrictPrefix(n, v) /\ Letter(n, v) = Letter(n, q)
  BY <1>1, <1>8, StrictPrefixes
<1>10. PICK c \in transitions[n] : IsPrefix(c, u) BY <1>5, <1>9 DEF Shape, Reaches
<1>11. c \in Paths /\ c \in Str BY <1>1, <1>5, <1>10 DEF TrieTyped
<1>12. IsStrictPrefix(n, c) BY <1>5, <1>10 DEF Shape, Descends
<1>13. Letter(n, c) = Letter(n, u) BY <1>1, <1>8, <1>10, <1>11, <1>12, StrictPrefixes
<1>14. IsPrefix(c, v) BY <1>5, <1>9, <1>10, <1>13 DEF Shape, Gathers
<1>15. ~IsPrefix(c, q)
  <2>1. SUFFICES ASSUME IsPrefix(c, q) PROVE FALSE OBVIOUS
  <2>2. Len(n) \in Nat /\ Len(c) \in Nat /\ Len(n) < Len(c) BY <1>8, <1>11, <1>12, StrictPrefixes
  <2>3. Len(q) - Len(n) <= Len(q) - Len(c) BY <1>6, <1>11, <2>1
  <2>4. QED BY <1>1, <2>2, <2>3
<1>16. IsStrictPrefix(q, c)
  <2>1. IsPrefix(q, c) BY <1>1, <1>9, <1>10, <1>11, <1>15, PrefixOrder
  <2>2. q # c BY <1>15, PrefixOrder
  <2>3. QED BY <2>1, <2>2 DEF IsStrictPrefix
<1>17. Letter(q, u) = Letter(q, c) /\ Letter(q, v) = Letter(q, c)
  BY <1>1, <1>10, <1>11, <1>14, <1>16, StrictPrefixes
<1>18. QED BY <1>17

\* A word's node has one letter if there is a node without its last letter.
LEMMA OneLetter ==
  ASSUME TrieTyped, Shape, Holds, inserted = Len(words), NEW w \in Str, w # <<>>,
         Contains(words, w)
  PROVE  OneLetterNode(words, w) <=> Front(w) \in Paths
<1> DEFINE q == Front(w)
<1>1. w \in Paths BY Placed
<1>2. q \in Str /\ IsStrictPrefix(q, w) /\ Len(w) = Len(q) + 1 BY Fronts
<1>3. OneLetterNode(words, w) <=>
        q = <<>> \/ \E k \in 1..Len(words) : IsPrefix(q, words[k]) /\ ~IsPrefix(w, words[k])
  BY DEF OneLetterNode, Positions
<1>4. \A k \in 1..Len(words) : words[k] \in Str BY Setting
<1> HIDE DEF q
<1>5. ASSUME NEW k \in 1..Len(words), IsPrefix(q, words[k]), ~IsPrefix(w, words[k]), q # <<>>
      PROVE  q \in Paths
  <2>1. CASE words[k] = q
    <3>1. Contains(words, q) BY <2>1 DEF Contains
    <3>2. QED BY <1>2, <1>5, <3>1, Placed
  <2>2. CASE words[k] # q
    <3> DEFINE u == words[k]
    <3>1. u \in Str /\ IsStrictPrefix(q, u) BY <1>4, <1>5, <2>2 DEF IsStrictPrefix
    <3>2. Letter(q, u) # Letter(q, w) BY <1>2, <1>5, <3>1, OneMore
    <3>3. Contains(words, u) BY DEF Contains
    <3> HIDE DEF u
    <3>4. u # <<>>
      <4>1. Len(q) \in Nat /\ Len(u) \in Nat /\ Len(q) < Len(u) BY <1>2, <3>1, StrictPrefixes
      <4>2. Len(<<>>) = 0 OBVIOUS
      <4>3. QED BY <4>1, <4>2
    <3>5. u \in Paths BY <3>1, <3>3, <3>4, Placed
    <3>6. QED BY <1>1, <1>2, <3>1, <3>2, <3>5, Branching
  <2>3. QED BY <2>1, <2>2
<1>6. ASSUME q \in Paths, q # <<>>
      PROVE  \E k \in 1..Len(words) : IsPrefix(q, words[k]) /\ ~IsPrefix(w, words[k])
  <2>1. Letter(q, w) \in Nat
    <3>1. Len(q) \in Nat /\ Len(w) \in Nat BY <1>2, StrictPrefixes
    <3>2. Len(q) + 1 \in 1..Len(w) BY <1>2, <3>1
    <3>3. w[Len(q) + 1] \in Nat BY <3>2 DEF Str
    <3>4. QED BY <3>3 DEF Letter
  <2>2. PICK j \in 1..Len(words) :
          /\ IsPrefix(q, sorted_words[j])
          /\ ~(Len(sorted_words[j]) > Len(q) /\ Letter(q, sorted_words[j]) = Letter(q, w))
    BY <1>6, <2>1 DEF Holds, Needed
  <2>3. PICK k \in 1..Len(words) : sorted_words[j] = words[k] BY Setting
  <2>4. ~IsPrefix(w, words[k])
    <3>1. SUFFICES ASSUME IsPrefix(w, words[k]) PROVE FALSE OBVIOUS
    <3>2. IsStrictPrefix(q, words[k]) /\ Letter(q, words[k]) = Letter(q, w)
      BY <1>2, <1>4, <3>1, StrictPrefixes
    <3>3. Len(words[k]) \in Nat /\ Len(q) \in Nat /\ Len(q) < Len(words[k])
      BY <1>2, <1>4, <3>2, StrictPrefixes
    <3>4. QED BY <2>2, <2>3, <3>2, <3>3
  <2>5. QED BY <2>2, <2>3, <2>4
<1>7. <<>> \in Paths BY DEF TrieTyped
<1>8. QED BY <1>3, <1>5, <1>6, <1>7 DEF q

-----------------------------------------------------------------------------
(* The steps of a lookup.                                                  *)

\* Counting one down from 0 wraps.
LEMMA OneDown ==
  ASSUME NEW m \in Nat, NEW k \in Nat, k < m
  PROVE  (k + m - 1) % m = IF k = 0 THEN m - 1 ELSE k - 1
<1>1. CASE k = 0 BY <1>1
<1>2. CASE k # 0
  <2>1. k - 1 \in 0..m - 1 BY <1>2
  <2>2. \A r \in 0..m - 1 : (r + m) % m = r OBVIOUS
  <2>3. k + m - 1 = (k - 1) + m OBVIOUS
  <2>4. QED BY <1>2, <2>1, <2>2, <2>3
<1>3. QED BY <1>1, <1>2

LEMMA FindKeeps ==
  ASSUME TrieInv, NEW s \in Strings, Find(s)
  PROVE  TrieInv'
<1>1. TrieTyped /\ Shape /\ Holds BY DEF TrieInv
<1>2. /\ s \in Str /\ <<>> \in Str /\ Len(<<>>) = 0 /\ Len(words) \in Nat /\ Modulus \in Nat
      /\ Len(words) + 2 < Modulus /\ Len(sorted_words) = Len(words)
  BY <1>1, TrieAssumption, Setting DEF Str
<1>3. /\ inserted = Len(sorted_words) /\ str' = s /\ node' = <<>> /\ matched' = FALSE
      /\ transitions' = transitions /\ word_index' = word_index
      /\ words' = words /\ sorted_words' = sorted_words /\ inserted' = inserted
      /\ s = <<>> => pc' = "answered" /\ found' = Unset
      /\ s # <<>> => pc' = "visit"
  BY DEF Find, tree
<1>4. Shape' BY <1>1, <1>3 DEF Shape, Descends, Gathers, Reaches, Paths, Letter
<1>5. Holds' BY <1>1, <1>3 DEF Holds, Begins, Indexed, Bare, Needed, Paths, Letter
<1>6. Follows'
  <2>1. inserted' = Len(sorted_words') /\ Len(sorted_words') \in Nat BY <1>2, <1>3
  <2>2. QED BY <2>1 DEF Follows, Inserting
<1>7. pc' \in {"visit", "answered"} BY <1>3
<1>8. TrieTyped' BY <1>1, <1>2, <1>3, <1>7 DEF TrieTyped, Paths
<1>9. Looks'
  <2>1. ASSUME s # <<>> PROVE IsStrictPrefix(<<>>, s)
    BY <1>2, <2>1, PrefixOrder DEF IsStrictPrefix
  <2>2. ASSUME NEW w \in Paths, w # <<>> PROVE ~IsPrefix(w, <<>>)
    <3>1. w \in Str BY <1>1 DEF TrieTyped
    <3>2. IsPrefix(<<>>, w) BY <3>1, PrefixOrder
    <3>3. QED BY <1>2, <2>2, <3>1, <3>2, PrefixOrder
  <2>3. QED BY <1>3, <2>1, <2>2 DEF Looks, Paths
<1>10. LookupExact'
  <2>1. s = <<>> => Unset >= Len(words) BY <1>2 DEF Unset
  <2>2. s = <<>> => ~Findable(words, s) BY DEF Findable
  <2>3. s # <<>> => pc' # "answered" BY <1>3
  <2>4. QED BY <1>3, <2>1, <2>2, <2>3 DEF LookupExact
<1>11. QED BY <1>4, <1>5, <1>6, <1>8, <1>9, <1>10 DEF TrieInv

\* What both kinds of step of a lookup start from.
LEMMA Lookup ==
  ASSUME TrieInv, pc = "visit"
  PROVE  /\ TrieTyped /\ Shape /\ Holds /\ inserted = Len(words)
         /\ node \in Paths /\ node \in Str /\ str \in Str /\ str # <<>> /\ Paths \subseteq Str
         /\ IsStrictPrefix(node, str) /\ matched = FALSE
         /\ \A w \in Paths : w # <<>> /\ word_index[w] # 0 /\ IsPrefix(w, node) =>
              Front(w) \notin Paths
         /\ \A c \in transitions[node] : c \in Paths /\ c \in Str /\ IsStrictPrefix(node, c)
<1>1. TrieTyped /\ Shape /\ Holds /\ Looks BY DEF TrieInv
<1>2. /\ inserted = Len(words) /\ node \in Paths /\ node \in Str /\ str \in Str
      /\ Paths \subseteq Str
  BY <1>1 DEF TrieTyped
<1>3. /\ IsStrictPrefix(node, str) /\ matched = FALSE
      /\ \A w \in Paths : w # <<>> /\ word_index[w] # 0 /\ IsPrefix(w, node) =>
           Front(w) \notin Paths
  BY <1>1 DEF Looks, TrieTyped
<1>4. str # <<>>
  <2>1. Len(node) \in Nat /\ Len(str) \in Nat /\ Len(node) < Len(str) BY <1>2, <1>3, StrictPrefixes
  <2>2. Len(<<>>) = 0 OBVIOUS
  <2>3. QED BY <2>1, <2>2
<1>5. \A c \in transitions[node] : c \in Paths /\ c \in Str /\ IsStrictPrefix(node, c)
  BY <1>1, <1>2 DEF TrieTyped, Shape, Descends
<1>6. QED BY <1>1, <1>2, <1>3, <1>4, <1>5

\* A child is accepted if the string goes on with it, unless it is a word of
\* one letter and the string is longer.
LEMMA Accepting ==
  ASSUME TrieInv, pc = "visit", NEW c \in transitions[node]
  PROVE  accepts(c) <=>
           /\ IsPrefix(c, str)
           /\ Len(c) = Len(node) + 1 /\ word_index[c] # 0 => Len(str) = Len(c)
<1>1. /\ node \in Str /\ str \in Str /\ IsStrictPrefix(node, str)
      /\ c \in Str /\ IsStrictPrefix(node, c)
  BY Lookup
<1>2. ASSUME Len(c) = Len(node) + 1 PROVE IsPrefix(c, str) <=> str[Len(c)] = c[Len(c)]
  BY <1>1, <1>2, OneMore DEF Letter
<1>3. QED BY <1>2 DEF accepts

\* Between a node and its child there is no other, so a word on the way to the
\* child is on the way to the node.
LEMMA NoneBetween ==
  ASSUME TrieInv, pc = "visit", NEW c \in transitions[node], NEW w \in Paths, IsPrefix(w, c)
  PROVE  IsPrefix(w, node) \/ w = c
<1>1. /\ Shape /\ node \in Paths /\ node \in Str /\ c \in Str /\ w \in Str
      /\ IsStrictPrefix(node, c)
  BY Lookup
<1>2. IsPrefix(w, node) \/ IsStrictPrefix(node, w)
  <2>1. IsPrefix(node, c) BY <1>1, StrictPrefixes
  <2>2. IsPrefix(node, w) \/ IsPrefix(w, node) BY <1>1, <2>1, PrefixOrder
  <2>3. IsPrefix(node, node) BY <1>1, PrefixOrder
  <2>4. QED BY <2>2, <2>3 DEF IsStrictPrefix
<1>3. ASSUME IsStrictPrefix(node, w) PROVE w = c
  <2>1. Letter(node, c) = Letter(node, w) BY <1>1, <1>3, StrictPrefixes
  <2>2. IsPrefix(c, w) BY <1>1, <1>3, <2>1 DEF Shape, Gathers
  <2>3. QED BY <1>1, <2>2, PrefixOrder
<1>4. QED BY <1>2, <1>3

LEMMA VisitKeeps == TrieInv /\ Visit => TrieInv'
<1> SUFFICES ASSUME TrieInv, Visit PROVE TrieInv'
  OBVIOUS
<1>1. /\ pc = "visit" /\ str' = str
      /\ transitions' = transitions /\ word_index' = word_index
      /\ words' = words /\ sorted_words' = sorted_words /\ inserted' = inserted
  BY DEF Visit, tree
<1>2. PICK c \in transitions[node] :
        /\ accepts(c)
        /\ node' = c
        /\ IF Len(c) = Len(str)
           THEN /\ pc' = "answered"
                /\ matched' = (word_index[c] # 0)
                /\ found' = (word_index[c] + Modulus - 1) % Modulus
           ELSE UNCHANGED <<pc, matched, found>>
  BY DEF Visit
<1>3. /\ TrieTyped /\ Shape /\ Holds /\ inserted = Len(words)
      /\ node \in Paths /\ node \in Str /\ str \in Str /\ str # <<>> /\ Paths \subseteq Str
      /\ IsStrictPrefix(node, str) /\ matched = FALSE
      /\ \A w \in Paths : w # <<>> /\ word_index[w] # 0 /\ IsPrefix(w, node) =>
           Front(w) \notin Paths
      /\ c \in Paths /\ c \in Str /\ IsStrictPrefix(node, c)
  BY <1>1, Lookup
<1>4. /\ IsPrefix(c, str)
      /\ Len(c) = Len(node) + 1 /\ word_index[c] # 0 => Len(str) = Len(c)
  BY <1>1, <1>2, Accepting
<1>5. word_index[c] \in 0..Len(words) BY <1>3 DEF TrieTyped
<1>6. Shape' BY <1>1, <1>3 DEF Shape, Descends, Gathers, Reaches, Paths, Letter
<1>7. Holds' BY <1>1, <1>3 DEF Holds, Begins, Indexed, Bare, Needed, Paths, Letter
<1>8. pc' \in {"visit", "answered"} /\ matched' \in BOOLEAN
  <2>1. CASE Len(c) = Len(str) BY <1>2, <2>1
  <2>2. CASE Len(c) # Len(str) BY <1>1, <1>2, <1>3, <2>2
  <2>3. QED BY <2>1, <2>2
<1>9. TrieTyped' BY <1>1, <1>2, <1>3, <1>8 DEF TrieTyped, Paths
<1>10. Follows' BY <1>8 DEF Follows, Inserting
<1>11. CASE Len(c) = Len(str)
  <2>1. c = str BY <1>3, <1>4, <1>11, SamePrefix
  <2>2. /\ pc' = "answered" /\ matched' = (word_index[str] # 0)
        /\ found' = (word_index[str] + Modulus - 1) % Modulus
    BY <1>2, <1>11, <2>1
  <2>3. ~Hidden(words, str)
    <3>1. SUFFICES ASSUME NEW i \in 1..Len(words), words[i] # <<>>,
                          IsStrictPrefix(words[i], str), OneLetterNode(words, words[i])
                   PROVE  FALSE
      BY DEF Hidden, Positions
    <3>2. words[i] \in Str /\ Contains(words, words[i]) BY <1>3, Setting DEF Contains
    <3>3. /\ words[i] \in Paths /\ word_index[words[i]] # 0 /\ Front(words[i]) \in Paths
      BY <1>3, <3>1, <3>2, Placed, OneLetter
    <3>4. IsPrefix(words[i], c) /\ words[i] # c BY <2>1, <3>1 DEF IsStrictPrefix
    <3>5. IsPrefix(words[i], node) BY <1>1, <3>3, <3>4, NoneBetween
    <3>6. QED BY <1>3, <3>1, <3>3, <3>5
  <2>4. /\ Contains(words, str) <=> word_index[str] # 0
        /\ Contains(words, str) => word_index[str] = word_idx(words, str)
    BY <1>3, <2>1, Placed
  <2>5. Findable(words, str) <=> word_index[str] # 0 BY <1>3, <2>3, <2>4 DEF Findable
  <2>6. found' = IF word_index[str] = 0 THEN Modulus - 1 ELSE word_index[str] - 1
    <3>1. word_index[str] \in Nat /\ Modulus \in Nat /\ word_index[str] < Modulus
      BY <1>3, <1>5, <2>1, Setting
    <3>2. QED BY <2>2, <3>1, OneDown
  <2>7. Modulus - 1 >= Len(words) BY <1>3, Setting
  <2>8. LookupExact' BY <1>1, <2>2, <2>4, <2>5, <2>6, <2>7 DEF LookupExact
  <2>9. Looks' BY <2>2 DEF Looks
  <2>10. QED BY <1>6, <1>7, <1>9, <1>10, <2>8, <2>9 DEF TrieInv
<1>12. CASE Len(c) # Len(str)
  <2>1. pc' = "visit" /\ matched' = FALSE BY <1>1, <1>2, <1>3, <1>12
  <2>2. IsStrictPrefix(c, str)
    <3>1. c # str BY <1>12
    <3>2. QED BY <1>4, <3>1 DEF IsStrictPrefix
  <2>3. ASSUME NEW w \in Paths, w # <<>>, word_index[w] # 0, IsPrefix(w, c)
        PROVE  Front(w) \notin Paths
    <3>1. CASE IsPrefix(w, node) BY <1>3, <2>3, <3>1
    <3>2. CASE ~IsPrefix(w, node)
      <4>1. w = c BY <1>1, <2>3, <3>2, NoneBetween
      <4>2. SUFFICES ASSUME Front(c) \in Paths PROVE FALSE BY <4>1
      <4>3. c # <<>> /\ IsPrefix(node, Front(c)) /\ (Len(c) = Len(node) + 1 <=> Front(c) = node)
        BY <1>3, FrontOf
      <4>4. Front(c) \in Str /\ IsStrictPrefix(Front(c), c) BY <1>3, <4>3, Fronts
      <4>5. IsPrefix(Front(c), c) /\ Front(c) # c BY <4>4 DEF IsStrictPrefix
      <4>6. IsPrefix(Front(c), node) BY <1>1, <4>2, <4>5, NoneBetween
      <4>7. Front(c) = node BY <1>3, <4>3, <4>4, <4>6, PrefixOrder
      <4>8. Len(c) = Len(node) + 1 BY <4>3, <4>7
      <4>9. QED BY <1>4, <1>12, <2>3, <4>1, <4>8
    <3>3. QED BY <3>1, <3>2
  <2>4. Looks' BY <1>1, <1>2, <2>1, <2>2, <2>3 DEF Looks, Paths
  <2>5. LookupExact' BY <2>1 DEF LookupExact
  <2>6. QED BY <1>6, <1>7, <1>9, <1>10, <2>4, <2>5 DEF TrieInv
<1>13. QED BY <1>11, <1>12

LEMMA MissKeeps == TrieInv /\ Miss => TrieInv'
<1> SUFFICES ASSUME TrieInv, Miss PROVE TrieInv'
  OBVIOUS
<1>1. /\ pc = "visit" /\ pc' = "answered" /\ found' = Unset - 1
      /\ \A c \in transitions[node] : ~accepts(c)
      /\ node' = node /\ str' = str /\ matched' = matched
      /\ transitions' = transitions /\ word_index' = word_index
      /\ words' = words /\ sorted_words' = sorted_words /\ inserted' = inserted
  BY DEF Miss, tree
<1>2. /\ TrieTyped /\ Shape /\ Holds /\ inserted = Len(words)
      /\ node \in Paths /\ node \in Str /\ str \in Str /\ str # <<>> /\ Paths \subseteq Str
      /\ IsStrictPrefix(node, str) /\ matched = FALSE
      /\ \A c \in transitions[node] : c \in Paths /\ c \in Str /\ IsStrictPrefix(node, c)
  BY <1>1, Lookup
<1>3. Shape' BY <1>1, <1>2 DEF Shape, Descends, Gathers, Reaches, Paths, Letter
<1>4. Holds' BY <1>1, <1>2 DEF Holds, Begins, Indexed, Bare, Needed, Paths, Letter
<1>5. TrieTyped' BY <1>1, <1>2 DEF TrieTyped, Paths
<1>6. Follows' /\ Looks' BY <1>1 DEF Follows, Inserting, Looks
<1>7. ~Findable(words, str)
  <2>1. SUFFICES ASSUME Contains(words, str), ~Hidden(words, str) PROVE FALSE
    BY DEF Findable
  <2>2. str \in Paths BY <1>2, <2>1, Placed
  <2>3. PICK c \in transitions[node] : IsPrefix(c, str) BY <1>2, <2>2 DEF Shape, Reaches
  <2>4. c \in Paths /\ c \in Str /\ IsStrictPrefix(node, c) BY <1>2
  <2>5. Len(c) = Len(node) + 1 /\ word_index[c] # 0 /\ Len(str) # Len(c)
    BY <1>1, <2>3, Accepting
  <2>6. IsStrictPrefix(c, str)
    <3>1. c # str BY <2>5
    <3>2. QED BY <2>3, <3>1 DEF IsStrictPrefix
  <2>7. c # <<>> /\ Front(c) = node BY <1>2, <2>4, <2>5, FrontOf
  <2>8. Contains(words, c) BY <1>2, <2>4, <2>5, <2>7, Placed
  <2>9. OneLetterNode(words, c) BY <1>2, <2>4, <2>7, <2>8, OneLetter
  <2>10. QED BY <2>1, <2>6, <2>7, <2>8, <2>9 DEF Hidden, Contains, Positions
<1>8. Unset - 1 >= Len(words) BY <1>2, Setting DEF Unset
<1>9. LookupExact' BY <1>1, <1>2, <1>7, <1>8 DEF LookupExact
<1>10. QED BY <1>3, <1>4, <1>5, <1>6, <1>9 DEF TrieInv

-----------------------------------------------------------------------------
(* The theorems.                                                           *)

LEMMA TrieStarts == TrieInit => TrieInv
<1> SUFFICES ASSUME TrieInit PROVE TrieInv
  OBVIOUS
<1>1. /\ words \in WordLists /\ sorted_words \in Sorted(words) /\ inserted = 0 /\ node = <<>>
      /\ transitions = [n \in {<<>>} |-> {}] /\ word_index = [n \in {<<>>} |-> 0]
      /\ pc = "insert" /\ str = <<>> /\ matched = FALSE
  BY DEF TrieInit
<1>2. Paths = {<<>>} /\ transitions[<<>>] = {} /\ word_index[<<>>] = 0 BY <1>1 DEF Paths
<1>3. words \in Seq(Str) BY <1>1, WordsAreStrings
<1>4. Len(words) \in Nat BY <1>3
<1>5. TrieTyped
  <2>1. <<>> \in Str BY DEF Str
  <2>2. 0 \in 0..Len(words) BY <1>4
  <2>3. transitions \in [Paths -> SUBSET Paths] /\ word_index \in [Paths -> 0..Len(words)]
    BY <1>1, <1>2, <2>2
  <2>4. QED BY <1>1, <1>2, <2>1, <2>2, <2>3 DEF TrieTyped
<1>6. Shape
  <2>1. ~IsStrictPrefix(<<>>, <<>>) BY DEF IsStrictPrefix
  <2>2. QED BY <1>2, <2>1 DEF Shape, Descends, Gathers, Reaches
<1>7. Holds
  <2>1. \A j \in 1..inserted : FALSE BY <1>1
  <2>2. QED BY <1>2, <2>1 DEF Holds, Begins, Indexed, Bare, Needed
<1>8. Follows
  <2>1. Inserting => word \in Str BY <1>5, Current
  <2>2. QED BY <1>1, <2>1, PrefixOrder DEF Follows
<1>9. QED BY <1>1, <1>5, <1>6, <1>7, <1>8 DEF TrieInv, Looks, LookupExact

LEMMA TrieSteps == TrieInv /\ [TrieNext]_trieVars => TrieInv'
<1>1. TrieInv /\ UNCHANGED trieVars => TrieInv'
  <2> SUFFICES ASSUME TrieInv, UNCHANGED trieVars PROVE TrieInv'
    OBVIOUS
  <2>1. /\ words' = words /\ sorted_words' = sorted_words /\ transitions' = transitions
        /\ word_index' = word_index /\ inserted' = inserted /\ node' = node /\ pc' = pc
        /\ str' = str /\ matched' = matched /\ found' = found
    BY DEF trieVars, tree
  <2>2. TrieTyped' BY <2>1 DEF TrieInv, TrieTyped, Paths
  <2>3. Shape' BY <2>1 DEF TrieInv, Shape, Descends, Gathers, Reaches, Paths, Letter
  <2>4. Holds' BY <2>1 DEF TrieInv, Holds, Begins, Indexed, Bare, Needed, Paths, Letter
  <2>5. Follows' /\ Looks' /\ LookupExact'
    BY <2>1 DEF TrieInv, Follows, Inserting, word, Looks, Paths, LookupExact
  <2>6. QED BY <2>2, <2>3, <2>4, <2>5 DEF TrieInv
<1>2. QED
  BY <1>1, FinishKeeps, GrowKeeps, DescendKeeps, FindKeeps, VisitKeeps, MissKeeps DEF TrieNext

LEMMA TrieInvariant == TrieSpec => []TrieInv
<1>1. QED BY TrieStarts, TrieSteps, PTL DEF TrieSpec

\* Whatever words a trie is made of, no comparison of a word with a prefix in
\* the tree reads behind the word: sorting puts no word behind one it begins.
THEOREM NeverReadsBeyond == TrieSpec => []NeverOverreads
<1>1. TrieInv => NeverOverreads
  <2> SUFFICES ASSUME TrieInv, Reading, NEW child \in Branches(node, word)
               PROVE  ~IsStrictPrefix(word, child)
    BY DEF NeverOverreads
  <2>1. child \in Paths BY DEF TrieInv, TrieTyped, Branches
  <2>2. QED BY <2>1, NothingBeyond DEF TrieInv, Holds, Reading
<1>2. QED BY <1>1, TrieInvariant, PTL

\* Whatever words a trie is made of, every string that is looked up is found at
\* the first position it was given at, or not at all; and the words that are not
\* found are those behind a word whose node has one letter.
THEOREM LooksUpExactly == TrieSpec => []LookupExact
<1>1. TrieInv => LookupExact BY DEF TrieInv
<1>2. QED BY <1>1, TrieInvariant, PTL
=============================================================================
