-------------------------- MODULE ArgParserProofs --------------------------
(***************************************************************************)
(* Proofs about ArgParser for every set of classes and command lines: the  *)
(* parser stays within the line and reads each word once, commands and     *)
(* options run in their order, nothing runs or is constructed with a       *)
(* rejected or missing argument, the lines accepted are those of the       *)
(* grammar, and where the behaviour is undefined, or an exception ends the *)
(* program, there is a reason for it on the command line or in a class.    *)
(***************************************************************************)
EXTENDS ArgParser, SequenceTheorems, FiniteSetTheorems, WellFoundedInduction, TLAPS

-----------------------------------------------------------------------------
(* Types.                                                                  *)

AllWords   == UNION {{line[i] : i \in 1..Len(line)} : line \in CommandLines}
Value      == AllWords \cup {NoHandle}
AllOptions == UNION {{s.commands[i] : i \in 1..Len(s.commands)}
                     \cup {s.options[i] : i \in 1..Len(s.options)} : s \in Specs}
Call       == [option : AllOptions, at : Nat, args : Seq(Value)]

StateType ==
  /\ spec \in Specs
  /\ words \in CommandLines
  /\ cursor \in 2..Len(words) + 1
  /\ phase \in {"arguments", "options", "run"} \cup Terminal
  /\ parsed_args \in Seq(Value)
  /\ parsed_opts \in Seq(Call)
  /\ next_opt \in 1..Len(parsed_opts) + 1
  /\ ran \in Seq(Call)
  /\ object \in {<<>>, <<parsed_args>>}

(* The first n of the calls stand in the order of the line, before `bound`. *)
InLine(calls, n, bound) ==
  /\ \A k \in 1..n : calls[k].at \in 2..bound - 1
  /\ \A j, k \in 1..n : j < k => calls[j].at < calls[k].at

KeptInv ==
  /\ InLine(parsed_opts, Len(parsed_opts), cursor)
  /\ \A k \in 1..Len(parsed_opts) :
       /\ parsed_opts[k].option.kind = "method"
       /\ ~CallMisses(parsed_opts[k])

(* No required field is left out. *)
Filled(args) ==
  validate(fields) => \A i \in Len(args) + 1..Len(fields) : ~fields[i].required

CompleteInv ==
  /\ \A k \in 1..Len(ran) : Complete(ran[k].option.params, ran[k].args)
  /\ object # <<>> => Complete(arguments, object[1]) /\ Filled(object[1])

(* What has run: commands, then the first n of the options kept. *)
History(n) ==
  LET commands_run == Len(ran) - n IN
  /\ commands_run >= 0
  /\ \A k \in 1..commands_run : ran[k].option.kind = "static"
  /\ InLine(ran, commands_run, cursor)
  /\ \A k \in 1..n : ran[commands_run + k] = parsed_opts[k]

HistoryInv ==
  /\ phase \in {"arguments", "options"} => next_opt = 1 /\ object = <<>>
  /\ phase = "run" => object # <<>> /\ cursor > Len(words) /\ History(next_opt - 1)
  /\ next_opt > 1 => object # <<>> /\ cursor > Len(words)
  /\ \E n \in 0..next_opt - 1 : History(n)

IInv == StateType /\ KeptInv /\ CompleteInv /\ HistoryInv

-----------------------------------------------------------------------------
(* Reading words.                                                          *)

LEMMA LeastOf ==
  ASSUME NEW S \in SUBSET Nat, S # {}
  PROVE  \E m \in S : \A n \in S : m <= n
<1>1. PICK m \in S : \A n \in S : <<n, m>> \notin OpToRel(<, Nat)
  BY WFMin, NatLessThanWellFounded, Zenon
<1>2. \A n \in S : ~(n < m)
  BY <1>1 DEF OpToRel
<1>3. QED BY <1>2

LEMMA WordList ==
  ASSUME StateType
  PROVE  /\ Len(words) \in Nat /\ Len(words) > 0
         /\ \A i \in 1..Len(words) : words[i] \in AllWords
BY CommandLinesAssumption DEF StateType, AllWords, IsList

(* The arguments a call is given are words that stand behind its name. *)
LEMMA Given ==
  ASSUME StateType, NEW params, IsList(params), NEW from \in 2..Len(words) + 1
  PROVE  /\ given(params, from) \in Seq(Value)
         /\ Len(given(params, from)) <= Len(params)
         /\ from + Len(given(params, from)) <= Len(words) + 1
         /\ \A i \in 1..Len(given(params, from)) : takes(words[from + i - 1])
         /\ Stops(params, from, from + Len(given(params, from)))
<1> DEFINE P(n) == from + n > Len(words) \/ ~takes(words[from + n])
           S    == {n \in 0..Len(params) : n = Len(params) \/ P(n)}
           OK(n) == /\ \A i \in 1..n : from + i - 1 <= Len(words) /\ takes(words[from + i - 1])
                    /\ \/ n = Len(params)
                       \/ from + n > Len(words)
                       \/ ~takes(words[from + n])
           count == given_count(params, from)
<1>1. Len(params) \in Nat /\ Len(words) \in Nat
  BY WordList DEF IsList
<1>2. PICK m \in S : \A n \in S : m <= n
  <2>1. Len(params) \in S BY <1>1
  <2>2. S \in SUBSET Nat BY <1>1
  <2>3. QED BY <2>1, <2>2, LeastOf
<1>3. OK(m)
  <2>1. ASSUME NEW i \in 1..m PROVE from + i - 1 <= Len(words) /\ takes(words[from + i - 1])
    <3>1. i - 1 \in 0..Len(params) /\ i - 1 \notin S BY <1>1, <1>2
    <3>2. ~P(i - 1) BY <3>1
    <3>3. from + (i - 1) = from + i - 1 BY <2>1
    <3>4. QED BY <3>2, <3>3, <1>1
  <2>2. QED BY <2>1, <1>2
<1>4. count \in 0..Len(params) /\ OK(count)
  <2>1. \E n \in 0..Len(params) : OK(n) BY <1>3
  <2>2. count = CHOOSE n \in 0..Len(params) : OK(n) BY DEF given_count
  <2> HIDE DEF OK, count
  <2>3. QED BY <2>1, <2>2
<1>5. from + count <= Len(words) + 1
  <2>1. CASE count = 0 BY <2>1, <1>1
  <2>2. CASE count > 0
    <3>1. count \in 1..count BY <1>4, <1>1, <2>2
    <3>2. from + count - 1 <= Len(words) BY <3>1, <1>4
    <3>3. QED BY <3>2, <1>1, <1>4
  <2>3. QED BY <2>1, <2>2, <1>4, <1>1
<1>6. \A i \in 1..count : stored(words[from + i - 1]) \in Value
  <2>1. SUFFICES ASSUME NEW i \in 1..count PROVE stored(words[from + i - 1]) \in Value
    OBVIOUS
  <2>2. from + i - 1 \in 1..Len(words) BY <1>1, <1>4, <1>5
  <2>3. QED BY <2>2, WordList DEF stored, Value
<1>7. given(params, from) = [i \in 1..count |-> stored(words[from + i - 1])]
  BY DEF given
<1>8. count \in Nat /\ count <= Len(params) BY <1>4, <1>1
<1>9. /\ \A i \in 1..count : takes(words[from + i - 1])
      /\ Stops(params, from, from + count)
  <2>1. from + count - from = count BY <1>8
  <2>2. OK(count) BY <1>4
  <2> HIDE DEF count
  <2>3. QED BY <2>1, <2>2 DEF Stops, takes
<1> HIDE DEF count
<1>10. given(params, from) \in Seq(Value) /\ Len(given(params, from)) = count
  BY <1>6, <1>7, <1>8
<1>11. QED BY <1>5, <1>8, <1>9, <1>10

LEMMA Named ==
  ASSUME NEW opts, IsList(opts), NEW w, is_named(opts, w)
  PROVE  /\ named(opts, w) \in 1..Len(opts) /\ opts[named(opts, w)].name = w.rest
         /\ \A j \in 1..named(opts, w) - 1 : opts[j].name # w.rest
<1> DEFINE S == {i \in 1..Len(opts) : opts[i].name = w.rest}
<1>1. PICK m \in S : \A n \in S : m <= n
  <2>1. S \in SUBSET Nat BY DEF IsList
  <2>2. S # {} BY DEF is_named
  <2> HIDE DEF S
  <2>3. QED BY <2>1, <2>2, LeastOf
<1>2. m \in 1..Len(opts) /\ opts[m].name = w.rest /\ \A j \in 1..m - 1 : opts[j].name # w.rest
  BY <1>1 DEF IsList
<1>3. QED BY <1>2 DEF named

(* The call at the cursor, whichever list its name is looked up in. *)
LEMMA CallType ==
  ASSUME StateType, AtName, NEW opts, IsList(opts), is_named(opts, Name),
         \A i \in 1..Len(opts) : opts[i] \in AllOptions /\ IsList(opts[i].params)
  PROVE  /\ call(opts) \in Call
         /\ call(opts).at = cursor
         /\ Len(call(opts).args) \in Nat
         /\ cursor + 1 + Len(call(opts).args) <= Len(words) + 1
         /\ \E i \in 1..Len(opts) : call(opts).option = opts[i]
<1> DEFINE i == named(opts, Name)
           args == given(opts[i].params, cursor + 1)
<1>1. i \in 1..Len(opts) BY Named
<1>2. cursor \in Nat /\ cursor + 1 \in 2..Len(words) + 1 /\ Len(words) \in Nat
  BY WordList DEF StateType, AtName
<1>3. args \in Seq(Value) /\ cursor + 1 + Len(args) <= Len(words) + 1
  BY <1>1, <1>2, Given
<1>4. call(opts) = [option |-> opts[i], at |-> cursor, args |-> args]
  BY DEF call
<1> HIDE DEF i, args
<1>5. Len(args) \in Nat BY <1>3, LenProperties
<1>6. QED BY <1>1, <1>2, <1>3, <1>4, <1>5 DEF Call

LEMMA CommandList ==
  ASSUME StateType
  PROVE  /\ IsList(commands)
         /\ \A i \in 1..Len(commands) : /\ commands[i] \in AllOptions
                                        /\ IsList(commands[i].params)
                                        /\ commands[i].kind = "static"
BY SpecsAssumption DEF StateType, commands, AllOptions

LEMMA OptionList ==
  ASSUME StateType
  PROVE  /\ IsList(options)
         /\ \A i \in 1..Len(options) : /\ options[i] \in AllOptions
                                       /\ IsList(options[i].params)
                                       /\ options[i].kind = "method"
BY SpecsAssumption DEF StateType, options, AllOptions

-----------------------------------------------------------------------------
(* Evaluating a call.                                                      *)

LEMMA Evaluated ==
  ASSUME NEW params, NEW args
  PROVE  /\ evaluate(params, args) \in {"stored", "unreachable", "rejected"}
         /\ evaluate(params, args) = "stored" =>
              \A i \in 1..Len(args) : args[i] # NoHandle /\ args[i] \notin params[i].rejects
         /\ evaluate(params, args) = "rejected" =>
              \E i \in 1..Len(args) : args[i] = NoHandle \/ args[i] \in params[i].rejects
<1> DEFINE bad == {i \in 1..Len(args) : args[i] = NoHandle \/ args[i] \in params[i].rejects}
<1>1. CASE bad = {}
  BY <1>1 DEF evaluate
<1>2. CASE bad # {}
  BY <1>2 DEF evaluate
<1>3. QED BY <1>1, <1>2

LEMMA Handled ==
  ASSUME NEW params, NEW args
  PROVE  /\ handle(params, args) \in {"called", "throw", "unreachable", "rejected"}
         /\ handle(params, args) \in {"called", "throw"} =>
              evaluate(params, args) = "stored" /\ handle(params, args) = visit(params, Len(args))
         /\ handle(params, args) = "rejected" => evaluate(params, args) = "rejected"
<1>1. visit(params, Len(args)) \in {"called", "throw", "unreachable"}
  BY DEF visit
<1>2. QED BY <1>1, Evaluated DEF handle

LEMMA CompleteCall ==
  ASSUME NEW params, NEW args, ~misses(params, Len(args)), evaluate(params, args) = "stored"
  PROVE  Complete(params, args)
BY Evaluated DEF Complete, misses

(* What a call does to the phase and the history. *)
LEMMA RunIs ==
  ASSUME NEW c, Run(c)
  PROVE  LET outcome == handle(c.option.params, c.args) IN
         \/ /\ outcome = "called" /\ ran' = Append(ran, c)
            /\ phase' = IF c.option.exits THEN "exited" ELSE phase
         \/ outcome = "rejected" /\ ran' = ran /\ phase' = "exited"
         \/ outcome = "unreachable" /\ ran' = ran /\ phase' = "undefined"
         \/ outcome = "throw" /\ ran' = ran /\ phase' = "thrown"
<1> DEFINE outcome == handle(c.option.params, c.args)
<1>1. outcome \in {"called", "throw", "unreachable", "rejected"}
  BY Handled
<1>2. /\ IF outcome = "called" THEN ran' = Append(ran, c) ELSE ran' = ran
      /\ phase' = IF outcome # "called" THEN ending(outcome)
                  ELSE IF c.option.exits THEN "exited" ELSE phase
  BY DEF Run
<1> HIDE DEF outcome
<1>3. /\ ending("rejected") = "exited" /\ ending("unreachable") = "undefined"
      /\ ending("throw") = "thrown"
  BY DEF ending
<1>4. \/ /\ outcome = "called" /\ ran' = Append(ran, c)
         /\ phase' = IF c.option.exits THEN "exited" ELSE phase
      \/ outcome = "rejected" /\ ran' = ran /\ phase' = "exited"
      \/ outcome = "unreachable" /\ ran' = ran /\ phase' = "undefined"
      \/ outcome = "throw" /\ ran' = ran /\ phase' = "thrown"
  BY <1>1, <1>2, <1>3
<1>5. QED BY <1>4 DEF outcome

(* A call that is run is complete, and it is the only one that is added. *)
LEMMA RunsOne ==
  ASSUME NEW c, ~CallMisses(c), Run(c)
  PROVE  /\ \/ ran' = Append(ran, c) /\ Complete(c.option.params, c.args)
            \/ ran' = ran
         /\ phase' \in {"exited", "thrown", "undefined", phase}
         /\ phase' = phase => \/ ran' = Append(ran, c)
                             \/ phase \in Terminal
<1> DEFINE outcome == handle(c.option.params, c.args)
<1>1. outcome = "called" => Complete(c.option.params, c.args)
  BY Handled, CompleteCall DEF CallMisses
<1>2. \/ /\ outcome = "called" /\ ran' = Append(ran, c)
         /\ phase' = IF c.option.exits THEN "exited" ELSE phase
      \/ outcome = "rejected" /\ ran' = ran /\ phase' = "exited"
      \/ outcome = "unreachable" /\ ran' = ran /\ phase' = "undefined"
      \/ outcome = "throw" /\ ran' = ran /\ phase' = "thrown"
  BY RunIs
<1> HIDE DEF outcome
<1>3. QED BY <1>1, <1>2 DEF Terminal

(* How the object comes about, or why it does not. *)
LEMMA Made ==
  /\ made = "called" => /\ evaluate(arguments, parsed_args) = "stored"
                        /\ ~misses(arguments, Len(parsed_args))
                        /\ visit(fields, Len(parsed_args)) = "called"
  /\ made = "unreachable" =>
       \/ evaluate(arguments, parsed_args) = "unreachable"
       \/ visit(fields, Len(parsed_args)) = "unreachable"
  /\ made = "throw" => /\ ~misses(arguments, Len(parsed_args))
                       /\ construct(fields, bases, Len(parsed_args)) = "throw"
  /\ made \in {"called", "unreachable", "throw"}
       \/ misses(arguments, Len(parsed_args))
       \/ evaluate(arguments, parsed_args) = "rejected"
<1> DEFINE read  == evaluate(arguments, parsed_args)
           built == construct(fields, bases, Len(parsed_args))
           first == visit(fields, Len(parsed_args))
<1>1. read \in {"stored", "unreachable", "rejected"} BY Evaluated
<1>2. built \in {"throw", first} /\ first \in {"called", "throw", "unreachable"}
  BY DEF construct, visit
<1>3. made = IF read # "stored" THEN read
             ELSE IF misses(arguments, Len(parsed_args)) THEN "missing" ELSE built
  BY DEF made
<1> HIDE DEF read, built, first
<1>4. /\ made = "called" => read = "stored" /\ ~misses(arguments, Len(parsed_args))
                            /\ first = "called"
      /\ made = "unreachable" => read = "unreachable" \/ first = "unreachable"
      /\ made = "throw" => ~misses(arguments, Len(parsed_args)) /\ built = "throw"
      /\ made \in {"called", "unreachable", "throw"}
           \/ misses(arguments, Len(parsed_args)) \/ read = "rejected"
  BY <1>1, <1>2, <1>3
<1>5. QED BY <1>4 DEF read, built, first

LEMMA Constructs ==
  ASSUME Construct
  PROVE  \/ made = "unreachable" /\ Ends("undefined")
         \/ made = "throw" /\ Ends("thrown")
         \/ made \notin {"called", "unreachable", "throw"} /\ Ends("exited")
         \/ /\ made = "called" /\ object' = <<parsed_args>> /\ phase' = "run"
            /\ UNCHANGED <<spec, words, cursor, parsed_args, parsed_opts, next_opt, ran>>
<1>1. CASE made = "called" BY <1>1 DEF Construct, input
<1>2. CASE made # "called"
  <2>1. Ends(ending(made)) BY <1>2 DEF Construct
  <2>2. \/ made = "unreachable" /\ ending(made) = "undefined"
        \/ made = "throw" /\ ending(made) = "thrown"
        \/ made \notin {"unreachable", "throw"} /\ ending(made) = "exited"
    BY DEF ending
  <2>3. QED BY <1>2, <2>1, <2>2
<1>3. QED BY <1>1, <1>2

-----------------------------------------------------------------------------
(* Counting required parameters.                                           *)

LEMMA UpTo ==
  ASSUME NEW k \in Nat
  PROVE  IsFiniteSet(1..k) /\ Cardinality(1..k) = k
<1>1. /\ IsFiniteSet(1..k)
      /\ Cardinality(1..k) = IF 1 > k THEN 0 ELSE k - 1 + 1
  BY FS_Interval
<1>2. QED BY <1>1

LEMMA RequiredCount ==
  ASSUME NEW params, Len(params) \in Nat
  PROVE  /\ required_args_count(params) \in Nat
         /\ \A n \in Nat : ~misses(params, n) => required_args_count(params) <= n
         /\ \A i \in 1..Len(params) :
              (\A j \in 1..i : params[j].required) => i <= required_args_count(params)
<1> DEFINE required == {i \in 1..Len(params) : params[i].required}
<1>1. required \in SUBSET (1..Len(params)) OBVIOUS
<1>2. required_args_count(params) = Cardinality(required) BY DEF required_args_count
<1>3. \A n \in Nat : ~misses(params, n) => required \in SUBSET (1..n)
  <2>1. SUFFICES ASSUME NEW n \in Nat, ~misses(params, n), NEW i \in required
                 PROVE  i \in 1..n
    OBVIOUS
  <2>2. i \in 1..Len(params) /\ params[i].required OBVIOUS
  <2>3. i \notin n + 1..Len(params) BY <2>1, <2>2 DEF misses
  <2>4. QED BY <2>2, <2>3
<1>4. \A i \in 1..Len(params) :
        (\A j \in 1..i : params[j].required) => 1..i \in SUBSET required
  OBVIOUS
<1> HIDE DEF required
<1>5. \A k \in Nat : required \in SUBSET (1..k) =>
        IsFiniteSet(required) /\ Cardinality(required) <= k
  <2>1. SUFFICES ASSUME NEW k \in Nat, required \in SUBSET (1..k)
                 PROVE  IsFiniteSet(required) /\ Cardinality(required) <= k
    OBVIOUS
  <2>2. IsFiniteSet(1..k) /\ Cardinality(1..k) = k BY UpTo
  <2>3. IsFiniteSet(required) /\ Cardinality(required) <= Cardinality(1..k)
    BY <2>1, <2>2, FS_Subset
  <2>4. QED BY <2>2, <2>3
<1>6. IsFiniteSet(required) /\ Cardinality(required) \in Nat
  BY <1>1, <1>5, FS_CardinalityType
<1>7. ASSUME NEW i \in 1..Len(params), \A j \in 1..i : params[j].required
      PROVE  i <= Cardinality(required)
  <2>1. i \in Nat /\ 1..i \in SUBSET required BY <1>4, <1>7
  <2>2. Cardinality(1..i) = i BY <2>1, UpTo
  <2>3. Cardinality(1..i) <= Cardinality(required) BY <1>6, <2>1, FS_Subset
  <2>4. QED BY <2>2, <2>3
<1>8. QED BY <1>2, <1>3, <1>5, <1>6, <1>7

(* A call with n parameters where no required one is missing throws nothing, and *)
(* finds its case if the switch has enough of them.                              *)
LEMMA Visited ==
  ASSUME NEW params, Len(params) \in Nat, NEW n \in Nat
  PROVE  /\ visit(params, n) = "throw" <=> n < required_args_count(params)
         /\ visit(params, n) = "throw" => misses(params, n)
         /\ visit(params, n) = "unreachable" /\ n <= Len(params) => ~WellBehaved(params)
<1> DEFINE r == required_args_count(params)
           b == branches(params)
<1>1. r \in Nat /\ (~misses(params, n) => r <= n) BY RequiredCount
<1>2. b = Len(params) - r /\ b \in Int BY <1>1 DEF branches
<1>3. visit(params, n) = CASE n < r -> "throw"
                           [] n >= r /\ b = 0 -> "called"
                           [] OTHER -> IF n - r < cases(b) THEN "called" ELSE "unreachable"
  BY DEF visit
<1>4. cases(b) \in Nat
  <2>1. /\ Stamp \in Nat /\ Stamp * Stamp \in Nat
        /\ Stamp * Stamp * Stamp \in Nat
        /\ Stamp * Stamp * Stamp * Stamp \in Nat
    BY StampAssumption
  <2>2. \A k \in {1, 2, 3, 4} : sizes[k] \in Nat BY <2>1 DEF sizes
  <2>3. strategy_idx(b) \in {1, 2, 3, 4} BY DEF strategy_idx
  <2>4. QED BY <2>2, <2>3 DEF cases
<1>5. WellBehaved(params) <=> b < cases(b) BY DEF WellBehaved
<1> HIDE DEF r, b
<1>6. visit(params, n) = "throw" <=> n < r BY <1>1, <1>3
<1>7. visit(params, n) = "throw" => misses(params, n) BY <1>1, <1>6
<1>8. ASSUME visit(params, n) = "unreachable", n <= Len(params), b < cases(b) PROVE FALSE
  BY <1>1, <1>2, <1>3, <1>4, <1>8
<1>9. QED BY <1>5, <1>6, <1>7, <1>8 DEF r

LEMMA FieldList ==
  ASSUME StateType
  PROVE  /\ Len(fields) \in Nat /\ Len(arguments) \in Nat /\ Len(arguments) <= Len(fields)
         /\ required_args_count(arguments)
              = Cardinality({i \in 1..Len(fields) : fields[i].required /\ ~fields[i].descend})
BY SpecsAssumption, FieldsAssumption DEF StateType, IsList, arguments, fields

(* An object is made only if no required field is left out. *)
LEMMA FieldsFilled ==
  ASSUME StateType, NEW args \in Seq(Value), visit(fields, Len(args)) = "called"
  PROVE  Filled(args)
<1> DEFINE n == Len(args)
<1>1. n \in Nat /\ Len(fields) \in Nat BY FieldList, LenProperties
<1>2. required_args_count(fields) \in Nat /\ required_args_count(fields) <= n
  BY <1>1, RequiredCount, Visited
<1> HIDE DEF n
<1>3. ASSUME validate(fields), NEW i \in n + 1..Len(fields), fields[i].required PROVE FALSE
  <2>1. i \in 1..Len(fields) /\ i > n BY <1>1
  <2>2. \A j \in 1..i : fields[j].required
    <3>1. SUFFICES ASSUME NEW j \in 1..i PROVE fields[j].required OBVIOUS
    <3>2. j \in 1..Len(fields) /\ (j < i \/ j = i) BY <1>1, <2>1
    <3>3. QED BY <1>3, <2>1, <3>2 DEF validate
  <2>3. i <= required_args_count(fields) BY <1>1, <2>1, <2>2, RequiredCount
  <2>4. QED BY <1>1, <1>2, <2>1, <2>3
<1>4. QED BY <1>3 DEF Filled, n

-----------------------------------------------------------------------------
(* The invariant is inductive: one lemma per action that changes more than *)
(* the phase.                                                              *)

LEMMA InLineLater ==
  ASSUME NEW calls, NEW n \in Nat, NEW at \in Nat, NEW bound \in Nat, bound >= at,
         InLine(calls, n, at)
  PROVE  InLine(calls, n, bound)
<1>1. \A k \in 1..n : calls[k].at \in 2..at - 1 BY DEF InLine
<1>2. \A k \in 1..n : calls[k].at \in 2..bound - 1 BY <1>1
<1>3. QED BY <1>2 DEF InLine

LEMMA Forward ==
  ASSUME NEW from \in Nat, NEW read \in Nat, NEW to, to = from + 1 + read
  PROVE  to \in Nat /\ to > from
OBVIOUS

LEMMA InLineMore ==
  ASSUME NEW calls \in Seq(Call), NEW c \in Call, c.at >= 2,
         NEW bound \in Nat, bound > c.at, InLine(calls, Len(calls), c.at)
  PROVE  InLine(Append(calls, c), Len(calls) + 1, bound)
<1> DEFINE n    == Len(calls)
           at   == c.at
           more == Append(calls, c)
<1>1. n \in Nat /\ at \in Nat BY LenProperties DEF Call
<1>2. \A k \in 1..n : calls[k].at \in 2..at - 1 BY DEF InLine
<1>3. \A j, k \in 1..n : j < k => calls[j].at < calls[k].at BY DEF InLine
<1>4. more[n + 1] = c /\ \A k \in 1..n : more[k] = calls[k]
  BY AppendProperties
<1> HIDE DEF more, n
<1>5. \A k \in 1..n + 1 : k \in 1..n \/ k = n + 1 BY <1>1
<1>6. ASSUME NEW k \in 1..n + 1 PROVE more[k].at \in 2..bound - 1
  <2>1. CASE k \in 1..n
    <3>1. more[k].at = calls[k].at BY <1>4, <2>1
    <3>2. calls[k].at \in 2..at - 1 BY <1>2, <2>1
    <3>3. QED BY <1>1, <3>1, <3>2
  <2>2. CASE k = n + 1
    <3>1. more[k].at = at BY <1>4, <2>2
    <3>2. QED BY <1>1, <3>1
  <2>3. QED BY <1>5, <2>1, <2>2
<1>7. ASSUME NEW j \in 1..n + 1, NEW k \in 1..n + 1, j < k PROVE more[j].at < more[k].at
  <2>1. j \in 1..n BY <1>1, <1>7
  <2>2. CASE k \in 1..n BY <1>3, <1>4, <1>7, <2>1, <2>2
  <2>3. CASE k = n + 1
    <3>1. calls[j].at \in 2..at - 1 BY <1>2, <2>1
    <3>2. more[j].at = calls[j].at /\ more[k].at = at BY <1>4, <2>1, <2>3
    <3>3. QED BY <1>1, <3>1, <3>2
  <2>4. QED BY <1>5, <2>2, <2>3
<1>8. InLine(more, n + 1, bound) BY <1>6, <1>7 DEF InLine
<1>9. QED BY <1>8 DEF more, n

LEMMA Initially == Init => IInv
<1> SUFFICES ASSUME Init PROVE IInv OBVIOUS
<1>1. Len(words) \in Nat /\ Len(words) > 0
  BY CommandLinesAssumption DEF Init, IsList
<1>2. ran = <<>> /\ parsed_opts = <<>> /\ parsed_args = <<>> /\ Len(ran) = 0 /\ Len(parsed_opts) = 0
  BY EmptySeq DEF Init
<1>3. ran \in Seq(Call) /\ parsed_opts \in Seq(Call) /\ parsed_args \in Seq(Value)
  BY <1>2, EmptySeq
<1>4. StateType
  BY <1>1, <1>2, <1>3 DEF Init, StateType
<1>5. KeptInv /\ CompleteInv
  BY <1>2 DEF Init, KeptInv, InLine, CompleteInv
<1>6. History(0)
  BY <1>2 DEF History, InLine
<1>7. HistoryInv
  BY <1>6 DEF Init, HistoryInv
<1>8. QED BY <1>4, <1>5, <1>7 DEF IInv

(* What stays true when nothing but the cursor, the arguments and the phase *)
(* change, and when nothing is added to what has run.                       *)
LEMMA LaterCursor ==
  ASSUME StateType, StateType', cursor' >= cursor, UNCHANGED <<ran, parsed_opts>>
  PROVE  /\ KeptInv => KeptInv'
         /\ \A n \in 0..Len(parsed_opts) : History(n) => History(n)'
<1>1. cursor \in Nat /\ cursor' \in Nat
  <2>1. Len(words) \in Nat BY WordList
  <2>2. \A line \in CommandLines : Len(line) \in Nat BY CommandLinesAssumption DEF IsList
  <2>3. QED BY <2>1, <2>2 DEF StateType
<1>2. Len(ran) \in Nat /\ Len(parsed_opts) \in Nat
  BY LenProperties DEF StateType
<1>3. ASSUME KeptInv PROVE KeptInv'
  <2>1. InLine(parsed_opts, Len(parsed_opts), cursor')
    BY <1>1, <1>2, <1>3, InLineLater DEF KeptInv
  <2>2. QED BY <1>3, <2>1 DEF KeptInv, CallMisses, misses
<1>4. ASSUME NEW n \in 0..Len(parsed_opts), History(n) PROVE History(n)'
  <2>1. Len(ran) - n \in Nat BY <1>2, <1>4 DEF History
  <2>2. InLine(ran, Len(ran) - n, cursor')
    BY <1>1, <1>4, <2>1, InLineLater DEF History
  <2>3. QED BY <1>4, <2>2 DEF History
<1>5. QED BY <1>3, <1>4

LEMMA Ending ==
  ASSUME IInv, NEW how \in Terminal, Ends(how)
  PROVE  IInv'
<1>1. /\ phase' = how
      /\ UNCHANGED <<spec, words, cursor, parsed_args, parsed_opts, next_opt, ran, object>>
  BY DEF Ends, input
<1>2. StateType' BY <1>1 DEF IInv, StateType
<1>3. KeptInv' BY <1>1 DEF IInv, KeptInv, InLine, CallMisses, misses
<1>4. CompleteInv' BY <1>1 DEF IInv, CompleteInv, Complete, Filled, arguments, fields
<1>5. \A n : History(n) => History(n)' BY <1>1 DEF History
<1>6. how \notin {"arguments", "options", "run"} BY DEF Terminal
<1>7. HistoryInv' BY <1>1, <1>5, <1>6 DEF IInv, HistoryInv
<1>8. QED BY <1>2, <1>3, <1>4, <1>7 DEF IInv

LEMMA ParseArgumentsStep ==
  ASSUME IInv, ParseArguments
  PROVE  IInv'
<1>1. /\ phase = "arguments" /\ phase' = "options"
      /\ parsed_args' = given(arguments, cursor)
      /\ cursor' = cursor + Len(parsed_args')
      /\ UNCHANGED <<spec, words, parsed_opts, next_opt, ran, object>>
  BY DEF ParseArguments, input
<1>2. StateType /\ IsList(arguments) /\ cursor \in 2..Len(words) + 1
  BY SpecsAssumption DEF IInv, StateType, arguments
<1>3. parsed_args' \in Seq(Value) /\ cursor + Len(parsed_args') <= Len(words) + 1
  BY <1>1, <1>2, Given
<1>4. Len(parsed_args') \in Nat /\ Len(words) \in Nat
  BY <1>2, <1>3, LenProperties, WordList
<1>5. object = <<>> /\ next_opt = 1 BY <1>1 DEF IInv, HistoryInv
<1>6. StateType' BY <1>1, <1>2, <1>3, <1>4, <1>5 DEF StateType
<1>7. cursor' >= cursor BY <1>1, <1>2, <1>4
<1>8. KeptInv' /\ (History(0) => History(0)')
  <2>1. Len(parsed_opts) \in Nat BY <1>2, LenProperties DEF StateType
  <2>2. QED BY <1>1, <1>2, <1>6, <1>7, <2>1, LaterCursor DEF IInv
<1>9. CompleteInv' BY <1>1, <1>5 DEF IInv, CompleteInv, Complete
<1>10. History(0) BY <1>5 DEF IInv, HistoryInv
<1>11. HistoryInv' BY <1>1, <1>5, <1>8, <1>10 DEF HistoryInv
<1>12. QED BY <1>6, <1>8, <1>9, <1>11 DEF IInv

LEMMA RunCommandStep ==
  ASSUME IInv, RunCommand
  PROVE  IInv'
<1> DEFINE c == call(commands)
<1>1. AtName /\ is_named(commands, Name) BY DEF RunCommand
<1>2. StateType BY DEF IInv
<1>3. /\ c \in Call /\ c.at = cursor
      /\ Len(c.args) \in Nat /\ cursor + 1 + Len(c.args) <= Len(words) + 1
      /\ c.option.kind = "static"
  BY <1>1, <1>2, CommandList, CallType
<1>4. CASE CallMisses(c)
  BY <1>4, Ending DEF RunCommand, Terminal
<1>5. CASE ~CallMisses(c)
  <2> HIDE DEF c
  <2>1. /\ Run(c) /\ cursor' = cursor + 1 + Len(c.args)
        /\ UNCHANGED <<spec, words, parsed_args, parsed_opts, next_opt, object>>
    BY <1>5 DEF RunCommand, input, c
  <2>2. phase = "options" /\ object = <<>> /\ next_opt = 1 /\ History(0)
    BY <1>1 DEF AtName, IInv, HistoryInv
  <2>3. /\ \/ ran' = Append(ran, c) /\ Complete(c.option.params, c.args)
           \/ ran' = ran
        /\ phase' \in {"exited", "thrown", "undefined", "options"}
    BY <1>5, <2>1, <2>2, RunsOne
  <2>4. /\ cursor \in Nat /\ cursor >= 2 /\ Len(words) \in Nat
        /\ cursor' \in Nat /\ cursor' <= Len(words) + 1 /\ cursor' > cursor
    <3>1. cursor \in 2..Len(words) + 1 /\ Len(words) \in Nat BY <1>2, WordList DEF StateType
    <3>2. cursor' = cursor + 1 + Len(c.args) BY <2>1
    <3>3. cursor \in Nat /\ cursor >= 2 BY <3>1
    <3>4. Len(c.args) \in Nat /\ cursor + 1 + Len(c.args) <= Len(words) + 1 BY <1>3
    <3>5. cursor' \in Nat /\ cursor' > cursor BY <3>2, <3>3, <3>4, Forward
    <3>6. QED BY <3>1, <3>2, <3>3, <3>4, <3>5
  <2>5. ran \in Seq(Call) /\ Len(ran) \in Nat /\ c \in Call
    BY <1>2, <1>3, LenProperties DEF StateType
  <2>6. /\ \A k \in 1..Len(ran) : ran[k].option.kind = "static"
        /\ InLine(ran, Len(ran), cursor)
        /\ \A k \in 1..Len(ran) : Complete(ran[k].option.params, ran[k].args)
    BY <2>2, <2>5 DEF History, IInv, CompleteInv
  <2>7. /\ ran' \in Seq(Call) /\ Len(ran') \in Nat
        /\ \A k \in 1..Len(ran') : ran'[k].option.kind = "static"
        /\ InLine(ran', Len(ran'), cursor')
        /\ \A k \in 1..Len(ran') : Complete(ran'[k].option.params, ran'[k].args)
    <3>1. CASE ran' = Append(ran, c) /\ Complete(c.option.params, c.args)
      <4>1. /\ ran' \in Seq(Call) /\ Len(ran') = Len(ran) + 1 /\ ran'[Len(ran) + 1] = c
            /\ \A k \in 1..Len(ran) : ran'[k] = ran[k]
        BY <2>5, <3>1, AppendProperties
      <4>2. \A k \in 1..Len(ran') : k \in 1..Len(ran) \/ k = Len(ran) + 1
        BY <2>5, <4>1
      <4>3. InLine(ran', Len(ran) + 1, cursor')
        BY <1>3, <2>4, <2>5, <2>6, <3>1, InLineMore
      <4>4. QED BY <1>3, <2>5, <2>6, <3>1, <4>1, <4>2, <4>3
    <3>2. CASE ran' = ran
      <4>1. InLine(ran, Len(ran), cursor') BY <2>4, <2>5, <2>6, InLineLater
      <4>2. QED BY <2>5, <2>6, <3>2, <4>1
    <3>3. QED BY <2>3, <3>1, <3>2
  <2>8. History(0)'
    <3>1. Len(ran') - 0 = Len(ran') /\ Len(ran') >= 0 BY <2>7
    <3>2. QED BY <2>7, <3>1 DEF History
  <2>9. StateType'
    <3>1. cursor' \in 2..Len(words) + 1 BY <2>4
    <3>2. QED BY <1>2, <2>1, <2>3, <2>7, <3>1 DEF StateType, Terminal
  <2>10. KeptInv'
    <3>1. parsed_opts \in Seq(Call) /\ Len(parsed_opts) \in Nat
      BY <1>2, LenProperties DEF StateType
    <3>2. InLine(parsed_opts, Len(parsed_opts), cursor) BY DEF IInv, KeptInv
    <3>3. InLine(parsed_opts, Len(parsed_opts), cursor')
      BY <2>4, <3>1, <3>2, InLineLater
    <3>4. QED BY <2>1, <3>3 DEF IInv, KeptInv, CallMisses, misses
  <2>11. CompleteInv'
    BY <2>1, <2>2, <2>7 DEF CompleteInv, Complete
  <2>12. HistoryInv'
    BY <2>1, <2>2, <2>3, <2>8 DEF HistoryInv
  <2>13. QED BY <2>9, <2>10, <2>11, <2>12 DEF IInv
<1>6. QED BY <1>4, <1>5

LEMMA KeepOptionStep ==
  ASSUME IInv, KeepOption
  PROVE  IInv'
<1> DEFINE c == call(options)
<1>1. AtName /\ is_named(options, Name) BY DEF KeepOption
<1>2. StateType BY DEF IInv
<1>3. /\ c \in Call /\ c.at = cursor
      /\ Len(c.args) \in Nat /\ cursor + 1 + Len(c.args) <= Len(words) + 1
      /\ c.option.kind = "method"
  BY <1>1, <1>2, OptionList, CallType
<1>4. CASE CallMisses(c)
  BY <1>4, Ending DEF KeepOption, Terminal
<1>5. CASE ~CallMisses(c)
  <2> HIDE DEF c
  <2>1. /\ parsed_opts' = Append(parsed_opts, c) /\ cursor' = cursor + 1 + Len(c.args)
        /\ UNCHANGED <<spec, words, phase, parsed_args, next_opt, ran, object>>
    BY <1>5 DEF KeepOption, input, c
  <2>2. phase = "options" /\ object = <<>> /\ next_opt = 1 /\ History(0)
    BY <1>1 DEF AtName, IInv, HistoryInv
  <2>3. /\ cursor \in Nat /\ cursor >= 2 /\ Len(words) \in Nat
        /\ cursor' \in Nat /\ cursor' <= Len(words) + 1 /\ cursor' > cursor
    <3>1. cursor \in 2..Len(words) + 1 /\ Len(words) \in Nat BY <1>2, WordList DEF StateType
    <3>2. cursor' = cursor + 1 + Len(c.args) BY <2>1
    <3>3. cursor \in Nat /\ cursor >= 2 BY <3>1
    <3>4. Len(c.args) \in Nat /\ cursor + 1 + Len(c.args) <= Len(words) + 1 BY <1>3
    <3>5. cursor' \in Nat /\ cursor' > cursor BY <3>2, <3>3, <3>4, Forward
    <3>6. QED BY <3>1, <3>2, <3>3, <3>4, <3>5
  <2>4. /\ Len(parsed_opts) \in Nat /\ Len(ran) \in Nat
        /\ parsed_opts' \in Seq(Call)
        /\ Len(parsed_opts') = Len(parsed_opts) + 1 /\ parsed_opts'[Len(parsed_opts')] = c
        /\ \A k \in 1..Len(parsed_opts) : parsed_opts'[k] = parsed_opts[k]
    BY <1>2, <1>3, <2>1, AppendProperties, LenProperties DEF StateType
  <2>5. StateType'
    <3>1. cursor' \in 2..Len(words) + 1 BY <2>3
    <3>2. next_opt' \in 1..Len(parsed_opts') + 1 BY <2>1, <2>2, <2>4
    <3>3. QED BY <1>2, <2>1, <2>2, <2>4, <3>1, <3>2 DEF StateType
  <2>6. KeptInv'
    <3>1. KeptInv BY DEF IInv
    <3>2. InLine(parsed_opts', Len(parsed_opts'), cursor')
      <4>1. parsed_opts \in Seq(Call) /\ InLine(parsed_opts, Len(parsed_opts), cursor)
        BY <1>2, <3>1 DEF KeptInv, StateType
      <4>2. QED BY <1>3, <2>1, <2>3, <2>4, <4>1, InLineMore
    <3>3. \A k \in 1..Len(parsed_opts') : k \in 1..Len(parsed_opts) \/ k = Len(parsed_opts')
      BY <2>4
    <3>4. ASSUME NEW k \in 1..Len(parsed_opts')
          PROVE  parsed_opts'[k].option.kind = "method" /\ ~CallMisses(parsed_opts'[k])
      BY <1>3, <1>5, <2>4, <3>1, <3>3 DEF KeptInv
    <3>5. QED BY <3>2, <3>4 DEF KeptInv, CallMisses, misses
  <2>7. CompleteInv'
    BY <2>1, <2>2 DEF IInv, CompleteInv, Complete, arguments
  <2>8. History(0)'
    <3>1. InLine(ran, Len(ran), cursor) /\ \A k \in 1..Len(ran) : ran[k].option.kind = "static"
      BY <2>2, <2>4 DEF History
    <3>2. ran \in Seq(Call) BY <1>2 DEF StateType
    <3>3. InLine(ran, Len(ran), cursor') BY <2>3, <2>4, <3>1, InLineLater
    <3>4. Len(ran') - 0 = Len(ran) /\ Len(ran) >= 0 BY <2>1, <2>4
    <3>5. QED BY <2>1, <3>1, <3>3, <3>4 DEF History
  <2>9. HistoryInv'
    BY <2>1, <2>2, <2>8 DEF HistoryInv
  <2>10. QED BY <2>5, <2>6, <2>7, <2>9 DEF IInv
<1>6. QED BY <1>4, <1>5

LEMMA ConstructStep ==
  ASSUME IInv, Construct
  PROVE  IInv'
<1>1. CASE Ends("undefined") \/ Ends("thrown") \/ Ends("exited")
  BY <1>1, Ending DEF Terminal
<1>2. CASE /\ made = "called" /\ object' = <<parsed_args>> /\ phase' = "run"
           /\ UNCHANGED <<spec, words, cursor, parsed_args, parsed_opts, next_opt, ran>>
  <2>1. Complete(arguments, parsed_args) BY <1>2, Made, CompleteCall
  <2>2. Filled(parsed_args) BY <1>2, Made, FieldsFilled DEF IInv, StateType
  <2>3. StateType' BY <1>2 DEF IInv, StateType
  <2>4. KeptInv' BY <1>2 DEF IInv, KeptInv, InLine, CallMisses, misses
  <2>5. CompleteInv'
    <3>1. Complete(arguments, object'[1]) /\ Filled(object'[1]) BY <1>2, <2>1, <2>2
    <3>2. QED BY <1>2, <3>1 DEF IInv, CompleteInv, Complete, Filled, arguments, fields
  <2>6. next_opt = 1 /\ History(0) /\ cursor > Len(words)
    BY DEF Construct, IInv, HistoryInv
  <2>7. HistoryInv' BY <1>2, <2>6 DEF HistoryInv, History
  <2>8. QED BY <2>3, <2>4, <2>5, <2>7 DEF IInv
<1>3. QED BY <1>1, <1>2, Constructs

LEMMA RunOptionStep ==
  ASSUME IInv, RunOption
  PROVE  IInv'
<1> DEFINE c == parsed_opts[next_opt]
<1>0. PICK n : n = next_opt - 1 OBVIOUS
<1>1. /\ phase = "run" /\ next_opt <= Len(parsed_opts)
      /\ Run(c) /\ next_opt' = next_opt + 1
      /\ UNCHANGED <<spec, words, cursor, parsed_args, parsed_opts, object>>
  BY DEF RunOption, input
<1>2. /\ Len(parsed_opts) \in Nat /\ next_opt \in 1..Len(parsed_opts) /\ n \in Nat
      /\ Len(ran) \in Nat /\ ran \in Seq(Call) /\ c \in Call
  BY <1>0, <1>1, LenProperties, ElementOfSeq DEF IInv, StateType
<1>3. ~CallMisses(c) BY <1>2 DEF IInv, KeptInv
<1>4. History(n) /\ object # <<>> /\ cursor > Len(words)
  BY <1>0, <1>1 DEF IInv, HistoryInv
<1> HIDE DEF c
<1>5. /\ \/ ran' = Append(ran, c) /\ Complete(c.option.params, c.args)
         \/ ran' = ran
      /\ phase' \in {"exited", "thrown", "undefined", "run"}
      /\ phase' = "run" => ran' = Append(ran, c)
  BY <1>1, <1>3, RunsOne DEF Terminal
<1>6. /\ ran' \in Seq(Call)
      /\ \A k \in 1..Len(ran) : ran'[k] = ran[k]
      /\ \/ /\ Len(ran') = Len(ran) + 1 /\ ran'[Len(ran')] = c
            /\ Complete(c.option.params, c.args)
         \/ Len(ran') = Len(ran) /\ phase' # "run"
  <2>1. CASE ran' = Append(ran, c) /\ Complete(c.option.params, c.args)
    BY <1>2, <2>1, AppendProperties
  <2>2. CASE ran' = ran /\ phase' # "run" BY <1>2, <2>2
  <2>3. CASE ran' = ran /\ phase' = "run"
    BY <1>2, <1>5, <2>3, AppendProperties
  <2>4. QED BY <1>5, <2>1, <2>2, <2>3
<1>7. StateType'
  <2>1. next_opt' \in 1..Len(parsed_opts) + 1 BY <1>1, <1>2
  <2>2. QED BY <1>1, <1>5, <1>6, <2>1 DEF IInv, StateType, Terminal
<1>8. KeptInv' BY <1>1 DEF IInv, KeptInv, InLine, CallMisses, misses
<1>9. CompleteInv'
  <2>1. \A k \in 1..Len(ran) : Complete(ran[k].option.params, ran[k].args)
    BY DEF IInv, CompleteInv
  <2>2. \A k \in 1..Len(ran') : Complete(ran'[k].option.params, ran'[k].args)
    BY <1>2, <1>6, <2>1
  <2>3. QED BY <1>1, <2>2 DEF IInv, CompleteInv, Complete, Filled, arguments, fields
<1>10. CASE Len(ran') = Len(ran) + 1
  <2>1. History(n + 1)'
    <3>1. Len(ran') - (n + 1) = Len(ran) - n BY <1>2, <1>10
    <3>2. /\ Len(ran) - n >= 0
          /\ \A k \in 1..Len(ran) - n : ran[k].option.kind = "static"
          /\ InLine(ran, Len(ran) - n, cursor)
          /\ \A k \in 1..n : ran[Len(ran) - n + k] = parsed_opts[k]
      BY <1>4 DEF History
    <3>3. \A k \in 1..Len(ran) - n : ran'[k] = ran[k] BY <1>2, <1>6
    <3>4. ASSUME NEW k \in 1..n + 1 PROVE ran'[Len(ran) - n + k] = parsed_opts[k]
      <4>1. CASE k = n + 1
        <5>1. Len(ran) - n + k = Len(ran') /\ k = next_opt BY <1>0, <1>2, <1>10, <4>1
        <5>2. ran'[Len(ran')] = c BY <1>2, <1>6, <1>10
        <5>3. QED BY <5>1, <5>2 DEF c
      <4>2. CASE k \in 1..n
        <5>1. Len(ran) - n + k \in 1..Len(ran) BY <1>2, <3>2, <4>2
        <5>2. QED BY <1>6, <3>2, <4>2, <5>1
      <4>3. QED BY <1>2, <4>1, <4>2
    <3>5. InLine(ran', Len(ran) - n, cursor) BY <3>2, <3>3 DEF InLine
    <3>6. /\ \A k \in 1..Len(ran) - n : ran'[k].option.kind = "static"
          /\ \A k \in 1..n + 1 : ran'[Len(ran) - n + k] = parsed_opts[k]
      BY <3>2, <3>3, <3>4
    <3>7. QED BY <1>1, <3>1, <3>2, <3>5, <3>6 DEF History
  <2>2. next_opt' - 1 = n + 1 /\ n + 1 \in 0..next_opt' - 1 BY <1>0, <1>1, <1>2
  <2>3. QED
    <3>1. /\ object' # <<>> /\ (cursor > Len(words))'
          /\ phase' \notin {"arguments", "options"} /\ History(next_opt - 1)'
      <4>1. History(next_opt - 1)' <=> History(n + 1)' BY <2>2 DEF History
      <4>2. QED BY <1>1, <1>4, <1>5, <2>1, <4>1
    <3>2. HistoryInv' BY <2>1, <2>2, <3>1 DEF HistoryInv
    <3>3. QED BY <1>7, <1>8, <1>9, <3>2 DEF IInv
<1>11. CASE Len(ran') = Len(ran) /\ phase' # "run"
  <2>1. ran' = ran
    BY <1>2, <1>5, <1>11, AppendProperties
  <2>2. History(n)' BY <1>1, <1>4, <2>1 DEF History
  <2>3. n \in 0..next_opt' - 1 BY <1>0, <1>1, <1>2
  <2>4. HistoryInv' BY <1>1, <1>4, <1>5, <1>11, <2>2, <2>3 DEF HistoryInv
  <2>5. QED BY <1>7, <1>8, <1>9, <2>4 DEF IInv
<1>12. QED BY <1>6, <1>10, <1>11

LEMMA Inductive == IInv /\ [Next]_vars => IInv'
<1> SUFFICES ASSUME IInv, [Next]_vars PROVE IInv' OBVIOUS
<1>1. CASE ParseArguments BY <1>1, ParseArgumentsStep
<1>2. CASE NameTooShort BY <1>2, Ending DEF NameTooShort, Terminal
<1>3. CASE RunCommand BY <1>3, RunCommandStep
<1>4. CASE KeepOption BY <1>4, KeepOptionStep
<1>5. CASE UnknownOption BY <1>5, Ending DEF UnknownOption, Terminal
<1>6. CASE Construct BY <1>6, ConstructStep
<1>7. CASE RunOption BY <1>7, RunOptionStep
<1>8. CASE Return BY <1>8, Ending DEF Return, Terminal
<1>9. CASE UNCHANGED vars
  BY <1>9 DEF vars, input, IInv, StateType, KeptInv, InLine, CallMisses, misses,
              CompleteInv, Complete, Filled, arguments, fields, HistoryInv, History
<1>10. QED BY <1>1, <1>2, <1>3, <1>4, <1>5, <1>6, <1>7, <1>8, <1>9 DEF Next

LEMMA Invariant == Spec => []IInv
BY Initially, Inductive, PTL DEF Spec

-----------------------------------------------------------------------------
(* The cursor of parse_args never leaves the command line, and every call   *)
(* kept or run has its name on it.                                          *)
THEOREM TypeCorrect == Spec => []TypeOK
<1>1. IInv => TypeOK
  <2> SUFFICES ASSUME IInv PROVE TypeOK OBVIOUS
  <2>1. StateType BY DEF IInv
  <2>2. Len(words) \in Nat /\ Len(ran) \in Nat /\ Len(parsed_opts) \in Nat
        /\ cursor \in 2..Len(words) + 1
    BY <2>1, WordList, LenProperties DEF StateType
  <2>3. \A k \in 1..Len(parsed_opts) : parsed_opts[k].at \in 2..cursor - 1
    BY DEF IInv, KeptInv, InLine
  <2>4. \A k \in 1..Len(ran) : ran[k].at \in 2..cursor - 1
    <3>1. PICK n \in 0..next_opt - 1 : History(n) BY DEF IInv, HistoryInv
    <3>2. n \in 0..Len(parsed_opts) BY <2>1, <2>2, <3>1 DEF StateType
    <3>3. SUFFICES ASSUME NEW k \in 1..Len(ran) PROVE ran[k].at \in 2..cursor - 1
      OBVIOUS
    <3>4. CASE k \in 1..Len(ran) - n BY <3>1, <3>4 DEF History, InLine
    <3>5. CASE k \in Len(ran) - n + 1..Len(ran)
      <4>1. k - (Len(ran) - n) \in 1..n /\ Len(ran) - n + (k - (Len(ran) - n)) = k
        BY <2>2, <3>2, <3>5
      <4>2. ran[k] = parsed_opts[k - (Len(ran) - n)] BY <3>1, <4>1 DEF History
      <4>3. k - (Len(ran) - n) \in 1..Len(parsed_opts) BY <2>2, <3>2, <4>1
      <4>4. QED BY <2>3, <4>2, <4>3
    <3>6. QED BY <2>2, <3>2, <3>4, <3>5
  <2>5. \A c \in Ran \cup Kept : c.at \in 2..Len(words)
    BY <2>2, <2>3, <2>4 DEF Ran, Kept
  <2>6. QED BY <2>1, <2>5 DEF StateType, TypeOK
<1>2. QED BY <1>1, Invariant, PTL

(* Option and command functions and the constructor are only ever called    *)
(* with every required argument, none of them rejected by its constraint,   *)
(* and every required field gets a value if the optional ones come last.    *)
THEOREM CallsComplete == Spec => []OnlyCompleteCalls
<1>1. IInv => OnlyCompleteCalls
  BY DEF IInv, CompleteInv, OnlyCompleteCalls, Filled, Ran
<1>2. QED BY <1>1, Invariant, PTL

(* Commands run before options, options only on the finished object, both   *)
(* in the order of the command line.                                        *)
THEOREM OrderKept == Spec => []RunsInOrder
<1>1. IInv => RunsInOrder
  <2> SUFFICES ASSUME IInv PROVE RunsInOrder OBVIOUS
  <2>1. StateType BY DEF IInv
  <2>2. Len(ran) \in Nat /\ Len(parsed_opts) \in Nat
    BY <2>1, LenProperties DEF StateType
  <2>3. PICK n \in 0..next_opt - 1 : History(n) BY DEF IInv, HistoryInv
  <2>4. n \in 0..Len(parsed_opts) BY <2>1, <2>2, <2>3 DEF StateType
  <2> DEFINE m == Len(ran) - n
  <2>5. m \in Nat BY <2>2, <2>3, <2>4 DEF History
  <2>6. /\ \A k \in 1..m : ran[k].option.kind = "static"
        /\ \A j, k \in 1..m : j < k => ran[j].at < ran[k].at
        /\ \A k \in 1..n : ran[m + k] = parsed_opts[k]
    BY <2>3 DEF History, InLine
  <2>7. /\ \A k \in 1..Len(parsed_opts) : parsed_opts[k].option.kind = "method"
        /\ \A j, k \in 1..Len(parsed_opts) : j < k => parsed_opts[j].at < parsed_opts[k].at
    BY DEF IInv, KeptInv, InLine
  <2>8. Len(ran) = m + n BY <2>2, <2>4
  <2> HIDE DEF m
  <2>9. \A k \in m + 1..m + n : /\ k - m \in 1..n /\ k - m \in 1..Len(parsed_opts)
                               /\ ran[k] = parsed_opts[k - m]
                               /\ ran[k].option.kind = "method"
    <3>1. SUFFICES ASSUME NEW k \in m + 1..m + n
                   PROVE  /\ k - m \in 1..n /\ k - m \in 1..Len(parsed_opts)
                          /\ ran[k] = parsed_opts[k - m]
                          /\ ran[k].option.kind = "method"
      OBVIOUS
    <3>2. k - m \in 1..n /\ m + (k - m) = k BY <2>4, <2>5
    <3>3. k - m \in 1..Len(parsed_opts) BY <2>2, <2>4, <3>2
    <3>4. QED BY <2>6, <2>7, <3>2, <3>3
  <2>10. \A k \in 1..Len(ran) : k \in 1..m \/ k \in m + 1..m + n
    BY <2>4, <2>5, <2>8
  <2>11. Methods = {parsed_opts[k] : k \in 1..n}
    <3>1. ASSUME NEW c \in Methods PROVE c \in {parsed_opts[k] : k \in 1..n}
      <4>1. PICK k \in 1..Len(ran) : c = ran[k] /\ ran[k].option.kind = "method"
        BY DEF Methods, Ran
      <4>2. k \notin 1..m BY <2>6, <4>1
      <4>3. QED BY <2>9, <2>10, <4>1, <4>2
    <3>2. ASSUME NEW k \in 1..n PROVE parsed_opts[k] \in Methods
      <4>1. m + k \in 1..Len(ran) /\ k \in 1..Len(parsed_opts)
        BY <2>2, <2>4, <2>5, <2>8
      <4>2. ran[m + k] = parsed_opts[k] BY <2>6
      <4>3. QED BY <2>7, <4>1, <4>2 DEF Methods, Ran
    <3>3. QED BY <3>1, <3>2
  <2>12. \E i \in 0..Len(parsed_opts) : Methods = {parsed_opts[k] : k \in 1..i}
    BY <2>4, <2>11
  <2>13. Methods # {} => object # <<>> /\ cursor > Len(words)
    <3>1. Methods # {} => next_opt > 1
      BY <2>1, <2>2, <2>3, <2>11 DEF StateType
    <3>2. QED BY <3>1 DEF IInv, HistoryInv
  <2>14. ASSUME NEW j \in 1..Len(ran), NEW k \in 1..Len(ran), j < k
         PROVE  \/ ran[j] \notin Methods /\ ran[k] \in Methods
                \/ (ran[j] \in Methods <=> ran[k] \in Methods) /\ ran[j].at < ran[k].at
    <3>1. \A i \in 1..Len(ran) : ran[i] \in Methods <=> ran[i].option.kind = "method"
      BY DEF Methods, Ran
    <3>2. CASE j \in 1..m /\ k \in 1..m
      <4>1. ran[j] \notin Methods /\ ran[k] \notin Methods BY <2>6, <3>1, <3>2
      <4>2. QED BY <2>6, <2>14, <3>2, <4>1
    <3>3. CASE j \in 1..m /\ k \in m + 1..m + n
      BY <2>6, <2>9, <3>1, <3>3
    <3>4. CASE j \in m + 1..m + n /\ k \in m + 1..m + n
      <4>1. j - m < k - m BY <2>5, <2>14
      <4>2. ran[j].at < ran[k].at BY <2>7, <2>9, <3>4, <4>1
      <4>3. QED BY <2>9, <3>1, <3>4, <4>2
    <3>5. ~(j \in m + 1..m + n /\ k \in 1..m) BY <2>5, <2>14
    <3>6. QED BY <2>10, <3>2, <3>3, <3>4, <3>5
  <2>15. QED BY <2>12, <2>13, <2>14 DEF RunsInOrder
<1>2. QED BY <1>1, Invariant, PTL

-----------------------------------------------------------------------------
(* Every word is read once.  The calls made or kept lie side by side between *)
(* the positional arguments and the cursor.                                *)

Calls == Ran \cup Kept

ReadsWords(c) ==
  /\ c.at > 1 + Len(parsed_args)
  /\ c.at + Len(c.args) < cursor
  /\ c.option.name = words[c.at].rest
  /\ \A i \in 1..Len(c.args) : c.args[i] = stored(words[c.at + i])

SideBySide ==
  /\ cursor >= 2 + Len(parsed_args)
  /\ \A c \in Calls : ReadsWords(c)
  /\ \A p \in 2 + Len(parsed_args)..cursor - 1 : \E c \in Calls : p \in Reads(c)
  /\ \A c, d \in Calls : \A p \in Reads(c) : p \in Reads(d) => c = d

ReadInv ==
  /\ phase = "arguments" => Calls = {} /\ cursor = 2
  /\ phase \in {"options", "run", "returned"} => SideBySide

(* What a call is given, word by word. *)
LEMMA GivenWords ==
  ASSUME StateType, NEW params, IsList(params), NEW from \in 2..Len(words) + 1,
         NEW i \in 1..Len(given(params, from))
  PROVE  given(params, from)[i] = stored(words[from + i - 1])
<1>1. given(params, from) \in Seq(Value) BY Given
<1>2. i \in DOMAIN given(params, from) BY <1>1, LenProperties
<1>3. QED BY <1>2 DEF given

LEMMA CallWords ==
  ASSUME StateType, AtName, NEW opts, IsList(opts), is_named(opts, Name),
         \A i \in 1..Len(opts) : opts[i] \in AllOptions /\ IsList(opts[i].params)
  PROVE  /\ call(opts) \in Call /\ call(opts).at = cursor
         /\ Len(call(opts).args) \in Nat
         /\ call(opts).option.name = words[cursor].rest
         /\ \A i \in 1..Len(call(opts).args) : call(opts).args[i] = stored(words[cursor + i])
<1> DEFINE n == named(opts, Name)
           args == given(opts[n].params, cursor + 1)
<1>1. n \in 1..Len(opts) /\ opts[n].name = Name.rest BY Named
<1>2. cursor \in Nat /\ cursor + 1 \in 2..Len(words) + 1
  BY WordList DEF StateType, AtName
<1>3. call(opts) = [option |-> opts[n], at |-> cursor, args |-> args] BY DEF call
<1>4. \A i \in 1..Len(args) : args[i] = stored(words[cursor + 1 + i - 1])
  BY <1>1, <1>2, GivenWords
<1>5. args \in Seq(Value) BY <1>1, <1>2, Given
<1>6. call(opts) \in Call /\ call(opts).at = cursor BY CallType
<1> HIDE DEF n, args
<1>7. Len(args) \in Nat BY <1>5, LenProperties
<1>8. \A i \in 1..Len(args) : cursor + 1 + i - 1 = cursor + i BY <1>2, <1>7
<1>9. QED BY <1>1, <1>3, <1>4, <1>6, <1>7, <1>8 DEF Name

(* The calls are calls. *)
LEMMA CallsType ==
  ASSUME StateType
  PROVE  /\ Len(ran) \in Nat /\ Len(parsed_opts) \in Nat /\ Len(parsed_args) \in Nat
         /\ cursor \in Nat /\ cursor >= 2 /\ Len(words) \in Nat
         /\ \A c \in Calls : c.at \in Nat /\ Len(c.args) \in Nat
<1>1. Len(ran) \in Nat /\ Len(parsed_opts) \in Nat /\ Len(parsed_args) \in Nat
      /\ Len(words) \in Nat
  BY WordList, LenProperties DEF StateType
<1>2. cursor \in Nat /\ cursor >= 2 BY <1>1 DEF StateType
<1>3. ASSUME NEW c \in Calls PROVE c \in Call
  BY <1>1, <1>3, ElementOfSeq DEF StateType, Calls, Ran, Kept
<1>4. ASSUME NEW c \in Call PROVE c.at \in Nat /\ Len(c.args) \in Nat
  BY LenProperties DEF Call
<1>5. QED BY <1>1, <1>2, <1>3, <1>4

LEMMA Earlier ==
  ASSUME NEW i \in Nat, NEW j \in Nat, NEW k \in Nat, i < j, k > j
  PROVE  i < k
OBVIOUS

(* The call at the cursor is put next to the others. *)
LEMMA NextCall ==
  ASSUME StateType, SideBySide, NEW c \in Call, Len(c.args) \in Nat, c.at = cursor,
         c.option.name = words[cursor].rest,
         \A i \in 1..Len(c.args) : c.args[i] = stored(words[cursor + i]),
         cursor' = cursor + 1 + Len(c.args),
         Calls' = Calls \cup {c}, UNCHANGED <<words, parsed_args>>
  PROVE  SideBySide'
<1> DEFINE n == Len(c.args)
           m == Len(parsed_args)
<1>1. /\ cursor \in Nat /\ m \in Nat /\ n \in Nat
      /\ \A d \in Calls : d.at \in Nat /\ Len(d.args) \in Nat
  BY CallsType
<1>2. \A d \in Calls : d.at + Len(d.args) < cursor BY DEF SideBySide, ReadsWords
<1>3. /\ cursor' = cursor + 1 + n /\ c.at = cursor /\ cursor >= 2 + m
      /\ Len(parsed_args') = m /\ Len(c.args) = n
  BY DEF SideBySide
<1> HIDE DEF n, m
<1>4. cursor' \in Nat /\ cursor' > cursor /\ cursor' - 1 = cursor + n BY <1>1, <1>3
<1>5. ASSUME NEW d \in Calls' PROVE ReadsWords(d)'
  <2>1. CASE d = c
    <3>1. c.at > 1 + m /\ c.at + n < cursor' BY <1>1, <1>3, <1>4
    <3>2. QED BY <1>3, <2>1, <3>1 DEF ReadsWords
  <2>2. CASE d \in Calls
    <3>1. ReadsWords(d) BY <2>2 DEF SideBySide
    <3>2. d.at + Len(d.args) \in Nat /\ d.at + Len(d.args) < cursor BY <1>1, <1>2, <2>2
    <3>3. d.at + Len(d.args) < cursor' BY <1>1, <1>4, <3>2, Earlier
    <3>4. QED BY <3>1, <3>3 DEF ReadsWords
  <2>3. QED BY <2>1, <2>2
<1>6. Reads(c) = cursor..cursor + n BY <1>3 DEF Reads
<1>7. \A d \in Calls : \A p \in Reads(d) : p \notin Reads(c)
  <2>1. SUFFICES ASSUME NEW d \in Calls, NEW p \in Reads(d) PROVE p \notin Reads(c)
    OBVIOUS
  <2>2. p < cursor BY <1>1, <1>2 DEF Reads
  <2>3. QED BY <1>1, <1>6, <2>2
<1>8. ASSUME NEW p \in 2 + m..cursor + n PROVE \E d \in Calls' : p \in Reads(d)
  <2>1. CASE p < cursor
    <3>1. p \in 2 + m..cursor - 1 BY <1>1, <2>1
    <3>2. QED BY <3>1 DEF SideBySide, m
  <2>2. CASE ~(p < cursor)
    <3>1. p \in Nat /\ p >= cursor /\ p <= cursor + n BY <1>1, <2>2
    <3>2. p \in Reads(c) BY <1>1, <1>6, <3>1
    <3>3. QED BY <3>2
  <2>3. QED BY <2>1, <2>2
<1>9. \A d, e \in Calls' : \A p \in Reads(d) : p \in Reads(e) => d = e
  BY <1>7 DEF SideBySide
<1>10. cursor' >= 2 + m BY <1>1, <1>3, <1>4
<1>11. \A d : Reads(d)' = Reads(d) BY DEF Reads
<1>12. QED BY <1>3, <1>4, <1>5, <1>8, <1>9, <1>10, <1>11 DEF SideBySide

LEMMA SameCalls ==
  ASSUME SideBySide, Calls' = Calls, UNCHANGED <<words, cursor, parsed_args>>
  PROVE  SideBySide'
BY DEF SideBySide, ReadsWords, Reads

LEMMA ReadInvEnds ==
  ASSUME ReadInv, NEW how \in Terminal, Ends(how), how = "returned" => SideBySide
  PROVE  ReadInv'
<1>1. phase' = how /\ UNCHANGED <<words, cursor, parsed_args, ran, parsed_opts>>
  BY DEF Ends, input
<1>2. Calls' = Calls BY <1>1 DEF Calls, Ran, Kept
<1>3. how \in {"returned", "exited", "thrown", "undefined"} BY DEF Terminal
<1>4. QED BY <1>1, <1>2, <1>3, SameCalls DEF ReadInv

LEMMA MoreRan ==
  ASSUME StateType, NEW c, ran' = Append(ran, c)
  PROVE  Ran' = Ran \cup {c}
<1>1. ran \in Seq(Call) /\ Len(ran) \in Nat BY LenProperties DEF StateType
<1>2. /\ Len(ran') = Len(ran) + 1 /\ ran'[Len(ran) + 1] = c
      /\ \A k \in 1..Len(ran) : ran'[k] = ran[k]
  BY <1>1
<1>3. \A k : k \in 1..Len(ran) + 1 <=> k \in 1..Len(ran) \/ k = Len(ran) + 1 BY <1>1
<1>4. QED BY <1>2, <1>3 DEF Ran

LEMMA MoreKept ==
  ASSUME StateType, NEW c, parsed_opts' = Append(parsed_opts, c)
  PROVE  Kept' = Kept \cup {c}
<1>1. parsed_opts \in Seq(Call) /\ Len(parsed_opts) \in Nat BY LenProperties DEF StateType
<1>2. /\ Len(parsed_opts') = Len(parsed_opts) + 1 /\ parsed_opts'[Len(parsed_opts) + 1] = c
      /\ \A k \in 1..Len(parsed_opts) : parsed_opts'[k] = parsed_opts[k]
  BY <1>1
<1>3. \A k : k \in 1..Len(parsed_opts) + 1 <=> k \in 1..Len(parsed_opts) \/ k = Len(parsed_opts) + 1
  BY <1>1
<1>4. QED BY <1>2, <1>3 DEF Kept

LEMMA ReadInvNext ==
  ASSUME IInv, ReadInv, [Next]_vars
  PROVE  ReadInv'
<1>1. StateType /\ Len(parsed_args) \in Nat /\ cursor \in Nat /\ cursor >= 2
  BY CallsType DEF IInv
<1>2. CASE ParseArguments
  <2>1. /\ phase = "arguments" /\ phase' = "options" /\ cursor' = cursor + Len(parsed_args')
        /\ parsed_args' = given(arguments, cursor)
        /\ UNCHANGED <<words, ran, parsed_opts>>
    BY <1>2 DEF ParseArguments, input
  <2>2. Calls' = {} /\ cursor = 2 BY <2>1 DEF ReadInv, Calls, Ran, Kept
  <2>3. Len(parsed_args') \in Nat
    <3>1. IsList(arguments) /\ cursor \in 2..Len(words) + 1
      BY <1>1, SpecsAssumption DEF StateType, arguments
    <3>2. parsed_args' \in Seq(Value) BY <1>1, <2>1, <3>1, Given
    <3>3. QED BY <3>2, LenProperties
  <2>4. cursor' = 2 + Len(parsed_args') BY <2>1, <2>2
  <2>5. 2 + Len(parsed_args')..cursor' - 1 = {} /\ cursor' >= 2 + Len(parsed_args')
    BY <2>3, <2>4
  <2>6. SideBySide' BY <2>2, <2>5 DEF SideBySide
  <2>7. QED BY <2>1, <2>6 DEF ReadInv
<1>3. CASE NameTooShort BY <1>3, ReadInvEnds DEF NameTooShort, Terminal
<1>4. CASE RunCommand
  <2> DEFINE c == call(commands)
  <2>1. AtName /\ is_named(commands, Name) BY <1>4 DEF RunCommand
  <2>2. /\ c \in Call /\ c.at = cursor /\ Len(c.args) \in Nat
        /\ c.option.name = words[cursor].rest
        /\ \A i \in 1..Len(c.args) : c.args[i] = stored(words[cursor + i])
    BY <1>1, <2>1, CommandList, CallWords
  <2>3. CASE CallMisses(c) BY <1>4, <2>3, ReadInvEnds DEF RunCommand, Terminal
  <2>4. CASE ~CallMisses(c)
    <3> HIDE DEF c
    <3>1. /\ Run(c) /\ cursor' = cursor + 1 + Len(c.args)
          /\ UNCHANGED <<spec, words, parsed_args, parsed_opts>>
      BY <1>4, <2>4 DEF RunCommand, input, c
    <3>2. phase = "options" /\ SideBySide BY <2>1 DEF AtName, ReadInv
    <3>3. /\ phase' \in {"exited", "thrown", "undefined", "options"}
          /\ phase' = "options" => ran' = Append(ran, c)
      BY <2>4, <3>1, <3>2, RunsOne DEF Terminal
    <3>4. CASE phase' = "options"
      <4>1. Ran' = Ran \cup {c} BY <1>1, <3>3, <3>4, MoreRan
      <4>2. Calls' = Calls \cup {c} BY <3>1, <4>1 DEF Calls, Kept
      <4>3. SideBySide' BY <1>1, <2>2, <3>1, <3>2, <4>2, NextCall
      <4>4. QED BY <3>4, <4>3 DEF ReadInv
    <3>5. CASE phase' # "options" BY <3>3, <3>5 DEF ReadInv
    <3>6. QED BY <3>4, <3>5
  <2>5. QED BY <2>3, <2>4
<1>5. CASE KeepOption
  <2> DEFINE c == call(options)
  <2>1. AtName /\ is_named(options, Name) BY <1>5 DEF KeepOption
  <2>2. /\ c \in Call /\ c.at = cursor /\ Len(c.args) \in Nat
        /\ c.option.name = words[cursor].rest
        /\ \A i \in 1..Len(c.args) : c.args[i] = stored(words[cursor + i])
    BY <1>1, <2>1, OptionList, CallWords
  <2>3. CASE CallMisses(c) BY <1>5, <2>3, ReadInvEnds DEF KeepOption, Terminal
  <2>4. CASE ~CallMisses(c)
    <3> HIDE DEF c
    <3>1. /\ parsed_opts' = Append(parsed_opts, c) /\ cursor' = cursor + 1 + Len(c.args)
          /\ UNCHANGED <<spec, words, phase, parsed_args, ran>>
      BY <1>5, <2>4 DEF KeepOption, input, c
    <3>2. phase = "options" /\ SideBySide BY <2>1 DEF AtName, ReadInv
    <3>3. Kept' = Kept \cup {c} BY <1>1, <3>1, MoreKept
    <3>4. Calls' = Calls \cup {c} BY <3>1, <3>3 DEF Calls, Ran
    <3>5. SideBySide' BY <1>1, <2>2, <3>1, <3>2, <3>4, NextCall
    <3>6. QED BY <3>1, <3>2, <3>5 DEF ReadInv
  <2>5. QED BY <2>3, <2>4
<1>6. CASE UnknownOption BY <1>6, ReadInvEnds DEF UnknownOption, Terminal
<1>7. CASE Construct
  <2>1. \/ Ends("undefined") \/ Ends("thrown") \/ Ends("exited")
        \/ phase' = "run" /\ UNCHANGED <<words, cursor, parsed_args, parsed_opts, ran>>
    BY <1>7, Constructs
  <2>2. CASE Ends("undefined") \/ Ends("thrown") \/ Ends("exited")
    BY <2>2, ReadInvEnds DEF Terminal
  <2>3. CASE phase' = "run" /\ UNCHANGED <<words, cursor, parsed_args, parsed_opts, ran>>
    <3>1. SideBySide BY <1>7 DEF Construct, ReadInv
    <3>2. Calls' = Calls BY <2>3 DEF Calls, Ran, Kept
    <3>3. QED BY <2>3, <3>1, <3>2, SameCalls DEF ReadInv
  <2>4. QED BY <2>1, <2>2, <2>3
<1>8. CASE RunOption
  <2> DEFINE c == parsed_opts[next_opt]
  <2>1. /\ phase = "run" /\ next_opt <= Len(parsed_opts) /\ Run(c)
        /\ UNCHANGED <<words, cursor, parsed_args, parsed_opts>>
    BY <1>8 DEF RunOption, input
  <2>2. next_opt \in 1..Len(parsed_opts) BY <1>1, <2>1, CallsType DEF StateType
  <2>3. c \in Kept /\ ~CallMisses(c) BY <2>2 DEF Kept, IInv, KeptInv
  <2> HIDE DEF c
  <2>4. phase' \in {"exited", "thrown", "undefined", "run"} /\ (ran' = Append(ran, c) \/ ran' = ran)
    BY <2>1, <2>3, RunsOne
  <2>5. Ran' = Ran \cup {c} \/ Ran' = Ran BY <1>1, <2>4, MoreRan DEF Ran
  <2>6. Calls' = Calls BY <2>1, <2>3, <2>5 DEF Calls, Kept
  <2>7. SideBySide BY <2>1 DEF ReadInv
  <2>8. QED BY <2>1, <2>4, <2>6, <2>7, SameCalls DEF ReadInv
<1>9. CASE Return BY <1>9, ReadInvEnds DEF Return, Terminal, ReadInv
<1>10. CASE UNCHANGED vars
  BY <1>10, SameCalls DEF vars, input, ReadInv, Calls, Ran, Kept
<1>11. QED BY <1>2, <1>3, <1>4, <1>5, <1>6, <1>7, <1>8, <1>9, <1>10 DEF Next

(* Every word the parser has passed is a positional argument, or the name or *)
(* an argument of exactly one command or option, which got that very word.   *)
THEOREM WordsReadOnce == Spec => []ReadOnce
<1>1. Init => ReadInv
  BY EmptySeq DEF Init, ReadInv, Calls, Ran, Kept
<1>2. IInv /\ ReadInv /\ [Next]_vars => ReadInv' BY ReadInvNext
<1>3. IInv /\ ReadInv => ReadOnce
  <2> SUFFICES ASSUME IInv, ReadInv, phase \in {"options", "run", "returned"} PROVE ReadOnce
    BY DEF ReadOnce
  <2>1. SideBySide BY DEF ReadInv
  <2>2. StateType BY DEF IInv
  <2>3. /\ Len(parsed_args) \in Nat /\ cursor \in Nat
        /\ \A c \in Calls : c.at \in Nat /\ Len(c.args) \in Nat
    BY <2>2, CallsType
  <2>4. ASSUME NEW p \in 2..cursor - 1, p <= 1 + Len(parsed_args), NEW c \in Calls
        PROVE  p \notin Reads(c)
    <3>1. c.at > 1 + Len(parsed_args) BY <2>1 DEF SideBySide, ReadsWords
    <3>2. QED BY <2>3, <2>4, <3>1 DEF Reads
  <2>5. ASSUME NEW p \in 2..cursor - 1, ~(p <= 1 + Len(parsed_args))
        PROVE  \E c \in Calls : /\ p \in Reads(c)
                                /\ \A d \in Calls : p \in Reads(d) => d = c
    <3>1. p \in 2 + Len(parsed_args)..cursor - 1 BY <2>3, <2>5
    <3>2. QED BY <2>1, <3>1 DEF SideBySide
  <2>6. QED BY <2>1, <2>4, <2>5 DEF ReadOnce, SideBySide, ReadsWords, Calls
<1>4. QED BY <1>1, <1>2, <1>3, Invariant, PTL DEF Spec

-----------------------------------------------------------------------------
(* Where the behaviour may be undefined, and what may be thrown.           *)

(* The arguments are words that stand in the line from a position on, as many *)
(* as there could be.                                                         *)
FromLine(params, args, from) ==
  /\ Len(args) <= Len(params)
  /\ \A i \in 1..Len(args) :
       /\ from + i - 1 \in 2..Len(words)
       /\ takes(words[from + i - 1])
       /\ args[i] = stored(words[from + i - 1])
  /\ Stops(params, from, from + Len(args))

Excused ==
  \/ \E p \in 2..Len(words) : words[p].start = "minus_digit"
  \/ \E p \in 2..Len(words) : words[p].short /\ Len(commands) + Len(options) > 0
  \/ ~WellBehaved(fields)
  \/ \E i \in 1..Len(commands) : ~WellBehaved(commands[i].params)
  \/ \E i \in 1..Len(options) : ~WellBehaved(options[i].params)

(* Some field that no word is meant for has to be given a value. *)
Unfillable ==
  \/ \E b \in 1..Len(bases) : \E i \in 1..Len(bases[b]) : bases[b][i].required
  \/ \E i \in 1..Len(fields) : fields[i].descend /\ fields[i].required

(* What is kept to be evaluated later stands in the line. *)
KeptFromLine ==
  \A k \in 1..Len(parsed_opts) :
    /\ \E i \in 1..Len(options) : parsed_opts[k].option = options[i]
    /\ FromLine(parsed_opts[k].option.params, parsed_opts[k].args, parsed_opts[k].at + 1)

OriginInv ==
  /\ phase = "arguments" => cursor = 2
  /\ phase \in {"options", "run"} => FromLine(arguments, parsed_args, 2)
  /\ KeptFromLine
  /\ phase = "undefined" => Excused
  /\ phase = "thrown" => Unfillable

LEMMA GivenFromLine ==
  ASSUME StateType, NEW params, IsList(params), NEW from \in 2..Len(words) + 1
  PROVE  FromLine(params, given(params, from), from)
<1> DEFINE args == given(params, from)
<1>1. /\ args \in Seq(Value) /\ Len(args) <= Len(params)
      /\ from + Len(args) <= Len(words) + 1
  BY Given
<1>2. /\ \A i \in 1..Len(args) : takes(words[from + i - 1])
      /\ \A i \in 1..Len(args) : args[i] = stored(words[from + i - 1])
      /\ Stops(params, from, from + Len(args))
  BY Given, GivenWords
<1> HIDE DEF args
<1>3. Len(args) \in Nat /\ Len(words) \in Nat /\ from \in Nat
  BY <1>1, WordList, LenProperties
<1>4. \A i \in 1..Len(args) : from + i - 1 \in 2..Len(words) BY <1>1, <1>3
<1>5. QED BY <1>1, <1>2, <1>4 DEF FromLine, args

LEMMA CallFromLine ==
  ASSUME StateType, AtName, NEW opts, IsList(opts), is_named(opts, Name),
         \A i \in 1..Len(opts) : opts[i] \in AllOptions /\ IsList(opts[i].params)
  PROVE  /\ call(opts) \in Call
         /\ FromLine(call(opts).option.params, call(opts).args, call(opts).at + 1)
         /\ \E i \in 1..Len(opts) : call(opts).option = opts[i]
<1>1. /\ call(opts) \in Call /\ call(opts).at = cursor
      /\ \E i \in 1..Len(opts) : call(opts).option = opts[i]
  BY CallType
<1>2. cursor + 1 \in 2..Len(words) + 1 BY WordList DEF StateType, AtName
<1>3. call(opts).args = given(call(opts).option.params, cursor + 1) BY DEF call
<1>4. IsList(call(opts).option.params) BY <1>1
<1>5. QED BY <1>1, <1>2, <1>3, <1>4, GivenFromLine

(* Whatever is accepted but not stored looks like a negative number. *)
LEMMA Unstored ==
  ASSUME StateType, NEW params, NEW args \in Seq(Value), NEW from,
         FromLine(params, args, from), evaluate(params, args) = "unreachable"
  PROVE  \E p \in 2..Len(words) : words[p].start = "minus_digit"
<1> DEFINE n == Len(args)
           bad == {i \in 1..n : args[i] = NoHandle \/ args[i] \in params[i].rejects}
<1>1. n \in Nat BY LenProperties
<1>2. PICK i \in 1..n : args[i] = NoHandle
  <2>1. bad # {} BY DEF evaluate
  <2>2. PICK m \in bad : \A i \in bad : m <= i
    <3>1. bad \in SUBSET Nat BY <1>1
    <3> HIDE DEF bad
    <3>2. QED BY <2>1, <3>1, LeastOf
  <2>3. (CHOOSE i \in bad : \A j \in bad : i <= j) \in bad BY <2>2
  <2>4. args[CHOOSE i \in bad : \A j \in bad : i <= j] = NoHandle BY <2>1 DEF evaluate
  <2>5. QED BY <2>3, <2>4
<1>3. from + i - 1 \in 2..Len(words) /\ stored(words[from + i - 1]) = NoHandle
  BY <1>2 DEF FromLine
<1>4. words[from + i - 1] # NoHandle
  BY <1>3, CommandLinesAssumption DEF StateType, IsList
<1>5. words[from + i - 1].start = "minus_digit" BY <1>3, <1>4 DEF stored
<1>6. QED BY <1>3, <1>5

(* A call on words of the line that is made where no required argument is    *)
(* missing throws nothing, and is only undefined for one of the reasons      *)
(* given.                                                                    *)
LEMMA WhyUndefined ==
  ASSUME StateType, NEW params, IsList(params), NEW args \in Seq(Value), NEW from,
         FromLine(params, args, from), ~misses(params, Len(args))
  PROVE  /\ handle(params, args) # "throw"
         /\ handle(params, args) = "unreachable" =>
              \/ \E p \in 2..Len(words) : words[p].start = "minus_digit"
              \/ ~WellBehaved(params)
<1>1. Len(args) \in Nat /\ Len(params) \in Nat /\ Len(args) <= Len(params)
  BY LenProperties DEF FromLine, IsList
<1>2. handle(params, args) # "throw" BY <1>1, Handled, Visited
<1>3. ASSUME handle(params, args) = "unreachable"
      PROVE  \/ \E p \in 2..Len(words) : words[p].start = "minus_digit"
             \/ ~WellBehaved(params)
  <2>1. \/ evaluate(params, args) = "unreachable"
        \/ visit(params, Len(args)) = "unreachable"
    BY <1>3 DEF handle
  <2>2. QED BY <1>1, <2>1, Unstored, Visited
<1>4. QED BY <1>2, <1>3

(* The object itself. *)
LEMMA WhyNotMade ==
  ASSUME StateType, parsed_args \in Seq(Value), FromLine(arguments, parsed_args, 2)
  PROVE  (made = "unreachable" => Excused) /\ (made = "throw" => Unfillable)
<1> DEFINE n == Len(parsed_args)
<1>1. n \in Nat /\ n <= Len(arguments) BY LenProperties DEF FromLine
<1>2. /\ Len(fields) \in Nat /\ Len(arguments) \in Nat /\ n <= Len(fields)
      /\ required_args_count(arguments)
           = Cardinality({i \in 1..Len(fields) : fields[i].required /\ ~fields[i].descend})
  BY <1>1, FieldList
<1> HIDE DEF n
<1>3. ASSUME made = "unreachable" PROVE Excused
  <2>1. \/ evaluate(arguments, parsed_args) = "unreachable"
        \/ visit(fields, n) = "unreachable"
    BY <1>3, Made DEF n
  <2>2. QED BY <1>1, <1>2, <2>1, Unstored, Visited DEF Excused
<1>4. ASSUME made = "throw" PROVE Unfillable
  <2>1. ~misses(arguments, n) /\ construct(fields, bases, n) = "throw"
    BY <1>4, Made DEF n
  <2>2. \/ visit(fields, n) = "throw"
        \/ \E b \in 1..Len(bases) : visit(bases[b], 0) = "throw"
    BY <2>1 DEF construct
  <2>3. CASE visit(fields, n) = "throw"
    <3>1. n < required_args_count(fields) BY <1>1, <1>2, <2>3, Visited
    <3>2. required_args_count(arguments) <= n BY <1>1, <1>2, <2>1, RequiredCount
    <3>3. SUFFICES ASSUME ~\E i \in 1..Len(fields) : fields[i].descend /\ fields[i].required
                   PROVE  FALSE
      BY DEF Unfillable
    <3>4. {i \in 1..Len(fields) : fields[i].required /\ ~fields[i].descend}
            = {i \in 1..Len(fields) : fields[i].required}
      BY <3>3
    <3>5. required_args_count(arguments) = required_args_count(fields)
      BY <1>2, <3>4 DEF required_args_count
    <3>6. required_args_count(arguments) \in Nat BY <1>2, RequiredCount
    <3>7. QED BY <1>1, <3>1, <3>2, <3>5, <3>6
  <2>4. CASE \E b \in 1..Len(bases) : visit(bases[b], 0) = "throw"
    <3>1. PICK b \in 1..Len(bases) : visit(bases[b], 0) = "throw" BY <2>4
    <3>2. 0 < required_args_count(bases[b]) BY <3>1 DEF visit
    <3>3. {i \in 1..Len(bases[b]) : bases[b][i].required} # {}
      <4>1. SUFFICES ASSUME {i \in 1..Len(bases[b]) : bases[b][i].required} = {} PROVE FALSE
        OBVIOUS
      <4>2. required_args_count(bases[b]) = Cardinality({})
        BY <4>1, Zenon DEF required_args_count
      <4>3. Cardinality({}) = 0 BY FS_EmptySet
      <4>4. QED BY <3>2, <4>2, <4>3
    <3>4. QED BY <3>3 DEF Unfillable
  <2>5. QED BY <2>2, <2>3, <2>4
<1>5. QED BY <1>3, <1>4

LEMMA SameLine ==
  ASSUME UNCHANGED <<spec, words>>
  PROVE  /\ (Excused => Excused') /\ (Unfillable => Unfillable')
         /\ UNCHANGED parsed_opts => (KeptFromLine => KeptFromLine')
         /\ UNCHANGED parsed_args =>
              (FromLine(arguments, parsed_args, 2) => FromLine(arguments, parsed_args, 2)')
<1>1. /\ arguments' = arguments /\ commands' = commands /\ options' = options
      /\ fields' = fields /\ bases' = bases
  BY DEF arguments, commands, options, fields, bases
<1>2. (Excused => Excused') /\ (Unfillable => Unfillable')
  BY <1>1 DEF Excused, Unfillable
<1>3. ASSUME NEW params, NEW args, NEW from, FromLine(params, args, from)
      PROVE  FromLine(params, args, from)'
  BY <1>3 DEF FromLine, Stops
<1>4. ASSUME UNCHANGED parsed_opts, KeptFromLine PROVE KeptFromLine'
  BY <1>1, <1>3, <1>4 DEF KeptFromLine
<1>5. ASSUME UNCHANGED parsed_args, FromLine(arguments, parsed_args, 2)
      PROVE  FromLine(arguments, parsed_args, 2)'
  BY <1>1, <1>5 DEF FromLine, Stops
<1>6. QED BY <1>2, <1>4, <1>5

LEMMA OriginEnds ==
  ASSUME OriginInv, NEW how \in Terminal, Ends(how),
         how = "undefined" => Excused, how = "thrown" => Unfillable
  PROVE  OriginInv'
<1>1. phase' = how /\ UNCHANGED <<spec, words, parsed_args, parsed_opts>>
  BY DEF Ends, input
<1>2. how \notin {"arguments", "options", "run"} BY DEF Terminal
<1>3. QED BY <1>1, <1>2, SameLine DEF OriginInv

LEMMA RunUndefined ==
  ASSUME StateType, NEW c, Run(c), phase \notin {"undefined", "thrown"}, ~CallMisses(c),
         IsList(c.option.params), c.args \in Seq(Value),
         FromLine(c.option.params, c.args, c.at + 1)
  PROVE  /\ phase' # "thrown"
         /\ phase' = "undefined" =>
              \/ \E p \in 2..Len(words) : words[p].start = "minus_digit"
              \/ ~WellBehaved(c.option.params)
<1> DEFINE outcome == handle(c.option.params, c.args)
<1>1. /\ outcome # "throw"
      /\ outcome = "unreachable" =>
           \/ \E p \in 2..Len(words) : words[p].start = "minus_digit"
           \/ ~WellBehaved(c.option.params)
  BY WhyUndefined DEF CallMisses
<1>2. /\ phase' = "thrown" => outcome = "throw"
      /\ phase' = "undefined" => outcome = "unreachable"
  BY RunIs
<1> HIDE DEF outcome
<1>3. QED BY <1>1, <1>2

LEMMA OriginNext ==
  ASSUME IInv, OriginInv, [Next]_vars
  PROVE  OriginInv'
<1>1. /\ StateType /\ Len(words) \in Nat /\ Len(words) > 0
      /\ IsList(arguments) /\ cursor \in 2..Len(words) + 1
      /\ parsed_args \in Seq(Value)
  BY SpecsAssumption, WordList DEF IInv, StateType, arguments
<1>2. CASE ParseArguments
  <2>1. /\ phase = "arguments" /\ phase' = "options"
        /\ parsed_args' = given(arguments, cursor)
        /\ UNCHANGED <<spec, words, parsed_opts>>
    BY <1>2 DEF ParseArguments, input
  <2>2. cursor = 2 BY <2>1 DEF OriginInv
  <2>3. FromLine(arguments, given(arguments, 2), 2) BY <1>1, <2>2, GivenFromLine
  <2>4. FromLine(arguments, parsed_args, 2)'
    BY <2>1, <2>2, <2>3 DEF FromLine, Stops, arguments
  <2>5. QED BY <2>1, <2>4, SameLine DEF OriginInv
<1>3. CASE NameTooShort
  <2>1. cursor \in 2..Len(words) /\ words[cursor].short /\ Len(commands) + Len(options) > 0
    BY <1>1, <1>3 DEF NameTooShort, CutShort, Name
  <2>2. Excused BY <2>1 DEF Excused
  <2>3. QED BY <1>3, <2>2, OriginEnds DEF NameTooShort, Terminal
<1>4. CASE RunCommand
  <2> DEFINE c == call(commands)
  <2>1. AtName /\ is_named(commands, Name) BY <1>4 DEF RunCommand
  <2>2. /\ c \in Call /\ FromLine(c.option.params, c.args, c.at + 1)
        /\ \E i \in 1..Len(commands) : c.option = commands[i]
    BY <1>1, <2>1, CommandList, CallFromLine
  <2>3. CASE CallMisses(c) BY <1>4, <2>3, OriginEnds DEF RunCommand, Terminal
  <2>4. CASE ~CallMisses(c)
    <3> HIDE DEF c
    <3>1. Run(c) /\ UNCHANGED <<spec, words, parsed_args, parsed_opts>>
      BY <1>4, <2>4 DEF RunCommand, input, c
    <3>2. phase = "options" BY <2>1 DEF AtName
    <3>3. phase' \in {"exited", "thrown", "undefined", "options"} BY <2>4, <3>1, <3>2, RunsOne
    <3>4. phase' # "thrown" /\ (phase' = "undefined" => Excused)
      <4>1. PICK i \in 1..Len(commands) : c.option = commands[i] BY <2>2
      <4>2. IsList(c.option.params) BY <1>1, <4>1, CommandList
      <4>3. c.args \in Seq(Value) BY <2>2 DEF Call
      <4>4. /\ phase' # "thrown"
            /\ phase' = "undefined" =>
                 \/ \E p \in 2..Len(words) : words[p].start = "minus_digit"
                 \/ ~WellBehaved(c.option.params)
        BY <1>1, <2>2, <2>4, <3>1, <3>2, <4>2, <4>3, RunUndefined
      <4>5. QED BY <4>1, <4>4 DEF Excused
    <3>5. QED BY <3>1, <3>2, <3>3, <3>4, SameLine DEF OriginInv
  <2>5. QED BY <2>3, <2>4
<1>5. CASE KeepOption
  <2> DEFINE c == call(options)
  <2>1. AtName /\ is_named(options, Name) BY <1>5 DEF KeepOption
  <2>2. /\ FromLine(c.option.params, c.args, c.at + 1)
        /\ \E i \in 1..Len(options) : c.option = options[i]
    BY <1>1, <2>1, OptionList, CallFromLine
  <2>3. CASE CallMisses(c) BY <1>5, <2>3, OriginEnds DEF KeepOption, Terminal
  <2>4. CASE ~CallMisses(c)
    <3> HIDE DEF c
    <3>1. /\ parsed_opts' = Append(parsed_opts, c)
          /\ UNCHANGED <<spec, words, phase, parsed_args>>
      BY <1>5, <2>4 DEF KeepOption, input, c
    <3>2. phase = "options" BY <2>1 DEF AtName
    <3>3. parsed_opts \in Seq(Call) /\ Len(parsed_opts) \in Nat
      BY <1>1, LenProperties DEF StateType
    <3>4. /\ Len(parsed_opts') = Len(parsed_opts) + 1
          /\ parsed_opts'[Len(parsed_opts) + 1] = c
          /\ \A k \in 1..Len(parsed_opts) : parsed_opts'[k] = parsed_opts[k]
      BY <3>1, <3>3
    <3>5. ASSUME NEW k \in 1..Len(parsed_opts')
          PROVE  /\ \E i \in 1..Len(options) : parsed_opts'[k].option = options[i]
                 /\ FromLine(parsed_opts'[k].option.params, parsed_opts'[k].args,
                             parsed_opts'[k].at + 1)
      <4>1. k \in 1..Len(parsed_opts) \/ k = Len(parsed_opts) + 1 BY <3>3, <3>4
      <4>2. QED BY <2>2, <3>4, <4>1 DEF OriginInv, KeptFromLine
    <3>6. KeptFromLine' BY <3>1, <3>5 DEF KeptFromLine, FromLine, Stops, options
    <3>7. QED BY <3>1, <3>2, <3>6, SameLine DEF OriginInv
  <2>5. QED BY <2>3, <2>4
<1>6. CASE UnknownOption BY <1>6, OriginEnds DEF UnknownOption, Terminal
<1>7. CASE Construct
  <2>1. phase = "options" /\ FromLine(arguments, parsed_args, 2)
    BY <1>7 DEF Construct, OriginInv
  <2>2. (made = "unreachable" => Excused) /\ (made = "throw" => Unfillable)
    BY <1>1, <2>1, WhyNotMade
  <2>3. CASE Ends("exited") BY <2>3, OriginEnds DEF Terminal
  <2>4. CASE made = "unreachable" /\ Ends("undefined")
    BY <2>2, <2>4, OriginEnds DEF Terminal
  <2>5. CASE made = "throw" /\ Ends("thrown") BY <2>2, <2>5, OriginEnds DEF Terminal
  <2>6. CASE phase' = "run" /\ UNCHANGED <<spec, words, parsed_args, parsed_opts>>
    BY <2>1, <2>6, SameLine DEF OriginInv
  <2>7. QED BY <1>7, <2>3, <2>4, <2>5, <2>6, Constructs
<1>8. CASE RunOption
  <2> DEFINE c == parsed_opts[next_opt]
  <2>1. /\ phase = "run" /\ next_opt <= Len(parsed_opts) /\ Run(c)
        /\ UNCHANGED <<spec, words, parsed_args, parsed_opts>>
    BY <1>8 DEF RunOption, input
  <2>2. next_opt \in 1..Len(parsed_opts) BY <1>1, <2>1, CallsType DEF StateType
  <2>3. ~CallMisses(c) BY <2>2 DEF IInv, KeptInv
  <2>4. c.args \in Seq(Value)
    <3>1. parsed_opts \in Seq(Call) BY <1>1 DEF StateType
    <3>2. c \in Call BY <2>2, <3>1, ElementOfSeq
    <3>3. QED BY <3>2 DEF Call
  <2>5. /\ \E i \in 1..Len(options) : c.option = options[i]
        /\ FromLine(c.option.params, c.args, c.at + 1)
    BY <2>2 DEF OriginInv, KeptFromLine
  <2> HIDE DEF c
  <2>6. phase' \in {"exited", "thrown", "undefined", "run"} BY <2>1, <2>3, RunsOne
  <2>7. phase' # "thrown" /\ (phase' = "undefined" => Excused)
    <3>1. PICK i \in 1..Len(options) : c.option = options[i] BY <2>5
    <3>2. IsList(c.option.params) BY <1>1, <3>1, OptionList
    <3>3. /\ phase' # "thrown"
          /\ phase' = "undefined" =>
               \/ \E p \in 2..Len(words) : words[p].start = "minus_digit"
               \/ ~WellBehaved(c.option.params)
      BY <1>1, <2>1, <2>3, <2>4, <2>5, <3>2, RunUndefined
    <3>4. QED BY <3>1, <3>3 DEF Excused
  <2>8. QED BY <2>1, <2>6, <2>7, SameLine DEF OriginInv
<1>9. CASE Return BY <1>9, OriginEnds DEF Return, Terminal
<1>10. CASE UNCHANGED vars
  <2>1. UNCHANGED <<spec, words, phase, cursor, parsed_args, parsed_opts>>
    BY <1>10 DEF vars, input
  <2>2. QED BY <2>1, SameLine DEF OriginInv
<1>11. QED BY <1>2, <1>3, <1>4, <1>5, <1>6, <1>7, <1>8, <1>9, <1>10 DEF Next

(* The parser meets undefined behaviour only where a word looks like a        *)
(* negative number or is cut to a name it is too short for, or where the      *)
(* switch behind a call has too few cases for the number of its optional      *)
(* parameters; the exception of a missing value ends the program only if a    *)
(* base has a required field or a required field has a Descend annotation:    *)
(* no call of an option and no argument of the object is behind it.           *)
THEOREM StopsOnlyForAReason == Spec => []DefinedBehaviour
<1>1. Init => OriginInv
  <2> SUFFICES ASSUME Init PROVE OriginInv OBVIOUS
  <2>1. parsed_opts = <<>> /\ Len(parsed_opts) = 0 BY EmptySeq DEF Init
  <2>2. QED BY <2>1 DEF Init, OriginInv, KeptFromLine
<1>2. IInv /\ OriginInv /\ [Next]_vars => OriginInv' BY OriginNext
<1>3. OriginInv => DefinedBehaviour BY DEF OriginInv, Excused, Unfillable, DefinedBehaviour
<1>4. QED BY <1>1, <1>2, <1>3, Invariant, PTL DEF Spec

-----------------------------------------------------------------------------
(* The parser accepts its grammar.  Whatever positions of names give a line  *)
(* a meaning, the parser finds its names there.                              *)

NoNumber == \A p \in 2..Len(words) : words[p].start # "minus_digit"

(* A call is what the line says where its name stands. *)
Understood(c) ==
  /\ c.at \in 2..Len(words)
  /\ Meaning(words[c.at]) = {c.option}
  /\ FromLine(c.option.params, c.args, c.at + 1)

Followed == \A names \in SUBSET (2..Len(words)) :
  Parses(names) => cursor \in Marks(names) /\ \A c \in Calls : c.at \in names

GrammarInv ==
  /\ \A c \in Calls : Understood(c)
  /\ NoNumber /\ phase \in {"options", "run"} => Followed
  /\ NoNumber /\ phase = "returned" => Grammatical
  /\ NoNumber /\ phase = "exited" => ~Grammatical \/ \E c \in Ran : c.option.exits

LEMMA OneCalled ==
  ASSUME NEW opts, IsList(opts), NEW w
  PROVE  /\ is_named(opts, w) => Called(opts, w) = {opts[named(opts, w)]}
         /\ ~is_named(opts, w) => Called(opts, w) = {}
<1>1. ASSUME is_named(opts, w) PROVE Called(opts, w) = {opts[named(opts, w)]}
  <2> DEFINE n == named(opts, w)
  <2>1. /\ n \in 1..Len(opts) /\ opts[n].name = w.rest
        /\ \A j \in 1..n - 1 : opts[j].name # w.rest
    BY <1>1, Named
  <2> HIDE DEF n
  <2>2. ASSUME NEW i \in 1..Len(opts), opts[i].name = w.rest,
               \A j \in 1..i - 1 : opts[j].name # w.rest
        PROVE  i = n
    <3>1. Len(opts) \in Nat BY DEF IsList
    <3>2. ~(i < n) /\ ~(n < i) BY <2>1, <2>2, <3>1
    <3>3. QED BY <2>1, <3>1, <3>2
  <2>3. Called(opts, w) = {opts[n]} BY <2>1, <2>2 DEF Called
  <2>4. QED BY <2>3 DEF n
<1>2. ASSUME ~is_named(opts, w) PROVE Called(opts, w) = {}
  BY <1>2 DEF Called, is_named
<1>3. QED BY <1>1, <1>2

LEMMA MarkType ==
  ASSUME StateType, NEW names \in SUBSET (2..Len(words)), NEW p \in 1..Len(words)
  PROVE  /\ After(Marks(names), p) \in Marks(names)
         /\ After(Marks(names), p) \in p + 1..Len(words) + 1
         /\ \A q \in Marks(names) : q > p => After(Marks(names), p) <= q
<1>1. Len(words) \in Nat /\ Len(words) > 0 BY WordList
<1> DEFINE later == {q \in Marks(names) : q > p}
<1>2. \A q \in Marks(names) : q \in 2..Len(words) + 1
  <2>1. \A q \in names : q \in 2..Len(words) OBVIOUS
  <2>2. QED BY <1>1, <2>1 DEF Marks
<1>3. PICK m \in later : \A q \in later : m <= q
  <2>1. later \in SUBSET Nat BY <1>1, <1>2
  <2>2. Len(words) + 1 \in later BY <1>1 DEF Marks
  <2> HIDE DEF later
  <2>3. QED BY <2>1, <2>2, LeastOf
<1>4. /\ After(Marks(names), p) \in Marks(names) /\ After(Marks(names), p) > p
      /\ \A q \in Marks(names) : q > p => After(Marks(names), p) <= q
  BY <1>3 DEF After
<1>5. QED BY <1>1, <1>2, <1>4

LEMMA AfterIs ==
  ASSUME StateType, NEW names \in SUBSET (2..Len(words)), NEW p \in 1..Len(words),
         NEW q \in Marks(names), q > p, \A r \in Marks(names) : r > p => q <= r
  PROVE  After(Marks(names), p) = q
<1>1. Len(words) \in Nat /\ Len(words) > 0 BY WordList
<1>2. \A r \in Marks(names) : r \in 2..Len(words) + 1
  <2>1. \A r \in names : r \in 2..Len(words) OBVIOUS
  <2>2. QED BY <1>1, <2>1 DEF Marks
<1>3. After(Marks(names), p) <= q /\ q <= After(Marks(names), p) BY <1>1, MarkType
<1>4. After(Marks(names), p) \in Nat /\ q \in Nat BY <1>1, <1>2, MarkType
<1>5. QED BY <1>3, <1>4

(* Where a run of arguments may end is where the parser ends it. *)
LEMMA OneEnd ==
  ASSUME StateType, NoNumber, NEW params, IsList(params), NEW from \in 2..Len(words) + 1,
         NEW args \in Seq(Value), FromLine(params, args, from),
         NEW next \in from..Len(words) + 1, Fits(params, from, next)
  PROVE  next = from + Len(args) /\ Complete(params, args)
<1> DEFINE n == Len(args)
           m == next - from
           taken == SubSeq(words, from, next - 1)
<1>1. /\ Len(words) \in Nat /\ n \in Nat /\ Len(params) \in Nat /\ from \in Nat
      /\ m \in Nat /\ next = from + m /\ from >= 2
  BY WordList, LenProperties DEF IsList
<1>2. /\ n <= Len(params) /\ Stops(params, from, from + n)
      /\ \A i \in 1..n : /\ from + i - 1 \in 2..Len(words)
                         /\ words[from + i - 1].start # "minus"
                         /\ args[i] = stored(words[from + i - 1])
  BY DEF FromLine, takes
<1>3. /\ Len(taken) = m
      /\ \A i \in 1..m : taken[i] = words[from + i - 1] /\ from + i - 1 \in 2..Len(words)
  <2>1. \A i \in from..next - 1 : words[i] \in AllWords
    <3>1. \A i \in from..next - 1 : i \in 1..Len(words) BY <1>1
    <3>2. QED BY <3>1, WordList
  <2>2. from \in Int /\ next - 1 \in Int BY <1>1
  <2>3. /\ Len(taken) = IF from <= next - 1 THEN next - 1 - from + 1 ELSE 0
        /\ \A i \in 1..next - 1 - from + 1 : taken[i] = words[from + i - 1]
    BY <2>1, <2>2, SubSeqProperties
  <2> HIDE DEF taken
  <2>4. \A i \in 1..m : from + i - 1 \in 2..Len(words) BY <1>1
  <2>5. next - 1 - from + 1 = m /\ (from <= next - 1 <=> 1 <= m) BY <1>1
  <2>6. QED BY <1>1, <2>3, <2>4, <2>5
<1>4. /\ m <= Len(params) /\ Stops(params, from, from + m)
      /\ \A i \in 1..m : words[from + i - 1].start # "minus"
      /\ Complete(params, taken)
  BY <1>1, <1>3 DEF Fits
<1> HIDE DEF n, m, taken
<1>5. from + n - from = n /\ from + m - from = m BY <1>1
<1>6. ~(n < m)
  <2>1. SUFFICES ASSUME n < m PROVE FALSE OBVIOUS
  <2>2. n + 1 \in 1..m /\ from + (n + 1) - 1 = from + n BY <1>1, <2>1
  <2>3. from + n \in 2..Len(words) /\ words[from + n].start # "minus"
    BY <1>3, <1>4, <2>2
  <2>4. n # Len(params) /\ ~(from + n > Len(words)) BY <1>1, <1>4, <2>1, <2>3
  <2>5. ~Stops(params, from, from + n) BY <1>1, <1>5, <2>3, <2>4 DEF Stops
  <2>6. QED BY <1>2, <2>5
<1>7. ~(m < n)
  <2>1. SUFFICES ASSUME m < n PROVE FALSE OBVIOUS
  <2>2. m + 1 \in 1..n /\ from + (m + 1) - 1 = from + m BY <1>1, <2>1
  <2>3. from + m \in 2..Len(words) /\ words[from + m].start # "minus"
    BY <1>2, <2>2
  <2>4. m # Len(params) /\ ~(from + m > Len(words)) BY <1>1, <1>2, <2>1, <2>3
  <2>5. ~Stops(params, from, from + m) BY <1>1, <1>5, <2>3, <2>4 DEF Stops
  <2>6. QED BY <1>4, <2>5
<1>8. m = n BY <1>1, <1>6, <1>7
<1>9. \A i \in 1..n : args[i] = taken[i]
  BY <1>2, <1>3, <1>8 DEF NoNumber, stored
<1>10. Complete(params, args) BY <1>3, <1>4, <1>8, <1>9 DEF Complete, n
<1>11. QED BY <1>1, <1>8, <1>10 DEF n

(* Complete arguments from the line fit it. *)
LEMMA FitsLine ==
  ASSUME StateType, NoNumber, NEW params, IsList(params), NEW from \in 2..Len(words) + 1,
         NEW args \in Seq(Value), FromLine(params, args, from),
         from + Len(args) <= Len(words) + 1, Complete(params, args)
  PROVE  Fits(params, from, from + Len(args))
<1> DEFINE n == Len(args)
           next == from + n
           taken == SubSeq(words, from, next - 1)
<1>1. /\ Len(words) \in Nat /\ n \in Nat /\ Len(params) \in Nat /\ from \in Nat
      /\ from >= 2 /\ next \in Nat /\ next - from = n /\ next <= Len(words) + 1
  BY WordList, LenProperties DEF IsList
<1>2. /\ n <= Len(params) /\ Stops(params, from, next)
      /\ \A i \in 1..n : /\ from + i - 1 \in 2..Len(words)
                         /\ words[from + i - 1].start # "minus"
                         /\ args[i] = stored(words[from + i - 1])
  BY DEF FromLine, takes
<1>3. Len(taken) = n /\ \A i \in 1..n : taken[i] = words[from + i - 1]
  <2> HIDE DEF n
  <2>1. \A i \in from..next - 1 : words[i] \in AllWords
    <3>1. \A i \in from..next - 1 : i \in 1..Len(words) BY <1>1
    <3>2. QED BY <3>1, WordList
  <2>2. from \in Int /\ next - 1 \in Int BY <1>1
  <2>3. /\ Len(taken) = IF from <= next - 1 THEN next - 1 - from + 1 ELSE 0
        /\ \A i \in 1..next - 1 - from + 1 : taken[i] = words[from + i - 1]
    BY <2>1, <2>2, SubSeqProperties
  <2> HIDE DEF taken
  <2>4. next - 1 - from + 1 = n /\ (from <= next - 1 <=> 1 <= n) BY <1>1
  <2>5. QED BY <1>1, <2>3, <2>4
<1>4. \A i \in 1..n : taken[i] = args[i] /\ taken[i].start # "minus"
  BY <1>2, <1>3 DEF NoNumber, stored
<1>5. Complete(params, taken) BY <1>3, <1>4 DEF Complete
<1>6. QED BY <1>1, <1>2, <1>3, <1>4, <1>5 DEF Fits

LEMMA MeaningType ==
  ASSUME StateType, NEW w, NEW o \in Meaning(w)
  PROVE  IsList(o.params)
<1>1. (\E i \in 1..Len(commands) : o = commands[i]) \/ \E i \in 1..Len(options) : o = options[i]
  BY DEF Meaning, Called
<1>2. QED BY <1>1, CommandList, OptionList

LEMMA CallsAreCalls ==
  ASSUME StateType, NEW c \in Calls
  PROVE  c \in Call /\ c.args \in Seq(Value) /\ c.at \in Nat /\ Len(c.args) \in Nat
<1>1. Len(ran) \in Nat /\ Len(parsed_opts) \in Nat /\ ran \in Seq(Call) /\ parsed_opts \in Seq(Call)
  BY LenProperties DEF StateType
<1>2. c \in Call BY <1>1, ElementOfSeq DEF Calls, Ran, Kept
<1>3. QED BY <1>2, LenProperties DEF Call

(* The words that follow a name, where the names are read as they must be. *)
LEMMA Parsed ==
  ASSUME StateType, NoNumber, NEW names \in SUBSET (2..Len(words)), Parses(names),
         NEW c, Understood(c), c.args \in Seq(Value), c.at \in names
  PROVE  /\ c.at + 1 + Len(c.args) \in Marks(names)
         /\ Complete(c.option.params, c.args)
<1> DEFINE next == After(Marks(names), c.at)
<1>1. c.at \in 2..Len(words) /\ Len(words) \in Nat BY WordList DEF Understood
<1>2. /\ next \in Marks(names) /\ next \in c.at + 1..Len(words) + 1
  <2>1. c.at \in 1..Len(words) BY <1>1
  <2>2. QED BY <2>1, MarkType
<1>3. PICK o \in Meaning(words[c.at]) : Fits(o.params, c.at + 1, next)
  BY DEF Parses
<1>4. o = c.option BY <1>3 DEF Understood
<1>5. IsList(c.option.params) BY <1>3, <1>4, MeaningType
<1>6. FromLine(c.option.params, c.args, c.at + 1) BY DEF Understood
<1>7. c.at + 1 \in 2..Len(words) + 1 BY <1>1
<1> HIDE DEF next
<1>8. next = c.at + 1 + Len(c.args) /\ Complete(c.option.params, c.args)
  BY <1>2, <1>3, <1>4, <1>5, <1>6, <1>7, OneEnd
<1>9. QED BY <1>2, <1>8

LEMMA ParsedFields ==
  ASSUME StateType, NoNumber, NEW names \in SUBSET (2..Len(words)), Parses(names),
         NEW args \in Seq(Value), FromLine(arguments, args, 2)
  PROVE  2 + Len(args) \in Marks(names) /\ Complete(arguments, args)
<1> DEFINE next == After(Marks(names), 1)
<1>1. Len(words) \in Nat /\ Len(words) > 0 /\ IsList(arguments)
  BY SpecsAssumption, WordList DEF StateType, arguments
<1>2. next \in Marks(names) /\ next \in 2..Len(words) + 1
  <2>1. 1 \in 1..Len(words) /\ 1 + 1 = 2 BY <1>1
  <2>2. QED BY <2>1, MarkType
<1>3. Fits(arguments, 2, next) BY DEF Parses
<1>4. 2 \in 2..Len(words) + 1 BY <1>1
<1> HIDE DEF next
<1>5. next = 2 + Len(args) /\ Complete(arguments, args)
  BY <1>1, <1>2, <1>3, <1>4, OneEnd
<1>6. QED BY <1>2, <1>5

LEMMA NotComplete ==
  ASSUME NEW params, NEW args,
         misses(params, Len(args)) \/ evaluate(params, args) = "rejected"
  PROVE  ~Complete(params, args)
BY Evaluated DEF misses, Complete

LEMMA RunExits ==
  ASSUME NEW c, Run(c), phase # "exited", phase' = "exited"
  PROVE  \/ evaluate(c.option.params, c.args) = "rejected"
         \/ ran' = Append(ran, c) /\ c.option.exits
BY RunIs, Handled

LEMMA CallUnderstood ==
  ASSUME StateType, AtName, NEW opts, IsList(opts), is_named(opts, Name),
         \A i \in 1..Len(opts) : opts[i] \in AllOptions /\ IsList(opts[i].params),
         Meaning(Name) = Called(opts, Name)
  PROVE  Understood(call(opts))
<1>1. call(opts).at = cursor /\ FromLine(call(opts).option.params, call(opts).args, cursor + 1)
  BY CallType, CallFromLine
<1>2. call(opts).option = opts[named(opts, Name)] BY DEF call
<1>3. Meaning(words[cursor]) = {call(opts).option} BY <1>2, OneCalled DEF Name
<1>4. cursor \in 2..Len(words) BY WordList DEF StateType, AtName
<1>5. QED BY <1>1, <1>3, <1>4 DEF Understood

LEMMA SameGrammar ==
  ASSUME UNCHANGED <<spec, words>>
  PROVE  /\ NoNumber' <=> NoNumber
         /\ \A c : Understood(c) => Understood(c)'
         /\ \A names : Marks(names)' = Marks(names) /\ (Parses(names)' <=> Parses(names))
         /\ Grammatical' <=> Grammatical
<1>1. NoNumber' <=> NoNumber BY DEF NoNumber
<1>2. arguments' = arguments /\ commands' = commands /\ options' = options
  BY DEF arguments, commands, options
<1>3. \A w : Meaning(w)' = Meaning(w) BY <1>2 DEF Meaning
<1>4. \A params, args, from : FromLine(params, args, from) => FromLine(params, args, from)'
  BY DEF FromLine, Stops
<1>5. ASSUME NEW c, Understood(c) PROVE Understood(c)'
  BY <1>3, <1>4, <1>5 DEF Understood
<1>6. \A names : Marks(names)' = Marks(names) BY DEF Marks
<1>7. \A params, from, next : Fits(params, from, next)' <=> Fits(params, from, next)
  BY DEF Fits, Stops
<1>8. \A names : Parses(names)' <=> Parses(names)
  BY <1>2, <1>3, <1>6, <1>7 DEF Parses
<1>9. QED BY <1>1, <1>5, <1>6, <1>8 DEF Grammatical

LEMMA GrammarEnds ==
  ASSUME GrammarInv, NEW how \in Terminal, Ends(how),
         NoNumber /\ how = "returned" => Grammatical,
         NoNumber /\ how = "exited" => ~Grammatical
  PROVE  GrammarInv'
<1>1. phase' = how /\ UNCHANGED <<spec, words, ran, parsed_opts>>
  BY DEF Ends, input
<1>2. Calls' = Calls BY <1>1 DEF Calls, Ran, Kept
<1>3. how \notin {"options", "run"} BY DEF Terminal
<1>4. QED BY <1>1, <1>2, <1>3, SameGrammar DEF GrammarInv

(* The call at the cursor, made or kept, is the one every reading finds there. *)
LEMMA CallFollowed ==
  ASSUME StateType, NoNumber, Followed, cursor \in 2..Len(words),
         NEW c, Understood(c), c.args \in Seq(Value), c.at = cursor,
         NEW names \in SUBSET (2..Len(words)), Parses(names)
  PROVE  /\ cursor \in names
         /\ cursor + 1 + Len(c.args) \in Marks(names)
         /\ Complete(c.option.params, c.args)
<1>1. Len(words) \in Nat /\ cursor # Len(words) + 1 BY WordList
<1>2. cursor \in names BY <1>1 DEF Followed, Marks
<1>3. QED BY <1>2, Parsed

(* A call at the cursor that ends the program has no place in the grammar. *)
LEMMA CallRefused ==
  ASSUME StateType, NoNumber, Followed, cursor \in 2..Len(words),
         NEW c, Understood(c), c.args \in Seq(Value), c.at = cursor,
         misses(c.option.params, Len(c.args)) \/ evaluate(c.option.params, c.args) = "rejected"
  PROVE  ~Grammatical
BY CallFollowed, NotComplete DEF Grammatical

(* When the parser returns, the names it found give the line its meaning. *)
LEMMA ReturnParses ==
  ASSUME IInv, ReadInv, OriginInv, GrammarInv, Return, NoNumber
  PROVE  Grammatical
<1> DEFINE names == {c.at : c \in Calls}
           m == Len(parsed_args)
<1>1. /\ StateType /\ Len(words) \in Nat /\ Len(words) > 0
      /\ m \in Nat /\ parsed_args \in Seq(Value) /\ IsList(arguments)
  BY SpecsAssumption, WordList, CallsType DEF IInv, StateType, arguments
<1>2. phase = "run" /\ next_opt > Len(parsed_opts) BY DEF Return
<1>3. cursor = Len(words) + 1 BY <1>1, <1>2 DEF IInv, HistoryInv, StateType
<1>4. SideBySide /\ FromLine(arguments, parsed_args, 2) BY <1>2 DEF ReadInv, OriginInv
<1>5. \A c \in Calls : /\ Understood(c) /\ c.args \in Seq(Value)
                       /\ c.at \in Nat /\ Len(c.args) \in Nat
  BY <1>1, CallsAreCalls DEF GrammarInv
<1>6. \A c \in Calls : Complete(c.option.params, c.args)
  <2>1. \A k \in 1..Len(ran) : Complete(ran[k].option.params, ran[k].args)
    BY DEF IInv, CompleteInv
  <2>2. Len(parsed_opts) \in Nat /\ Len(ran) \in Nat BY <1>1, CallsType
  <2>3. next_opt - 1 = Len(parsed_opts) BY <1>1, <1>2, <2>2 DEF StateType
  <2>4. /\ Len(ran) - Len(parsed_opts) >= 0
        /\ \A k \in 1..Len(parsed_opts) : ran[Len(ran) - Len(parsed_opts) + k] = parsed_opts[k]
    BY <1>2, <2>3 DEF IInv, HistoryInv, History
  <2>5. ASSUME NEW k \in 1..Len(parsed_opts)
        PROVE  Complete(parsed_opts[k].option.params, parsed_opts[k].args)
    <3>1. Len(ran) - Len(parsed_opts) + k \in 1..Len(ran) BY <2>2, <2>4
    <3>2. QED BY <2>1, <2>4, <3>1
  <2>6. QED BY <2>1, <2>5 DEF Calls, Ran, Kept
<1>7. names \in SUBSET (2..Len(words)) BY <1>5 DEF Understood
<1>8. /\ Complete(arguments, parsed_args) /\ cursor >= 2 + m
      /\ \A c \in Calls : c.at > 1 + m /\ c.at + Len(c.args) < cursor
  <2>1. object # <<>> BY <1>2 DEF IInv, HistoryInv
  <2>2. object = <<parsed_args>> BY <1>1, <2>1 DEF StateType
  <2>3. object[1] = parsed_args BY <2>2
  <2>4. QED BY <1>4, <2>1, <2>3 DEF IInv, CompleteInv, SideBySide, ReadsWords
<1> HIDE DEF m
<1>9. ASSUME NEW q \in 2 + m..cursor - 1, \A d \in Calls : q \in Reads(d) => q - 1 \notin Reads(d)
      PROVE  q \in names
  <2>1. PICK d \in Calls : q \in Reads(d) BY <1>4, <1>9 DEF SideBySide, m
  <2>2. q - 1 \notin Reads(d) BY <1>9, <2>1
  <2>3. q = d.at
    <3>1. d.at \in Nat /\ Len(d.args) \in Nat /\ q \in Nat BY <1>1, <1>5, <1>9
    <3>2. q \in d.at..d.at + Len(d.args) /\ q - 1 \notin d.at..d.at + Len(d.args)
      BY <2>1, <2>2 DEF Reads
    <3>3. QED BY <3>1, <3>2
  <2>4. QED BY <2>3
<1>10. Fits(arguments, 2, After(Marks(names), 1))
  <2> DEFINE q == 2 + m
  <2>1. q \in Nat /\ q > 1 /\ q <= Len(words) + 1 /\ 1 \in 1..Len(words)
    BY <1>1, <1>3, <1>8
  <2>2. q \in Marks(names)
    <3>1. CASE q = cursor BY <1>3, <3>1 DEF Marks
    <3>2. CASE q # cursor
      <4>1. q \in 2 + m..cursor - 1 BY <1>1, <1>3, <1>8, <3>2
      <4>2. \A d \in Calls : q - 1 \notin Reads(d)
        <5>1. SUFFICES ASSUME NEW d \in Calls PROVE q - 1 \notin Reads(d) OBVIOUS
        <5>2. d.at \in Nat /\ Len(d.args) \in Nat /\ d.at > 1 + m BY <1>5, <1>8
        <5>3. QED BY <1>1, <5>2 DEF Reads
      <4>3. QED BY <1>9, <4>1, <4>2 DEF Marks
    <3>3. QED BY <3>1, <3>2
  <2>3. ASSUME NEW r \in Marks(names) PROVE q <= r
    <3>1. CASE r \in names
      <4>1. PICK d \in Calls : r = d.at BY <3>1
      <4>2. d.at \in Nat /\ d.at > 1 + m BY <1>5, <1>8, <4>1
      <4>3. QED BY <1>1, <4>1, <4>2
    <3>2. CASE r = Len(words) + 1 BY <2>1, <3>2
    <3>3. QED BY <3>1, <3>2 DEF Marks
  <2> HIDE DEF names
  <2>4. After(Marks(names), 1) = q BY <1>1, <1>7, <2>1, <2>2, <2>3, AfterIs
  <2>5. 2 \in 2..Len(words) + 1 BY <1>1
  <2>6. QED BY <1>1, <1>4, <1>8, <2>1, <2>4, <2>5, FitsLine DEF m
<1>11. ASSUME NEW c \in Calls
       PROVE  Fits(c.option.params, c.at + 1, After(Marks(names), c.at))
  <2> DEFINE n == Len(c.args)
             q == c.at + 1 + n
  <2>1. /\ n \in Nat /\ c.at \in 1..Len(words) /\ c.at \in Nat /\ c.at > 1 + m
        /\ c.at + n < cursor
    BY <1>1, <1>5, <1>8, <1>11 DEF Understood
  <2>2. Reads(c) = c.at..c.at + n BY DEF Reads
  <2> HIDE DEF n
  <2>3. q \in Nat /\ q > c.at /\ q <= Len(words) + 1 /\ q <= cursor /\ q >= 2 + m
    BY <1>1, <1>3, <2>1
  <2>4. q - 1 \in Reads(c) /\ q \notin Reads(c) BY <2>1, <2>2
  <2>5. q \in Marks(names)
    <3>1. CASE q = cursor BY <1>3, <3>1 DEF Marks
    <3>2. CASE q # cursor
      <4>1. q \in 2 + m..cursor - 1 BY <1>1, <1>3, <2>3, <3>2
      <4>2. \A d \in Calls : q \in Reads(d) => q - 1 \notin Reads(d)
        BY <1>4, <2>4 DEF SideBySide
      <4>3. QED BY <1>9, <4>1, <4>2 DEF Marks
    <3>3. QED BY <3>1, <3>2
  <2>6. ASSUME NEW r \in Marks(names), r > c.at PROVE q <= r
    <3>1. CASE r \in names
      <4>1. PICK d \in Calls : r = d.at BY <3>1
      <4>2. r \in Nat /\ r \in Reads(d) BY <1>5, <4>1 DEF Reads
      <4>3. r \notin Reads(c)
        <5>1. SUFFICES ASSUME r \in Reads(c) PROVE FALSE OBVIOUS
        <5>2. c = d BY <1>4, <4>2, <5>1 DEF SideBySide
        <5>3. QED BY <2>1, <2>6, <4>1, <5>2
      <4>4. QED BY <2>1, <2>2, <2>6, <4>2, <4>3
    <3>2. CASE r = Len(words) + 1 BY <2>3, <3>2
    <3>3. QED BY <3>1, <3>2 DEF Marks
  <2> HIDE DEF names
  <2>7. After(Marks(names), c.at) = q
    BY <1>1, <1>7, <2>1, <2>3, <2>5, <2>6, AfterIs
  <2>8. /\ IsList(c.option.params) /\ FromLine(c.option.params, c.args, c.at + 1)
        /\ Complete(c.option.params, c.args) /\ c.args \in Seq(Value)
    BY <1>1, <1>5, <1>6, MeaningType DEF Understood
  <2>9. c.at + 1 \in 2..Len(words) + 1 /\ c.at + 1 + Len(c.args) <= Len(words) + 1
    BY <1>1, <2>1, <2>3 DEF n
  <2>10. Fits(c.option.params, c.at + 1, c.at + 1 + Len(c.args))
    BY <1>1, <2>8, <2>9, FitsLine
  <2>11. QED BY <2>7, <2>10 DEF n
<1>12. Parses(names)
  <2>1. ASSUME NEW p \in names
        PROVE  \E o \in Meaning(words[p]) : Fits(o.params, p + 1, After(Marks(names), p))
    <3>1. PICK c \in Calls : p = c.at BY <2>1
    <3>2. c.option \in Meaning(words[p]) BY <1>5, <3>1 DEF Understood
    <3> HIDE DEF names
    <3>3. QED BY <1>11, <3>1, <3>2
  <2> HIDE DEF names
  <2>2. QED BY <1>10, <2>1 DEF Parses
<1> HIDE DEF names
<1>13. QED BY <1>7, <1>12 DEF Grammatical

(* A call is added at the cursor, and the cursor passes its arguments. *)
LEMMA FollowedNext ==
  ASSUME StateType, NoNumber, Followed, cursor \in 2..Len(words),
         NEW c, Understood(c), c.args \in Seq(Value), c.at = cursor,
         cursor' = cursor + 1 + Len(c.args), Calls' = Calls \cup {c},
         UNCHANGED <<spec, words>>
  PROVE  Followed'
<1>1. ASSUME NEW names \in SUBSET (2..Len(words)), Parses(names)
      PROVE  cursor' \in Marks(names) /\ \A d \in Calls' : d.at \in names
  <2>1. \A d \in Calls : d.at \in names BY <1>1 DEF Followed
  <2>2. cursor \in names /\ cursor + 1 + Len(c.args) \in Marks(names)
    BY <1>1, CallFollowed
  <2>3. QED BY <2>1, <2>2
<1>2. QED BY <1>1, SameGrammar DEF Followed

LEMMA GrammarNext ==
  ASSUME IInv, ReadInv, OriginInv, GrammarInv, [Next]_vars
  PROVE  GrammarInv'
<1>1. /\ StateType /\ IsList(arguments) /\ cursor \in 2..Len(words) + 1
      /\ Len(words) \in Nat /\ parsed_args \in Seq(Value)
  BY SpecsAssumption, WordList DEF IInv, StateType, arguments
<1>2. CASE ParseArguments
  <2>1. /\ phase = "arguments" /\ phase' = "options"
        /\ parsed_args' = given(arguments, cursor)
        /\ cursor' = cursor + Len(parsed_args')
        /\ UNCHANGED <<spec, words, ran, parsed_opts>>
    BY <1>2 DEF ParseArguments, input
  <2>2. Calls = {} /\ Calls' = {} /\ cursor = 2
    BY <2>1 DEF ReadInv, Calls, Ran, Kept
  <2>3. parsed_args' \in Seq(Value) /\ FromLine(arguments, parsed_args', 2)
    BY <1>1, <2>1, <2>2, Given, GivenFromLine
  <2>4. ASSUME NoNumber, NEW names \in SUBSET (2..Len(words)), Parses(names)
        PROVE  cursor' \in Marks(names)
    <3>1. 2 + Len(parsed_args') \in Marks(names)
      BY <1>1, <2>3, <2>4, ParsedFields
    <3>2. QED BY <2>1, <2>2, <3>1
  <2>5. NoNumber => Followed' BY <2>1, <2>2, <2>4, SameGrammar DEF Followed
  <2>6. QED BY <2>1, <2>2, <2>5, SameGrammar DEF GrammarInv
<1>3. CASE NameTooShort
  <2>1. Ends("undefined") BY <1>3 DEF NameTooShort
  <2>2. QED BY <2>1, GrammarEnds DEF Terminal
<1>4. CASE RunCommand
  <2> DEFINE c == call(commands)
  <2>1. AtName /\ is_named(commands, Name) BY <1>4 DEF RunCommand
  <2>2. c \in Call /\ c.at = cursor BY <1>1, <2>1, CommandList, CallType
  <2>3. Meaning(Name) = Called(commands, Name)
    BY <1>1, <2>1, CommandList, OneCalled DEF Meaning
  <2>4. Understood(c) BY <1>1, <2>1, <2>3, CommandList, CallUnderstood
  <2>5. c.args \in Seq(Value) BY <2>2 DEF Call
  <2>6. cursor \in 2..Len(words) /\ phase = "options" BY <1>1, <2>1 DEF AtName
  <2>7. NoNumber => Followed BY <2>6 DEF GrammarInv
  <2>8. CASE CallMisses(c)
    <3>1. Ends("exited") BY <1>4, <2>8 DEF RunCommand
    <3> HIDE DEF c
    <3>2. NoNumber => ~Grammatical
      BY <1>1, <2>2, <2>4, <2>5, <2>6, <2>7, <2>8, CallRefused DEF CallMisses
    <3>3. QED BY <3>1, <3>2, GrammarEnds DEF Terminal
  <2>9. CASE ~CallMisses(c)
    <3> HIDE DEF c
    <3>1. /\ Run(c) /\ cursor' = cursor + 1 + Len(c.args)
          /\ UNCHANGED <<spec, words, parsed_args, parsed_opts>>
      BY <1>4, <2>9 DEF RunCommand, input, c
    <3>2. phase' \in {"exited", "thrown", "undefined", "options"} /\ (ran' = Append(ran, c) \/ ran' = ran)
          /\ (phase' = "options" => ran' = Append(ran, c))
      BY <2>6, <2>9, <3>1, RunsOne DEF Terminal
    <3>3. ran' = Append(ran, c) => Ran' = Ran \cup {c} /\ Calls' = Calls \cup {c}
      BY <1>1, <3>1, MoreRan DEF Calls, Kept
    <3>4. Calls' \in {Calls, Calls \cup {c}}
      BY <3>1, <3>2, <3>3 DEF Calls, Ran, Kept
    <3>5. \A d \in Calls' : Understood(d)'
      BY <2>4, <3>1, <3>4, SameGrammar DEF GrammarInv
    <3>6. NoNumber /\ phase' = "options" => Followed'
      BY <1>1, <2>2, <2>4, <2>5, <2>6, <2>7, <3>1, <3>2, <3>3, FollowedNext
    <3>7. ASSUME NoNumber, phase' = "exited"
          PROVE  ~Grammatical \/ \E d \in Ran' : d.option.exits
      <4>1. CASE evaluate(c.option.params, c.args) = "rejected"
        BY <1>1, <2>2, <2>4, <2>5, <2>6, <2>7, <3>7, <4>1, CallRefused
      <4>2. CASE ran' = Append(ran, c) /\ c.option.exits BY <3>3, <4>2
      <4>3. QED BY <2>6, <3>1, <3>7, <4>1, <4>2, RunExits
    <3>8. QED BY <3>1, <3>2, <3>5, <3>6, <3>7, SameGrammar DEF GrammarInv
  <2>10. QED BY <2>8, <2>9
<1>5. CASE KeepOption
  <2> DEFINE c == call(options)
  <2>1. AtName /\ ~is_named(commands, Name) /\ is_named(options, Name)
    BY <1>5 DEF KeepOption
  <2>2. c \in Call /\ c.at = cursor BY <1>1, <2>1, OptionList, CallType
  <2>3. Meaning(Name) = Called(options, Name)
    BY <1>1, <2>1, CommandList, OneCalled DEF Meaning
  <2>4. Understood(c) BY <1>1, <2>1, <2>3, OptionList, CallUnderstood
  <2>5. c.args \in Seq(Value) BY <2>2 DEF Call
  <2>6. cursor \in 2..Len(words) /\ phase = "options" BY <1>1, <2>1 DEF AtName
  <2>7. NoNumber => Followed BY <2>6 DEF GrammarInv
  <2>8. CASE CallMisses(c)
    <3>1. Ends("exited") BY <1>5, <2>8 DEF KeepOption
    <3> HIDE DEF c
    <3>2. NoNumber => ~Grammatical
      BY <1>1, <2>2, <2>4, <2>5, <2>6, <2>7, <2>8, CallRefused DEF CallMisses
    <3>3. QED BY <3>1, <3>2, GrammarEnds DEF Terminal
  <2>9. CASE ~CallMisses(c)
    <3> HIDE DEF c
    <3>1. /\ parsed_opts' = Append(parsed_opts, c) /\ cursor' = cursor + 1 + Len(c.args)
          /\ UNCHANGED <<spec, words, phase, ran>>
      BY <1>5, <2>9 DEF KeepOption, input, c
    <3>2. Calls' = Calls \cup {c} BY <1>1, <3>1, MoreKept DEF Calls, Ran
    <3>3. \A d \in Calls' : Understood(d)'
      BY <2>4, <3>1, <3>2, SameGrammar DEF GrammarInv
    <3>4. NoNumber => Followed'
      BY <1>1, <2>2, <2>4, <2>5, <2>6, <2>7, <3>1, <3>2, FollowedNext
    <3>5. QED BY <2>6, <3>1, <3>3, <3>4, SameGrammar DEF GrammarInv
  <2>10. QED BY <2>8, <2>9
<1>6. CASE UnknownOption
  <2>1. /\ AtName /\ ~is_named(commands, Name) /\ ~is_named(options, Name)
        /\ Ends("exited")
    BY <1>6 DEF UnknownOption
  <2>2. Meaning(Name) = {} BY <1>1, <2>1, CommandList, OptionList, OneCalled DEF Meaning
  <2>3. cursor \in 2..Len(words) /\ phase = "options" BY <1>1, <2>1 DEF AtName
  <2>4. ASSUME NoNumber, Grammatical PROVE FALSE
    <3>1. PICK names \in SUBSET (2..Len(words)) : Parses(names)
      BY <2>4 DEF Grammatical
    <3>2. cursor \in Marks(names) BY <2>3, <2>4, <3>1 DEF GrammarInv, Followed
    <3>3. cursor \in names BY <1>1, <2>3, <3>2 DEF Marks
    <3>4. QED BY <2>2, <3>1, <3>3 DEF Parses, Name
  <2>5. QED BY <2>1, <2>4, GrammarEnds DEF Terminal
<1>7. CASE Construct
  <2>1. phase = "options" /\ FromLine(arguments, parsed_args, 2)
    BY <1>7 DEF Construct, OriginInv
  <2>2. CASE Ends("undefined") \/ Ends("thrown") BY <2>2, GrammarEnds DEF Terminal
  <2>3. CASE made \notin {"called", "unreachable", "throw"} /\ Ends("exited")
    <3>1. ~Complete(arguments, parsed_args) BY <2>3, Made, NotComplete
    <3>2. NoNumber => ~Grammatical
      BY <1>1, <2>1, <3>1, ParsedFields DEF Grammatical
    <3>3. QED BY <2>3, <3>2, GrammarEnds DEF Terminal
  <2>4. CASE phase' = "run" /\ UNCHANGED <<spec, words, cursor, ran, parsed_opts>>
    <3>1. Calls' = Calls BY <2>4 DEF Calls, Ran, Kept
    <3>2. Followed => Followed' BY <2>4, <3>1, SameGrammar DEF Followed
    <3>3. QED BY <2>1, <2>4, <3>1, <3>2, SameGrammar DEF GrammarInv
  <2>5. QED BY <1>7, <2>2, <2>3, <2>4, Constructs
<1>8. CASE RunOption
  <2> DEFINE c == parsed_opts[next_opt]
  <2>1. /\ phase = "run" /\ next_opt <= Len(parsed_opts) /\ Run(c)
        /\ UNCHANGED <<spec, words, cursor, parsed_args, parsed_opts>>
    BY <1>8 DEF RunOption, input
  <2>2. next_opt \in 1..Len(parsed_opts) BY <1>1, <2>1, CallsType DEF StateType
  <2>3. c \in Kept /\ c \in Calls /\ ~CallMisses(c)
    BY <2>2 DEF Calls, Kept, IInv, KeptInv
  <2> HIDE DEF c
  <2>4. phase' \in {"exited", "thrown", "undefined", "run"} /\ (ran' = Append(ran, c) \/ ran' = ran)
    BY <2>1, <2>3, RunsOne
  <2>5. /\ Ran' = Ran \cup {c} \/ Ran' = Ran
        /\ ran' = Append(ran, c) => Ran' = Ran \cup {c}
    BY <1>1, <2>4, MoreRan DEF Ran
  <2>6. Calls' = Calls BY <2>1, <2>3, <2>5 DEF Calls, Kept
  <2>7. Followed => Followed' BY <2>1, <2>6, SameGrammar DEF Followed
  <2>8. ASSUME NoNumber, phase' = "exited"
        PROVE  ~Grammatical \/ \E d \in Ran' : d.option.exits
    <3>1. CASE evaluate(c.option.params, c.args) = "rejected"
      <4>1. ~Complete(c.option.params, c.args) BY <3>1, NotComplete
      <4>2. Understood(c) /\ c.args \in Seq(Value)
        BY <1>1, <2>3, CallsAreCalls DEF GrammarInv
      <4>3. SUFFICES ASSUME NEW names \in SUBSET (2..Len(words)), Parses(names) PROVE FALSE
        BY DEF Grammatical
      <4>4. c.at \in names BY <2>1, <2>3, <2>8, <4>3 DEF GrammarInv, Followed
      <4>5. QED BY <1>1, <2>8, <4>1, <4>2, <4>3, <4>4, Parsed
    <3>2. CASE ran' = Append(ran, c) /\ c.option.exits BY <2>5, <3>2
    <3>3. QED BY <2>1, <2>8, <3>1, <3>2, RunExits
  <2>9. QED BY <2>1, <2>4, <2>6, <2>7, <2>8, SameGrammar DEF GrammarInv
<1>9. CASE Return
  <2>1. Ends("returned") BY <1>9 DEF Return
  <2>2. NoNumber => Grammatical BY <1>9, ReturnParses
  <2>3. QED BY <2>1, <2>2, GrammarEnds DEF Terminal
<1>10. CASE UNCHANGED vars
  <2>1. UNCHANGED <<spec, words, phase, cursor, ran, parsed_opts>>
    BY <1>10 DEF vars, input
  <2>2. Calls' = Calls /\ Ran' = Ran BY <2>1 DEF Calls, Ran, Kept
  <2>3. Followed => Followed' BY <2>1, <2>2, SameGrammar DEF Followed
  <2>4. QED BY <2>1, <2>2, <2>3, SameGrammar DEF GrammarInv
<1>11. QED BY <1>2, <1>3, <1>4, <1>5, <1>6, <1>7, <1>8, <1>9, <1>10 DEF Next

(* parse_args returns for exactly the command lines that can be divided into *)
(* positional arguments and names with their arguments, every call complete  *)
(* and every value accepted, unless a command ends the program or a word     *)
(* looks like a negative number: nothing is lost by never going back, by     *)
(* keeping options for later, or by checking values only when they are used. *)
THEOREM GrammarAccepted == Spec => []AcceptsTheGrammar
<1>1. Init => ReadInv
  BY EmptySeq DEF Init, ReadInv, Calls, Ran, Kept
<1>2. Init => OriginInv
  <2> SUFFICES ASSUME Init PROVE OriginInv OBVIOUS
  <2>1. parsed_opts = <<>> /\ Len(parsed_opts) = 0 BY EmptySeq DEF Init
  <2>2. QED BY <2>1 DEF Init, OriginInv, KeptFromLine
<1>3. Init => GrammarInv
  BY EmptySeq DEF Init, GrammarInv, Calls, Ran, Kept
<1>4. IInv /\ ReadInv /\ [Next]_vars => ReadInv' BY ReadInvNext
<1>5. IInv /\ OriginInv /\ [Next]_vars => OriginInv' BY OriginNext
<1>6. IInv /\ ReadInv /\ OriginInv /\ GrammarInv /\ [Next]_vars => GrammarInv'
  BY GrammarNext
<1>7. GrammarInv => AcceptsTheGrammar
  BY DEF GrammarInv, AcceptsTheGrammar, NoNumber
<1>8. QED BY <1>1, <1>2, <1>3, <1>4, <1>5, <1>6, <1>7, Invariant, PTL DEF Spec
=============================================================================
