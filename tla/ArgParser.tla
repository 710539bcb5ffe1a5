----------------------------- MODULE ArgParser -----------------------------
(* parse_args of config/args.hpp: the words of a command line become the       *)
(* fields of an aggregate, commands that run at once, and options that run on  *)
(* the finished object.  What a word says is its own value; the text is left   *)
(* out but for what the parser looks at: how the word starts, whether it is    *)
(* short of two characters, and the name that follows them.  An empty word is  *)
(* short and starts with no minus, but with the zero behind it.                *)
EXTENDS ArgSpec

CONSTANTS
  Specs,         \* what Spec::Parser makes of the aggregates
  CommandLines,  \* the sequences of words main may be called with
  NoHandle       \* an argument that was accepted but not stored

IsList(s) == Len(s) \in Nat /\ DOMAIN s = 1..Len(s)

ASSUME SpecsAssumption ==
  \A s \in Specs :
    /\ IsList(s.arguments) /\ IsList(s.commands) /\ IsList(s.options)
    /\ \A i \in 1..Len(s.commands) :
         s.commands[i].kind = "static" /\ IsList(s.commands[i].params)
    /\ \A i \in 1..Len(s.options) :
         s.options[i].kind = "method" /\ IsList(s.options[i].params)

\* The arguments are the fields without a Descend annotation.
ASSUME FieldsAssumption ==
  \A s \in Specs :
    /\ IsList(s.fields) /\ IsList(s.bases)
    /\ Len(s.arguments) <= Len(s.fields)
    /\ required_args_count(s.arguments)
         = Cardinality({i \in 1..Len(s.fields) : s.fields[i].required /\ ~s.fields[i].descend})

ASSUME CommandLinesAssumption ==
  \A line \in CommandLines :
    IsList(line) /\ Len(line) > 0 /\ \A i \in 1..Len(line) : line[i] # NoHandle

VARIABLES
  spec,         \* Spec of the wrapped type
  words, cursor,   \* ArgParser::args and cursor; words[1] names the program
  phase,        \* where parse_args is, or how the program has ended
  parsed_args,  \* Unevaluated arguments
  parsed_opts,  \* Unevaluated options, each with the position of its name
  next_opt,     \* the option to run next
  ran,          \* history: every command and option that has run
  object        \* the object, if there is one: the arguments it was made from

input == <<spec, words>>
vars  == <<input, cursor, phase, parsed_args, parsed_opts, next_opt, ran, object>>

arguments == spec.arguments
commands  == spec.commands
options   == spec.options
fields    == spec.fields
bases     == spec.bases

-----------------------------------------------------------------------------
(* Reading words.                                                            *)

\* Argument::Unevaluated::do_parse: a word is taken unless it starts with a
\* minus; a minus and a digit are taken, but neither argument nor handle is set.
\* Mutant: the minus is not looked at.
takes_any(w) == TRUE

takes(w) == w.start # "minus"

stored(w) == IF w.start = "minus_digit" THEN NoHandle ELSE w

\* how many parameters take their word, the first of them the word at `from`:
\* the parser stays at the first word that is not taken
given_count(params, from) ==
  CHOOSE n \in 0..Len(params) :
    /\ \A i \in 1..n : from + i - 1 <= Len(words) /\ takes(words[from + i - 1])
    /\ \/ n = Len(params)
       \/ from + n > Len(words)
       \/ ~takes(words[from + n])

given(params, from) ==
  [i \in 1..given_count(params, from) |-> stored(words[from + i - 1])]

\* "Missing argument {} of option {}"
\* Mutant: the first missing one is not looked at.
misses_later(params, n) == \E i \in n + 2..Len(params) : params[i].required

misses(params, n) == \E i \in n + 1..Len(params) : params[i].required

\* Option::Unevaluated::do_parse drops two characters, whatever they are, and
\* compares the rest.  The first option that answers to it is taken.
named(opts, w) ==
  CHOOSE i \in 1..Len(opts) :
    /\ opts[i].name = w.rest
    /\ \A j \in 1..i - 1 : opts[j].name # w.rest

is_named(opts, w) == \E i \in 1..Len(opts) : opts[i].name = w.rest

\* The handlers of the arguments in turn: a null handle is called, or a value
\* fails its constraint and the program exits, or all values are stored.
evaluate(params, args) ==
  LET bad == {i \in 1..Len(args) :
                args[i] = NoHandle \/ args[i] \in params[i].rejects}
  IN  IF bad = {} THEN "stored"
      ELSE IF args[CHOOSE i \in bad : \A j \in bad : i <= j] = NoHandle
           THEN "unreachable" ELSE "rejected"

\* Then the call itself.
handle(params, args) ==
  IF evaluate(params, args) = "stored" THEN visit(params, Len(args))
  ELSE evaluate(params, args)

\* What the program comes to if there is no call: undefined behaviour, the
\* exception of a required parameter that is missing, or std::exit.
ending(outcome) ==
  CASE outcome = "unreachable" -> "undefined"
    [] outcome = "throw"       -> "thrown"
    [] OTHER                   -> "exited"

-----------------------------------------------------------------------------
Init ==
  /\ spec \in Specs
  /\ words \in CommandLines
  /\ cursor = 2
  /\ phase = "arguments"
  /\ parsed_args = <<>> /\ parsed_opts = <<>>
  /\ next_opt = 1
  /\ ran = <<>>
  /\ object = <<>>

\* std::exit, a return, an exception nobody catches, or what is left of the program
\* after undefined behaviour
Ends(how) ==
  /\ phase' = how
  /\ UNCHANGED <<input, cursor, parsed_args, parsed_opts, next_opt, ran, object>>

\* the loop over spec.arguments: stops at the first that takes no word
ParseArguments ==
  /\ phase = "arguments"
  /\ parsed_args' = given(arguments, cursor)
  /\ cursor' = cursor + Len(parsed_args')
  /\ phase' = "options"
  /\ UNCHANGED <<input, parsed_opts, next_opt, ran, object>>

\* the word at the cursor should be the name of a command or an option
Name == words[cursor]

\* Each command and option drops two characters of the word; if there is none,
\* nobody does.
CutShort == Name.short /\ Len(commands) + Len(options) > 0

AtName == phase = "options" /\ cursor <= Len(words) /\ ~CutShort

\* remove_prefix(2) of a word that has no two characters
NameTooShort ==
  /\ phase = "options" /\ cursor <= Len(words) /\ CutShort
  /\ Ends("undefined")

\* the option or command at the cursor, with the words it takes
call(opts) ==
  LET option == opts[named(opts, Name)]
  IN  [option |-> option, at |-> cursor, args |-> given(option.params, cursor + 1)]

CallMisses(c) == misses(c.option.params, Len(c.args))

\* A call is evaluated: it runs, or it ends the program.
Run(c) ==
  LET outcome == handle(c.option.params, c.args) IN
  /\ IF outcome = "called" THEN ran' = Append(ran, c) ELSE UNCHANGED ran
  /\ phase' = IF outcome # "called" THEN ending(outcome)
              ELSE IF c.option.exits THEN "exited" ELSE phase

\* Commands run right away.
\* Mutant: the cursor is moved by the parameters, given or not.
RunCommandPast ==
  /\ AtName /\ is_named(commands, Name)
  /\ LET c == call(commands) IN
     IF CallMisses(c) THEN Ends("exited")
     ELSE /\ Run(c)
          /\ cursor' = cursor + 1 + Len(c.option.params)
          /\ UNCHANGED <<input, parsed_args, parsed_opts, next_opt, object>>

RunCommand ==
  /\ AtName /\ is_named(commands, Name)
  /\ LET c == call(commands) IN
     IF CallMisses(c) THEN Ends("exited")
     ELSE /\ Run(c)
          /\ cursor' = cursor + 1 + Len(c.args)
          /\ UNCHANGED <<input, parsed_args, parsed_opts, next_opt, object>>

\* Options are kept for later, with their arguments unevaluated.
\* Mutant: they run at once, like commands.
RunOptionAtOnce ==
  /\ AtName /\ ~is_named(commands, Name) /\ is_named(options, Name)
  /\ LET c == call(options) IN
     IF CallMisses(c) THEN Ends("exited")
     ELSE /\ Run(c)
          /\ cursor' = cursor + 1 + Len(c.args)
          /\ UNCHANGED <<input, parsed_args, parsed_opts, next_opt, object>>

\* Mutant: the arguments stay to be read as names.
KeepOptionOnly ==
  /\ AtName /\ ~is_named(commands, Name) /\ is_named(options, Name)
  /\ LET c == call(options) IN
     IF CallMisses(c) THEN Ends("exited")
     ELSE /\ parsed_opts' = Append(parsed_opts, c)
          /\ cursor' = cursor + 1
          /\ UNCHANGED <<input, phase, parsed_args, next_opt, ran, object>>

KeepOption ==
  /\ AtName /\ ~is_named(commands, Name) /\ is_named(options, Name)
  /\ LET c == call(options) IN
     IF CallMisses(c) THEN Ends("exited")
     ELSE /\ parsed_opts' = Append(parsed_opts, c)
          /\ cursor' = cursor + 1 + Len(c.args)
          /\ UNCHANGED <<input, phase, parsed_args, next_opt, ran, object>>

\* "Could not find option `{}`"
\* Mutant: the error is reported and the parser goes on, where it was.
KeepUnknown ==
  /\ AtName /\ ~is_named(commands, Name) /\ ~is_named(options, Name)
  /\ UNCHANGED vars

UnknownOption ==
  /\ AtName /\ ~is_named(commands, Name) /\ ~is_named(options, Name)
  /\ Ends("exited")

\* What becomes of the object when no word is left: the positional arguments are
\* evaluated, a missing one is reported ("missing"), and it is constructed from
\* the others.
made ==
  CASE evaluate(arguments, parsed_args) # "stored" -> evaluate(arguments, parsed_args)
    [] OTHER -> IF misses(arguments, Len(parsed_args)) THEN "missing"
                ELSE construct(fields, bases, Len(parsed_args))

\* Mutant: the object is made although an argument is missing.
ConstructPartly ==
  /\ phase = "options" /\ cursor > Len(words)
  /\ IF made \in {"called", "missing"}
     THEN /\ object' = <<parsed_args>>
          /\ phase' = "run"
          /\ UNCHANGED <<input, cursor, parsed_args, parsed_opts, next_opt, ran>>
     ELSE Ends(ending(made))

Construct ==
  /\ phase = "options" /\ cursor > Len(words)
  /\ IF made = "called"
     THEN /\ object' = <<parsed_args>>
          /\ phase' = "run"
          /\ UNCHANGED <<input, cursor, parsed_args, parsed_opts, next_opt, ran>>
     ELSE Ends(ending(made))

\* "run options", on the object
RunOption ==
  /\ phase = "run" /\ next_opt <= Len(parsed_opts)
  /\ Run(parsed_opts[next_opt])
  /\ next_opt' = next_opt + 1
  /\ UNCHANGED <<input, cursor, parsed_args, parsed_opts, object>>

Return ==
  /\ phase = "run" /\ next_opt > Len(parsed_opts)
  /\ Ends("returned")

Next ==
  \/ ParseArguments
  \/ NameTooShort
  \/ RunCommand
  \/ KeepOption
  \/ UnknownOption
  \/ Construct
  \/ RunOption
  \/ Return

Spec     == Init /\ [][Next]_vars
FairSpec == Spec /\ WF_vars(Next)

-----------------------------------------------------------------------------
Terminal == {"returned", "exited", "thrown", "undefined"}
Ran      == {ran[k] : k \in 1..Len(ran)}
Kept     == {parsed_opts[k] : k \in 1..Len(parsed_opts)}

TypeOK ==
  /\ cursor \in 2..Len(words) + 1
  /\ phase \in {"arguments", "options", "run"} \cup Terminal
  /\ next_opt \in 1..Len(parsed_opts) + 1
  /\ object \in {<<>>, <<parsed_args>>}
  /\ \A c \in Ran \cup Kept : c.at \in 2..Len(words)

\* As long as the program goes on, every word before the cursor has been read
\* exactly once: it is a positional argument, or it belongs to exactly one
\* command or option, as its name or as the argument that stands there.
Reads(c) == c.at..c.at + Len(c.args)

ReadOnce ==
  phase \in {"options", "run", "returned"} =>
  /\ \A p \in 2..cursor - 1 :
       IF p <= 1 + Len(parsed_args) THEN \A c \in Ran \cup Kept : p \notin Reads(c)
       ELSE \E c \in Ran \cup Kept :
              /\ p \in Reads(c)
              /\ \A d \in Ran \cup Kept : p \in Reads(d) => d = c
  /\ \A c \in Ran \cup Kept :
       /\ c.at + Len(c.args) < cursor
       /\ c.option.name = words[c.at].rest
       /\ \A i \in 1..Len(c.args) : c.args[i] = stored(words[c.at + i])

\* What has run is a prefix of what the command line asks for, in this order:
\* first the commands, which see no object, then, on an object and after every
\* word was understood, the options, each group in the order of the line.
Methods == {c \in Ran : c.option.kind = "method"}

RunsInOrder ==
  /\ \A j, k \in 1..Len(ran) : j < k =>
       \/ ran[j] \notin Methods /\ ran[k] \in Methods
       \/ (ran[j] \in Methods <=> ran[k] \in Methods) /\ ran[j].at < ran[k].at
  /\ Methods # {} => object # <<>> /\ cursor > Len(words)
  /\ \E n \in 0..Len(parsed_opts) : Methods = {parsed_opts[k] : k \in 1..n}

\* No function of the program sees an argument its constraint rejects, or one
\* that was accepted without being stored, and none misses a required one; the
\* same holds for the arguments of the object, and if no required field of it
\* comes after an optional one, every required field has been given a value, the
\* ones with a Descend annotation, which no word is meant for, included.
Complete(params, args) ==
  /\ \A i \in 1..Len(args) : args[i] # NoHandle /\ args[i] \notin params[i].rejects
  /\ \A i \in Len(args) + 1..Len(params) : ~params[i].required

OnlyCompleteCalls ==
  /\ \A c \in Ran : Complete(c.option.params, c.args)
  /\ object # <<>> =>
       /\ Complete(arguments, object[1])
       /\ validate(fields) =>
            \A i \in Len(object[1]) + 1..Len(fields) : ~fields[i].required

\* The parser's behaviour is undefined only if a word looks like a negative
\* number or is cut to a name it is too short for, or a switch of `visit` is short
\* of cases: the number of optional parameters is itself one of the powers that
\* are stamped, or beyond the largest of them.  The exception that nobody catches
\* ends the program only if a base of the class has a required field, or a field
\* with a Descend annotation is required: no option misses an argument by then.
WellBehaved(params) == branches(params) < cases(branches(params))

DefinedBehaviour ==
  /\ phase = "undefined" =>
       \/ \E p \in 2..Len(words) : words[p].start = "minus_digit"
       \/ \E p \in 2..Len(words) : words[p].short /\ Len(commands) + Len(options) > 0
       \/ ~WellBehaved(fields)
       \/ \E i \in 1..Len(commands) : ~WellBehaved(commands[i].params)
       \/ \E i \in 1..Len(options) : ~WellBehaved(options[i].params)
  /\ phase = "thrown" =>
       \/ \E b \in 1..Len(bases) : \E i \in 1..Len(bases[b]) : bases[b][i].required
       \/ \E i \in 1..Len(fields) : fields[i].descend /\ fields[i].required

\* What a command line means, without a cursor: a set of positions holds the
\* names; up to the first of them there are positional arguments, from each to
\* the next its arguments.  A run of arguments only ends where it must.
Stops(params, from, next) ==
  \/ next - from = Len(params)
  \/ next > Len(words)
  \/ words[next].start = "minus"

Fits(params, from, next) ==
  LET args == SubSeq(words, from, next - 1) IN
  /\ next - from <= Len(params)
  /\ \A i \in 1..Len(args) : args[i].start # "minus"
  /\ Complete(params, args)
  /\ Stops(params, from, next)

Called(opts, w) ==
  {opts[i] : i \in {i \in 1..Len(opts) : /\ opts[i].name = w.rest
                                        /\ \A j \in 1..i - 1 : opts[j].name # w.rest}}

Meaning(w) == IF Called(commands, w) # {} THEN Called(commands, w) ELSE Called(options, w)

Marks(names) == names \cup {Len(words) + 1}

After(marks, p) == CHOOSE q \in marks : q > p /\ \A r \in marks : r > p => q <= r

Parses(names) ==
  /\ Fits(arguments, 2, After(Marks(names), 1))
  /\ \A p \in names : \E o \in Meaning(words[p]) : Fits(o.params, p + 1, After(Marks(names), p))

Grammatical == \E names \in SUBSET (2..Len(words)) : Parses(names)

\* parse_args returns an object for exactly the command lines that have a
\* meaning, if its behaviour is defined, nothing is thrown, no word looks like a
\* negative number and no command ends the program.
AcceptsTheGrammar ==
  phase \in {"returned", "exited"}
  /\ (\A p \in 2..Len(words) : words[p].start # "minus_digit")
  /\ (\A c \in Ran : ~c.option.exits)
  => (phase = "returned" <=> Grammatical)

\* parse_args comes to an end.
Terminates == <>(phase \in Terminal)
=============================================================================
