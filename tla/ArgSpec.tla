------------------------------- MODULE ArgSpec -------------------------------
(* Spec::Parser of config/args.hpp: what the members of an aggregate mean to   *)
(* its command line.  A member is a record: its kind ("data", "static" or      *)
(* "method"), whether it has an Option or a Descend annotation, its name, its  *)
(* parameters and, as a command, whether it ends the program.                  *)
EXTENDS DefaultConstruct

\* the parameters of the aggregate's construction
data_members(members) == SelectSeq(members, LAMBDA m : m.kind = "data")

\* data members without an Option or a Descend annotation
parse_argument(members) ==
  SelectSeq(members, LAMBDA m : m.kind = "data" /\ ~m.option /\ ~m.descend)

\* static member functions with one
parse_command(members) == SelectSeq(members, LAMBDA m : m.kind = "static" /\ m.option)

\* non-static member functions with one
parse_option(members) == SelectSeq(members, LAMBDA m : m.kind = "method" /\ m.option)

\* No required parameter comes after an optional one.
validate(params) ==
  \A i, j \in 1..Len(params) : i < j /\ params[j].required => params[i].required

\* What compiles; an Option that is a data member does not, for ArgumentTuple
\* has no meaning for its type.
Compiles(members) ==
  /\ validate(parse_argument(members))
  /\ \A i \in 1..Len(members) :
       /\ validate(members[i].params)
       /\ members[i].kind = "data" => ~members[i].option

\* The commands inherited from the base CLI come last.  No members of the bases
\* (each a sequence of its fields) are arguments.  The i-th argument is stored in
\* the i-th field, whether or not it is that field's.
SpecOf(members, inherited, bases) ==
  [arguments |-> parse_argument(members),
   commands  |-> parse_command(members) \o inherited,
   options   |-> parse_option(members),
   fields    |-> data_members(members),
   bases     |-> bases]
=============================================================================
