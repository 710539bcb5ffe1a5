--------------------------- MODULE LoggingService ---------------------------
(***************************************************************************)
(* The service behind the logger (log/logger.hpp, src/logging/logger.cpp): *)
(* the subscribed sinks and the cache of what is known of each thread, and *)
(* one action per remote function.  The service is owned by the thread     *)
(* that runs Logger::handle_messages, so its functions run one at a time.  *)
(*                                                                         *)
(* A request is a record: its identity `msg', the function `op' and the    *)
(* arguments the function reads: a thread `id', a `name', a `parent' or a  *)
(* `sink'.  Timestamps and message text are left out.                      *)
(***************************************************************************)
EXTENDS Naturals, Sequences, FiniteSets

CONSTANTS
  ThreadIds,     \* thread ids (pthread_self)
  Sinks,         \* sinks the program owns
  NoId,          \* the id 0 of a default CachedThreadInfo
  Unnamed        \* its name, "<unnamed>"

VARIABLES
  sinks,         \* the subscribed sinks, in order
  threads,       \* thread id -> CachedThreadInfo, for the known threads
  log            \* every call made on a sink, in order

service == <<sinks, threads, log>>

Default == [id |-> NoId, name |-> Unnamed, parent |-> NoId]

\* threads[id]: operator[] creates a default entry
Entry(id) == IF id \in DOMAIN threads THEN threads[id] ELSE Default

\* thread_get_info
Info(id) ==
  IF id \in DOMAIN threads THEN threads[id] ELSE [Default EXCEPT !.id = id]

\* what the sinks' function `kind' is told of a thread for request m
Dispatch(m, kind, info) ==
  log' = log \o [i \in 1..Len(sinks) |->
                   [sink |-> sinks[i], msg |-> m, kind |-> kind, thread |-> info]]

\* the table with threads[id] = info
Store(id, info) ==
  [i \in DOMAIN threads \cup {id} |-> IF i = id THEN info ELSE threads[i]]

ServiceInit ==
  /\ sinks = <<>>
  /\ threads = [i \in {} |-> Default]
  /\ log = <<>>

-----------------------------------------------------------------------------
handle_print(r) ==
  /\ Dispatch(r.msg, "print", Info(r.id))
  /\ UNCHANGED <<sinks, threads>>

\* Mutant: an entry that is there already is not given its id.
spawn_if_absent(r) ==
  /\ threads' = Store(r.id, Info(r.id))
  /\ Dispatch(r.msg, "spawn", Info(r.id))
  /\ UNCHANGED sinks

spawn(r) ==
  LET info == [Entry(r.id) EXCEPT !.id = r.id] IN
  /\ threads' = Store(r.id, info)
  /\ Dispatch(r.msg, "spawn", info)
  /\ UNCHANGED sinks

\* Mutant: the entry is not erased.
exit_without_erase(r) ==
  /\ Dispatch(r.msg, "exit", Info(r.id))
  /\ UNCHANGED <<sinks, threads>>

exit(r) ==
  /\ Dispatch(r.msg, "exit", Info(r.id))
  /\ threads' = [i \in DOMAIN threads \ {r.id} |-> threads[i]]
  /\ UNCHANGED sinks

\* Mutant: the thread is stored where its name belongs.
rename_to_thread(r) ==
  LET info == Entry(r.id) IN
  /\ Dispatch(r.msg, "rename", info)
  /\ threads' = Store(r.id, [info EXCEPT !.name = r.id])
  /\ UNCHANGED sinks

\* the sinks are told the old name
rename(r) ==
  LET info == Entry(r.id) IN
  /\ Dispatch(r.msg, "rename", info)
  /\ threads' = Store(r.id, [info EXCEPT !.name = r.name])
  /\ UNCHANGED sinks

\* the parent's entry is created if there is none; if the thread is its own
\* parent both names mean the same entry, whose id is set first
set_parent(r) ==
  LET parent == [Entry(r.parent) EXCEPT !.id = r.parent]
      info   == IF r.id = r.parent THEN parent ELSE Entry(r.id)
      linked == [info EXCEPT !.parent = r.parent]
  IN
  /\ Dispatch(r.msg, "set_parent", info)
  /\ threads' = [i \in DOMAIN threads \cup {r.id, r.parent} |->
                   CASE i = r.id -> linked
                     [] i = r.parent /\ i # r.id -> parent
                     [] OTHER -> threads[i]]
  /\ UNCHANGED sinks

add_sink(r) ==
  /\ sinks' = Append(sinks, r.sink)
  /\ UNCHANGED <<threads, log>>

\* the n-th smallest of a set of positions
Nth(S, n) == CHOOSE i \in S : Cardinality({j \in S : j <= i}) = n

\* std::erase removes every occurrence; the others keep their order
remove_sink(r) ==
  LET kept == {i \in 1..Len(sinks) : sinks[i] # r.sink} IN
  /\ sinks' = [n \in 1..Cardinality(kept) |-> sinks[Nth(kept, n)]]
  /\ UNCHANGED <<threads, log>>

\* Dispatcher: the index of the request selects the function
dispatch(r) ==
  \/ r.op = "print" /\ handle_print(r)
  \/ r.op = "spawn" /\ spawn(r)
  \/ r.op = "exit" /\ exit(r)
  \/ r.op = "rename" /\ rename(r)
  \/ r.op = "set_parent" /\ set_parent(r)
  \/ r.op = "add_sink" /\ add_sink(r)
  \/ r.op = "remove_sink" /\ remove_sink(r)
=============================================================================
