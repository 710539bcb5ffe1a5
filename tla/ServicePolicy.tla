--------------------------- MODULE ServicePolicy ---------------------------
(***************************************************************************)
(* Which members of a service class can be called remotely, and how the    *)
(* proxy and the dispatcher number them (rpc/proxy.hpp, rpc/dispatch.hpp). *)
(* The compiler evaluates all of this.                                     *)
(*                                                                         *)
(* A service is the sequence of its members in the order of declaration; a *)
(* member is a record:                                                     *)
(*   named       it has an identifier (a constructor or operator has none) *)
(*   public      its access                                                *)
(*   kind        "function", "template", or "data" for anything else       *)
(*   expandable  a template that needs no arguments besides a pack         *)
(*   callback    it is annotated with `callback'                           *)
(*   handler     the function its `handler' annotation names, or NoHandler *)
(*   value       it returns something                                      *)
(***************************************************************************)
EXTENDS Naturals, Sequences, FiniteSets

CONSTANTS
  NoHandler,
  VoidHandler, ValueHandler,   \* handlers, by what they return
  NoMember                     \* std::meta::info{}

Policies == {"DefaultPolicy", "InProcess", "Annotated"}

has_handler(m)   == m.handler # NoHandler
handler_value(m) == m.handler = ValueHandler

\* the positions of the members named_members_of returns
named_members_of(service) == {i \in DOMAIN service : service[i].named}

\* Mutant: a template is remote whether or not it names a handler.
is_remote_any_template(policy, m) ==
  /\ m.public
  /\ CASE policy = "DefaultPolicy" -> m.kind = "function"
       [] policy = "InProcess"     -> m.kind = "template" /\ m.expandable
       [] policy = "Annotated"     ->
            \/ m.kind = "function" /\ (m.callback \/ has_handler(m))
            \/ m.kind = "template" /\ m.expandable

is_remote(policy, m) ==
  /\ m.public
  /\ CASE policy = "DefaultPolicy" -> m.kind = "function"
       [] policy = "InProcess"     -> m.kind = "template" /\ m.expandable
       [] policy = "Annotated"     ->
            \/ m.kind = "function" /\ (m.callback \/ has_handler(m))
            \/ m.kind = "template" /\ m.expandable /\ has_handler(m)

\* Mutant: the return type is the member's own, also if it names a handler.
return_of_member(m) == m.value

\* Annotated::return_of: does the function behind the member return something?
return_of(m) == IF has_handler(m) THEN handler_value(m) ELSE m.value

\* The object that stands for member i in the proxy.  `value' is R # void.
make_proxy_member(policy, index, i, m) ==
  CASE policy = "DefaultPolicy" ->
         [kind |-> "FunctionProxy", index |-> index, fnc |-> i, value |-> m.value]
    [] policy = "InProcess" ->
         [kind |-> "FunctionTemplateProxy", index |-> index, fnc |-> i,
          value |-> m.value]
    [] policy = "Annotated" /\ has_handler(m) ->
         [kind |-> "CustomProxy", index |-> index, fnc |-> i,
          value |-> return_of(m)]
    [] policy = "Annotated" /\ ~has_handler(m) /\ m.kind = "function" ->
         [kind |-> "FunctionProxy", index |-> index, fnc |-> i,
          value |-> return_of(m)]
    [] OTHER -> NoMember

\* Mutant: the member itself is run, not the handler it names.
make_dispatch_member_unhandled(policy, index, i, m) ==
  [kind  |-> IF policy = "InProcess" THEN "FunctionTemplateDispatcher"
             ELSE "FunctionDispatcher",
   index |-> index, fnc |-> i, value |-> m.value]

\* The dispatcher of member i.  For a template without a handler Annotated
\* reaches std::unreachable, which is NoMember here.
make_dispatch_member(policy, index, i, m) ==
  CASE policy = "Annotated" /\ has_handler(m) ->
         [kind |-> "CustomDispatcher", index |-> index, fnc |-> m.handler,
          value |-> handler_value(m)]
    [] policy = "DefaultPolicy" \/ (policy = "Annotated" /\ m.kind = "function"
                                    /\ ~has_handler(m)) ->
         [kind |-> "FunctionDispatcher", index |-> index, fnc |-> i,
          value |-> m.value]
    [] policy = "InProcess" ->
         [kind |-> "FunctionTemplateDispatcher", index |-> index, fnc |-> i,
          value |-> m.value]
    [] OTHER -> NoMember

make_member(side, policy, index, i, m) ==
  IF side = "proxy" THEN make_proxy_member(policy, index, i, m)
                    ELSE make_dispatch_member(policy, index, i, m)

\* The || fold over the policies: each that finds member i remote takes the next
\* index, up to the first that makes something of the member, which is its own.
Offer(side, state, policies, i, m) ==
  LET remote == {k \in DOMAIN policies : is_remote(policies[k], m)}
      before(k) == Cardinality({j \in remote : j < k})
      made(k) == make_member(side, policies[k], state.index + before(k), i, m)
      makers == {k \in remote : made(k) # NoMember}
      owner == CHOOSE k \in makers : \A j \in makers : k <= j
  IN  IF makers = {} THEN [state EXCEPT !.index = @ + Cardinality(remote)]
      ELSE [index |-> state.index + before(owner) + 1,
            args  |-> Append(state.args, made(owner))]

\* one round of the loop over the members
Visit(side, state, policies, service, i) ==
  IF i \in named_members_of(service) THEN Offer(side, state, policies, i, service[i])
  ELSE state

\* the loop: the index and the members made after each round
Visited(side, service, policies) ==
  LET visited[n \in 0..Len(service)] ==
        IF n = 0 THEN [index |-> 0, args |-> <<>>]
        ELSE Visit(side, visited[n - 1], policies, service, n)
  IN  visited

Numbered(side, service, policies) == Visited(side, service, policies)[Len(service)].args

\* the members of the Proxy class behind the pointer to the client
make_proxy(service, policies) == Numbered("proxy", service, policies)

\* the template arguments of the Dispatcher class
make_dispatcher(service, policies) ==
  Numbered("dispatcher", service, policies)

-----------------------------------------------------------------------------
(* Dispatching an index: a switch with 4, 16, 64 or 256 cases.             *)

cases(count) == CHOOSE n \in {4, 16, 64, 256} :
                  count <= n /\ \A k \in {4, 16, 64, 256} : count <= k => n <= k

\* what the switch does with an index
dispatch(dispatcher, index) ==
  CASE index < Len(dispatcher) -> "call"
    [] index >= Len(dispatcher) /\ index < cases(Len(dispatcher)) -> "unreachable"
    [] OTHER -> "out_of_range"
=============================================================================
