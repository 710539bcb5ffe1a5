---------------------------- MODULE BlockingRpc ----------------------------
(***************************************************************************)
(* A blocking call through a proxy: BlockingCall and RPCProtocol of        *)
(* rpc/protocol.hpp, the proxies and dispatchers of rpc/proxy.hpp, Server  *)
(* of net/service.hpp, over the two queues of a Pipe.  One thread calls,   *)
(* one thread serves; each queue has one producer and one consumer and is  *)
(* the FIFO buffer BoundedSPSC implements.                                 *)
(*                                                                         *)
(* The service class and its policies are chosen once, in Init.  The       *)
(* arguments of a call are its number.                                     *)
(***************************************************************************)
EXTENDS ServicePolicy

CONSTANTS
  Declarations,   \* what a member of the service may look like
  ServiceSize,    \* number of members the service declares
  MaxPolicies,    \* number of policies it combines
  Capacity,       \* messages a queue can hold
  MaxCalls,       \* bound: calls made
  Void,           \* no result
  NoCall,         \* the caller is outside of the proxy
  NoMessage       \* the server holds no message

(* What a call runs: the function, for which call, and who packed its         *)
(* arguments.                                                                *)
Functions == 1..ServiceSize \cup {VoidHandler, ValueHandler}
Positions == 1..ServiceSize \cup {NoMember}
Runs      == [function : Functions, args : 1..MaxCalls, packer : Positions]

\* what a proxy or a dispatcher is made of
Kinds   == {"FunctionProxy", "FunctionTemplateProxy", "CustomProxy",
            "FunctionDispatcher", "FunctionTemplateDispatcher", "CustomDispatcher"}
Members == [kind : Kinds, index : Nat, fnc : Functions, value : BOOLEAN]

ASSUME RpcAssumption ==
  /\ ServiceSize \in Nat /\ MaxPolicies \in Nat /\ Capacity \in Nat /\ MaxCalls \in Nat
  /\ \A m \in Declarations : /\ m.handler \in {NoHandler, VoidHandler, ValueHandler}
                             /\ m.value \in BOOLEAN
  /\ NoMember \notin Members
  /\ NoCall \notin Nat /\ NoCall \notin [member : 1..ServiceSize, ran : BOOLEAN]
  /\ Void \notin Runs

VARIABLES
  service,     \* the members of the service class
  policies,    \* its policies
  proxy,       \* what make_proxy makes of them
  dispatcher,  \* what make_dispatcher makes of them
  in,          \* the queue of requests
  out,         \* the queue of responses
  call,        \* NoCall, or the position of the proxy member in a call
  server,      \* where Server::run is
  message,     \* the request or response the server holds
  executed,    \* the functions that ran, with their arguments
  returned,    \* what the calls returned
  killed       \* the farewell message has been sent

code    == <<service, policies, proxy, dispatcher>>
queues  == <<in, out>>
results == <<executed, returned>>
vars    == <<code, queues, call, server, message, results, killed>>

\* the default-constructed message of QueueClient::kill, of size 0
Goodbye == [size |-> 0]

Distinct(s) == \A i, j \in DOMAIN s : i # j => s[i] # s[j]

Init ==
  /\ service \in [1..ServiceSize -> Declarations]
  /\ \E n \in 1..MaxPolicies : policies \in [1..n -> Policies]
  /\ Distinct(policies)
  /\ proxy = make_proxy(service, policies)
  /\ dispatcher = make_dispatcher(service, policies)
  /\ in = <<>>
  /\ out = <<>>
  /\ call = NoCall
  /\ server = "recv"
  /\ message = NoMessage
  /\ executed = <<>>
  /\ returned = <<>>
  /\ killed = FALSE

-----------------------------------------------------------------------------
(* The caller.                                                             *)

\* CustomProxy substitutes its member as a template: on an annotated function
\* that is not one the call does not compile.
Callable(p) == p.kind = "CustomProxy" => service[p.fnc].kind = "template"

\* Mutant: a FunctionTemplateProxy sends its arguments only.
payload_without_pointer(p) ==
  [args    |-> Len(returned) + 1,
   packer  |-> IF p.kind = "CustomProxy" THEN p.fnc ELSE NoMember,
   pointer |-> NoMember]

\* What the proxy sends behind the index: the arguments, in a CustomProxy the
\* message the member makes of them, in a FunctionTemplateProxy a pointer to
\* the instantiated member before them.
payload(p) ==
  [args    |-> Len(returned) + 1,
   packer  |-> IF p.kind = "CustomProxy" THEN p.fnc ELSE NoMember,
   pointer |-> IF p.kind = "FunctionTemplateProxy" THEN p.fnc ELSE NoMember]

request(index, data) == [size |-> 1, index |-> index, data |-> data]

\* operator() of proxy member i: BlockingCall::call up to the wait
Call(i) ==
  /\ call = NoCall
  /\ Len(returned) < MaxCalls
  /\ Callable(proxy[i])
  /\ Len(in) < Capacity
  /\ in' = Append(in, request(proxy[i].index, payload(proxy[i])))
  /\ call' = i
  /\ UNCHANGED <<code, out, server, message, results, killed>>

\* read_response
Return ==
  /\ call # NoCall
  /\ out # <<>>
  /\ out' = Tail(out)
  /\ returned' = Append(returned, IF proxy[call].value THEN Head(out).data ELSE Void)
  /\ call' = NoCall
  /\ UNCHANGED <<code, in, server, message, executed, killed>>

\* QueueClient::kill; bound: once
Kill ==
  /\ call = NoCall
  /\ ~killed
  /\ Len(in) < Capacity
  /\ in' = Append(in, Goodbye)
  /\ killed' = TRUE
  /\ UNCHANGED <<code, out, call, server, message, results>>

-----------------------------------------------------------------------------
(* The server.                                                             *)

\* Mutant: the loop goes on after an empty message.
ReceiveIgnoringGoodbye ==
  /\ server = "recv"
  /\ in # <<>>
  /\ in' = Tail(in)
  /\ \/ /\ Head(in).size = 0
        /\ UNCHANGED <<server, message>>
     \/ /\ Head(in).size # 0
        /\ server' = "handle"
        /\ message' = Head(in)
  /\ UNCHANGED <<code, out, call, results, killed>>

\* client.recv(); a message of size 0 ends the loop
Receive ==
  /\ server = "recv"
  /\ in # <<>>
  /\ in' = Tail(in)
  /\ \/ /\ Head(in).size = 0
        /\ server' = "ended"
        /\ UNCHANGED message
     \/ /\ Head(in).size # 0
        /\ server' = "handle"
        /\ message' = Head(in)
  /\ UNCHANGED <<code, out, call, results, killed>>

\* The function a dispatcher runs: for a template the one the request points
\* to, whatever the index.
target(d) ==
  IF d.kind = "FunctionTemplateDispatcher" THEN message.data.pointer ELSE d.fnc

make_response(index, value) == [index |-> index, data |-> value]

\* Mutant: the response of a void function is forgotten.
DispatchAnsweringValues ==
  /\ server = "handle"
  /\ dispatch(dispatcher, message.index) = "call"
  /\ LET d == dispatcher[message.index + 1]
         run == [function |-> target(d), args |-> message.data.args,
                 packer |-> message.data.packer]
     IN /\ executed' = Append(executed, run)
        /\ message' = IF d.value THEN make_response(d.index, run) ELSE NoMessage
        /\ server' = IF d.value THEN "reply" ELSE "recv"
  /\ UNCHANGED <<code, queues, call, returned, killed>>

\* RPCProtocol::dispatch: run the function, whose result is all there is to know
\* about it, and make the response
Dispatch ==
  /\ server = "handle"
  /\ dispatch(dispatcher, message.index) = "call"
  /\ LET d == dispatcher[message.index + 1]
         run == [function |-> target(d), args |-> message.data.args,
                 packer |-> message.data.packer]
     IN /\ executed' = Append(executed, run)
        /\ message' = make_response(d.index, IF d.value THEN run ELSE Void)
  /\ server' = "reply"
  /\ UNCHANGED <<code, queues, call, returned, killed>>

\* the send of BlockingCall::handle
Reply ==
  /\ server = "reply"
  /\ Len(out) < Capacity
  /\ out' = Append(out, message)
  /\ message' = NoMessage
  /\ server' = "recv"
  /\ UNCHANGED <<code, in, call, results, killed>>

-----------------------------------------------------------------------------
Client == \/ \E i \in DOMAIN proxy : Call(i)
          \/ Return
          \/ Kill

Server == Receive \/ Dispatch \/ Reply

Next == Client \/ Server

Spec == Init /\ [][Next]_vars

\* The server's thread runs, and so does the caller's while it is in a call.
\* Nothing makes the caller call or kill.
FairSpec == Spec /\ WF_vars(Server) /\ WF_vars(Return)

-----------------------------------------------------------------------------
Requests  == [size : {1}, index : Nat,
              data : [args : 1..MaxCalls, packer : Positions, pointer : Positions]]
Responses == [index : Nat, data : Runs \cup {Void}]

\* The types of the state.  A function that runs is a member or a handler (never
\* a null pointer out of a request), and the server holds a request before it
\* dispatches and a response after.
TypeOK ==
  /\ in \in Seq(Requests \cup {Goodbye})
  /\ out \in Seq(Responses)
  /\ call \in DOMAIN proxy \cup {NoCall}
  /\ \/ server \in {"recv", "ended"} /\ message = NoMessage
     \/ server = "handle" /\ message \in Requests
     \/ server = "reply" /\ message \in Responses
  /\ executed \in Seq(Runs)
  /\ returned \in Seq(Runs \cup {Void})
  /\ killed \in BOOLEAN

\* The interface of the service as its declarations read, without any numbers:
\* a remote member stands for the handler it names or for itself.
Owner(m) ==
  policies[CHOOSE k \in DOMAIN policies :
             /\ is_remote(policies[k], m)
             /\ \A j \in 1..(k - 1) : ~is_remote(policies[j], m)]

Interface ==
  LET remote == {i \in DOMAIN service :
                   /\ service[i].named
                   /\ \E k \in DOMAIN policies : is_remote(policies[k], service[i])}
      handled(m) == Owner(m) = "Annotated" /\ has_handler(m)
  IN [i \in remote |->
        LET m == service[i] IN
          [function |-> IF handled(m) THEN m.handler ELSE i,
           packs    |-> handled(m),
           value    |-> IF handled(m) THEN handler_value(m) ELSE m.value]]

\* Member i of the proxy and of the dispatcher have its number, and make of the
\* member of the service what its declaration says: who packs the arguments, which
\* function runs, and whether it returns a value.
Alike(p, d, i) ==
  /\ p.index = i - 1 /\ d.index = i - 1
  /\ p.fnc \in DOMAIN Interface
  /\ LET m == Interface[p.fnc]
     IN /\ m.packs <=> p.kind = "CustomProxy"
        /\ p.value = m.value /\ d.value = m.value
        /\ IF d.kind = "FunctionTemplateDispatcher"
           THEN p.kind = "FunctionTemplateProxy" /\ m.function = p.fnc
           ELSE m.function = d.fnc

\* The two loops over the members (proxy.hpp:190 and :207) number them alike: a
\* proxy member's index is its place behind the client pointer, from which
\* operator() computes the address of the proxy (proxy.hpp:42-46), and the
\* dispatcher knows the same member under it.
NumberingAgrees ==
  /\ DOMAIN proxy = 1..Len(dispatcher)
  /\ \A i \in DOMAIN proxy : Alike(proxy[i], dispatcher[i], i)

\* `assert(index == expected_index)' of read_response (protocol.hpp:96) holds,
\* and the response has a value exactly if the caller reads one.
ResponseMatchesCall ==
  call # NoCall /\ out # <<>> =>
    /\ Head(out).index = proxy[call].index
    /\ proxy[call].value <=> Head(out).data # Void

Object == INSTANCE RemoteObject WITH
  interface <- Interface,
  call <- IF call = NoCall THEN NoCall
          ELSE [member |-> proxy[call].fnc, ran |-> Len(executed) > Len(returned)]

\* A call through the proxy runs the function the declaration means, once, and
\* returns its result, however members and policies are mixed.
ImplementsRemoteObject == Object!Spec

\* A call made before the farewell returns.
EveryCallReturns == call # NoCall /\ ~killed ~> call = NoCall

\* The server ends after the farewell (net/service.hpp:16), whatever calls were
\* made before it or after.
KillEndsServer == killed ~> server = "ended"
=============================================================================
