------------------------------- MODULE Logger -------------------------------
(***************************************************************************)
(* The logger: application threads send requests through an EventQueue     *)
(* (fire and forget), one server thread runs Logger::handle_messages, and  *)
(* the main thread shuts the server down with a default-constructed        *)
(* message (QueueClient::kill), waits for it and destroys its sink, as     *)
(* example/rpc.cpp and example/logging.cpp do.                             *)
(*                                                                         *)
(* The queue is the FIFO buffer BoundedMPMC implements.  Its message       *)
(* <<t, k>> stands for the request requests[t][k].  A push that finds the  *)
(* queue full spins, that is, its action is not enabled.                   *)
(*                                                                         *)
(* set_name and set_parent (info.cpp) leave out the timestamp that the     *)
(* service's functions read first: the server reads the other arguments    *)
(* shifted (Arguments), and beyond the message if a name is long.          *)
(***************************************************************************)
EXTENDS LoggingService

CONSTANTS
  Clients,       \* application threads, started and ended during the run
  Main,          \* the thread that runs main
  ServerThread,  \* the thread that runs handle_messages, as a sender
  Server,        \* the same thread, as the receiver
  MainId, ServerId,
  Capacity,      \* cells of the queue (64 in the code)
  MaxCalls,      \* bound: log calls the clients make
  Names,         \* the names threads give themselves, as the server reads them:
                 \* the number it takes for the id, the texts it may take for the
                 \* name, and whether it reads beyond the message for them
  Reporters,     \* which sets of threads may be those whose thread_helper exists
  Joining        \* whether main may join the clients before it shuts down or not

ASSUME LoggerAssumption ==
  /\ Capacity \in Nat \ {0}
  /\ MaxCalls \in Nat
  /\ Joining \subseteq BOOLEAN
  /\ Clients \cap {Main, ServerThread, Server} = {}
  /\ Main # ServerThread
  /\ \A R \in Reporters : R \subseteq Clients \cup {Main, ServerThread}
  /\ {MainId, ServerId} \subseteq ThreadIds /\ MainId # ServerId
  /\ NoId \notin ThreadIds

\* A thread id is the address of its control block.  The number read for it is a
\* name's length (32 bit) below its first four characters: not aligned, or
\* beyond all addresses, or 0.
ASSUME NamesAssumption ==
  \A n \in Names : n.number \notin ThreadIds /\ n.overruns \in BOOLEAN

Senders   == Clients \cup {Main, ServerThread}
ClientIds == ThreadIds \ {MainId, ServerId}

VARIABLES
  items, enqueued, delivered,   \* the queue
  requests,                     \* sender -> the requests it has pushed
  life,                         \* sender -> how far it has come
  tid,                          \* sender -> its thread id
  reporting,                    \* the threads whose thread_helper exists
  joins,                        \* does main join the clients?
  main_at,                      \* how far main has come
  sink_alive                    \* main's sink has not been destroyed

queue   == <<items, enqueued, delivered>>
choices == <<reporting, joins>>
status  == <<life, tid, choices>>
vars    == <<service, queue, requests, status, main_at, sink_alive>>

\* Bound on the messages of one sender: spawn, the clients' calls and exit, or
\* what main sends.
MaxMessages == MaxCalls + 5

Queue == INSTANCE BoundedFifo WITH Producers <- Senders, Consumers <- {Server}

\* the identity of the request t sends next
identity(t) == <<t, enqueued[t] + 1>>

\* client.send(request): message <<t, k>> of the queue is requests[t][k]
send(t, request) ==
  /\ Queue!Enqueue(t)
  /\ requests' = [requests EXCEPT ![t] = Append(@, request)]

\* a request that tells the service something of its sender: its id comes after
\* the timestamp
report(t, op) == [msg |-> identity(t), op |-> op, id |-> tid[t]]

Sent(t, ops) == {k \in 1..Len(requests[t]) : requests[t][k].op \in ops}

Request(m) == requests[m[1]][m[2]]

-----------------------------------------------------------------------------
Init ==
  /\ ServiceInit
  /\ Queue!Init
  /\ requests = [t \in Senders |-> <<>>]
  /\ life = [t \in Senders |-> IF t = Main THEN "starting" ELSE "new"]
  /\ tid = [t \in Senders |-> CASE t = Main -> MainId
                                [] t = ServerThread -> ServerId
                                [] OTHER -> NoId]
  /\ reporting \in Reporters
  /\ joins \in Joining
  /\ main_at = "setup"
  /\ sink_alive = TRUE

\* ThreadEventHelper(): a thread whose helper exists reports itself first
StartReporting(t) ==
  /\ life[t] = "starting"
  /\ life' = [life EXCEPT ![t] = "running"]
  /\ IF t \in reporting
     THEN send(t, report(t, "spawn"))
     ELSE UNCHANGED <<queue, requests>>
  /\ UNCHANGED <<service, tid, choices, main_at, sink_alive>>

\* ~ThreadEventHelper(): the last thing a thread does
EndReporting(t, from) ==
  /\ life[t] = from
  /\ life' = [life EXCEPT ![t] = "ended"]
  /\ IF t \in reporting
     THEN send(t, report(t, "exit"))
     ELSE UNCHANGED <<queue, requests>>
  /\ UNCHANGED <<service, tid, choices, main_at, sink_alive>>

-----------------------------------------------------------------------------
(* Application threads.                                                    *)

\* ids of ended threads are used again
StartClient(t, id) ==
  /\ life[t] = "new"
  /\ main_at = "serving"
  /\ \A u \in Clients : tid[u] = id => life[u] = "ended"
  /\ life' = [life EXCEPT ![t] = "starting"]
  /\ tid' = [tid EXCEPT ![t] = id]
  /\ UNCHANGED <<service, queue, requests, choices, main_at, sink_alive>>

Calls(t) == {<<t, k>> : k \in Sent(t, {"print", "rename", "set_parent"})}

CanCall(t) ==
  /\ life[t] = "running"
  /\ Cardinality(UNION {Calls(u) : u \in Clients}) < MaxCalls
  /\ UNCHANGED <<service, status, main_at, sink_alive>>

CallPrint(t)  == CanCall(t) /\ send(t, report(t, "print"))

\* set_name: the id is sent where the timestamp is read, the name follows
CallRename(t, name) ==
  CanCall(t) /\ send(t, [msg |-> identity(t), op |-> "rename", name |-> name])

\* set_parent: the id is sent where the timestamp is read, the parent's follows
CallSetParent(t, parent) ==
  CanCall(t) /\ send(t, [msg |-> identity(t), op |-> "set_parent", parent |-> parent])

Client(t) ==
  \/ \E id \in ClientIds : StartClient(t, id)
  \/ StartReporting(t)
  \/ CallPrint(t)
  \/ \E name \in Names : CallRename(t, name)
  \/ \E u \in Senders : life[u] # "new" /\ CallSetParent(t, tid[u])
  \/ CallSetParent(t, NoId)      \* get_parent() of any thread
  \/ EndReporting(t, "running")

-----------------------------------------------------------------------------
(* The server thread: Server::run with EventCall::handle.                  *)

\* What deserialize may make of the arguments of request r: the missing
\* timestamp moves the id of a name's thread to what the name begins with, and
\* the thread to where the parent is, which is then read from the zeroes after
\* the message.
Arguments(r) ==
  CASE r.op = "rename" ->
         {[msg |-> r.msg, op |-> "rename", id |-> r.name.number, name |-> text] :
            text \in r.name.texts}
    [] r.op = "set_parent" ->
         {[msg |-> r.msg, op |-> "set_parent", id |-> r.parent, parent |-> NoId]}
    [] OTHER -> {r}

\* Mutant: the empty message does not end the loop.
ServeOn ==
  LET r == Request(Head(items)) IN
  /\ life[ServerThread] = "running"
  /\ Queue!Dequeue(Server)
  /\ IF r.op = "kill" THEN UNCHANGED service ELSE \E a \in Arguments(r) : dispatch(a)
  /\ UNCHANGED <<requests, status, main_at, sink_alive>>

Serve ==
  LET r == Request(Head(items)) IN
  /\ life[ServerThread] = "running"
  /\ Queue!Dequeue(Server)
  /\ IF r.op = "kill"
     THEN /\ life' = [life EXCEPT ![ServerThread] = "leaving"]
          /\ UNCHANGED service
     ELSE /\ \E a \in Arguments(r) : dispatch(a)
          /\ UNCHANGED life
  /\ UNCHANGED <<requests, tid, choices, main_at, sink_alive>>

\* Reading a long name beyond its message may end the whole program.
Overrun ==
  /\ life[ServerThread] = "running"
  /\ items # <<>>
  /\ LET r == Request(Head(items)) IN r.op = "rename" /\ r.name.overruns
  /\ life' = [t \in Senders |-> "crashed"]
  /\ UNCHANGED <<service, queue, requests, tid, choices, main_at, sink_alive>>

ServerLoop ==
  \/ StartReporting(ServerThread)
  \/ Serve
  \/ EndReporting(ServerThread, "leaving")

-----------------------------------------------------------------------------
(* The main thread.                                                        *)

MainAt(from, to) ==
  /\ life[Main] = "running"
  /\ main_at = from
  /\ main_at' = to

AddSink(s) ==
  /\ MainAt("setup", "subscribed")
  /\ send(Main, [msg |-> identity(Main), op |-> "add_sink", sink |-> s])
  /\ UNCHANGED <<service, status, sink_alive>>

\* std::jthread server(Logger::handle_messages)
StartServer ==
  /\ MainAt("subscribed", "serving")
  /\ life' = [life EXCEPT ![ServerThread] = "starting"]
  /\ UNCHANGED <<service, queue, requests, tid, choices, sink_alive>>

RemoveSink(s) ==
  /\ MainAt("serving", "serving")
  /\ Sent(Main, {"remove_sink"}) = {}
  /\ send(Main, [msg |-> identity(Main), op |-> "remove_sink", sink |-> s])
  /\ UNCHANGED <<service, status, sink_alive>>

\* Mutant: main does not wait for the clients.
ShutdownAtOnce ==
  /\ MainAt("serving", "killed")
  /\ send(Main, [msg |-> identity(Main), op |-> "kill"])
  /\ UNCHANGED <<service, status, sink_alive>>

\* Logger::shutdown
Shutdown ==
  /\ MainAt("serving", "killed")
  /\ joins => \A t \in Clients : life[t] \in {"new", "ended"}
  /\ send(Main, [msg |-> identity(Main), op |-> "kill"])
  /\ UNCHANGED <<service, status, sink_alive>>

\* Mutant: the server thread is not joined.
JoinServerEarly ==
  /\ MainAt("killed", "joined")
  /\ UNCHANGED <<service, queue, requests, status, sink_alive>>

\* ~jthread of the server thread
JoinServer ==
  /\ MainAt("killed", "joined")
  /\ life[ServerThread] = "ended"
  /\ UNCHANGED <<service, queue, requests, status, sink_alive>>

\* the sink is a local of main declared before the server thread
DestroySink ==
  /\ MainAt("joined", "done")
  /\ sink_alive' = FALSE
  /\ UNCHANGED <<service, queue, requests, status>>

MainThread ==
  \/ StartReporting(Main)
  \/ \E s \in Sinks : AddSink(s)
  \/ StartServer
  \/ \E s \in Sinks : RemoveSink(s)
  \/ Shutdown
  \/ JoinServer
  \/ DestroySink
  \/ main_at = "done" /\ EndReporting(Main, "running")

Next ==
  \/ \E t \in Clients : Client(t)
  \/ ServerLoop
  \/ Overrun
  \/ MainThread

Spec == Init /\ [][Next]_vars

\* Every thread is scheduled; a started client ends by itself; main gets to
\* its shutdown.  Nothing obliges a client to start, main to drop its sink or an
\* overrun to end the program.
Fairness ==
  /\ \A t \in Clients : /\ WF_vars(StartReporting(t))
                        /\ SF_vars(EndReporting(t, "running"))
  /\ WF_vars(ServerLoop)
  /\ WF_vars(StartReporting(Main))
  /\ WF_vars(\E s \in Sinks : AddSink(s))
  /\ WF_vars(StartServer)
  /\ SF_vars(Shutdown)
  /\ WF_vars(JoinServer)
  /\ WF_vars(DestroySink)
  /\ WF_vars(main_at = "done" /\ EndReporting(Main, "running"))

FairSpec == Spec /\ Fairness

-----------------------------------------------------------------------------
Ids   == ThreadIds \cup {NoId} \cup {n.number : n \in Names}
Texts == UNION {n.texts : n \in Names}

ThreadInfo == [id : ThreadIds \cup {NoId}, name : Texts \cup {Unnamed}, parent : {NoId}]

TypeOK ==
  /\ Queue!TypeOK
  /\ sinks \in Seq(Sinks)
  /\ DOMAIN threads \subseteq Ids
  /\ \A i \in DOMAIN threads : threads[i] \in ThreadInfo
  /\ \A t \in Senders : Len(requests[t]) = enqueued[t]
  /\ life \in [Senders -> {"new", "starting", "running", "leaving", "ended", "crashed"}]
  /\ tid \in [Senders -> ThreadIds \cup {NoId}]
  /\ reporting \subseteq Senders
  /\ joins \in BOOLEAN
  /\ main_at \in {"setup", "subscribed", "serving", "killed", "joined", "done"}
  /\ sink_alive \in BOOLEAN

\* What a sink is told of a thread that reports itself is its id, and nothing
\* else, though ids are used again and other threads name it as their parent:
\* no call of set_name or set_parent ever reaches what is told of the thread it
\* was made for.  A new name is told of a thread without an id, a new parent of
\* that parent (or, before it has reported itself, of a thread without an id).
Attribution ==
  \A i \in 1..Len(log) :
    LET r == Request(log[i].msg)  told == log[i].thread IN
    CASE log[i].kind = "rename"     -> told.id = NoId
      [] log[i].kind = "set_parent" -> told.id \in {NoId, r.parent}
      [] OTHER -> r.msg[1] \in reporting => told = [Default EXCEPT !.id = r.id]

\* The entries of threads that have ended are erased but for those that a
\* request names as a parent after the exit: when the server has left its loop,
\* and main has joined the clients, the cache has no others of clients.
OnlyParentsAreLeaked ==
  /\ life[ServerThread] \in {"leaving", "ended"}
  /\ joins
  => \A i \in DOMAIN threads \cap ClientIds :
       \E g \in 1..Len(delivered[Server]) :
         LET served(h) == Request(delivered[Server][h]) IN
         /\ served(g).op = "set_parent" /\ served(g).parent = i
         /\ \A h \in g..Len(delivered[Server]) :
              served(h).op = "exit" => served(h).id # i

\* The sinks are only called while they exist: main destroys its sink after it
\* has waited for the server thread.
NoCallAfterDestruction == [][~sink_alive => log' = log]_vars

\* Nothing that was sent before the shutdown is left behind: when the server
\* has left its loop, main's sink (if it was not removed) has been called exactly
\* once for every request of the clients, which main has joined.
NothingLeftBehind ==
  /\ life[ServerThread] \in {"leaving", "ended"}
  /\ joins
  /\ Sent(Main, {"remove_sink"}) = {}
  => \A t \in Clients : \A k \in 1..Len(requests[t]) :
       Cardinality({i \in 1..Len(log) : log[i].msg = <<t, k>>}) = 1

\* The server thread ends after a shutdown, if not with the whole program.
ShutdownStopsServer ==
  main_at = "killed" ~> life[ServerThread] \in {"ended", "crashed"}

\* If main joins the clients, every started thread ends and main returns, if the
\* program does not end at a name that is too long.
EverythingEnds ==
  joins => \/ <>(life[Main] = "crashed")
           \/ <>[](/\ life[Main] = "ended"
                   /\ \A t \in Clients : life[t] \in {"new", "ended"})
=============================================================================
