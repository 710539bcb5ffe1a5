# Verification of the erl experiments

TLA+ models, TLC runs and TLAPS proofs for the library under `src/` (a C++26
reflection library with queues, remote procedure calls and a threaded logger).
`PROJECT.json` lists the components, the runs, the definition-to-source map, the
hazards and the theorems; this file explains them.

## The system

| Component | State | Operations | Modelled by |
|---|---|---|---|
| `BoundedMPMC` ring (`queue/mpmc_bounded.hpp`, `queue/base.hpp`) | cells with sequence numbers, `write_pos`, `read_pos` | `try_push`, `try_pop`, blocking `push`, `pop`, `pop(stop_token)` | `BoundedMPMC` |
| `BoundedSPSC` ring (`queue/spsc_bounded.hpp`) | buffer, two positions, two cached positions | the same | `BoundedSPSC` |
| `BasicQueue` (`queue/basic.hpp`) | `std::queue`, mutex, condition variable | `push`, `try_push`, `pop(stop_token)`, `try_pop`, `notify_all` | `BasicQueue` |
| Message buffer (`net/message/buffer.hpp`) | inline bytes or a heap block, one signed cursor | construct, copy, move, assign, destroy, `write`, `reserve` | `HybridBuffer` |
| Logging service (`log/logger.hpp`, `src/logging/logger.cpp`) | subscribed sinks, table of known threads | `print`, `spawn`, `exit`, `rename`, `set_parent`, `add_sink`, `remove_sink` | `LoggingService` |
| Logger (`EventQueue`, `Server::run`, `thread_helper`, `shutdown`) | the event queue, server thread, threads that log, main's sink | log calls, thread start and end, shutdown | `Logger` |
| Blocking RPC over `Pipe` (`rpc/protocol.hpp`, `net/service.hpp`) | request and response queue, where caller and server are | call, serve, kill | `BlockingRpc` |
| Proxies and dispatchers (`rpc/proxy.hpp`, `rpc/dispatch.hpp`) | none at run time | which members are remote, their numbers, dispatch | `ServicePolicy`, `BlockingRpc` |
| Argument parser (`config/args.hpp`, `config/default_construct.hpp`) | words and a cursor, parsed arguments and options, the object | `parse_args`: arguments, commands, options, construction, running the options | `ArgSpec`, `ArgParser`, `DefaultConstruct` |
| String tries (`util/trie.hpp`) | a tree of prefixes | `make`, `matches`, `find` | `StringTrie` |
| Format strings (`format/named.hpp`) | parser cursor, fragments, accessors | `do_parse`, `render`, `do_format` | `FormatParser` |
| Expectations (`expect.hpp`) | an expression tree | `transform`, `eval`, `eval_verbose` | `Expect` |
| Serialization, `MessageView` | read cursor | serialize, deserialize | not modelled |
| TCP sockets | handle | connect, bind, accept, send, recv | not modelled |
| Plugins, libraries | library handle, plugin object | load, call, unload | not modelled |
| Reflection utilities, printing, examples | - | evaluated by the compiler, or pure output | not modelled |

How the parts interact.  A thread that logs calls a proxy, which serializes the
arguments into a `HybridBuffer` and pushes it into the logger's `EventQueue`, a
`BoundedMPMC` of 64 cells.  The server thread pops, dispatches on the index in
front of the message and runs one function of `LoggingService`, which calls the
sinks.  A message of size 0 (`QueueClient::kill`) ends the server.  `Pipe`
does the same over two `BoundedSPSC` queues, and the caller waits for a
response.  A program whose settings derive from `CLI` calls `parse_args` first; it
checks its arguments with the trees of `expect.hpp` and calls functions through the
switch of `default_construct.hpp`.  `erl::print` uses the format parser.  Tries are
used by no other part.

What is hard here: relaxed and stale loads in the two lock-free rings; positions
that wrap around the ring; plain memory that is ordered by a sequence number
only; thread ids that the system uses again while requests of the old thread are
still in the queue; a shutdown that is a message in the queue it shuts down; raw
pointers to sinks on the stack of `main`; a condition variable a stop request
does not know of; objects that own a heap block only when their cursor is
negative; a parser that cannot go back, whose options run long after they were
read; a switch that is one case short; comparisons that are safe only because their
inputs were sorted; fields numbered in one order and arguments in another.  The
hazards in `PROJECT.json` name the lines.

What would make each part correct: the queues are FIFO buffers with no loss,
duplication or overwriting, and no data race; every push is delivered while
somebody pops; the message buffer is a value and leaks nothing; the sinks are told
everything sent before the shutdown, never of a thread what belongs to another, and
are never called after their destruction; every thread ends after the shutdown; the parser reads
every word once, runs nothing with a missing or rejected argument, and accepts the
lines of its grammar; the algorithms compute what their input means.

## Modules

    BoundedFifo  <---implements---  BoundedMPMC    MCBoundedMPMC    BoundedMPMCProofs
         ^   ^   <---implements---  BoundedSPSC                     BoundedSPSCProofs
         |   |   <---implements---  BasicQueue                     BasicQueueProofs
         |
      Logger  --extends-->  LoggingService      MCLogger          LoggerProofs
    RemoteObject <--implements---  BlockingRpc  --extends-->  ServicePolicy
                                                  MCBlockingRpc     BlockingRpcProofs
    MessageValue <--implements---  HybridBuffer   MCHybridBuffer    HybridBufferProofs
    ArgParser  --extends-->  ArgSpec  --extends-->  DefaultConstruct
                                                  MCArgParser       ArgParserProofs
    StringTrie, Expect, FormatParser              MCAlgorithms      AlgorithmProofs

`BoundedFifo` is what the queues promise: `Enqueue` of the k-th message of a
producer when there is room, `Dequeue` of the oldest.  A message `<<p, k>>` names
its producer and number, so that a lost, repeated or reordered message cannot
hide behind an equal one.

### BoundedMPMC

`try_push` and `try_pop` have the same shape: load a position relaxed, load the
sequence of its cell with acquire, branch on the difference, claim the position by
`compare_exchange_weak`, touch the cell's data, store the sequence with release.
Each of these is one action: `LoadPos`, `LoadSequence`, `ClaimWrite` and
`ClaimRead` (the CAS succeeds), `CasFails`, `WriteData` and `MoveData`,
`StoreSequence`.  `pc` is the line a thread is at, `pos` its local variable.
`Retry` is the spin of `push` and `pop` in `base.hpp`; `GiveUp` is the return of
`pop(stop_token)`.

Memory.  A relaxed or acquire load may return any value in the modification order
of the atomic that is not older than what the thread has already seen there.  For
positions that is any value from `pos[t]` to the current one; for a sequence, any
value the cell has had (`Loadable`: i, i + 1, i + N, ...), which gives a load even
less than the standard guarantees.  A failed CAS returns any such value, also the
expected one (a weak CAS fails spuriously).  Freedom from data races is not taken
from the interleaving: `accesses` counts the plain accesses to a cell, a release
store records those that happen before it in `released`, and an acquire load of
the newest value takes them over into `acquired`.

The data a pop moves from the cell leaves `None` behind.  The 64-bit positions are
natural numbers: to wrap they need 2^64 messages.

The refinement mapping puts the linearization points at the CAS: the abstract
buffer contains the claimed positions from `read_pos` to `write_pos`, and a
claimed message that is not yet written is the one its producer carries.

### BoundedSPSC

Both positions are kept modulo N and one cell stays empty, so the ring holds N - 1
messages.  `CheckFull` and `CheckEmpty` are the tests against the cached copy,
`ReloadReadPos` and `ReloadWritePos` the acquire loads, which may return an old
store (the k-th store wrote k % N) but none older than the copy.  `stores` and
`synced` number the stores and are used for the memory model and the proofs; the
code's guards use the positions only.  A pop copies the message from the cell, so
the old one stays there.

### BasicQueue

A critical section is two actions (take the mutex; do the work and release it).
`condition_variable::wait` is three: `EvaluatePredicate`, `Sleep` (release and
sleep in one step, as the standard says), `LockAgain` after a wakeup.  `notify_one`
wakes any one waiter.  `WakeSpuriously` may always happen and is never assumed to.
`try_push` that gets the mutex is `LockForPush` and `Publish`, `try_pop` is
`TryPop`; the calls that find the mutex taken return false and change nothing.
The stop takes two calls of the program, `RequestStop` and `NotifyAll`, and
neither takes the mutex.  A consumer whose pop returned a default object stops.

### HybridBuffer

An object is a record with the fields of the class: `cursor` (negative: on the
heap, size `-cursor - 1`), the inline bytes, and `ptr` and `capacity` of the heap
storage.  The code keeps the last two in a union with the bytes; the record clears
what is not in use.  `heap` maps the allocated blocks to their capacity and
content.  `malloc` and `realloc` return any free block, `realloc` may keep the
block where it is, and `realloc` to 0 bytes frees the block and returns `nullptr`,
as glibc does.  `write` is four actions by the branches of the code
(`WriteInPlace`, `WriteResized`, `WriteInline`, `WriteSpilled`), `reserve` three.
The assignments destroy and rebuild the object in one action, because the class is
not shared between threads while it is assigned.  `assert` does nothing, as in a
release build.  `current()` is not modelled: nothing uses it.

### LoggingService and Logger

`LoggingService` has one action per remote function.  `log` is the list of all
calls of sinks: which sink, for which request, and what it was told of the thread.
A name is one of the texts the server may have read; timestamps, severities and
message text are left out.  `set_parent` follows the two references of the code, also
when a thread is made its own parent.

`Logger` puts the service behind the queue.  `StartReporting` and `EndReporting`
are the constructor and destructor of `thread_helper`, for the threads in
`reporting`.  That variable is not a detail: `thread_helper` is a namespace-scope
`thread_local` that no code names, so the standard leaves it to the implementation
whether a thread constructs it.  `StartClient` gives a new thread any id no living
thread has, also the id of a thread that has ended.  `Serve` is one round of
`Server::run`.

`ThreadInfo::set_name` and `set_parent` (`info.cpp:96` and `116`) call the proxies
without the timestamp that `LoggingService::rename` and `set_parent` read first, so
the server reads every other argument one place too early.  `CallRename` and
`CallSetParent` send what the code sends, and `Arguments` is what the server makes of it
(deserialized from left to right).  The thread's id becomes the timestamp.  For
`set_parent` the parent becomes the thread, and the parent is read from the zeroes
behind the message, so it is `NoId`.  For `rename` the thread is the number made of the
name's length and its first four characters, and the text is what follows: nothing for a
name of up to four characters, else whatever lies behind the message, or the end of the
program (`Overrun`, after which every thread has `"crashed"`).  A name in the constant
`Names` is therefore that number, the texts that may be read and whether reading them
may overrun.  `NamesAssumption` says that the number is no thread id: an id is the
address of a control block, and the number is not aligned like one, or beyond all
addresses if the length is a multiple of the alignment and all four characters are there.

Main follows `example/rpc.cpp` (`AddSink`, `StartServer`, `Shutdown`, `JoinServer` by
`~jthread`, `DestroySink` because the sink is a local declared before the thread);
`RemoveSink` may happen while the server runs.  The queue is `BoundedFifo`, which
`BoundedMPMC` implements.

### ServicePolicy and BlockingRpc

`ServicePolicy` has no state: it is what the compiler evaluates.  A service is the
sequence of its members; `is_remote` says which policy takes which member,
`make_proxy_member` and `make_dispatch_member` what becomes of it, and `Numbered`
is the loop both `make_proxy` and `make_dispatcher` run: `Visited` is its state after
each member (a recursive function of the number of members seen), `Visit` one round,
and `Offer` the inner loop over the policies, in which the first policy that makes
something of a member takes the next index.
Types are reduced to what can go wrong at run time: whether a function returns
something.

`BlockingRpc` chooses a service and its policies in `Init` and runs calls through
them.  `Call` is `operator()` of a proxy member and `BlockingCall::call` up to the
wait, `Return` is `read_response`; `Receive`, `Dispatch` and `Reply` are the body of
`Server::run`; `Kill` is the farewell.  The arguments of a call are its number and
a result is the function, the arguments and who packed them, so that a wrong
function, an answer to another call and a value nobody wrote all show.  `in` and
`out` are the queues of a `Pipe`: one producer and one consumer each, hence the FIFO
buffers `BoundedSPSC` is proved to implement.  A member that is an ordinary function
with a `handler` annotation under `Annotated` gets a proxy that cannot be called,
because `CustomProxy` substitutes its member as a template; `Callable` says so.

`RemoteObject` knows no numbers and no queues: calling a member runs the function
its declaration means (`Interface`: the handler it names if `Annotated` owns it, else
itself), once, and returns its result; after the farewell no call is answered.

### ArgSpec, DefaultConstruct and ArgParser

`ArgSpec` is `Spec::Parser`, which the compiler evaluates: which members of a class
become positional arguments, commands (static) and options (methods), in what order,
and which classes compile.  A field with an Option or a Descend annotation is no
argument.  The commands of the base (`help`) come last; the fields of the bases are never
arguments.  `SpecOf` keeps all fields and the bases' fields beside the arguments, because
the construction counts them.

`DefaultConstruct` is the switch that calls a function or builds an aggregate with
the optional arguments that are present.  Its cases are stamped out in powers of
four (`Stamp`, 2 in the run); `visit` says whether a call is made, throws, or
reaches `std::unreachable`.  `construct` adds the bases: `default_construct` makes each of
them from its slot of the tuple, in which nothing is ever stored.

`ArgParser` is `parse_args`.  `phase` says where it is; the actions are the loop
over the positional arguments, one round of the loop over the rest of the words
(`RunCommand`, `KeepOption`, `UnknownOption`, `NameTooShort` by what the word is),
the construction of the object, one action per option that is run on it, and the
return.  Arguments are read twice, as in the code: `do_parse` only looks at the first
characters of a word and remembers a handler, `do_handle` converts and checks it
when the command or option runs.  A word is its class (`start`: does it begin with a
minus, with a minus and a digit), what is left when two characters are dropped, and
whether it has two characters; a parameter is whether it is required and the set of
words its constraint rejects.  `std::exit` ends in `"exited"`, undefined behaviour in
`"undefined"` and the `throw 0` of `visit`, which nobody catches, in `"thrown"`
(`ending`).  `evaluate` is the loop of the handlers, `handle` that and the call, and `made`
what becomes of the object.  The n-th argument is stored in the n-th field, as
`args.hpp:325` numbers them; behind a field with a Descend annotation that is not the
argument's own, and `visit` counts the fields, not the arguments.  The empty word is a
short one: it does not start with a minus (a `string_view` of `argv` has the zero behind it).

### StringTrie, Expect and FormatParser

`StringTrie` is a trie from the words it is made of to the answer of a lookup.  A
node of the tree is named by its path (the prefixes from the root to it put
together), so that its own prefix is what it adds to its parent's path; the leaf
without a prefix that marks the end of a word is the entry of `word_index`.  One
action is one round of the loop of `ParsedState::make`: `Finish` ends it at the end of
the word, `Grow` adds a child with a leaf, `Descend` goes on to a child and divides its
prefix where the word leaves it.  `Find` hands a string to the states the tree is
converted to, `Visit` is a `State::visit` that accepts and `Miss` the end of the fold
over the transitions in which none does.  `Sorted` is any list `std::ranges::sort` may return.

`Expect` is an expectation from the annotation to the check of a value.  The trees of
`expect.hpp` are sets of records, `Expressions(h)` those with at most `h` operators
inside each other, and what the code computes by recursion over a tree are recursive
functions over such a set.  `expect` is what the annotation keeps (chained comparisons
become conjunctions; the code names the left operand `rhs`, the module says `left`).
`Check` is `eval_verbose` as the argument parser's `validate` calls it: after a refusal
the program ends.  A transformed tree is at most twice as high as the one written,
so `Expr` is `Expressions(2 * MaxHeight)` (`TransformHeight` proves that it suffices).

`FormatParser` is a function of its input, written as recursive operators: it scans the
characters of a format string into fragments and accessors, renders them, and applies
`std::format` to the transformed string and arguments, so that what is compared is the
printed output.

`MCAlgorithms` runs one of the three at a time (`Subjects`); the others stay where they
start.  A format string is handed to `FormatParser` in one step.

## Runs

| Run | What it shows | Instance and bounds |
|---|---|---|
| `mpmc_safety` | the ring implements a FIFO buffer of N messages (`ImplementsFifo`), no data race (`DataRaceFree`), no pop of an empty cell (`TypeOK`) | 2 producers, 2 stoppable consumers, N = 2, 2 messages each: both positions lap the ring twice, a thread may hold a position two laps old |
| `mpmc_liveness` | `EveryPushDelivered` for two producers that contend for a full ring | 2 producers, 1 consumer, N = 2 |
| `spsc` | FIFO buffer of N - 1 messages, no data race, every push delivered | N = 4, 7 messages: both positions wrap |
| `basic_queue` | FIFO queue, no wakeup of a push is lost, the queue is drained before the last consumer stops | 2 producers, 2 consumers, 2 messages each, stop at any time |
| `basic_queue_stop` | violation: a stop can be slept through | 1 producer, 1 consumer |
| `hybrid_buffer` | a buffer is a value (`ImplementsMessage`), every block has exactly one owner, nothing is written past its memory | 2 objects, 2 byte values, inline capacity 2, messages up to 5 bytes, 3 blocks: spill, growth, in-place writes and copies of each kind occur, and while one object is copied or grown the other has a block |
| `logger_safety` | what a sink is told of a thread that reports itself is its id, and nothing that another thread, or a shifted request, set (`Attribution`); no entry of an ended thread is left but that of one named as a parent later (`OnlyParentsAreLeaked`); everything sent before the shutdown reaches the sink once (`NothingLeftBehind`), no call after destruction | 2 clients whose ids may be reused, 3 calls between them, queue of 2, an empty name and one that is too long: two calls of one thread around the end of the other, and a parent named after its exit |
| `logger_liveness` | joined clients, server and main all end (`EverythingEnds`); the shutdown ends the server although unjoined clients keep sending (`ShutdownStopsServer`) | queue of 2, thread helpers in main and both clients (a thread without one sends less and never waits to end), clients joined or not, 1 call |
| `blocking_rpc` | proxy and dispatcher agree on numbers, functions and return types (`NumberingAgrees`), a response is the one its call reads (`ResponseMatchesCall`), a call is a call of the declared function (`ImplementsRemoteObject`); calls made before the farewell return, and it ends the server | every service of 3 members of 10 kinds, every sequence of 1 to 3 distinct policies, 2 calls, a farewell at any time: a skipped member before, between and after remote ones, and a second call after one of another kind |
| `arg_parser` | each word is read once (`ReadOnce`), functions run in their order (`RunsInOrder`) and with complete arguments (`OnlyCompleteCalls`), a line is accepted exactly if it is in the grammar (`AcceptsTheGrammar`), undefined behaviour needs a word that looks like a negative number or is cut to a name it is too short for, or a call with as many optional parameters as its switch has cases, and an uncaught exception needs a base with a required field or a required Descend field (`DefinedBehaviour`), the parser ends (`Terminates`) | 24 interfaces: up to two arguments, an option and a static option in every mix of required and optional; Descend fields, required and optional, before, between and behind arguments; a base with a required or an optional field; a class without a base and one without options; lines of up to 4 words of 9 kinds |
| `algorithms` | tries never read past a word (`NeverOverreads`) and find exactly the words they can (`LookupExact`); format strings print what they mean (`FormatExact`); chained comparisons are conjunctions (`ChainsMeanConjunctions`) and a refusal is explained in full (`RefusalExplained`) | every list of up to 3 words of up to 3 letters over 2, in every order a sort may leave, and every string of up to 4 letters; up to 3 texts and fields of 10 kinds, 0 to 3 arguments; trees of 2 levels and chains of 4 operands, checked against values of one argument until one is refused |
| `format_fields` | violation: a by-index field prints the argument of another | the format strings of `algorithms` |

Bounds named in the modules: `MaxMessages` (messages per producer), `MaxCalls`
(calls of all logging clients together, calls of the RPC caller; its farewell is sent once),
`MaxSize` (bytes per message), `N` and `Capacity` (cells), `MaxWords` (words of a
command line, of a trie), `MaxPolicies` (policies of one service), `MaxLetters`, `MaxSegments` and `MaxArgs` (inputs of the
algorithms), `MaxHeight` (operators inside each other in an expectation), `Modulus` (the range of an unsigned), `Stamp` (cases of the innermost
switch).
They are small because the hazards are: a lap of the ring, a reused id, a queue
that is full.  Two cells are enough for a full ring, two laps for a position that
is stale by a lap.  Four words are a name with an argument too many, or two
options with a command between them; with `Stamp = 2`, two optional parameters are
the power of the stamp where the switch is a case short, as 4, 16 and 64 are in the
code.  Three words of three letters split a prefix twice.  `CHECK_DEADLOCK FALSE` is set where the system really stops:
all threads have ended, the consumers have been told to stop, the RPC caller has no
more to call or waits behind its own farewell, a parser is done, an expectation refused
a value, or a trie has no word to look up.  Symmetry is used
in safety runs only.

### Fairness

A thread inside a call is scheduled (weak fairness).  Strong fairness stands for
what the hardware and the library give a spinning thread: a store becomes visible
in finite time, a weak CAS does not fail spuriously forever, a mutex or a queue
slot that is free again and again is obtained some time.  Consumers pop again
because `Server::run` does.  Nobody is obliged to push, log or stop.  Strong
fairness of `ClaimWrite` is an assumption about the scheduler: the ring is
lock-free and not wait-free, so one producer could lose every CAS on a machine
that is unfair to it.  In `Logger` a client's end has strong fairness: its exit
report may have to wait for a slot in the queue.  `BlockingRpc` needs weak fairness
of the server's thread and of the caller's `Return` only.  `ArgParser` is one
sequential program: weak fairness of `Next` says that it runs on.

## Proofs

All proofs are for every value of the constants, under the assumptions named in the
modules (`NAssumption`, `ThreadAssumption`, `SizeAssumption`, `LoggerAssumption`,
`NamesAssumption`, `SpecsAssumption`, `FieldsAssumption`, `CommandLinesAssumption`, `RpcAssumption`, `ExpectAssumption`,
`TrieAssumption`).

`BoundedMPMCProofs`: `TypeCorrect`, `NoDataRace` and `RefinesFifo`.  The inductive invariant says
what the sequence of a cell means.  A cell is free (its sequence is one of the
next N positions to be pushed or popped there) or written (its sequence - 1 is a
claimed position that is at most a lap old).  `read_pos <= write_pos <= read_pos +
N`, the claimed positions of different threads differ, and a thread that is about to
claim has acquired whatever was released with the sequence it saw, provided that
sequence is still there.  The last part is what makes a CAS on a *position* protect
the *cell*: if the position has not moved, the sequence has not either.
`TypeCorrect` alone is not inductive, because "a pop never returns `None`" needs
all of it.  For `RefinesFifo` a push takes effect at the CAS of `try_push` and a pop at
that of `try_pop`; what has to be shown is that the CAS of a push finds fewer than
N messages claimed and not taken, and that the CAS of a pop takes the position
of the oldest one, also when the thread's view of the other position is old.

`BoundedSPSCProofs`: `TypeCorrect`, `NoDataRace` and `RefinesFifo`.  The invariant
is over the numbers of stores (`Written`, `Taken`): the positions and copies are
these numbers modulo N, what each side knows of the other is old but not wrong,
and cell k % N holds message k + 1 for every k between them.  A lap-old copy
cannot be mistaken for a current one because the numbers are never N apart.

The facts on `%` and `\div` the two need are proved from the definition of division, at
the start of each module.

`HybridBufferProofs`: `TypeCorrect`, `SingleOwner` and `RefinesMessage`.  The
invariant adds to `TypeOK` and `Ownership` that `size()` counts the bytes written
to the memory the object points to (`SoundInv`).  Three lemmas carry the argument:
a step gives one object fields without a block (`WithoutBlock`), gives it a new
block (`WithBlock`), or moves the fields of another object to it (`Moved`); each
action is shown to be one of them.

`BasicQueueProofs`: `TypeCorrect`, `Drained` and `RefinesFifo`, for finitely many
producers and at least one consumer.  The invariant has three parts.  `ControlInv`: a
thread inside the critical section holds the mutex, a push has a message left to
number, and a consumer about to take found a message or the stop request.  `DataInv`: the
queue holds messages already numbered, none of them twice, and a message owed since the
stop request is in the queue or was delivered.  `StoppedInv`: a consumer leaves only
after a request and only when nothing is owed any more, so the last one leaves nothing
behind.  For the refinement a push needs room in the abstract buffer: the queue
holds different messages and the new one is not among them, so it is shorter than the
number of all messages (`Room`).

`LoggerProofs`: `TypeCorrect`, `NothingIsLeftBehind`, `SinksAreToldIds` and
`SinksOutliveCalls`, for every number of clients, ids, names, sinks, cells and calls.  The
argument is about the stream: every message ever put into the queue, in order, of
which the server has taken the first `Got`.  A step sends a message at its end,
serves the next one or does neither (lemma `Steps`), so each part of the invariant has
three lemmas.  `Base` is what is typed, how far each thread has come and that the
stream holds the requests of a sender in order.  `MainInv` places main's requests
among the others: clients that are joined have ended before the shutdown is sent, so
no request of theirs is behind it, and `add_sink` is in front of all of them; `LogInv`
counts the calls of main's sink for what was read.  `NothingIsLeftBehind` follows from these.
`TurnsInv` says that threads with one id follow each other in the stream, the spawn
of the next behind the exit of the last; `CacheInv` that an entry under a thread's id holds
no name and no parent, and an id that is that thread's or, until the thread reports
itself, none; that what is stored under a name's number has no id; and that a thread heard
of and not yet gone has an entry with its id.  So a `rename` or `set_parent`, whose entry is
never the caller's, changes nothing that is told of a reporting thread
(`SinksAreToldIds`).  `Overrun` is the last step of a program: the invariants hold of the
rest (`Work`), and `Crashed` keeps what they implied.  `OnlyParentsAreLeaked` is only
model-checked.

`BlockingRpcProofs`: `NumberedAlike`, `TypeCorrect`, `ResponsesMatch` and
`RefinesRemoteObject`, for every service, sequence of policies, capacity and number
of calls.  `NumberedAlike` is about the code the compiler runs: the two sides run the same loop
over `make_proxy_member` and `make_dispatch_member`, and number alike because the first
policy that finds a member remote makes something of it on both sides (`MadeAlike`).
`VisitedRounds` shows that the recursive function of the loop satisfies its equation;
that the rounds of the two sides go together is an induction over them, written as
a search for the first round that does not (`LeastOf`).  From there the invariant
(`CallInv`) says where the one call there can be has got to: `Idle`, `Waiting`,
`Handling`, `Answering` or `Answered`, with the very message that is under way; a
farewell is only sent by an idle caller, so a request behind it stays unread and
everything before it is answered.

`ArgParserProofs`: `TypeCorrect`, `CallsComplete`, `OrderKept`, `WordsReadOnce`,
`StopsOnlyForAReason` and `GrammarAccepted`, for every set of interfaces and every
set of command lines.  That functions ran in
order is not inductive: the invariant (`HistoryInv`) says that what has run is a number of
commands, in the order of the line and before the cursor, followed by the first n
options kept, and which n; `KeptInv` says the same of the options kept, and that none
of them misses an argument; `CompleteInv` that what was checked when an argument was
evaluated still holds of what ran; `SideBySide`, which `WordsReadOnce` needs, that the
calls run or kept tile the words between the positional arguments and the cursor, so
that the next one (`NextCall`) overlaps none of them.
`StopsOnlyForAReason` needs `OriginInv`: the arguments kept stand in the line
where they were read, and there are no more of them than parameters, so that a call finds
its case if the switch has one for every number.  That nothing is thrown is counting
(`RequiredCount`): a call is only made when no argument is missing, so it has as many as
required ones; the object's fields are the arguments and the Descend fields, and if none of
those is required the two counts agree (`FieldsAssumption`).  The same counting turned
around shows that an object leaves no required field out (`FieldsFilled`).  `GrammarAccepted` compares the parser, which reads once from left to right
and never goes back, with `Grammatical`, which lets *any* set of positions be the
names of the line and asks whether every piece between two names is a complete call
with values its constraints accept.  The invariant (`GrammarInv`) says that whatever
names give the line a meaning, the parser's cursor and the names of all its calls
are among them (`Followed`).  This holds because a run of arguments can only end where it must
(`OneEnd`): at the last parameter, at the end of the line or at a minus.  In the
other direction, the calls of a parser that has returned are such a set of names
(`ReturnParses`).

`AlgorithmProofs`: `ChainsHold` and `RefusalsExplained` about `Expect`, for
expectations of every height and any arguments; `NeverReadsBeyond` and `LooksUpExactly`
about `StringTrie`, for all lists of words and all strings.

The invariant of `Expect` is small (`Evaluated`: a check is an evaluation of the tree
that was kept); the work is in the recursive functions.  A theorem of the library about
recursion would take the definition as an operator, so the module proves its own for
expressions: `Recursion` says that a step which only looks at the two operands has a
function that satisfies it, `Induction` (over the set of expressions that violate a
claim, through the least height in it) is how facts about such functions are shown.  Each recursive operator then
has one lemma with its equation.  `BetweenIsPair` is where the argument turns: for a
comparison the code understands, the operand `get_left_most` and `get_right_most` find
is the one next to the outer comparison, because no operand shared by two comparisons is
computed.  `ChainKept` follows the chain from there, `ReportedIsFalse` and `FalseIsReported`
what is listed.

The invariant of `StringTrie` (`TrieInv`) has four parts beside the types.  `Shape`: a
child goes on from its parent, two children with different letters, and every
path that goes on from a node goes through the child with its letter.  `Holds`: a node begins
a word that was inserted, exactly the words inserted have an index, and a node
is where words part or end (`Needed`, which counts all words of the list: when a
prefix is divided, the word that leaves it there is not inserted yet).
`Follows` and `Looks` place the walk: an insertion is on a prefix of its word, a lookup on a
prefix of its string and behind no word that turned it away.  `NeverReadsBeyond` follows
from `Holds` and the sort: a path beyond the word would begin a word inserted earlier
that the current word begins, which the sort put behind.  `LooksUpExactly` needs both
directions of which node has a single character (`OneLetter`): there is a node
right before a word's last character exactly if another word ends or turns off there.

Only model-checked are the properties under fairness, because the prover has no
support for liveness or for ENABLED, `OnlyParentsAreLeaked`, and `FormatExact`:
`FormatParser` is recursive operators over characters, with which the prover has no SMT
backend.

## Findings

* `BasicQueue::pop` can sleep through a stop request (`basic_queue_stop`).  Taking
  the mutex in `notify_all`, or `condition_variable_any` with the token, closes the
  gap.
* `FormatParser` numbers by-index fields by their first use and hands the arguments
  over in increasing order: `{1} {0}` prints argument 0, then argument 1
  (`format_fields`).  `FormatExact` says what is printed, and that it is right
  whenever the indices first appear in increasing order.

### Contradictions the properties describe

Three more places contradict what a comment or an assertion next to them says.  They
have no run of their own: the models do what the code does, and properties that hold
state it.

* `args.hpp:276` calls options "- or -- prefixed".  The parser drops two characters of a
  name whatever they are, so a single dash does not work and `xxname` is the option
  `name`.  `AcceptsTheGrammar` is about names behind two characters.
* `BoundedSPSC` with N cells stores N - 1 messages: with N = 2, which the
  `static_assert` ("must be able to store at least 2 elements") admits, one.
  `ImplementsFifo` of `spsc` is about a buffer of N - 1.
* `HybridBuffer::reserve(0)` on a heap message that is empty calls `realloc(ptr, 0)`,
  which frees the block and returns null, against the assertion "assume reallocating
  always works".  A build without assertions recovers at the next write, because
  `realloc(nullptr, n)` allocates; `Ownership` and `ImplementsMessage` cover that.

### Observations

These contradict no doc, comment, assertion or test of the repository.

* `set_name` and `set_parent` in `src/threading/info.cpp` pass one argument less than
  the service function reads.  No rename ever reaches the thread it is for: the sinks
  are told of a thread without an id, under an entry nobody erases, and a name of more
  than four characters is read from behind the message.  A `set_parent` clears the parent
  of the parent.  `Attribution` says what is told nevertheless.  `example/logging.cpp`
  also calls a `stop` that the logger no longer has.
* Where a thread's `thread_helper` is not constructed, what is told of it comes from
  whatever entry there is under its id.  `Attribution` is about threads whose helper exists.
* If the server thread constructs a helper while the queue is full, it waits in its
  own queue.  That takes 64 requests before the server starts.
* Threads that log after the shutdown fill the queue and then spin in `push`
  forever; `ShutdownStopsServer` shows only that the server ends.
* Naming a thread that has exited as a parent brings its table entry back for good;
  `OnlyParentsAreLeaked` says that nothing else does.
* `remove_sink` is a request.  A sink may be called after `remove_sink` returned;
  only the join of the server thread makes its destruction safe.
* A call made after the farewell waits forever for its response; `EveryCallReturns`
  is about the calls before.
* The return types an in-process proxy and its dispatcher give the same wrapper are
  not compared: the assertion in `rpc/proxy.hpp:142` is commented out.
* A word of one character where a name is expected is undefined behaviour, unless the
  class has neither commands nor options.  `-5` is taken for an argument and then called
  through a null member pointer.  Numbers are not checked for being numbers.
* A class with a base that has a required field throws an exception nobody catches on
  every line that gets as far as the object: `default_construct` makes its bases from empty
  tuples.
* A field with a Descend annotation takes no word and still counts: the arguments behind
  it are stored one field early (which compiles if the types agree), and if it is
  required, a line with too few arguments throws instead of being reported.
* `default_construct` with exactly 4, 16 or 64 optional parameters, or with 256 and
  more, reaches `std::unreachable` when at least as many are given as its switch has cases.
* An option that is a data member does not compile.
* A trie cannot find a word that extends another one which ends at a node of a single
  character (`Findable` says when), nor the empty word; a failed lookup returns -2,
  or -1 for an empty string.
* A chain whose shared operand is computed compares the wrong one: `2 < value + 1 <
  17` compares 1 with 17.  A chain under `&&` or `||` stays a comparison of a truth
  value.  Both operands of `&&` and `||` are evaluated.  An arithmetic term that is 0
  is reported as failed.  `Lazy::eval` does not compile when it is used: it calls
  `expand_args` with an argument less.

## Not modelled

Wording, formatting and colours of log lines; timestamps; the operating system's
thread names; compile-time reflection (`reflect`, `layout`, `tuple`, `meta`),
which has no state at run time; the examples beyond `main` of `rpc.cpp`.  In
`BoundedMPMC` and `BoundedSPSC` messages are values; what the rings do to messages
that own a heap block (the SPSC ring copies out of a cell and constructs over the
old copy, which leaks a block each lap) is not composed with `HybridBuffer`.  `cursor` is an integer without
a width; a message would have to be 2 GiB long to wrap it.

The layout of requests is a `memcpy` of the members that reflection lists, in that
order, and is not modelled, beyond what the server reads of the two requests that lack an
argument.  Neither are the sockets, thin wrappers whose outcome the
peer and the system decide (the hazards list where the code itself goes
wrong), nor plugins, handles used by one thread.  `Lazy`, bit operations and
compound assignments of `expect.hpp` are left out, and so is the text that `help`
prints.

## Plan

The order followed the importance of the behaviour: the two rings, the message
buffer, the basic queue, the logging service and the logger, policies and blocking
calls, then the argument parser and the algorithms.  What comes next:

1. Every safety property that is checked is a theorem but `OnlyParentsAreLeaked` and
   `FormatExact`.  For a proof of the latter `do_parse` and `std_format` would become loops over a cursor, as `StringTrie` is.
2. Rings of messages that own blocks (`HybridBuffer` in the cells of `BoundedMPMC`
   and `BoundedSPSC`), for leaks and double frees.
3. The layout of requests: what a reader gets for what a writer put, field by field.
