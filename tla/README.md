# Network Protocol DSL: specifications, model checks and proofs

This directory holds TLA+ modules that model the Network Protocol DSL
(`src/networkprotocoldsl` and `src/networkprotocoldsl_uv`), the TLC
configurations that check them on small instances, and TLAPS proofs of the
safety properties of the concurrent core, of the libuv side, of the read
operations and of the generated code. `PROJECT.json` maps every definition to the lines it models and lists
the runs, the mutants, the hazards and the theorems.

## The system

A protocol description is tokenized, parsed, analysed and turned into a tree of
operations, one for the client and one for the server. An *interpreter* executes
such a tree for one connection. It never does I/O itself: it blocks at a read, a
write or a callback, and the *InterpreterRunner* unblocks it with data from
queues. The libuv side moves data between the queues and the sockets. The code
generator is the other back end: it prints C++ (parsers, serializers, a state
machine, a runner) that does the same without an interpreter, served by
`GeneratedServerWrapper`.

| Component | State | Operations | Who it meets |
|---|---|---|---|
| `NotificationSignal` | a flag, a mutex, a condition variable | `notify`, `wait` | every thread below |
| `MutexLockQueue` | a deque under a mutex | `push_back`, `pop`, `push_front` | input, output, callback and work queues |
| `TransactionalContainer`, `InterpreterCollectionManager` | an atomic pointer to an immutable map from descriptors to contexts | `insert_interpreter`, `remove_interpreter`, `get_collection` | the loop thread inserts, the pusher removes, both loops scan snapshots |
| `InterpreterRunner` | two threads, `exit_when_done` | `interpreter_loop` with `handle_read`, `handle_write`, `handle_start_callback`, `handle_finish_callback`; `callback_loop` | contexts, signals, the I/O thread |
| `Interpreter`, `Continuation`, `ExecutionStackFrame` | a stack of continuations, each with a lexical pad and a stack of frames | `prepare`, `step`, the entry points for I/O and callbacks | the runner |
| operations: reads, writes, control flow, values, pads, `StateMachineOperation` | a context per frame | `operator()`, `handle_read`, `handle_write`, ... | called by the frame |
| sema, `generate.cpp` | none at run time | from messages to actions to operation trees | the interpreter, the code generator |
| generated code | stage and buffers of each parser, the state machine's state and output | `on_bytes_received`, `take_<state>_message`, `send_<message>`, `bytes_written` | the application, or the generated runner |
| `LibuvServerRunner`, `LibuvServerWrapper` | handles, a pusher thread | bind, accept, read, write, close, stop | the loop thread, the pusher, the stopping thread |
| `LibuvClientRunner`, `LibuvClientWrapper` | the same for one connection, and two promises | connect, push output, hand the result on | the application's thread |
| `GeneratedServerWrapper` | connections with a `closing` flag and pending writes | accept, read, write, close, stop | generated runners, the owner's thread |
| `AsyncWorkQueue` | a queue and a `uv_async_t` | `push_work`, `process`, `shutdown` | the three above |
| lexer, parser | none | pure translations | sema |

What is hard: five kinds of threads that share queues, flags and immutable
snapshots without a common lock; wakeups that come between a scan and a wait;
eof that races with data; buffers cut anywhere by the network; a shutdown that
all threads have to notice; handles that several callbacks want to close; and
two agents whose programs are derived separately, by different code for reading
and writing, from one description. The hazards, with the line where each bites,
are in `PROJECT.json`.

What makes each part correct:

- **signal**: no notification is lost, whatever is published is taken;
- **manager**: an insertion or removal is atomic, none undoes another, a running
  interpreter is never replaced, calls return;
- **runner**: no octet is lost or reordered, every callback is answered once and
  to the operation that asked, eof ends an interpreter, loops stop only when
  nobody runs and do stop then;
- **read operations**: results do not depend on how the stream was cut, and no
  operation waits for octets it does not need;
- **sema, generation, interpreter together**: what one agent's application sends
  is what the other's callback is given, whatever the network does to the
  framing, and both programs come to their end;
- **generated code**: the same, and the state machines agree on the state and
  raise no false protocol error;
- **server, client, generated server**: output reaches the wire in order,
  connections are closed, once, and their data lives until then, the result
  reaches the application, and stopping ends.

## The modules

### The concurrent core

`NotificationSignal` (whose definitions say `Signal` in their names, so that one
module can prove about it and the collection manager) has one action per critical section of `notify()` and
`wait()`: a notifier publishes work, stores the flag under the mutex, then calls
`notify_all()`; the waiter scans, enters `wait()` (which tests the flag),
sleeps, may wake spuriously, and returns. All other modules use the result, that
with one waiter a signal is a sticky flag: `notify()` sets it, `wait()` blocks
until it is set and clears it. `wake_up_interpreter` has the single waiter
`interpreter_loop`, `wake_up_for_callback` the single waiter `callback_loop`,
and `wake_up_for_output` the single pusher of a server or a client.

`InterpreterRegistry` is the abstract specification of the manager: a map from
descriptors to contexts with atomic insertion and removal.
`InterpreterCollectionManager` is the code: each thread loads the pointer, runs
the lambda on that snapshot, and compare-exchanges; the weak exchange may fail
spuriously. The address of a collection is a version number. The refinement
mapping takes the contents of the published collection for the registry.

`InterpreterRunner` has the interpreter thread, the callback thread and their
environment (the I/O thread, insertions, removals, the owner who stops it).
A program counter and the locals of each loop are variables; between two
operations on shared state there is a step. A program is a sequence of reads,
lookaheads, writes and callbacks, an octet is its position in the stream, and a
buffer is an interval of positions: what the runner does depends on nothing else.
`MCInterpreterRunner` gives the instance.

### The language

`ReadOperations` has the six operations that read as operators on octets:
`handle_read` gives the new context and how much was consumed, `Evaluate` is
`operator()`. `InputHandling` runs a program of them under the runner's
`handle_read`, over streams cut into buffers in every way. It also has the
reference: `Decided` and `Meaning` say what an operation means on the text that
follows, with no regard to buffers. `MCInputHandling` gives programs and streams.

`Values` has what the interpreter and the generated code share: errors among the
values, optional values (an `std::optional` is a sequence of at most one
element), how an integer and an escaped text are written.

`Interpreter` is the interpreter as a function on its state. A continuation has
a lexical pad and a stack of frames; `step` is one `Interpreter::step`: the top
frame executes when it has its arguments, otherwise the next child is pushed; a
callable pushes a continuation, a finished one returns its value. Every
operation is an operator named as in the code. A pad's parent is always the pad
of a continuation below, so it is a position in the stack.

`Protocol` goes from messages to programs: `parts_to_read_actions` and
`parts_to_write_actions` (sema), then `visit_read`, `visit_write`, the loops,
`generate_transition_info`, `get_transition_condition` and
`construct_state_map` (generate.cpp). Where the code returns `nullopt`, so does
the operator.

`Session` composes the two: a client and a server run the generated programs,
each unblocked as the runner does it, with the application's callbacks and a
network that cuts the stream anywhere. Reads run on real octets, so the writer's
operations and the reader's must agree on every octet. An interpreter that can
go on does so in the step that unblocks it, since nothing else looks at its
state: the threads around it are `InterpreterRunner`'s subject.
`MCSession` has the two protocols, a request with headers and the same with
version numbers behind them, and checks that the interpreter computes the
factorial of `tests/009-recursive-factorial.cpp` for 0 to 10.

`GeneratedCode` has what the printed C++ does, not how it is printed: the
parser of a message (stage, field buffers, `NeedMoreData`, `Complete`, `Error`),
the serializer's chunks, the state machine that tries its parsers in turn.
Its recursion is in recursive functions, over the positions of the input and the
stages of a parser, so that it can be proved about. `GeneratedSession` lets a generated client and a generated server talk; an agent
drives its state machine itself or through the generated runner. The parsers of
a state come from an unordered map, so any order is an initial state.
The protocol is the constant `States`: of each agent, the states with their
transitions. `MCGeneratedSession` has a protocol in the shape of
`examples/smtpserver/smtp.networkprotocoldsl`, which `collect_transitions` makes
of its messages, checks dot-stuffing of whole messages for every content of up to
five octets, and evaluates the hypotheses of the theorems for it.

### The libuv side

`LibuvServer` has the loop thread (polling, or running queued work), the pusher
thread, the thread in `LibuvServerWrapper::stop`, and the interpreters as they
are seen from there. `MCLibuvServer` adds the symmetry set. `LibuvClient` has the
application's thread (start, connection result, `result()`, shutdown of the work
queue, destructor), the loop thread and the pusher; here `push_work` is two
steps, the test of `shutdown_called_` and the push. `GeneratedServer` has the
owner's thread and the loop thread; a runner is seen through `IConnectionRunner`.
`WorkQueue` has what their properties share: the data of one kind of item in a
queue (`DataOf`), the buffers written so far (`Written`), the writes that the
socket has not taken (`NotTaken`).

`libuv` is modelled by how the code uses it: one callback at a time, close
callbacks in a later iteration, writes completed in order or cancelled by a
close, an assertion against closing a handle twice. A failed assertion and a use
of deleted data set `aborted`, and the properties say when that may happen.

## The runs

| Run | Checks | Instance and why it is enough |
|---|---|---|
| `signal` | `NoLostWakeup`, `WakeupPending`, `WorkIsTaken` | three notifiers, one waiter: a notify in progress, one that overtakes it and one that follows |
| `collection` | `SnapshotsIdentified`, `ImplementsRegistry`, `RunningNotReplaced`, `RemovedStaysRemoved`, `CallsReturn` | two threads, two descriptors, two contexts, four transactions: a transaction can lose twice, a descriptor can be reused after an exit |
| `runner` | `TypeOK`, `StreamIntact`, `OneCallback`, `StopsWhenDone`, `CallbackAnswered`, `DeliveredIsProcessed`, `EofEndsInterpreter`, `LoopsStop` | one interpreter that reads two octets, looks ahead at two, reads one, calls and writes; up to four octets, one more than it reads; insertion, removal, eof and stop at any time. The safety properties are proved for any number of interpreters |
| `server_safety` | `OutputInOrder`, `NoDanglingConnection` | two connections, two output buffers, stop at any time; connections are symmetric |
| `server_liveness` | `ExitedIsClosed`, `OutputIsTaken`, `StopCompletes` | one connection, two output buffers |
| `read_framing` | `FramingIndependent`, `DecidedIsEvaluated` | five programs, every stream of up to five octets of `\r`, `\n`, `1`, every cut and every interleaving with the interpreter |
| `session` | `FieldsDelivered`, `NothingLeftOver`, `BothFinish` | a request with a field and a list of one or two headers, two responses told apart by their first octet, and the end, which is eof; fields that are empty or contain half of a terminator; every cut. What a list loses is the subject of `session_values` |
| `generated` | `ReceivedAsSent`, `NothingHeldBack`, `StatesAgree`, `NoFalseAlarm`, `BothClose` | greeting, mail with an escaped content, quit, two answers, goodbye; every order of the parsers, every size of a write, every cut that `MayCut` allows; the server uses the runner, the client its state machine |
| `generated_server` | `OutputIntact`, `DataOutlivesHandle`, `ClosedOnce`, `LastMessageCloses`, `ServerStops` | two connections, runners that send up to two messages; bind, accept, read and write failures, stop at any time |
| `client` | `OutputInOrder`, `AbortsOnlyWhenBroken`, `NoWorkLeft`, `ClientFinishes` | three output buffers; failed connects, failed and cancelled writes, eof |

Deadlock is checked for `NotificationSignal`, which never ends. In the others
the system may stop: everybody has exited, or all transactions, data and messages
that the bounds allow are used up.

Two runs show that statements of the repository do not hold:

| Run | Statement | What happens |
|---|---|---|
| `server_output_lost` | "Drain all outgoing data from the interpreter's output_buffer." (`libuvserverrunner.cpp:83`) | an interpreter that writes and exits between two visits of the pusher loses its output |
| `session_values` | `for header in headers { ... } terminator { "\r\n" }` (`README.md:101-106`), which the hand-written program reads with the look for the end before each element (`notes/operations-read-http-request.txt:16-20`, `tests/testlibs/http_message_optrees.cpp:74-77`) | the generated loop looks for the end after it has read an element and before it returns it: the last header is dropped, and a request with one header arrives with none |
| | the parts `"HTTP/" major_version "." minor_version` (`tests/data/023-source-code-http-client-server.txt:34`) | the read of a number has its terminator's read as a child that is never executed; the second number is an error, stored as the field's value |

The counterexample of `session_values` is one request with a header and two
numbers. In its last state the list of headers is empty and `minor` is an error,
while `target` and `major` are as they were sent. The two do not depend on each
other: either field alone violates `DeliveredAsSent`. In `session`, whose messages
have lists and no numbers, `FieldsDelivered` holds: nothing but the ends of the
lists is missing.

### Bounds

`MaxTx` (transactions in all), `MaxOctets` (octets sent to an interpreter),
`MaxOutput` (output buffers, or messages of a runner), `MaxStream` and `Alphabet`
(streams), `MaxMessages` (after so many, the applications of a session close).
Each is a guard of the environment, never of the code.

### Fairness

- Signal: a thread in `notify()` finishes it and a waiter keeps scanning; nobody
  has to publish.
- Manager: a thread inside `do_transaction` keeps running, and a weak
  compare-exchange that could succeed again and again does not fail each time
  (strong fairness of its success).
- Runner: weak fairness of each of the two threads. The peer, the owner and
  those who insert owe nothing. A callback function returns.
- Server: weak fairness of the loop's queued work, of the pusher, of the stopping
  thread and of the runner's threads' end; strong fairness of the loop's close
  callbacks, which libuv runs in every iteration, though between iterations it
  may be busy with work. Clients and interpreters owe nothing.
- Generated server: weak fairness of the owner, of the loop's callbacks, and of
  each socket, which takes what is written or fails. Peers owe nothing.
- Client: weak fairness of each thread and of the socket; a connect is answered,
  and the client's program ends.
- Sessions: as long as a thread, a callback or the network can go on, one of them
  does. No step leads back to an earlier state, so that is enough for each.

## The proofs

All theorems hold for every value of the constants, under the assumptions named
in the modules (types of the constants; a single waiter of a signal). Those about `InputHandling` also have
the hypothesis `PlainPrograms`, and those about `GeneratedSession` hypotheses about
the protocol, explained below; TLC evaluates them for the run's protocol.

- `Support_proofs`, first part, the signal: `SignalIInv` is `SignalTypeOK` and
  `WakeupPending`.
  `NoLostWakeup` is not inductive: it says nothing of a waiter that has scanned
  and does not sleep yet. `WakeupPending` does: then either a notifier has yet to
  store the flag, or it is set.
- `Support_proofs`, second part, the collection manager: `IInv` adds to `TypeOK` that a snapshot
  with the published address is the published collection
  (`SnapshotsIdentified`), that what a thread will publish is its own
  operation on its snapshot (`ReplacementIsOperation`, a fact about one thread
  that only serves the others), and that a context is inserted by one call, and is
  in no collection before that call has published it (`InsertedOnce`). So a compare-exchange
  that succeeds is that operation on the present collection. `Refinement` proves
  that the transactions implement `InterpreterRegistry`, `RunningIsKept` that a
  running interpreter is not replaced, and `RemovedIsGone` that an interpreter that
  was removed is never put back by a thread that retries with an older snapshot.
- `InterpreterRunner_proofs`: `IInv` is `TypeOK`, `StreamIntact`, `OneCallback`,
  and three parts about the threads. `Reading`: while `handle_read` runs for an
  interpreter, that interpreter is at a read. `RunnerScan` and `CallbackScan`:
  while a snapshot is the published collection, whoever has been passed over
  without being counted active has exited. Those two make
  `StopsWhenDone` provable, which is a property of steps. Each part has a lemma
  with one step per action.

- `WorkQueue_proofs`: what `DataOf` and `NotTaken` do when an item is pushed,
  popped or taken by the socket. `DataOf` is a recursive function, and its facts
  need induction over the length of a queue. The induction theorems of the
  library take an operator as a parameter, which the provers cannot instantiate;
  `LeastNatural` and `Induction` derive from the well-foundedness of the naturals
  a form in which a set stands for the property, and that one they can use.
- `LibuvClient_proofs`: none of the three properties is inductive.
  `ResultInv` says that a result means that the connect failed or the pusher is
  done; `ConnectInv` that there is no pusher and no work but the connect before
  there is a connection; `QueueInv` that the pusher has a write or the close in
  its hand, and that a close, and then a shutdown, are the last items of the
  queue. These three are inductive together and make `OutputInOrder` so.
  `HandleInv` ties the connection's handle to what the pusher does and to the
  close that may be queued: so a close is queued once and nobody uses the
  connection after it (`AbortsOnlyWhenBroken`). `NoWorkLeft` follows.
- `GeneratedServer_proofs`: `CloseInv` says that `closing` is set exactly by who
  calls `uv_close`, and that a connection starts with nothing. With it
  `DataOutlivesHandle`, `ClosedOnce` and `OutputIntact` are inductive together:
  `OutputIntact` needs the data of an open connection to be in the map.
- `LibuvServer_proofs`: `MemberInv` strengthens `NoDanglingConnection`: whoever is
  in the collection has an open connection and no close request, the pusher's
  snapshot is part of the collection, and no close in the queue is for a member.
  So a close that the loop executes is for somebody who was removed before.
  `FreshInv` says that nothing is kept or queued for a connection that was
  not accepted; it gives `OutputInOrder` for a new connection.

- `InputHandling_proofs`: `FramingIndependent` speaks of what has returned, and
  says nothing of an operation that is half way. `IInv` adds two things.
  `FrameInv`: what `handle_read` has joined follows the consumed octets on the
  stream (`Follows`), the queue lies between there and the octets sent, cut
  somewhere (`Cut`), an operation that is shown more has consumed nothing, and
  eof is told only when all is consumed. `KeptInv`: what the context of each kind
  of read has to do with the stream since the operation began. `PlainReads` shows
  for each kind that `handle_read` keeps `Kept`, `PlainMeans` that an operation
  that returns from such a context returns its `Meaning` on the whole rest of the
  stream; the steps of the runner only move buffers between positions.
  `PlainPrograms` excludes what really depends on the cut, as TLC shows with one
  such operation each: escaped reads, and lookaheads with two conditions that can
  both hold of one text (two terminators; a literal that starts another one; a
  terminator and a literal), and two texts that no protocol has, static octets with
  a NUL and an empty terminator. The programs of `read_framing` satisfy it; TLC has
  checked `IInv` also for lookaheads with literals, which that run leaves out
  (`DecidedIsEvaluated` fails for them). What digits spell (`Decimal`) is the same
  fold in the code's model and in the reference, and the proof does not look
  into it.

- `GeneratedSession_proofs`: a conversation of any length is what its messages
  are. `TurnsAlternate` says that in each state one agent sends and that after
  its message it is not its turn. `MessagesRead` says of each message alone, sent
  to a machine that has just come to its state: `Reading` collects the machines
  that may come about while its octets are shown in any pieces, and each of them
  either waits, with nothing but its parsers changed, or has consumed all octets
  and holds the message that was sent. Both are statements about the protocol's
  tables, not about behaviours; TLC evaluates them for the run's protocol, with
  all orders of its parsers (`MessagesReadAlone`). The first half of the proofs is that
  messages do not disturb each other: that nothing of one is left in a buffer, in
  a parser or on the wire when the next comes, that nobody sends while something
  is on its way, and that the octets in the sender's output buffer, on the wire
  and unread at the reader are at all times those of one message. `IInv` says so:
  the conversation is `Settled`, or one message is `InFlight` and the machine it
  goes to is in `Reading` at the number of octets shown. At the last octet `Reading`
  has only machines that hold the message, so a message in flight is not over
  (`FlightNotOver`), which is `NothingHeldBack`. All of this is for the cuts of
  `MayCut`; without that assumption TLC finds `NothingHeldBack` violated. `Reading` is a recursive
  function; `ReadingDefined` shows that it is what its definition says, from a
  least counterexample. The octets move by `ShowMore` and `WriteMore`.

  The second half proves `MessagesRead` of plain messages, from what can be seen in
  a message's octets and in the tables (`PlainMessage`): the octets divide into
  parts, one for each action of a transition the reader has, a literal or a text
  with its terminator at the end of the part and nowhere before; the other messages
  read in the same state begin with a literal of one octet that the message does
  not contain; and what the last buffers hold is the data. `NamesDiffer` says that
  the names by which a machine keeps its parsers are unique. The invariant of the
  reading is `MayBecome`: after m octets the parser of the message waits
  in the stage whose part the m-th octet is in, its buffers hold the texts of the
  parts before and what there is of its own (`Waits`, `Partly`), what was not
  consumed is the beginning of a literal, every other parser is new, and no
  terminator has been cut (`Clean`, from `CutAllowed`). `ParsePlain` is one call of
  `parse()`: stage by stage (`StageGoesOn`) it goes as far as the octets do.
  `TakesPart` and `TakesAll` are one call of `on_bytes_received()`: in any order of
  the parsers (`OrderOfAll`) the others fail and are reset, so that the one which
  reads is the first that does not fail, and it alone keeps its state. Every call is one
  step of the induction (`ShowsMore`). The condition on the other messages is what
  the code needs: a parser whose first literal is longer than what is shown asks
  for more and has the one that was reading reset (see the deviations below). It
  is a strong one: a protocol like the example's, whose commands begin with words
  of four octets, does not satisfy it in the state that reads commands, and the
  run's protocol has short literals for that reason.
  All messages of the run are plain except `Mail`, whose text has an escape and
  which the disjunct of `PlainOrRead` that is `MessageRead` itself covers.

In the proofs of the libuv side, a step that keeps the output in order says where
the buffer it moves was and is: `FrontAndRest`, `MoveFront` and `MoveAcross` for the
sequences, `DataOfTail`, `DataOfAppend`, `NotTakenNext` and their like for the
queues. TLC has checked each `IInv` on the instance of the component's run.

Only model-checked: the liveness properties (fairness and `ENABLED` are outside
the prover); the modules that use `RECURSIVE` operators (`Interpreter`,
`Protocol`, and `Session` that is built on them), which the provers do not
accept; `MessageRead` of a message with an escape, for the run's protocol; that the
octets the serializer makes are those of a plain message (`Serialized` is a fold
over the chunks); and the escaped read of the interpreter.

## Known deviations

Reading the code for the models brought up places where it does not do what one
would expect of it. The models have the code as it is, and the runs stay on the
side where the expectation holds, by an instance or by a condition that is
written in the property. None of them is assumed away silently:

- eof: `handle_read` looks at the queue first and at eof second, so data and eof
  that arrive in between are taken for eof alone; and it does not look at eof at
  all while unusable data is queued, so the interpreter waits for ever.
  `EofEndsInterpreter` is stated for an interpreter that has consumed everything.
- An escaped read that waits appends what it has seen again
  (`readoctetsuntilterminator.cpp:59`), and a literal condition needs one octet
  more than the literal (`transitionlookahead.cpp:94`). `read_framing` has
  neither; the session's messages have text after their literals.
- Of two conditions of a lookahead that can both hold, the one that has arrived
  first decides (`transitionlookahead.cpp:10`), so the cut of the stream does.
- Static octets are compared with `strncmp`, which stops at a NUL
  (`readstaticoctets.cpp:17`), and an empty terminator of a list is only seen once
  an octet has arrived (`terminatelistifreadahead.cpp:9`): the models have both
  (`EqualTexts`, `MayStillMatch`), no run sends a NUL or has an empty terminator,
  and `PlainRead` excludes them.
- A digit 9 ends a number (`readintfromascii.cpp:43`), and `errno` is tested
  without having been cleared.
- A list arrives without its last element (`generate.cpp:300`): `session_values`
  shows it, and `FieldsDelivered` asks of a list only that what arrives is a
  beginning of it. An empty list cannot be written, and a loop over something that is not a
  list recurses without end (`functioncallforeach.cpp:18` and `:21`). An error
  looked up in a dictionary becomes a `TypeError` (`dictionaryget.hpp:21`).
- Errors that a read leaves are stored by `LexicalPadSet` and the program goes
  on (`lexicalpad.cpp:18`).
- Generated code: a terminator or an escape sequence that two reads
  share is missed (`NothingHeldBack` fails when a read may end between CR and LF;
  the `generated` run and the theorems have the assumption `MayCut`); an
  empty field cuts the message off; a parser that asks for more data keeps the
  message even if another would have matched; while the rest of a message
  arrives, the parsers before its own are shown it too, and may take it for a
  message of theirs or, asking for more, have the one that was reading reset
  (`generate_state_machine.cpp:254`); text that is no number makes
  `std::stoul` throw through the state machine; a runner in a state without
  outputs never returns; loops name members that the generated types do not have.
- `GeneratedServerWrapper` drops what the runner did not consume, never closes a
  runner that closes without output, and frees the connection at once when
  accepting failed, while its handle is still closing.
- The server's and the client's pushers test `exited` before they drain.
  `LibuvServerRunner` can close a handle twice; the client can, once a write has
  failed. `stop()` of a server that was not bound, or not started, never returns,
  nor does the client's result if it is asked for before the connection is made.
- The destructor of `AsyncWorkQueue` waits for a loop that may have ended.

## Not modelled, and the plan

Left: a proof of `FieldsDelivered` and `NothingLeftOver` of `Session`, which needs
the recursion of `Protocol` and `Interpreter` (`prepare`, the generation of nested
loops) written as recursive functions, as was done for `GeneratedCode`.

Not modelled: the lexer (a table of regular expressions given to lexertl) and the
recursive-descent parser (a pure function from tokens to the tree at which
`Protocol` begins): both are without state and are compared with their grammar
best by tests; the printing of trees; the text layout of generated code; the
generated `on_eof`, and the combined `Parser` and `Serializer` classes, which the
generated state machine does not use; the examples; libuv and lexertl beyond how
the code uses them.

What the models leave out of the modelled parts: in `LibuvServer`, `uv_write`
completes at once and takes the whole buffer, and the destructors; `errno`;
descriptors that the operating system reuses while a connection is closing (a
connection is its own descriptor in `LibuvServer` and `GeneratedServer`);
integers of more than 32 bits; `max_length` and the other type parameters that
neither back end looks at.
