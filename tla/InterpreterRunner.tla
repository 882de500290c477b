-------------------------- MODULE InterpreterRunner -------------------------
(***************************************************************************)
(* InterpreterRunner: the thread of interpreter_loop and the thread of     *)
(* callback_loop over the interpreters of one InterpreterCollectionManager,*)
(* with the I/O thread that feeds input_buffer and eof.                    *)
(*                                                                         *)
(* A program is a sequence of the operations the runner can tell apart: a  *)
(* read that consumes `need` octets, a lookahead that needs `need` octets  *)
(* and consumes none, a write and a callback. An octet is its position in  *)
(* the connection's stream, so a buffer of the input queue is the interval *)
(* of positions it holds, octets lo+1..hi.                                 *)
(*                                                                         *)
(* A signal is its sticky flag: notify() sets it, wait() blocks until it   *)
(* is set and clears it. Module NotificationSignal justifies this: with    *)
(* one waiter no notification is lost. The queues' operations are atomic   *)
(* (MutexLockQueue holds its mutex); a thread's steps between two of them  *)
(* that touch only its own state belong to the same action.                *)
(***************************************************************************)
EXTENDS Naturals, Sequences

CONSTANTS Interps,     \* interpreter contexts (each has its own descriptor)
          Program,     \* Program[i]: the operations interpreter i executes
          MaxOctets    \* bound: MaxOctets[i] octets are sent to interpreter i

OpKinds == {"read", "look", "write", "callback"}

ASSUME InterpsAssumption == Interps # {}
ASSUME ProgramAssumption ==
  Program \in [Interps -> Seq([kind : OpKinds, need : Nat])]
ASSUME NeedAssumption ==
  \A i \in Interps : \A k \in 1..Len(Program[i]) :
    Program[i][k].kind \in {"read", "look"} => Program[i][k].need > 0
ASSUME MaxOctetsAssumption == MaxOctets \in [Interps -> Nat]

VARIABLES
  \* The manager's collection and the runner's stop flag.
  members,      \* the interpreters in the published collection
  version,      \* which collection object is published
  inserted,     \* the interpreters that insert_interpreter has created
  exit_when_done,
  \* The signals that the two loops wait on.
  wake_up_interpreter, wake_up_for_callback,
  \* InterpreterContext, per interpreter.
  input_buffer, output_buffer, callback_request_queue, callback_response_queue,
  eof, exited,
  received,     \* octets the I/O thread has pushed so far
  consumed,     \* octets operations have consumed so far
  \* The interpreter: the operation it is at and that operation's context.
  ip, ready, called, ctxEof,
  \* interpreter_loop: program counter and locals.
  rpc, rtodo, rversion, ractive, rready, rretry, rexit, cur, joined, did_join,
  \* callback_loop: program counter and locals.
  cpc, ctodo, cversion, cactive, ccount, cexit, cbdata

collection == <<members, version, inserted, exit_when_done>>
signals    == <<wake_up_interpreter, wake_up_for_callback>>
queues     == <<output_buffer, callback_request_queue, callback_response_queue>>
stream     == <<input_buffer, eof, received, consumed>>
operation  == <<ip, ready, called, ctxEof>>
runner     == <<rpc, rtodo, rversion, ractive, rready, rretry, rexit, cur,
                joined, did_join>>
callbacks  == <<cpc, ctodo, cversion, cactive, ccount, cexit, cbdata>>

vars == <<collection, signals, queues, stream, exited, operation, runner, callbacks>>

RunnerPCs   == {"top", "scan", "join", "pushfront", "eofcheck",
                "compare", "wait", "done"}
CallbackPCs == {"top", "scan", "call", "compare", "wait", "done"}
Fragments   == [lo : Nat, hi : Nat]
NoInterp    == CHOOSE i \in Interps : TRUE  \* a local that is out of scope
NoFragment  == [lo |-> 0, hi |-> 0]
NoRequest   == [interp |-> NoInterp, key |-> 0]
OpIndices(i) == 1..Len(Program[i]) + 1

CollectionType ==
  /\ members \subseteq inserted /\ inserted \subseteq Interps
  /\ version \in Nat
  /\ exit_when_done \in BOOLEAN

QueueType ==
  /\ output_buffer \in [Interps -> Seq(Nat)]
  /\ callback_request_queue \in [Interps -> Seq(Nat)]
  /\ callback_response_queue \in [Interps -> Seq(Nat)]

StreamType ==
  /\ input_buffer \in [Interps -> Seq(Fragments)]
  /\ eof \in [Interps -> BOOLEAN]
  /\ received \in [Interps -> Nat] /\ consumed \in [Interps -> Nat]

OperationType ==
  /\ ip \in [Interps -> Nat] /\ \A i \in Interps : ip[i] \in OpIndices(i)
  /\ ready \in [Interps -> BOOLEAN] /\ called \in [Interps -> BOOLEAN]
  /\ ctxEof \in [Interps -> BOOLEAN] /\ exited \in [Interps -> BOOLEAN]

RunnerType ==
  /\ rpc \in RunnerPCs /\ rtodo \subseteq Interps /\ rversion \in Nat
  /\ ractive \in BOOLEAN /\ rready \in BOOLEAN /\ rretry \in BOOLEAN
  /\ rexit \in BOOLEAN /\ did_join \in BOOLEAN
  /\ cur \in Interps /\ joined \in Fragments

CallbackType ==
  /\ cpc \in CallbackPCs /\ ctodo \subseteq Interps /\ cversion \in Nat
  /\ cactive \in BOOLEAN /\ ccount \in BOOLEAN /\ cexit \in BOOLEAN
  /\ cbdata \in [interp : Interps, key : Nat]

SignalType == wake_up_interpreter \in BOOLEAN /\ wake_up_for_callback \in BOOLEAN

TypeOK ==
  /\ CollectionType /\ SignalType /\ QueueType /\ StreamType /\ OperationType
  /\ RunnerType /\ CallbackType

Init ==
  /\ members = {} /\ version = 0 /\ inserted = {}
  /\ exit_when_done = FALSE
  /\ wake_up_interpreter = FALSE /\ wake_up_for_callback = FALSE
  /\ input_buffer = [i \in Interps |-> <<>>]
  /\ output_buffer = [i \in Interps |-> <<>>]
  /\ callback_request_queue = [i \in Interps |-> <<>>]
  /\ callback_response_queue = [i \in Interps |-> <<>>]
  /\ eof = [i \in Interps |-> FALSE] /\ exited = [i \in Interps |-> FALSE]
  /\ received = [i \in Interps |-> 0] /\ consumed = [i \in Interps |-> 0]
  /\ ip = [i \in Interps |-> 1]
  /\ ready = [i \in Interps |-> FALSE] /\ called = [i \in Interps |-> FALSE]
  /\ ctxEof = [i \in Interps |-> FALSE]
  /\ rpc = "top" /\ rtodo = {} /\ rversion = 0
  /\ ractive = FALSE /\ rready = FALSE /\ rretry = FALSE /\ rexit = FALSE
  /\ cur = NoInterp /\ joined = NoFragment /\ did_join = FALSE
  /\ cpc = "top" /\ ctodo = {} /\ cversion = 0
  /\ cactive = FALSE /\ ccount = FALSE /\ cexit = FALSE
  /\ cbdata = NoRequest
-----------------------------------------------------------------------------
(* The manager, as the loops see it: every change publishes a new object   *)
(* and notifies all signals. A connection may still be accepted after      *)
(* exit_when_done is set, or even after the loops have stopped.            *)
NotifyBoth == wake_up_interpreter' = TRUE /\ wake_up_for_callback' = TRUE

InsertInterpreter(i) ==
  /\ i \notin inserted
  /\ inserted' = inserted \union {i}
  /\ members' = members \union {i}
  /\ version' = version + 1
  /\ NotifyBoth
  /\ UNCHANGED <<exit_when_done, queues, stream, exited, operation, runner, callbacks>>

(* The pusher thread removes an interpreter that has exited.               *)
RemoveInterpreter(i) ==
  /\ i \in members
  /\ exited[i]
  /\ members' = members \ {i}
  /\ version' = version + 1
  /\ NotifyBoth
  /\ UNCHANGED <<inserted, exit_when_done, queues, stream, exited, operation, runner,
                 callbacks>>

(* Mutant: the flag is set and nobody is notified.                         *)
SetExitSilently ==
  /\ ~exit_when_done
  /\ exit_when_done' = TRUE
  /\ UNCHANGED <<members, version, inserted, signals, queues, stream, exited, operation,
                 runner, callbacks>>

(* LibuvServerWrapper::stop, LibuvClientWrapper::result: set the flag and  *)
(* notify.                                                                 *)
SetExitWhenDone ==
  /\ ~exit_when_done
  /\ exit_when_done' = TRUE
  /\ NotifyBoth
  /\ UNCHANGED <<members, version, inserted, queues, stream, exited, operation, runner,
                 callbacks>>

(* The read callback with nread > 0: one buffer is pushed.                 *)
Receive(i, n) ==
  /\ i \in members
  /\ ~eof[i]
  /\ received[i] + n <= MaxOctets[i]
  /\ input_buffer' = [input_buffer EXCEPT ![i] =
       Append(@, [lo |-> received[i], hi |-> received[i] + n])]
  /\ received' = [received EXCEPT ![i] = @ + n]
  /\ wake_up_interpreter' = TRUE
  /\ UNCHANGED <<collection, wake_up_for_callback, queues, eof, consumed, exited,
                 operation, runner, callbacks>>

(* The read callback with nread < 0, or a failed write: no more reads.     *)
ReceiveEof(i) ==
  /\ i \in members
  /\ ~eof[i]
  /\ eof' = [eof EXCEPT ![i] = TRUE]
  /\ wake_up_interpreter' = TRUE
  /\ UNCHANGED <<collection, wake_up_for_callback, queues, input_buffer, received,
                 consumed, exited, operation, runner, callbacks>>
-----------------------------------------------------------------------------
(* The current operation of interpreter i and what Interpreter::step()     *)
(* finds when it evaluates it.                                             *)
AtEnd(i) == ip[i] = Len(Program[i]) + 1
Op(i) == Program[i][ip[i]]

WaitingForRead(i) ==
  ~AtEnd(i) /\ Op(i).kind \in {"read", "look"} /\ ~ready[i] /\ ~ctxEof[i]
WaitingForWrite(i) ==
  ~AtEnd(i) /\ Op(i).kind = "write" /\ ~ready[i] /\ ~ctxEof[i]
WaitingForCallback(i) ==
  ~AtEnd(i) /\ Op(i).kind = "callback" /\ ~called[i]
WaitingCallbackData(i) ==
  ~AtEnd(i) /\ Op(i).kind = "callback" /\ called[i] /\ ~ready[i]
Blocked(i) ==
  WaitingForRead(i) \/ WaitingForWrite(i) \/ WaitingForCallback(i)
                    \/ WaitingCallbackData(i)

(* Mutant: an operation that saw eof completes the one after it as well.   *)
NextIpSkips(i, error) ==
  IF error THEN Len(Program[i]) + 1 ELSE IF ready[i] THEN ip[i] + 1 ELSE ip[i] + 2

(* An operation that has what it needs returns a value. An octet mismatch, *)
(* an error returned by a callback, or eof instead of data ends the        *)
(* program: the enclosing sequence stops at the first RuntimeError, and a  *)
(* lookahead at eof leaves the read states.                                *)
NextIp(i, error) == IF error \/ ~ready[i] THEN Len(Program[i]) + 1 ELSE ip[i] + 1

(* interpreter_loop: auto collection = mgr.get_collection(). The counters  *)
(* of the pass were cleared when the previous pass ended.                  *)
RunnerSnapshot ==
  /\ rpc = "top"
  /\ rpc' = "scan"
  /\ rtodo' = members /\ rversion' = version
  /\ UNCHANGED <<collection, signals, queues, stream, exited, operation, callbacks,
                 ractive, rready, rretry, rexit, cur, joined, did_join>>

(* The visit of interpreter i is over (`unblocked` counts it as ready) and *)
(* handle_read's locals go out of scope.                                   *)
Visited(i, active, unblocked, retry) ==
  /\ rpc' = "scan"
  /\ rtodo' = rtodo \ {i}
  /\ ractive' = (ractive \/ active)
  /\ rready' = (rready \/ unblocked)
  /\ rretry' = (rretry \/ retry)
  /\ cur' = NoInterp /\ joined' = NoFragment /\ did_join' = FALSE
  /\ UNCHANGED <<rversion, rexit>>

Visit(i) == rpc = "scan" /\ i \in rtodo

(* if (context->exited.load()) continue;                                   *)
SkipExited(i) ==
  /\ Visit(i)
  /\ exited[i]
  /\ Visited(i, FALSE, FALSE, FALSE)
  /\ UNCHANGED <<collection, signals, queues, stream, exited, operation, callbacks>>

(* step() evaluates the operation: its frame is popped and the next        *)
(* operation starts with a fresh context.                                  *)
StepReady(i, error) ==
  /\ Visit(i)
  /\ ~exited[i] /\ ~AtEnd(i) /\ ~Blocked(i)
  /\ error => Op(i).kind # "write"
  /\ ip' = [ip EXCEPT ![i] = NextIp(i, error)]
  /\ ready' = [ready EXCEPT ![i] = FALSE]
  /\ called' = [called EXCEPT ![i] = FALSE]
  /\ ctxEof' = [ctxEof EXCEPT ![i] = FALSE]
  /\ Visited(i, TRUE, TRUE, FALSE)
  /\ UNCHANGED <<collection, signals, queues, stream, exited, callbacks>>

(* step() returns Exited: store the flag, fulfil the promise, notify.      *)
StepExited(i) ==
  /\ Visit(i)
  /\ ~exited[i] /\ AtEnd(i)
  /\ exited' = [exited EXCEPT ![i] = TRUE]
  /\ NotifyBoth
  /\ Visited(i, FALSE, FALSE, FALSE)
  /\ UNCHANGED <<collection, queues, stream, operation, callbacks>>

(* handle_write: eof goes to the operation, otherwise its buffer is        *)
(* queued for output. (The signals it notifies are waited on elsewhere.)   *)
HandleWrite(i) ==
  /\ Visit(i)
  /\ ~exited[i] /\ WaitingForWrite(i)
  /\ IF eof[i]
       THEN /\ ctxEof' = [ctxEof EXCEPT ![i] = TRUE]
            /\ UNCHANGED <<ready, output_buffer>>
       ELSE /\ output_buffer' = [output_buffer EXCEPT ![i] = Append(@, ip[i])]
            /\ ready' = [ready EXCEPT ![i] = TRUE]
            /\ UNCHANGED ctxEof
  /\ Visited(i, TRUE, TRUE, FALSE)
  /\ UNCHANGED <<collection, signals, callback_request_queue, callback_response_queue,
                 stream, exited, ip, called, callbacks>>

(* Mutant: set_callback_called is forgotten.                               *)
HandleStartCallbackAgain(i) ==
  /\ Visit(i)
  /\ ~exited[i] /\ WaitingForCallback(i)
  /\ Len(callback_request_queue[i]) < 2
  /\ callback_request_queue' = [callback_request_queue EXCEPT ![i] = Append(@, ip[i])]
  /\ wake_up_for_callback' = TRUE
  /\ Visited(i, TRUE, TRUE, FALSE)
  /\ UNCHANGED <<collection, wake_up_interpreter, output_buffer, callback_response_queue,
                 stream, exited, operation, callbacks>>

(* handle_start_callback.                                                  *)
HandleStartCallback(i) ==
  /\ Visit(i)
  /\ ~exited[i] /\ WaitingForCallback(i)
  /\ callback_request_queue' = [callback_request_queue EXCEPT ![i] = Append(@, ip[i])]
  /\ called' = [called EXCEPT ![i] = TRUE]
  /\ wake_up_for_callback' = TRUE
  /\ Visited(i, TRUE, TRUE, FALSE)
  /\ UNCHANGED <<collection, wake_up_interpreter, output_buffer, callback_response_queue,
                 stream, exited, ip, ready, ctxEof, callbacks>>

(* handle_finish_callback: take the answer, or stay blocked.               *)
HandleFinishCallback(i) ==
  /\ Visit(i)
  /\ ~exited[i] /\ WaitingCallbackData(i)
  /\ IF callback_response_queue[i] # <<>>
       THEN /\ callback_response_queue' = [callback_response_queue EXCEPT ![i] = Tail(@)]
            /\ ready' = [ready EXCEPT ![i] = TRUE]
            /\ Visited(i, TRUE, TRUE, FALSE)
       ELSE /\ Visited(i, TRUE, FALSE, FALSE)
            /\ UNCHANGED <<callback_response_queue, ready>>
  /\ UNCHANGED <<collection, signals, output_buffer, callback_request_queue, stream,
                 exited, ip, called, ctxEof, callbacks>>
-----------------------------------------------------------------------------
(* handle_read. What the operation does with octets lo+1..hi: a read takes *)
(* its octets once they are all there, a lookahead keeps a copy of what it *)
(* is shown and is ready once that is enough.                              *)
Takes(i, frag) == Op(i).kind = "read" /\ frag.hi - frag.lo >= Op(i).need
Shown(i, frag) == frag.hi - frag.lo >= Op(i).need

(* The operation consumes part of frag and the rest goes back to the front.*)
Consume(i, frag, queue) ==
  LET rest == [lo |-> frag.lo + Op(i).need, hi |-> frag.hi]
  IN  /\ consumed' = [consumed EXCEPT ![i] = @ + Op(i).need]
      /\ input_buffer' = [input_buffer EXCEPT ![i] =
           IF rest.lo < rest.hi THEN <<rest>> \o queue ELSE queue]
      /\ ready' = [ready EXCEPT ![i] = TRUE]
      /\ Visited(i, TRUE, TRUE, FALSE)

(* The operation consumed nothing: the buffer is held for joining.         *)
Hold(i, frag, queue, didJoin) ==
  /\ input_buffer' = [input_buffer EXCEPT ![i] = queue]
  /\ ready' = [ready EXCEPT ![i] = Op(i).kind = "look" /\ Shown(i, frag)]
  /\ rpc' = "join" /\ cur' = i /\ joined' = frag /\ did_join' = didJoin
  /\ UNCHANGED <<consumed, rtodo, rversion, ractive, rready, rretry, rexit>>

(* The first pop finds a buffer.                                           *)
ReadPop(i) ==
  /\ Visit(i)
  /\ ~exited[i] /\ WaitingForRead(i)
  /\ input_buffer[i] # <<>>
  /\ LET frag == Head(input_buffer[i])
         rest == Tail(input_buffer[i])
     IN  IF Takes(i, frag) THEN Consume(i, frag, rest) ELSE Hold(i, frag, rest, FALSE)
  /\ UNCHANGED <<collection, signals, queues, eof, received, exited, ip, called, ctxEof,
                 callbacks>>

(* A pop of the joining loop finds another buffer.                         *)
ReadJoin ==
  /\ rpc = "join"
  /\ input_buffer[cur] # <<>>
  /\ LET both == [lo |-> joined.lo, hi |-> Head(input_buffer[cur]).hi]
         rest == Tail(input_buffer[cur])
     IN  IF Takes(cur, both) THEN Consume(cur, both, rest) ELSE Hold(cur, both, rest, TRUE)
  /\ UNCHANGED <<collection, signals, queues, eof, received, exited, ip, called, ctxEof,
                 callbacks>>

(* A pop of the joining loop finds the queue empty.                        *)
ReadJoinEmpty ==
  /\ rpc = "join"
  /\ input_buffer[cur] = <<>>
  /\ rpc' = "pushfront"
  /\ UNCHANGED <<collection, signals, queues, stream, exited, operation, callbacks,
                 rtodo, rversion, ractive, rready, rretry, rexit, cur, joined, did_join>>

(* Mutant: the joined buffer is pushed to the back of the queue.           *)
ReadPushBack ==
  /\ rpc = "pushfront"
  /\ input_buffer' = [input_buffer EXCEPT ![cur] = Append(@, joined)]
  /\ Visited(cur, TRUE, ready[cur], ~ready[cur] /\ did_join)
  /\ UNCHANGED <<collection, signals, queues, eof, received, consumed, exited, operation,
                 callbacks>>

(* Mutant: ready_to_evaluate is not asked after the push.                  *)
ReadPushFrontBlocked ==
  /\ rpc = "pushfront"
  /\ input_buffer' = [input_buffer EXCEPT ![cur] = <<joined>> \o @]
  /\ Visited(cur, TRUE, FALSE, did_join)
  /\ UNCHANGED <<collection, signals, queues, eof, received, consumed, exited, operation,
                 callbacks>>

(* input_buffer.push_front(joined), then Unblocked if the operation is     *)
(* ready_to_evaluate, NeedsRetry if buffers were joined, else StillBlocked.*)
ReadPushFront ==
  /\ rpc = "pushfront"
  /\ input_buffer' = [input_buffer EXCEPT ![cur] = <<joined>> \o @]
  /\ Visited(cur, TRUE, ready[cur], ~ready[cur] /\ did_join)
  /\ UNCHANGED <<collection, signals, queues, eof, received, consumed, exited, operation,
                 callbacks>>

(* The first pop finds the queue empty; eof is loaded afterwards.          *)
ReadPopEmpty(i) ==
  /\ Visit(i)
  /\ ~exited[i] /\ WaitingForRead(i)
  /\ input_buffer[i] = <<>>
  /\ rpc' = "eofcheck" /\ cur' = i
  /\ UNCHANGED <<collection, signals, queues, stream, exited, operation, callbacks,
                 rtodo, rversion, ractive, rready, rretry, rexit, joined, did_join>>

(* Mutant: the operation is told, but it counts as still blocked.          *)
ReadEofCheckBlocked ==
  /\ rpc = "eofcheck"
  /\ ctxEof' = [ctxEof EXCEPT ![cur] = eof[cur]]
  /\ Visited(cur, TRUE, FALSE, FALSE)
  /\ UNCHANGED <<collection, signals, queues, stream, exited, ip, ready, called,
                 callbacks>>

ReadEofCheck ==
  /\ rpc = "eofcheck"
  /\ ctxEof' = [ctxEof EXCEPT ![cur] = eof[cur]]
  /\ Visited(cur, TRUE, eof[cur], FALSE)
  /\ UNCHANGED <<collection, signals, queues, stream, exited, ip, ready, called,
                 callbacks>>
-----------------------------------------------------------------------------
(* The end of a pass: exit_when_done is loaded before the collection is    *)
(* compared with the snapshot.                                             *)
RunnerLoadExit ==
  /\ rpc = "scan" /\ rtodo = {}
  /\ rexit' = exit_when_done
  /\ rpc' = "compare"
  /\ UNCHANGED <<collection, signals, queues, stream, exited, operation, callbacks,
                 rtodo, rversion, ractive, rready, rretry, cur, joined, did_join>>

RunnerMayWait == IF ractive THEN ~rready /\ ~rretry ELSE ~rexit
RunnerMayStop == ~ractive /\ rexit

(* Mutant: the loop stops without comparing the collection again.          *)
RunnerCompareStale ==
  /\ rpc = "compare"
  /\ IF RunnerMayStop
       THEN rpc' = "done" /\ wake_up_for_callback' = TRUE
       ELSE /\ rpc' = IF rversion = version /\ RunnerMayWait THEN "wait" ELSE "top"
            /\ UNCHANGED wake_up_for_callback
  /\ ractive' = FALSE /\ rready' = FALSE /\ rretry' = FALSE /\ rexit' = FALSE
  /\ rversion' = 0
  /\ UNCHANGED <<collection, wake_up_interpreter, queues, stream, exited, operation,
                 callbacks, rtodo, cur, joined, did_join>>

RunnerCompare ==
  /\ rpc = "compare"
  /\ IF rversion = version /\ RunnerMayStop
       THEN rpc' = "done" /\ wake_up_for_callback' = TRUE
       ELSE /\ rpc' = IF rversion = version /\ RunnerMayWait THEN "wait" ELSE "top"
            /\ UNCHANGED wake_up_for_callback
  /\ ractive' = FALSE /\ rready' = FALSE /\ rretry' = FALSE /\ rexit' = FALSE
  /\ rversion' = 0
  /\ UNCHANGED <<collection, wake_up_interpreter, queues, stream, exited, operation,
                 callbacks, rtodo, cur, joined, did_join>>

(* wake_up_interpreter.wait().                                             *)
RunnerWait ==
  /\ rpc = "wait"
  /\ wake_up_interpreter
  /\ wake_up_interpreter' = FALSE
  /\ rpc' = "top"
  /\ UNCHANGED <<collection, wake_up_for_callback, queues, stream, exited, operation,
                 callbacks, rtodo, rversion, ractive, rready, rretry, rexit, cur, joined,
                 did_join>>
-----------------------------------------------------------------------------
CallbackSnapshot ==
  /\ cpc = "top"
  /\ cpc' = "scan"
  /\ ctodo' = members /\ cversion' = version
  /\ UNCHANGED <<collection, signals, queues, stream, exited, operation, runner, cactive,
                 ccount, cexit, cbdata>>

CallbackSkipExited(i) ==
  /\ cpc = "scan" /\ i \in ctodo
  /\ exited[i]
  /\ ctodo' = ctodo \ {i}
  /\ UNCHANGED <<collection, signals, queues, stream, exited, operation, runner, cpc,
                 cversion, cactive, ccount, cexit, cbdata>>

(* callback_request_queue.pop(): nothing, or a request to serve.           *)
CallbackPop(i) ==
  /\ cpc = "scan" /\ i \in ctodo
  /\ ~exited[i]
  /\ cactive' = TRUE
  /\ ctodo' = ctodo \ {i}
  /\ IF callback_request_queue[i] # <<>>
       THEN /\ cbdata' = [interp |-> i, key |-> Head(callback_request_queue[i])]
            /\ callback_request_queue' = [callback_request_queue EXCEPT ![i] = Tail(@)]
            /\ ccount' = TRUE
            /\ cpc' = "call"
       ELSE UNCHANGED <<cbdata, callback_request_queue, ccount, cpc>>
  /\ UNCHANGED <<collection, signals, output_buffer, callback_response_queue, stream,
                 exited, operation, runner, cversion, cexit>>

(* Mutant: the interpreter is not notified of the answer.                  *)
CallbackAnswerSilent ==
  /\ cpc = "call"
  /\ callback_response_queue' =
       [callback_response_queue EXCEPT ![cbdata.interp] = Append(@, cbdata.key)]
  /\ cpc' = "scan"
  /\ cbdata' = NoRequest
  /\ UNCHANGED <<collection, signals, output_buffer, callback_request_queue, stream,
                 exited, operation, runner, ctodo, cversion, cactive, ccount, cexit>>

(* The callback function has returned (or the key is unknown, which        *)
(* answers TypeError): push the answer and notify the interpreter.         *)
CallbackAnswer ==
  /\ cpc = "call"
  /\ callback_response_queue' =
       [callback_response_queue EXCEPT ![cbdata.interp] = Append(@, cbdata.key)]
  /\ wake_up_interpreter' = TRUE
  /\ cpc' = "scan"
  /\ cbdata' = NoRequest
  /\ UNCHANGED <<collection, wake_up_for_callback, output_buffer, callback_request_queue,
                 stream, exited, operation, runner, ctodo, cversion, cactive, ccount,
                 cexit>>

CallbackLoadExit ==
  /\ cpc = "scan" /\ ctodo = {}
  /\ cexit' = exit_when_done
  /\ cpc' = "compare"
  /\ UNCHANGED <<collection, signals, queues, stream, exited, operation, runner, ctodo,
                 cversion, cactive, ccount, cbdata>>

CallbackMayWait == IF cactive THEN ~ccount ELSE ~cexit
CallbackMayStop == ~cactive /\ cexit

CallbackCompare ==
  /\ cpc = "compare"
  /\ IF cversion = version /\ CallbackMayStop
       THEN cpc' = "done" /\ wake_up_interpreter' = TRUE
       ELSE /\ cpc' = IF cversion = version /\ CallbackMayWait THEN "wait" ELSE "top"
            /\ UNCHANGED wake_up_interpreter
  /\ cactive' = FALSE /\ ccount' = FALSE /\ cexit' = FALSE
  /\ cversion' = 0
  /\ UNCHANGED <<collection, wake_up_for_callback, queues, stream, exited, operation,
                 runner, ctodo, cbdata>>

CallbackWait ==
  /\ cpc = "wait"
  /\ wake_up_for_callback
  /\ wake_up_for_callback' = FALSE
  /\ cpc' = "top"
  /\ UNCHANGED <<collection, wake_up_interpreter, queues, stream, exited, operation,
                 runner, ctodo, cversion, cactive, ccount, cexit, cbdata>>
-----------------------------------------------------------------------------
HandleRead(i) == ReadPop(i) \/ ReadPopEmpty(i)

InterpreterLoop ==
  \/ RunnerSnapshot
  \/ \E i \in Interps :
       \/ SkipExited(i)
       \/ \E error \in BOOLEAN : StepReady(i, error)
       \/ StepExited(i)
       \/ HandleWrite(i)
       \/ HandleStartCallback(i)
       \/ HandleFinishCallback(i)
       \/ HandleRead(i)
  \/ ReadJoin \/ ReadJoinEmpty \/ ReadPushFront \/ ReadEofCheck
  \/ RunnerLoadExit \/ RunnerCompare \/ RunnerWait

CallbackLoop ==
  \/ CallbackSnapshot
  \/ \E i \in Interps : CallbackSkipExited(i) \/ CallbackPop(i)
  \/ CallbackAnswer
  \/ CallbackLoadExit \/ CallbackCompare \/ CallbackWait

Environment ==
  \/ \E i \in Interps :
       \/ InsertInterpreter(i)
       \/ RemoveInterpreter(i)
       \/ \E n \in 1..MaxOctets[i] : Receive(i, n)
       \/ ReceiveEof(i)
  \/ SetExitWhenDone

Next == InterpreterLoop \/ CallbackLoop \/ Environment

(* The two threads keep running, and a callback function returns. What the *)
(* peer sends, and when the owner stops the runner, is not owed.           *)
Fairness == WF_vars(InterpreterLoop) /\ WF_vars(CallbackLoop)

Spec == Init /\ [][Next]_vars /\ Fairness
-----------------------------------------------------------------------------
(* The interpreter thread holds a buffer of interpreter i that it popped.  *)
Held(i) == rpc \in {"join", "pushfront"} /\ cur = i

(* The buffers of q, in order, hold octets from+1..to, each exactly once.  *)
Chain(q, from, to) ==
  /\ \A k \in 1..Len(q) : q[k].lo < q[k].hi
  /\ \A k \in 1..Len(q) : q[k].lo = IF k = 1 THEN from ELSE q[k-1].hi
  /\ to = IF q = <<>> THEN from ELSE q[Len(q)].hi

(* handle_read: no octet is lost, duplicated or reordered. What is not yet *)
(* consumed is exactly the buffer held for joining followed by the queue,  *)
(* although the I/O thread keeps pushing while buffers are popped, joined  *)
(* and pushed back.                                                        *)
StreamIntact ==
  \A i \in Interps :
    /\ Held(i) => joined.lo = consumed[i] /\ joined.lo < joined.hi
    /\ Chain(input_buffer[i], IF Held(i) THEN joined.hi ELSE consumed[i], received[i])

(* An interpreter that waits for an answer has exactly one request on its  *)
(* way (queued, being served, or answered), for the operation it is at;    *)
(* one that does not wait has none. So no answer reaches another           *)
(* operation, and no interpreter exits with a callback outstanding.        *)
InService(i) == IF cpc = "call" /\ cbdata.interp = i THEN <<cbdata.key>> ELSE <<>>
Outstanding(i) ==
  <<callback_request_queue[i], InService(i), callback_response_queue[i]>>

OneCallback ==
  \A i \in Interps :
    LET call == <<ip[i]>>
    IN  Outstanding(i) \in
          IF ~exited[i] /\ WaitingCallbackData(i)
            THEN {<<call, <<>>, <<>>>>, <<<<>>, call, <<>>>>, <<<<>>, <<>>, call>>}
            ELSE {<<<<>>, <<>>, <<>>>>}

(* callback_loop and interpreter_loop together: a callback that was        *)
(* started is answered and the answer reaches the interpreter, unless it   *)
(* was inserted after callback_loop had stopped.                           *)
CallbackAnswered ==
  \A i \in Interps :
    WaitingCallbackData(i) /\ cpc # "done" ~> ~WaitingCallbackData(i)

(* Once the peer has sent everything the program reads, in whatever        *)
(* fragments, an interpreter that the loops have not missed runs to its    *)
(* end, even if they are being told to stop.                               *)
DeliveredIsProcessed ==
  \A i \in Interps :
    i \in inserted /\ received[i] = MaxOctets[i] /\ rpc # "done" /\ cpc # "done"
      ~> exited[i]

(* LibuvServerWrapper::stop joins both threads: they stop when asked to,   *)
(* once every interpreter has exited.                                      *)
LoopsStop ==
  <>[](exit_when_done /\ \A i \in members : exited[i]) => <>(rpc = "done" /\ cpc = "done")

(* interpreter_loop and callback_loop: a loop only stops at a moment when  *)
(* it was told to and no interpreter of the collection is left running,    *)
(* although interpreters may be inserted while it scans its snapshot.      *)
Stops ==
  \/ rpc # "done" /\ rpc' = "done"
  \/ cpc # "done" /\ cpc' = "done"
StopsWhenDone == [][Stops => exit_when_done /\ \A i \in members : exited[i]]_vars

(* handle_read and handle_write: an interpreter that has consumed all its  *)
(* peer sent before it closed the connection does not wait for more: it is *)
(* told eof, after whatever callback it is in, and exits. (With octets     *)
(* left over it may wait for ever: handle_read then does not look at eof.) *)
EofEndsInterpreter ==
  \A i \in Interps :
    i \in inserted /\ eof[i] /\ consumed[i] = received[i] /\ rpc # "done" /\ cpc # "done"
      ~> exited[i]
-----------------------------------------------------------------------------
(* The inductive invariant of the loops. While a snapshot is the published *)
(* collection, whoever a scan has passed over without counting it active   *)
(* has exited.                                                             *)
RunnerScan ==
  /\ rversion <= version
  /\ rexit => exit_when_done
  /\ rpc \in {"join", "pushfront", "eofcheck"} => cur \in rtodo
  /\ rpc = "compare" => rtodo = {}
  /\ rpc \in {"scan", "join", "pushfront", "eofcheck", "compare"}
     /\ rversion = version /\ ~ractive => \A i \in members \ rtodo : exited[i]

CallbackScan ==
  /\ cversion <= version
  /\ cexit => exit_when_done
  /\ cpc = "compare" => ctodo = {}
  /\ cpc \in {"scan", "call", "compare"}
     /\ cversion = version /\ ~cactive => \A i \in members \ ctodo : exited[i]

(* While the interpreter thread reads for interpreter cur, that is what    *)
(* cur is at; and the callback part of an operation's context is only      *)
(* used, in order, by a callback.                                          *)
Reading ==
  /\ rpc \in {"join", "pushfront", "eofcheck"} =>
       /\ ~exited[cur] /\ ~AtEnd(cur) /\ Op(cur).kind \in {"read", "look"}
       /\ ~ctxEof[cur] /\ ~called[cur]
  /\ rpc = "eofcheck" => ~ready[cur]
  /\ \A i \in Interps : ~AtEnd(i) /\ Op(i).kind = "callback" => (ready[i] => called[i])
  /\ \A i \in Interps : called[i] => ~AtEnd(i) /\ Op(i).kind = "callback"

IInv ==
  TypeOK /\ StreamIntact /\ OneCallback /\ RunnerScan /\ CallbackScan /\ Reading
=============================================================================
