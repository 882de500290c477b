------------------------------- MODULE Session -------------------------------
(***************************************************************************)
(* A client and a server that run the programs generated from one protocol *)
(* description and talk over a connection: two interpreters, each with its *)
(* runner's handling of blocked operations, the application's callbacks,   *)
(* and a network that delivers what was written in order, cut in any way.  *)
(*                                                                         *)
(* The threads of one runner and their signals are module                  *)
(* InterpreterRunner's subject. Here an interpreter that can go on does so *)
(* in the step that unblocks it: nobody else looks at its state meanwhile. *)
(***************************************************************************)
EXTENDS Protocol

CONSTANTS Messages,       \* the protocol: a sequence of messages
          Payloads,       \* for each message, the dictionaries applications send
          MaxMessages     \* applications close once so many were sent

Agents == {"Client", "Server"}
Other(a) == IF a = "Client" THEN "Server" ELSE "Client"
Program == [a \in Agents |-> generate_program(Messages, a)]
ASSUME ProgramsGenerated == \A a \in Agents : has_value(Program[a])

VARIABLES
  interpreter,            \* of each agent: [stack, state, result]
  input_buffer, eof,      \* InterpreterContext's, of each agent
  waiting,                \* the loop waits for wake_up_interpreter
  wire,                   \* octets on their way to the agent
  requests, responses,    \* callback_request_queue, callback_response_queue
  sent                    \* history: the messages applications sent

vars == <<interpreter, input_buffer, eof, waiting, wire, requests, responses, sent>>

(* interpreter_loop while step() returns Ready.                            *)
RECURSIVE Run(_)
Run(i) == IF i.state = "Ready" THEN Run(step(i.stack)) ELSE i

Init ==
  /\ interpreter = [a \in Agents |-> Run(NewInterpreter(Program[a][1]))]
  /\ input_buffer = [a \in Agents |-> <<>>]
  /\ eof = [a \in Agents |-> FALSE]
  /\ waiting = [a \in Agents |-> FALSE]
  /\ wire = [a \in Agents |-> <<>>]
  /\ requests = [a \in Agents |-> <<>>]
  /\ responses = [a \in Agents |-> <<>>]
  /\ sent = <<>>

BlockedOn(a, reason) ==
  ~waiting[a] /\ interpreter[a].state = "Blocked" /\ interpreter[a].result.tag = reason

Frame(a) == TopFrame(interpreter[a].stack)

(* The blocked operation's context becomes ctx, and the loop goes on.      *)
GoOn(a, ctx) ==
  interpreter' = [interpreter EXCEPT ![a] =
                    Run([@ EXCEPT !.state = "Ready",
                                  !.stack = SetTopFrame(@, [Frame(a) EXCEPT !.ctx = ctx])])]
-----------------------------------------------------------------------------
(* Mutant: what an operation leaves goes behind what arrived later.        *)
LeftoverBehind(rest, queue) == IF rest = <<>> THEN queue ELSE Append(queue, rest)

(* push_front of what an operation leaves.                                 *)
Leftover(rest, queue) == IF rest = <<>> THEN queue ELSE <<rest>> \o queue

(* handle_read: the buffers are joined until the operation consumes. If it *)
(* does not, it is still blocked when nothing was joined and it can't tell.*)
RECURSIVE Joining(_, _, _, _, _)
AfterRead(op, shown, joined, queue, did_join) ==
  IF shown.consumed > 0
    THEN [ctx |-> shown.ctx, still |-> FALSE,
          queue |-> Leftover(Drop(joined, shown.consumed), queue)]
  ELSE IF queue = <<>>
    THEN [ctx |-> shown.ctx, queue |-> <<joined>>,
          still |-> ~ready_to_evaluate(op, shown.ctx) /\ ~did_join]
  ELSE Joining(op, shown.ctx, joined \o Head(queue), Tail(queue), TRUE)

Joining(op, ctx, joined, queue, did_join) ==
  AfterRead(op, handle_read(op, ctx, joined), joined, queue, did_join)

HandleRead(a) ==
  /\ BlockedOn(a, "WaitingForRead") /\ input_buffer[a] # <<>>
  /\ LET r == Joining(Frame(a).node.arg, Frame(a).ctx, Head(input_buffer[a]),
                      Tail(input_buffer[a]), FALSE)
     IN  /\ GoOn(a, r.ctx)
         /\ input_buffer' = [input_buffer EXCEPT ![a] = r.queue]
         /\ waiting' = [waiting EXCEPT ![a] = r.still]
  /\ UNCHANGED <<eof, wire, requests, responses, sent>>

(* The queue is empty: handle_eof, or blocked.                             *)
HandleEof(a) ==
  /\ BlockedOn(a, "WaitingForRead") /\ input_buffer[a] = <<>>
  /\ IF eof[a] THEN GoOn(a, [Frame(a).ctx EXCEPT !.eof = TRUE]) /\ UNCHANGED waiting
     ELSE waiting' = [waiting EXCEPT ![a] = TRUE] /\ UNCHANGED interpreter
  /\ UNCHANGED <<input_buffer, eof, wire, requests, responses, sent>>

HandleWrite(a) ==
  /\ BlockedOn(a, "WaitingForWrite")
  /\ LET ctx == Frame(a).ctx  octets == get_write_buffer(ctx)
     IN  IF eof[a] THEN GoOn(a, [ctx EXCEPT !.eof = TRUE]) /\ UNCHANGED wire
         ELSE /\ GoOn(a, handle_write(ctx, Len(octets)))
              /\ wire' = [wire EXCEPT ![Other(a)] = @ \o octets]
  /\ UNCHANGED <<input_buffer, eof, waiting, requests, responses, sent>>

HandleStartCallback(a) ==
  /\ BlockedOn(a, "WaitingForCallback")
  /\ requests' = [requests EXCEPT ![a] = Append(@, [key |-> Frame(a).node.arg,
                                                    argument |-> Frame(a).acc[1]])]
  /\ GoOn(a, [Frame(a).ctx EXCEPT !.called = TRUE])
  /\ UNCHANGED <<input_buffer, eof, waiting, wire, responses, sent>>

HandleFinishCallback(a) ==
  /\ BlockedOn(a, "WaitingCallbackData")
  /\ IF responses[a] = <<>>
       THEN waiting' = [waiting EXCEPT ![a] = TRUE] /\ UNCHANGED <<interpreter, responses>>
       ELSE /\ GoOn(a, [Frame(a).ctx EXCEPT !.value = Head(responses[a])])
            /\ responses' = [responses EXCEPT ![a] = Tail(@)]
            /\ UNCHANGED waiting
  /\ UNCHANGED <<input_buffer, eof, wire, requests, sent>>
-----------------------------------------------------------------------------
(* The callback thread runs the application's callback for a state: it     *)
(* sends a message of that state, and one that closes at the latest after  *)
(* MaxMessages. In Closed it returns what it was given. The loop is woken. *)
MayAnswer(a, m) ==
  /\ m.agent = a /\ m.when = Head(requests[a]).key
  /\ Len(sent) >= MaxMessages =>
       m.then = "Closed" \/ ~\E k \in DOMAIN Messages : /\ Messages[k].when = m.when
                                                        /\ Messages[k].then = "Closed"

CallbackOfState(a) ==
  \E k \in DOMAIN Messages : \E d \in Payloads[Messages[k].name] :
    /\ MayAnswer(a, Messages[k])
    /\ sent' = Append(sent, [message |-> Messages[k], data |-> d])
    /\ responses' = [responses EXCEPT ![a] =
         Append(@, DynamicList(<<Result("target", <<Messages[k].name>>), Dictionary(d)>>))]

CallbackOfClosed(a) ==
  /\ Head(requests[a]).key = "Closed"
  /\ responses' = [responses EXCEPT ![a] =
       Append(@, DynamicList(<<Result("target", <<"N/A">>), Head(requests[a]).argument>>))]
  /\ UNCHANGED sent

Callback(a) ==
  /\ requests[a] # <<>>
  /\ requests' = [requests EXCEPT ![a] = Tail(@)]
  /\ CallbackOfState(a) \/ CallbackOfClosed(a)
  /\ waiting' = [waiting EXCEPT ![a] = FALSE]
  /\ UNCHANGED <<interpreter, input_buffer, eof, wire>>
-----------------------------------------------------------------------------
(* The network: n octets become one buffer; a connection that its agent is *)
(* done with is closed, after what was written to it.                      *)
Deliver(a, n) ==
  /\ n \in 1..Len(wire[a])
  /\ wire' = [wire EXCEPT ![a] = Drop(@, n)]
  /\ input_buffer' = [input_buffer EXCEPT ![a] = Append(@, Take(wire[a], n))]
  /\ waiting' = [waiting EXCEPT ![a] = FALSE]
  /\ UNCHANGED <<interpreter, eof, requests, responses, sent>>

Exited(a) == interpreter[a].state = "Exited"

DeliverEof(a) ==
  /\ Exited(Other(a)) /\ wire[a] = <<>> /\ ~eof[a]
  /\ eof' = [eof EXCEPT ![a] = TRUE]
  /\ waiting' = [waiting EXCEPT ![a] = FALSE]
  /\ UNCHANGED <<interpreter, input_buffer, wire, requests, responses, sent>>
-----------------------------------------------------------------------------
Interpret(a) == \/ HandleRead(a) \/ HandleEof(a) \/ HandleWrite(a)
                \/ HandleStartCallback(a) \/ HandleFinishCallback(a)
Network(a) == DeliverEof(a) \/ \E n \in 1..Len(wire[a]) : Deliver(a, n)

Next == \E a \in Agents : Interpret(a) \/ Callback(a) \/ Network(a)

(* Weak fairness of Next, with its enabling condition written out: of the  *)
(* threads and the network one that can go on does. No step leads back to  *)
(* an earlier state, so nobody can be kept waiting for ever.               *)
CanGoOn == \E a \in Agents :
  \/ interpreter[a].state = "Blocked" /\ interpreter[a].result # NeverReturns /\ ~waiting[a]
  \/ requests[a] # <<>> \/ wire[a] # <<>> \/ (Exited(Other(a)) /\ ~eof[a])

Fairness == []<>~CanGoOn \/ []<><<Next>>_vars

Spec == Init /\ [][Next]_vars /\ Fairness
-----------------------------------------------------------------------------
(* When a state's callback is called, both agents are at the same point of *)
(* the conversation: the state is the one the last message sent leads to,  *)
(* and the argument is that message's data, or Open's and nothing.         *)
CalledWith(r, field_as_sent(_, _)) ==
  IF sent = <<>> THEN r.key = "Open" /\ r.argument = Dictionary(<<>>)
  ELSE /\ r.key = Last(sent).message.then
       /\ DOMAIN r.argument.data = DOMAIN Last(sent).data
       /\ \A f \in DOMAIN Last(sent).data :
            field_as_sent(r.argument.data[f], Last(sent).data[f])

(* The application is given what the other one sent, value for value,      *)
(* however the network cut it. A protocol with two numbers in a message    *)
(* (generate.cpp:145) or with a list (generate.cpp:300) breaks it.         *)
DeliveredAsSent ==
  \A a \in Agents : requests[a] # <<>> =>
    CalledWith(Head(requests[a]), LAMBDA got, put : got = put)

(* The fields that are no lists are given as they were sent, those before  *)
(* a list and in the messages after it included, no list has an element    *)
(* that was not sent there, and each message calls the callback of its own *)
(* state, however the network cut it: the read operations, the lookahead   *)
(* and handle_read together lose no octet. (That a list's last element is  *)
(* lost is what DeliveredAsSent finds.)                                    *)
FieldsDelivered ==
  \A a \in Agents : requests[a] # <<>> =>
    CalledWith(Head(requests[a]),
      LAMBDA got, put :
        IF put.tag = "list" THEN got.tag = "list" /\ IsPrefix(got.data, put.data)
                            ELSE got = put)

(* Nothing is left over: an agent whose turn it is to send has read        *)
(* everything that was sent to it.                                         *)
NothingLeftOver ==
  \A a \in Agents : requests[a] # <<>> => wire[a] = <<>> /\ input_buffer[a] = <<>>

(* The conversation ends for both in Closed, without an error.             *)
BothFinish ==
  <>[](\A a \in Agents : Exited(a) /\ interpreter[a].result.tag = "dict")

=============================================================================
