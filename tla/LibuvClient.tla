----------------------------- MODULE LibuvClient -----------------------------
(***************************************************************************)
(* LibuvClientRunner and LibuvClientWrapper: the application's thread that *)
(* connects, waits for the result and shuts the AsyncWorkQueue down, the   *)
(* libuv loop thread with the connection's callbacks, and the pusher       *)
(* thread that moves the interpreter's output to the loop and hands its    *)
(* result on.                                                              *)
(*                                                                         *)
(* The threads of InterpreterRunner are seen as in module LibuvServer: the *)
(* interpreter writes and exits while they run, and they stop when told to *)
(* and nobody in the collection is running. wake_up_for_output is its      *)
(* sticky flag (module NotificationSignal).                                *)
(*                                                                         *)
(* The client never removes its interpreter from the collection, so the    *)
(* branches for an interpreter that is not found are not taken.            *)
(***************************************************************************)
EXTENDS WorkQueue

CONSTANTS MaxOutput    \* bound: buffers the interpreter writes

ASSUME MaxOutputAssumption == MaxOutput \in Nat

VARIABLES
  opc,                 \* the application's thread
  lpc,                 \* the loop thread: in on_connect_client_cb, or not
  work, async, shutdown_called, shutdown_promise,       \* AsyncWorkQueue
  handle, reading,     \* UvConnectionData's; "closed": it is deleted
  writes, done, wire,  \* uv_writes under way, how many the socket took, and what
  connection_result, client_result,
  inserted, exited, interpreter_result, eof, output_buffer, produced,
  exit_when_done, runner_done,          \* InterpreterRunner
  wake_up_for_output,
  ppc, did_something, item,             \* pusher_thread_loop
  broken,              \* history: a write failed or was cancelled
  aborted              \* an assertion of libuv failed, or freed memory was used

queue  == <<work, async, shutdown_called, shutdown_promise>>
conn   == <<handle, reading>>
socket == <<writes, done, wire, broken>>
results == <<connection_result, client_result>>
interpreter == <<inserted, exited, interpreter_result, eof, output_buffer, produced>>
runner == <<exit_when_done, runner_done>>
pusher == <<ppc, did_something, item>>
vars   == <<opc, lpc, queue, conn, socket, results, interpreter, runner,
            wake_up_for_output, pusher, aborted>>

Write(n) == [kind |-> "write", data |-> n]
Item(kind) == [kind |-> kind, data |-> 0]

Writes == [kind : {"write"}, data : 1..MaxOutput]
Items == Writes \cup [kind : {"connect", "close", "shutdown"}, data : {0}]

TypeOK ==
  /\ opc \in {"new", "connecting", "connected", "waiting", "resolved", "shutting", "joining",
              "returned"}
  /\ lpc \in {"poll", "inserted", "failing"}
  /\ work \in Seq(Items)
  /\ async \in {"open", "closing", "closed"}
  /\ shutdown_called \in BOOLEAN /\ shutdown_promise \in BOOLEAN
  /\ handle \in {"none", "connecting", "open", "closing", "closed"}
  /\ reading \in BOOLEAN
  /\ writes \in Seq(1..MaxOutput) /\ done \in 0..Len(writes) /\ wire \in Seq(1..MaxOutput)
  /\ connection_result \in {"unset", "fd", "error"}
  /\ client_result \in {"unset", "value", "error"}
  /\ inserted \in BOOLEAN /\ exited \in BOOLEAN /\ interpreter_result \in BOOLEAN
  /\ eof \in BOOLEAN
  /\ output_buffer \in Seq(1..MaxOutput) /\ produced \in 0..MaxOutput
  /\ exit_when_done \in BOOLEAN /\ runner_done \in BOOLEAN
  /\ wake_up_for_output \in BOOLEAN
  /\ ppc \in {"off", "top", "drain", "test", "push", "wait", "propagate", "done"}
  /\ did_something \in BOOLEAN /\ item \in Items
  /\ broken \in BOOLEAN /\ aborted \in BOOLEAN

Init ==
  /\ opc = "new" /\ lpc = "poll"
  /\ work = <<>> /\ async = "open" /\ shutdown_called = FALSE /\ shutdown_promise = FALSE
  /\ handle = "none" /\ reading = FALSE
  /\ writes = <<>> /\ done = 0 /\ wire = <<>> /\ broken = FALSE
  /\ connection_result = "unset" /\ client_result = "unset"
  /\ inserted = FALSE /\ exited = FALSE /\ interpreter_result = FALSE /\ eof = FALSE
  /\ output_buffer = <<>> /\ produced = 0
  /\ exit_when_done = FALSE /\ runner_done = FALSE /\ wake_up_for_output = FALSE
  /\ ppc = "off" /\ did_something = FALSE /\ item = Item("connect")
  /\ aborted = FALSE
-----------------------------------------------------------------------------
(* The application: start(), its connection result, result(), shutdown()   *)
(* of the queue, and the destructor, which joins the threads. It waits for *)
(* the connection before it asks for the result: result() called earlier   *)
(* may stop the runner before there is an interpreter, and never return.   *)
OwnerAt(pc) == ~aborted /\ opc = pc

Start ==
  /\ OwnerAt("new") /\ opc' = "connecting"
  /\ work' = Append(work, Item("connect"))
  /\ UNCHANGED <<lpc, async, shutdown_called, shutdown_promise, conn, socket, results,
                 interpreter, runner, wake_up_for_output, pusher, aborted>>

Connected ==
  /\ OwnerAt("connecting") /\ opc' = "connected"
  /\ connection_result # "unset"
  /\ UNCHANGED <<lpc, queue, conn, socket, results, interpreter, runner, wake_up_for_output,
                 pusher, aborted>>

ResultCalled ==
  /\ OwnerAt("connected") /\ opc' = "waiting"
  /\ exit_when_done' = TRUE /\ wake_up_for_output' = TRUE
  /\ UNCHANGED <<lpc, queue, conn, socket, results, interpreter, runner_done, pusher, aborted>>

ResultTaken ==
  /\ OwnerAt("waiting") /\ client_result # "unset" /\ opc' = "resolved"
  /\ UNCHANGED <<lpc, queue, conn, socket, results, interpreter, runner, wake_up_for_output,
                 pusher, aborted>>

ShutdownPushes ==
  /\ OwnerAt("resolved") /\ opc' = "shutting"
  /\ work' = Append(work, Item("shutdown"))
  /\ UNCHANGED <<lpc, async, shutdown_called, shutdown_promise, conn, socket, results,
                 interpreter, runner, wake_up_for_output, pusher, aborted>>

ShutdownReturns ==
  /\ OwnerAt("shutting") /\ shutdown_promise /\ opc' = "joining"
  /\ exit_when_done' = TRUE /\ wake_up_for_output' = TRUE
  /\ UNCHANGED <<lpc, queue, conn, socket, results, interpreter, runner_done, pusher, aborted>>

Joins ==
  /\ OwnerAt("joining") /\ runner_done /\ ppc \in {"off", "done"} /\ opc' = "returned"
  /\ UNCHANGED <<lpc, queue, conn, socket, results, interpreter, runner, wake_up_for_output,
                 pusher, aborted>>
-----------------------------------------------------------------------------
(* The interpreter and its runner's threads.                               *)
Running == inserted /\ ~exited /\ ~runner_done /\ ~aborted

InterpreterWrites ==
  /\ Running /\ produced < MaxOutput /\ ~eof
  /\ produced' = produced + 1 /\ output_buffer' = Append(output_buffer, produced + 1)
  /\ wake_up_for_output' = TRUE
  /\ UNCHANGED <<opc, lpc, queue, conn, socket, results, inserted, exited, interpreter_result,
                 eof, runner, pusher, aborted>>

(* exited is stored before the result is set and everyone is notified.     *)
InterpreterExits ==
  /\ Running
  /\ exited' = TRUE
  /\ UNCHANGED <<opc, lpc, queue, conn, socket, results, inserted, interpreter_result, eof,
                 output_buffer, produced, runner, wake_up_for_output, pusher, aborted>>

InterpreterReturns ==
  /\ exited /\ ~interpreter_result /\ ~aborted
  /\ interpreter_result' = TRUE /\ wake_up_for_output' = TRUE
  /\ UNCHANGED <<opc, lpc, queue, conn, socket, results, inserted, exited, eof, output_buffer,
                 produced, runner, pusher, aborted>>

(* Both loops look at the collection as it is: with nobody inserted yet    *)
(* there is nobody to wait for.                                            *)
RunnerStops ==
  /\ exit_when_done /\ ~runner_done /\ (inserted => interpreter_result) /\ ~aborted
  /\ runner_done' = TRUE /\ wake_up_for_output' = TRUE
  /\ UNCHANGED <<opc, lpc, queue, conn, socket, results, interpreter, exit_when_done, pusher,
                 aborted>>
-----------------------------------------------------------------------------
(* The loop thread: process() and the callbacks.                           *)
Polls == ~aborted /\ lpc = "poll"
Pop(kind) == Polls /\ async = "open" /\ work # <<>> /\ Head(work).kind = kind /\ work' = Tail(work)

WorkConnect ==
  /\ Pop("connect")
  /\ handle' = "connecting"
  /\ UNCHANGED <<opc, lpc, async, shutdown_called, shutdown_promise, reading, socket, results,
                 interpreter, runner, wake_up_for_output, pusher, aborted>>

(* on_connect_client_cb. Other threads see the connection result before    *)
(* what follows it.                                                        *)
OnConnect ==
  /\ Polls /\ handle = "connecting"
  /\ handle' = "open" /\ inserted' = TRUE /\ connection_result' = "fd" /\ lpc' = "inserted"
  /\ wake_up_for_output' = TRUE
  /\ UNCHANGED <<opc, queue, reading, socket, client_result, exited, interpreter_result, eof,
                 output_buffer, produced, runner, pusher, aborted>>

OnConnected ==
  /\ lpc = "inserted" /\ ~aborted
  /\ reading' = TRUE /\ ppc' = "top" /\ lpc' = "poll"
  /\ UNCHANGED <<opc, queue, handle, socket, results, interpreter, runner, wake_up_for_output,
                 did_something, item, aborted>>

(* status < 0, or uv_fileno fails.                                         *)
OnConnectFails ==
  /\ Polls /\ handle = "connecting"
  /\ connection_result' = "error" /\ lpc' = "failing"
  /\ UNCHANGED <<opc, queue, conn, socket, client_result, interpreter, runner,
                 wake_up_for_output, pusher, aborted>>

OnConnectFailed ==
  /\ lpc = "failing" /\ ~aborted
  /\ client_result' = "error" /\ handle' = "closing" /\ lpc' = "poll"
  /\ UNCHANGED <<opc, queue, reading, socket, connection_result, interpreter, runner,
                 wake_up_for_output, pusher, aborted>>

(* uv_write; a handle that is closing refuses it, without a callback.      *)
WorkWrite ==
  /\ Pop("write")
  /\ writes' = IF handle = "open" THEN Append(writes, Head(work).data) ELSE writes
  /\ broken' = (broken \/ handle # "open")
  /\ aborted' = (handle = "closed")
  /\ UNCHANGED <<opc, lpc, async, shutdown_called, shutdown_promise, conn, done, wire, results,
                 interpreter, runner, wake_up_for_output, pusher>>

WorkClose ==
  /\ Pop("close")
  /\ handle' = "closing" /\ reading' = FALSE
  /\ aborted' = (handle # "open")
  /\ UNCHANGED <<opc, lpc, async, shutdown_called, shutdown_promise, socket, results,
                 interpreter, runner, wake_up_for_output, pusher>>

(* Mutant: the handle is not closed.                                       *)
WorkShutdownNoClose ==
  /\ Pop("shutdown")
  /\ shutdown_called' = TRUE
  /\ UNCHANGED <<opc, lpc, async, shutdown_promise, conn, socket, results, interpreter, runner,
                 wake_up_for_output, pusher, aborted>>

WorkShutdown ==
  /\ Pop("shutdown")
  /\ async' = "closing" /\ shutdown_called' = TRUE
  /\ UNCHANGED <<opc, lpc, shutdown_promise, conn, socket, results, interpreter, runner,
                 wake_up_for_output, pusher, aborted>>

ShutdownClose ==
  /\ Polls /\ async = "closing"
  /\ async' = "closed" /\ shutdown_promise' = TRUE
  /\ UNCHANGED <<opc, lpc, work, shutdown_called, conn, socket, results, interpreter, runner,
                 wake_up_for_output, pusher, aborted>>

(* on_read_cb with nread < 0 (data concerns only the interpreter's input). *)
OnReadEnd ==
  /\ Polls /\ handle = "open" /\ reading
  /\ eof' = TRUE /\ reading' = FALSE
  /\ UNCHANGED <<opc, lpc, queue, handle, socket, results, inserted, exited,
                 interpreter_result, output_buffer, produced, runner, wake_up_for_output,
                 pusher, aborted>>

SocketTakes ==
  /\ ~aborted /\ handle = "open" /\ done < Len(writes)
  /\ wire' = Append(wire, writes[done + 1]) /\ done' = done + 1
  /\ UNCHANGED <<opc, lpc, queue, conn, writes, broken, results, interpreter, runner,
                 wake_up_for_output, pusher, aborted>>

(* on_write_completed.                                                     *)
OnWriteCompleted ==
  /\ Polls /\ handle \in {"open", "closing"} /\ done > 0
  /\ writes' = Tail(writes) /\ done' = done - 1
  /\ UNCHANGED <<opc, lpc, queue, conn, wire, broken, results, interpreter, runner,
                 wake_up_for_output, pusher, aborted>>

(* status < 0: the socket failed, or the handle is closing and the write   *)
(* is cancelled. uv_close asserts that the handle is not closing already.  *)
OnWriteFailed ==
  /\ Polls /\ handle \in {"open", "closing"} /\ writes # <<>> /\ done = 0
  /\ writes' = Tail(writes)
  /\ eof' = TRUE /\ wake_up_for_output' = TRUE
  /\ reading' = FALSE /\ handle' = "closing" /\ broken' = TRUE
  /\ aborted' = (handle = "closing")
  /\ UNCHANGED <<opc, lpc, queue, done, wire, results, inserted, exited, interpreter_result,
                 output_buffer, produced, runner, pusher>>

(* unified_close_cb deletes the UvConnectionData and its context.          *)
OnClose ==
  /\ Polls /\ handle = "closing" /\ writes = <<>>
  /\ handle' = "closed"
  /\ UNCHANGED <<opc, lpc, queue, reading, socket, results, interpreter, runner,
                 wake_up_for_output, pusher, aborted>>
-----------------------------------------------------------------------------
(* pusher_thread_loop. data is UvConnectionData, deleted by OnClose.       *)
PusherAt(pc) == ~aborted /\ ppc = pc

(* Mutant: the connection of an interpreter that exited is not closed.     *)
PusherLooksNoClose ==
  /\ PusherAt("top") /\ aborted' = (handle = "closed")
  /\ did_something' = FALSE
  /\ ppc' = IF exited THEN "propagate" ELSE "drain"
  /\ UNCHANGED <<opc, lpc, queue, conn, socket, results, interpreter, runner,
                 wake_up_for_output, item>>

PusherLooks ==
  /\ PusherAt("top") /\ aborted' = (handle = "closed")
  /\ did_something' = FALSE
  /\ IF exited THEN ppc' = "test" /\ item' = Item("close") ELSE ppc' = "drain" /\ UNCHANGED item
  /\ UNCHANGED <<opc, lpc, queue, conn, socket, results, interpreter, runner,
                 wake_up_for_output>>

(* Mutant: the last buffer comes first.                                    *)
PusherDrainsLast ==
  /\ PusherAt("drain") /\ output_buffer # <<>>
  /\ output_buffer' = SubSeq(output_buffer, 1, Len(output_buffer) - 1)
  /\ item' = Write(output_buffer[Len(output_buffer)])
  /\ did_something' = TRUE /\ ppc' = "test"
  /\ UNCHANGED <<opc, lpc, queue, conn, socket, results, inserted, exited, interpreter_result,
                 eof, produced, runner, wake_up_for_output, aborted>>

PusherDrains ==
  /\ PusherAt("drain") /\ output_buffer # <<>>
  /\ output_buffer' = Tail(output_buffer) /\ item' = Write(Head(output_buffer))
  /\ did_something' = TRUE /\ ppc' = "test"
  /\ UNCHANGED <<opc, lpc, queue, conn, socket, results, inserted, exited, interpreter_result,
                 eof, produced, runner, wake_up_for_output, aborted>>

(* Nothing was there: wait, unless the interpreter has exited meanwhile.   *)
PusherDrained ==
  /\ PusherAt("drain") /\ output_buffer = <<>>
  /\ aborted' = (~did_something /\ handle = "closed")
  /\ ppc' = IF did_something \/ exited THEN "top" ELSE "wait"
  /\ UNCHANGED <<opc, lpc, queue, conn, socket, results, interpreter, runner,
                 wake_up_for_output, did_something, item>>

PusherWaits ==
  /\ PusherAt("wait") /\ wake_up_for_output
  /\ wake_up_for_output' = FALSE /\ ppc' = "top"
  /\ UNCHANGED <<opc, lpc, queue, conn, socket, results, interpreter, runner, did_something,
                 item, aborted>>

(* push_work throws after shutdown: nobody catches it.                     *)
PushWorkTests ==
  /\ PusherAt("test")
  /\ aborted' = (handle = "closed" \/ shutdown_called)
  /\ ppc' = "push"
  /\ UNCHANGED <<opc, lpc, queue, conn, socket, results, interpreter, runner,
                 wake_up_for_output, did_something, item>>

(* Mutant: the pusher goes on after it closed the connection.              *)
PushWorkGoesOn ==
  /\ PusherAt("push")
  /\ work' = Append(work, item)
  /\ ppc' = IF item.kind = "close" THEN "top" ELSE "drain"
  /\ UNCHANGED <<opc, lpc, async, shutdown_called, shutdown_promise, conn, socket, results,
                 interpreter, runner, wake_up_for_output, did_something, item, aborted>>

PushWorkPushes ==
  /\ PusherAt("push")
  /\ work' = Append(work, item)
  /\ ppc' = IF item.kind = "close" THEN "propagate" ELSE "drain"
  /\ UNCHANGED <<opc, lpc, async, shutdown_called, shutdown_promise, conn, socket, results,
                 interpreter, runner, wake_up_for_output, did_something, item, aborted>>

(* interpreter_result_future.get(), then set_value.                        *)
PusherPropagates ==
  /\ PusherAt("propagate") /\ interpreter_result
  /\ client_result' = "value" /\ ppc' = "done"
  /\ UNCHANGED <<opc, lpc, queue, conn, socket, connection_result, interpreter, runner,
                 wake_up_for_output, did_something, item, aborted>>
-----------------------------------------------------------------------------
Owner == \/ Start \/ Connected \/ ResultCalled \/ ResultTaken \/ ShutdownPushes
         \/ ShutdownReturns \/ Joins
Loop  == \/ WorkConnect \/ OnConnect \/ OnConnected \/ OnConnectFails \/ OnConnectFailed
         \/ WorkWrite \/ WorkClose \/ WorkShutdown \/ ShutdownClose \/ OnClose
Socket == SocketTakes \/ OnWriteCompleted \/ OnWriteFailed
Pusher == \/ PusherLooks \/ PusherDrains \/ PusherDrained \/ PusherWaits \/ PushWorkTests
          \/ PushWorkPushes \/ PusherPropagates
Interpreter == InterpreterExits \/ InterpreterReturns

Next == Owner \/ Loop \/ Socket \/ Pusher \/ Interpreter \/ RunnerStops \/ InterpreterWrites
          \/ OnReadEnd

(* Every thread goes on when it can, the network answers a connect and     *)
(* takes what is written or fails, and the program of the client ends.     *)
Fairness == /\ WF_vars(Owner) /\ WF_vars(Loop) /\ WF_vars(Socket) /\ WF_vars(Pusher)
            /\ WF_vars(Interpreter) /\ WF_vars(RunnerStops)

Spec == Init /\ [][Next]_vars /\ Fairness
-----------------------------------------------------------------------------
(* What is queued for the loop, with the item that push_work is called for.*)
Line == IF ppc \in {"test", "push"} THEN Append(work, item) ELSE work
Queued == DataOf(Line, Writes)

(* While the interpreter runs and no write failed, what it wrote is on the *)
(* wire, under way or in output_buffer: in order, each buffer once.        *)
OutputInOrder ==
  ~exited /\ ~broken =>
    wire \o NotTaken(writes, done) \o Queued \o output_buffer = Written(produced)

(* Unless a write fails or is cancelled, nobody uses the connection's data *)
(* after it is deleted, no handle is closed twice, and no work is pushed   *)
(* to a queue that was shut down.                                          *)
AbortsOnlyWhenBroken == aborted => broken

(* No work is left in the queue when it is shut down: the result, that the *)
(* application waits for first, is set after the last item was pushed.     *)
NoWorkLeft == async # "open" /\ ~broken => work = <<>> /\ handle \in {"closing", "closed"}

(* libuvclientrunner.hpp:71: the future of the result is set when the      *)
(* client interpreter returns, or with an error if the connection fails.   *)
(* So the application, that waits for it, comes to its end: shutdown() and *)
(* the destructor return, too.                                             *)
ClientFinishes == opc = "waiting" ~> opc = "returned" \/ aborted
-----------------------------------------------------------------------------
(* The inductive invariant. No result without its end: the connection      *)
(* failed before there was a pusher, or the pusher has done its work.      *)
ResultInv ==
  /\ client_result = "value" <=> ppc = "done"
  /\ client_result = "error" => ppc = "off" /\ lpc = "poll" /\ handle \in {"closing", "closed"}
  /\ opc \in {"resolved", "shutting", "joining", "returned"} => client_result # "unset"

(* The connection as on_connect_client_cb finds and leaves it.             *)
ConnectInv ==
  /\ handle = "none" =>
       /\ opc \in {"new", "connecting"} /\ lpc = "poll" /\ connection_result = "unset"
       /\ work = IF opc = "new" THEN <<>> ELSE <<Item("connect")>>
  /\ opc = "new" => handle = "none"
  /\ handle # "none" => \A k \in 1..Len(work) : work[k].kind # "connect"
  /\ handle \in {"none", "connecting"} => ppc = "off"
  /\ lpc = "inserted" => handle = "open"
  /\ lpc = "failing" => handle = "connecting"
  /\ lpc # "poll" => ppc = "off"

(* The queue: what is pushed before the close, the close, the shutdown.    *)
QueueInv ==
  /\ opc \notin {"shutting", "joining", "returned"} =>
       /\ ~shutdown_called /\ async = "open"
       /\ \A k \in 1..Len(work) : work[k].kind # "shutdown"
  /\ async # "open" => work = <<>>
  /\ \A k \in 1..Len(work) :
       /\ work[k].kind = "write" => ppc # "off"
       /\ work[k].kind = "close" => ppc \in {"propagate", "done"}
       /\ work[k].kind \in {"close", "shutdown"} =>
            \A j \in 1..Len(work) : j > k => work[k].kind = "close" /\ work[j].kind = "shutdown"
  /\ ppc \in {"test", "push"} =>
       \/ item \in Writes
       \/ item = Item("close") /\ exited

(* Until a write fails, the connection lasts as long as the pusher needs   *)
(* it and is closed by the one close that was pushed.                      *)
HandleInv ==
  ~broken =>
    /\ ppc \in {"top", "drain", "wait", "test", "push"} => handle = "open"
    /\ ppc \in {"propagate", "done"} /\ (\A k \in 1..Len(work) : work[k].kind # "close")
         => handle \in {"closing", "closed"}
    /\ \A k \in 1..Len(work) : work[k].kind = "close" => handle = "open"

IInv == /\ TypeOK /\ ResultInv /\ ConnectInv /\ QueueInv /\ HandleInv
        /\ OutputInOrder /\ AbortsOnlyWhenBroken
=============================================================================
