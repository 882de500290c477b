--------------------------- MODULE GeneratedServer ---------------------------
(***************************************************************************)
(* GeneratedServerWrapperBase: connections served by generated runners on  *)
(* the libuv loop thread, while the owner's thread starts the server,      *)
(* stops it and shuts the AsyncWorkQueue down.                             *)
(*                                                                         *)
(* A runner (module GeneratedCode) is seen through IConnectionRunner: it   *)
(* may answer what it is given, with its last message if it likes, or      *)
(* report an error. libuv runs one callback at a time; the callbacks of    *)
(* handles that close come in any order, each after those of the handle's  *)
(* writes. Assumption: a descriptor is not used again before the close     *)
(* callback of the connection that had it, so a connection is its own key  *)
(* in `connections`.                                                       *)
(***************************************************************************)
EXTENDS WorkQueue, SequencesExt

CONSTANTS Conns,         \* connections that clients make
          MaxOutput      \* bound: messages a runner sends

ASSUME MaxOutputAssumption == MaxOutput \in Nat \ {0}

VARIABLES
  opc,             \* the owner's thread
  work,            \* work_queue_ of the AsyncWorkQueue
  async,           \* its handle
  shutdown_called, shutdown_promise,
  server,          \* server_data's handle
  bind_promise, stopped_promise, stopping,
  handle,          \* the handle of each connection
  closing,         \* ConnectionData::closing
  connections,     \* the map: connections whose ConnectionData exists
  output,          \* the runner's pending output
  produced,        \* messages the runner sent
  is_closed, has_error,
  writes,          \* WriteRequests whose callback has not run, in order
  done,            \* how many of them the socket has taken
  wire,            \* what the socket has taken
  aborted          \* an assertion of libuv failed, or freed memory was used

owner  == <<opc, stopping>>
queue  == <<work, async, shutdown_called, shutdown_promise>>
listen == <<server, bind_promise, stopped_promise>>
runner == <<output, produced, is_closed, has_error>>
socket == <<writes, done, wire>>
conn   == <<handle, closing, connections>>
vars   == <<owner, queue, listen, runner, socket, conn, aborted>>

TypeOK ==
  /\ opc \in {"new", "started", "waiting", "stopped", "shutting", "returned"}
  /\ work \in Seq({"bind", "stop", "shutdown"})
  /\ async \in {"open", "closing", "closed"}
  /\ server \in {"none", "idle", "listening", "closing", "closed"}
  /\ bind_promise \in {"unset", "fd", "error"}
  /\ stopping \in BOOLEAN /\ shutdown_called \in BOOLEAN /\ shutdown_promise \in BOOLEAN
  /\ stopped_promise \in BOOLEAN /\ aborted \in BOOLEAN
  /\ handle \in [Conns -> {"none", "open", "freed", "closing", "closed"}]
  /\ closing \in [Conns -> BOOLEAN] /\ connections \subseteq Conns
  /\ produced \in [Conns -> 0..MaxOutput]
  /\ output \in [Conns -> Seq(1..MaxOutput)] /\ wire \in [Conns -> Seq(1..MaxOutput)]
  /\ writes \in [Conns -> Seq(1..MaxOutput)]
  /\ is_closed \in [Conns -> BOOLEAN] /\ has_error \in [Conns -> BOOLEAN]
  /\ done \in [Conns -> Nat] /\ \A c \in Conns : done[c] <= Len(writes[c])

Init ==
  /\ opc = "new" /\ stopping = FALSE
  /\ work = <<>> /\ async = "open" /\ shutdown_called = FALSE /\ shutdown_promise = FALSE
  /\ server = "none" /\ bind_promise = "unset" /\ stopped_promise = FALSE
  /\ handle = [c \in Conns |-> "none"] /\ closing = [c \in Conns |-> FALSE]
  /\ connections = {}
  /\ output = [c \in Conns |-> <<>>] /\ produced = [c \in Conns |-> 0]
  /\ is_closed = [c \in Conns |-> FALSE] /\ has_error = [c \in Conns |-> FALSE]
  /\ writes = [c \in Conns |-> <<>>] /\ done = [c \in Conns |-> 0]
  /\ wire = [c \in Conns |-> <<>>]
  /\ aborted = FALSE
-----------------------------------------------------------------------------
(* The owner. stop() is called once more by the destructor, and then       *)
(* returns at once. Nobody is left who would push work after shutdown().   *)
Start ==
  /\ opc = "new" /\ ~aborted
  /\ opc' = "started" /\ work' = Append(work, "bind")
  /\ UNCHANGED <<stopping, async, shutdown_called, shutdown_promise, listen, runner, socket,
                 conn, aborted>>

StopPushes ==
  /\ opc \in {"new", "started"} /\ ~aborted
  /\ opc' = "waiting" /\ stopping' = TRUE /\ work' = Append(work, "stop")
  /\ UNCHANGED <<async, shutdown_called, shutdown_promise, listen, runner, socket, conn,
                 aborted>>

StopReturns ==
  /\ opc = "waiting" /\ stopped_promise /\ ~aborted
  /\ opc' = "stopped"
  /\ UNCHANGED <<stopping, queue, listen, runner, socket, conn, aborted>>

ShutdownPushes ==
  /\ opc = "stopped" /\ ~aborted
  /\ opc' = "shutting" /\ work' = Append(work, "shutdown")
  /\ UNCHANGED <<stopping, async, shutdown_called, shutdown_promise, listen, runner, socket,
                 conn, aborted>>

ShutdownReturns ==
  /\ opc = "shutting" /\ shutdown_promise /\ ~aborted
  /\ opc' = "returned"
  /\ UNCHANGED <<stopping, queue, listen, runner, socket, conn, aborted>>
-----------------------------------------------------------------------------
(* uv_close of connections that are not closing yet: closing.exchange.     *)
CloseAll(cs) ==
  LET now == {c \in cs : ~closing[c]}
  IN  /\ closing' = [c \in Conns |-> closing[c] \/ c \in cs]
      /\ handle' = [c \in Conns |-> IF c \in now THEN "closing" ELSE handle[c]]
      /\ aborted' = (aborted \/ \E c \in now : handle[c] # "open")
      /\ UNCHANGED connections

(* Mutant: a connection is taken from the map when uv_close is called.     *)
CloseErases(c) ==
  /\ closing' = [closing EXCEPT ![c] = TRUE]
  /\ handle' = [handle EXCEPT ![c] = "closing"]
  /\ connections' = connections \ {c}
  /\ UNCHANGED aborted

(* Mutant: no closing.exchange.                                            *)
CloseAgain(c) ==
  /\ closing' = [closing EXCEPT ![c] = TRUE]
  /\ handle' = [handle EXCEPT ![c] = "closing"]
  /\ aborted' = (aborted \/ handle[c] # "open")
  /\ UNCHANGED connections

Close(c) == CloseAll({c})

(* process(), a callback of the loop.                                      *)
Pop(kind) == ~aborted /\ async = "open" /\ work # <<>> /\ Head(work) = kind /\ work' = Tail(work)

(* start()'s work: bind and listen; when uv_fileno fails it still listens. *)
WorkBind ==
  /\ Pop("bind")
  /\ \/ server' = "listening" /\ bind_promise' \in {"fd", "error"}
     \/ server' = "idle" /\ bind_promise' = "error"
  /\ UNCHANGED <<owner, async, shutdown_called, shutdown_promise, stopped_promise, runner,
                 socket, conn, aborted>>

(* Mutant: the server alone is closed.                                     *)
WorkStopServer ==
  /\ Pop("stop")
  /\ server' = IF server = "none" THEN server ELSE "closing"
  /\ UNCHANGED <<owner, async, shutdown_called, shutdown_promise, bind_promise,
                 stopped_promise, runner, socket, conn, aborted>>

WorkStop ==
  /\ Pop("stop")
  /\ CloseAll(connections)
  /\ server' = IF server = "none" THEN server ELSE "closing"
  /\ UNCHANGED <<owner, async, shutdown_called, shutdown_promise, bind_promise,
                 stopped_promise, runner, socket>>

WorkShutdown ==
  /\ Pop("shutdown")
  /\ async' = "closing" /\ shutdown_called' = TRUE
  /\ UNCHANGED <<owner, shutdown_promise, listen, runner, socket, conn, aborted>>

ShutdownClose ==
  /\ async = "closing" /\ ~aborted
  /\ async' = "closed" /\ shutdown_promise' = TRUE
  /\ UNCHANGED <<owner, work, shutdown_called, listen, runner, socket, conn, aborted>>

OnServerClose ==
  /\ server = "closing" /\ ~aborted
  /\ server' = "closed" /\ stopped_promise' = TRUE
  /\ UNCHANGED <<owner, queue, bind_promise, runner, socket, conn, aborted>>

(* After the callbacks of its writes, the connection's data is erased.     *)
OnClose(c) ==
  /\ handle[c] = "closing" /\ writes[c] = <<>> /\ ~aborted
  /\ handle' = [handle EXCEPT ![c] = "closed"]
  /\ connections' = connections \ {c}
  /\ UNCHANGED <<owner, queue, listen, runner, socket, closing, aborted>>

(* The handle of a failed accept is freed before libuv is done with it:    *)
(* nothing comes of it, or the program ends.                               *)
OnCloseFreed(c) ==
  /\ handle[c] = "freed" /\ ~aborted
  /\ handle' = [handle EXCEPT ![c] = "closed"]
  /\ aborted' \in BOOLEAN
  /\ UNCHANGED <<owner, queue, listen, runner, socket, closing, connections>>
-----------------------------------------------------------------------------
(* Mutant: output is taken only when no write is pending, else dropped.    *)
process_outputDrops(c, out) ==
  /\ output' = [output EXCEPT ![c] = <<>>]
  /\ writes' = IF writes[c] = <<>> THEN [writes EXCEPT ![c] = out] ELSE writes

(* Each pending output becomes a WriteRequest.                             *)
process_output(c, out) ==
  /\ output' = [output EXCEPT ![c] = <<>>]
  /\ writes' = [writes EXCEPT ![c] = @ \o out]

(* What the runner has to write after it sends a message, or none.         *)
Answer(c, answers) ==
  IF answers /\ produced[c] < MaxOutput THEN Append(output[c], produced[c] + 1) ELSE output[c]

Counted(c, out) == [produced EXCEPT ![c] = IF out = output[c] THEN @ ELSE @ + 1]

(* on_new_connection: a runner is made and started (a greeting, or none).  *)
OnNewConnection(c) ==
  /\ server = "listening" /\ handle[c] = "none" /\ ~stopping /\ ~aborted
  /\ handle' = [handle EXCEPT ![c] = "open"]
  /\ connections' = connections \cup {c}
  /\ \E greets \in BOOLEAN :
       LET out == Answer(c, greets)
       IN  process_output(c, out) /\ produced' = Counted(c, out)
  /\ UNCHANGED <<owner, queue, listen, is_closed, has_error, done, wire, closing, aborted>>

(* uv_accept or uv_fileno fails: uv_close, and conn goes out of scope.     *)
OnNewConnectionFails(c) ==
  /\ server = "listening" /\ handle[c] = "none" /\ ~stopping /\ ~aborted
  /\ handle' = [handle EXCEPT ![c] = "freed"]
  /\ UNCHANGED <<owner, queue, listen, runner, socket, closing, connections, aborted>>

(* on_read with data: a runner that is closed takes none.                  *)
OnRead(c) ==
  /\ handle[c] = "open" /\ ~aborted
  /\ \E answers, last \in BOOLEAN :
       LET out == Answer(c, answers /\ ~is_closed[c])
       IN  /\ process_output(c, out)
           /\ produced' = Counted(c, out)
           /\ is_closed' = [is_closed EXCEPT ![c] = @ \/ (last /\ out # output[c])]
  /\ UNCHANGED <<owner, queue, listen, has_error, done, wire, conn, aborted>>

(* on_read with data that is no message: the runner reports an error.      *)
OnReadMismatch(c) ==
  /\ handle[c] = "open" /\ ~is_closed[c] /\ ~aborted
  /\ has_error' = [has_error EXCEPT ![c] = TRUE]
  /\ Close(c)
  /\ UNCHANGED <<owner, queue, listen, output, produced, is_closed, socket>>

(* on_read with nread < 0.                                                 *)
OnReadEnd(c) ==
  /\ handle[c] = "open" /\ ~aborted
  /\ Close(c)
  /\ UNCHANGED <<owner, queue, listen, runner, socket>>

SocketTakes(c) ==
  /\ handle[c] = "open" /\ done[c] < Len(writes[c]) /\ ~aborted
  /\ wire' = [wire EXCEPT ![c] = Append(@, writes[c][done[c] + 1])]
  /\ done' = [done EXCEPT ![c] = @ + 1]
  /\ UNCHANGED <<owner, queue, listen, runner, writes, conn, aborted>>

(* Mutant: is_closed is looked at only while writes remain.                *)
OnWriteCompleteLate(c) ==
  /\ handle[c] \in {"open", "closing"} /\ done[c] > 0 /\ ~aborted
  /\ done' = [done EXCEPT ![c] = @ - 1]
  /\ LET remaining == Tail(writes[c])
     IN  IF (is_closed[c] \/ has_error[c]) /\ remaining # <<>>
           THEN Close(c) /\ writes' = [writes EXCEPT ![c] = remaining] /\ UNCHANGED output
           ELSE /\ writes' = [writes EXCEPT ![c] = remaining]
                /\ UNCHANGED <<conn, aborted, output>>
  /\ UNCHANGED <<owner, queue, listen, produced, is_closed, has_error, wire>>

(* on_write_complete with status 0: the first that completes after the     *)
(* runner closed closes the connection.                                    *)
OnWriteComplete(c) ==
  /\ handle[c] \in {"open", "closing"} /\ done[c] > 0 /\ ~aborted
  /\ done' = [done EXCEPT ![c] = @ - 1]
  /\ LET remaining == Tail(writes[c])
     IN  IF is_closed[c] \/ has_error[c]
           THEN Close(c) /\ writes' = [writes EXCEPT ![c] = remaining] /\ UNCHANGED output
           ELSE /\ writes' = [writes EXCEPT ![c] = IF remaining = <<>> THEN output[c]
                                                   ELSE remaining]
                /\ output' = [output EXCEPT ![c] = IF remaining = <<>> THEN <<>> ELSE @]
                /\ UNCHANGED <<conn, aborted>>
  /\ UNCHANGED <<owner, queue, listen, produced, is_closed, has_error, wire>>

(* on_write_complete with status < 0: the socket failed, or the handle is  *)
(* closing and the write is cancelled.                                     *)
OnWriteFails(c) ==
  /\ handle[c] \in {"open", "closing"} /\ writes[c] # <<>> /\ done[c] = 0 /\ ~aborted
  /\ writes' = [writes EXCEPT ![c] = Tail(@)]
  /\ Close(c)
  /\ UNCHANGED <<owner, queue, listen, runner, done, wire>>
-----------------------------------------------------------------------------
Owner == StopReturns \/ ShutdownPushes \/ ShutdownReturns
Loop  == \/ WorkBind \/ WorkStop \/ WorkShutdown \/ ShutdownClose \/ OnServerClose
         \/ \E c \in Conns : OnClose(c) \/ OnCloseFreed(c)
Socket(c) == SocketTakes(c) \/ OnWriteComplete(c) \/ OnWriteFails(c)
Peer(c) == OnNewConnection(c) \/ OnNewConnectionFails(c) \/ OnRead(c) \/ OnReadMismatch(c)
             \/ OnReadEnd(c)

Next == Start \/ StopPushes \/ Owner \/ Loop \/ \E c \in Conns : Socket(c) \/ Peer(c)

(* The loop runs its callbacks and the owner goes on when it can; a peer   *)
(* reads what it is sent or its connection breaks. Peers send when they    *)
(* like, and nobody has to stop the server.                                *)
Fairness == WF_vars(Owner) /\ WF_vars(Loop) /\ \A c \in Conns : WF_vars(Socket(c))

Spec == Init /\ [][Next]_vars /\ Fairness
-----------------------------------------------------------------------------
(* process_output and on_write_complete: while a connection is open, what  *)
(* its runner sent is on the wire, in a pending write or still with the    *)
(* runner, in order and once; afterwards the wire has a part of it.        *)
OutputIntact ==
  \A c \in Conns :
    /\ handle[c] = "open" =>
         wire[c] \o NotTaken(writes[c], done[c]) \o output[c] = Written(produced[c])
    /\ IsPrefix(wire[c], Written(produced[c]))

(* ConnectionData outlives every callback that reaches it: it is erased    *)
(* only when libuv is done with the handle, and then it is.                *)
DataOutlivesHandle == \A c \in Conns : c \in connections <=> handle[c] \in {"open", "closing"}

(* A read error, a protocol error, a failed write, a runner that is done   *)
(* and stop() may all want to close a connection: uv_close is called once. *)
ClosedOnce == aborted => \E c \in Conns : handle[c] = "closed" /\ ~closing[c]

(* A connection whose runner has sent its last message is closed.          *)
LastMessageCloses == \A c \in Conns : is_closed[c] ~> handle[c] = "closed" \/ aborted

(* stop() of a server that was started returns, whatever became of the     *)
(* bind, every connection is closed, and then so does shutdown().          *)
ServerStops ==
  stopping /\ bind_promise # "unset"
    ~> (opc = "returned" /\ connections = {}) \/ aborted
-----------------------------------------------------------------------------
(* The inductive invariant: a connection starts with nothing, and closing  *)
(* is set by the one who calls uv_close and by nobody else.                *)
CloseInv ==
  \A c \in Conns :
    /\ handle[c] = "none" =>
         /\ writes[c] = <<>> /\ done[c] = 0 /\ wire[c] = <<>>
         /\ output[c] = <<>> /\ produced[c] = 0
    /\ closing[c] => handle[c] \in {"closing", "closed"}
    /\ handle[c] = "closing" => closing[c]

IInv == TypeOK /\ CloseInv /\ DataOutlivesHandle /\ OutputIntact /\ ClosedOnce
=============================================================================
