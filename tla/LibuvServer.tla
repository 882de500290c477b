----------------------------- MODULE LibuvServer ----------------------------
(***************************************************************************)
(* LibuvServerRunner and LibuvServerWrapper::stop: the libuv loop thread   *)
(* with its AsyncWorkQueue, the pusher thread that moves the interpreters' *)
(* output to the loop and closes the connections of those that exited, and *)
(* the owner's thread that stops the server.                               *)
(*                                                                         *)
(* The two threads of InterpreterRunner are seen from outside: an          *)
(* interpreter may write and may exit as long as they run, and they stop   *)
(* when told to, once everyone in the collection has exited (StopsWhenDone *)
(* and LoopsStop of that module). A connection is its own descriptor.      *)
(* wake_up_for_output is its sticky flag (module NotificationSignal).      *)
(*                                                                         *)
(* The loop thread runs one callback at a time: it is polling or it is in  *)
(* AsyncWorkQueue::process, which runs queued work until the queue is      *)
(* empty. A failed assertion of libuv, or the use of a deleted             *)
(* UvConnectionData, ends the program.                                     *)
(***************************************************************************)
EXTENDS WorkQueue, Functions

CONSTANTS Conns,      \* connections that clients make
          NoConn,     \* no connection: a local out of scope, the server's work
          MaxOutput   \* bound: buffers that the interpreters write, in all

ASSUME NoConnAssumption == NoConn \notin Conns
ASSUME MaxOutputAssumption == MaxOutput \in Nat

VARIABLES
  server,         \* the handle server_
  conn,           \* the handle of each connection
  reading,        \* uv_read_start is in effect
  close_sent,     \* connection_close_request_sent
  work,           \* work_queue_ of the AsyncWorkQueue
  lpc,            \* the loop thread
  wire,           \* buffers handed to uv_write, per connection
  members, version,                    \* the published collection
  output_buffer, produced, exited, eof,   \* InterpreterContext
  wake_up_for_output,
  ppc, ptodo, pversion, pcur,          \* pusher_thread_loop_all
  active, blocked, pending_close, any_exited,
  server_stopped,     \* the promise
  exit_when_done,     \* of LibuvServerRunnerImpl
  runner_exit,        \* exit_when_done of the InterpreterRunner
  runner_done,        \* its two threads have returned
  spc                 \* LibuvServerWrapper::stop

handles     == <<server, conn, reading, wire>>
interpreters == <<members, version, output_buffer, produced, exited, eof>>
pusher      == <<ppc, ptodo, pversion, pcur, active, blocked, pending_close, any_exited>>
stopping    == <<exit_when_done, runner_exit, spc>>

vars == <<handles, close_sent, work, lpc, interpreters, wake_up_for_output, pusher,
          server_stopped, stopping, runner_done>>

Item(kind, c, data) == [kind |-> kind, conn |-> c, data |-> data]
Items == [kind : {"write", "close"}, conn : Conns, data : Nat]
           \union [kind : {"bind", "close_server"}, conn : {NoConn}, data : {0}]
Writes(c) == [kind : {"write"}, conn : {c}, data : Nat]

TypeOK ==
  /\ server \in {"init", "failed", "bound", "listening", "closing", "closed"}
  /\ conn \in [Conns -> {"none", "open", "unlinked", "closing", "closed"}]
  /\ reading \in [Conns -> BOOLEAN] /\ close_sent \in [Conns -> BOOLEAN]
  /\ work \in Seq(Items)
  /\ lpc \in {"poll", "process", "aborted"}
  /\ wire \in [Conns -> Seq(Nat)]
  /\ members \subseteq Conns /\ version \in Nat
  /\ output_buffer \in [Conns -> Seq(Nat)] /\ produced \in [Conns -> Nat]
  /\ exited \in [Conns -> BOOLEAN] /\ eof \in [Conns -> BOOLEAN]
  /\ wake_up_for_output \in BOOLEAN
  /\ ppc \in {"off", "top", "scan", "drain", "compare", "loadexit", "wait", "done"}
  /\ ptodo \subseteq Conns /\ pversion \in Nat /\ pcur \in Conns \union {NoConn}
  /\ active \in BOOLEAN /\ blocked \in BOOLEAN
  /\ pending_close \in BOOLEAN /\ any_exited \in BOOLEAN
  /\ server_stopped \in BOOLEAN /\ exit_when_done \in BOOLEAN
  /\ runner_exit \in BOOLEAN /\ runner_done \in BOOLEAN
  /\ spc \in {"idle", "notify", "close", "exit", "join", "wait", "returned"}

(* start(): the constructor has queued the bind and the two threads run.   *)
Init ==
  /\ server = "init" /\ conn = [c \in Conns |-> "none"]
  /\ reading = [c \in Conns |-> FALSE] /\ close_sent = [c \in Conns |-> FALSE]
  /\ work = <<Item("bind", NoConn, 0)>> /\ lpc = "poll"
  /\ wire = [c \in Conns |-> <<>>]
  /\ members = {} /\ version = 0
  /\ output_buffer = [c \in Conns |-> <<>>] /\ produced = [c \in Conns |-> 0]
  /\ exited = [c \in Conns |-> FALSE] /\ eof = [c \in Conns |-> FALSE]
  /\ wake_up_for_output = FALSE
  /\ ppc = "off" /\ ptodo = {} /\ pversion = 0 /\ pcur = NoConn
  /\ active = FALSE /\ blocked = FALSE /\ pending_close = FALSE /\ any_exited = FALSE
  /\ server_stopped = FALSE /\ exit_when_done = FALSE
  /\ runner_exit = FALSE /\ runner_done = FALSE /\ spc = "idle"
-----------------------------------------------------------------------------
Aborted == lpc = "aborted"
PusherAt(pc) == ~Aborted /\ ppc = pc
StopAt(pc) == ~Aborted /\ spc = pc

(* The interpreters, as this component sees them.                          *)
Running(c) == ~Aborted /\ c \in members /\ ~exited[c] /\ ~runner_done

TotalOutput == FoldFunction(LAMBDA n, total : n + total, 0, produced)

(* Mutant: handle_write does not notify wake_up_for_output.                *)
InterpreterWritesSilently(c) ==
  /\ Running(c)
  /\ TotalOutput < MaxOutput
  /\ produced' = [produced EXCEPT ![c] = @ + 1]
  /\ output_buffer' = [output_buffer EXCEPT ![c] = Append(@, produced[c] + 1)]
  /\ UNCHANGED <<handles, close_sent, work, lpc, members, version, exited, eof, pusher,
                 server_stopped, stopping, runner_done, wake_up_for_output>>

(* handle_write: push_back, then notify.                                   *)
InterpreterWrites(c) ==
  /\ Running(c)
  /\ TotalOutput < MaxOutput
  /\ produced' = [produced EXCEPT ![c] = @ + 1]
  /\ output_buffer' = [output_buffer EXCEPT ![c] = Append(@, produced[c] + 1)]
  /\ wake_up_for_output' = TRUE
  /\ UNCHANGED <<handles, close_sent, work, lpc, members, version, exited, eof, pusher,
                 server_stopped, stopping, runner_done>>

(* Mutant: the runner does not tell the pusher that an interpreter exited. *)
InterpreterExitsSilently(c) ==
  /\ Running(c)
  /\ exited' = [exited EXCEPT ![c] = TRUE]
  /\ UNCHANGED <<handles, close_sent, work, lpc, members, version, output_buffer,
                 produced, eof, pusher, server_stopped, stopping, runner_done,
                 wake_up_for_output>>

InterpreterExits(c) ==
  /\ Running(c)
  /\ exited' = [exited EXCEPT ![c] = TRUE]
  /\ wake_up_for_output' = TRUE
  /\ UNCHANGED <<handles, close_sent, work, lpc, members, version, output_buffer,
                 produced, eof, pusher, server_stopped, stopping, runner_done>>

RunnerStops ==
  /\ ~Aborted
  /\ runner_exit /\ ~runner_done
  /\ \A c \in members : exited[c]
  /\ runner_done' = TRUE
  /\ wake_up_for_output' = TRUE
  /\ UNCHANGED <<handles, close_sent, work, lpc, interpreters, pusher, server_stopped,
                 stopping>>
-----------------------------------------------------------------------------
(* The loop thread. async_work_callback: process() pops until it is empty. *)
LoopAsync ==
  /\ lpc = "poll"
  /\ work # <<>>
  /\ lpc' = "process"
  /\ UNCHANGED <<handles, close_sent, work, interpreters, wake_up_for_output, pusher,
                 server_stopped, stopping, runner_done>>

LoopProcessed ==
  /\ lpc = "process"
  /\ work = <<>>
  /\ lpc' = "poll"
  /\ UNCHANGED <<handles, close_sent, work, interpreters, wake_up_for_output, pusher,
                 server_stopped, stopping, runner_done>>

Pop(kind) ==
  /\ lpc = "process"
  /\ work # <<>> /\ Head(work).kind = kind
  /\ work' = Tail(work)

(* The constructor's work: bind and listen, then spawn the pusher thread.  *)
(* When binding fails the work returns before it does either; whether      *)
(* uv_listen succeeds is not looked at.                                    *)
WorkBind(outcome) ==
  /\ Pop("bind")
  /\ server' = outcome
  /\ ppc' = IF outcome = "failed" THEN ppc ELSE "top"
  /\ UNCHANGED <<conn, reading, wire, close_sent, lpc, interpreters, wake_up_for_output,
                 ptodo, pversion, pcur, active, blocked, pending_close, any_exited,
                 server_stopped, stopping, runner_done>>

(* uv_write; a handle that is closing refuses the request.                 *)
WorkWrite ==
  LET c == Head(work).conn
  IN  /\ Pop("write")
      /\ wire' = IF conn[c] = "open" THEN [wire EXCEPT ![c] = Append(@, Head(work).data)]
                                     ELSE wire
      /\ lpc' = IF conn[c] = "closed" THEN "aborted" ELSE lpc
      /\ UNCHANGED <<server, conn, reading, close_sent, interpreters, wake_up_for_output,
                     pusher, server_stopped, stopping, runner_done>>

(* uv_close of a connection asserts that it is not closing already.        *)
WorkClose ==
  LET c == Head(work).conn
  IN  /\ Pop("close")
      /\ IF conn[c] = "open"
           THEN /\ conn' = [conn EXCEPT ![c] = "closing"]
                /\ reading' = [reading EXCEPT ![c] = FALSE]
                /\ UNCHANGED lpc
           ELSE lpc' = "aborted" /\ UNCHANGED <<conn, reading>>
      /\ UNCHANGED <<server, wire, close_sent, interpreters, wake_up_for_output, pusher,
                     server_stopped, stopping, runner_done>>

WorkCloseServer ==
  /\ Pop("close_server")
  /\ server' = "closing"
  /\ UNCHANGED <<conn, reading, wire, close_sent, lpc, interpreters, wake_up_for_output,
                 pusher, server_stopped, stopping, runner_done>>

(* on_close_cb notifies and deletes the UvConnectionData in handle->data,  *)
(* which a connection whose accept failed does not have.                   *)
OnClose(c) ==
  /\ lpc = "poll"
  /\ \/ /\ conn[c] = "closing"
        /\ conn' = [conn EXCEPT ![c] = "closed"]
        /\ wake_up_for_output' = TRUE
        /\ UNCHANGED lpc
     \/ /\ conn[c] = "unlinked"
        /\ lpc' = "aborted"
        /\ UNCHANGED <<conn, wake_up_for_output>>
  /\ UNCHANGED <<server, reading, wire, close_sent, work, interpreters, pusher,
                 server_stopped, stopping, runner_done>>

OnCloseServer ==
  /\ lpc = "poll"
  /\ server = "closing"
  /\ server' = "closed"
  /\ wake_up_for_output' = TRUE
  /\ UNCHANGED <<conn, reading, wire, close_sent, work, lpc, interpreters, pusher,
                 server_stopped, stopping, runner_done>>

(* on_new_connection_cb: insert_interpreter, then uv_read_start.           *)
OnNewConnection(c) ==
  /\ lpc = "poll"
  /\ server = "listening"
  /\ conn[c] = "none"
  /\ conn' = [conn EXCEPT ![c] = "open"]
  /\ reading' = [reading EXCEPT ![c] = TRUE]
  /\ members' = members \union {c}
  /\ version' = version + 1
  /\ wake_up_for_output' = TRUE
  /\ UNCHANGED <<server, wire, close_sent, work, lpc, output_buffer, produced, exited,
                 eof, pusher, server_stopped, stopping, runner_done>>

(* uv_accept or uv_fileno fails: the handle is closed without its data.    *)
OnNewConnectionFails(c) ==
  /\ lpc = "poll"
  /\ server = "listening"
  /\ conn[c] = "none"
  /\ conn' = [conn EXCEPT ![c] = "unlinked"]
  /\ UNCHANGED <<server, reading, wire, close_sent, work, lpc, interpreters,
                 wake_up_for_output, pusher, server_stopped, stopping, runner_done>>

(* server_on_read_cb when the collection has no interpreter for it.        *)
OnReadOrphan(c) ==
  /\ lpc = "poll"
  /\ conn[c] = "open" /\ reading[c]
  /\ c \notin members
  /\ reading' = [reading EXCEPT ![c] = FALSE]
  /\ conn' = [conn EXCEPT ![c] = "closing"]
  /\ UNCHANGED <<server, wire, close_sent, work, lpc, interpreters, wake_up_for_output,
                 pusher, server_stopped, stopping, runner_done>>

(* Mutant: the read callback closes the connection at eof by itself.       *)
OnEofCloses(c) ==
  /\ lpc = "poll"
  /\ conn[c] = "open" /\ reading[c]
  /\ c \in members
  /\ eof' = [eof EXCEPT ![c] = TRUE]
  /\ reading' = [reading EXCEPT ![c] = FALSE]
  /\ conn' = [conn EXCEPT ![c] = "closing"]
  /\ UNCHANGED <<server, wire, close_sent, work, lpc, members, version,
                 output_buffer, produced, exited, wake_up_for_output, pusher,
                 server_stopped, stopping, runner_done>>

(* server_on_read_cb with nread < 0, or on_write_completed with status < 0 *)
(* (data that arrives concerns only the interpreter's input).              *)
OnEof(c) ==
  /\ lpc = "poll"
  /\ conn[c] = "open" /\ reading[c]
  /\ c \in members
  /\ eof' = [eof EXCEPT ![c] = TRUE]
  /\ reading' = [reading EXCEPT ![c] = FALSE]
  /\ UNCHANGED <<server, conn, wire, close_sent, work, lpc, members, version,
                 output_buffer, produced, exited, wake_up_for_output, pusher,
                 server_stopped, stopping, runner_done>>
-----------------------------------------------------------------------------
(* pusher_thread_loop_all.                                                 *)
(* The counters of a pass are cleared when it ends.                        *)
PusherSnapshot ==
  /\ PusherAt("top")
  /\ ppc' = "scan"
  /\ ptodo' = members /\ pversion' = version
  /\ UNCHANGED <<handles, close_sent, work, lpc, interpreters, wake_up_for_output, pcur,
                 active, blocked, pending_close, any_exited, server_stopped, stopping,
                 runner_done>>

(* An exited interpreter: remove it and queue the close, once. (Nothing    *)
(* tells its removal and push_work apart from the two in one step: the     *)
(* read callback may come before the queued close either way.)             *)
PusherCloses(c) ==
  /\ PusherAt("scan") /\ c \in ptodo
  /\ exited[c]
  /\ ptodo' = ptodo \ {c}
  /\ any_exited' = TRUE
  /\ IF close_sent[c]
       THEN UNCHANGED <<close_sent, pending_close, members, version, wake_up_for_output, work>>
       ELSE /\ close_sent' = [close_sent EXCEPT ![c] = TRUE]
            /\ pending_close' = TRUE
            /\ members' = members \ {c}
            /\ version' = version + 1
            /\ wake_up_for_output' = TRUE
            /\ work' = Append(work, Item("close", c, 0))
  /\ UNCHANGED <<handles, lpc, output_buffer, produced, exited, eof, ppc, pversion, pcur,
                 active, blocked, server_stopped, stopping, runner_done>>

PusherVisits(c) ==
  /\ PusherAt("scan") /\ c \in ptodo
  /\ ~exited[c]
  /\ active' = TRUE
  /\ ppc' = "drain" /\ pcur' = c
  /\ UNCHANGED <<handles, close_sent, work, lpc, interpreters, wake_up_for_output, ptodo,
                 pversion, blocked, pending_close, any_exited, server_stopped, stopping,
                 runner_done>>

(* Mutant: the buffer overtakes the work that is already queued.           *)
PusherDrainsToFront ==
  /\ PusherAt("drain")
  /\ output_buffer[pcur] # <<>>
  /\ output_buffer' = [output_buffer EXCEPT ![pcur] = Tail(@)]
  /\ work' = <<Item("write", pcur, Head(output_buffer[pcur]))>> \o work
  /\ blocked' = TRUE
  /\ UNCHANGED <<handles, close_sent, lpc, members, version, produced, exited, eof,
                 wake_up_for_output, ppc, ptodo, pversion, pcur, active, pending_close,
                 any_exited, server_stopped, stopping, runner_done>>

(* output_buffer.pop() returns a buffer: queue its uv_write.               *)
PusherDrains ==
  /\ PusherAt("drain")
  /\ output_buffer[pcur] # <<>>
  /\ output_buffer' = [output_buffer EXCEPT ![pcur] = Tail(@)]
  /\ work' = Append(work, Item("write", pcur, Head(output_buffer[pcur])))
  /\ blocked' = TRUE
  /\ UNCHANGED <<handles, close_sent, lpc, members, version, produced, exited, eof,
                 wake_up_for_output, ppc, ptodo, pversion, pcur, active, pending_close,
                 any_exited, server_stopped, stopping, runner_done>>

PusherDrained ==
  /\ PusherAt("drain")
  /\ output_buffer[pcur] = <<>>
  /\ ppc' = "scan" /\ ptodo' = ptodo \ {pcur} /\ pcur' = NoConn
  /\ UNCHANGED <<handles, close_sent, work, lpc, interpreters, wake_up_for_output,
                 pversion, active, blocked, pending_close, any_exited, server_stopped,
                 stopping, runner_done>>

(* Mutant: active_interpreters is not reset for the next pass.             *)
PusherEndsKeepsCount ==
  /\ PusherAt("scan") /\ ptodo = {}
  /\ IF exit_when_done /\ ~active
       THEN ppc' = "done" /\ server_stopped' = TRUE
       ELSE /\ ppc' = IF blocked \/ pending_close \/ any_exited THEN "top" ELSE "compare"
            /\ UNCHANGED server_stopped
  /\ blocked' = FALSE /\ pending_close' = FALSE /\ any_exited' = FALSE
  /\ UNCHANGED <<handles, close_sent, work, lpc, interpreters, wake_up_for_output, ptodo,
                 pversion, pcur, active, stopping, runner_done>>

(* The end of a pass: stop, go round again, or consider waiting.           *)
PusherEnds ==
  /\ PusherAt("scan") /\ ptodo = {}
  /\ IF exit_when_done /\ ~active
       THEN ppc' = "done" /\ server_stopped' = TRUE
       ELSE /\ ppc' = IF blocked \/ pending_close \/ any_exited THEN "top" ELSE "compare"
            /\ UNCHANGED server_stopped
  /\ active' = FALSE /\ blocked' = FALSE /\ pending_close' = FALSE /\ any_exited' = FALSE
  /\ UNCHANGED <<handles, close_sent, work, lpc, interpreters, wake_up_for_output, ptodo,
                 pversion, pcur, stopping, runner_done>>

PusherCompares ==
  /\ PusherAt("compare")
  /\ ppc' = IF pversion = version THEN "loadexit" ELSE "top"
  /\ pversion' = 0
  /\ UNCHANGED <<handles, close_sent, work, lpc, interpreters, wake_up_for_output, ptodo,
                 pcur, active, blocked, pending_close, any_exited,
                 server_stopped, stopping, runner_done>>

PusherLoadsExit ==
  /\ PusherAt("loadexit")
  /\ ppc' = IF exit_when_done THEN "top" ELSE "wait"
  /\ UNCHANGED <<handles, close_sent, work, lpc, interpreters, wake_up_for_output, ptodo,
                 pversion, pcur, active, blocked, pending_close, any_exited,
                 server_stopped, stopping, runner_done>>

PusherWaits ==
  /\ PusherAt("wait")
  /\ wake_up_for_output
  /\ wake_up_for_output' = FALSE
  /\ ppc' = "top"
  /\ UNCHANGED <<handles, close_sent, work, lpc, interpreters, ptodo, pversion, pcur,
                 active, blocked, pending_close, any_exited, server_stopped, stopping,
                 runner_done>>
-----------------------------------------------------------------------------
(* LibuvServerWrapper::stop. stop_accepting: exchange, notify, push_work.  *)
StopAcceptingSets ==
  /\ StopAt("idle")
  /\ exit_when_done' = TRUE
  /\ spc' = "notify"
  /\ UNCHANGED <<handles, close_sent, work, lpc, interpreters, wake_up_for_output, pusher,
                 server_stopped, runner_exit, runner_done>>

StopAcceptingNotifies ==
  /\ StopAt("notify")
  /\ wake_up_for_output' = TRUE
  /\ spc' = "close"
  /\ UNCHANGED <<handles, close_sent, work, lpc, interpreters, pusher, server_stopped,
                 exit_when_done, runner_exit, runner_done>>

StopAcceptingReturns ==
  /\ StopAt("close")
  /\ work' = Append(work, Item("close_server", NoConn, 0))
  /\ spc' = "exit"
  /\ UNCHANGED <<handles, close_sent, lpc, interpreters, wake_up_for_output, pusher,
                 server_stopped, exit_when_done, runner_exit, runner_done>>

StopSetsExit ==
  /\ StopAt("exit")
  /\ runner_exit' = TRUE
  /\ wake_up_for_output' = TRUE
  /\ spc' = "join"
  /\ UNCHANGED <<handles, close_sent, work, lpc, interpreters, pusher, server_stopped,
                 exit_when_done, runner_done>>

(* interpreter_thread_.join(), callback_thread_.join().                    *)
StopJoins ==
  /\ StopAt("join")
  /\ runner_done
  /\ spc' = "wait"
  /\ UNCHANGED <<handles, close_sent, work, lpc, interpreters, wake_up_for_output, pusher,
                 server_stopped, exit_when_done, runner_exit, runner_done>>

(* server_stopped.wait().                                                  *)
StopReturns ==
  /\ StopAt("wait")
  /\ server_stopped
  /\ spc' = "returned"
  /\ UNCHANGED <<handles, close_sent, work, lpc, interpreters, wake_up_for_output, pusher,
                 server_stopped, exit_when_done, runner_exit, runner_done>>
-----------------------------------------------------------------------------
LoopWork ==
  \/ LoopAsync \/ LoopProcessed
  \/ \E outcome \in {"failed", "bound", "listening"} : WorkBind(outcome)
  \/ WorkWrite \/ WorkClose \/ WorkCloseServer
LoopClose == OnCloseServer \/ \E c \in Conns : OnClose(c)

(* What clients do and when.                                               *)
Peers ==
  \E c \in Conns :
    OnNewConnection(c) \/ OnNewConnectionFails(c) \/ OnReadOrphan(c) \/ OnEof(c)

Pusher ==
  \/ PusherSnapshot
  \/ \E c \in Conns : PusherCloses(c) \/ PusherVisits(c)
  \/ PusherDrains \/ PusherDrained
  \/ PusherEnds \/ PusherCompares \/ PusherLoadsExit \/ PusherWaits

Stop == StopAcceptingNotifies \/ StopAcceptingReturns \/ StopSetsExit \/ StopJoins
           \/ StopReturns

Interpreters ==
  \E c \in Conns : InterpreterWrites(c) \/ InterpreterExits(c)

Next ==
  \/ LoopWork \/ LoopClose \/ Peers \/ Pusher \/ Interpreters \/ RunnerStops
  \/ StopAcceptingSets \/ Stop

(* The loop runs its queued work and, in every iteration, its close        *)
(* callbacks; the pusher and the stopping thread keep running and the      *)
(* runner's threads stop when they can. Clients and interpreters owe       *)
(* nothing, and nobody has to call stop().                                 *)
Fairness ==
  /\ WF_vars(LoopWork) /\ SF_vars(LoopClose)
  /\ WF_vars(Pusher) /\ WF_vars(RunnerStops) /\ WF_vars(Stop)

Spec == Init /\ [][Next]_vars /\ Fairness
-----------------------------------------------------------------------------
Queued(c) == DataOf(work, Writes(c))

(* The pusher, the work queue and the loop: as long as an interpreter runs *)
(* and its connection is open, what it wrote is on the wire, queued for    *)
(* the loop or still in output_buffer: in order, each buffer once.         *)
OutputInOrder ==
  \A c \in Conns :
    conn[c] = "open" /\ ~exited[c] =>
      wire[c] \o Queued(c) \o output_buffer[c] = Written(produced[c])

(* on_close_cb deletes the UvConnectionData that the interpreter's         *)
(* additional_data points to: no collection that is published, nor the     *)
(* pusher's snapshot, still has an interpreter of a closed connection.     *)
NoDanglingConnection ==
  \A c \in Conns :
    /\ c \in members => conn[c] = "open"
    /\ ppc \in {"scan", "drain"} /\ c \in ptodo => conn[c] = "open"

(* The pusher's promise: as long as it runs, the connection of an          *)
(* interpreter that exits is closed and it leaves the collection.          *)
ExitedIsClosed ==
  \A c \in Conns :
    exited[c] ~> (conn[c] = "closed" /\ c \notin members) \/ (ppc = "done" /\ ~close_sent[c])
                 \/ Aborted

(* No wakeup of the pusher is lost: as long as it runs, what a running     *)
(* interpreter writes is taken to the loop.                                *)
OutputIsTaken ==
  \A c \in Conns :
    output_buffer[c] # <<>> ~> output_buffer[c] = <<>> \/ exited[c] \/ ppc = "done" \/ Aborted

(* stop() returns once every interpreter has exited, if the server was     *)
(* bound (otherwise there is no pusher to fulfil server_stopped).          *)
StopCompletes ==
  <>[](spc # "idle" /\ ppc # "off" /\ \A c \in members : exited[c])
    => <>(spc = "returned" \/ Aborted)

(* libuvserverrunner.cpp:83: all outgoing data of an interpreter is taken  *)
(* from its output_buffer before its connection is closed.                 *)
OutputDrained ==
  \A c \in Conns : conn[c] \in {"closing", "closed"} /\ ~eof[c] => output_buffer[c] = <<>>
-----------------------------------------------------------------------------
(* The inductive invariant. The pusher removes an interpreter from the     *)
(* collection before it queues the close of its connection, which it does  *)
(* once: nobody is reachable whose connection is or will be closed.        *)
MemberInv ==
  /\ \A c \in members : conn[c] = "open" /\ ~close_sent[c]
  /\ ppc \in {"scan", "drain"} => ptodo \subseteq members
  /\ ppc = "drain" => pcur \in ptodo
  /\ \A k \in 1..Len(work) : work[k].kind = "close" => work[k].conn \notin members

(* A connection that was not accepted has nothing.                         *)
FreshInv ==
  \A c \in Conns :
    conn[c] \in {"none", "unlinked"} =>
      /\ c \notin members /\ ~close_sent[c]
      /\ wire[c] = <<>> /\ output_buffer[c] = <<>> /\ produced[c] = 0
      /\ \A k \in 1..Len(work) : work[k].conn # c

IInv == TypeOK /\ MemberInv /\ FreshInv /\ OutputInOrder
=============================================================================
