------------------------- MODULE LibuvClient_proofs -------------------------
(***************************************************************************)
(* What LibuvClientRunner promises, for every number of buffers: the       *)
(* output stays in order, and unless a write fails nothing is used after   *)
(* it was deleted and no work is left behind. IInv of module LibuvClient   *)
(* is inductive; each of its parts has a lemma for the steps of Next.      *)
(***************************************************************************)
EXTENDS LibuvClient, WorkQueue_proofs

(* The initial state has all parts of the invariant: nothing is queued.    *)
LEMMA InitInv == Init => IInv
<1> SUFFICES ASSUME Init PROVE IInv
  OBVIOUS
<1>1. TypeOK
  <2>1. /\ work \in Seq(Items) /\ item \in Items
        /\ done \in 0..Len(writes) /\ produced \in 0..MaxOutput
        /\ writes \in Seq(1..MaxOutput) /\ wire \in Seq(1..MaxOutput)
        /\ output_buffer \in Seq(1..MaxOutput)
    BY MaxOutputAssumption DEF Init, Items, Item
  <2>2. /\ shutdown_called \in BOOLEAN /\ shutdown_promise \in BOOLEAN /\ reading \in BOOLEAN
        /\ inserted \in BOOLEAN /\ exited \in BOOLEAN /\ interpreter_result \in BOOLEAN
        /\ eof \in BOOLEAN /\ exit_when_done \in BOOLEAN /\ runner_done \in BOOLEAN
        /\ wake_up_for_output \in BOOLEAN /\ did_something \in BOOLEAN
        /\ broken \in BOOLEAN /\ aborted \in BOOLEAN
    BY Zenon DEF Init
  <2> QED
    BY <2>1, <2>2 DEF Init, TypeOK
<1>2. ResultInv /\ ConnectInv /\ QueueInv /\ HandleInv /\ AbortsOnlyWhenBroken
  BY DEF Init, AbortsOnlyWhenBroken, QueueInv, ConnectInv, ResultInv, HandleInv
<1>3. OutputInOrder
  <2>1. Queued = <<>>
    BY DataOfEmpty DEF Init, Queued, Line
  <2>2. NotTaken(writes, done) = <<>>
    <3>1. writes \in Seq(Nat) /\ writes = <<>> /\ done = 0
      BY DEF Init
    <3> QED
      BY <3>1, NotTakenEnds
  <2>3. <<>> \o <<>> \o <<>> \o <<>> = Written(0)
    BY DEF Written
  <2> QED
    BY <2>1, <2>2, <2>3 DEF Init, OutputInOrder
<1> QED
  BY <1>1, <1>2, <1>3 DEF IInv

(* Every step keeps the types.                                             *)
LEMMA TypeStep == TypeOK /\ [Next]_vars => TypeOK'
<1> SUFFICES ASSUME TypeOK, [Next]_vars PROVE TypeOK'
  OBVIOUS
<1> USE MaxOutputAssumption
    DEF queue, conn, socket, results, interpreter, runner, pusher, OwnerAt, Polls, Pop,
        PusherAt, Running
<1>1. CASE Start
  BY <1>1 DEF Start, Items, Item, TypeOK
<1>2. CASE Connected
  BY <1>2 DEF Connected, TypeOK
<1>3. CASE ResultCalled
  BY <1>3 DEF ResultCalled, TypeOK
<1>4. CASE ResultTaken
  BY <1>4 DEF ResultTaken, TypeOK
<1>5. CASE ShutdownPushes
  BY <1>5 DEF ShutdownPushes, Items, Item, TypeOK
<1>6. CASE ShutdownReturns
  BY <1>6 DEF ShutdownReturns, TypeOK
<1>7. CASE Joins
  BY <1>7 DEF Joins, TypeOK
<1>8. CASE WorkConnect
  BY <1>8 DEF WorkConnect, TypeOK
<1>9. CASE OnConnect
  BY <1>9 DEF OnConnect, TypeOK
<1>10. CASE OnConnected
  BY <1>10 DEF OnConnected, TypeOK
<1>11. CASE OnConnectFails
  BY <1>11 DEF OnConnectFails, TypeOK
<1>12. CASE OnConnectFailed
  BY <1>12 DEF OnConnectFailed, TypeOK
<1>13. CASE WorkWrite
  <2>1. broken' \in BOOLEAN /\ aborted' \in BOOLEAN
    BY <1>13, Zenon DEF WorkWrite
  <2>2. work' \in Seq(Items) /\ Head(work) \in Writes
    <3>1. work \in Seq(Items) /\ work # <<>> /\ work' = Tail(work) /\ Head(work).kind = "write"
      BY <1>13 DEF WorkWrite, TypeOK
    <3>2. Head(work) \in Items /\ Tail(work) \in Seq(Items)
      BY <3>1
    <3> QED
      BY <3>1, <3>2 DEF Items
  <2>3. writes' \in Seq(1..MaxOutput) /\ done' \in 0..Len(writes')
    <3>1. /\ writes' = writes \/ writes' = Append(writes, Head(work).data)
          /\ Head(work).data \in 1..MaxOutput /\ done' = done
      BY <1>13, <2>2 DEF WorkWrite, Writes
    <3>2. writes \in Seq(1..MaxOutput) /\ done \in 0..Len(writes)
      BY DEF TypeOK
    <3>3. CASE writes' = writes
      BY <3>1, <3>2, <3>3
    <3>4. CASE writes' = Append(writes, Head(work).data)
      BY <3>1, <3>2, <3>4
    <3> QED
      BY <3>1, <3>3, <3>4
  <2>4. UNCHANGED <<opc, lpc, async, shutdown_called, shutdown_promise, conn, wire, results,
                    interpreter, runner, wake_up_for_output, pusher>>
    BY <1>13 DEF WorkWrite
  <2> QED
    BY <2>1, <2>2, <2>3, <2>4 DEF TypeOK
<1>14. CASE WorkClose
  <2>1. reading' \in BOOLEAN /\ aborted' \in BOOLEAN
    BY <1>14, Zenon DEF WorkClose
  <2> QED
    BY <1>14, <2>1 DEF WorkClose, TypeOK
<1>15. CASE WorkShutdown
  BY <1>15 DEF WorkShutdown, TypeOK
<1>16. CASE ShutdownClose
  BY <1>16 DEF ShutdownClose, TypeOK
<1>17. CASE OnClose
  BY <1>17 DEF OnClose, TypeOK
<1>18. CASE SocketTakes
  BY <1>18 DEF SocketTakes, TypeOK
<1>19. CASE OnWriteCompleted
  BY <1>19 DEF OnWriteCompleted, TypeOK
<1>20. CASE OnWriteFailed
  <2>1. aborted' \in BOOLEAN
    BY <1>20, Zenon DEF OnWriteFailed
  <2>2. writes' \in Seq(1..MaxOutput) /\ done' \in 0..Len(writes')
    <3>1. writes # <<>> /\ writes' = Tail(writes) /\ done' = 0 /\ writes \in Seq(1..MaxOutput)
      BY <1>20 DEF OnWriteFailed, TypeOK
    <3> QED
      BY <3>1
  <2>3. /\ handle' = "closing" /\ eof' \in BOOLEAN /\ wake_up_for_output' \in BOOLEAN
        /\ reading' \in BOOLEAN /\ broken' \in BOOLEAN
        /\ UNCHANGED <<opc, lpc, queue, wire, results, inserted, exited, interpreter_result,
                       output_buffer, produced, runner, pusher>>
    BY <1>20 DEF OnWriteFailed
  <2> QED
    BY <2>1, <2>2, <2>3 DEF TypeOK
<1>21. CASE PusherLooks
  <2>1. aborted' \in BOOLEAN
    BY <1>21, Zenon DEF PusherLooks
  <2>2. ppc' \in {"test", "drain"} /\ item' \in Items /\ did_something' \in BOOLEAN
    <3>1. (item' = item \/ item' = Item("close")) /\ (ppc' = "test" \/ ppc' = "drain")
      BY <1>21, Zenon DEF PusherLooks
    <3>2. did_something' = FALSE /\ item \in Items
      BY <1>21, Zenon DEF PusherLooks, TypeOK
    <3>3. Item("close") \in Items
      BY DEF Items, Item
    <3> QED
      BY <3>1, <3>2, <3>3
  <2>3. UNCHANGED <<opc, lpc, queue, conn, socket, results, interpreter, runner,
                    wake_up_for_output>>
    BY <1>21 DEF PusherLooks
  <2> QED
    BY <2>1, <2>2, <2>3 DEF TypeOK
<1>22. CASE PusherDrains
  BY <1>22 DEF PusherDrains, Items, Writes, Write, TypeOK
<1>23. CASE PusherDrained
  BY <1>23 DEF PusherDrained, TypeOK
<1>24. CASE PusherWaits
  <2>1. wake_up_for_output' \in BOOLEAN
    BY <1>24, Zenon DEF PusherWaits
  <2> QED
    BY <1>24, <2>1 DEF PusherWaits, TypeOK
<1>25. CASE PushWorkTests
  BY <1>25 DEF PushWorkTests, TypeOK
<1>26. CASE PushWorkPushes
  BY <1>26 DEF PushWorkPushes, TypeOK
<1>27. CASE PusherPropagates
  BY <1>27 DEF PusherPropagates, TypeOK
<1>28. CASE InterpreterExits
  BY <1>28 DEF InterpreterExits, TypeOK
<1>29. CASE InterpreterReturns
  BY <1>29 DEF InterpreterReturns, TypeOK
<1>30. CASE RunnerStops
  BY <1>30 DEF RunnerStops, TypeOK
<1>31. CASE InterpreterWrites
  BY <1>31 DEF InterpreterWrites, TypeOK
<1>32. CASE OnReadEnd
  <2>1. reading' \in BOOLEAN
    BY <1>32, Zenon DEF OnReadEnd
  <2> QED
    BY <1>32, <2>1 DEF OnReadEnd, TypeOK
<1>33. CASE UNCHANGED vars
  BY <1>33 DEF vars, TypeOK
<1> QED
  BY <1>1, <1>2, <1>3, <1>4, <1>5, <1>6, <1>7, <1>8, <1>9, <1>10, <1>11, <1>12, <1>13, <1>14,
     <1>15, <1>16, <1>17, <1>18, <1>19, <1>20, <1>21, <1>22, <1>23, <1>24, <1>25, <1>26, <1>27,
     <1>28, <1>29, <1>30, <1>31, <1>32, <1>33
     DEF Next, Owner, Loop, Socket, Pusher, Interpreter

(* A result is set once the connection failed or the pusher is done.       *)
LEMMA ResultStep ==
  ASSUME TypeOK, ResultInv, ConnectInv, QueueInv, [Next]_vars
  PROVE  ResultInv'
<1> USE DEF queue, conn, socket, results, interpreter, runner, pusher, OwnerAt, Polls, Pop,
            PusherAt, Running
<1>1. CASE WorkWrite \/ WorkShutdown \/ ShutdownClose \/ SocketTakes \/ OnWriteCompleted
           \/ InterpreterExits \/ InterpreterReturns \/ RunnerStops \/ InterpreterWrites
           \/ OnReadEnd \/ UNCHANGED vars
  <2>1. UNCHANGED <<client_result, ppc, lpc, handle, opc>>
    BY <1>1 DEF WorkWrite, WorkShutdown, ShutdownClose, SocketTakes, OnWriteCompleted,
                InterpreterExits, InterpreterReturns, RunnerStops, InterpreterWrites,
                OnReadEnd, vars
  <2> QED
    BY <2>1 DEF ResultInv
<1>2. CASE Start
  BY <1>2 DEF Start, ResultInv
<1>3. CASE Connected
  BY <1>3 DEF Connected, ResultInv
<1>4. CASE ResultCalled
  BY <1>4 DEF ResultCalled, ResultInv
<1>5. CASE ResultTaken
  BY <1>5 DEF ResultTaken, ResultInv
<1>6. CASE ShutdownPushes
  BY <1>6 DEF ShutdownPushes, ResultInv
<1>7. CASE ShutdownReturns
  BY <1>7 DEF ShutdownReturns, ResultInv
<1>8. CASE Joins
  BY <1>8 DEF Joins, ResultInv
<1>9. CASE WorkConnect
  BY <1>9 DEF WorkConnect, ConnectInv, ResultInv
<1>10. CASE OnConnect
  BY <1>10 DEF OnConnect, ResultInv
<1>11. CASE OnConnected
  BY <1>11 DEF OnConnected, ConnectInv, ResultInv
<1>12. CASE OnConnectFails
  BY <1>12 DEF OnConnectFails, ResultInv
<1>13. CASE OnConnectFailed
  BY <1>13 DEF OnConnectFailed, ConnectInv, ResultInv
<1>14. CASE WorkClose
  BY <1>14 DEF WorkClose, ResultInv
<1>15. CASE OnClose
  BY <1>15 DEF OnClose, ResultInv
<1>16. CASE OnWriteFailed
  BY <1>16 DEF OnWriteFailed, ResultInv
<1>17. CASE PusherLooks
  BY <1>17 DEF PusherLooks, ResultInv
<1>18. CASE PusherDrains
  BY <1>18 DEF PusherDrains, ResultInv
<1>19. CASE PusherDrained
  BY <1>19 DEF PusherDrained, ResultInv
<1>20. CASE PusherWaits
  BY <1>20 DEF PusherWaits, ResultInv
<1>21. CASE PushWorkTests
  BY <1>21 DEF PushWorkTests, ResultInv
<1>22. CASE PushWorkPushes
  BY <1>22 DEF PushWorkPushes, ResultInv
<1>23. CASE PusherPropagates
  BY <1>23 DEF PusherPropagates, ResultInv
<1> QED
  BY <1>1, <1>2, <1>3, <1>4, <1>5, <1>6, <1>7, <1>8, <1>9, <1>10, <1>11, <1>12, <1>13, <1>14,
     <1>15, <1>16, <1>17, <1>18, <1>19, <1>20, <1>21, <1>22, <1>23
     DEF Next, Owner, Loop, Socket, Pusher, Interpreter

(* on_connect_client_cb runs once, and before the pusher.                  *)
LEMMA ConnectStep ==
  ASSUME TypeOK, ResultInv, ConnectInv, QueueInv, [Next]_vars
  PROVE  ConnectInv'
<1> USE DEF queue, conn, socket, results, interpreter, runner, pusher, OwnerAt, Polls, Pop,
            PusherAt, Running
<1>1. CASE ShutdownClose \/ SocketTakes \/ OnWriteCompleted \/ InterpreterExits
           \/ InterpreterReturns \/ RunnerStops \/ InterpreterWrites \/ OnReadEnd
           \/ UNCHANGED vars
  <2>1. UNCHANGED <<handle, opc, lpc, connection_result, work, ppc>>
    BY <1>1 DEF ShutdownClose, SocketTakes, OnWriteCompleted, InterpreterExits,
                InterpreterReturns, RunnerStops, InterpreterWrites, OnReadEnd, vars
  <2> QED
    BY <2>1 DEF ConnectInv
<1>2. CASE Start
  BY <1>2 DEF Start, ConnectInv
<1>3. CASE Connected
  BY <1>3 DEF Connected, ConnectInv
<1>4. CASE ResultCalled
  BY <1>4 DEF ResultCalled, ConnectInv
<1>5. CASE ResultTaken
  BY <1>5 DEF ResultTaken, ConnectInv
<1>6. CASE ShutdownPushes
  BY <1>6 DEF ShutdownPushes, ConnectInv, Items, Item
<1>7. CASE ShutdownReturns
  BY <1>7 DEF ShutdownReturns, ConnectInv
<1>8. CASE Joins
  BY <1>8 DEF Joins, ConnectInv
<1>9. CASE WorkConnect
  BY <1>9 DEF WorkConnect, ConnectInv
<1>10. CASE OnConnect
  BY <1>10 DEF OnConnect, ConnectInv
<1>11. CASE OnConnected
  BY <1>11 DEF OnConnected, ConnectInv
<1>12. CASE OnConnectFails
  BY <1>12 DEF OnConnectFails, ConnectInv
<1>13. CASE OnConnectFailed
  BY <1>13 DEF OnConnectFailed, ConnectInv
<1>14. CASE WorkWrite
  BY <1>14 DEF WorkWrite, ConnectInv, Item
<1>15. CASE WorkClose
  BY <1>15 DEF WorkClose, ConnectInv
<1>16. CASE WorkShutdown
  BY <1>16 DEF WorkShutdown, ConnectInv, Item
<1>17. CASE OnClose
  BY <1>17 DEF OnClose, ConnectInv
<1>18. CASE OnWriteFailed
  BY <1>18 DEF OnWriteFailed, ConnectInv
<1>19. CASE PusherLooks
  BY <1>19 DEF PusherLooks, ConnectInv
<1>20. CASE PusherDrains
  BY <1>20 DEF PusherDrains, ConnectInv
<1>21. CASE PusherDrained
  BY <1>21 DEF PusherDrained, ConnectInv
<1>22. CASE PusherWaits
  BY <1>22 DEF PusherWaits, ConnectInv
<1>23. CASE PushWorkTests
  BY <1>23 DEF PushWorkTests, ConnectInv
<1>24. CASE PushWorkPushes
  BY <1>24 DEF PushWorkPushes, QueueInv, ConnectInv, Item, Writes
<1>25. CASE PusherPropagates
  BY <1>25 DEF PusherPropagates, ConnectInv
<1> QED
  BY <1>1, <1>2, <1>3, <1>4, <1>5, <1>6, <1>7, <1>8, <1>9, <1>10, <1>11, <1>12, <1>13, <1>14,
     <1>15, <1>16, <1>17, <1>18, <1>19, <1>20, <1>21, <1>22, <1>23, <1>24, <1>25
     DEF Next, Owner, Loop, Socket, Pusher, Interpreter

(* Writes, one close, and the shutdown that follows it, are queued in this *)
(* order.                                                                  *)
LEMMA QueueStep ==
  ASSUME TypeOK, ResultInv, ConnectInv, QueueInv, [Next]_vars
  PROVE  QueueInv'
<1> USE DEF queue, conn, socket, results, interpreter, runner, pusher, OwnerAt, Polls, Pop,
            PusherAt, Running
<1>1. CASE OnConnect \/ OnConnectFails \/ OnConnectFailed \/ OnClose \/ SocketTakes
           \/ OnWriteCompleted \/ OnWriteFailed \/ InterpreterReturns \/ RunnerStops
           \/ InterpreterWrites \/ OnReadEnd \/ UNCHANGED vars
  <2>1. UNCHANGED <<opc, shutdown_called, async, work, ppc, item, exited>>
    BY <1>1 DEF OnConnect, OnConnectFails, OnConnectFailed, OnClose, SocketTakes,
                OnWriteCompleted, OnWriteFailed, InterpreterReturns, RunnerStops,
                InterpreterWrites, OnReadEnd, vars
  <2> QED
    BY <2>1 DEF QueueInv
<1>2. CASE Start
  BY <1>2 DEF Start, QueueInv, ConnectInv, Item
<1>3. CASE Connected
  BY <1>3 DEF Connected, QueueInv
<1>4. CASE ResultCalled
  BY <1>4 DEF ResultCalled, QueueInv
<1>5. CASE ResultTaken
  BY <1>5 DEF ResultTaken, QueueInv
<1>6. CASE ShutdownPushes
  BY <1>6 DEF ShutdownPushes, QueueInv, Item
<1>7. CASE ShutdownReturns
  BY <1>7 DEF ShutdownReturns, QueueInv
<1>8. CASE Joins
  BY <1>8 DEF Joins, QueueInv
<1>9. CASE WorkConnect
  BY <1>9 DEF WorkConnect, QueueInv
<1>10. CASE OnConnected
  BY <1>10 DEF OnConnected, QueueInv, ConnectInv
<1>11. CASE WorkWrite
  BY <1>11 DEF WorkWrite, QueueInv
<1>12. CASE WorkClose
  BY <1>12 DEF WorkClose, QueueInv
<1>13. CASE WorkShutdown
  BY <1>13 DEF WorkShutdown, QueueInv, ConnectInv
<1>14. CASE ShutdownClose
  BY <1>14 DEF ShutdownClose, QueueInv
<1>15. CASE PusherLooks
  BY <1>15 DEF PusherLooks, QueueInv
<1>16. CASE PusherDrains
  <2>1. Head(output_buffer) \in 1..MaxOutput
    <3>1. output_buffer \in Seq(1..MaxOutput) /\ output_buffer # <<>>
      BY <1>16 DEF PusherDrains, TypeOK
    <3> QED
      BY <3>1, HeadTailProperties
  <2>2. item' \in Writes /\ ppc = "drain" /\ ppc' = "test"
    BY <1>16, <2>1 DEF PusherDrains, Writes, Write
  <2>3. UNCHANGED <<opc, shutdown_called, async, work>>
    BY <1>16 DEF PusherDrains
  <2> QED
    BY <2>2, <2>3 DEF QueueInv
<1>17. CASE PusherDrained
  BY <1>17 DEF PusherDrained, QueueInv
<1>18. CASE PusherWaits
  BY <1>18 DEF PusherWaits, QueueInv
<1>19. CASE PushWorkTests
  BY <1>19 DEF PushWorkTests, QueueInv
<1>20. CASE PushWorkPushes
  BY <1>20 DEF PushWorkPushes, QueueInv, ResultInv, Item, Writes, TypeOK
<1>21. CASE PusherPropagates
  BY <1>21 DEF PusherPropagates, QueueInv
<1>22. CASE InterpreterExits
  BY <1>22 DEF InterpreterExits, QueueInv
<1> QED
  BY <1>1, <1>2, <1>3, <1>4, <1>5, <1>6, <1>7, <1>8, <1>9, <1>10, <1>11, <1>12, <1>13, <1>14,
     <1>15, <1>16, <1>17, <1>18, <1>19, <1>20, <1>21, <1>22
     DEF Next, Owner, Loop, Socket, Pusher, Interpreter

(* Until a write fails, the handle is open for as long as the pusher needs *)
(* it.                                                                     *)
LEMMA HandleStep ==
  ASSUME TypeOK, ResultInv, ConnectInv, QueueInv, HandleInv, [Next]_vars
  PROVE  HandleInv'
<1> USE DEF queue, conn, socket, results, interpreter, runner, pusher, OwnerAt, Polls, Pop,
            PusherAt, Running
<1>1. CASE Connected \/ ResultCalled \/ ResultTaken \/ ShutdownReturns \/ Joins
           \/ OnConnectFails \/ ShutdownClose \/ SocketTakes \/ OnWriteCompleted
           \/ InterpreterExits \/ InterpreterReturns \/ RunnerStops \/ InterpreterWrites
           \/ OnReadEnd \/ UNCHANGED vars
  <2>1. UNCHANGED <<broken, ppc, handle, work>>
    BY <1>1 DEF Connected, ResultCalled, ResultTaken, ShutdownReturns, Joins, OnConnectFails,
                ShutdownClose, SocketTakes, OnWriteCompleted, InterpreterExits,
                InterpreterReturns, RunnerStops, InterpreterWrites, OnReadEnd, vars
  <2> QED
    BY <2>1 DEF HandleInv
<1>2. CASE Start
  BY <1>2 DEF Start, HandleInv, Item
<1>3. CASE ShutdownPushes
  BY <1>3 DEF ShutdownPushes, HandleInv, Item
<1>4. CASE WorkConnect
  BY <1>4 DEF WorkConnect, ConnectInv, HandleInv
<1>5. CASE OnConnect
  BY <1>5 DEF OnConnect, HandleInv
<1>6. CASE OnConnected
  BY <1>6 DEF OnConnected, ConnectInv, HandleInv
<1>7. CASE OnConnectFailed
  BY <1>7 DEF OnConnectFailed, ConnectInv, HandleInv
<1>8. CASE WorkWrite
  <2> SUFFICES ASSUME ~broken' PROVE HandleInv'
    BY DEF HandleInv
  <2>1. ~broken /\ handle = "open" /\ handle' = handle /\ ppc' = ppc
    BY <1>8, Zenon DEF WorkWrite
  <2>2. /\ work \in Seq(Items) /\ work # <<>> /\ work' = Tail(work)
        /\ work[1].kind = "write"
    BY <1>8 DEF WorkWrite, TypeOK
  <2>3. /\ \A k \in 1..Len(work') : k + 1 \in 1..Len(work) /\ work'[k] = work[k+1]
        /\ \A k \in 2..Len(work) : k - 1 \in 1..Len(work') /\ work[k] = work'[k-1]
    BY <2>2
  <2>4. (\A k \in 1..Len(work') : work'[k].kind # "close")
          => \A k \in 1..Len(work) : work[k].kind # "close"
    <3> SUFFICES ASSUME \A k \in 1..Len(work') : work'[k].kind # "close",
                        NEW k \in 1..Len(work)
                 PROVE  work[k].kind # "close"
      OBVIOUS
    <3>1. CASE k = 1
      BY <2>2, <3>1
    <3>2. CASE k \in 2..Len(work)
      BY <2>3, <3>2
    <3>3. k = 1 \/ k \in 2..Len(work)
      BY <2>2
    <3> QED
      BY <3>1, <3>2, <3>3
  <2> QED
    BY <2>1, <2>3, <2>4 DEF HandleInv
<1>9. CASE WorkClose
  BY <1>9 DEF WorkClose, QueueInv, HandleInv
<1>10. CASE WorkShutdown
  BY <1>10 DEF WorkShutdown, QueueInv, HandleInv
<1>11. CASE OnClose
  BY <1>11 DEF OnClose, HandleInv
<1>12. CASE OnWriteFailed
  BY <1>12 DEF OnWriteFailed, HandleInv
<1>13. CASE PusherLooks
  BY <1>13 DEF PusherLooks, HandleInv
<1>14. CASE PusherDrains
  BY <1>14 DEF PusherDrains, HandleInv
<1>15. CASE PusherDrained
  BY <1>15 DEF PusherDrained, HandleInv
<1>16. CASE PusherWaits
  BY <1>16 DEF PusherWaits, HandleInv
<1>17. CASE PushWorkTests
  BY <1>17 DEF PushWorkTests, HandleInv
<1>18. CASE PushWorkPushes
  BY <1>18 DEF PushWorkPushes, ConnectInv, HandleInv
<1>19. CASE PusherPropagates
  BY <1>19 DEF PusherPropagates, HandleInv
<1> QED
  BY <1>1, <1>2, <1>3, <1>4, <1>5, <1>6, <1>7, <1>8, <1>9, <1>10, <1>11, <1>12, <1>13, <1>14,
     <1>15, <1>16, <1>17, <1>18, <1>19
     DEF Next, Owner, Loop, Socket, Pusher, Interpreter

(* An abort comes after a write that failed.                               *)
LEMMA AbortStep ==
  ASSUME TypeOK, ResultInv, QueueInv, HandleInv, AbortsOnlyWhenBroken, [Next]_vars
  PROVE  AbortsOnlyWhenBroken'
<1> USE DEF queue, conn, socket, results, interpreter, runner, pusher, OwnerAt, Polls, Pop,
            PusherAt, Running
<1>1. CASE Start \/ Connected \/ ResultCalled \/ ResultTaken \/ ShutdownPushes
           \/ ShutdownReturns \/ Joins \/ WorkConnect \/ OnConnect \/ OnConnected
           \/ OnConnectFails \/ OnConnectFailed \/ WorkShutdown \/ ShutdownClose \/ OnClose
           \/ SocketTakes \/ OnWriteCompleted \/ PusherDrains \/ PusherWaits \/ PushWorkPushes
           \/ PusherPropagates \/ InterpreterExits \/ InterpreterReturns \/ RunnerStops
           \/ InterpreterWrites \/ OnReadEnd \/ UNCHANGED vars
  <2>1. UNCHANGED <<aborted, broken>>
    BY <1>1 DEF Start, Connected, ResultCalled, ResultTaken, ShutdownPushes, ShutdownReturns,
                Joins, WorkConnect, OnConnect, OnConnected, OnConnectFails, OnConnectFailed,
                WorkShutdown, ShutdownClose, OnClose, SocketTakes, OnWriteCompleted,
                PusherDrains, PusherWaits, PushWorkPushes, PusherPropagates, InterpreterExits,
                InterpreterReturns, RunnerStops, InterpreterWrites, OnReadEnd, vars
  <2> QED
    BY <2>1 DEF AbortsOnlyWhenBroken
<1>2. CASE WorkWrite
  BY <1>2 DEF WorkWrite, AbortsOnlyWhenBroken
<1>3. CASE WorkClose
  BY <1>3 DEF WorkClose, AbortsOnlyWhenBroken, HandleInv, TypeOK
<1>4. CASE OnWriteFailed
  BY <1>4 DEF OnWriteFailed, AbortsOnlyWhenBroken
<1>5. CASE PusherLooks
  BY <1>5 DEF PusherLooks, AbortsOnlyWhenBroken, HandleInv
<1>6. CASE PusherDrained
  BY <1>6 DEF PusherDrained, AbortsOnlyWhenBroken, HandleInv
<1>7. CASE PushWorkTests
  BY <1>7 DEF PushWorkTests, AbortsOnlyWhenBroken, QueueInv, ResultInv, HandleInv, TypeOK
<1> QED
  BY <1>1, <1>2, <1>3, <1>4, <1>5, <1>6, <1>7 DEF Next, Owner, Loop, Socket, Pusher,
                                                  Interpreter

(* exited and broken are set once and for all.                             *)
LEMMA HistoryStep == [Next]_vars => (~exited' => ~exited) /\ (~broken' => ~broken)
<1> USE DEF queue, conn, socket, results, interpreter, runner, pusher, Pop
<1>1. WorkWrite => (~exited' => ~exited) /\ (~broken' => ~broken)
  <2>1. WorkWrite => exited' = exited
    BY DEF WorkWrite
  <2>2. WorkWrite => (~broken' => ~broken)
    BY Zenon DEF WorkWrite
  <2> QED
    BY <2>1, <2>2
<1>2. OnWriteFailed \/ InterpreterExits => (~exited' => ~exited) /\ (~broken' => ~broken)
  BY DEF OnWriteFailed, InterpreterExits
<1>3. Owner \/ Pusher \/ UNCHANGED vars => UNCHANGED <<exited, broken>>
  BY DEF Owner, Start, Connected, ResultCalled, ResultTaken, ShutdownPushes, ShutdownReturns,
         Joins, Pusher, PusherLooks, PusherDrains, PusherDrained, PusherWaits, PushWorkTests,
         PushWorkPushes, PusherPropagates, vars
<1>4. (Loop /\ ~WorkWrite) \/ SocketTakes \/ OnWriteCompleted => UNCHANGED <<exited, broken>>
  BY DEF Loop, WorkConnect, OnConnect, OnConnected, OnConnectFails, OnConnectFailed, WorkClose,
         WorkShutdown, ShutdownClose, OnClose, SocketTakes, OnWriteCompleted
<1>5. InterpreterReturns \/ RunnerStops \/ InterpreterWrites \/ OnReadEnd
        => UNCHANGED <<exited, broken>>
  BY DEF InterpreterReturns, RunnerStops, InterpreterWrites, OnReadEnd
<1> QED
  BY <1>1, <1>2, <1>3, <1>4, <1>5 DEF Next, Socket, Interpreter

(* What the output passes through are sequences of numbers.                *)
LEMMA OutputTyped ==
  ASSUME TypeOK
  PROVE  /\ wire \in Seq(Nat) /\ output_buffer \in Seq(Nat) /\ writes \in Seq(Nat)
         /\ done \in 0..Len(writes) /\ produced \in Nat
         /\ NotTaken(writes, done) \in Seq(Nat)
         /\ Line \in Seq(Items) /\ Queued \in Seq(Nat)
         /\ \A w \in Writes : w.data \in Nat
<1>1. 1..MaxOutput \subseteq Nat
  BY MaxOutputAssumption
<1>2. /\ wire \in Seq(1..MaxOutput) /\ output_buffer \in Seq(1..MaxOutput)
      /\ writes \in Seq(1..MaxOutput) /\ done \in 0..Len(writes) /\ produced \in Nat
  BY MaxOutputAssumption DEF TypeOK
<1>3. wire \in Seq(Nat) /\ output_buffer \in Seq(Nat) /\ writes \in Seq(Nat)
  BY <1>1, <1>2, SeqMonotonic
<1>4. NotTaken(writes, done) \in Seq(Nat)
  BY <1>2, <1>3, NotTakenProperties
<1>5. Line \in Seq(Items)
  BY DEF Line, TypeOK
<1>6. \A w \in Writes : w.data \in Nat
  BY <1>1 DEF Writes
<1>7. Queued \in Seq(Nat)
  BY <1>5, <1>6, DataOfType DEF Queued
<1> QED
  BY <1>2, <1>3, <1>4, <1>5, <1>6, <1>7

(* process() takes the front of the queue, whatever push_work is about to  *)
(* add.                                                                    *)
LEMMA LinePopped ==
  ASSUME work \in Seq(Items), item \in Items, work # <<>>, work' = Tail(work),
         UNCHANGED <<ppc, item>>
  PROVE  Line # <<>> /\ Head(Line) = Head(work) /\ Line' = Tail(Line)
<1>1. CASE ppc \in {"test", "push"}
  <2>1. /\ Append(work, item) # <<>> /\ Head(Append(work, item)) = Head(work)
        /\ Tail(Append(work, item)) = Append(Tail(work), item)
    BY HeadTailAppend, AppendProperties
  <2>2. Line = Append(work, item) /\ Line' = Append(work', item')
    BY <1>1 DEF Line
  <2> QED
    BY <2>1, <2>2
<1>2. CASE ppc \notin {"test", "push"}
  BY <1>2 DEF Line
<1> QED
  BY <1>1, <1>2

(* Each step moves at most one buffer, from one place to the next.         *)
LEMMA OutputStep ==
  ASSUME TypeOK, TypeOK', ResultInv, ConnectInv, QueueInv, OutputInOrder, [Next]_vars
  PROVE  OutputInOrder'
<1> DEFINE under == NotTaken(writes, done)
           all == wire \o under \o Queued \o output_buffer
           upto == Written(produced)
<1> SUFFICES ASSUME ~exited', ~broken' PROVE all' = upto'
  BY DEF OutputInOrder
<1>a. ~exited /\ ~broken
  BY HistoryStep
<1>b. all = upto
  BY <1>a DEF OutputInOrder
<1>c. /\ wire \in Seq(Nat) /\ output_buffer \in Seq(Nat) /\ writes \in Seq(Nat)
      /\ done \in 0..Len(writes) /\ produced \in Nat /\ under \in Seq(Nat)
      /\ Line \in Seq(Items) /\ Queued \in Seq(Nat) /\ \A w \in Writes : w.data \in Nat
  BY OutputTyped
<1>d. ASSUME UNCHANGED <<wire, writes, done, output_buffer, produced, Queued>>
      PROVE  all' = upto'
  BY <1>b, <1>d
<1>e. ASSUME UNCHANGED <<wire, writes, done, output_buffer, produced, Line>>
      PROVE  all' = upto'
  BY <1>d, <1>e DEF Queued
<1> HIDE DEF all, upto
<1> USE DEF queue, conn, socket, results, interpreter, runner, pusher, OwnerAt, Polls, Pop,
            PusherAt, Running
(* Nothing is pushed or popped.                                            *)
<1>1. CASE \/ Connected \/ ResultCalled \/ ResultTaken \/ ShutdownReturns \/ Joins
           \/ OnConnect \/ OnConnectFails \/ OnConnectFailed \/ ShutdownClose \/ OnClose
           \/ InterpreterExits \/ InterpreterReturns \/ RunnerStops \/ OnReadEnd
           \/ UNCHANGED vars
  <2>1. UNCHANGED <<wire, writes, done, output_buffer, produced, work, ppc, item>>
    BY <1>1 DEF Connected, ResultCalled, ResultTaken, ShutdownReturns, Joins, OnConnect,
                OnConnectFails, OnConnectFailed, ShutdownClose, OnClose, InterpreterExits,
                InterpreterReturns, RunnerStops, OnReadEnd, vars
  <2> QED
    BY <1>e, <2>1 DEF Line
<1>2. CASE \/ OnConnected \/ PusherLooks \/ PusherDrained \/ PusherWaits \/ PusherPropagates
           \/ PushWorkTests
  <2>1. UNCHANGED <<wire, writes, done, output_buffer, produced, work>>
    BY <1>2 DEF OnConnected, PusherLooks, PusherDrained, PusherWaits, PusherPropagates,
                PushWorkTests
  <2>2. CASE \/ OnConnected \/ PusherLooks \/ PusherDrained \/ PusherWaits \/ PusherPropagates
    <3>1. ppc \notin {"test", "push"} /\ ppc' \notin {"test", "push"}
      BY <1>a, <2>2 DEF OnConnected, PusherLooks, PusherDrained, PusherWaits, PusherPropagates,
                        ConnectInv
    <3> QED
      BY <1>e, <2>1, <3>1 DEF Line
  <2>3. CASE PushWorkTests
    <3>1. ppc = "test" /\ ppc' = "push" /\ item' = item
      BY <2>3 DEF PushWorkTests
    <3> QED
      BY <1>e, <2>1, <3>1 DEF Line
  <2> QED
    BY <1>2, <2>2, <2>3
(* The application pushes what is no write.                                *)
<1>3. CASE Start \/ ShutdownPushes
  <2>1. /\ UNCHANGED <<wire, writes, done, output_buffer, produced, ppc>>
        /\ ppc \notin {"test", "push"} /\ work \in Seq(Items)
    BY <1>3 DEF Start, ShutdownPushes, ConnectInv, ResultInv, TypeOK
  <2>2. PICK i \in Items : work' = Append(work, i) /\ i \notin Writes
    <3>1. Item("connect") \in Items \ Writes /\ Item("shutdown") \in Items \ Writes
      BY DEF Items, Item, Writes
    <3>2. work' = Append(work, Item("connect")) \/ work' = Append(work, Item("shutdown"))
      BY <1>3 DEF Start, ShutdownPushes
    <3> QED
      BY <3>1, <3>2
  <2>3. DataOf(Append(work, i), Writes) = DataOf(work, Writes)
    BY <2>1, <2>2, DataOfAppend
  <2>4. Queued = DataOf(work, Writes) /\ Queued' = DataOf(work', Writes)
    BY <2>1 DEF Queued, Line
  <2> QED
    BY <1>d, <2>1, <2>2, <2>3, <2>4
(* process() serves what is no write.                                      *)
<1>4. CASE WorkConnect \/ WorkClose \/ WorkShutdown
  <2>1. /\ UNCHANGED <<wire, writes, done, output_buffer, produced, ppc, item>>
        /\ work \in Seq(Items) /\ item \in Items /\ work # <<>> /\ work' = Tail(work)
        /\ Head(work) = work[1] /\ Head(work).kind # "write" /\ 1 \in 1..Len(work)
    BY <1>4 DEF WorkConnect, WorkClose, WorkShutdown, TypeOK
  <2>2. Head(work) \notin Writes
    BY <2>1 DEF Writes
  <2>3. DataOf(work, Writes) = DataOf(Tail(work), Writes)
    BY <1>c, <2>1, <2>2, DataOfTail
  <2>4. Line # <<>> /\ Head(Line) = Head(work) /\ Line' = Tail(Line)
    BY <2>1, LinePopped
  <2>5. DataOf(Line, Writes) = DataOf(Tail(Line), Writes)
    BY <1>c, <2>2, <2>4, DataOfTail
  <2> QED
    BY <1>d, <2>1, <2>4, <2>5 DEF Queued
(* uv_write: from the queue to the requests under way.                     *)
<1>5. CASE WorkWrite
  <2>1. /\ UNCHANGED <<wire, done, output_buffer, produced, ppc, item>>
        /\ work \in Seq(Items) /\ item \in Items /\ work # <<>> /\ work' = Tail(work)
        /\ Head(work).kind = "write" /\ Head(work) \in Items
    BY <1>5 DEF WorkWrite, TypeOK
  <2>2. writes' = Append(writes, Head(work).data)
    <3>1. handle = "open"
      BY <1>5, Zenon DEF WorkWrite
    <3> QED
      BY <1>5, <3>1 DEF WorkWrite
  <2> DEFINE x == Head(work).data
             rest == DataOf(Tail(Line), Writes)
  <2>3. Head(work) \in Writes /\ x \in Nat
    BY <1>c, <2>1 DEF Items
  <2>4. Line # <<>> /\ Head(Line) = Head(work) /\ Line' = Tail(Line) /\ Tail(Line) \in Seq(Items)
    <3>1. Line # <<>> /\ Head(Line) = Head(work) /\ Line' = Tail(Line)
      BY <2>1, LinePopped
    <3> QED
      BY <1>c, <3>1, HeadTailProperties
  <2>5. Queued = <<x>> \o rest /\ Queued' = rest
    BY <1>c, <2>3, <2>4, DataOfTail DEF Queued
  <2>6. rest \in Seq(Nat)
    BY <1>c, <2>4, DataOfType
  <2>7. under' = Append(under, x)
    BY <1>c, <2>1, <2>2, <2>3, NotTakenAppend
  <2> HIDE DEF under, x, rest
  <2>8. (wire \o Append(under, x)) \o rest = (wire \o under) \o (<<x>> \o rest)
    <3>1. wire \in Seq(Nat) /\ under \in Seq(Nat) /\ rest \in Seq(Nat) /\ x \in Nat
      BY <1>c, <2>3, <2>6
    <3> QED
      BY ONLY <3>1, MoveAcross
  <2>9. (wire \o under') \o Queued' = (wire \o under) \o Queued
    BY <2>5, <2>7, <2>8
  <2> QED
    BY <1>b, <2>1, <2>9 DEF all, upto
(* From the requests under way to the wire.                                *)
<1>6. CASE SocketTakes
  <2>1. /\ UNCHANGED <<writes, output_buffer, produced, work, ppc, item>>
        /\ done < Len(writes) /\ done' = done + 1 /\ wire' = Append(wire, writes[done + 1])
    BY <1>6 DEF SocketTakes
  <2> DEFINE x == writes[done + 1]
             rest == NotTaken(writes, done + 1)
  <2>2. x \in Nat /\ done + 1 \in 0..Len(writes)
    BY <1>c, <2>1
  <2>3. under = <<x>> \o rest /\ under' = rest
    BY <1>c, <2>1, NotTakenNext
  <2>4. rest \in Seq(Nat)
    BY <1>c, <2>2, NotTakenProperties
  <2>5. Queued' = Queued
    BY <2>1 DEF Queued, Line
  <2> HIDE DEF under, x, rest
  <2>6. Append(wire, x) \o rest = wire \o (<<x>> \o rest)
    BY <1>c, <2>2, <2>4, MoveFront
  <2>7. wire' \o under' = wire \o under
    BY <2>1, <2>3, <2>6 DEF x
  <2> QED
    BY <1>b, <2>1, <2>5, <2>7 DEF all, upto
<1>7. CASE OnWriteCompleted
  <2>1. /\ UNCHANGED <<wire, output_buffer, produced, work, ppc, item>>
        /\ done > 0 /\ done' = done - 1 /\ writes' = Tail(writes)
    BY <1>7 DEF OnWriteCompleted
  <2>2. under' = under
    BY <1>c, <2>1, NotTakenTail
  <2>3. Queued' = Queued
    BY <2>1 DEF Queued, Line
  <2> HIDE DEF under
  <2> QED
    BY <1>b, <2>1, <2>2, <2>3 DEF all, upto
<1>8. CASE OnWriteFailed
  BY <1>8 DEF OnWriteFailed
(* From output_buffer to the pusher's hand, and on to the queue.           *)
<1>9. CASE PusherDrains
  <2>1. /\ UNCHANGED <<wire, writes, done, produced, work>> /\ work \in Seq(Items)
        /\ output_buffer # <<>> /\ output_buffer' = Tail(output_buffer)
        /\ ppc = "drain" /\ ppc' = "test" /\ item' = Write(Head(output_buffer))
    BY <1>9 DEF PusherDrains, TypeOK
  <2> DEFINE x == Head(output_buffer)
             rest == Tail(output_buffer)
             sent == wire \o under
  <2>2. x \in Nat /\ rest \in Seq(Nat) /\ output_buffer = <<x>> \o rest
    BY <1>c, <2>1, FrontAndRest
  <2>3. Write(x) \in Items /\ Write(x) \in Writes /\ Write(x).data = x
    <3>1. x \in 1..MaxOutput
      BY <2>1, HeadTailProperties, EmptySeq DEF TypeOK
    <3> QED
      BY <3>1 DEF Items, Writes, Write
  <2>4. Queued = DataOf(work, Writes) /\ Queued' = DataOf(Append(work, Write(x)), Writes)
    BY <2>1 DEF Queued, Line
  <2> HIDE DEF x, rest
  <2>5. Queued' = Append(Queued, x)
    BY <2>1, <2>3, <2>4, DataOfAppend
  <2>6. sent \in Seq(Nat) /\ sent' = sent
    BY <1>c, <2>1, ConcatProperties
  <2> HIDE DEF sent
  <2>7. (sent \o Append(Queued, x)) \o rest = (sent \o Queued) \o (<<x>> \o rest)
    <3>1. sent \in Seq(Nat) /\ Queued \in Seq(Nat) /\ rest \in Seq(Nat) /\ x \in Nat
      BY <1>c, <2>2, <2>6
    <3> QED
      BY ONLY <3>1, MoveAcross
  <2>8. all = (sent \o Queued) \o output_buffer /\ all' = (sent' \o Queued') \o output_buffer'
    BY DEF all, sent
  <2>9. all' = all
    BY <2>1, <2>2, <2>5, <2>6, <2>7, <2>8 DEF rest
  <2> QED
    BY <1>b, <2>1, <2>9 DEF upto
<1>10. CASE PushWorkPushes
  <2>1. /\ UNCHANGED <<wire, writes, done, output_buffer, produced>>
        /\ ppc = "push" /\ ppc' \notin {"test", "push"} /\ work' = Append(work, item)
    BY <1>10 DEF PushWorkPushes
  <2> QED
    BY <1>e, <2>1 DEF Line
<1>11. CASE InterpreterWrites
  <2>1. /\ UNCHANGED <<wire, writes, done, work, ppc, item>> /\ produced' = produced + 1
        /\ output_buffer' = Append(output_buffer, produced + 1)
    BY <1>11 DEF InterpreterWrites
  <2> DEFINE before == (wire \o under) \o Queued
  <2>2. before \in Seq(Nat) /\ before' = before
    <3>1. wire \o under \in Seq(Nat)
      BY <1>c, ConcatProperties
    <3> QED
      BY <1>c, <2>1, <3>1, ConcatProperties DEF Queued, Line
  <2>3. before \o output_buffer = Written(produced)
    BY <1>b DEF all, upto
  <2>4. all' = before' \o output_buffer'
    BY DEF all
  <2> HIDE DEF before
  <2>5. before \o Append(output_buffer, produced + 1) = Written(produced + 1)
    <3>1. before \in Seq(Nat) /\ output_buffer \in Seq(Nat) /\ produced \in Nat
      BY <1>c, <2>2
    <3> QED
      BY ONLY <2>3, <3>1, NextWritten
  <2> QED
    BY <2>1, <2>2, <2>4, <2>5 DEF upto
<1> QED
  BY <1>1, <1>2, <1>3, <1>4, <1>5, <1>6, <1>7, <1>8, <1>9, <1>10, <1>11
     DEF Next, Owner, Loop, Socket, Pusher, Interpreter

-----------------------------------------------------------------------------
(* IInv is inductive.                                                      *)
LEMMA NextInv == IInv /\ [Next]_vars => IInv'
<1> SUFFICES ASSUME IInv, [Next]_vars PROVE IInv'
  OBVIOUS
<1>1. /\ TypeOK /\ ResultInv /\ ConnectInv /\ QueueInv /\ HandleInv /\ OutputInOrder
      /\ AbortsOnlyWhenBroken
  BY DEF IInv
<1>2. TypeOK'
  BY <1>1, TypeStep
<1>3. ResultInv' /\ ConnectInv' /\ QueueInv'
  BY <1>1, ResultStep, ConnectStep, QueueStep
<1>4. HandleInv' /\ AbortsOnlyWhenBroken'
  BY <1>1, HandleStep, AbortStep
<1>5. OutputInOrder'
  BY <1>1, <1>2, OutputStep
<1> QED
  BY <1>2, <1>3, <1>4, <1>5 DEF IInv

(* The invariant holds in every state of the client.                       *)
THEOREM Invariant == Spec => []IInv
  BY InitInv, NextInv, PTL DEF Spec

(* Every variable of the client keeps its type: the promises, the handle,  *)
(* the queue and the buffers (libuvclientrunner.cpp).                      *)
THEOREM TypeCorrect == Spec => []TypeOK
<1>1. IInv => TypeOK
  BY DEF IInv
<1> QED
  BY <1>1, Invariant, PTL

(* However the interpreter, the pusher, the loop and the socket interleave,*)
(* while the interpreter runs and no write fails every buffer it wrote is  *)
(* in exactly one place between output_buffer and the wire, in order.      *)
THEOREM OutputKeptInOrder == Spec => []OutputInOrder
<1>1. IInv => OutputInOrder
  BY DEF IInv
<1> QED
  BY <1>1, Invariant, PTL

(* Without a failed write, pusher_thread_loop never reaches a deleted      *)
(* connection, uv_close is called once, and push_work never throws.        *)
THEOREM SafeUntilBroken == Spec => []AbortsOnlyWhenBroken
<1>1. IInv => AbortsOnlyWhenBroken
  BY DEF IInv
<1> QED
  BY <1>1, Invariant, PTL

(* An application that shuts the AsyncWorkQueue down after it took the     *)
(* result leaves no item in it, and no connection that nobody closes.      *)
THEOREM NoWorkIsLeft == Spec => []NoWorkLeft
<1>1. IInv => NoWorkLeft
  <2> SUFFICES ASSUME IInv, async # "open", ~broken
               PROVE  work = <<>> /\ handle \in {"closing", "closed"}
    BY DEF NoWorkLeft
  <2>1. work = <<>> /\ opc \in {"shutting", "joining", "returned"}
    BY DEF IInv, QueueInv
  <2>2. client_result \in {"value", "error"}
    BY <2>1 DEF IInv, ResultInv, TypeOK
  <2> QED
    BY <2>1, <2>2 DEF IInv, ResultInv, HandleInv
<1> QED
  BY <1>1, Invariant, PTL
=============================================================================
