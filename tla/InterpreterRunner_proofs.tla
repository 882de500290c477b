---------------------- MODULE InterpreterRunner_proofs ----------------------
(***************************************************************************)
(* What interpreter_loop, callback_loop and handle_read guarantee for any  *)
(* number of interpreters, any programs and any amount of input: the       *)
(* invariant IInv of InterpreterRunner is inductive, and the invariants    *)
(* that the runs check follow from it.                                     *)
(***************************************************************************)
EXTENDS InterpreterRunner, TLAPS

(* Sequences: what a queue holds, what pop leaves and what a push adds.    *)
(* An element of a queue has the queue's element type.                     *)
LEMMA QueueElement ==
  ASSUME NEW S, NEW q \in Seq(S), NEW k \in 1..Len(q)
  PROVE  q[k] \in S
  OBVIOUS

(* MutexLockQueue::pop on a queue that is not empty: the head leaves it    *)
(* and the other elements move up by one.                                  *)
LEMMA QueuePop ==
  ASSUME NEW S, NEW q \in Seq(S), q # <<>>
  PROVE  /\ Head(q) \in S /\ Tail(q) \in Seq(S)
         /\ Head(q) = q[1] /\ Len(q) > 0 /\ Len(Tail(q)) = Len(q) - 1
         /\ \A k \in 1..Len(Tail(q)) : Tail(q)[k] = q[k+1]
  OBVIOUS

(* MutexLockQueue::push_front: the new element comes first.                *)
LEMMA QueuePushFront ==
  ASSUME NEW S, NEW x \in S, NEW q \in Seq(S)
  PROVE  /\ <<x>> \o q \in Seq(S)
         /\ Len(<<x>> \o q) = Len(q) + 1
         /\ (<<x>> \o q)[1] = x
         /\ \A k \in 1..Len(q) : (<<x>> \o q)[k+1] = q[k]
  OBVIOUS

(* The empty queue has length 0.                                           *)
LEMMA EmptyLength == Len(<<>>) = 0
  OBVIOUS

(* MutexLockQueue::push_back: the new element comes last.                  *)
LEMMA QueuePushBack ==
  ASSUME NEW S, NEW x \in S, NEW q \in Seq(S)
  PROVE  /\ Append(q, x) \in Seq(S)
         /\ Len(Append(q, x)) = Len(q) + 1
         /\ Append(q, x)[Len(q) + 1] = x
         /\ \A k \in 1..Len(q) : Append(q, x)[k] = q[k]
  OBVIOUS

(* Popping a buffer of a chain: it starts where the chain starts, and the  *)
(* rest is a chain that starts where it ends.                              *)
LEMMA ChainPop ==
  ASSUME NEW q \in Seq(Fragments), q # <<>>, NEW from \in Nat, NEW to \in Nat,
         Chain(q, from, to)
  PROVE  /\ Head(q).lo = from /\ Head(q).lo < Head(q).hi
         /\ Chain(Tail(q), Head(q).hi, to)
<1> DEFINE t == Tail(q)
<1>1. /\ Head(q) = q[1] /\ Len(q) \in Nat /\ Len(q) > 0 /\ t \in Seq(Fragments)
      /\ Len(t) = Len(q) - 1 /\ \A k \in 1..Len(t) : t[k] = q[k+1]
  BY QueuePop
<1>2. Head(q).lo = from /\ Head(q).lo < Head(q).hi
  BY <1>1 DEF Chain
<1>3. \A k \in 1..Len(t) : t[k].lo < t[k].hi
  BY <1>1 DEF Chain
<1>4. \A k \in 1..Len(t) : t[k].lo = IF k = 1 THEN Head(q).hi ELSE t[k-1].hi
  <2> SUFFICES ASSUME NEW k \in 1..Len(t)
               PROVE  t[k].lo = IF k = 1 THEN Head(q).hi ELSE t[k-1].hi
    OBVIOUS
  <2>1. t[k] = q[k+1] /\ k + 1 \in 1..Len(q) /\ q[k+1].lo = q[k].hi
    BY <1>1 DEF Chain
  <2>2. k # 1 => t[k-1] = q[k]
    BY <1>1
  <2> QED
    BY <1>1, <2>1, <2>2
<1>5. to = IF t = <<>> THEN Head(q).hi ELSE t[Len(t)].hi
  <2>1. CASE t = <<>>
    <3>1. Len(t) = 0
      BY <2>1, EmptyLength
    <3>2. Len(q) = 1 /\ q # <<>>
      <4> HIDE DEF t
      <4> QED
        BY <1>1, <3>1
    <3> QED
      BY <1>1, <2>1, <3>2 DEF Chain
  <2>2. CASE t # <<>>
    <3>1. Len(t) > 0
      BY <1>1, <2>2
    <3>2. t[Len(t)] = q[Len(q)]
      BY <1>1, <3>1
    <3> QED
      BY <1>1, <2>2, <3>2 DEF Chain
  <2> QED
    BY <2>1, <2>2
<1> QED
  BY <1>2, <1>3, <1>4, <1>5 DEF Chain

(* Pushing back, at the front, a buffer that ends where the chain starts.  *)
LEMMA ChainPushFront ==
  ASSUME NEW q \in Seq(Fragments), NEW x \in Fragments, NEW to \in Nat,
         x.lo < x.hi, Chain(q, x.hi, to)
  PROVE  Chain(<<x>> \o q, x.lo, to)
<1> DEFINE t == <<x>> \o q
<1>1. /\ t \in Seq(Fragments) /\ Len(q) \in Nat /\ Len(t) = Len(q) + 1 /\ t[1] = x
      /\ \A k \in 1..Len(q) : t[k+1] = q[k]
  BY QueuePushFront
<1>2. \A k \in 1..Len(t) : k # 1 => t[k] = q[k-1] /\ k - 1 \in 1..Len(q)
  BY <1>1
<1>3. \A k \in 1..Len(t) : t[k].lo < t[k].hi
  BY <1>1, <1>2 DEF Chain
<1>4. \A k \in 1..Len(t) : t[k].lo = IF k = 1 THEN x.lo ELSE t[k-1].hi
  <2> SUFFICES ASSUME NEW k \in 1..Len(t)
               PROVE  t[k].lo = IF k = 1 THEN x.lo ELSE t[k-1].hi
    OBVIOUS
  <2>1. CASE k = 1
    BY <1>1, <2>1
  <2>2. CASE k = 2
    BY <1>1, <1>2, <2>2 DEF Chain
  <2>3. CASE k > 2
    <3>1. t[k] = q[k-1] /\ t[k-1] = q[k-2] /\ q[k-1].lo = q[k-2].hi
      BY <1>1, <1>2, <2>3 DEF Chain
    <3> QED
      BY <2>3, <3>1
  <2> QED
    BY <1>1, <2>1, <2>2, <2>3
<1>5. to = IF t = <<>> THEN x.lo ELSE t[Len(t)].hi
  <2>1. t # <<>>
    BY <1>1
  <2>2. CASE q = <<>>
    BY <1>1, <2>1, <2>2 DEF Chain
  <2>3. CASE q # <<>>
    <3>1. Len(q) \in 1..Len(q)
      BY <1>1, <2>3
    <3>2. t[Len(t)] = q[Len(q)]
      BY <1>1, <3>1
    <3> QED
      BY <2>1, <2>3, <3>2 DEF Chain
  <2> QED
    BY <2>2, <2>3
<1> QED
  BY <1>3, <1>4, <1>5 DEF Chain

(* Receiving a buffer that starts where the chain ends.                    *)
LEMMA ChainPushBack ==
  ASSUME NEW q \in Seq(Fragments), NEW x \in Fragments, NEW from \in Nat,
         x.lo < x.hi, Chain(q, from, x.lo)
  PROVE  Chain(Append(q, x), from, x.hi)
<1> DEFINE t == Append(q, x)
<1>1. /\ t \in Seq(Fragments) /\ Len(q) \in Nat /\ Len(t) = Len(q) + 1
      /\ t[Len(q) + 1] = x /\ \A k \in 1..Len(q) : t[k] = q[k]
  BY QueuePushBack
<1>2. \A k \in 1..Len(t) : t[k].lo < t[k].hi
  BY <1>1 DEF Chain
<1>3. \A k \in 1..Len(t) : t[k].lo = IF k = 1 THEN from ELSE t[k-1].hi
  <2> SUFFICES ASSUME NEW k \in 1..Len(t)
               PROVE  t[k].lo = IF k = 1 THEN from ELSE t[k-1].hi
    OBVIOUS
  <2>1. CASE k \in 1..Len(q)
    <3>1. t[k] = q[k] /\ (k # 1 => t[k-1] = q[k-1])
      BY <1>1, <2>1
    <3> QED
      BY <2>1, <3>1 DEF Chain
  <2>2. CASE k = Len(q) + 1
    <3>1. CASE q = <<>>
      BY <1>1, <2>2, <3>1 DEF Chain
    <3>2. CASE q # <<>>
      <4>1. Len(q) \in 1..Len(q) /\ k # 1 /\ t[k-1] = q[Len(q)]
        BY <1>1, <2>2, <3>2
      <4> QED
        BY <1>1, <2>2, <3>2, <4>1 DEF Chain
    <3> QED
      BY <3>1, <3>2
  <2> QED
    BY <1>1, <2>1, <2>2
<1>4. t # <<>> /\ t[Len(t)] = x
  BY <1>1
<1> QED
  BY <1>2, <1>3, <1>4 DEF Chain

(* A local that is out of scope still has its type.                        *)
LEMMA NoInterpType == NoInterp \in Interps
  BY InterpsAssumption DEF NoInterp

(* What interpreter_loop never writes.                                     *)
LEMMA RunnerFrame ==
  InterpreterLoop => UNCHANGED <<collection, eof, received, callbacks>>
  BY DEF InterpreterLoop, RunnerSnapshot, SkipExited, StepReady, StepExited, HandleWrite,
         HandleStartCallback, HandleFinishCallback, HandleRead, ReadPop, ReadPopEmpty,
         ReadJoin, ReadJoinEmpty, ReadPushFront, ReadEofCheck, RunnerLoadExit,
         RunnerCompare, RunnerWait, stream

(* What callback_loop never writes.                                        *)
LEMMA CallbackFrame ==
  CallbackLoop => UNCHANGED <<collection, output_buffer, stream, exited, operation, runner>>
  BY DEF CallbackLoop, CallbackSnapshot, CallbackSkipExited, CallbackPop, CallbackAnswer,
         CallbackLoadExit, CallbackCompare, CallbackWait, queues

(* What the I/O and the stopping threads never write.                      *)
LEMMA EnvironmentFrame ==
  Environment => UNCHANGED <<queues, consumed, exited, operation, runner, callbacks>>
  BY DEF Environment, InsertInterpreter, RemoveInterpreter, Receive, ReceiveEof,
         SetExitWhenDone, stream

(* The current operation of a program that has not ended.                  *)
LEMMA OpType ==
  ASSUME OperationType, NEW i \in Interps, ~AtEnd(i)
  PROVE  Op(i) \in [kind : OpKinds, need : Nat]
<1>1. Program[i] \in Seq([kind : OpKinds, need : Nat])
  BY ProgramAssumption
<1>2. ip[i] \in 1..Len(Program[i])
  BY <1>1 DEF OperationType, OpIndices, AtEnd
<1> QED
  BY <1>1, <1>2, QueueElement DEF Op

(* Consuming part of a buffer keeps the stream's types.                    *)
LEMMA ConsumeStreamType ==
  ASSUME TypeOK, NEW i \in Interps, ~AtEnd(i), NEW frag \in Fragments, NEW q \in Seq(Fragments),
         Consume(i, frag, q)
  PROVE  input_buffer' \in [Interps -> Seq(Fragments)] /\ consumed' \in [Interps -> Nat]
<1>1. Op(i).need \in Nat
  BY OpType DEF TypeOK
<1>2. [lo |-> frag.lo + Op(i).need, hi |-> frag.hi] \in Fragments
  BY <1>1 DEF Fragments
<1>3. input_buffer'[i] \in Seq(Fragments)
  BY <1>2, QueuePushFront DEF Consume, TypeOK, StreamType
<1> QED
  BY <1>1, <1>3 DEF Consume, TypeOK, StreamType

(* The end of a visit keeps the types of interpreter_loop's locals.        *)
LEMMA VisitedType ==
  ASSUME RunnerType, NEW i \in Interps, NEW a \in BOOLEAN, NEW u \in BOOLEAN,
         NEW r \in BOOLEAN, Visited(i, a, u, r)
  PROVE  RunnerType'
<1>1. rpc' \in RunnerPCs /\ rtodo' \subseteq Interps /\ rversion' \in Nat
  BY DEF RunnerType, Visited, RunnerPCs
<1>2. ractive' \in BOOLEAN /\ rready' \in BOOLEAN /\ rretry' \in BOOLEAN
  BY Zenon DEF RunnerType, Visited
<1>3. rexit' \in BOOLEAN /\ did_join' \in BOOLEAN
  BY DEF RunnerType, Visited
<1>4. cur' \in Interps /\ joined' \in Fragments
  BY NoInterpType DEF Visited, NoFragment, Fragments
<1> QED
  BY <1>1, <1>2, <1>3, <1>4 DEF RunnerType

(* Every step keeps the type of the collection and the stop flag.          *)
LEMMA NextCollectionType == TypeOK /\ [Next]_vars => CollectionType'
<1> SUFFICES ASSUME TypeOK, [Next]_vars PROVE CollectionType'
  OBVIOUS
<1>1. ASSUME NEW i \in Interps, InsertInterpreter(i) PROVE CollectionType'
  BY <1>1 DEF TypeOK, CollectionType, collection, InsertInterpreter, NotifyBoth
<1>2. ASSUME NEW i \in Interps, RemoveInterpreter(i) PROVE CollectionType'
  BY <1>2 DEF TypeOK, CollectionType, collection, RemoveInterpreter, NotifyBoth
<1>3. ASSUME SetExitWhenDone PROVE CollectionType'
  BY <1>3 DEF TypeOK, CollectionType, collection, SetExitWhenDone, NotifyBoth
<1>4. CASE InterpreterLoop
  BY <1>4, RunnerFrame DEF TypeOK, CollectionType, collection
<1>5. CASE CallbackLoop
  BY <1>5, CallbackFrame DEF TypeOK, CollectionType, collection
<1>6. CASE \E i \in Interps :
              \/ ReceiveEof(i)
              \/ \E n \in 1..MaxOctets[i] : Receive(i, n)
  BY <1>6 DEF TypeOK, CollectionType, collection, Receive, ReceiveEof
<1>7. CASE UNCHANGED vars
  BY <1>7 DEF TypeOK, CollectionType, collection, vars
<1> QED
  BY <1>1, <1>2, <1>3, <1>4, <1>5, <1>6, <1>7 DEF Next, InterpreterLoop,
     CallbackLoop, Environment, HandleRead

(* Every step keeps the type of the two signals.                           *)
LEMMA NextSignalType == TypeOK /\ [Next]_vars => SignalType'
<1> SUFFICES ASSUME TypeOK, [Next]_vars PROVE SignalType'
  OBVIOUS
<1>1. ASSUME NEW i \in Interps, StepExited(i) PROVE SignalType'
  BY <1>1 DEF TypeOK, SignalType, signals, StepExited, NotifyBoth
<1>2. ASSUME NEW i \in Interps, HandleStartCallback(i) PROVE SignalType'
  BY <1>2 DEF TypeOK, SignalType, signals, HandleStartCallback
<1>3. ASSUME RunnerCompare PROVE SignalType'
  BY <1>3 DEF TypeOK, SignalType, signals, RunnerCompare
<1>4. ASSUME RunnerWait PROVE SignalType'
  BY <1>4 DEF TypeOK, SignalType, signals, RunnerWait
<1>5. ASSUME CallbackAnswer PROVE SignalType'
  BY <1>5 DEF TypeOK, SignalType, signals, CallbackAnswer
<1>6. ASSUME CallbackCompare PROVE SignalType'
  BY <1>6 DEF TypeOK, SignalType, signals, CallbackCompare
<1>7. ASSUME CallbackWait PROVE SignalType'
  BY <1>7 DEF TypeOK, SignalType, signals, CallbackWait
<1>8. ASSUME NEW i \in Interps, InsertInterpreter(i) PROVE SignalType'
  BY <1>8 DEF TypeOK, SignalType, signals, InsertInterpreter, NotifyBoth
<1>9. ASSUME NEW i \in Interps, RemoveInterpreter(i) PROVE SignalType'
  BY <1>9 DEF TypeOK, SignalType, signals, RemoveInterpreter, NotifyBoth
<1>10. ASSUME NEW i \in Interps, NEW n \in 1..MaxOctets[i], Receive(i, n) PROVE SignalType'
  BY <1>10 DEF TypeOK, SignalType, signals, Receive
<1>11. ASSUME NEW i \in Interps, ReceiveEof(i) PROVE SignalType'
  BY <1>11 DEF TypeOK, SignalType, signals, ReceiveEof
<1>12. ASSUME SetExitWhenDone PROVE SignalType'
  BY <1>12 DEF TypeOK, SignalType, signals, SetExitWhenDone, NotifyBoth
<1>13. CASE
       \/ RunnerSnapshot \/ ReadJoin \/ ReadJoinEmpty \/ ReadPushFront \/
          ReadEofCheck \/ RunnerLoadExit
       \/ \E i \in Interps :
              \/ SkipExited(i) \/ HandleWrite(i) \/ HandleFinishCallback(i) \/
                 ReadPop(i) \/ ReadPopEmpty(i)
              \/ \E e \in BOOLEAN : StepReady(i, e)
  BY <1>13 DEF TypeOK, SignalType, signals, RunnerSnapshot, SkipExited, StepReady,
     HandleWrite, HandleFinishCallback, ReadPop, ReadPopEmpty, ReadJoin,
     ReadJoinEmpty, ReadPushFront, ReadEofCheck, RunnerLoadExit
<1>14. CASE
       \/ CallbackSnapshot \/ CallbackLoadExit
       \/ \E i \in Interps : CallbackSkipExited(i) \/ CallbackPop(i)
  BY <1>14 DEF TypeOK, SignalType, signals, CallbackSnapshot, CallbackSkipExited,
     CallbackPop, CallbackLoadExit
<1>15. CASE UNCHANGED vars
  BY <1>15 DEF TypeOK, SignalType, signals, vars
<1> QED
  BY <1>1, <1>2, <1>3, <1>4, <1>5, <1>6, <1>7, <1>8, <1>9, <1>10, <1>11, <1>12,
     <1>13, <1>14, <1>15 DEF Next, InterpreterLoop, CallbackLoop, Environment,
     HandleRead

(* Every step keeps the type of the output and callback queues.            *)
LEMMA NextQueueType == TypeOK /\ [Next]_vars => QueueType'
<1> SUFFICES ASSUME TypeOK, [Next]_vars PROVE QueueType'
  OBVIOUS
<1>1. ASSUME NEW i \in Interps, HandleWrite(i) PROVE QueueType'
  <2>1. CASE eof[i]
    BY <1>1, <2>1 DEF TypeOK, QueueType, HandleWrite
  <2>2. CASE ~eof[i]
    <3>1. Append(output_buffer[i], ip[i]) \in Seq(Nat)
      BY DEF TypeOK, QueueType, OperationType
    <3> QED
      BY <1>1, <2>2, <3>1 DEF TypeOK, QueueType, HandleWrite
  <2> QED
    BY <2>1, <2>2
<1>2. ASSUME NEW i \in Interps, HandleStartCallback(i) PROVE QueueType'
  BY <1>2 DEF TypeOK, QueueType, queues, HandleStartCallback, OperationType
<1>3. ASSUME NEW i \in Interps, HandleFinishCallback(i) PROVE QueueType'
  <2>1. CASE callback_response_queue[i] # <<>>
    <3>1. Tail(callback_response_queue[i]) \in Seq(Nat)
      BY <2>1, QueuePop DEF TypeOK, QueueType
    <3> QED
      BY <1>3, <2>1, <3>1 DEF TypeOK, QueueType, HandleFinishCallback
  <2>2. CASE callback_response_queue[i] = <<>>
    BY <1>3, <2>2 DEF TypeOK, QueueType, HandleFinishCallback
  <2> QED
    BY <2>1, <2>2
<1>4. ASSUME NEW i \in Interps, CallbackPop(i) PROVE QueueType'
  <2>1. CASE callback_request_queue[i] # <<>>
    <3>1. Tail(callback_request_queue[i]) \in Seq(Nat)
      BY <2>1, QueuePop DEF TypeOK, QueueType
    <3> QED
      BY <1>4, <2>1, <3>1 DEF TypeOK, QueueType, CallbackPop
  <2>2. CASE callback_request_queue[i] = <<>>
    BY <1>4, <2>2 DEF TypeOK, QueueType, CallbackPop
  <2> QED
    BY <2>1, <2>2
<1>5. ASSUME CallbackAnswer PROVE QueueType'
  BY <1>5 DEF TypeOK, QueueType, queues, CallbackAnswer, CallbackType
<1>6. CASE
       \/ RunnerSnapshot \/ ReadJoin \/ ReadJoinEmpty \/ ReadPushFront \/
          ReadEofCheck \/ RunnerLoadExit \/ RunnerCompare \/ RunnerWait
       \/ \E i \in Interps :
              \/ SkipExited(i) \/ StepExited(i) \/ ReadPop(i) \/ ReadPopEmpty(i)
              \/ \E e \in BOOLEAN : StepReady(i, e)
  BY <1>6 DEF TypeOK, QueueType, queues, RunnerSnapshot, SkipExited, StepReady,
     StepExited, ReadPop, ReadPopEmpty, ReadJoin, ReadJoinEmpty, ReadPushFront,
     ReadEofCheck, RunnerLoadExit, RunnerCompare, RunnerWait
<1>7. CASE
       \/ CallbackSnapshot \/ CallbackLoadExit \/ CallbackCompare \/ CallbackWait
       \/ \E i \in Interps : CallbackSkipExited(i)
  BY <1>7 DEF TypeOK, QueueType, queues, CallbackSnapshot, CallbackSkipExited,
     CallbackLoadExit, CallbackCompare, CallbackWait
<1>8. CASE Environment
  BY <1>8, EnvironmentFrame DEF TypeOK, QueueType, queues
<1>9. CASE UNCHANGED vars
  BY <1>9 DEF TypeOK, QueueType, queues, vars
<1> QED
  BY <1>1, <1>2, <1>3, <1>4, <1>5, <1>6, <1>7, <1>8, <1>9 DEF Next, InterpreterLoop,
     CallbackLoop, Environment, HandleRead

(* Every step keeps the type of the input queues and counters; handle_read *)
(* needs to know that the operation it reads for exists.                   *)
LEMMA NextStreamType == TypeOK /\ Reading /\ [Next]_vars => StreamType'
<1> SUFFICES ASSUME TypeOK /\ Reading, [Next]_vars PROVE StreamType'
  OBVIOUS
<1>1. ASSUME NEW i \in Interps, ReadPop(i) PROVE StreamType'
  <2>1. Head(input_buffer[i]) \in Fragments /\ Tail(input_buffer[i]) \in Seq(Fragments)
    BY <1>1, QueuePop DEF ReadPop, TypeOK, StreamType
  <2>2. ~AtEnd(i)
    BY <1>1 DEF ReadPop, WaitingForRead
  <2>3. CASE Takes(i, Head(input_buffer[i]))
    BY <1>1, <2>1, <2>2, <2>3, ConsumeStreamType DEF ReadPop, TypeOK, StreamType
  <2>4. CASE ~Takes(i, Head(input_buffer[i]))
    BY <1>1, <2>1, <2>4 DEF ReadPop, Hold, TypeOK, StreamType
  <2> QED
    BY <2>3, <2>4
<1>2. ASSUME ReadJoin PROVE StreamType'
  <2> DEFINE both == [lo |-> joined.lo, hi |-> Head(input_buffer[cur]).hi]
  <2>1. cur \in Interps /\ ~AtEnd(cur)
    BY <1>2 DEF ReadJoin, TypeOK, RunnerType, Reading
  <2>2. Head(input_buffer[cur]) \in Fragments /\ Tail(input_buffer[cur]) \in Seq(Fragments)
    BY <1>2, <2>1, QueuePop DEF ReadJoin, TypeOK, StreamType
  <2>3. both \in Fragments
    BY <2>2 DEF TypeOK, RunnerType, Fragments
  <2>4. CASE Takes(cur, both)
    BY <1>2, <2>1, <2>2, <2>3, <2>4, ConsumeStreamType DEF ReadJoin, TypeOK, StreamType
  <2>5. CASE ~Takes(cur, both)
    BY <1>2, <2>1, <2>2, <2>5 DEF ReadJoin, Hold, TypeOK, StreamType
  <2> QED
    BY <2>4, <2>5
<1>3. ASSUME ReadPushFront PROVE StreamType'
  BY <1>3 DEF TypeOK, Reading, StreamType, stream, ReadPushFront, RunnerType
<1>4. ASSUME NEW i \in Interps, NEW n \in 1..MaxOctets[i], Receive(i, n) PROVE StreamType'
  BY <1>4, MaxOctetsAssumption DEF TypeOK, Reading, StreamType, stream, Receive,
     Fragments
<1>5. ASSUME NEW i \in Interps, ReceiveEof(i) PROVE StreamType'
  BY <1>5 DEF TypeOK, Reading, StreamType, stream, ReceiveEof
<1>6. CASE
       \/ RunnerSnapshot \/ ReadJoinEmpty \/ ReadEofCheck \/ RunnerLoadExit \/
          RunnerCompare \/ RunnerWait
       \/ \E i \in Interps :
              \/ SkipExited(i) \/ StepExited(i) \/ HandleWrite(i) \/
                 HandleStartCallback(i) \/ HandleFinishCallback(i) \/
                 ReadPopEmpty(i)
              \/ \E e \in BOOLEAN : StepReady(i, e)
  BY <1>6 DEF TypeOK, Reading, StreamType, stream, RunnerSnapshot, SkipExited,
     StepReady, StepExited, HandleWrite, HandleStartCallback, HandleFinishCallback,
     ReadPopEmpty, ReadJoinEmpty, ReadEofCheck, RunnerLoadExit, RunnerCompare,
     RunnerWait
<1>7. CASE CallbackLoop
  BY <1>7, CallbackFrame DEF TypeOK, Reading, StreamType, stream
<1>8. CASE
       \/ SetExitWhenDone
       \/ \E i \in Interps : InsertInterpreter(i) \/ RemoveInterpreter(i)
  BY <1>8 DEF TypeOK, Reading, StreamType, stream, InsertInterpreter,
     RemoveInterpreter, SetExitWhenDone
<1>9. CASE UNCHANGED vars
  BY <1>9 DEF TypeOK, Reading, StreamType, stream, vars
<1> QED
  BY <1>1, <1>2, <1>3, <1>4, <1>5, <1>6, <1>7, <1>8, <1>9 DEF Next, InterpreterLoop,
     CallbackLoop, Environment, HandleRead

(* Every step keeps each interpreter at an operation of its program or at  *)
(* its end.                                                                *)
LEMMA NextOperationType == TypeOK /\ [Next]_vars => OperationType'
<1> SUFFICES ASSUME TypeOK, [Next]_vars PROVE OperationType'
  OBVIOUS
<1>1. ASSUME NEW i \in Interps, NEW e \in BOOLEAN, StepReady(i, e) PROVE OperationType'
  BY <1>1, ProgramAssumption DEF TypeOK, OperationType, operation, OpIndices,
     StepReady, NextIp, AtEnd
<1>2. ASSUME NEW i \in Interps, StepExited(i) PROVE OperationType'
  BY <1>2 DEF TypeOK, OperationType, operation, OpIndices, StepExited
<1>3. ASSUME NEW i \in Interps, HandleWrite(i) PROVE OperationType'
  BY <1>3 DEF TypeOK, OperationType, operation, OpIndices, HandleWrite
<1>4. ASSUME NEW i \in Interps, HandleStartCallback(i) PROVE OperationType'
  BY <1>4 DEF TypeOK, OperationType, operation, OpIndices, HandleStartCallback
<1>5. ASSUME NEW i \in Interps, HandleFinishCallback(i) PROVE OperationType'
  BY <1>5 DEF TypeOK, OperationType, operation, OpIndices, HandleFinishCallback
<1>6. ASSUME NEW i \in Interps, ReadPop(i) PROVE OperationType'
  BY <1>6 DEF TypeOK, OperationType, operation, OpIndices, ReadPop, Consume, Hold
<1>7. ASSUME ReadJoin PROVE OperationType'
  BY <1>7 DEF TypeOK, OperationType, operation, OpIndices, ReadJoin, Consume, Hold
<1>8. ASSUME ReadEofCheck PROVE OperationType'
  BY <1>8 DEF TypeOK, OperationType, operation, OpIndices, ReadEofCheck, StreamType
<1>9. CASE
       \/ RunnerSnapshot \/ ReadJoinEmpty \/ ReadPushFront \/ RunnerLoadExit \/
          RunnerCompare \/ RunnerWait
       \/ \E i \in Interps : SkipExited(i) \/ ReadPopEmpty(i)
  BY <1>9 DEF TypeOK, OperationType, operation, OpIndices, RunnerSnapshot,
     SkipExited, ReadPopEmpty, ReadJoinEmpty, ReadPushFront, RunnerLoadExit,
     RunnerCompare, RunnerWait
<1>10. CASE CallbackLoop
  BY <1>10, CallbackFrame DEF TypeOK, OperationType, operation, OpIndices
<1>11. CASE Environment
  BY <1>11, EnvironmentFrame DEF TypeOK, OperationType, operation, OpIndices
<1>12. CASE UNCHANGED vars
  BY <1>12 DEF TypeOK, OperationType, operation, OpIndices, vars
<1> QED
  BY <1>1, <1>2, <1>3, <1>4, <1>5, <1>6, <1>7, <1>8, <1>9, <1>10, <1>11, <1>12 DEF
     Next, InterpreterLoop, CallbackLoop, Environment, HandleRead

(* Every step keeps the types of interpreter_loop's locals.                *)
LEMMA NextRunnerType == TypeOK /\ [Next]_vars => RunnerType'
<1> SUFFICES ASSUME TypeOK, [Next]_vars PROVE RunnerType'
  OBVIOUS
<1>1. ASSUME RunnerSnapshot PROVE RunnerType'
  BY <1>1 DEF TypeOK, RunnerType, RunnerPCs, runner, RunnerSnapshot, CollectionType
<1>2. ASSUME NEW i \in Interps, SkipExited(i) PROVE RunnerType'
  BY <1>2, VisitedType DEF SkipExited, TypeOK, Visit
<1>3. ASSUME NEW i \in Interps, NEW e \in BOOLEAN, StepReady(i, e) PROVE RunnerType'
  BY <1>3, VisitedType DEF StepReady, TypeOK, Visit
<1>4. ASSUME NEW i \in Interps, StepExited(i) PROVE RunnerType'
  BY <1>4, VisitedType DEF StepExited, TypeOK, Visit
<1>5. ASSUME NEW i \in Interps, HandleWrite(i) PROVE RunnerType'
  BY <1>5, VisitedType DEF HandleWrite, TypeOK, Visit
<1>6. ASSUME NEW i \in Interps, HandleStartCallback(i) PROVE RunnerType'
  BY <1>6, VisitedType DEF HandleStartCallback, TypeOK, Visit
<1>7. ASSUME NEW i \in Interps, HandleFinishCallback(i) PROVE RunnerType'
  BY <1>7, VisitedType DEF HandleFinishCallback, TypeOK, Visit
<1>8. ASSUME NEW i \in Interps, ReadPop(i) PROVE RunnerType'
  <2>1. Head(input_buffer[i]) \in Fragments
    BY <1>8, QueuePop DEF ReadPop, TypeOK, StreamType
  <2>2. CASE Takes(i, Head(input_buffer[i]))
    BY <1>8, <2>2, VisitedType DEF ReadPop, Consume, TypeOK
  <2>3. CASE ~Takes(i, Head(input_buffer[i]))
    BY <1>8, <2>1, <2>3 DEF ReadPop, Hold, TypeOK, RunnerType, RunnerPCs
  <2> QED
    BY <2>2, <2>3
<1>9. ASSUME NEW i \in Interps, ReadPopEmpty(i) PROVE RunnerType'
  BY <1>9 DEF TypeOK, RunnerType, RunnerPCs, runner, ReadPopEmpty, Visit
<1>10. ASSUME ReadJoin PROVE RunnerType'
  <2> DEFINE both == [lo |-> joined.lo, hi |-> Head(input_buffer[cur]).hi]
  <2>1. cur \in Interps /\ both \in Fragments
    BY <1>10, QueuePop DEF ReadJoin, TypeOK, StreamType, RunnerType, Fragments
  <2>2. CASE Takes(cur, both)
    BY <1>10, <2>1, <2>2, VisitedType DEF ReadJoin, Consume, TypeOK
  <2>3. CASE ~Takes(cur, both)
    BY <1>10, <2>1, <2>3 DEF ReadJoin, Hold, TypeOK, RunnerType, RunnerPCs
  <2> QED
    BY <2>2, <2>3
<1>11. ASSUME ReadJoinEmpty PROVE RunnerType'
  BY <1>11 DEF TypeOK, RunnerType, RunnerPCs, runner, ReadJoinEmpty
<1>12. ASSUME ReadPushFront PROVE RunnerType'
  <2>1. cur \in Interps /\ ready[cur] \in BOOLEAN /\ (~ready[cur] /\ did_join) \in BOOLEAN
    BY Zenon DEF TypeOK, OperationType, RunnerType
  <2> QED
    BY <1>12, <2>1, VisitedType DEF ReadPushFront, TypeOK
<1>13. ASSUME ReadEofCheck PROVE RunnerType'
  <2>1. cur \in Interps /\ eof[cur] \in BOOLEAN
    BY DEF TypeOK, StreamType, RunnerType
  <2> QED
    BY <1>13, <2>1, VisitedType DEF ReadEofCheck, TypeOK
<1>14. ASSUME RunnerLoadExit PROVE RunnerType'
  BY <1>14 DEF TypeOK, RunnerType, RunnerPCs, runner, RunnerLoadExit, CollectionType
<1>15. ASSUME RunnerCompare PROVE RunnerType'
  BY <1>15 DEF TypeOK, RunnerType, RunnerPCs, runner, RunnerCompare
<1>16. ASSUME RunnerWait PROVE RunnerType'
  BY <1>16 DEF TypeOK, RunnerType, RunnerPCs, runner, RunnerWait
<1>17. CASE CallbackLoop
  BY <1>17, CallbackFrame DEF TypeOK, RunnerType, RunnerPCs, runner
<1>18. CASE Environment
  BY <1>18, EnvironmentFrame DEF TypeOK, RunnerType, RunnerPCs, runner
<1>19. CASE UNCHANGED vars
  BY <1>19 DEF TypeOK, RunnerType, RunnerPCs, runner, vars
<1> QED
  BY <1>1, <1>2, <1>3, <1>4, <1>5, <1>6, <1>7, <1>8, <1>9, <1>10, <1>11, <1>12,
     <1>13, <1>14, <1>15, <1>16, <1>17, <1>18, <1>19 DEF Next, InterpreterLoop,
     CallbackLoop, Environment, HandleRead

(* Every step keeps the types of callback_loop's locals.                   *)
LEMMA NextCallbackType == TypeOK /\ [Next]_vars => CallbackType'
<1> SUFFICES ASSUME TypeOK, [Next]_vars PROVE CallbackType'
  OBVIOUS
<1>1. ASSUME CallbackSnapshot PROVE CallbackType'
  BY <1>1 DEF TypeOK, CallbackType, CallbackPCs, callbacks, CallbackSnapshot,
     CollectionType
<1>2. ASSUME NEW i \in Interps, CallbackSkipExited(i) PROVE CallbackType'
  BY <1>2 DEF TypeOK, CallbackType, CallbackPCs, callbacks, CallbackSkipExited
<1>3. ASSUME NEW i \in Interps, CallbackPop(i) PROVE CallbackType'
  <2>1. CASE callback_request_queue[i] # <<>>
    <3>1. Head(callback_request_queue[i]) \in Nat
      BY <2>1, QueuePop DEF TypeOK, QueueType
    <3> QED
      BY <1>3, <2>1, <3>1 DEF TypeOK, CallbackType, CallbackPCs, CallbackPop
  <2>2. CASE callback_request_queue[i] = <<>>
    BY <1>3, <2>2 DEF TypeOK, CallbackType, CallbackPCs, CallbackPop
  <2> QED
    BY <2>1, <2>2
<1>4. ASSUME CallbackAnswer PROVE CallbackType'
  BY <1>4, NoInterpType DEF TypeOK, CallbackType, CallbackPCs, callbacks,
     CallbackAnswer, NoRequest
<1>5. ASSUME CallbackLoadExit PROVE CallbackType'
  BY <1>5 DEF TypeOK, CallbackType, CallbackPCs, callbacks, CallbackLoadExit,
     CollectionType
<1>6. ASSUME CallbackCompare PROVE CallbackType'
  BY <1>6 DEF TypeOK, CallbackType, CallbackPCs, callbacks, CallbackCompare
<1>7. ASSUME CallbackWait PROVE CallbackType'
  BY <1>7 DEF TypeOK, CallbackType, CallbackPCs, callbacks, CallbackWait
<1>8. CASE InterpreterLoop
  BY <1>8, RunnerFrame DEF TypeOK, CallbackType, CallbackPCs, callbacks
<1>9. CASE Environment
  BY <1>9, EnvironmentFrame DEF TypeOK, CallbackType, CallbackPCs, callbacks
<1>10. CASE UNCHANGED vars
  BY <1>10 DEF TypeOK, CallbackType, CallbackPCs, callbacks, vars
<1> QED
  BY <1>1, <1>2, <1>3, <1>4, <1>5, <1>6, <1>7, <1>8, <1>9, <1>10 DEF Next,
     InterpreterLoop, CallbackLoop, Environment, HandleRead

(* No step brings an interpreter back once context->exited is set.         *)
LEMMA ExitedGrows ==
  ASSUME TypeOK, [Next]_vars
  PROVE  \A j \in Interps : exited[j] => exited'[j]
<1>1. ASSUME NEW i \in Interps, StepExited(i) PROVE exited' = [exited EXCEPT ![i] = TRUE]
  BY <1>1 DEF StepExited
<1>2. CASE \E i \in Interps : StepExited(i)
  BY <1>1, <1>2 DEF TypeOK, OperationType
<1>3. CASE InterpreterLoop /\ ~\E i \in Interps : StepExited(i)
  BY <1>3 DEF InterpreterLoop, RunnerSnapshot, SkipExited, StepReady, HandleWrite,
     HandleStartCallback, HandleFinishCallback, HandleRead, ReadPop, ReadPopEmpty,
     ReadJoin, ReadJoinEmpty, ReadPushFront, ReadEofCheck, RunnerLoadExit,
     RunnerCompare, RunnerWait
<1>4. CASE CallbackLoop
  BY <1>4, CallbackFrame
<1>5. CASE Environment
  BY <1>5, EnvironmentFrame
<1>6. CASE UNCHANGED vars
  BY <1>6 DEF vars
<1> QED
  BY <1>2, <1>3, <1>4, <1>5, <1>6 DEF Next

(* A step of another thread publishes a new collection or leaves the       *)
(* collection alone.                                                       *)
LEMMA CollectionStep ==
  ASSUME TypeOK, Environment
  PROVE  \/ version' = version + 1 /\ exit_when_done' = exit_when_done
         \/ /\ version' = version /\ members' = members
            /\ exit_when_done => exit_when_done'
<1>1. ASSUME NEW i \in Interps, InsertInterpreter(i) \/ RemoveInterpreter(i)
      PROVE  version' = version + 1 /\ exit_when_done' = exit_when_done
  BY <1>1 DEF InsertInterpreter, RemoveInterpreter
<1>2. CASE \E i \in Interps : ReceiveEof(i) \/ \E n \in 1..MaxOctets[i] : Receive(i, n)
  BY <1>2 DEF Receive, ReceiveEof, collection
<1>3. CASE SetExitWhenDone
  BY <1>3 DEF SetExitWhenDone
<1> QED
  BY <1>1, <1>2, <1>3 DEF Environment

(* A visit that counts its interpreter active, or finds that it has        *)
(* exited, keeps the scan's invariant.                                     *)
LEMMA VisitedScan ==
  ASSUME IInv, NEW i \in Interps, NEW a \in BOOLEAN, NEW u \in BOOLEAN, NEW r \in BOOLEAN,
         Visited(i, a, u, r), UNCHANGED collection,
         rpc \in {"scan", "join", "pushfront", "eofcheck"},
         \A j \in Interps : exited[j] => exited'[j],
         a \/ exited'[i]
  PROVE  RunnerScan'
<1>1. /\ rpc' = "scan" /\ rtodo' = rtodo \ {i} /\ rversion' = rversion /\ rexit' = rexit
      /\ ractive' = (ractive \/ a)
  BY DEF Visited
<1>2. members' = members /\ version' = version /\ exit_when_done' = exit_when_done
  BY DEF collection
<1>3. members \subseteq Interps
  BY DEF IInv, TypeOK, CollectionType
<1>4. ASSUME rversion' = version', ~ractive', NEW j \in members' \ rtodo' PROVE exited'[j]
  <2>1. ~ractive /\ exited'[i] /\ rversion = version
    BY <1>1, <1>2, <1>4
  <2>2. CASE j = i
    BY <2>1, <2>2
  <2>3. CASE j # i
    BY <1>1, <1>2, <1>3, <1>4, <2>1, <2>3 DEF IInv, RunnerScan
  <2> QED
    BY <2>2, <2>3
<1> QED
  BY <1>1, <1>2, <1>4 DEF IInv, RunnerScan

(* Holding a buffer back for joining keeps the scan's invariant.           *)
LEMMA HoldScan ==
  ASSUME IInv, NEW i \in rtodo, NEW f, NEW q, NEW d, Hold(i, f, q, d), UNCHANGED collection,
         UNCHANGED exited, rpc \in {"scan", "join"}
  PROVE  RunnerScan'
  BY DEF IInv, RunnerScan, Hold, collection

(* interpreter_loop's scan: what it passed over as inactive has exited as  *)
(* long as its snapshot is the published collection.                       *)
LEMMA NextRunnerScan == IInv /\ [Next]_vars => RunnerScan'
<1> SUFFICES ASSUME IInv, [Next]_vars PROVE RunnerScan'
  OBVIOUS
<1>0. /\ TypeOK /\ RunnerScan /\ cur \in Interps
      /\ \A j \in Interps : exited[j] => exited'[j]
  BY ExitedGrows DEF IInv, TypeOK, RunnerType
<1>1. CASE RunnerSnapshot
  BY <1>0, <1>1 DEF TypeOK, CollectionType, RunnerScan, RunnerSnapshot, collection
<1>2. ASSUME NEW i \in Interps, SkipExited(i) PROVE RunnerScan'
  BY <1>0, <1>2, VisitedScan DEF SkipExited, Visit
<1>3. ASSUME NEW i \in Interps, NEW e \in BOOLEAN, StepReady(i, e) PROVE RunnerScan'
  BY <1>0, <1>3, VisitedScan DEF StepReady, Visit
<1>4. ASSUME NEW i \in Interps, StepExited(i) PROVE RunnerScan'
  <2>1. exited'[i]
    BY <1>4 DEF StepExited, IInv, TypeOK, OperationType
  <2> QED
    BY <1>0, <1>4, <2>1, VisitedScan DEF StepExited, Visit
<1>5. ASSUME NEW i \in Interps, HandleWrite(i) PROVE RunnerScan'
  BY <1>0, <1>5, VisitedScan DEF HandleWrite, Visit
<1>6. ASSUME NEW i \in Interps, HandleStartCallback(i) PROVE RunnerScan'
  BY <1>0, <1>6, VisitedScan DEF HandleStartCallback, Visit
<1>7. ASSUME NEW i \in Interps, HandleFinishCallback(i) PROVE RunnerScan'
  BY <1>0, <1>7, VisitedScan DEF HandleFinishCallback, Visit
<1>8. ASSUME NEW i \in Interps, ReadPop(i) PROVE RunnerScan'
  <2>1. CASE Takes(i, Head(input_buffer[i]))
    BY <1>0, <1>8, <2>1, VisitedScan DEF ReadPop, Visit, Consume
  <2>2. CASE ~Takes(i, Head(input_buffer[i]))
    BY <1>0, <1>8, <2>2, HoldScan DEF ReadPop, Visit
  <2> QED
    BY <2>1, <2>2
<1>9. ASSUME NEW i \in Interps, ReadPopEmpty(i) PROVE RunnerScan'
  BY <1>0, <1>9 DEF RunnerScan, ReadPopEmpty, Visit, collection
<1>10. CASE ReadJoin
  <2> DEFINE both == [lo |-> joined.lo, hi |-> Head(input_buffer[cur]).hi]
  <2>1. CASE Takes(cur, both)
    BY <1>0, <1>10, <2>1, VisitedScan DEF ReadJoin, Consume
  <2>2. CASE ~Takes(cur, both)
    <3>1. cur \in rtodo
      BY <1>0, <1>10 DEF ReadJoin, RunnerScan
    <3> QED
      BY <1>0, <1>10, <2>2, <3>1, HoldScan DEF ReadJoin
  <2> QED
    BY <2>1, <2>2
<1>11. CASE ReadJoinEmpty
  BY <1>0, <1>11 DEF RunnerScan, ReadJoinEmpty, collection
<1>12. CASE ReadPushFront
  <2>1. ready[cur] \in BOOLEAN /\ (~ready[cur] /\ did_join) \in BOOLEAN
    BY <1>0, Zenon DEF TypeOK, OperationType, RunnerType
  <2> QED
    BY <1>0, <1>12, <2>1, VisitedScan DEF ReadPushFront
<1>13. CASE ReadEofCheck
  <2>1. eof[cur] \in BOOLEAN
    BY <1>0 DEF TypeOK, StreamType
  <2> QED
    BY <1>0, <1>13, <2>1, VisitedScan DEF ReadEofCheck
<1>14. CASE RunnerLoadExit
  BY <1>0, <1>14 DEF RunnerScan, RunnerLoadExit, collection
<1>15. CASE RunnerCompare
  <2>1. rpc' \in {"done", "wait", "top"} /\ rversion' = 0 /\ rexit' = FALSE
    BY <1>15 DEF RunnerCompare
  <2>2. UNCHANGED collection /\ version \in Nat
    BY <1>0, <1>15 DEF RunnerCompare, TypeOK, CollectionType
  <2> QED
    BY <2>1, <2>2 DEF RunnerScan, collection
<1>16. CASE RunnerWait
  BY <1>0, <1>16 DEF RunnerScan, RunnerWait, collection
<1>17. CASE CallbackLoop
  BY <1>0, <1>17, CallbackFrame DEF RunnerScan, collection, runner
<1>18. CASE Environment
  <2>1. UNCHANGED runner /\ UNCHANGED exited
    BY <1>18, EnvironmentFrame
  <2> QED
    BY <1>0, <1>18, <2>1, CollectionStep
       DEF RunnerScan, runner, TypeOK, CollectionType, RunnerType
<1>19. CASE UNCHANGED vars
  BY <1>0, <1>19 DEF RunnerScan, vars, collection, runner
<1> QED
  BY <1>1, <1>2, <1>3, <1>4, <1>5, <1>6, <1>7, <1>8, <1>9, <1>10, <1>11, <1>12, <1>13,
     <1>14, <1>15, <1>16, <1>17, <1>18, <1>19 DEF Next, InterpreterLoop, HandleRead

(* The same for callback_loop's scan.                                      *)
LEMMA NextCallbackScan == IInv /\ [Next]_vars => CallbackScan'
<1> SUFFICES ASSUME IInv, [Next]_vars PROVE CallbackScan'
  OBVIOUS
<1>0. /\ TypeOK /\ CallbackScan /\ members \subseteq Interps
      /\ \A j \in Interps : exited[j] => exited'[j]
  BY ExitedGrows DEF IInv, TypeOK, CollectionType
<1>1. CASE InterpreterLoop
  BY <1>0, <1>1, RunnerFrame DEF CallbackScan, collection, callbacks
<1>2. CASE CallbackSnapshot
  BY <1>0, <1>2 DEF TypeOK, CollectionType, CallbackScan, CallbackSnapshot, collection
<1>3. ASSUME NEW i \in Interps, CallbackSkipExited(i) PROVE CallbackScan'
  BY <1>0, <1>3 DEF CallbackScan, CallbackSkipExited, collection
<1>4. ASSUME NEW i \in Interps, CallbackPop(i) PROVE CallbackScan'
  BY <1>0, <1>4 DEF CallbackScan, CallbackPop, collection
<1>5. CASE CallbackAnswer
  BY <1>0, <1>5 DEF CallbackScan, CallbackAnswer, collection
<1>6. CASE CallbackLoadExit
  BY <1>0, <1>6 DEF CallbackScan, CallbackLoadExit, collection
<1>7. CASE CallbackCompare
  <2>1. cpc' \in {"done", "wait", "top"} /\ cversion' = 0 /\ cexit' = FALSE
    BY <1>7 DEF CallbackCompare
  <2>2. UNCHANGED collection /\ version \in Nat
    BY <1>0, <1>7 DEF CallbackCompare, TypeOK, CollectionType
  <2> QED
    BY <2>1, <2>2 DEF CallbackScan, collection
<1>8. CASE CallbackWait
  BY <1>0, <1>8 DEF CallbackScan, CallbackWait, collection
<1>9. CASE Environment
  <2>1. UNCHANGED callbacks /\ UNCHANGED exited
    BY <1>9, EnvironmentFrame
  <2> QED
    BY <1>0, <1>9, <2>1, CollectionStep
       DEF CallbackScan, callbacks, TypeOK, CollectionType, CallbackType
<1>10. CASE UNCHANGED vars
  BY <1>0, <1>10 DEF CallbackScan, vars, collection, callbacks
<1> QED
  BY <1>1, <1>2, <1>3, <1>4, <1>5, <1>6, <1>7, <1>8, <1>9, <1>10 DEF Next, CallbackLoop

(* The step in which a loop stops: its snapshot is the published           *)
(* collection, so everyone in it has exited.                               *)
LEMMA StepStopsWhenDone ==
  ASSUME IInv, [Next]_vars, Stops
  PROVE  exit_when_done /\ \A i \in members : exited[i]
<1>1. RunnerScan /\ CallbackScan
  BY DEF IInv
<1>2. CASE RunnerCompare
  <2>1. cpc' = cpc /\ rpc' = "done"
    BY <1>2 DEF Stops, RunnerCompare, callbacks
  <2> QED
    BY <1>1, <1>2, <2>1 DEF RunnerScan, RunnerCompare, RunnerMayStop
<1>3. CASE InterpreterLoop /\ ~RunnerCompare
  <2>1. rpc' # "done"
    BY <1>3 DEF InterpreterLoop, RunnerSnapshot, SkipExited, StepReady, StepExited,
       HandleWrite, HandleStartCallback, HandleFinishCallback, HandleRead, ReadPop,
       ReadPopEmpty, ReadJoin, ReadJoinEmpty, ReadPushFront, ReadEofCheck,
       RunnerLoadExit, RunnerWait, Visited, Consume, Hold
  <2> QED
    BY <1>3, <2>1, RunnerFrame DEF Stops, callbacks
<1>4. CASE CallbackCompare
  <2>1. rpc' = rpc /\ cpc' = "done"
    BY <1>4 DEF Stops, CallbackCompare, runner
  <2> QED
    BY <1>1, <1>4, <2>1 DEF CallbackScan, CallbackCompare, CallbackMayStop
<1>5. CASE CallbackLoop /\ ~CallbackCompare
  <2>1. cpc' = "done" => cpc = "done"
    BY <1>5 DEF CallbackLoop, CallbackSnapshot, CallbackSkipExited, CallbackPop,
       CallbackAnswer, CallbackLoadExit, CallbackWait
  <2> QED
    BY <1>5, <2>1, CallbackFrame DEF Stops, runner
<1>6. CASE Environment
  BY <1>6, EnvironmentFrame DEF Stops, runner, callbacks
<1>7. CASE UNCHANGED vars
  BY <1>7 DEF Stops, vars, runner, callbacks
<1> QED
  BY <1>2, <1>3, <1>4, <1>5, <1>6, <1>7 DEF Next

(* While handle_read runs, its interpreter stays at the read it was called *)
(* for; callback flags belong to callbacks.                                *)
LEMMA NextReading == IInv /\ [Next]_vars => Reading'
<1> SUFFICES ASSUME IInv, [Next]_vars PROVE Reading'
  OBVIOUS
<1> DEFINE quiet == UNCHANGED <<ip, ready, called>>
<1>0. TypeOK /\ Reading /\ OperationType /\ cur \in Interps
  BY DEF IInv, TypeOK, RunnerType
<1>1. ASSUME quiet, rpc' \notin {"join", "pushfront", "eofcheck"} PROVE Reading'
  BY <1>0, <1>1 DEF Reading, AtEnd, Op
<1>2. ASSUME UNCHANGED <<exited, operation, cur>>, rpc' = rpc PROVE Reading'
  BY <1>0, <1>2 DEF Reading, AtEnd, Op, operation
<1>3. ASSUME NEW i \in Interps, ~AtEnd(i), Op(i).kind \in {"read", "look"},
             UNCHANGED <<ip, called>>, NEW b \in BOOLEAN, ready' = [ready EXCEPT ![i] = b], rpc' = "scan"
      PROVE  Reading'
  BY <1>0, <1>3 DEF Reading, AtEnd, Op, OperationType
<1>4. ASSUME NEW i \in Interps, ~AtEnd(i), Op(i).kind \in {"read", "look"},
             ~exited[i], ~ctxEof[i], UNCHANGED <<ip, called, exited, ctxEof>>,
             NEW b \in BOOLEAN, ready' = [ready EXCEPT ![i] = b], rpc' = "join", cur' = i
      PROVE  Reading'
  BY <1>0, <1>4 DEF Reading, AtEnd, Op, OperationType
<1>5. CASE RunnerSnapshot \/ ReadEofCheck \/ RunnerLoadExit \/ RunnerCompare \/ RunnerWait
           \/ ReadPushFront
  BY <1>1, <1>5 DEF RunnerSnapshot, ReadEofCheck, RunnerLoadExit, RunnerCompare,
     RunnerWait, ReadPushFront, Visited, operation
<1>6. ASSUME NEW i \in Interps, SkipExited(i) \/ StepExited(i) PROVE Reading'
  BY <1>1, <1>6 DEF SkipExited, StepExited, Visited, operation
<1>7. ASSUME NEW i \in Interps, NEW e \in BOOLEAN, StepReady(i, e) PROVE Reading'
  <2>1. rpc' = "scan"
    BY <1>7 DEF StepReady, Visited
  <2>2. ~ready'[i] /\ ~called'[i]
    BY <1>0, <1>7 DEF StepReady, OperationType
  <2>3. \A j \in Interps \ {i} : ip'[j] = ip[j] /\ ready'[j] = ready[j] /\ called'[j] = called[j]
    BY <1>0, <1>7 DEF StepReady, OperationType
  <2> QED
    BY <1>0, <2>1, <2>2, <2>3 DEF Reading, AtEnd, Op
<1>8. ASSUME NEW i \in Interps, HandleWrite(i) PROVE Reading'
  <2>1. rpc' = "scan" /\ UNCHANGED <<ip, called>> /\ Op(i).kind = "write"
    BY <1>8 DEF HandleWrite, WaitingForWrite, Visited
  <2>2. \A j \in Interps \ {i} : ready'[j] = ready[j]
    BY <1>0, <1>8 DEF HandleWrite, OperationType
  <2> QED
    BY <1>0, <2>1, <2>2 DEF Reading, AtEnd, Op
<1>9. ASSUME NEW i \in Interps, HandleStartCallback(i) PROVE Reading'
  <2>1. rpc' = "scan" /\ UNCHANGED <<ip, ready>> /\ ~AtEnd(i) /\ Op(i).kind = "callback"
    BY <1>9 DEF HandleStartCallback, WaitingForCallback, Visited
  <2>2. called' = [called EXCEPT ![i] = TRUE]
    BY <1>9 DEF HandleStartCallback
  <2> QED
    BY <1>0, <2>1, <2>2 DEF Reading, AtEnd, Op, OperationType
<1>10. ASSUME NEW i \in Interps, HandleFinishCallback(i) PROVE Reading'
  <2>1. rpc' = "scan" /\ UNCHANGED <<ip, called>> /\ called[i]
    BY <1>10 DEF HandleFinishCallback, WaitingCallbackData, Visited
  <2>2. \A j \in Interps \ {i} : ready'[j] = ready[j]
    BY <1>0, <1>10 DEF HandleFinishCallback, OperationType
  <2> QED
    BY <1>0, <2>1, <2>2 DEF Reading, AtEnd, Op
<1>11. ASSUME NEW i \in Interps, ReadPop(i) PROVE Reading'
  <2>1. CASE Takes(i, Head(input_buffer[i]))
    BY <1>3, <1>11, <2>1 DEF ReadPop, WaitingForRead, Consume, Visited
  <2>2. CASE ~Takes(i, Head(input_buffer[i]))
    <3>1. (Op(i).kind = "look" /\ Shown(i, Head(input_buffer[i]))) \in BOOLEAN
      OBVIOUS
    <3> QED
      BY <1>4, <1>11, <2>2, <3>1 DEF ReadPop, WaitingForRead, Hold
  <2> QED
    BY <2>1, <2>2
<1>12. ASSUME NEW i \in Interps, ReadPopEmpty(i) PROVE Reading'
  BY <1>0, <1>12 DEF ReadPopEmpty, WaitingForRead, Reading, AtEnd, Op, operation, OperationType
<1>13. CASE ReadJoin
  <2> DEFINE both == [lo |-> joined.lo, hi |-> Head(input_buffer[cur]).hi]
  <2>1. /\ ~AtEnd(cur) /\ Op(cur).kind \in {"read", "look"} /\ ~exited[cur] /\ ~ctxEof[cur]
        /\ UNCHANGED <<ip, called, exited, ctxEof>>
    BY <1>0, <1>13 DEF ReadJoin, Reading
  <2>2. CASE Takes(cur, both)
    BY <1>0, <1>3, <1>13, <2>1, <2>2 DEF ReadJoin, Consume, Visited
  <2>3. CASE ~Takes(cur, both)
    <3>1. (Op(cur).kind = "look" /\ Shown(cur, both)) \in BOOLEAN
      OBVIOUS
    <3> QED
      BY <1>0, <1>4, <1>13, <2>1, <2>3, <3>1 DEF ReadJoin, Hold
  <2> QED
    BY <2>2, <2>3
<1>14. CASE ReadJoinEmpty
  BY <1>0, <1>14 DEF ReadJoinEmpty, Reading, AtEnd, Op, operation
<1>15. CASE CallbackLoop
  BY <1>2, <1>15, CallbackFrame DEF runner
<1>16. CASE Environment
  BY <1>2, <1>16, EnvironmentFrame DEF runner
<1>17. CASE UNCHANGED vars
  BY <1>2, <1>17 DEF vars, runner
<1> QED
  BY <1>5, <1>6, <1>7, <1>8, <1>9, <1>10, <1>11, <1>12, <1>13, <1>14, <1>15, <1>16, <1>17
     DEF Next, InterpreterLoop, HandleRead

(* The octets an operation consumes leave the front of the stream; the     *)
(* rest, pushed back, is still a chain.                                    *)
LEMMA ConsumeChain ==
  ASSUME TypeOK, NEW i \in Interps, ~AtEnd(i), NEW f \in Fragments, NEW q \in Seq(Fragments),
         f.lo = consumed[i], f.lo < f.hi, Takes(i, f), Chain(q, f.hi, received[i]),
         Consume(i, f, q)
  PROVE  Chain(input_buffer'[i], consumed'[i], received[i])
<1> DEFINE rest == [lo |-> f.lo + Op(i).need, hi |-> f.hi]
<1>1. Op(i).need \in Nat /\ f.lo \in Nat /\ f.hi \in Nat /\ received[i] \in Nat
  BY OpType DEF TypeOK, StreamType, Fragments
<1>2. rest \in Fragments /\ rest.lo <= rest.hi
  BY <1>1 DEF Takes, Fragments
<1>3. consumed'[i] = rest.lo
  BY <1>1 DEF Consume, TypeOK, StreamType
<1>4. input_buffer'[i] = IF rest.lo < rest.hi THEN <<rest>> \o q ELSE q
  BY DEF Consume, TypeOK, StreamType
<1>5. CASE rest.lo < rest.hi
  BY <1>1, <1>2, <1>3, <1>4, <1>5, ChainPushFront
<1>6. CASE ~(rest.lo < rest.hi)
  <2>1. rest.lo = f.hi
    BY <1>1, <1>2, <1>6
  <2> QED
    BY <1>3, <1>4, <1>6, <2>1
<1> QED
  BY <1>5, <1>6

(* No step loses, duplicates or reorders an octet.                         *)
LEMMA NextStreamIntact == IInv /\ [Next]_vars => StreamIntact'
<1> SUFFICES ASSUME IInv, [Next]_vars PROVE StreamIntact'
  OBVIOUS
<1> DEFINE Intact(i) ==
      /\ Held(i) => joined.lo = consumed[i] /\ joined.lo < joined.hi
      /\ Chain(input_buffer[i], IF Held(i) THEN joined.hi ELSE consumed[i], received[i])
<1>0. /\ TypeOK /\ StreamType /\ Reading /\ StreamIntact
      /\ cur \in Interps /\ joined \in Fragments
  BY DEF IInv, TypeOK, RunnerType
<1>1. ASSUME UNCHANGED <<input_buffer, consumed, received>>,
             rpc \notin {"join", "pushfront"}, rpc' \notin {"join", "pushfront"}
      PROVE  StreamIntact'
  BY <1>0, <1>1 DEF StreamIntact, Held
<1>2. ASSUME UNCHANGED <<input_buffer, consumed, received, rpc, cur, joined>>
      PROVE  StreamIntact'
  BY <1>0, <1>2 DEF StreamIntact, Held
<1>3. ASSUME NEW i \in Interps, Intact(i)',
             \A j \in Interps \ {i} :
               /\ input_buffer'[j] = input_buffer[j] /\ consumed'[j] = consumed[j]
               /\ received'[j] = received[j]
               /\ ~Held(j) /\ ~Held(j)'
      PROVE  StreamIntact'
  BY <1>0, <1>3 DEF StreamIntact
<1>4. ASSUME NEW i \in Interps, ~AtEnd(i), NEW f \in Fragments, NEW q \in Seq(Fragments),
             f.lo = consumed[i], f.lo < f.hi, Takes(i, f), Chain(q, f.hi, received[i]),
             Consume(i, f, q), UNCHANGED received, \A j \in Interps \ {i} : ~Held(j)
      PROVE  StreamIntact'
  <2>1. Chain(input_buffer'[i], consumed'[i], received'[i])
    BY <1>0, <1>4, ConsumeChain
  <2>2. \A j \in Interps : ~Held(j)'
    BY <1>4 DEF Consume, Visited, Held
  <2>3. \A j \in Interps \ {i} :
          input_buffer'[j] = input_buffer[j] /\ consumed'[j] = consumed[j]
    BY <1>0, <1>4 DEF Consume, StreamType
  <2> QED
    BY <1>3, <1>4, <2>1, <2>2, <2>3
<1>5. ASSUME NEW i \in Interps, NEW f \in Fragments, NEW q \in Seq(Fragments), NEW d,
             f.lo = consumed[i], f.lo < f.hi, Chain(q, f.hi, received[i]),
             Hold(i, f, q, d), UNCHANGED received, \A j \in Interps \ {i} : ~Held(j)
      PROVE  StreamIntact'
  <2>1. Held(i)' /\ joined' = f /\ consumed' = consumed
    BY <1>5 DEF Hold, Held
  <2>2. input_buffer'[i] = q
    BY <1>0, <1>5 DEF Hold, StreamType
  <2>3. \A j \in Interps \ {i} : input_buffer'[j] = input_buffer[j] /\ ~Held(j)'
    BY <1>0, <1>5 DEF Hold, StreamType, Held
  <2> QED
    BY <1>3, <1>5, <2>1, <2>2, <2>3
<1>6. ASSUME NEW i \in Interps, ReadPop(i) PROVE StreamIntact'
  <2> DEFINE f == Head(input_buffer[i])
             q == Tail(input_buffer[i])
  <2>1. /\ \A j \in Interps : ~Held(j)
        /\ input_buffer[i] # <<>> /\ ~AtEnd(i) /\ UNCHANGED received
    BY <1>6 DEF ReadPop, Visit, WaitingForRead, Held
  <2>2. Chain(input_buffer[i], consumed[i], received[i])
    BY <1>0, <2>1 DEF StreamIntact
  <2>3. f \in Fragments /\ q \in Seq(Fragments)
    BY <1>0, <2>1, QueuePop DEF StreamType
  <2>4. f.lo = consumed[i] /\ f.lo < f.hi /\ Chain(q, f.hi, received[i])
    BY <1>0, <2>1, <2>2, ChainPop DEF StreamType
  <2>5. CASE Takes(i, f)
    BY <1>4, <1>6, <2>1, <2>3, <2>4, <2>5 DEF ReadPop
  <2>6. CASE ~Takes(i, f)
    BY <1>5, <1>6, <2>1, <2>3, <2>4, <2>6 DEF ReadPop
  <2> QED
    BY <2>5, <2>6
<1>7. CASE ReadJoin
  <2> DEFINE h == Head(input_buffer[cur])
             q == Tail(input_buffer[cur])
             both == [lo |-> joined.lo, hi |-> h.hi]
  <2>1. /\ Held(cur) /\ \A j \in Interps \ {cur} : ~Held(j)
        /\ input_buffer[cur] # <<>> /\ ~AtEnd(cur) /\ UNCHANGED received
    BY <1>0, <1>7 DEF ReadJoin, Reading, Held
  <2>2. /\ Chain(input_buffer[cur], joined.hi, received[cur])
        /\ joined.lo = consumed[cur] /\ joined.lo < joined.hi
    BY <1>0, <2>1 DEF StreamIntact
  <2>3. h \in Fragments /\ q \in Seq(Fragments)
    BY <1>0, <2>1, QueuePop DEF StreamType
  <2>4. h.lo = joined.hi /\ h.lo < h.hi /\ Chain(q, h.hi, received[cur])
    BY <1>0, <2>1, <2>2, ChainPop DEF StreamType, Fragments
  <2>5. /\ both \in Fragments /\ both.lo = consumed[cur] /\ both.lo < both.hi
        /\ Chain(q, both.hi, received[cur])
    BY <1>0, <2>2, <2>3, <2>4 DEF Fragments
  <2>6. CASE Takes(cur, both)
    BY <1>0, <1>4, <1>7, <2>1, <2>3, <2>5, <2>6 DEF ReadJoin
  <2>7. CASE ~Takes(cur, both)
    BY <1>0, <1>5, <1>7, <2>1, <2>3, <2>5, <2>7 DEF ReadJoin
  <2> QED
    BY <2>6, <2>7
<1>8. CASE ReadJoinEmpty
  BY <1>0, <1>8 DEF ReadJoinEmpty, stream, StreamIntact, Held
<1>9. CASE ReadPushFront
  <2>1. /\ Held(cur) /\ (\A j \in Interps \ {cur} : ~Held(j))
        /\ (\A j \in Interps : ~Held(j)') /\ UNCHANGED <<received, consumed>>
    BY <1>0, <1>9 DEF ReadPushFront, Visited, Held
  <2>2. /\ Chain(input_buffer[cur], joined.hi, received[cur])
        /\ joined.lo = consumed[cur] /\ joined.lo < joined.hi
    BY <1>0, <2>1 DEF StreamIntact
  <2>3. /\ input_buffer'[cur] = <<joined>> \o input_buffer[cur]
        /\ \A j \in Interps \ {cur} : input_buffer'[j] = input_buffer[j]
    BY <1>0, <1>9 DEF ReadPushFront, StreamType
  <2>4. Chain(input_buffer'[cur], consumed'[cur], received'[cur])
    BY <1>0, <2>1, <2>2, <2>3, ChainPushFront DEF StreamType
  <2> QED
    BY <1>0, <1>3, <2>1, <2>3, <2>4
<1>10. CASE \/ RunnerSnapshot \/ ReadEofCheck \/ RunnerLoadExit \/ RunnerCompare \/ RunnerWait
            \/ \E i \in Interps :
                 \/ SkipExited(i) \/ StepExited(i) \/ HandleWrite(i) \/ HandleStartCallback(i)
                 \/ HandleFinishCallback(i) \/ ReadPopEmpty(i)
                 \/ \E e \in BOOLEAN : StepReady(i, e)
  BY <1>1, <1>10 DEF RunnerSnapshot, ReadEofCheck, RunnerLoadExit, RunnerCompare,
     RunnerWait, SkipExited, StepExited, HandleWrite, HandleStartCallback,
     HandleFinishCallback, ReadPopEmpty, StepReady, Visit, Visited, stream
<1>11. CASE CallbackLoop
  BY <1>2, <1>11, CallbackFrame DEF stream, runner
<1>12. ASSUME NEW i \in Interps, NEW n \in 1..MaxOctets[i], Receive(i, n) PROVE StreamIntact'
  <2> DEFINE f == [lo |-> received[i], hi |-> received[i] + n]
  <2>1. f \in Fragments /\ f.lo < f.hi /\ f.lo = received[i]
    BY <1>0, MaxOctetsAssumption DEF StreamType, Fragments
  <2>2. /\ input_buffer'[i] = Append(input_buffer[i], f) /\ received'[i] = f.hi
        /\ UNCHANGED <<consumed, rpc, cur, joined>>
        /\ \A j \in Interps \ {i} :
             input_buffer'[j] = input_buffer[j] /\ received'[j] = received[j]
    BY <1>0, <1>12 DEF Receive, StreamType, runner
  <2>3. \A j \in Interps : Held(j)' = Held(j)
    BY <2>2 DEF Held
  <2> DEFINE from == IF Held(i) THEN joined.hi ELSE consumed[i]
  <2>4. from \in Nat /\ Chain(input_buffer[i], from, received[i])
    BY <1>0 DEF StreamIntact, StreamType, Fragments
  <2>5. Chain(input_buffer'[i], from, received'[i])
    BY <1>0, <2>1, <2>2, <2>4, ChainPushBack DEF StreamType
  <2>6. Intact(i)'
    BY <1>0, <2>2, <2>3, <2>5 DEF StreamIntact
  <2>7. \A j \in Interps \ {i} : Intact(j)'
    BY <1>0, <2>2, <2>3 DEF StreamIntact
  <2> QED
    BY <2>6, <2>7 DEF StreamIntact
<1>13. CASE \/ SetExitWhenDone
            \/ \E i \in Interps : InsertInterpreter(i) \/ RemoveInterpreter(i) \/ ReceiveEof(i)
  BY <1>2, <1>13 DEF SetExitWhenDone, InsertInterpreter, RemoveInterpreter, ReceiveEof,
     stream, runner
<1>14. CASE UNCHANGED vars
  BY <1>2, <1>14 DEF vars, stream, runner
<1> QED
  BY <1>6, <1>7, <1>8, <1>9, <1>10, <1>11, <1>12, <1>13, <1>14
     DEF Next, InterpreterLoop, Environment, HandleRead

(* No step loses or duplicates a callback request or its answer.           *)
LEMMA NextOneCallback == IInv /\ [Next]_vars => OneCallback'
<1> SUFFICES ASSUME IInv, [Next]_vars PROVE OneCallback'
  OBVIOUS
<1> DEFINE Waits(i) == ~exited[i] /\ WaitingCallbackData(i)
           none == <<<<>>, <<>>, <<>>>>
           One(i) == LET call == <<ip[i]>>
                     IN  Outstanding(i) \in
                           IF Waits(i) THEN {<<call, <<>>, <<>>>>, <<<<>>, call, <<>>>>,
                                             <<<<>>, <<>>, call>>}
                                       ELSE {none}
<1>0. /\ TypeOK /\ QueueType /\ OperationType /\ Reading /\ cur \in Interps
      /\ \A i \in Interps : One(i)
  BY DEF IInv, TypeOK, RunnerType, OneCallback
<1>1. ASSUME \A i \in Interps :
               Outstanding(i)' = Outstanding(i) /\ ip'[i] = ip[i] /\ Waits(i)' = Waits(i)
      PROVE  OneCallback'
  BY <1>0, <1>1 DEF OneCallback
<1>2. ASSUME NEW i \in Interps, One(i)',
             \A j \in Interps \ {i} :
               Outstanding(j)' = Outstanding(j) /\ ip'[j] = ip[j] /\ Waits(j)' = Waits(j)
      PROVE  OneCallback'
  BY <1>0, <1>2 DEF OneCallback
<1>3. ASSUME UNCHANGED <<callback_request_queue, callback_response_queue, cpc, cbdata>>
      PROVE  \A i \in Interps : Outstanding(i)' = Outstanding(i)
  BY <1>3 DEF Outstanding, InService
<1>4. ASSUME UNCHANGED <<exited, ip, called, ready>>
      PROVE  \A i \in Interps : Waits(i)' = Waits(i)
  BY <1>4 DEF WaitingCallbackData, AtEnd, Op
<1>5. CASE \/ RunnerSnapshot \/ ReadJoinEmpty \/ ReadPushFront \/ ReadEofCheck
           \/ RunnerLoadExit \/ RunnerCompare \/ RunnerWait
           \/ \E i \in Interps : SkipExited(i) \/ ReadPopEmpty(i)
  <2>1. UNCHANGED <<callback_request_queue, callback_response_queue, cpc, cbdata>>
    BY <1>5 DEF RunnerSnapshot, ReadJoinEmpty, ReadPushFront, ReadEofCheck,
       RunnerLoadExit, RunnerCompare, RunnerWait, SkipExited, ReadPopEmpty, queues, callbacks
  <2>2. UNCHANGED <<exited, ip, called, ready>>
    BY <1>5 DEF RunnerSnapshot, ReadJoinEmpty, ReadPushFront, ReadEofCheck,
       RunnerLoadExit, RunnerCompare, RunnerWait, SkipExited, ReadPopEmpty, operation
  <2> QED
    BY <1>1, <1>3, <1>4, <2>1, <2>2
<1>6. ASSUME NEW i \in Interps, NEW e \in BOOLEAN, StepReady(i, e) PROVE OneCallback'
  <2>1. \A j \in Interps : Outstanding(j)' = Outstanding(j)
    BY <1>3, <1>6 DEF StepReady, queues, callbacks
  <2>2. ~Waits(i) /\ ~Waits(i)'
    <3>1. ~Waits(i)
      BY <1>6 DEF StepReady, Blocked
    <3>2. ~called'[i]
      BY <1>0, <1>6 DEF StepReady, OperationType
    <3> QED
      BY <3>1, <3>2 DEF WaitingCallbackData
  <2>3. \A j \in Interps \ {i} : ip'[j] = ip[j] /\ Waits(j)' = Waits(j)
    BY <1>0, <1>6 DEF StepReady, OperationType, WaitingCallbackData, AtEnd, Op
  <2> QED
    BY <1>0, <1>2, <2>1, <2>2, <2>3
<1>7. ASSUME NEW i \in Interps, StepExited(i) PROVE OneCallback'
  <2>1. \A j \in Interps : Outstanding(j)' = Outstanding(j)
    BY <1>3, <1>7 DEF StepExited, queues, callbacks
  <2>2. UNCHANGED <<ip, called, ready>> /\ AtEnd(i)
    BY <1>7 DEF StepExited, operation
  <2>3. ~Waits(i) /\ ~Waits(i)'
    BY <2>2 DEF WaitingCallbackData, AtEnd
  <2>4. \A j \in Interps \ {i} : Waits(j)' = Waits(j)
    BY <1>0, <1>7, <2>2 DEF StepExited, OperationType, WaitingCallbackData, AtEnd, Op
  <2> QED
    BY <1>0, <1>2, <2>1, <2>2, <2>3, <2>4
<1>8. ASSUME NEW i \in Interps, UNCHANGED <<exited, ip, called>>,
             NEW b, ready' = [ready EXCEPT ![i] = b], ~called[i],
             UNCHANGED <<callback_request_queue, callback_response_queue, cpc, cbdata>>
      PROVE  OneCallback'
  <2>1. ~Waits(i) /\ ~Waits(i)'
    BY <1>8 DEF WaitingCallbackData
  <2>2. \A j \in Interps \ {i} : Waits(j)' = Waits(j)
    BY <1>0, <1>8 DEF OperationType, WaitingCallbackData, AtEnd, Op
  <2> QED
    BY <1>1, <1>3, <1>8, <2>1, <2>2
<1>9. ASSUME NEW i \in Interps, HandleWrite(i) PROVE OneCallback'
  <2>1. ~called[i]
    BY <1>0, <1>9 DEF HandleWrite, WaitingForWrite, Reading
  <2>2. ready' = ready \/ ready' = [ready EXCEPT ![i] = TRUE]
    BY <1>9 DEF HandleWrite
  <2>3. /\ UNCHANGED <<exited, ip, called>>
        /\ UNCHANGED <<callback_request_queue, callback_response_queue, cpc, cbdata>>
    BY <1>9 DEF HandleWrite, callbacks
  <2>4. CASE ready' = ready
    BY <1>1, <1>3, <1>4, <2>3, <2>4
  <2>5. CASE ready' = [ready EXCEPT ![i] = TRUE]
    BY <1>8, <2>1, <2>3, <2>5
  <2> QED
    BY <2>2, <2>4, <2>5
<1>10. ASSUME NEW i \in Interps, HandleStartCallback(i) PROVE OneCallback'
  <2>1. /\ callback_request_queue' =
             [callback_request_queue EXCEPT ![i] = Append(@, ip[i])]
        /\ called' = [called EXCEPT ![i] = TRUE]
        /\ UNCHANGED <<callback_response_queue, cpc, cbdata, exited, ip, ready>>
    BY <1>10 DEF HandleStartCallback, callbacks
  <2>2. ~exited[i] /\ ~AtEnd(i) /\ Op(i).kind = "callback" /\ ~called[i] /\ ~ready[i]
    BY <1>0, <1>10 DEF HandleStartCallback, WaitingForCallback, Reading
  <2>3. Outstanding(i) = none
    BY <1>0, <2>2 DEF WaitingCallbackData
  <2>4. Waits(i)'
    BY <1>0, <2>1, <2>2 DEF WaitingCallbackData, AtEnd, Op, OperationType
  <2>5. callback_request_queue[i] = <<>> /\ InService(i) = <<>> /\ callback_response_queue[i] = <<>>
    BY <2>3 DEF Outstanding
  <2>6. callback_request_queue'[i] = <<ip[i]>>
    BY <1>0, <2>1, <2>5 DEF QueueType
  <2>7. Outstanding(i)' = << <<ip[i]>>, <<>>, <<>> >>
    BY <2>1, <2>5, <2>6 DEF Outstanding, InService
  <2>8. \A j \in Interps \ {i} : Outstanding(j)' = Outstanding(j) /\ Waits(j)' = Waits(j)
    BY <1>0, <2>1 DEF Outstanding, InService, WaitingCallbackData, AtEnd, Op, QueueType,
       OperationType
  <2> QED
    BY <1>2, <2>1, <2>4, <2>7, <2>8
<1>11. ASSUME NEW i \in Interps, HandleFinishCallback(i) PROVE OneCallback'
  <2>1. UNCHANGED <<callback_request_queue, cpc, cbdata, exited, ip, called>> /\ Waits(i)
    BY <1>11 DEF HandleFinishCallback, callbacks
  <2>2. CASE callback_response_queue[i] = <<>>
    <3>1. UNCHANGED <<callback_response_queue, ready>>
      BY <1>11, <2>2 DEF HandleFinishCallback
    <3> QED
      BY <1>1, <1>3, <1>4, <2>1, <3>1
  <2>3. CASE callback_response_queue[i] # <<>>
    <3>1. /\ callback_response_queue' = [callback_response_queue EXCEPT ![i] = Tail(@)]
          /\ ready' = [ready EXCEPT ![i] = TRUE]
      BY <1>11, <2>3 DEF HandleFinishCallback
    <3>2. /\ callback_request_queue[i] = <<>> /\ InService(i) = <<>>
          /\ callback_response_queue[i] = <<ip[i]>>
      BY <1>0, <2>1, <2>3 DEF Outstanding
    <3>3. callback_response_queue'[i] = <<>>
      BY <1>0, <3>1, <3>2 DEF QueueType
    <3>4. Outstanding(i)' = none /\ ~Waits(i)'
      BY <1>0, <2>1, <3>1, <3>2, <3>3 DEF Outstanding, InService, WaitingCallbackData, OperationType
    <3>5. \A j \in Interps \ {i} : Outstanding(j)' = Outstanding(j) /\ Waits(j)' = Waits(j)
      BY <1>0, <2>1, <3>1 DEF Outstanding, InService, WaitingCallbackData, AtEnd, Op,
         QueueType, OperationType
    <3> QED
      BY <1>2, <2>1, <3>4, <3>5
  <2> QED
    BY <2>2, <2>3
<1>12. ASSUME NEW i \in Interps, ReadPop(i) PROVE OneCallback'
  <2>1. ~called[i]
    BY <1>0, <1>12 DEF ReadPop, WaitingForRead, Reading
  <2>2. /\ UNCHANGED <<exited, ip, called>>
        /\ UNCHANGED <<callback_request_queue, callback_response_queue, cpc, cbdata>>
    BY <1>12 DEF ReadPop, queues, callbacks
  <2>3. \E b \in BOOLEAN : ready' = [ready EXCEPT ![i] = b]
    BY <1>12 DEF ReadPop, Consume, Hold
  <2> QED
    BY <1>8, <2>1, <2>2, <2>3
<1>13. CASE ReadJoin
  <2>1. ~called[cur]
    BY <1>0, <1>13 DEF ReadJoin, Reading
  <2>2. /\ UNCHANGED <<exited, ip, called>>
        /\ UNCHANGED <<callback_request_queue, callback_response_queue, cpc, cbdata>>
    BY <1>13 DEF ReadJoin, queues, callbacks
  <2>3. \E b \in BOOLEAN : ready' = [ready EXCEPT ![cur] = b]
    BY <1>13 DEF ReadJoin, Consume, Hold
  <2> QED
    BY <1>0, <1>8, <2>1, <2>2, <2>3
<1>14. CASE CallbackLoop
  <2>0. UNCHANGED <<exited, ip, called, ready>> /\ \A j \in Interps : Waits(j)' = Waits(j)
    BY <1>4, <1>14, CallbackFrame DEF operation
  <2>1. CASE \/ CallbackSnapshot \/ CallbackLoadExit \/ CallbackCompare \/ CallbackWait
             \/ \E i \in Interps : CallbackSkipExited(i)
    <3>1. UNCHANGED <<callback_request_queue, callback_response_queue, cbdata>>
      BY <2>1 DEF CallbackSnapshot, CallbackLoadExit, CallbackCompare, CallbackWait,
         CallbackSkipExited, queues
    <3>2. cpc # "call" /\ cpc' # "call"
      BY <2>1 DEF CallbackSnapshot, CallbackLoadExit, CallbackCompare, CallbackWait,
         CallbackSkipExited
    <3> QED
      BY <1>1, <2>0, <3>1, <3>2 DEF Outstanding, InService
  <2>2. ASSUME NEW i \in Interps, CallbackPop(i) PROVE OneCallback'
    <3>1. UNCHANGED callback_response_queue /\ cpc = "scan"
      BY <2>2 DEF CallbackPop
    <3>2. CASE callback_request_queue[i] = <<>>
      <4>1. UNCHANGED <<callback_request_queue, cpc, cbdata>>
        BY <2>2, <3>2 DEF CallbackPop
      <4> QED
        BY <1>1, <1>3, <2>0, <3>1, <4>1
    <3>3. CASE callback_request_queue[i] # <<>>
      <4>1. /\ cbdata' = [interp |-> i, key |-> Head(callback_request_queue[i])]
            /\ callback_request_queue' = [callback_request_queue EXCEPT ![i] = Tail(@)]
            /\ cpc' = "call"
        BY <2>2, <3>3 DEF CallbackPop
      <4>2. /\ Waits(i) /\ callback_request_queue[i] = <<ip[i]>>
            /\ callback_response_queue[i] = <<>>
        BY <1>0, <3>3 DEF Outstanding
      <4>3. callback_request_queue'[i] = <<>> /\ cbdata'.key = ip[i] /\ cbdata'.interp = i
        BY <1>0, <4>1, <4>2 DEF QueueType
      <4>4. Outstanding(i)' = << <<>>, <<ip[i]>>, <<>> >>
        BY <3>1, <4>1, <4>2, <4>3 DEF Outstanding, InService
      <4>5. \A j \in Interps \ {i} : Outstanding(j)' = Outstanding(j)
        BY <1>0, <3>1, <4>1 DEF Outstanding, InService, QueueType
      <4> QED
        BY <1>2, <2>0, <4>2, <4>4, <4>5
    <3> QED
      BY <3>2, <3>3
  <2>3. CASE CallbackAnswer
    <3>0. PICK i \in Interps : i = cbdata.interp
      BY <1>0 DEF TypeOK, CallbackType
    <3>1. cpc = "call" /\ cpc' = "scan" /\ UNCHANGED callback_request_queue
      BY <2>3 DEF CallbackAnswer
    <3>2. callback_response_queue' =
            [callback_response_queue EXCEPT ![i] = Append(@, cbdata.key)]
      BY <2>3, <3>0 DEF CallbackAnswer
    <3>3. InService(i) = <<cbdata.key>> /\ InService(i) # <<>>
      BY <3>0, <3>1 DEF InService
    <3>4. /\ Waits(i) /\ callback_request_queue[i] = <<>> /\ callback_response_queue[i] = <<>>
          /\ cbdata.key = ip[i]
      <4>1. /\ Waits(i) /\ callback_request_queue[i] = <<>>
            /\ InService(i) = <<ip[i]>> /\ callback_response_queue[i] = <<>>
        BY <1>0, <3>3 DEF Outstanding
      <4>2. <<cbdata.key>>[1] = <<ip[i]>>[1]
        BY <3>3, <4>1
      <4> QED
        BY <4>1, <4>2
    <3>5. callback_response_queue'[i] = <<ip[i]>>
      BY <1>0, <3>1, <3>2, <3>4 DEF QueueType
    <3>6. Outstanding(i)' = << <<>>, <<>>, <<ip[i]>> >>
      BY <3>1, <3>4, <3>5 DEF Outstanding, InService
    <3>7. \A j \in Interps \ {i} : Outstanding(j)' = Outstanding(j)
      BY <1>0, <3>0, <3>1, <3>2 DEF Outstanding, InService, QueueType
    <3> QED
      BY <1>2, <2>0, <3>1, <3>4, <3>6, <3>7
  <2> QED
    BY <1>14, <2>1, <2>2, <2>3 DEF CallbackLoop
<1>15. CASE Environment
  BY <1>1, <1>3, <1>4, <1>15, EnvironmentFrame DEF queues, operation, callbacks
<1>16. CASE UNCHANGED vars
  BY <1>1, <1>3, <1>4, <1>16 DEF vars, queues, operation, callbacks
<1> QED
  BY <1>5, <1>6, <1>7, <1>9, <1>10, <1>11, <1>12, <1>13, <1>14, <1>15, <1>16
     DEF Next, InterpreterLoop, HandleRead

(* The invariant holds when the runner starts.                             *)
LEMMA InitIInv == Init => IInv
<1> SUFFICES ASSUME Init PROVE IInv
  OBVIOUS
<1>1. TypeOK
  <2>1. CollectionType /\ SignalType
    BY DEF Init, CollectionType, SignalType
  <2>2. QueueType
    BY DEF Init, QueueType
  <2>3. StreamType
    BY DEF Init, StreamType
  <2>4. OperationType
    <3>1. \A i \in Interps : Len(Program[i]) \in Nat
      BY ProgramAssumption
    <3> QED
      BY <3>1 DEF Init, OperationType, OpIndices
  <2>5. RunnerType
    BY NoInterpType DEF Init, RunnerType, RunnerPCs, NoFragment, Fragments
  <2>6. CallbackType
    BY NoInterpType DEF Init, CallbackType, CallbackPCs, NoRequest
  <2> QED
    BY <2>1, <2>2, <2>3, <2>4, <2>5, <2>6 DEF TypeOK
<1>2. StreamIntact
  <2>1. ASSUME NEW i \in Interps
        PROVE  /\ ~Held(i) /\ input_buffer[i] = <<>>
               /\ consumed[i] = 0 /\ received[i] = 0
    BY DEF Init, Held
  <2>2. Chain(<<>>, 0, 0)
    BY EmptyLength DEF Chain
  <2> QED
    BY <2>1, <2>2 DEF StreamIntact
<1>3. OneCallback
  BY DEF Init, OneCallback, Outstanding, InService, WaitingCallbackData
<1>4. RunnerScan /\ CallbackScan
  BY DEF Init, RunnerScan, CallbackScan
<1>5. Reading
  BY DEF Init, Reading
<1> QED
  BY <1>1, <1>2, <1>3, <1>4, <1>5 DEF IInv

(* The type invariant, from its parts.                                     *)
LEMMA NextTypeOK == IInv /\ [Next]_vars => TypeOK'
<1> SUFFICES ASSUME IInv, [Next]_vars PROVE TypeOK'
  OBVIOUS
<1>1. TypeOK /\ Reading
  BY DEF IInv
<1> QED
  BY <1>1, NextCollectionType, NextSignalType, NextQueueType, NextStreamType,
     NextOperationType, NextRunnerType, NextCallbackType DEF TypeOK

(* The invariant of the two loops is inductive.                            *)
THEOREM Invariance == Spec => []IInv
<1>1. Init => IInv
  BY InitIInv
<1>2. IInv /\ [Next]_vars => IInv'
  BY NextTypeOK, NextStreamIntact, NextOneCallback, NextRunnerScan, NextCallbackScan,
     NextReading DEF IInv
<1> QED
  BY <1>1, <1>2, PTL DEF Spec

(* Every variable of the runner keeps its type; in particular no           *)
(* interpreter runs past the end of its program.                           *)
THEOREM TypeCorrect == Spec => []TypeOK
<1>1. IInv => TypeOK
  BY DEF IInv
<1> QED
  BY <1>1, Invariance, PTL

(* handle_read joins, splits and pushes back buffers while the I/O thread  *)
(* pushes new ones, and no octet is lost, duplicated or reordered.         *)
THEOREM NoOctetIsLost == Spec => []StreamIntact
<1>1. IInv => StreamIntact
  BY DEF IInv
<1> QED
  BY <1>1, Invariance, PTL

(* An interpreter waiting for a callback has exactly one request on its    *)
(* way, for the operation it is at; no other interpreter has any.          *)
THEOREM OneCallbackAtATime == Spec => []OneCallback
<1>1. IInv => OneCallback
  BY DEF IInv
<1> QED
  BY <1>1, Invariance, PTL

(* interpreter_loop and callback_loop only stop when every interpreter of  *)
(* the collection has exited, although interpreters are inserted while     *)
(* they scan.                                                              *)
THEOREM StopOnlyWhenDone == Spec => StopsWhenDone
<1>1. IInv /\ [Next]_vars
        => [Stops => exit_when_done /\ \A i \in members : exited[i]]_vars
  BY StepStopsWhenDone
<1> QED
  BY <1>1, Invariance, PTL DEF Spec, StopsWhenDone
=============================================================================
