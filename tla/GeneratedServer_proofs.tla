----------------------- MODULE GeneratedServer_proofs -----------------------
(***************************************************************************)
(* What GeneratedServerWrapperBase promises, for any number of connections *)
(* and messages: a connection's messages stay in order, its data lives as  *)
(* long as its handle, and uv_close is called once. IInv of module         *)
(* GeneratedServer is inductive.                                           *)
(***************************************************************************)
EXTENDS GeneratedServer, WorkQueue_proofs

(* What came first is a prefix of everything.                              *)
LEMMA PrefixOfWritten ==
  ASSUME NEW w \in Seq(Nat), NEW r \in Seq(Nat), NEW s \in Seq(Nat), NEW n \in Nat,
         (w \o r) \o s = Written(n)
  PROVE  IsPrefix(w, Written(n))
<1> DEFINE t == r \o s
           all == w \o t
<1>1. t \in Seq(Nat) /\ all = Written(n)
  <2>1. r \o s \in Seq(Nat)
    BY ConcatProperties
  <2>2. (w \o r) \o s = w \o (r \o s)
    BY ONLY Regroup, w \in Seq(Nat), r \in Seq(Nat), s \in Seq(Nat)
  <2> QED
    BY <2>1, <2>2
<1> HIDE DEF t
<1>2. /\ all \in Seq(Nat) /\ Len(w) \in Nat /\ Len(t) \in Nat /\ Len(all) = Len(w) + Len(t)
      /\ \A k \in 1..(Len(w) + Len(t)) : all[k] = IF k <= Len(w) THEN w[k] ELSE t[k - Len(w)]
  BY <1>1, ConcatProperties, LenProperties, Zenon
<1>a. Len(w) <= Len(all)
  BY <1>2
<1> HIDE DEF all
<1> DEFINE a == SubSeq(w, 1, Len(w))
           b == SubSeq(all, 1, Len(w))
<1>3. /\ a \in Seq(Nat) /\ Len(a) = Len(w) /\ \A k \in 1..Len(w) : a[k] = w[k]
  BY <1>2
<1>4. /\ b \in Seq(Nat) /\ Len(b) = Len(w) /\ \A k \in 1..Len(w) : b[k] = all[k]
  BY <1>2
<1> HIDE DEF a, b
<1>5. \A k \in 1..Len(a) : a[k] = b[k]
  BY <1>2, <1>3, <1>4
<1>6. a = b
  BY <1>3, <1>4, <1>5, SeqEqual
<1>7. Len(w) <= Len(all)
  BY <1>2
<1> QED
  BY <1>1, <1>6, <1>7 DEF IsPrefix, a, b

(* A server that has not started serves nobody.                            *)
LEMMA InitInv == Init => IInv
<1> SUFFICES ASSUME Init PROVE IInv
  OBVIOUS
<1>1. TypeOK
  <2>1. /\ stopping \in BOOLEAN /\ shutdown_called \in BOOLEAN /\ shutdown_promise \in BOOLEAN
        /\ stopped_promise \in BOOLEAN /\ aborted \in BOOLEAN
    BY Zenon DEF Init
  <2>2. /\ closing \in [Conns -> BOOLEAN] /\ is_closed \in [Conns -> BOOLEAN]
        /\ has_error \in [Conns -> BOOLEAN]
    BY Zenon DEF Init
  <2>3. /\ writes \in [Conns -> Seq(1..MaxOutput)] /\ done \in [Conns -> Nat]
        /\ \A c \in Conns : done[c] <= Len(writes[c])
        /\ produced \in [Conns -> 0..MaxOutput]
        /\ output \in [Conns -> Seq(1..MaxOutput)] /\ wire \in [Conns -> Seq(1..MaxOutput)]
    BY MaxOutputAssumption DEF Init
  <2> QED
    BY <2>1, <2>2, <2>3 DEF Init, TypeOK
<1>2. CloseInv /\ DataOutlivesHandle /\ ClosedOnce
  BY DEF Init, CloseInv, DataOutlivesHandle, ClosedOnce
<1>3. OutputIntact
  <2> SUFFICES ASSUME NEW c \in Conns
               PROVE  handle[c] # "open" /\ IsPrefix(wire[c], Written(produced[c]))
    BY DEF OutputIntact
  <2>1. IsPrefix(<<>>, Written(0))
    <3> DEFINE e == <<>>
    <3>1. e \in Seq(Nat) /\ (e \o e) \o e = Written(0)
      BY DEF Written
    <3> HIDE DEF e
    <3>2. IsPrefix(e, Written(0))
      BY <3>1, PrefixOfWritten
    <3> QED
      BY <3>2 DEF e
  <2> QED
    BY <2>1 DEF Init
<1> QED
  BY <1>1, <1>2, <1>3 DEF IInv

(* closing.exchange lets the first who closes a connection call uv_close:  *)
(* of the connections of the map those that are open are closed, and no    *)
(* assertion of libuv fails.                                               *)
LEMMA CloseAllEffect ==
  ASSUME TypeOK, CloseInv, DataOutlivesHandle, NEW cs \in SUBSET connections, CloseAll(cs)
  PROVE  /\ handle' \in [Conns -> {"none", "open", "freed", "closing", "closed"}]
         /\ closing' \in [Conns -> BOOLEAN]
         /\ aborted' = aborted /\ connections' = connections
         /\ \A c \in Conns :
              handle'[c] = IF c \in cs /\ handle[c] = "open" THEN "closing" ELSE handle[c]
         /\ \A c \in Conns : closing'[c] <=> closing[c] \/ c \in cs
<1>1. /\ closing' \in [Conns -> BOOLEAN]
      /\ \A c \in Conns : closing'[c] <=> closing[c] \/ c \in cs
  BY Zenon DEF CloseAll
<1>2. \A c \in cs : ~closing[c] <=> handle[c] = "open"
  BY DEF CloseInv, DataOutlivesHandle, TypeOK
<1>3. /\ \A c \in Conns :
           handle'[c] = IF c \in cs /\ handle[c] = "open" THEN "closing" ELSE handle[c]
      /\ handle' \in [Conns -> {"none", "open", "freed", "closing", "closed"}]
  BY <1>2 DEF CloseAll, TypeOK
<1>4. aborted' = aborted
  <2>1. ~ \E c \in {c \in cs : ~closing[c]} : handle[c] # "open"
    BY <1>2
  <2>2. aborted' = (aborted \/ \E c \in {c \in cs : ~closing[c]} : handle[c] # "open")
    BY Zenon DEF CloseAll
  <2>3. aborted \in BOOLEAN
    BY DEF TypeOK
  <2> QED
    BY <2>1, <2>2, <2>3, Zenon
<1>5. connections' = connections
  BY DEF CloseAll
<1> QED
  BY <1>1, <1>3, <1>4, <1>5

(* The same for one connection.                                            *)
LEMMA CloseEffect ==
  ASSUME TypeOK, CloseInv, DataOutlivesHandle, NEW c \in Conns,
         handle[c] \in {"open", "closing"}, Close(c)
  PROVE  /\ handle' \in [Conns -> {"none", "open", "freed", "closing", "closed"}]
         /\ handle' = [handle EXCEPT ![c] = "closing"]
         /\ closing' \in [Conns -> BOOLEAN] /\ closing'[c]
         /\ \A d \in Conns : d # c => closing'[d] = closing[d]
         /\ aborted' = aborted /\ connections' = connections
<1>1. {c} \in SUBSET connections
  BY DEF DataOutlivesHandle
<1>2. CloseAll({c})
  BY DEF Close
<1>3. /\ handle' \in [Conns -> {"none", "open", "freed", "closing", "closed"}]
      /\ closing' \in [Conns -> BOOLEAN]
      /\ aborted' = aborted /\ connections' = connections
      /\ \A d \in Conns :
           handle'[d] = IF d \in {c} /\ handle[d] = "open" THEN "closing" ELSE handle[d]
      /\ \A d \in Conns : closing'[d] <=> closing[d] \/ d \in {c}
  BY <1>1, <1>2, CloseAllEffect
<1>4. closing'[c] /\ \A d \in Conns : d # c => closing'[d] = closing[d]
  <2>1. closing \in [Conns -> BOOLEAN]
    BY DEF TypeOK
  <2> QED
    BY <1>3, <2>1
<1>5. handle' = [handle EXCEPT ![c] = "closing"]
  BY <1>3 DEF TypeOK
<1> QED
  BY <1>3, <1>4, <1>5

(* A runner answers with its next message, or not at all.                  *)
LEMMA AnswerType ==
  ASSUME TypeOK, NEW c \in Conns, NEW answers, NEW out, out = Answer(c, answers)
  PROVE  /\ out \in Seq(1..MaxOutput)
         /\ Counted(c, out) \in [Conns -> 0..MaxOutput]
         /\ \A d \in Conns : d # c => Counted(c, out)[d] = produced[d]
         /\ \/ out = output[c] /\ Counted(c, out)[c] = produced[c]
            \/ /\ out = Append(output[c], produced[c] + 1)
               /\ Counted(c, out)[c] = produced[c] + 1
<1>1. /\ output[c] \in Seq(1..MaxOutput) /\ produced[c] \in 0..MaxOutput
      /\ produced \in [Conns -> 0..MaxOutput] /\ MaxOutput \in Nat
  BY MaxOutputAssumption DEF TypeOK
<1>2. CASE out = output[c]
  BY <1>1, <1>2 DEF Counted
<1>3. CASE out = Append(output[c], produced[c] + 1) /\ produced[c] < MaxOutput
  <2>1. out \in Seq(1..MaxOutput) /\ Len(out) = Len(output[c]) + 1 /\ Len(output[c]) \in Nat
    BY <1>1, <1>3
  <2>2. out # output[c]
    BY <2>1
  <2> QED
    BY <1>1, <1>3, <2>1, <2>2 DEF Counted
<1> QED
  BY <1>2, <1>3 DEF Answer

(* process_output leaves sequences of messages behind.                     *)
LEMMA process_outputType ==
  ASSUME TypeOK, NEW c \in Conns, NEW out \in Seq(1..MaxOutput), process_output(c, out)
  PROVE  /\ output' \in [Conns -> Seq(1..MaxOutput)] /\ writes' \in [Conns -> Seq(1..MaxOutput)]
         /\ \A d \in Conns : done[d] <= Len(writes'[d])
<1>1. /\ writes[c] \in Seq(1..MaxOutput) /\ done[c] \in Nat /\ done[c] <= Len(writes[c])
      /\ Len(out) \in Nat
  BY DEF TypeOK
<1>2. writes[c] \o out \in Seq(1..MaxOutput) /\ Len(writes[c] \o out) = Len(writes[c]) + Len(out)
  BY <1>1, ConcatProperties
<1> QED
  BY <1>1, <1>2 DEF process_output, TypeOK

(* Every step keeps the types.                                             *)
LEMMA TypeStep ==
  ASSUME TypeOK, CloseInv, DataOutlivesHandle, [Next]_vars
  PROVE  TypeOK'
<1> USE DEF owner, queue, listen, runner, socket, conn
<1>1. CASE Start \/ StopPushes \/ ShutdownPushes
  <2>1. CASE Start
    BY <2>1 DEF Start, TypeOK
  <2>2. CASE StopPushes
    BY <2>2 DEF StopPushes, TypeOK
  <2>3. CASE ShutdownPushes
    BY <2>3 DEF ShutdownPushes, TypeOK
  <2> QED
    BY <1>1, <2>1, <2>2, <2>3
<1>2. CASE StopReturns \/ ShutdownReturns
  BY <1>2 DEF StopReturns, ShutdownReturns, TypeOK
<1>3. CASE WorkBind
  BY <1>3 DEF WorkBind, Pop, TypeOK
<1>4. CASE WorkStop
  <2>1. CloseAll(connections)
    BY <1>4 DEF WorkStop
  <2>2. /\ handle' \in [Conns -> {"none", "open", "freed", "closing", "closed"}]
        /\ closing' \in [Conns -> BOOLEAN]
        /\ aborted' = aborted /\ connections' = connections
    BY <2>1, CloseAllEffect
  <2> QED
    BY <1>4, <2>2 DEF WorkStop, Pop, TypeOK
<1>5. CASE WorkShutdown \/ ShutdownClose \/ OnServerClose
  <2>1. CASE WorkShutdown
    BY <2>1 DEF WorkShutdown, Pop, TypeOK
  <2>2. CASE ShutdownClose
    BY <2>2 DEF ShutdownClose, TypeOK
  <2>3. CASE OnServerClose
    BY <2>3 DEF OnServerClose, TypeOK
  <2> QED
    BY <1>5, <2>1, <2>2, <2>3
<1>6. ASSUME NEW c \in Conns, OnClose(c) PROVE TypeOK'
  BY <1>6 DEF OnClose, TypeOK
<1>7. ASSUME NEW c \in Conns, OnCloseFreed(c) PROVE TypeOK'
  BY <1>7 DEF OnCloseFreed, TypeOK
<1>8. ASSUME NEW c \in Conns, SocketTakes(c) PROVE TypeOK'
  <2>1. /\ writes[c] \in Seq(1..MaxOutput) /\ wire[c] \in Seq(1..MaxOutput)
        /\ done[c] \in Nat /\ done[c] < Len(writes[c])
    BY <1>8 DEF SocketTakes, TypeOK
  <2>2. Append(wire[c], writes[c][done[c] + 1]) \in Seq(1..MaxOutput)
    <3>1. writes[c][done[c] + 1] \in 1..MaxOutput
      <4>1. Len(writes[c]) \in Nat /\ done[c] + 1 \in 1..Len(writes[c])
        BY <2>1
      <4> QED
        BY <2>1, <4>1, ElementOfSeq
    <3> QED
      BY <2>1, <3>1
  <2>3. /\ wire' \in [Conns -> Seq(1..MaxOutput)] /\ done' \in [Conns -> Nat]
        /\ \A d \in Conns : done'[d] <= Len(writes[d])
    BY <1>8, <2>1, <2>2 DEF SocketTakes, TypeOK
  <2>4. UNCHANGED <<owner, queue, listen, runner, writes, conn, aborted>>
    BY <1>8 DEF SocketTakes
  <2> QED
    BY <2>3, <2>4 DEF TypeOK
<1>9. ASSUME NEW c \in Conns, OnWriteComplete(c) PROVE TypeOK'
  <2>1. /\ handle' \in [Conns -> {"none", "open", "freed", "closing", "closed"}]
        /\ closing' \in [Conns -> BOOLEAN] /\ connections' = connections /\ aborted' = aborted
    <3>1. CASE Close(c)
      BY <1>9, <3>1, CloseEffect DEF OnWriteComplete, TypeOK
    <3>2. CASE UNCHANGED <<conn, aborted>>
      BY <3>2 DEF TypeOK
    <3> QED
      BY <1>9, <3>1, <3>2 DEF OnWriteComplete
  <2>2. /\ writes[c] \in Seq(1..MaxOutput) /\ output[c] \in Seq(1..MaxOutput)
        /\ done[c] \in Nat /\ done[c] > 0 /\ done[c] <= Len(writes[c])
    BY <1>9 DEF OnWriteComplete, TypeOK
  <2>3. Tail(writes[c]) \in Seq(1..MaxOutput) /\ Len(Tail(writes[c])) = Len(writes[c]) - 1
    <3>1. writes[c] # <<>>
      BY <2>2
    <3> QED
      BY <2>2, <3>1, HeadTailProperties
  <2>a. Len(writes[c]) \in Nat /\ Len(Tail(writes[c])) >= done[c] - 1
    <3>1. Len(writes[c]) \in Nat
      BY <2>2
    <3> QED
      BY <2>2, <2>3, <3>1
  <2>4. PICK w \in Seq(1..MaxOutput), out \in Seq(1..MaxOutput) :
          /\ writes' = [writes EXCEPT ![c] = w] /\ output' = [output EXCEPT ![c] = out]
          /\ Len(w) >= done[c] - 1
    <3>1. CASE writes' = [writes EXCEPT ![c] = Tail(writes[c])] /\ output' = output
      <4>1. output' = [output EXCEPT ![c] = output[c]]
        BY <3>1 DEF TypeOK
      <4> QED
        BY <2>2, <2>3, <2>a, <3>1, <4>1
    <3>2. CASE /\ Tail(writes[c]) # <<>>
               /\ writes' = [writes EXCEPT ![c] = Tail(writes[c])]
               /\ output' = [output EXCEPT ![c] = output[c]]
      BY <2>2, <2>3, <2>a, <3>2
    <3>3. CASE /\ Tail(writes[c]) = <<>>
               /\ writes' = [writes EXCEPT ![c] = output[c]]
               /\ output' = [output EXCEPT ![c] = <<>>]
      <4>1. <<>> \in Seq(1..MaxOutput) /\ Len(output[c]) \in Nat
        BY <2>2
      <4>2. done[c] - 1 = 0
        <5>1. Len(Tail(writes[c])) = 0
          BY <2>3, <3>3, EmptySeq
        <5>2. Len(writes[c]) = 1
          BY <2>3, <2>a, <5>1
        <5> QED
          BY <2>2, <5>2
      <4> QED
        <5>1. Len(output[c]) >= done[c] - 1
          BY <4>1, <4>2
        <5> QED
          BY <2>2, <3>3, <4>1, <5>1
    <3> QED
      BY <1>9, <3>1, <3>2, <3>3 DEF OnWriteComplete
  <2>5. /\ writes' \in [Conns -> Seq(1..MaxOutput)] /\ output' \in [Conns -> Seq(1..MaxOutput)]
        /\ done' \in [Conns -> Nat] /\ \A d \in Conns : done'[d] <= Len(writes'[d])
    <3>1. done' = [done EXCEPT ![c] = @ - 1]
      BY <1>9 DEF OnWriteComplete
    <3> QED
      BY <2>2, <2>4, <3>1 DEF TypeOK
  <2>6. UNCHANGED <<owner, queue, listen, produced, is_closed, has_error, wire>>
    BY <1>9 DEF OnWriteComplete
  <2> QED
    BY <2>1, <2>5, <2>6 DEF TypeOK
<1>10. ASSUME NEW c \in Conns, OnWriteFails(c) PROVE TypeOK'
  <2>1. /\ handle' \in [Conns -> {"none", "open", "freed", "closing", "closed"}]
        /\ closing' \in [Conns -> BOOLEAN]
        /\ aborted' = aborted /\ connections' = connections
    BY <1>10, CloseEffect DEF OnWriteFails
  <2>2. /\ writes' \in [Conns -> Seq(1..MaxOutput)]
        /\ \A d \in Conns : done'[d] <= Len(writes'[d])
    BY <1>10 DEF OnWriteFails, TypeOK
  <2>3. UNCHANGED <<owner, queue, listen, runner, done, wire>>
    BY <1>10 DEF OnWriteFails
  <2> QED
    BY <2>1, <2>2, <2>3 DEF TypeOK
<1>11. ASSUME NEW c \in Conns, OnNewConnection(c) PROVE TypeOK'
  <2>1. PICK greets \in BOOLEAN :
          LET out == Answer(c, greets)
          IN  process_output(c, out) /\ produced' = Counted(c, out)
    BY <1>11 DEF OnNewConnection
  <2> DEFINE out == Answer(c, greets)
  <2>2. out \in Seq(1..MaxOutput) /\ produced' \in [Conns -> 0..MaxOutput]
    BY <2>1, AnswerType
  <2>3. process_output(c, out)
    BY <2>1
  <2> HIDE DEF out
  <2>4. /\ output' \in [Conns -> Seq(1..MaxOutput)] /\ writes' \in [Conns -> Seq(1..MaxOutput)]
        /\ \A d \in Conns : done[d] <= Len(writes'[d])
    BY <2>2, <2>3, process_outputType
  <2>5. /\ handle' \in [Conns -> {"none", "open", "freed", "closing", "closed"}]
        /\ connections' \in SUBSET Conns
        /\ UNCHANGED <<owner, queue, listen, is_closed, has_error, done, wire, closing, aborted>>
    BY <1>11 DEF OnNewConnection, TypeOK
  <2> QED
    BY <2>2, <2>4, <2>5 DEF TypeOK
<1>12. ASSUME NEW c \in Conns, OnNewConnectionFails(c) PROVE TypeOK'
  BY <1>12 DEF OnNewConnectionFails, TypeOK
<1>13. ASSUME NEW c \in Conns, OnRead(c) PROVE TypeOK'
  <2>1. PICK answers, last \in BOOLEAN :
          LET out == Answer(c, answers /\ ~is_closed[c])
          IN  /\ process_output(c, out) /\ produced' = Counted(c, out)
              /\ is_closed' = [is_closed EXCEPT ![c] = @ \/ (last /\ out # output[c])]
    BY <1>13, Zenon DEF OnRead
  <2> DEFINE out == Answer(c, answers /\ ~is_closed[c])
  <2>2. out \in Seq(1..MaxOutput) /\ produced' \in [Conns -> 0..MaxOutput]
    BY <2>1, AnswerType
  <2>3. process_output(c, out)
    BY <2>1
  <2>4. is_closed' \in [Conns -> BOOLEAN]
    <3>1. is_closed \in [Conns -> BOOLEAN]
      BY DEF TypeOK
    <3>2. (is_closed[c] \/ (last /\ out # output[c])) \in BOOLEAN
      BY Zenon
    <3>3. is_closed' = [is_closed EXCEPT ![c] = is_closed[c] \/ (last /\ out # output[c])]
      BY <2>1, Zenon
    <3> QED
      BY <3>1, <3>2, <3>3, Zenon
  <2> HIDE DEF out
  <2>5. /\ output' \in [Conns -> Seq(1..MaxOutput)] /\ writes' \in [Conns -> Seq(1..MaxOutput)]
        /\ \A d \in Conns : done[d] <= Len(writes'[d])
    BY <2>2, <2>3, process_outputType
  <2>6. UNCHANGED <<owner, queue, listen, has_error, done, wire, conn, aborted>>
    BY <1>13 DEF OnRead
  <2> QED
    BY <2>2, <2>4, <2>5, <2>6 DEF TypeOK
<1>14. ASSUME NEW c \in Conns, OnReadMismatch(c) PROVE TypeOK'
  <2>1. /\ handle' \in [Conns -> {"none", "open", "freed", "closing", "closed"}]
        /\ closing' \in [Conns -> BOOLEAN]
        /\ aborted' = aborted /\ connections' = connections
    BY <1>14, CloseEffect DEF OnReadMismatch
  <2>2. /\ UNCHANGED <<owner, queue, listen, output, produced, is_closed, socket>>
        /\ has_error' \in [Conns -> BOOLEAN]
    BY <1>14 DEF OnReadMismatch, TypeOK
  <2> QED
    BY <2>1, <2>2 DEF TypeOK
<1>15. ASSUME NEW c \in Conns, OnReadEnd(c) PROVE TypeOK'
  <2>1. /\ handle' \in [Conns -> {"none", "open", "freed", "closing", "closed"}]
        /\ closing' \in [Conns -> BOOLEAN]
        /\ aborted' = aborted /\ connections' = connections
    BY <1>15, CloseEffect DEF OnReadEnd
  <2>2. /\ UNCHANGED <<owner, queue, listen, output, produced, is_closed, socket>>
        /\ has_error' \in [Conns -> BOOLEAN]
    BY <1>15 DEF OnReadEnd, TypeOK
  <2> QED
    BY <2>1, <2>2 DEF TypeOK
<1>16. CASE UNCHANGED vars
  BY <1>16 DEF vars, TypeOK
<1> QED
  BY <1>1, <1>2, <1>3, <1>4, <1>5, <1>6, <1>7, <1>8, <1>9, <1>10, <1>11, <1>12, <1>13, <1>14,
     <1>15, <1>16
     DEF Next, Owner, Loop, Socket, Peer

(* A connection is in the map from its accept to its close callback.       *)
LEMMA CloseStep ==
  ASSUME TypeOK, CloseInv, DataOutlivesHandle, [Next]_vars
  PROVE  CloseInv' /\ DataOutlivesHandle'
<1> USE DEF owner, queue, listen, runner, socket, conn
<1>1. CASE \/ Start \/ StopPushes \/ Owner \/ WorkBind \/ WorkShutdown \/ ShutdownClose
           \/ OnServerClose \/ UNCHANGED vars
  <2>1. UNCHANGED <<runner, socket, conn>>
    BY <1>1 DEF Start, StopPushes, Owner, StopReturns, ShutdownPushes, ShutdownReturns,
                WorkBind, WorkShutdown, ShutdownClose, OnServerClose, vars
  <2> QED
    BY <2>1 DEF CloseInv, DataOutlivesHandle
<1>2. CASE WorkStop
  <2>1. CloseAll(connections) /\ UNCHANGED <<runner, socket>>
    BY <1>2 DEF WorkStop
  <2>2. /\ connections' = connections
        /\ \A c \in Conns : handle'[c] = IF c \in connections /\ handle[c] = "open"
                                           THEN "closing" ELSE handle[c]
        /\ \A c \in Conns : closing'[c] <=> closing[c] \/ c \in connections
    BY <2>1, CloseAllEffect
  <2> QED
    BY <2>1, <2>2 DEF CloseInv, DataOutlivesHandle, TypeOK
<1>3. ASSUME NEW c \in Conns, OnClose(c) PROVE CloseInv' /\ DataOutlivesHandle'
  BY <1>3 DEF OnClose, CloseInv, DataOutlivesHandle, TypeOK
<1>4. ASSUME NEW c \in Conns, OnCloseFreed(c) PROVE CloseInv' /\ DataOutlivesHandle'
  BY <1>4 DEF OnCloseFreed, CloseInv, DataOutlivesHandle, TypeOK
<1>5. ASSUME NEW c \in Conns, SocketTakes(c) PROVE CloseInv' /\ DataOutlivesHandle'
  BY <1>5 DEF SocketTakes, CloseInv, DataOutlivesHandle, TypeOK
<1>6. ASSUME NEW c \in Conns, OnWriteComplete(c) PROVE CloseInv' /\ DataOutlivesHandle'
  <2>1. /\ handle[c] \in {"open", "closing"}
        /\ Close(c) \/ UNCHANGED conn
        /\ \A d \in Conns : d # c =>
             /\ writes'[d] = writes[d] /\ done'[d] = done[d] /\ wire'[d] = wire[d]
             /\ output'[d] = output[d] /\ produced'[d] = produced[d]
    BY <1>6 DEF OnWriteComplete, TypeOK
  <2>2. CASE Close(c)
    <3>1. /\ handle' = [handle EXCEPT ![c] = "closing"] /\ connections' = connections
          /\ closing'[c] /\ \A d \in Conns : d # c => closing'[d] = closing[d]
      BY <2>1, <2>2, CloseEffect
    <3> QED
      BY <2>1, <3>1 DEF CloseInv, DataOutlivesHandle, TypeOK
  <2>3. CASE UNCHANGED conn
    BY <2>1, <2>3 DEF CloseInv, DataOutlivesHandle
  <2> QED
    BY <2>1, <2>2, <2>3
<1>7. ASSUME NEW c \in Conns, OnWriteFails(c) PROVE CloseInv' /\ DataOutlivesHandle'
  <2>1. /\ handle[c] \in {"open", "closing"}
        /\ Close(c) \/ UNCHANGED conn
        /\ \A d \in Conns : d # c =>
             /\ writes'[d] = writes[d] /\ done'[d] = done[d] /\ wire'[d] = wire[d]
             /\ output'[d] = output[d] /\ produced'[d] = produced[d]
    BY <1>7 DEF OnWriteFails, TypeOK
  <2>2. CASE Close(c)
    <3>1. /\ handle' = [handle EXCEPT ![c] = "closing"] /\ connections' = connections
          /\ closing'[c] /\ \A d \in Conns : d # c => closing'[d] = closing[d]
      BY <2>1, <2>2, CloseEffect
    <3> QED
      BY <2>1, <3>1 DEF CloseInv, DataOutlivesHandle, TypeOK
  <2>3. CASE UNCHANGED conn
    BY <2>1, <2>3 DEF CloseInv, DataOutlivesHandle
  <2> QED
    BY <2>1, <2>2, <2>3
<1>8. ASSUME NEW c \in Conns, OnNewConnection(c) PROVE CloseInv' /\ DataOutlivesHandle'
  BY <1>8, AnswerType DEF OnNewConnection, process_output, CloseInv, DataOutlivesHandle, TypeOK
<1>9. ASSUME NEW c \in Conns, OnNewConnectionFails(c) PROVE CloseInv' /\ DataOutlivesHandle'
  BY <1>9 DEF OnNewConnectionFails, CloseInv, DataOutlivesHandle, TypeOK
<1>10. ASSUME NEW c \in Conns, OnRead(c) PROVE CloseInv' /\ DataOutlivesHandle'
  BY <1>10, AnswerType DEF OnRead, process_output, CloseInv, DataOutlivesHandle, TypeOK
<1>11. ASSUME NEW c \in Conns, OnReadMismatch(c) PROVE CloseInv' /\ DataOutlivesHandle'
  <2>1. /\ handle[c] \in {"open", "closing"}
        /\ Close(c) \/ UNCHANGED conn
        /\ \A d \in Conns : d # c =>
             /\ writes'[d] = writes[d] /\ done'[d] = done[d] /\ wire'[d] = wire[d]
             /\ output'[d] = output[d] /\ produced'[d] = produced[d]
    BY <1>11 DEF OnReadMismatch, TypeOK
  <2>2. CASE Close(c)
    <3>1. /\ handle' = [handle EXCEPT ![c] = "closing"] /\ connections' = connections
          /\ closing'[c] /\ \A d \in Conns : d # c => closing'[d] = closing[d]
      BY <2>1, <2>2, CloseEffect
    <3> QED
      BY <2>1, <3>1 DEF CloseInv, DataOutlivesHandle, TypeOK
  <2>3. CASE UNCHANGED conn
    BY <2>1, <2>3 DEF CloseInv, DataOutlivesHandle
  <2> QED
    BY <2>1, <2>2, <2>3
<1>12. ASSUME NEW c \in Conns, OnReadEnd(c) PROVE CloseInv' /\ DataOutlivesHandle'
  <2>1. /\ handle[c] \in {"open", "closing"}
        /\ Close(c) \/ UNCHANGED conn
        /\ \A d \in Conns : d # c =>
             /\ writes'[d] = writes[d] /\ done'[d] = done[d] /\ wire'[d] = wire[d]
             /\ output'[d] = output[d] /\ produced'[d] = produced[d]
    BY <1>12 DEF OnReadEnd, TypeOK
  <2>2. CASE Close(c)
    <3>1. /\ handle' = [handle EXCEPT ![c] = "closing"] /\ connections' = connections
          /\ closing'[c] /\ \A d \in Conns : d # c => closing'[d] = closing[d]
      BY <2>1, <2>2, CloseEffect
    <3> QED
      BY <2>1, <3>1 DEF CloseInv, DataOutlivesHandle, TypeOK
  <2>3. CASE UNCHANGED conn
    BY <2>1, <2>3 DEF CloseInv, DataOutlivesHandle
  <2> QED
    BY <2>1, <2>2, <2>3
<1> QED
  BY <1>1, <1>2, <1>3, <1>4, <1>5, <1>6, <1>7, <1>8, <1>9, <1>10, <1>11, <1>12
     DEF Next, Owner, Loop, Socket, Peer

(* Only the handle of a failed accept can end the program.                 *)
LEMMA OnceStep ==
  ASSUME TypeOK, CloseInv, DataOutlivesHandle, ClosedOnce, [Next]_vars
  PROVE  ClosedOnce'
<1> USE DEF owner, queue, listen, runner, socket, conn
<1>1. CASE UNCHANGED vars
  BY <1>1 DEF vars, ClosedOnce
<1>2. ASSUME NEW c \in Conns, OnCloseFreed(c) PROVE ClosedOnce'
  <2>1. handle'[c] = "closed" /\ ~closing'[c]
    BY <1>2 DEF OnCloseFreed, CloseInv, TypeOK
  <2> QED
    BY <2>1 DEF ClosedOnce
<1>3. CASE WorkStop
  <2>1. CloseAll(connections) /\ ~aborted
    BY <1>3 DEF WorkStop, Pop
  <2>2. aborted' = aborted
    BY <2>1, CloseAllEffect
  <2> QED
    BY <2>1, <2>2 DEF ClosedOnce
<1>4. ASSUME NEW c \in Conns,
             OnWriteComplete(c) \/ OnWriteFails(c) \/ OnReadMismatch(c) \/ OnReadEnd(c)
      PROVE  ClosedOnce'
  <2>1. /\ ~aborted /\ handle[c] \in {"open", "closing"}
        /\ Close(c) \/ aborted' = aborted
    BY <1>4 DEF OnWriteComplete, OnWriteFails, OnReadMismatch, OnReadEnd
  <2>2. aborted' = aborted
    BY <2>1, CloseEffect
  <2> QED
    BY <2>1, <2>2 DEF ClosedOnce
<1>5. CASE \/ Start \/ StopPushes \/ Owner \/ WorkBind \/ WorkShutdown \/ ShutdownClose
           \/ OnServerClose
  <2>1. ~aborted /\ aborted' = aborted
    BY <1>5 DEF Start, StopPushes, Owner, StopReturns, ShutdownPushes, ShutdownReturns,
                WorkBind, WorkShutdown, ShutdownClose, OnServerClose, Pop
  <2> QED
    BY <2>1 DEF ClosedOnce
<1>6. ASSUME NEW c \in Conns,
             \/ OnClose(c) \/ SocketTakes(c) \/ OnNewConnection(c) \/ OnNewConnectionFails(c)
             \/ OnRead(c)
      PROVE  ClosedOnce'
  <2>1. ~aborted /\ aborted' = aborted
    BY <1>6 DEF OnClose, SocketTakes, OnNewConnection, OnNewConnectionFails, OnRead
  <2> QED
    BY <2>1 DEF ClosedOnce
<1> QED
  BY <1>1, <1>2, <1>3, <1>4, <1>5, <1>6 DEF Next, Owner, Loop, Socket, Peer

(* What the output passes through are sequences of numbers.                *)
LEMMA OutputTyped ==
  ASSUME TypeOK, NEW c \in Conns
  PROVE  /\ wire[c] \in Seq(Nat) /\ output[c] \in Seq(Nat) /\ writes[c] \in Seq(Nat)
         /\ done[c] \in 0..Len(writes[c]) /\ produced[c] \in Nat
         /\ NotTaken(writes[c], done[c]) \in Seq(Nat)
<1>1. 1..MaxOutput \subseteq Nat
  BY MaxOutputAssumption
<1>2. /\ wire[c] \in Seq(1..MaxOutput) /\ output[c] \in Seq(1..MaxOutput)
      /\ writes[c] \in Seq(1..MaxOutput) /\ done[c] \in Nat /\ done[c] <= Len(writes[c])
      /\ produced[c] \in Nat
  BY MaxOutputAssumption DEF TypeOK
<1>3. wire[c] \in Seq(Nat) /\ output[c] \in Seq(Nat) /\ writes[c] \in Seq(Nat)
  BY <1>1, <1>2, SeqMonotonic
<1>4. done[c] \in 0..Len(writes[c])
  BY <1>2, <1>3
<1>5. NotTaken(writes[c], done[c]) \in Seq(Nat)
  BY <1>3, <1>4, NotTakenProperties
<1> QED
  BY <1>2, <1>3, <1>4, <1>5

(* What OutputIntact says of an open connection.                           *)
Intact(c) == wire[c] \o NotTaken(writes[c], done[c]) \o output[c] = Written(produced[c])

(* on_new_connection and on_read: what the runner sends comes last.        *)
LEMMA AnswerKeepsIntact ==
  ASSUME TypeOK, NEW c \in Conns, Intact(c), NEW answers, NEW out, out = Answer(c, answers),
         process_output(c, out), produced' = Counted(c, out), UNCHANGED <<done, wire>>
  PROVE  Intact(c)'
<1> DEFINE under == NotTaken(writes[c], done[c])
           sent == wire[c] \o under
<1>1. /\ wire[c] \in Seq(Nat) /\ output[c] \in Seq(Nat) /\ writes[c] \in Seq(Nat)
      /\ done[c] \in 0..Len(writes[c]) /\ produced[c] \in Nat /\ under \in Seq(Nat)
  BY OutputTyped
<1>2. \/ out = output[c] /\ produced'[c] = produced[c]
      \/ out = Append(output[c], produced[c] + 1) /\ produced'[c] = produced[c] + 1
  BY AnswerType
<1>3. out \in Seq(Nat)
  <2>1. Append(output[c], produced[c] + 1) \in Seq(Nat)
    BY <1>1, AppendProperties
  <2> QED
    BY <1>1, <1>2, <2>1
<1>4. NotTaken(writes[c] \o out, done[c]) = under \o out
  BY <1>1, <1>3, NotTakenConcat
<1>5. /\ writes'[c] = writes[c] \o out /\ output'[c] = <<>>
      /\ done'[c] = done[c] /\ wire'[c] = wire[c]
  BY DEF process_output, TypeOK
<1>6. sent \in Seq(Nat)
  BY <1>1, ConcatProperties
<1>7. sent \o output[c] = Written(produced[c])
  BY DEF Intact
<1> HIDE DEF under, sent
<1>8. sent \o out = Written(produced'[c])
  <2>1. CASE out = output[c] /\ produced'[c] = produced[c]
    BY <1>7, <2>1
  <2>2. CASE out = Append(output[c], produced[c] + 1) /\ produced'[c] = produced[c] + 1
    <3>1. sent \o Append(output[c], produced[c] + 1) = Written(produced[c] + 1)
      BY <1>1, <1>6, <1>7, NextWritten
    <3> QED
      BY <2>2, <3>1
  <2> QED
    BY <1>2, <2>1, <2>2
<1>9. (wire[c] \o (under \o out)) \o <<>> = sent \o out
  <2>1. under \o out \in Seq(Nat) /\ wire[c] \o (under \o out) = sent \o out
    <3>1. under \o out \in Seq(Nat)
      BY <1>1, <1>3, ConcatProperties
    <3>2. (wire[c] \o under) \o out = wire[c] \o (under \o out)
      <4> DEFINE w == wire[c]
      <4>1. w \in Seq(Nat) /\ under \in Seq(Nat) /\ out \in Seq(Nat)
        BY <1>1, <1>3
      <4> HIDE DEF w
      <4>2. (w \o under) \o out = w \o (under \o out)
        BY <4>1, Regroup
      <4> QED
        BY <4>2 DEF w
    <3> QED
      BY <3>1, <3>2 DEF sent
  <2>2. sent \o out \in Seq(Nat)
    BY <1>3, <1>6, ConcatProperties
  <2> QED
    BY <2>1, <2>2, ConcatEmptySeq
<1>10. wire'[c] \o NotTaken(writes'[c], done'[c]) \o output'[c] = Written(produced'[c])
  BY <1>4, <1>5, <1>8, <1>9
<1> QED
  BY <1>10 DEF Intact

(* The socket takes the next message.                                      *)
LEMMA TakeKeepsIntact ==
  ASSUME TypeOK, NEW c \in Conns, Intact(c), SocketTakes(c)
  PROVE  Intact(c)'
<1> DEFINE w == wire[c]
           q == writes[c]
           d == done[c]
           x == q[d + 1]
           rest == NotTaken(q, d + 1)
<1>1. /\ w \in Seq(Nat) /\ q \in Seq(Nat) /\ d \in 0..Len(q) /\ output[c] \in Seq(Nat)
  BY OutputTyped
<1>2. /\ d < Len(q) /\ wire'[c] = Append(w, x) /\ done'[c] = d + 1
      /\ writes'[c] = q /\ output'[c] = output[c] /\ produced'[c] = produced[c]
  BY DEF SocketTakes, TypeOK, runner
<1> HIDE DEF w, q, d
<1>3. x \in Nat /\ d + 1 \in 0..Len(q)
  BY <1>1, <1>2
<1>4. NotTaken(q, d) = <<x>> \o rest
  BY <1>1, <1>2, NotTakenNext
<1>5. rest \in Seq(Nat)
  <2> DEFINE e == d + 1
  <2>1. e \in 0..Len(q)
    BY <1>3
  <2> HIDE DEF e
  <2>2. NotTaken(q, e) \in Seq(Nat)
    BY <1>1, <2>1, NotTakenProperties
  <2> QED
    BY <2>2 DEF e
<1> HIDE DEF x, rest
<1>6. Append(w, x) \o rest = w \o (<<x>> \o rest)
  BY <1>1, <1>3, <1>5, MoveFront
<1>7. wire'[c] \o NotTaken(writes'[c], done'[c]) = wire[c] \o NotTaken(writes[c], done[c])
  BY <1>2, <1>4, <1>6 DEF w, q, d, rest
<1>8. wire'[c] \o NotTaken(writes'[c], done'[c]) \o output'[c] = Written(produced'[c])
  BY <1>2, <1>7 DEF Intact
<1> QED
  BY <1>8 DEF Intact

(* on_write_complete, while the connection is not closed: when it was the  *)
(* last pending write, process_output comes again.                         *)
LEMMA CompleteKeepsIntact ==
  ASSUME TypeOK, NEW c \in Conns, Intact(c), OnWriteComplete(c), handle'[c] = "open",
         CloseInv, DataOutlivesHandle
  PROVE  Intact(c)'
<1> DEFINE w == wire[c]
           q == writes[c]
           d == done[c]
           remaining == Tail(q)
<1>1. /\ w \in Seq(Nat) /\ q \in Seq(Nat) /\ d \in 0..Len(q) /\ output[c] \in Seq(Nat)
      /\ d > 0
  BY OutputTyped DEF OnWriteComplete
<1>2. ~Close(c)
  <2>1. Close(c) => handle'[c] = "closing"
    BY CloseEffect DEF OnWriteComplete, TypeOK
  <2> QED
    BY <2>1
<1>3. /\ wire'[c] = w /\ done'[c] = d - 1 /\ produced'[c] = produced[c]
      /\ writes'[c] = IF remaining = <<>> THEN output[c] ELSE remaining
      /\ output'[c] = IF remaining = <<>> THEN <<>> ELSE output[c]
  BY <1>2 DEF OnWriteComplete, TypeOK
<1> HIDE DEF w, q, d
<1>4. NotTaken(remaining, d - 1) = NotTaken(q, d)
  BY <1>1, NotTakenTail
<1>5. q # <<>> /\ remaining \in Seq(Nat) /\ Len(remaining) = Len(q) - 1 /\ Len(q) \in Nat
  <2>1. q # <<>> /\ Len(q) \in Nat
    BY <1>1
  <2> QED
    BY <1>1, <2>1, HeadTailProperties
<1> DEFINE now == (wire'[c] \o NotTaken(writes'[c], done'[c])) \o output'[c]
<1>6. CASE remaining # <<>>
  <2>1. now = (w \o NotTaken(q, d)) \o output[c]
    BY <1>3, <1>4, <1>6
  <2> QED
    BY <1>3, <2>1 DEF Intact, w, q, d
<1> HIDE DEF remaining
<1>7. CASE remaining = <<>>
  <2>1. Len(remaining) = 0
    BY <1>5, <1>7, EmptySeq
  <2>2. Len(q) = 1 /\ d = 1
    <3>1. Len(q) = 1
      BY <1>5, <2>1
    <3> QED
      BY <1>1, <3>1
  <2>3. NotTaken(q, d) = <<>>
    <3>1. NotTaken(q, Len(q)) = <<>>
      BY <1>1, NotTakenEnds
    <3> QED
      BY <2>2, <3>1
  <2>4. /\ NotTaken(writes'[c], done'[c]) = output[c] /\ output'[c] = <<>>
    <3> DEFINE o == output[c]
    <3>1. o \in Seq(Nat) /\ writes'[c] = o /\ done'[c] = 0
      BY <1>1, <1>3, <1>7, <2>2
    <3> HIDE DEF o
    <3>2. NotTaken(o, 0) = o
      BY <3>1, NotTakenEnds
    <3> QED
      BY <1>3, <1>7, <3>1, <3>2 DEF o
  <2>5. (w \o output[c]) \o <<>> = (w \o <<>>) \o output[c]
    <3> DEFINE o == output[c]
    <3>1. o \in Seq(Nat) /\ w \in Seq(Nat)
      BY <1>1
    <3> HIDE DEF o
    <3>2. w \o o \in Seq(Nat) /\ w \o <<>> = w
      BY <3>1, ConcatProperties, ConcatEmptySeq
    <3>3. (w \o o) \o <<>> = w \o o
      BY <3>2, ConcatEmptySeq
    <3> QED
      BY <3>2, <3>3 DEF o
  <2>6. now = (w \o NotTaken(q, d)) \o output[c]
    BY <1>3, <2>3, <2>4, <2>5
  <2> QED
    BY <1>3, <2>6 DEF Intact, w, q, d
<1> QED
  BY <1>6, <1>7

(* Each step moves messages from one place to the next, or closes a        *)
(* connection.                                                             *)
LEMMA OutputStep ==
  ASSUME TypeOK, TypeOK', CloseInv, DataOutlivesHandle, OutputIntact, [Next]_vars
  PROVE  OutputIntact'
<1> USE DEF owner, queue, listen, runner, socket, conn
<1> DEFINE Part(d) == IsPrefix(wire[d], Written(produced[d]))
<1>a. ASSUME NEW d \in Conns, wire'[d] = wire[d], produced'[d] = produced[d]
      PROVE  Part(d)'
  BY <1>a DEF OutputIntact
<1>b. ASSUME NEW d \in Conns,
             /\ wire'[d] = wire[d] /\ produced'[d] = produced[d] /\ writes'[d] = writes[d]
             /\ done'[d] = done[d] /\ output'[d] = output[d],
             handle'[d] = "open" => handle[d] = "open"
      PROVE  (handle'[d] = "open" => Intact(d)') /\ Part(d)'
  BY <1>a, <1>b DEF OutputIntact, Intact
<1>c. ASSUME NEW d \in Conns, Intact(d)' PROVE Part(d)'
  <2> DEFINE w == wire'[d]
             r == NotTaken(writes'[d], done'[d])
             s == output'[d]
             n == produced'[d]
  <2>1. /\ 1..MaxOutput \subseteq Nat
        /\ w \in Seq(1..MaxOutput) /\ s \in Seq(1..MaxOutput) /\ n \in Nat
        /\ writes'[d] \in Seq(1..MaxOutput) /\ done'[d] \in Nat /\ done'[d] <= Len(writes'[d])
    BY MaxOutputAssumption DEF TypeOK
  <2>2. w \in Seq(Nat) /\ s \in Seq(Nat) /\ writes'[d] \in Seq(Nat)
    BY <2>1, SeqMonotonic
  <2>3. r \in Seq(Nat)
    <3> DEFINE q == writes'[d]
               e == done'[d]
    <3>1. q \in Seq(Nat) /\ e \in 0..Len(q)
      BY <2>1, <2>2
    <3> HIDE DEF q, e
    <3>2. NotTaken(q, e) \in Seq(Nat)
      BY <3>1, NotTakenProperties
    <3> QED
      BY <3>2 DEF q, e
  <2>4. (w \o r) \o s = Written(n)
    BY <1>c DEF Intact
  <2> HIDE DEF w, r, s, n
  <2>5. IsPrefix(w, Written(n))
    BY <2>1, <2>2, <2>3, <2>4, PrefixOfWritten
  <2> QED
    BY <2>5 DEF w, n
<1> HIDE DEF Part
<1>d. ASSUME \A d \in Conns : (handle'[d] = "open" => Intact(d)') /\ Part(d)'
      PROVE  OutputIntact'
  BY <1>d DEF OutputIntact, Intact, Part
<1>1. CASE \/ Start \/ StopPushes \/ Owner \/ WorkBind \/ WorkShutdown \/ ShutdownClose
           \/ OnServerClose \/ UNCHANGED vars
  <2>1. UNCHANGED <<runner, socket, conn>>
    BY <1>1 DEF Start, StopPushes, Owner, StopReturns, ShutdownPushes, ShutdownReturns,
                WorkBind, WorkShutdown, ShutdownClose, OnServerClose, vars
  <2> QED
    BY <1>b, <1>d, <2>1
<1>2. CASE WorkStop
  <2>1. CloseAll(connections) /\ UNCHANGED <<runner, socket>>
    BY <1>2 DEF WorkStop
  <2>2. \A d \in Conns : handle'[d] = IF d \in connections /\ handle[d] = "open"
                                        THEN "closing" ELSE handle[d]
    BY <2>1, CloseAllEffect
  <2> QED
    BY <1>b, <1>d, <2>1, <2>2
(* A connection is closed, or will never be open.                          *)
<1>3. ASSUME NEW c \in Conns,
             \/ OnClose(c) \/ OnCloseFreed(c) \/ OnNewConnectionFails(c) \/ OnReadMismatch(c)
             \/ OnReadEnd(c) \/ OnWriteFails(c)
      PROVE  OutputIntact'
  <2>1. PICK h \in {"closed", "freed", "closing"} : handle' = [handle EXCEPT ![c] = h]
    <3>1. CASE OnReadMismatch(c) \/ OnReadEnd(c) \/ OnWriteFails(c)
      <4>1. handle[c] \in {"open", "closing"} /\ Close(c)
        BY <3>1 DEF OnReadMismatch, OnReadEnd, OnWriteFails
      <4> QED
        BY <4>1, CloseEffect
    <3>2. CASE OnClose(c) \/ OnCloseFreed(c) \/ OnNewConnectionFails(c)
      BY <3>2 DEF OnClose, OnCloseFreed, OnNewConnectionFails
    <3> QED
      BY <1>3, <3>1, <3>2
  <2>2. /\ UNCHANGED <<wire, produced, done, output>>
        /\ \A d \in Conns : d # c => writes'[d] = writes[d]
    BY <1>3 DEF OnClose, OnCloseFreed, OnNewConnectionFails, OnReadMismatch, OnReadEnd,
                OnWriteFails, TypeOK
  <2>3. /\ handle'[c] # "open"
        /\ \A d \in Conns : d # c => handle'[d] = handle[d]
    BY <2>1 DEF TypeOK
  <2>4. Part(c)'
    BY <1>a, <2>2
  <2>5. \A d \in Conns : d # c => (handle'[d] = "open" => Intact(d)') /\ Part(d)'
    BY <1>b, <2>2, <2>3
  <2> QED
    BY <1>d, <2>3, <2>4, <2>5
(* The output of an open connection moves on, or grows.                    *)
<1>4. ASSUME NEW c \in Conns,
             \/ SocketTakes(c) \/ OnWriteComplete(c) \/ OnNewConnection(c) \/ OnRead(c)
      PROVE  OutputIntact'
  <2>1. \A d \in Conns : d # c => (handle'[d] = "open" => Intact(d)') /\ Part(d)'
    <3> SUFFICES ASSUME NEW d \in Conns, d # c
                 PROVE  (handle'[d] = "open" => Intact(d)') /\ Part(d)'
      OBVIOUS
    <3>1. CASE SocketTakes(c)
      BY <1>b, <3>1 DEF SocketTakes, TypeOK
    <3>2. CASE OnWriteComplete(c)
      <4>1. /\ wire'[d] = wire[d] /\ produced'[d] = produced[d] /\ writes'[d] = writes[d]
            /\ done'[d] = done[d] /\ output'[d] = output[d]
        BY <3>2 DEF OnWriteComplete, TypeOK
      <4>2. handle'[d] = handle[d]
        <5>1. handle[c] \in {"open", "closing"} /\ (Close(c) \/ UNCHANGED conn)
          BY <3>2 DEF OnWriteComplete
        <5>2. CASE Close(c)
          <6>1. handle' = [handle EXCEPT ![c] = "closing"]
            BY <5>1, <5>2, CloseEffect
          <6> QED
            BY <6>1 DEF TypeOK
        <5> QED
          BY <5>1, <5>2
      <4> QED
        BY <1>b, <4>1, <4>2
    <3>3. CASE OnNewConnection(c) \/ OnRead(c)
      <4>1. /\ wire' = wire /\ done' = done
            /\ writes'[d] = writes[d] /\ output'[d] = output[d] /\ handle'[d] = handle[d]
        BY <3>3 DEF OnNewConnection, OnRead, process_output, TypeOK
      <4>2. PICK answers : produced' = Counted(c, Answer(c, answers))
        BY <3>3 DEF OnNewConnection, OnRead
      <4>3. produced'[d] = produced[d]
        BY <4>2, AnswerType
      <4> QED
        BY <1>b, <4>1, <4>3
    <3> QED
      BY <1>4, <3>1, <3>2, <3>3
  <2>2. (handle'[c] = "open" => Intact(c)') /\ Part(c)'
    <3>1. CASE SocketTakes(c)
      <4>1. handle[c] = "open"
        BY <3>1 DEF SocketTakes
      <4>2. Intact(c)
        BY <4>1 DEF OutputIntact, Intact
      <4> QED
        BY <1>c, <3>1, <4>2, TakeKeepsIntact
    <3>2. CASE OnWriteComplete(c)
      <4>1. wire'[c] = wire[c] /\ produced'[c] = produced[c]
        BY <3>2 DEF OnWriteComplete
      <4>2. ASSUME handle'[c] = "open" PROVE Intact(c)'
        <5>1. handle[c] = "open"
          <6>1. handle[c] \in {"open", "closing"} /\ (Close(c) \/ UNCHANGED conn)
            BY <3>2 DEF OnWriteComplete
          <6>2. CASE Close(c)
            BY <4>2, <6>1, <6>2, CloseEffect DEF TypeOK
          <6> QED
            BY <4>2, <6>1, <6>2
        <5>2. Intact(c)
          BY <5>1 DEF OutputIntact, Intact
        <5> QED
          BY <3>2, <4>2, <5>2, CompleteKeepsIntact
      <4> QED
        BY <1>a, <4>1, <4>2
    <3>3. CASE OnNewConnection(c) \/ OnRead(c)
      <4>1. Intact(c)
        <5>1. CASE OnRead(c)
          BY <5>1 DEF OnRead, OutputIntact, Intact
        <5>2. CASE OnNewConnection(c)
          <6>1. /\ writes[c] = <<>> /\ done[c] = 0 /\ wire[c] = <<>>
                /\ output[c] = <<>> /\ produced[c] = 0
            BY <5>2 DEF OnNewConnection, CloseInv
          <6>2. NotTaken(<<>>, 0) = <<>>
            <7> DEFINE e == <<>>
            <7>1. e \in Seq(Nat)
              OBVIOUS
            <7> HIDE DEF e
            <7>2. NotTaken(e, 0) = e
              BY <7>1, NotTakenEnds
            <7> QED
              BY <7>2 DEF e
          <6>3. (<<>> \o <<>>) \o <<>> = Written(0)
            BY DEF Written
          <6> QED
            BY <6>1, <6>2, <6>3 DEF Intact
        <5> QED
          BY <3>3, <5>1, <5>2
      <4>2. PICK answers : LET out == Answer(c, answers)
                           IN  process_output(c, out) /\ produced' = Counted(c, out)
        BY <3>3 DEF OnNewConnection, OnRead
      <4>3. UNCHANGED <<done, wire>>
        BY <3>3 DEF OnNewConnection, OnRead
      <4>4. Intact(c)'
        BY <4>1, <4>2, <4>3, AnswerKeepsIntact
      <4> QED
        BY <1>c, <4>4
    <3> QED
      BY <1>4, <3>1, <3>2, <3>3
  <2> QED
    BY <1>d, <2>1, <2>2
<1> QED
  BY <1>1, <1>2, <1>3, <1>4 DEF Next, Owner, Loop, Socket, Peer

-----------------------------------------------------------------------------
(* IInv is inductive.                                                      *)
LEMMA NextInv == IInv /\ [Next]_vars => IInv'
<1> SUFFICES ASSUME IInv, [Next]_vars PROVE IInv'
  OBVIOUS
<1>1. TypeOK /\ CloseInv /\ DataOutlivesHandle /\ OutputIntact /\ ClosedOnce
  BY DEF IInv
<1>2. TypeOK'
  BY <1>1, TypeStep
<1>3. CloseInv' /\ DataOutlivesHandle' /\ ClosedOnce'
  BY <1>1, CloseStep, OnceStep
<1>4. OutputIntact'
  BY <1>1, <1>2, OutputStep
<1> QED
  BY <1>2, <1>3, <1>4 DEF IInv

(* The invariant holds in every state of the server.                       *)
THEOREM Invariant == Spec => []IInv
  BY InitInv, NextInv, PTL DEF Spec

(* Every variable of the server keeps its type, and no more writes of a    *)
(* connection are done than are under way (generatedserverwrapper.cpp).    *)
THEOREM TypeCorrect == Spec => []TypeOK
<1>1. IInv => TypeOK
  BY DEF IInv
<1> QED
  BY <1>1, Invariant, PTL

(* process_output and on_write_complete: however reads, writes, failures   *)
(* and stop() interleave, an open connection has each message of its       *)
(* runner once and in order, and every connection's wire has the first of  *)
(* them.                                                                   *)
THEOREM OutputStaysIntact == Spec => []OutputIntact
<1>1. IInv => OutputIntact
  BY DEF IInv
<1> QED
  BY <1>1, Invariant, PTL

(* The map has a ConnectionData exactly as long as libuv may call back for *)
(* its handle.                                                             *)
THEOREM DataLivesLongEnough == Spec => []DataOutlivesHandle
<1>1. IInv => DataOutlivesHandle
  BY DEF IInv
<1> QED
  BY <1>1, Invariant, PTL

(* uv_close is called once for a connection, whoever wants to close it:    *)
(* if the program ends, a handle of a failed accept was closed.            *)
THEOREM CloseIsCalledOnce == Spec => []ClosedOnce
<1>1. IInv => ClosedOnce
  BY DEF IInv
<1> QED
  BY <1>1, Invariant, PTL
=============================================================================
