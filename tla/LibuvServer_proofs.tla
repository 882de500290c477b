------------------------- MODULE LibuvServer_proofs -------------------------
(***************************************************************************)
(* What LibuvServerRunner promises, for every set of connections and every *)
(* amount of output: the output of a running interpreter stays in order,   *)
(* and nobody reaches an interpreter whose connection was closed. IInv of  *)
(* module LibuvServer is inductive; each of its parts has a lemma for the  *)
(* steps of Next.                                                          *)
(***************************************************************************)
EXTENDS LibuvServer, WorkQueue_proofs

(* process() pops an item of the queue.                                    *)
LEMMA PopEffect ==
  ASSUME TypeOK, NEW kind, Pop(kind)
  PROVE  /\ lpc = "process"
         /\ Head(work) \in Items /\ Head(work).kind = kind /\ Head(work) = work[1]
         /\ work' = Tail(work) /\ work' \in Seq(Items)
         /\ kind \in {"write", "close"} => Head(work).conn \in Conns /\ Head(work).data \in Nat
         /\ kind \in {"bind", "close_server"} => Head(work).conn = NoConn
         /\ 1 \in 1..Len(work)
         /\ \A k \in 1..Len(work') : k + 1 \in 1..Len(work) /\ work'[k] = work[k+1]
<1>1. work \in Seq(Items) /\ work # <<>>
  BY DEF Pop, TypeOK
<1>2. Head(work) \in Items /\ Head(work) = work[1] /\ Tail(work) \in Seq(Items)
  BY <1>1
<1>3. /\ 1 \in 1..Len(work)
      /\ \A k \in 1..Len(Tail(work)) : k + 1 \in 1..Len(work) /\ Tail(work)[k] = work[k+1]
  BY <1>1
<1> QED
  BY <1>2, <1>3 DEF Pop, Items

(* push_work: the item comes last.                                         *)
LEMMA PushEffect ==
  ASSUME TypeOK, NEW item \in Items, work' = Append(work, item)
  PROVE  /\ work' \in Seq(Items)
         /\ \A k \in 1..Len(work') :
              work'[k] = item \/ (k \in 1..Len(work) /\ work'[k] = work[k])
<1>1. work \in Seq(Items) /\ Len(work) \in Nat
  BY DEF TypeOK
<1>2. /\ Append(work, item) \in Seq(Items)
      /\ \A k \in 1..Len(Append(work, item)) :
           Append(work, item)[k] = item
             \/ (k \in 1..Len(work) /\ Append(work, item)[k] = work[k])
  BY <1>1
<1> QED
  BY <1>2

(* The steps that leave the connections, their output and the collection   *)
(* alone: the ones in which the pusher looks round, and the others.        *)
PusherLooks ==
  \/ PusherSnapshot \/ (\E c \in Conns : PusherVisits(c)) \/ PusherDrained
  \/ PusherEnds \/ PusherCompares \/ PusherLoadsExit \/ PusherWaits
Quiet ==
  \/ LoopAsync \/ LoopProcessed \/ OnCloseServer
  \/ \E c \in Conns : OnEof(c) \/ InterpreterExits(c)
  \/ RunnerStops \/ StopAcceptingSets \/ StopAcceptingNotifies \/ StopSetsExit
  \/ StopJoins \/ StopReturns \/ UNCHANGED vars

(* What those steps leave alone; and an interpreter that exited stays so.  *)
LEMMA QuietEffect ==
  ASSUME TypeOK
  PROVE  /\ PusherLooks \/ Quiet =>
              /\ UNCHANGED <<conn, close_sent, wire, work, output_buffer, produced, members>>
              /\ \A c \in Conns : exited[c] => exited'[c]
         /\ Quiet => UNCHANGED <<ppc, ptodo, pcur>>
<1> USE DEF handles, interpreters, pusher, stopping
<1>1. ASSUME PusherLooks
      PROVE  /\ UNCHANGED <<conn, close_sent, wire, work, output_buffer, produced, members>>
             /\ UNCHANGED exited
  BY <1>1 DEF PusherSnapshot, PusherVisits, PusherDrained, PusherEnds, PusherCompares,
              PusherLoadsExit, PusherWaits, PusherLooks
<1>2. ASSUME Quiet
      PROVE  /\ UNCHANGED <<conn, close_sent, wire, work, output_buffer, produced, members>>
             /\ UNCHANGED <<ppc, ptodo, pcur>>
             /\ \A c \in Conns : exited[c] => exited'[c]
  BY <1>2 DEF LoopAsync, LoopProcessed, OnCloseServer, OnEof, InterpreterExits, RunnerStops,
              StopAcceptingSets, StopAcceptingNotifies, StopSetsExit, StopJoins, StopReturns,
              vars, TypeOK, Quiet
<1> QED
  BY <1>1, <1>2

(* Every step keeps the types.                                             *)
LEMMA TypeStep ==
  ASSUME TypeOK, MemberInv, [Next]_vars
  PROVE  TypeOK'
<1> USE DEF handles, interpreters, pusher, stopping, Aborted, PusherAt, StopAt, Running, Pop
<1>1. CASE LoopAsync
  BY <1>1 DEF LoopAsync, TypeOK
<1>2. CASE LoopProcessed
  BY <1>2 DEF LoopProcessed, TypeOK
<1>3. ASSUME NEW outcome \in {"failed", "bound", "listening"}, WorkBind(outcome)
      PROVE  TypeOK'
  BY <1>3 DEF WorkBind, TypeOK
<1>4. CASE WorkWrite
  <2> DEFINE d == Head(work).conn
  <2>1. work' \in Seq(Items) /\ d \in Conns /\ Head(work).data \in Nat
    BY <1>4, PopEffect DEF WorkWrite
  <2>2. wire' \in [Conns -> Seq(Nat)]
    BY <1>4, <2>1 DEF WorkWrite, TypeOK
  <2>3. lpc' \in {"poll", "process", "aborted"}
    BY <1>4 DEF WorkWrite
  <2> QED
    BY <1>4, <2>1, <2>2, <2>3 DEF WorkWrite, TypeOK
<1>5. CASE WorkClose
  <2> DEFINE d == Head(work).conn
  <2>1. work' \in Seq(Items) /\ d \in Conns
    BY <1>5, PopEffect DEF WorkClose
  <2>2. /\ conn' \in [Conns -> {"none", "open", "unlinked", "closing", "closed"}]
        /\ lpc' \in {"poll", "process", "aborted"}
    BY <1>5, <2>1 DEF WorkClose, TypeOK
  <2>3. reading' \in [Conns -> BOOLEAN]
    BY <1>5 DEF WorkClose, TypeOK
  <2> QED
    BY <1>5, <2>1, <2>2, <2>3 DEF WorkClose, TypeOK
<1>6. CASE WorkCloseServer
  BY <1>6 DEF WorkCloseServer, TypeOK
<1>7. CASE OnCloseServer
  BY <1>7 DEF OnCloseServer, TypeOK
<1>8. ASSUME NEW c \in Conns, OnClose(c) PROVE TypeOK'
  <2>1. wake_up_for_output' \in BOOLEAN
    BY <1>8 DEF OnClose, TypeOK
  <2>2. /\ conn' \in [Conns -> {"none", "open", "unlinked", "closing", "closed"}]
        /\ lpc' \in {"poll", "process", "aborted"}
    BY <1>8 DEF OnClose, TypeOK
  <2> QED
    BY <1>8, <2>1, <2>2 DEF OnClose, TypeOK
<1>9. ASSUME NEW c \in Conns, OnNewConnection(c) PROVE TypeOK'
  BY <1>9 DEF OnNewConnection, TypeOK
<1>10. ASSUME NEW c \in Conns, OnNewConnectionFails(c) PROVE TypeOK'
  BY <1>10 DEF OnNewConnectionFails, TypeOK
<1>11. ASSUME NEW c \in Conns, OnReadOrphan(c) PROVE TypeOK'
  BY <1>11 DEF OnReadOrphan, TypeOK
<1>12. ASSUME NEW c \in Conns, OnEof(c) PROVE TypeOK'
  BY <1>12 DEF OnEof, TypeOK
<1>13. CASE PusherSnapshot
  BY <1>13 DEF PusherSnapshot, TypeOK
<1>14. ASSUME NEW c \in Conns, PusherCloses(c) PROVE TypeOK'
  <2>1. /\ close_sent' \in [Conns -> BOOLEAN] /\ pending_close' \in BOOLEAN
        /\ any_exited' \in BOOLEAN /\ wake_up_for_output' \in BOOLEAN
    BY <1>14 DEF PusherCloses, TypeOK
  <2>2. members' \subseteq Conns /\ version' \in Nat /\ ptodo' \subseteq Conns
    BY <1>14 DEF PusherCloses, TypeOK
  <2>3. work' \in Seq(Items)
    <3>1. CASE close_sent[c]
      BY <1>14, <3>1 DEF PusherCloses, TypeOK
    <3>2. CASE ~close_sent[c]
      <4>1. work' = Append(work, Item("close", c, 0)) /\ Item("close", c, 0) \in Items
        BY <1>14, <3>2 DEF PusherCloses, Item, Items
      <4> QED
        BY <4>1, PushEffect
    <3> QED
      BY <3>1, <3>2
  <2> QED
    BY <1>14, <2>1, <2>2, <2>3 DEF PusherCloses, TypeOK
<1>15. ASSUME NEW c \in Conns, PusherVisits(c) PROVE TypeOK'
  BY <1>15 DEF PusherVisits, TypeOK
<1>16. CASE PusherDrains
  BY <1>16 DEF PusherDrains, Item, Items, MemberInv, TypeOK
<1>17. CASE PusherDrained
  BY <1>17 DEF PusherDrained, TypeOK
<1>18. CASE PusherEnds
  <2>1. server_stopped' \in BOOLEAN
    BY <1>18 DEF PusherEnds, TypeOK
  <2>2. ppc' \in {"top", "compare", "done"}
    BY <1>18 DEF PusherEnds
  <2>3. /\ active' \in BOOLEAN /\ blocked' \in BOOLEAN
        /\ pending_close' \in BOOLEAN /\ any_exited' \in BOOLEAN
    BY <1>18 DEF PusherEnds
  <2> QED
    BY <1>18, <2>1, <2>2, <2>3 DEF PusherEnds, TypeOK
<1>19. CASE PusherCompares
  BY <1>19 DEF PusherCompares, TypeOK
<1>20. CASE PusherLoadsExit
  BY <1>20 DEF PusherLoadsExit, TypeOK
<1>21. CASE PusherWaits
  <2>1. wake_up_for_output' \in BOOLEAN
    BY <1>21 DEF PusherWaits
  <2> QED
    BY <1>21, <2>1 DEF PusherWaits, TypeOK
<1>22. ASSUME NEW c \in Conns, InterpreterWrites(c) PROVE TypeOK'
  BY <1>22 DEF InterpreterWrites, TypeOK
<1>23. ASSUME NEW c \in Conns, InterpreterExits(c) PROVE TypeOK'
  BY <1>23 DEF InterpreterExits, TypeOK
<1>24. CASE RunnerStops
  BY <1>24 DEF RunnerStops, TypeOK
<1>25. CASE StopAcceptingSets
  BY <1>25 DEF StopAcceptingSets, TypeOK
<1>26. CASE StopAcceptingNotifies
  BY <1>26 DEF StopAcceptingNotifies, TypeOK
<1>27. CASE StopAcceptingReturns
  BY <1>27 DEF StopAcceptingReturns, Item, Items, TypeOK
<1>28. CASE StopSetsExit
  BY <1>28 DEF StopSetsExit, TypeOK
<1>29. CASE StopJoins
  BY <1>29 DEF StopJoins, TypeOK
<1>30. CASE StopReturns
  BY <1>30 DEF StopReturns, TypeOK
<1>31. CASE UNCHANGED vars
  BY <1>31 DEF vars, TypeOK
<1> QED
  BY <1>1, <1>2, <1>3, <1>4, <1>5, <1>6, <1>7, <1>8, <1>9, <1>10, <1>11, <1>12, <1>13, <1>14,
     <1>15, <1>16, <1>17, <1>18, <1>19, <1>20, <1>21, <1>22, <1>23, <1>24, <1>25, <1>26, <1>27,
     <1>28, <1>29, <1>30, <1>31
     DEF Next, LoopWork, LoopClose, Peers, Pusher, Interpreters, Stop

(* Who is in the collection, or in the pusher's snapshot, has an open       *)
(* connection: a connection is closed after its interpreter was removed.   *)
LEMMA MemberStep ==
  ASSUME TypeOK, MemberInv, FreshInv, [Next]_vars
  PROVE  MemberInv'
<1> USE DEF handles, interpreters, pusher, stopping, Aborted, PusherAt, StopAt, Running
<1>1. CASE Quiet
  BY <1>1, QuietEffect DEF MemberInv
<1>2. CASE PusherSnapshot
  BY <1>2 DEF PusherSnapshot, MemberInv
<1>3. ASSUME NEW c \in Conns, PusherVisits(c) PROVE MemberInv'
  BY <1>3 DEF PusherVisits, MemberInv
<1>4. CASE PusherDrained
  BY <1>4 DEF PusherDrained, MemberInv
<1>5. CASE PusherEnds \/ PusherCompares \/ PusherLoadsExit \/ PusherWaits
  BY <1>5 DEF PusherEnds, PusherCompares, PusherLoadsExit, PusherWaits, MemberInv
<1>6. ASSUME NEW outcome \in {"failed", "bound", "listening"}, WorkBind(outcome)
      PROVE  MemberInv'
  <2>1. \A k \in 1..Len(work') : k + 1 \in 1..Len(work) /\ work'[k] = work[k+1]
    BY <1>6, PopEffect DEF WorkBind
  <2> QED
    BY <1>6, <2>1 DEF WorkBind, MemberInv
<1>7. CASE WorkWrite
  <2>1. \A k \in 1..Len(work') : k + 1 \in 1..Len(work) /\ work'[k] = work[k+1]
    BY <1>7, PopEffect DEF WorkWrite
  <2> QED
    BY <1>7, <2>1 DEF WorkWrite, MemberInv
<1>8. CASE WorkClose
  <2> DEFINE d == Head(work).conn
  <2>1. /\ \A k \in 1..Len(work') : k + 1 \in 1..Len(work) /\ work'[k] = work[k+1]
        /\ d \in Conns /\ 1 \in 1..Len(work) /\ Head(work) = work[1]
        /\ Head(work).kind = "close"
    BY <1>8, PopEffect DEF WorkClose
  <2>2. d \notin members
    BY <2>1 DEF MemberInv
  <2>3. \A e \in Conns : e # d => conn'[e] = conn[e]
    BY <1>8, <2>1 DEF WorkClose, TypeOK
  <2>4. UNCHANGED <<close_sent, members, ppc, ptodo, pcur>>
    BY <1>8 DEF WorkClose
  <2>5. \A e \in members' : conn'[e] = "open" /\ ~close_sent'[e]
    BY <2>2, <2>3, <2>4 DEF MemberInv, TypeOK
  <2> QED
    BY <2>1, <2>4, <2>5 DEF MemberInv
<1>9. CASE WorkCloseServer
  <2>1. \A k \in 1..Len(work') : k + 1 \in 1..Len(work) /\ work'[k] = work[k+1]
    BY <1>9, PopEffect DEF WorkCloseServer
  <2> QED
    BY <1>9, <2>1 DEF WorkCloseServer, MemberInv
<1>10. ASSUME NEW c \in Conns, OnClose(c) PROVE MemberInv'
  BY <1>10 DEF OnClose, MemberInv, TypeOK
<1>11. ASSUME NEW c \in Conns, OnNewConnection(c) PROVE MemberInv'
  BY <1>11 DEF OnNewConnection, MemberInv, FreshInv, TypeOK
<1>12. ASSUME NEW c \in Conns, OnNewConnectionFails(c) PROVE MemberInv'
  BY <1>12 DEF OnNewConnectionFails, MemberInv
<1>13. ASSUME NEW c \in Conns, OnReadOrphan(c) PROVE MemberInv'
  BY <1>13 DEF OnReadOrphan, MemberInv
<1>14. ASSUME NEW c \in Conns, PusherCloses(c) PROVE MemberInv'
  <2> DEFINE item == Item("close", c, 0)
  <2>1. /\ ptodo' = ptodo \ {c} /\ ppc' = "scan" /\ conn' = conn
        /\ c \notin members' /\ members \ {c} \subseteq members' /\ members' \subseteq members
    BY <1>14 DEF PusherCloses, MemberInv
  <2>2. \A d \in members' : conn'[d] = "open" /\ ~close_sent'[d]
    BY <1>14, <2>1 DEF PusherCloses, MemberInv, TypeOK
  <2>3. ptodo' \subseteq members'
    BY <1>14, <2>1 DEF PusherCloses, MemberInv
  <2>4. \A k \in 1..Len(work') : work'[k].kind = "close" => work'[k].conn \notin members'
    <3>1. CASE close_sent[c]
      BY <1>14, <2>1, <3>1 DEF PusherCloses, MemberInv
    <3>2. CASE ~close_sent[c]
      <4>1. work' = Append(work, item) /\ item \in Items /\ item.conn = c
        BY <1>14, <3>2 DEF PusherCloses, Item, Items
      <4>2. \A k \in 1..Len(work') :
              work'[k] = item \/ (k \in 1..Len(work) /\ work'[k] = work[k])
        BY <4>1, PushEffect
      <4> QED
        BY <2>1, <4>1, <4>2 DEF MemberInv
    <3> QED
      BY <3>1, <3>2
  <2> QED
    BY <2>1, <2>2, <2>3, <2>4 DEF MemberInv
<1>15. CASE PusherDrains
  <2> DEFINE item == Item("write", pcur, Head(output_buffer[pcur]))
  <2>1. pcur \in Conns
    BY <1>15 DEF PusherDrains, MemberInv, TypeOK
  <2>2. work' = Append(work, item) /\ item \in Items /\ item.kind = "write"
    BY <1>15, <2>1 DEF PusherDrains, Item, Items, TypeOK
  <2>3. \A k \in 1..Len(work') :
          work'[k].kind = "write" \/ (k \in 1..Len(work) /\ work'[k] = work[k])
    BY <2>2, PushEffect
  <2> QED
    BY <1>15, <2>3 DEF PusherDrains, MemberInv
<1>16. ASSUME NEW c \in Conns, InterpreterWrites(c) PROVE MemberInv'
  BY <1>16 DEF InterpreterWrites, MemberInv
<1>17. CASE StopAcceptingReturns
  <2> DEFINE item == Item("close_server", NoConn, 0)
  <2>1. work' = Append(work, item) /\ item \in Items /\ item.kind = "close_server"
    BY <1>17 DEF StopAcceptingReturns, Item, Items
  <2>2. \A k \in 1..Len(work') :
          work'[k].kind = "close_server" \/ (k \in 1..Len(work) /\ work'[k] = work[k])
    BY <2>1, PushEffect
  <2> QED
    BY <1>17, <2>2 DEF StopAcceptingReturns, MemberInv
<1> QED
  BY <1>1, <1>2, <1>3, <1>4, <1>5, <1>6, <1>7, <1>8, <1>9, <1>10, <1>11, <1>12, <1>13, <1>14,
     <1>15, <1>16, <1>17
     DEF Next, LoopWork, LoopClose, Peers, Pusher, Interpreters, Stop, Quiet

(* A connection that was not accepted still has nothing.                   *)
LEMMA FreshStep ==
  ASSUME TypeOK, MemberInv, FreshInv, [Next]_vars
  PROVE  FreshInv'
<1> USE DEF handles, interpreters, pusher, stopping, Aborted, PusherAt, StopAt, Running
<1>1. CASE Quiet \/ PusherLooks
  BY <1>1, QuietEffect DEF FreshInv
<1>2. ASSUME NEW outcome \in {"failed", "bound", "listening"}, WorkBind(outcome)
      PROVE  FreshInv'
  <2>1. \A k \in 1..Len(work') : k + 1 \in 1..Len(work) /\ work'[k] = work[k+1]
    BY <1>2, PopEffect DEF WorkBind
  <2> QED
    BY <1>2, <2>1 DEF WorkBind, FreshInv
<1>3. CASE WorkWrite
  <2> DEFINE d == Head(work).conn
  <2>1. /\ \A k \in 1..Len(work') : k + 1 \in 1..Len(work) /\ work'[k] = work[k+1]
        /\ d \in Conns
    BY <1>3, PopEffect DEF WorkWrite
  <2>2. \A e \in Conns : conn[e] # "open" => wire'[e] = wire[e]
    BY <1>3, <2>1 DEF WorkWrite
  <2> QED
    BY <1>3, <2>1, <2>2 DEF WorkWrite, FreshInv
<1>4. CASE WorkClose
  <2> DEFINE d == Head(work).conn
  <2>1. /\ \A k \in 1..Len(work') : k + 1 \in 1..Len(work) /\ work'[k] = work[k+1]
        /\ d \in Conns
    BY <1>4, PopEffect DEF WorkClose
  <2>2. \A e \in Conns : conn'[e] \in {"none", "unlinked"} => conn[e] \in {"none", "unlinked"}
    BY <1>4, <2>1 DEF WorkClose, TypeOK
  <2> QED
    BY <1>4, <2>1, <2>2 DEF WorkClose, FreshInv
<1>5. CASE WorkCloseServer
  <2>1. \A k \in 1..Len(work') : k + 1 \in 1..Len(work) /\ work'[k] = work[k+1]
    BY <1>5, PopEffect DEF WorkCloseServer
  <2> QED
    BY <1>5, <2>1 DEF WorkCloseServer, FreshInv
<1>6. ASSUME NEW c \in Conns, OnClose(c) PROVE FreshInv'
  BY <1>6 DEF OnClose, FreshInv, TypeOK
<1>7. ASSUME NEW c \in Conns, OnNewConnection(c) PROVE FreshInv'
  BY <1>7 DEF OnNewConnection, FreshInv, TypeOK
<1>8. ASSUME NEW c \in Conns, OnNewConnectionFails(c) PROVE FreshInv'
  BY <1>8 DEF OnNewConnectionFails, FreshInv
<1>9. ASSUME NEW c \in Conns, OnReadOrphan(c) PROVE FreshInv'
  BY <1>9 DEF OnReadOrphan, FreshInv
<1>10. ASSUME NEW c \in Conns, PusherCloses(c) PROVE FreshInv'
  <2> DEFINE item == Item("close", c, 0)
  <2>1. c \in members /\ conn[c] = "open"
    BY <1>10 DEF PusherCloses, MemberInv
  <2>2. \A k \in 1..Len(work') :
          work'[k].conn = c \/ (k \in 1..Len(work) /\ work'[k] = work[k])
    <3>1. CASE close_sent[c]
      BY <1>10, <3>1 DEF PusherCloses
    <3>2. CASE ~close_sent[c]
      <4>1. work' = Append(work, item) /\ item \in Items /\ item.conn = c
        BY <1>10, <3>2 DEF PusherCloses, Item, Items
      <4> QED
        BY <4>1, PushEffect
    <3> QED
      BY <3>1, <3>2
  <2>3. /\ UNCHANGED <<conn, wire, output_buffer, produced>> /\ members' \subseteq members
        /\ \A d \in Conns : d # c => close_sent'[d] = close_sent[d]
    BY <1>10 DEF PusherCloses, TypeOK
  <2> QED
    BY <2>1, <2>2, <2>3 DEF FreshInv
<1>11. CASE PusherDrains
  <2> DEFINE item == Item("write", pcur, Head(output_buffer[pcur]))
  <2>1. pcur \in Conns /\ conn[pcur] = "open"
    BY <1>11 DEF PusherDrains, MemberInv, TypeOK
  <2>2. work' = Append(work, item) /\ item \in Items /\ item.conn = pcur
    BY <1>11, <2>1 DEF PusherDrains, Item, Items, TypeOK
  <2>3. \A k \in 1..Len(work') :
          work'[k].conn = pcur \/ (k \in 1..Len(work) /\ work'[k] = work[k])
    BY <2>2, PushEffect
  <2>4. /\ UNCHANGED <<conn, close_sent, wire, produced, members>>
        /\ \A d \in Conns : d # pcur => output_buffer'[d] = output_buffer[d]
    BY <1>11 DEF PusherDrains
  <2> QED
    BY <2>1, <2>3, <2>4 DEF FreshInv
<1>12. ASSUME NEW c \in Conns, InterpreterWrites(c) PROVE FreshInv'
  BY <1>12 DEF InterpreterWrites, FreshInv
<1>13. CASE StopAcceptingReturns
  <2> DEFINE item == Item("close_server", NoConn, 0)
  <2>1. work' = Append(work, item) /\ item \in Items /\ item.conn = NoConn
    BY <1>13 DEF StopAcceptingReturns, Item, Items
  <2>2. \A k \in 1..Len(work') :
          work'[k].conn = NoConn \/ (k \in 1..Len(work) /\ work'[k] = work[k])
    BY <2>1, PushEffect
  <2> QED
    BY <1>13, <2>2, NoConnAssumption DEF StopAcceptingReturns, FreshInv
<1> QED
  BY <1>1, <1>2, <1>3, <1>4, <1>5, <1>6, <1>7, <1>8, <1>9, <1>10, <1>11, <1>12, <1>13
     DEF Next, LoopWork, LoopClose, Peers, Pusher, Interpreters, Stop, Quiet, PusherLooks

(* The writes that wait for a connection are numbers.                      *)
LEMMA QueuedType ==
  ASSUME TypeOK, NEW d
  PROVE  Queued(d) \in Seq(Nat)
<1>1. work \in Seq(Items) /\ \A w \in Writes(d) : w.data \in Nat
  BY DEF TypeOK, Writes
<1> QED
  BY <1>1, DataOfType DEF Queued

(* process(): a uv_write is the first of its connection, and no other item *)
(* changes what waits for one.                                             *)
LEMMA QueuedPopped ==
  ASSUME TypeOK, NEW kind, Pop(kind), NEW d \in Conns
  PROVE  Queued(d) = IF kind = "write" /\ Head(work).conn = d
                       THEN <<Head(work).data>> \o Queued(d)'
                       ELSE Queued(d)'
<1>1. work \in Seq(Items) /\ work # <<>> /\ \A w \in Writes(d) : w.data \in Nat
  BY DEF Pop, TypeOK, Writes
<1>2. work' = Tail(work) /\ Head(work) \in Items /\ Head(work).kind = kind
  BY PopEffect
<1>3. Head(work) \in Writes(d) <=> kind = "write" /\ Head(work).conn = d
  BY <1>2 DEF Items, Writes
<1>4. DataOf(work, Writes(d))
        = IF Head(work) \in Writes(d)
            THEN <<Head(work).data>> \o DataOf(Tail(work), Writes(d))
            ELSE DataOf(Tail(work), Writes(d))
  BY <1>1, DataOfTail
<1>5. Queued(d)' = DataOf(Tail(work), Writes(d))
  BY <1>2 DEF Queued
<1> QED
  BY <1>3, <1>4, <1>5 DEF Queued

(* push_work: a uv_write is the last of its connection.                    *)
LEMMA QueuedPushed ==
  ASSUME TypeOK, NEW item \in Items, work' = Append(work, item), NEW d \in Conns
  PROVE  Queued(d)' = IF item.kind = "write" /\ item.conn = d
                        THEN Append(Queued(d), item.data)
                        ELSE Queued(d)
<1>1. work \in Seq(Items)
  BY DEF TypeOK
<1>2. item \in Writes(d) <=> item.kind = "write" /\ item.conn = d
  BY DEF Items, Writes
<1>3. DataOf(Append(work, item), Writes(d))
        = IF item \in Writes(d) THEN Append(DataOf(work, Writes(d)), item.data)
          ELSE DataOf(work, Writes(d))
  BY <1>1, DataOfAppend
<1>4. Queued(d)' = DataOf(Append(work, item), Writes(d))
  BY DEF Queued
<1> QED
  BY <1>2, <1>3, <1>4 DEF Queued

(* OutputInOrder, for one connection.                                      *)
InOrder(c) ==
  conn[c] = "open" /\ ~exited[c] =>
    wire[c] \o Queued(c) \o output_buffer[c] = Written(produced[c])

(* uv_write takes the first buffer that waits.                             *)
LEMMA WriteKeepsOrder ==
  ASSUME TypeOK, TypeOK', NEW c \in Conns, InOrder(c), WorkWrite, Head(work).conn = c
  PROVE  InOrder(c)'
<1> DEFINE x == Head(work).data
           w == wire[c]
           q == Queued(c)'
           s == output_buffer[c]
<1>1. /\ UNCHANGED <<conn, exited, output_buffer, produced>> /\ Pop("write")
      /\ conn[c] = "open" => wire'[c] = Append(w, x)
  BY DEF WorkWrite, interpreters, TypeOK
<1>2. x \in Nat /\ w \in Seq(Nat) /\ s \in Seq(Nat)
  BY <1>1, PopEffect DEF TypeOK
<1>3. q \in Seq(Nat)
  <2>1. work' \in Seq(Items) /\ \A y \in Writes(c) : y.data \in Nat
    BY DEF TypeOK, Writes
  <2>2. q = DataOf(work', Writes(c))
    BY DEF Queued
  <2> QED
    BY <2>1, <2>2, DataOfType
<1>4. Queued(c) = <<x>> \o q
  BY <1>1, QueuedPopped
<1> SUFFICES ASSUME conn[c] = "open", ~exited[c]
             PROVE  Append(w, x) \o q \o s = Written(produced[c])
  BY <1>1 DEF InOrder
<1>5. w \o (<<x>> \o q) \o s = Written(produced[c])
  BY <1>4 DEF InOrder
<1> HIDE DEF x, w, q, s
<1>6. Append(w, x) \o q = w \o (<<x>> \o q)
  BY <1>2, <1>3, MoveFront
<1> QED
  BY <1>5, <1>6

(* The pusher takes the first buffer and queues it last.                   *)
LEMMA DrainKeepsOrder ==
  ASSUME TypeOK, NEW c \in Conns, InOrder(c), PusherDrains, pcur = c
  PROVE  InOrder(c)'
<1> DEFINE w == wire[c]
           q == Queued(c)
           s == output_buffer[c]
           x == Head(s)
           r == Tail(s)
           item == Item("write", pcur, Head(output_buffer[pcur]))
<1>1. /\ UNCHANGED <<conn, exited, wire, produced>> /\ s # <<>>
      /\ output_buffer'[c] = r /\ work' = Append(work, item)
  BY DEF PusherDrains, handles, TypeOK
<1>2. w \in Seq(Nat) /\ q \in Seq(Nat) /\ s \in Seq(Nat)
  BY QueuedType DEF TypeOK
<1>3. x \in Nat /\ r \in Seq(Nat) /\ s = <<x>> \o r
  <2> HIDE DEF s
  <2> QED
    BY <1>1, <1>2, FrontAndRest
<1>4. item \in Items /\ item.kind = "write" /\ item.conn = c /\ item.data = x
  BY <1>3 DEF Item, Items
<1>5. Queued(c)' = Append(q, x)
  <2> HIDE DEF item
  <2> QED
    BY <1>1, <1>4, QueuedPushed
<1> SUFFICES ASSUME conn[c] = "open", ~exited[c]
             PROVE  w \o Append(q, x) \o r = Written(produced[c])
  BY <1>1, <1>5 DEF InOrder
<1>6. w \o q \o s = Written(produced[c])
  BY DEF InOrder
<1> HIDE DEF w, q, s, x, r
<1>7. (w \o Append(q, x)) \o r = (w \o q) \o (<<x>> \o r)
  <2>1. w \in Seq(Nat) /\ q \in Seq(Nat) /\ r \in Seq(Nat) /\ x \in Nat
    BY <1>2, <1>3
  <2> QED
    BY ONLY <2>1, MoveAcross
<1> QED
  BY <1>3, <1>6, <1>7

(* handle_write appends the next buffer to output_buffer.                  *)
LEMMA WritesInOrder ==
  ASSUME TypeOK, NEW c \in Conns, InOrder(c), InterpreterWrites(c)
  PROVE  InOrder(c)'
<1> DEFINE w == wire[c]
           q == Queued(c)
           s == output_buffer[c]
           n == produced[c]
           p == w \o q
<1>1. /\ UNCHANGED <<conn, exited, wire, work>>
      /\ produced'[c] = n + 1 /\ output_buffer'[c] = Append(s, n + 1)
  BY DEF InterpreterWrites, handles, TypeOK
<1>2. w \in Seq(Nat) /\ q \in Seq(Nat) /\ s \in Seq(Nat) /\ n \in Nat /\ q' = q
  BY <1>1, QueuedType DEF TypeOK, Queued
<1> SUFFICES ASSUME conn[c] = "open", ~exited[c]
             PROVE  w \o q \o Append(s, n + 1) = Written(n + 1)
  BY <1>1, <1>2 DEF InOrder
<1>3. p \o s = Written(n)
  BY DEF InOrder
<1> HIDE DEF w, q, s, n
<1>4. p \in Seq(Nat)
  BY <1>2, ConcatProperties
<1> HIDE DEF p
<1>5. p \o Append(s, n + 1) = Written(n + 1)
  BY ONLY <1>2, <1>3, <1>4, NextWritten
<1> QED
  BY <1>5 DEF p

(* A connection starts with nothing written and nothing queued.            *)
LEMMA NewInOrder ==
  ASSUME TypeOK, FreshInv, NEW c \in Conns, OnNewConnection(c)
  PROVE  InOrder(c)'
<1>1. UNCHANGED <<work, wire, output_buffer, produced>> /\ conn[c] = "none"
  BY DEF OnNewConnection
<1>2. /\ wire[c] = <<>> /\ output_buffer[c] = <<>> /\ produced[c] = 0
      /\ \A k \in 1..Len(work) : work[k].conn # c
  BY <1>1 DEF FreshInv
<1>3. work \in Seq(Items) /\ \A k \in 1..Len(work) : work[k] \notin Writes(c)
  BY <1>2 DEF TypeOK, Writes
<1>4. Queued(c) = <<>>
  BY <1>3, DataOfNone DEF Queued
<1>5. Queued(c)' = Queued(c)
  BY <1>1 DEF Queued
<1>6. <<>> \o <<>> \o <<>> = Written(0)
  BY DEF Written
<1> QED
  BY <1>1, <1>2, <1>4, <1>5, <1>6 DEF InOrder

(* Every step keeps the output of every connection in order.               *)
LEMMA OutputStep ==
  ASSUME TypeOK, TypeOK', MemberInv, FreshInv, OutputInOrder, [Next]_vars
  PROVE  OutputInOrder'
<1> USE DEF handles, interpreters, pusher, stopping
<1>a. \A d \in Conns : InOrder(d)
  BY DEF OutputInOrder, InOrder
<1>b. ASSUME NEW d \in Conns,
             wire'[d] = wire[d], Queued(d)' = Queued(d),
             output_buffer'[d] = output_buffer[d], produced'[d] = produced[d],
             conn'[d] = "open" => conn[d] = "open", exited[d] => exited'[d]
      PROVE  InOrder(d)'
  BY <1>a, <1>b DEF InOrder
<1>c. ASSUME UNCHANGED work PROVE \A d \in Conns : Queued(d)' = Queued(d)
  BY <1>c DEF Queued
<1>d. ASSUME \A d \in Conns : InOrder(d)' PROVE OutputInOrder'
  BY <1>d DEF OutputInOrder, InOrder
<1>1. CASE Quiet \/ PusherLooks
  BY <1>1, <1>b, <1>c, <1>d, QuietEffect
(* Handles are closed, or never opened.                                    *)
<1>2. ASSUME NEW c \in Conns, OnClose(c) \/ OnNewConnectionFails(c) \/ OnReadOrphan(c)
      PROVE  OutputInOrder'
  <2>1. /\ UNCHANGED <<wire, work, output_buffer, produced, exited>>
        /\ \A d \in Conns : conn'[d] = "open" => conn[d] = "open"
    BY <1>2 DEF OnClose, OnNewConnectionFails, OnReadOrphan, TypeOK
  <2> QED
    BY <1>b, <1>c, <1>d, <2>1
(* Work that is not a uv_write comes and goes.                             *)
<1>3. CASE \/ \E outcome \in {"failed", "bound", "listening"} : WorkBind(outcome)
           \/ WorkClose \/ WorkCloseServer
  <2>1. PICK kind \in {"bind", "close", "close_server"} : Pop(kind)
    BY <1>3 DEF WorkBind, WorkClose, WorkCloseServer
  <2>2. /\ UNCHANGED <<wire, output_buffer, produced, exited>>
        /\ \A d \in Conns : conn'[d] = "open" => conn[d] = "open"
    BY <1>3 DEF WorkBind, WorkClose, WorkCloseServer, TypeOK
  <2>3. \A d \in Conns : Queued(d)' = Queued(d)
    BY <2>1, QueuedPopped
  <2> QED
    BY <1>b, <1>d, <2>2, <2>3
<1>4. CASE StopAcceptingReturns \/ \E c \in Conns : PusherCloses(c)
  <2>1. UNCHANGED <<wire, output_buffer, produced, exited, conn>>
    BY <1>4 DEF StopAcceptingReturns, PusherCloses
  <2>2. \/ UNCHANGED work
        \/ \E item \in Items : item.kind # "write" /\ work' = Append(work, item)
    BY <1>4 DEF StopAcceptingReturns, PusherCloses, Item, Items
  <2>3. \A d \in Conns : Queued(d)' = Queued(d)
    BY <1>c, <2>2, QueuedPushed
  <2> QED
    BY <1>b, <1>d, <2>1, <2>3
(* The output of a connection moves on, or grows.                          *)
<1>5. CASE WorkWrite
  <2>1. Pop("write") /\ UNCHANGED <<output_buffer, produced, exited, conn>>
    BY <1>5 DEF WorkWrite
  <2> PICK c \in Conns : c = Head(work).conn
    BY <2>1, PopEffect
  <2>2. \A d \in Conns : d # c => wire'[d] = wire[d] /\ Queued(d)' = Queued(d)
    BY <1>5, <2>1, QueuedPopped DEF WorkWrite
  <2>3. \A d \in Conns : d # c => InOrder(d)'
    BY <1>b, <2>1, <2>2
  <2>4. InOrder(c)'
    BY <1>5, <1>a, <2>1, WriteKeepsOrder
  <2> QED
    BY <1>d, <2>3, <2>4
<1>6. CASE PusherDrains
  <2> PICK c \in Conns : c = pcur
    BY <1>6 DEF PusherDrains, PusherAt, TypeOK
  <2> DEFINE item == Item("write", c, Head(output_buffer[c]))
  <2>1. Head(output_buffer[c]) \in Nat
    BY <1>6 DEF PusherDrains, TypeOK
  <2>2. item \in Items /\ item.kind = "write" /\ item.conn = c
    BY <2>1 DEF Item, Items
  <2>3. /\ UNCHANGED <<wire, produced, exited, conn>> /\ work' = Append(work, item)
        /\ \A d \in Conns : d # c => output_buffer'[d] = output_buffer[d]
    BY <1>6 DEF PusherDrains
  <2> HIDE DEF item
  <2>4. \A d \in Conns : d # c => Queued(d)' = Queued(d)
    BY <2>2, <2>3, QueuedPushed
  <2>5. \A d \in Conns : d # c => InOrder(d)'
    BY <1>b, <2>3, <2>4
  <2>6. InOrder(c)'
    BY <1>6, <1>a, DrainKeepsOrder
  <2> QED
    BY <1>d, <2>5, <2>6
<1>7. ASSUME NEW c \in Conns, InterpreterWrites(c) \/ OnNewConnection(c)
      PROVE  OutputInOrder'
  <2>1. /\ UNCHANGED <<wire, work, exited>>
        /\ \A d \in Conns : d # c => /\ conn'[d] = conn[d]
                                     /\ output_buffer'[d] = output_buffer[d]
                                     /\ produced'[d] = produced[d]
    BY <1>7 DEF InterpreterWrites, OnNewConnection, TypeOK
  <2>2. \A d \in Conns : d # c => InOrder(d)'
    BY <1>b, <1>c, <2>1
  <2>3. InOrder(c)'
    BY <1>7, <1>a, WritesInOrder, NewInOrder
  <2> QED
    BY <1>d, <2>2, <2>3
<1> QED
  BY <1>1, <1>2, <1>3, <1>4, <1>5, <1>6, <1>7 DEF Next, LoopWork, LoopClose, Peers, Pusher,
                                                  Interpreters, Stop, Quiet, PusherLooks
-----------------------------------------------------------------------------
(* Before anybody connects, the queue has only the bind.                   *)
LEMMA InitInv == Init => IInv
<1> SUFFICES ASSUME Init PROVE IInv
  OBVIOUS
<1>1. TypeOK
  <2>1. work \in Seq(Items)
    BY DEF Init, Item, Items
  <2>2. /\ wake_up_for_output \in BOOLEAN /\ active \in BOOLEAN /\ blocked \in BOOLEAN
        /\ pending_close \in BOOLEAN /\ any_exited \in BOOLEAN
        /\ server_stopped \in BOOLEAN /\ exit_when_done \in BOOLEAN
        /\ runner_exit \in BOOLEAN /\ runner_done \in BOOLEAN
    BY Zenon DEF Init
  <2> QED
    BY <2>1, <2>2 DEF Init, TypeOK
<1>2. MemberInv
  BY DEF Init, MemberInv
<1>3. FreshInv
  BY NoConnAssumption DEF Init, Item, FreshInv
<1>4. OutputInOrder
  BY DEF Init, OutputInOrder
<1> QED
  BY <1>1, <1>2, <1>3, <1>4 DEF IInv

(* IInv is inductive.                                                      *)
LEMMA NextInv == IInv /\ [Next]_vars => IInv'
<1> SUFFICES ASSUME IInv, [Next]_vars PROVE IInv'
  OBVIOUS
<1>1. TypeOK /\ MemberInv /\ FreshInv /\ OutputInOrder
  BY DEF IInv
<1>2. TypeOK' /\ MemberInv' /\ FreshInv'
  BY <1>1, TypeStep, MemberStep, FreshStep
<1>3. OutputInOrder'
  BY <1>1, <1>2, OutputStep
<1> QED
  BY <1>2, <1>3 DEF IInv

(* The invariant holds in every state of the server.                       *)
THEOREM Invariant == Spec => []IInv
  BY InitInv, NextInv, PTL DEF Spec

(* Every variable of the server keeps its type, the work queue included:   *)
(* only the server's own work has no connection (libuvserverrunner.cpp).   *)
THEOREM TypeCorrect == Spec => []TypeOK
<1>1. IInv => TypeOK
  BY DEF IInv
<1> QED
  BY <1>1, Invariant, PTL

(* However the interpreters, the pusher and the loop interleave, over any  *)
(* number of connections: what a running interpreter wrote to an open      *)
(* connection is in exactly one place between output_buffer and the wire,  *)
(* in order.                                                               *)
THEOREM OutputKeptInOrder == Spec => []OutputInOrder
<1>1. IInv => OutputInOrder
  BY DEF IInv
<1> QED
  BY <1>1, Invariant, PTL

(* on_close_cb never deletes the UvConnectionData of an interpreter that   *)
(* the collection, or the snapshot that the pusher works on, still has.    *)
THEOREM NoConnectionDangles == Spec => []NoDanglingConnection
<1>1. IInv => NoDanglingConnection
  BY DEF IInv, NoDanglingConnection, MemberInv
<1> QED
  BY <1>1, Invariant, PTL
=============================================================================
