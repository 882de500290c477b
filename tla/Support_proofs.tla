--------------------------- MODULE Support_proofs ---------------------------
(***************************************************************************)
(* The classes of src/networkprotocoldsl/support that the threads of the   *)
(* program meet in: NotificationSignal, and TransactionalContainer as the  *)
(* interpreter collection manager uses it. They are independent of each    *)
(* other, and so are the two parts of this module.                         *)
(***************************************************************************)
EXTENDS NotificationSignal, InterpreterCollectionManager, TLAPS

(***************************************************************************)
(* For any set of notifying threads and a single waiting thread, no wakeup *)
(* is lost. The waiter may scan, decide to wait, and sleep while any       *)
(* number of notify() calls are anywhere between their publish, their flag *)
(* store and their notify_all().                                           *)
(***************************************************************************)

LEMMA SignalInitIInv == SignalInit => SignalIInv
  BY DEF SignalInit, SignalIInv, SignalTypeOK, WakeupPending, NotifierPC, WaiterPC

(* Type correctness is preserved by every step.                            *)
LEMMA SignalNextTypeOK == SignalTypeOK /\ [SignalNext]_signal_vars => SignalTypeOK'
<1> SUFFICES ASSUME SignalTypeOK, [SignalNext]_signal_vars PROVE SignalTypeOK'
  OBVIOUS
<1> USE DEF SignalTypeOK, NotifierPC, WaiterPC
<1>1. CASE UNCHANGED signal_vars
  BY <1>1 DEF signal_vars
<1>2. ASSUME NEW n \in Notifiers, NEW w \in Waiters, Publish(n, w) PROVE SignalTypeOK'
  BY <1>2 DEF Publish
<1>3. ASSUME NEW n \in Notifiers, NotifyStore(n) PROVE SignalTypeOK'
  BY <1>3 DEF NotifyStore
<1>4. ASSUME NEW n \in Notifiers, NotifyAll(n) PROVE SignalTypeOK'
  BY <1>4 DEF NotifyAll
<1>5. ASSUME NEW w \in Waiters, Scan(w) PROVE SignalTypeOK'
  BY <1>5 DEF Scan
<1>6. ASSUME NEW w \in Waiters, WaitEnter(w) PROVE SignalTypeOK'
  BY <1>6 DEF WaitEnter
<1>7. ASSUME NEW w \in Waiters, SpuriousWakeup(w) PROVE SignalTypeOK'
  BY <1>7 DEF SpuriousWakeup
<1>8. ASSUME NEW w \in Waiters, WaitReturn(w) PROVE SignalTypeOK'
  BY <1>8 DEF WaitReturn
<1> QED
  BY <1>1, <1>2, <1>3, <1>4, <1>5, <1>6, <1>7, <1>8 DEF SignalNext, Notify, Consume

(* The pending wakeup is preserved by every step. Only the waiter's own    *)
(* steps clear the flag, which is where a single waiter is needed.         *)
LEMMA SignalNextWakeupPending == SignalIInv /\ [SignalNext]_signal_vars => WakeupPending'
<1> SUFFICES ASSUME SignalIInv, [SignalNext]_signal_vars,
                    NEW x \in Waiters,
                    work'[x], wpc'[x] \in {"scanned", "asleep"}
             PROVE  \/ \E n \in Notifiers : npc'[n] = "published"
                    \/ /\ notified'
                       /\ wpc'[x] = "asleep" => \E n \in Notifiers : npc'[n] = "set"
  BY DEF WakeupPending
<1> DEFINE Goal == \/ \E n \in Notifiers : npc'[n] = "published"
                   \/ /\ notified'
                      /\ wpc'[x] = "asleep" => \E n \in Notifiers : npc'[n] = "set"
<1> USE DEF SignalIInv, SignalTypeOK, WakeupPending, NotifierPC, WaiterPC
<1>1. CASE UNCHANGED signal_vars
  BY <1>1 DEF signal_vars
<1>2. ASSUME NEW n \in Notifiers, NEW w \in Waiters, Publish(n, w) PROVE Goal
  BY <1>2 DEF Publish
<1>3. ASSUME NEW n \in Notifiers, NotifyStore(n) PROVE Goal
  BY <1>3 DEF NotifyStore
<1>4. ASSUME NEW n \in Notifiers, NotifyAll(n) PROVE Goal
  BY <1>4 DEF NotifyAll
<1>5. ASSUME NEW w \in Waiters, Scan(w) PROVE Goal
  BY <1>5, SingleWaiter DEF Scan
<1>6. ASSUME NEW w \in Waiters, WaitEnter(w) PROVE Goal
  BY <1>6, SingleWaiter DEF WaitEnter
<1>7. ASSUME NEW w \in Waiters, SpuriousWakeup(w) PROVE Goal
  BY <1>7, SingleWaiter DEF SpuriousWakeup
<1>8. ASSUME NEW w \in Waiters, WaitReturn(w) PROVE Goal
  BY <1>8, SingleWaiter DEF WaitReturn
<1> QED
  BY <1>1, <1>2, <1>3, <1>4, <1>5, <1>6, <1>7, <1>8 DEF SignalNext, Notify, Consume

(* Every reachable state satisfies the inductive invariant.                *)
THEOREM SignalInvariance == SignalSpec => []SignalIInv
<1>1. SignalIInv /\ [SignalNext]_signal_vars => SignalIInv'
  BY SignalNextTypeOK, SignalNextWakeupPending DEF SignalIInv
<1> QED
  BY <1>1, SignalInitIInv, PTL DEF SignalSpec

(* notificationsignal.hpp: the variables keep their types.                 *)
THEOREM SignalTypeCorrect == SignalSpec => []SignalTypeOK
<1>1. SignalIInv => SignalTypeOK
  BY DEF SignalIInv
<1> QED
  BY <1>1, SignalInvariance, PTL

(* notificationsignal.hpp, wait(): from its last scan on, a waiter that    *)
(* has missed queued work finds the flag set or a notify() on its way.     *)
THEOREM WakeupIsPending == SignalSpec => []WakeupPending
<1>1. SignalIInv => WakeupPending
  BY DEF SignalIInv
<1> QED
  BY <1>1, SignalInvariance, PTL

(* notificationsignal.hpp, notify() and wait(): a waiter never sleeps on   *)
(* queued work with nobody left to wake it.                                *)
THEOREM NoWakeupIsLost == SignalSpec => []NoLostWakeup
<1>1. SignalIInv => NoLostWakeup
  BY DEF SignalIInv, WakeupPending, NoLostWakeup
<1> QED
  BY <1>1, SignalInvariance, PTL
-----------------------------------------------------------------------------
(***************************************************************************)
(* The compare-exchange loop of TransactionalContainer implements the      *)
(* atomic registry, for any number of threads, descriptors and contexts.   *)
(***************************************************************************)

(* The two lambdas of interpretercollectionmanager.cpp return well-formed  *)
(* collections.                                                            *)
LEMMA InsertedMap ==
  ASSUME NEW m \in PartialMaps, NEW fd \in Fds, NEW ctx \in Contexts
  PROVE  WithInterpreter(m, fd, ctx) \in PartialMaps
<1>1. PICK D \in SUBSET Fds : m \in [D -> Contexts]
  BY DEF PartialMaps
<1>2. WithInterpreter(m, fd, ctx) \in [D \union {fd} -> Contexts]
  BY <1>1 DEF WithInterpreter
<1>3. D \union {fd} \in SUBSET Fds
  BY <1>1
<1> QED
  BY <1>2, <1>3 DEF PartialMaps

LEMMA RemovedMap ==
  ASSUME NEW m \in PartialMaps, NEW fd \in Fds
  PROVE  WithoutInterpreter(m, fd) \in PartialMaps
<1>1. PICK D \in SUBSET Fds : m \in [D -> Contexts]
  BY DEF PartialMaps
<1>2. WithoutInterpreter(m, fd) \in [D \ {fd} -> Contexts]
  BY <1>1 DEF WithoutInterpreter, Restrict
<1>3. D \ {fd} \in SUBSET Fds
  BY <1>1
<1> QED
  BY <1>2, <1>3 DEF PartialMaps

LEMMA RangeOfMap ==
  ASSUME NEW m \in PartialMaps
  PROVE  Range(m) \in SUBSET Contexts
  BY DEF PartialMaps, Range

LEMMA RangeOfInserted ==
  ASSUME NEW m \in PartialMaps, NEW fd \in Fds, NEW ctx \in Contexts
  PROVE  Range(WithInterpreter(m, fd, ctx)) \subseteq Range(m) \union {ctx}
  BY DEF WithInterpreter, PartialMaps, Range

LEMMA RangeOfRemoved ==
  ASSUME NEW m \in PartialMaps, NEW fd \in Fds
  PROVE  Range(WithoutInterpreter(m, fd)) \subseteq Range(m)
  BY DEF WithoutInterpreter, Restrict, PartialMaps, Range

LEMMA EmptyMap == NoMap \in PartialMaps
<1>1. NoMap \in [{} -> Contexts]
  BY DEF NoMap
<1>2. {} \in SUBSET Fds
  OBVIOUS
<1> QED
  BY <1>1, <1>2 DEF PartialMaps
-----------------------------------------------------------------------------
LEMMA InitIInv == Init => IInv
<1> SUFFICES ASSUME Init PROVE IInv
  OBVIOUS
<1>1. TypeOK
  <2>1. [ver |-> 0, interpreters |-> NoMap] \in Collections
    BY EmptyMap DEF Collections
  <2> QED
    BY <2>1, EmptyMap, MaxTxAssumption DEF Init, TypeOK, PCs
<1>2. SnapshotsIdentified /\ ReplacementIsOperation
  BY DEF Init, SnapshotsIdentified, ReplacementIsOperation
<1>3. InsertedOnce
  <2>1. Range(NoMap) = {}
    BY DEF Range, NoMap
  <2> QED
    BY <2>1 DEF Init, InsertedOnce, Inserting
<1> QED
  BY <1>1, <1>2, <1>3 DEF IInv

(* Every step of a call, and every exit, preserves the types.              *)
LEMMA NextTypeOK == TypeOK /\ [Next]_vars => TypeOK'
<1> SUFFICES ASSUME TypeOK, [Next]_vars PROVE TypeOK'
  OBVIOUS
<1> USE DEF TypeOK, PCs
<1>1. CASE UNCHANGED vars
  BY <1>1 DEF vars
<1>2. ASSUME NEW t \in Threads, NEW fd \in Fds, NEW ctx \in Contexts,
             InsertInterpreter(t, fd, ctx)
      PROVE  TypeOK'
  <2>1. [kind |-> "insert", fd |-> fd, ctx |-> ctx] \in InsertOps
    BY DEF InsertOps
  <2>2. txs' \in 0..MaxTx
    BY <1>2, MaxTxAssumption DEF InsertInterpreter
  <2> QED
    BY <1>2, <2>1, <2>2 DEF InsertInterpreter
<1>3. ASSUME NEW t \in Threads, NEW fd \in Fds, RemoveInterpreter(t, fd)
      PROVE  TypeOK'
  <2>1. [kind |-> "remove", fd |-> fd] \in RemoveOps
    BY DEF RemoveOps
  <2>2. txs' \in 0..MaxTx
    BY <1>3, MaxTxAssumption DEF RemoveInterpreter
  <2> QED
    BY <1>3, <2>1, <2>2 DEF RemoveInterpreter
<1>4. ASSUME NEW t \in Threads, Load(t) PROVE TypeOK'
  BY <1>4 DEF Load
<1>5. ASSUME NEW t \in Threads, FuncInsert(t) PROVE TypeOK'
  <2>1. op[t] \in InsertOps
    BY <1>5 DEF FuncInsert, InsertOps, RemoveOps
  <2>2. current[t].interpreters \in PartialMaps
    BY DEF Collections
  <2>3. replacement'[t] \in PartialMaps
    BY <1>5, <2>1, <2>2, InsertedMap DEF FuncInsert, Build, InsertOps
  <2> QED
    BY <1>5, <2>3 DEF FuncInsert, Build
<1>6. ASSUME NEW t \in Threads, FuncInsertThrows(t) PROVE TypeOK'
  BY <1>6 DEF FuncInsertThrows
<1>7. ASSUME NEW t \in Threads, FuncRemove(t) PROVE TypeOK'
  <2>1. op[t] \in RemoveOps
    BY <1>7 DEF FuncRemove, InsertOps, RemoveOps
  <2>2. current[t].interpreters \in PartialMaps
    BY DEF Collections
  <2>3. replacement'[t] \in PartialMaps
    BY <1>7, <2>1, <2>2, RemovedMap DEF FuncRemove, Build, RemoveOps
  <2> QED
    BY <1>7, <2>3 DEF FuncRemove, Build
<1>8. ASSUME NEW t \in Threads, CasSucceeds(t) PROVE TypeOK'
  <2>1. container' \in Collections
    BY <1>8 DEF CasSucceeds, PublishReplacement, Collections
  <2>2. published' \in SUBSET Contexts
    BY <1>8, RangeOfMap DEF CasSucceeds, PublishReplacement
  <2> QED
    BY <1>8, <2>1, <2>2 DEF CasSucceeds, PublishReplacement
<1>9. ASSUME NEW t \in Threads, CasFails(t) PROVE TypeOK'
  BY <1>9 DEF CasFails
<1>10. ASSUME NEW ctx \in Contexts, Exit(ctx) PROVE TypeOK'
  BY <1>10 DEF Exit
<1> QED
  BY <1>1, <1>2, <1>3, <1>4, <1>5, <1>6, <1>7, <1>8, <1>9, <1>10
     DEF Next, Transaction

(* Only a successful compare-exchange changes the published collection,    *)
(* and it gives it an address no snapshot has.                             *)
LEMMA NextSnapshotsIdentified == IInv /\ [Next]_vars => SnapshotsIdentified'
<1> SUFFICES ASSUME IInv, [Next]_vars, NEW s \in Threads,
                    pc'[s] \in {"func", "cas"}
             PROVE  /\ current'[s].ver <= container'.ver
                    /\ current'[s].ver = container'.ver => current'[s] = container'
  BY DEF SnapshotsIdentified
<1> DEFINE Goal == /\ current'[s].ver <= container'.ver
                   /\ current'[s].ver = container'.ver => current'[s] = container'
<1> USE DEF IInv, TypeOK, PCs, SnapshotsIdentified
<1>1. CASE UNCHANGED vars
  BY <1>1 DEF vars
<1>2. ASSUME NEW t \in Threads, NEW fd \in Fds, NEW ctx \in Contexts,
             InsertInterpreter(t, fd, ctx)
      PROVE  Goal
  BY <1>2 DEF InsertInterpreter
<1>3. ASSUME NEW t \in Threads, NEW fd \in Fds, RemoveInterpreter(t, fd)
      PROVE  Goal
  BY <1>3 DEF RemoveInterpreter
<1>4. ASSUME NEW t \in Threads, Load(t) PROVE Goal
  BY <1>4 DEF Load, Collections
<1>5. ASSUME NEW t \in Threads, FuncInsert(t) PROVE Goal
  BY <1>5 DEF FuncInsert, Build
<1>6. ASSUME NEW t \in Threads, FuncInsertThrows(t) PROVE Goal
  BY <1>6 DEF FuncInsertThrows
<1>7. ASSUME NEW t \in Threads, FuncRemove(t) PROVE Goal
  BY <1>7 DEF FuncRemove, Build
<1>8. ASSUME NEW t \in Threads, CasSucceeds(t) PROVE Goal
  <2>1. current'[s] = current[s] /\ pc[s] \in {"func", "cas"}
    BY <1>8 DEF CasSucceeds, PublishReplacement
  <2>2. current[s].ver \in Nat /\ container.ver \in Nat
    BY DEF Collections
  <2>3. container'.ver = container.ver + 1
    BY <1>8 DEF CasSucceeds, PublishReplacement
  <2> QED
    BY <2>1, <2>2, <2>3
<1>9. ASSUME NEW t \in Threads, CasFails(t) PROVE Goal
  BY <1>9 DEF CasFails
<1>10. ASSUME NEW ctx \in Contexts, Exit(ctx) PROVE Goal
  BY <1>10 DEF Exit
<1> QED
  BY <1>1, <1>2, <1>3, <1>4, <1>5, <1>6, <1>7, <1>8, <1>9, <1>10
     DEF Next, Transaction

(* Nobody but the thread itself touches its snapshot and its replacement,  *)
(* and a context that has exited stays exited.                             *)
LEMMA NextReplacementIsOperation == IInv /\ [Next]_vars => ReplacementIsOperation'
<1> DEFINE Built(c, m, r) ==
      \/ /\ c \in InsertOps
         /\ r = WithInterpreter(m, c.fd, c.ctx)
         /\ c.fd \in DOMAIN m => m[c.fd] \in exited
      \/ /\ c \in RemoveOps
         /\ r = WithoutInterpreter(m, c.fd)
<1> SUFFICES ASSUME IInv, [Next]_vars, NEW s \in Threads, pc'[s] = "cas"
             PROVE  Built(op[s], current[s].interpreters, replacement[s])'
  BY DEF ReplacementIsOperation
<1> DEFINE Goal == Built(op[s], current[s].interpreters, replacement[s])'
<1>0. pc[s] = "cas" => Built(op[s], current[s].interpreters, replacement[s])
  BY DEF IInv, ReplacementIsOperation
<1>a. ASSUME exited \subseteq exited', pc[s] = "cas",
             op'[s] = op[s], current'[s] = current[s], replacement'[s] = replacement[s]
      PROVE  Goal
  BY <1>a, <1>0
<1> USE DEF IInv, TypeOK, PCs
<1>1. CASE UNCHANGED vars
  BY <1>1, <1>a DEF vars
<1>2. ASSUME NEW t \in Threads, NEW fd \in Fds, NEW ctx \in Contexts,
             InsertInterpreter(t, fd, ctx)
      PROVE  Goal
  BY <1>2, <1>a DEF InsertInterpreter
<1>3. ASSUME NEW t \in Threads, NEW fd \in Fds, RemoveInterpreter(t, fd)
      PROVE  Goal
  BY <1>3, <1>a DEF RemoveInterpreter
<1>4. ASSUME NEW t \in Threads, Load(t) PROVE Goal
  BY <1>4, <1>a DEF Load
<1>5. ASSUME NEW t \in Threads, FuncInsert(t) PROVE Goal
  <2>1. CASE s = t
    <3>1. op[s] \in InsertOps
      BY <1>5, <2>1 DEF FuncInsert, InsertOps, RemoveOps
    <3> QED
      BY <1>5, <2>1, <3>1 DEF FuncInsert, Build
  <2>2. CASE s # t
    BY <1>5, <2>2, <1>a DEF FuncInsert, Build
  <2> QED
    BY <2>1, <2>2
<1>6. ASSUME NEW t \in Threads, FuncInsertThrows(t) PROVE Goal
  BY <1>6, <1>a DEF FuncInsertThrows
<1>7. ASSUME NEW t \in Threads, FuncRemove(t) PROVE Goal
  <2>1. CASE s = t
    <3>1. op[s] \in RemoveOps
      BY <1>7, <2>1 DEF FuncRemove, InsertOps, RemoveOps
    <3> QED
      BY <1>7, <2>1, <3>1 DEF FuncRemove, Build
  <2>2. CASE s # t
    BY <1>7, <2>2, <1>a DEF FuncRemove, Build
  <2> QED
    BY <2>1, <2>2
<1>8. ASSUME NEW t \in Threads, CasSucceeds(t) PROVE Goal
  BY <1>8, <1>a DEF CasSucceeds, PublishReplacement
<1>9. ASSUME NEW t \in Threads, CasFails(t) PROVE Goal
  BY <1>9, <1>a DEF CasFails
<1>10. ASSUME NEW ctx \in Contexts, Exit(ctx) PROVE Goal
  BY <1>10, <1>a DEF Exit
<1> QED
  BY <1>1, <1>2, <1>3, <1>4, <1>5, <1>6, <1>7, <1>8, <1>9, <1>10
     DEF Next, Transaction

(* A compare-exchange that succeeds publishes nobody who was not in the    *)
(* collection of that instant, except the context it was called with.      *)
LEMMA CasPublishes ==
  ASSUME IInv, NEW t \in Threads, CasSucceeds(t)
  PROVE  /\ Range(container'.interpreters) = Range(replacement[t])
         /\ \A ctx \in Range(replacement[t]) :
              \/ ctx \in Range(container.interpreters)
              \/ Inserting(t) /\ ctx = op[t].ctx
<1>1. current[t] = container /\ pc[t] = "cas" /\ container'.interpreters = replacement[t]
  BY DEF IInv, TypeOK, SnapshotsIdentified, CasSucceeds, PublishReplacement
<1> DEFINE m == container.interpreters
<1>2. m \in PartialMaps
  BY DEF IInv, TypeOK, Collections
<1>3. CASE op[t] \in InsertOps /\ replacement[t] = WithInterpreter(m, op[t].fd, op[t].ctx)
  <2>1. op[t].fd \in Fds /\ op[t].ctx \in Contexts /\ op[t].kind = "insert"
    BY <1>3 DEF InsertOps
  <2>2. Range(replacement[t]) \subseteq Range(m) \union {op[t].ctx}
    BY <1>2, <1>3, <2>1, RangeOfInserted
  <2> QED
    BY <1>1, <2>1, <2>2 DEF Inserting
<1>4. CASE op[t] \in RemoveOps /\ replacement[t] = WithoutInterpreter(m, op[t].fd)
  <2>1. op[t].fd \in Fds
    BY <1>4 DEF RemoveOps
  <2>2. Range(replacement[t]) \subseteq Range(m)
    BY <1>2, <1>4, <2>1, RangeOfRemoved
  <2> QED
    BY <1>1, <2>2
<1> QED
  BY <1>1, <1>3, <1>4 DEF IInv, ReplacementIsOperation

(* insert_interpreter creates the context it inserts, and a retry inserts  *)
(* the same one, of which nothing was published.                           *)
LEMMA NextInsertedOnce == IInv /\ [Next]_vars => InsertedOnce'
<1> SUFFICES ASSUME IInv, [Next]_vars PROVE InsertedOnce'
  OBVIOUS
<1>0. TypeOK /\ InsertedOnce
  BY DEF IInv
<1>1. CASE UNCHANGED vars
  BY <1>0, <1>1 DEF vars, InsertedOnce, Inserting
<1>2. ASSUME NEW t \in Threads, NEW fd \in Fds, NEW ctx \in Contexts,
             InsertInterpreter(t, fd, ctx)
      PROVE  InsertedOnce'
  <2>1. /\ op' = [op EXCEPT ![t] = [kind |-> "insert", fd |-> fd, ctx |-> ctx]]
        /\ pc' = [pc EXCEPT ![t] = "load"]
        /\ ctx \in fresh /\ fresh' = fresh \ {ctx}
        /\ container' = container /\ published' = published
    BY <1>2 DEF InsertInterpreter
  <2>2. op'[t].ctx = ctx
    BY <1>0, <2>1 DEF TypeOK
  <2>3. \A u \in Threads \ {t} : op'[u] = op[u] /\ pc'[u] = pc[u]
    BY <1>0, <2>1 DEF TypeOK
  <2>4. \A u \in Threads \ {t} : Inserting(u)' => Inserting(u) /\ op'[u].ctx # ctx
    BY <1>0, <2>1, <2>3 DEF InsertedOnce, Inserting
  <2> QED
    BY <1>0, <2>1, <2>2, <2>3, <2>4 DEF InsertedOnce
<1>3. ASSUME NEW t \in Threads, NEW fd \in Fds, RemoveInterpreter(t, fd)
      PROVE  InsertedOnce'
  <2>1. /\ op' = [op EXCEPT ![t] = [kind |-> "remove", fd |-> fd]]
        /\ pc' = [pc EXCEPT ![t] = "load"]
        /\ UNCHANGED <<container, fresh, published>>
    BY <1>3 DEF RemoveInterpreter
  <2>2. \A u \in Threads : Inserting(u)' => Inserting(u) /\ op'[u] = op[u]
    BY <1>0, <2>1 DEF TypeOK, Inserting
  <2> QED
    BY <1>0, <2>1, <2>2 DEF InsertedOnce
<1>4. ASSUME NEW t \in Threads,
             Load(t) \/ FuncInsert(t) \/ FuncInsertThrows(t) \/ FuncRemove(t) \/ CasFails(t)
      PROVE  InsertedOnce'
  <2>1. UNCHANGED <<container, fresh, published, op>> /\ pc[t] # "idle"
    BY <1>4 DEF Load, FuncInsert, FuncInsertThrows, FuncRemove, CasFails, Build
  <2>2. \A u \in Threads \ {t} : pc'[u] = pc[u]
    BY <1>0, <1>4 DEF Load, FuncInsert, FuncInsertThrows, FuncRemove, CasFails, Build, TypeOK
  <2>3. \A u \in Threads : Inserting(u)' => Inserting(u)
    BY <2>1, <2>2 DEF Inserting
  <2> QED
    BY <1>0, <2>1, <2>3 DEF InsertedOnce
<1>5. ASSUME NEW t \in Threads, CasSucceeds(t) PROVE InsertedOnce'
  <2>1. /\ published' = published \union Range(replacement[t])
        /\ fresh' = fresh /\ op' = op /\ pc' = [pc EXCEPT ![t] = "idle"]
    BY <1>5 DEF CasSucceeds, PublishReplacement
  <2>2. \A u \in Threads : Inserting(u)' => u # t /\ Inserting(u)
    BY <1>0, <2>1 DEF TypeOK, Inserting
  <2>3. \A ctx \in Range(replacement[t]) :
          ctx \in published \/ (Inserting(t) /\ ctx = op[t].ctx)
    BY <1>0, <1>5, CasPublishes DEF InsertedOnce
  <2>4. Range(container'.interpreters) \subseteq published'
    BY <1>5, <2>1, CasPublishes
  <2>5. fresh' \intersect published' = {}
    BY <1>0, <2>1, <2>3 DEF InsertedOnce
  <2>6. \A u \in Threads : Inserting(u)' => op'[u].ctx \notin fresh' \union published'
    BY <1>0, <2>1, <2>2, <2>3 DEF InsertedOnce
  <2>7. \A u, v \in Threads :
          Inserting(u)' /\ Inserting(v)' /\ op'[u].ctx = op'[v].ctx => u = v
    BY <1>0, <2>1, <2>2 DEF InsertedOnce
  <2> QED
    BY <2>4, <2>5, <2>6, <2>7 DEF InsertedOnce
<1>6. ASSUME NEW ctx \in Contexts, Exit(ctx) PROVE InsertedOnce'
  BY <1>0, <1>6 DEF Exit, InsertedOnce, Inserting
<1> QED
  BY <1>1, <1>2, <1>3, <1>4, <1>5, <1>6 DEF Next, Transaction

(* Every reachable state satisfies the inductive invariant.                *)
THEOREM Invariance == Spec => []IInv
<1>1. IInv /\ [Next]_vars => IInv'
  BY NextTypeOK, NextSnapshotsIdentified, NextReplacementIsOperation, NextInsertedOnce
     DEF IInv
<1> QED
  BY <1>1, InitIInv, PTL DEF Spec

(* interpretercollectionmanager.cpp: the variables keep their types.       *)
THEOREM TypeCorrect == Spec => []TypeOK
<1>1. IInv => TypeOK
  BY DEF IInv
<1> QED
  BY <1>1, Invariance, PTL
-----------------------------------------------------------------------------
(* A compare-exchange that succeeds performs one abstract operation on the *)
(* collection that is published at that instant.                           *)
LEMMA CasIsAtomic ==
  ASSUME IInv, NEW t \in Threads, CasSucceeds(t)
  PROVE  \/ \E fd \in Fds, ctx \in Contexts : Registry!Insert(fd, ctx)
         \/ \E fd \in Fds : Registry!Remove(fd)
<1>1. current[t] = container
  BY DEF IInv, TypeOK, SnapshotsIdentified, CasSucceeds
<1>2. pc[t] = "cas" /\ container'.interpreters = replacement[t] /\ exited' = exited
  BY DEF CasSucceeds, PublishReplacement
<1>3. CASE /\ op[t] \in InsertOps
           /\ replacement[t] = WithInterpreter(container.interpreters, op[t].fd, op[t].ctx)
           /\ op[t].fd \in DOMAIN container.interpreters =>
                container.interpreters[op[t].fd] \in exited
  <2>1. op[t].fd \in Fds /\ op[t].ctx \in Contexts
    BY <1>3 DEF InsertOps
  <2>2. Registry!Insert(op[t].fd, op[t].ctx)
    BY <1>2, <1>3 DEF Registry!Insert, WithInterpreter
  <2> QED
    BY <2>1, <2>2
<1>4. CASE /\ op[t] \in RemoveOps
           /\ replacement[t] = WithoutInterpreter(container.interpreters, op[t].fd)
  <2>1. op[t].fd \in Fds
    BY <1>4 DEF RemoveOps
  <2>2. Registry!Remove(op[t].fd)
    BY <1>2, <1>4 DEF Registry!Remove, Registry!Restrict, WithoutInterpreter, Restrict
  <2> QED
    BY <2>1, <2>2
<1> QED
  BY <1>1, <1>2, <1>3, <1>4 DEF IInv, ReplacementIsOperation

(* TransactionalContainer::do_transaction: two collections at the same     *)
(* address are the same, so a compare-and-swap that succeeds replaces what *)
(* its thread has seen.                                                    *)
THEOREM AddressesIdentify == Spec => []SnapshotsIdentified
<1>1. IInv => SnapshotsIdentified
  BY DEF IInv
<1> QED
  BY <1>1, Invariance, PTL

(* Every step of the manager is a step of the registry or leaves it alone. *)
LEMMA StepSimulation == IInv /\ [Next]_vars => [Registry!Next]_(Registry!vars)
<1> SUFFICES ASSUME IInv, [Next]_vars PROVE [Registry!Next]_(Registry!vars)
  OBVIOUS
<1> DEFINE Stutter == container' = container /\ exited' = exited
<1>1. CASE Stutter
  BY <1>1 DEF Registry!vars
<1>2. ASSUME NEW t \in Threads, CasSucceeds(t) PROVE Registry!Next
  BY <1>2, CasIsAtomic DEF Registry!Next
<1>3. ASSUME NEW ctx \in Contexts, Exit(ctx) PROVE Registry!Next
  BY <1>3 DEF Exit, Registry!Next, Registry!Exit
<1>4. UNCHANGED vars => Stutter
  BY DEF vars
<1>5. ASSUME NEW t \in Threads, NEW fd \in Fds, NEW ctx \in Contexts,
             InsertInterpreter(t, fd, ctx) \/ RemoveInterpreter(t, fd)
      PROVE  Stutter
  BY <1>5 DEF InsertInterpreter, RemoveInterpreter
<1>6. ASSUME NEW t \in Threads, NEW fd \in Fds, RemoveInterpreter(t, fd)
      PROVE  Stutter
  BY <1>6 DEF RemoveInterpreter
<1>7. ASSUME NEW t \in Threads,
             Load(t) \/ FuncInsert(t) \/ FuncInsertThrows(t) \/ FuncRemove(t) \/ CasFails(t)
      PROVE  Stutter
  BY <1>7 DEF Load, FuncInsert, FuncInsertThrows, FuncRemove, CasFails, Build
<1> QED
  BY <1>1, <1>2, <1>3, <1>4, <1>5, <1>6, <1>7 DEF Next, Transaction

(* TransactionalContainer::do_transaction: the manager implements the      *)
(* atomic registry, so no insertion or removal is lost or undone.          *)
THEOREM Refinement == Spec => ImplementsRegistry
<1>1. Init => Registry!Init
  BY DEF Init, Registry!Init, NoMap
<1> QED
  BY <1>1, StepSimulation, Invariance, PTL
     DEF Spec, ImplementsRegistry, Registry!Spec

(* insert_interpreter: a running interpreter is never replaced by another. *)
THEOREM RunningIsKept == Spec => RunningNotReplaced
<1> DEFINE Kept == \A fd \in DOMAIN container.interpreters :
                     container.interpreters[fd] \notin exited =>
                       \/ fd \notin DOMAIN container'.interpreters
                       \/ container'.interpreters[fd] = container.interpreters[fd]
<1>1. IInv /\ [Next]_vars => [Kept]_vars
  <2> SUFFICES ASSUME IInv, [Next]_vars PROVE Kept
    OBVIOUS
  <2>1. [Registry!Next]_(Registry!vars)
    BY StepSimulation
  <2>2. ASSUME NEW fd \in Fds, NEW ctx \in Contexts, Registry!Insert(fd, ctx) PROVE Kept
    BY <2>2 DEF Registry!Insert
  <2>3. ASSUME NEW fd \in Fds, Registry!Remove(fd) PROVE Kept
    BY <2>3 DEF Registry!Remove, Registry!Restrict
  <2>4. ASSUME NEW ctx \in Contexts, Registry!Exit(ctx) PROVE Kept
    BY <2>4 DEF Registry!Exit
  <2>5. CASE UNCHANGED Registry!vars
    BY <2>5 DEF Registry!vars
  <2> QED
    BY <2>1, <2>2, <2>3, <2>4, <2>5 DEF Registry!Next
<1> QED
  BY <1>1, Invariance, PTL DEF Spec, RunningNotReplaced

(* remove_interpreter: an interpreter that was removed is never put back,  *)
(* whatever snapshots other threads retry with.                            *)
THEOREM RemovedIsGone == Spec => RemovedStaysRemoved
<1> DEFINE Gone == \A ctx \in published :
                     ctx \notin Range(container.interpreters) =>
                       ctx \notin Range(container'.interpreters)
<1>1. IInv /\ [Next]_vars => [Gone]_vars
  <2> SUFFICES ASSUME IInv, [Next]_vars PROVE Gone
    OBVIOUS
  <2>1. ASSUME NEW t \in Threads, CasSucceeds(t) PROVE Gone
    <3>1. \A ctx \in published : Inserting(t) => ctx # op[t].ctx
      BY DEF IInv, InsertedOnce
    <3> QED
      BY <2>1, <3>1, CasPublishes
  <2>2. CASE container' = container
    BY <2>2
  <2>3. ASSUME NEW t \in Threads, NEW fd \in Fds,
               RemoveInterpreter(t, fd) \/ \E ctx \in Contexts : InsertInterpreter(t, fd, ctx)
        PROVE  container' = container
    BY <2>3 DEF InsertInterpreter, RemoveInterpreter
  <2>4. ASSUME NEW t \in Threads,
               Load(t) \/ FuncInsert(t) \/ FuncInsertThrows(t) \/ FuncRemove(t) \/ CasFails(t)
        PROVE  container' = container
    BY <2>4 DEF Load, FuncInsert, FuncInsertThrows, FuncRemove, CasFails, Build
  <2>5. (\E ctx \in Contexts : Exit(ctx)) \/ UNCHANGED vars => container' = container
    BY DEF Exit, vars
  <2> QED
    BY <2>1, <2>2, <2>3, <2>4, <2>5 DEF Next, Transaction
<1> QED
  BY <1>1, Invariance, PTL DEF Spec, RemovedStaysRemoved
=============================================================================
