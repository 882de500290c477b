-------------------- MODULE InterpreterCollectionManager --------------------
(***************************************************************************)
(* InterpreterCollectionManager over support::TransactionalContainer: the  *)
(* collection is an immutable object behind an atomic shared_ptr, and      *)
(* insert_interpreter and remove_interpreter build a modified copy and     *)
(* publish it with compare_exchange_weak, retrying until they win.         *)
(*                                                                         *)
(* A published collection is identified by its address: `ver` counts the   *)
(* published objects. A thread that compares against a collection holds a  *)
(* shared_ptr to it, so the address cannot be reused meanwhile, and two    *)
(* pointers are equal iff they have the same `ver`.                        *)
(***************************************************************************)
EXTENDS Naturals, Functions

CONSTANTS Threads,   \* threads that call the manager
          Fds,       \* file descriptors
          Contexts,  \* InterpreterContext objects, one per insertion
          MaxTx      \* bound: transactions started in a behaviour

ASSUME MaxTxAssumption == MaxTx \in Nat

VARIABLES container,  \* _container: the published collection
          exited,     \* contexts with exited.load() = true
          fresh,      \* contexts not created yet
          published,  \* contexts that some published collection has held
          txs,        \* number of transactions started
          pc,         \* where each thread is in do_transaction
          op,         \* the call each thread is making
          current,    \* the thread's `current`, loaded from _container
          replacement \* the thread's `replacement`: the map func(current) built

vars == <<container, exited, fresh, published, txs, pc, op, current, replacement>>

NoMap == [fd \in {} |-> {}]
PartialMaps == UNION {[D -> Contexts] : D \in SUBSET Fds}
Collections == [ver : Nat, interpreters : PartialMaps]
InsertOps == [kind : {"insert"}, fd : Fds, ctx : Contexts]
RemoveOps == [kind : {"remove"}, fd : Fds]
PCs == {"idle", "load", "func", "cas"}

TypeOK ==
  /\ container \in Collections
  /\ exited \in SUBSET Contexts
  /\ fresh \in SUBSET Contexts
  /\ published \in SUBSET Contexts
  /\ txs \in 0..MaxTx
  /\ pc \in [Threads -> PCs]
  /\ op \in [Threads -> InsertOps \union RemoveOps \union {[kind |-> "none"]}]
  /\ \A t \in Threads : pc[t] # "idle" => op[t] \in InsertOps \union RemoveOps
  /\ current \in [Threads -> Collections]
  /\ replacement \in [Threads -> PartialMaps]

Init ==
  /\ container = [ver |-> 0, interpreters |-> NoMap]
  /\ exited = {}
  /\ fresh = Contexts
  /\ published = {}
  /\ txs = 0
  /\ pc = [t \in Threads |-> "idle"]
  /\ op = [t \in Threads |-> [kind |-> "none"]]
  /\ current = [t \in Threads |-> [ver |-> 0, interpreters |-> NoMap]]
  /\ replacement = [t \in Threads |-> NoMap]
-----------------------------------------------------------------------------
(* insert_interpreter up to do_transaction: the context is created first.  *)
InsertInterpreter(t, fd, ctx) ==
  /\ pc[t] = "idle"
  /\ txs < MaxTx
  /\ ctx \in fresh
  /\ fresh' = fresh \ {ctx}
  /\ txs' = txs + 1
  /\ op' = [op EXCEPT ![t] = [kind |-> "insert", fd |-> fd, ctx |-> ctx]]
  /\ pc' = [pc EXCEPT ![t] = "load"]
  /\ UNCHANGED <<container, exited, published, current, replacement>>

RemoveInterpreter(t, fd) ==
  /\ pc[t] = "idle"
  /\ txs < MaxTx
  /\ txs' = txs + 1
  /\ op' = [op EXCEPT ![t] = [kind |-> "remove", fd |-> fd]]
  /\ pc' = [pc EXCEPT ![t] = "load"]
  /\ UNCHANGED <<container, exited, fresh, published, current, replacement>>

(* auto current = _container.load();                                       *)
Load(t) ==
  /\ pc[t] = "load"
  /\ current' = [current EXCEPT ![t] = container]
  /\ pc' = [pc EXCEPT ![t] = "func"]
  /\ UNCHANGED <<container, exited, fresh, published, txs, op, replacement>>

(* The copy that the insert lambda returns: the entry of an exited context *)
(* is erased, then the new context is inserted.                            *)
WithInterpreter(m, fd, ctx) ==
  [f \in DOMAIN m \union {fd} |-> IF f = fd THEN ctx ELSE m[f]]

(* The copy that the remove lambda returns.                                *)
WithoutInterpreter(m, fd) == Restrict(m, DOMAIN m \ {fd})

Build(t, m) ==
  /\ replacement' = [replacement EXCEPT ![t] = m]
  /\ pc' = [pc EXCEPT ![t] = "cas"]
  /\ UNCHANGED <<container, exited, fresh, published, txs, op, current>>

(* Mutant: the insert lambda without its test of the old entry.            *)
FuncInsertUnchecked(t) ==
  /\ pc[t] = "func"
  /\ op[t].kind = "insert"
  /\ Build(t, WithInterpreter(current[t].interpreters, op[t].fd, op[t].ctx))

(* func(current) of insert_interpreter when the descriptor is free or its  *)
(* interpreter has exited.                                                 *)
FuncInsert(t) ==
  /\ pc[t] = "func"
  /\ op[t].kind = "insert"
  /\ LET m == current[t].interpreters
     IN  /\ op[t].fd \in DOMAIN m => m[op[t].fd] \in exited
         /\ Build(t, WithInterpreter(m, op[t].fd, op[t].ctx))

(* Mutant: the exception is caught in the loop, which tries again.         *)
FuncInsertRetries(t) ==
  /\ pc[t] = "func"
  /\ op[t].kind = "insert"
  /\ op[t].fd \in DOMAIN current[t].interpreters
  /\ current[t].interpreters[op[t].fd] \notin exited
  /\ pc' = [pc EXCEPT ![t] = "load"]
  /\ UNCHANGED <<container, exited, fresh, published, txs, op, current, replacement>>

(* func(current) of insert_interpreter when the old interpreter still      *)
(* runs: throw std::runtime_error, which leaves insert_interpreter.        *)
FuncInsertThrows(t) ==
  /\ pc[t] = "func"
  /\ op[t].kind = "insert"
  /\ op[t].fd \in DOMAIN current[t].interpreters
  /\ current[t].interpreters[op[t].fd] \notin exited
  /\ pc' = [pc EXCEPT ![t] = "idle"]
  /\ UNCHANGED <<container, exited, fresh, published, txs, op, current, replacement>>

FuncRemove(t) ==
  /\ pc[t] = "func"
  /\ op[t].kind = "remove"
  /\ Build(t, WithoutInterpreter(current[t].interpreters, op[t].fd))

(* Mutant: the published object is modified in place, at its old address.  *)
PublishInPlace(t) ==
  /\ container' = [container EXCEPT !.interpreters = replacement[t]]
  /\ published' = published \union Range(replacement[t])
  /\ pc' = [pc EXCEPT ![t] = "idle"]
  /\ UNCHANGED <<exited, fresh, txs, op, current, replacement>>

(* The replacement becomes the published collection and the call returns.  *)
PublishReplacement(t) ==
  /\ container' = [ver |-> container.ver + 1, interpreters |-> replacement[t]]
  /\ published' = published \union Range(replacement[t])
  /\ pc' = [pc EXCEPT ![t] = "idle"]
  /\ UNCHANGED <<exited, fresh, txs, op, current, replacement>>

(* Mutant: a plain store instead of a compare-exchange.                    *)
CasStore(t) ==
  /\ pc[t] = "cas"
  /\ PublishReplacement(t)

(* compare_exchange_weak succeeds: the pointer is still the loaded one.    *)
CasSucceeds(t) ==
  /\ pc[t] = "cas"
  /\ container.ver = current[t].ver
  /\ PublishReplacement(t)

(* compare_exchange_weak fails, because the pointer changed or spuriously, *)
(* and the while loop starts over from the load.                           *)
CasFails(t) ==
  /\ pc[t] = "cas"
  /\ pc' = [pc EXCEPT ![t] = "load"]
  /\ UNCHANGED <<container, exited, fresh, published, txs, op, current, replacement>>

(* interpreter_loop: context->exited.store(true). The loop works on its    *)
(* own snapshot, so the context need not be in the collection any more.    *)
Exit(ctx) ==
  /\ ctx \in published \ exited
  /\ exited' = exited \union {ctx}
  /\ UNCHANGED <<container, fresh, published, txs, pc, op, current, replacement>>
-----------------------------------------------------------------------------
Transaction(t) ==
  Load(t) \/ FuncInsert(t) \/ FuncInsertThrows(t) \/ FuncRemove(t)
          \/ CasSucceeds(t) \/ CasFails(t)

Next ==
  \/ \E t \in Threads, fd \in Fds :
       RemoveInterpreter(t, fd) \/ \E ctx \in Contexts : InsertInterpreter(t, fd, ctx)
  \/ \E t \in Threads : Transaction(t)
  \/ \E ctx \in Contexts : Exit(ctx)

(* A thread inside do_transaction keeps running, and a compare-exchange    *)
(* whose pointer does match does not fail spuriously for ever.             *)
Fairness ==
  \A t \in Threads : WF_vars(Transaction(t)) /\ SF_vars(CasSucceeds(t))

Spec == Init /\ [][Next]_vars /\ Fairness
-----------------------------------------------------------------------------
(* The compare-exchange implements an atomic map: each insertion and each  *)
(* removal takes effect on the collection of that instant, so none undoes  *)
(* another, however the transactions of several threads overlap.           *)
Registry == INSTANCE InterpreterRegistry WITH interpreters <- container.interpreters

ImplementsRegistry == Registry!Spec

(* insert_interpreter's throw: although the test of the old entry is made  *)
(* on a snapshot, no step replaces a context that is still running by      *)
(* another one.                                                            *)
RunningNotReplaced ==
  [][\A fd \in DOMAIN container.interpreters :
       container.interpreters[fd] \notin exited =>
         \/ fd \notin DOMAIN container'.interpreters
         \/ container'.interpreters[fd] = container.interpreters[fd]]_vars

(* remove_interpreter: an interpreter that was taken out of the collection *)
(* never turns up in it again, although others may still be retrying with  *)
(* snapshots that have it. The pusher relies on this: it removes an exited *)
(* interpreter and then has its connection's data deleted, which it and    *)
(* the callbacks reach through the collection (libuvserverrunner.cpp:67).  *)
RemovedStaysRemoved ==
  [][\A ctx \in published :
       ctx \notin Range(container.interpreters) =>
         ctx \notin Range(container'.interpreters)]_vars

(* Every call returns or throws: a lost compare-exchange is retried, and   *)
(* somebody else's transaction succeeded meanwhile.                        *)
CallsReturn == \A t \in Threads : pc[t] # "idle" ~> pc[t] = "idle"
-----------------------------------------------------------------------------
(* The inductive invariant. A snapshot whose address is still published    *)
(* is the published collection: the comparison of addresses in             *)
(* compare_exchange_weak stands for a comparison of contents.              *)
SnapshotsIdentified ==
  \A t \in Threads :
    pc[t] \in {"func", "cas"} =>
      /\ current[t].ver <= container.ver
      /\ current[t].ver = container.ver => current[t] = container

(* What holds of a thread's own values between func(current) and the       *)
(* comparison.                                                             *)
ReplacementIsOperation ==
  \A t \in Threads :
    pc[t] = "cas" =>
      LET m == current[t].interpreters
          c == op[t]
      IN  \/ /\ c \in InsertOps
             /\ replacement[t] = WithInterpreter(m, c.fd, c.ctx)
             /\ c.fd \in DOMAIN m => m[c.fd] \in exited
          \/ /\ c \in RemoveOps
             /\ replacement[t] = WithoutInterpreter(m, c.fd)

(* A context is given to one call of insert_interpreter, and it is not in  *)
(* any collection before that call has published it.                       *)
Inserting(t) == pc[t] # "idle" /\ op[t].kind = "insert"

InsertedOnce ==
  /\ Range(container.interpreters) \subseteq published
  /\ fresh \intersect published = {}
  /\ \A t \in Threads : Inserting(t) => op[t].ctx \notin fresh \union published
  /\ \A t, u \in Threads :
       Inserting(t) /\ Inserting(u) /\ op[t].ctx = op[u].ctx => t = u

IInv == TypeOK /\ SnapshotsIdentified /\ ReplacementIsOperation /\ InsertedOnce
=============================================================================
