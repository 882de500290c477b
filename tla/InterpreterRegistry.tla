------------------------ MODULE InterpreterRegistry -------------------------
(***************************************************************************)
(* What InterpreterCollectionManager promises: one map from file           *)
(* descriptors to interpreter contexts, changed by insertions and removals *)
(* that each take effect at one instant, in which a context whose          *)
(* interpreter is still running is never overwritten.                      *)
(***************************************************************************)
EXTENDS Functions

CONSTANTS Fds,        \* file descriptors, the keys of the map
          Contexts    \* InterpreterContext objects

VARIABLES interpreters,  \* the current map: a function on a subset of Fds
          exited         \* the contexts whose `exited` flag is set

vars == <<interpreters, exited>>

Init ==
  /\ interpreters = [fd \in {} |-> {}]
  /\ exited = {}

Insert(fd, ctx) ==
  /\ fd \in DOMAIN interpreters => interpreters[fd] \in exited
  /\ interpreters' = [f \in DOMAIN interpreters \union {fd} |->
                        IF f = fd THEN ctx ELSE interpreters[f]]
  /\ UNCHANGED exited

Remove(fd) ==
  /\ interpreters' = Restrict(interpreters, DOMAIN interpreters \ {fd})
  /\ UNCHANGED exited

Exit(ctx) ==
  /\ exited' = exited \union {ctx}
  /\ UNCHANGED interpreters

Next ==
  \/ \E fd \in Fds : Remove(fd) \/ \E ctx \in Contexts : Insert(fd, ctx)
  \/ \E ctx \in Contexts : Exit(ctx)

Spec == Init /\ [][Next]_vars
=============================================================================
