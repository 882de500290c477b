----------------------------- MODULE WorkQueue ------------------------------
(***************************************************************************)
(* What is on its way to a socket, for the properties of the modules that  *)
(* have an AsyncWorkQueue or uv_write requests: both are sequences that    *)
(* are served in order.                                                    *)
(***************************************************************************)
EXTENDS Naturals, Sequences

(* The data of the items of a queue that are of one kind, in order.        *)
DataOf(queue, kind) ==
  LET upto[k \in 0..Len(queue)] ==
        IF k = 0 THEN <<>>
        ELSE IF queue[k] \in kind THEN Append(upto[k-1], queue[k].data)
        ELSE upto[k-1]
  IN  upto[Len(queue)]

(* What is written first to last, when n buffers are.                      *)
Written(n) == [k \in 1..n |-> k]

(* Of the uv_writes under way in order, the ones the socket has not taken. *)
NotTaken(writes, done) == SubSeq(writes, done + 1, Len(writes))
=============================================================================
