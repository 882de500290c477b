------------------------ MODULE MCInterpreterRunner -------------------------
(***************************************************************************)
(* A small instance of InterpreterRunner: an interpreter that reads two    *)
(* octets, looks ahead at two, reads one of them, asks a callback and      *)
(* writes. Its peer sends up to four octets in fragments of any size, so   *)
(* that buffers are joined, consumed in part, pushed back and left over.   *)
(***************************************************************************)
EXTENDS InterpreterRunner

CONSTANTS a

Look(n) == [kind |-> "look", need |-> n]
Read(n) == [kind |-> "read", need |-> n]
Call  == [kind |-> "callback", need |-> 0]
Write == [kind |-> "write", need |-> 0]

AloneProgram == [i \in Interps |-> <<Read(2), Look(2), Read(1), Call, Write>>]
AloneOctets  == [i \in Interps |-> 4]
=============================================================================
