--------------------------- MODULE MCLibuvServer ----------------------------
(* The server for TLC: its connections are interchangeable.                *)
EXTENDS LibuvServer, TLC

ConnSymmetry == Permutations(Conns)
=============================================================================
