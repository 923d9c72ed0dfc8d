---------------------------- MODULE MCSwarmStore ----------------------------
(* A small instance of SwarmStore. *)
EXTENDS SwarmStore

CONSTANTS b1, f1, named
\* Request f1 names the id that launch b1 has returned, any other one an id that its
\* client chose.
ClientNames == [f \in Foreground |-> IF f = f1 THEN b1 ELSE named]
=============================================================================
