---------------------------- MODULE MCAgentLoop ----------------------------
(***************************************************************************)
(* The loop with the bounds of the code over a library of two items the    *)
(* model may see and one it may not.                                       *)
(***************************************************************************)
EXTENDS AgentLoop
=============================================================================
