------------------------------ MODULE MCSwarm ------------------------------
(***************************************************************************)
(* A small instance of Swarm: two swarms at once, each with an id of its   *)
(* own, for the same two questions; one works through them one by one, the *)
(* other puts both to an agent at once.                                    *)
(***************************************************************************)
EXTENDS Swarm

CONSTANTS s1, s2
OwnId == [s \in Swarms |-> s]
TwoQuestions == <<"Q-001", "Q-002">>
OneOrTwo == [s \in Swarms |-> IF s = s1 THEN 1 ELSE 2]
=============================================================================
