------------------------------ MODULE SwarmPool ------------------------------
(***************************************************************************)
(* What run_swarm promises, with no threads, queues or topics: every       *)
(* question of a plan is put to an agent once, at most Concurrency[s] of   *)
(* them at a time; its draft is judged once at most; it ends in one way,   *)
(* which is the verdict on its draft unless it failed; and the swarm       *)
(* answers once, when all have ended, in the order of the plan.            *)
(***************************************************************************)
EXTENDS Naturals, FiniteSets

CONSTANTS
  Swarms,        \* the calls of run_swarm
  Questions,     \* the plan
  Concurrency    \* Concurrency[s]: how many agents a call may have at work

VARIABLES
  open,      \* open[s]: the questions that are with an agent
  ended,     \* ended[s][i]: how question i has ended, or "none"
  answer,    \* answer[s]: what the call has returned
  verdicts   \* the guard's verdicts on drafts, a draft being named by its question
vars == <<open, ended, answer, verdicts>>

Plan == DOMAIN Questions
Verdicts == {"accepted", "rejected"}

Init ==
  /\ open = [s \in Swarms |-> {}]
  /\ ended = [s \in Swarms |-> [i \in Plan |-> "none"]]
  /\ answer = [s \in Swarms |-> << >>]
  /\ verdicts = {}

Begin(s, i) ==
  /\ i \notin open[s] /\ ended[s][i] = "none"
  /\ Cardinality(open[s]) < Concurrency[s]
  /\ open' = [open EXCEPT ![s] = @ \cup {i}]
  /\ UNCHANGED <<ended, answer, verdicts>>

Judge(s, i) ==
  /\ i \in open[s] /\ \A w \in verdicts : w.draft # <<s, i>>
  /\ \E v \in Verdicts : verdicts' = verdicts \cup {[draft |-> <<s, i>>, verdict |-> v]}
  /\ UNCHANGED <<open, ended, answer>>

End(s, i) ==
  /\ i \in open[s] /\ open' = [open EXCEPT ![s] = @ \ {i}]
  /\ \/ \E w \in verdicts : w.draft = <<s, i>> /\ ended' = [ended EXCEPT ![s][i] = w.verdict]
     \/ ended' = [ended EXCEPT ![s][i] = "failed"]
  /\ UNCHANGED <<answer, verdicts>>

Return(s) ==
  /\ answer[s] = << >> /\ \A i \in Plan : ended[s][i] # "none"
  /\ answer' = [answer EXCEPT ![s] =
       [i \in Plan |-> [question |-> Questions[i], status |-> ended[s][i]]]]
  /\ UNCHANGED <<open, ended, verdicts>>

Next == \E s \in Swarms :
  Return(s) \/ \E i \in Plan : Begin(s, i) \/ Judge(s, i) \/ End(s, i)
Spec == Init /\ [][Next]_vars
=============================================================================
