----------------------------- MODULE SwarmView -----------------------------
(***************************************************************************)
(* What GET /demo/swarm/{swarm_id} promises about the runs of a swarm that *)
(* are made under one id: the id may be unknown at any time (not yet       *)
(* reserved, trimmed, reset), it is shown as running only before any of    *)
(* its runs has ended, each run ends once, and what is shown afterwards is *)
(* the end of the run that ended last.  An id with a single run has        *)
(* therefore one end; an id with several may be completed and then failed. *)
(***************************************************************************)
CONSTANTS Ids,
          Writers,  \* the runs
          Of        \* Of[w]: the id that run w is made under
VARIABLES shown,    \* shown[i]: the status a reader gets, or "unknown"
          outcome   \* outcome[w]: how run w ended, or "none"
vars == <<shown, outcome>>
Ends == {"completed", "failed"}
Init == shown = [i \in Ids |-> "unknown"] /\ outcome = [w \in Writers |-> "none"]

\* Other swarms keep what they show or are forgotten.
OthersAtMostForgotten(i) == \A j \in Ids \ {i} : shown'[j] \in {shown[j], "unknown"}

\* Swarm i is reserved, and shown so unless the trim takes it at once.
Reserve(i) ==
  /\ \A w \in Writers : Of[w] = i => outcome[w] = "none"
  /\ shown'[i] \in {"running", "unknown"} /\ OthersAtMostForgotten(i)
  /\ UNCHANGED outcome
\* Run w ends, and is shown so unless the trim takes its entry at once.
End(w) ==
  /\ outcome[w] = "none" /\ \E o \in Ends : outcome' = [outcome EXCEPT ![w] = o]
  /\ shown'[Of[w]] \in {outcome'[w], "unknown"} /\ OthersAtMostForgotten(Of[w])
Forget == UNCHANGED outcome /\ \A j \in Ids : shown'[j] \in {shown[j], "unknown"}

Next == (\E i \in Ids : Reserve(i)) \/ (\E w \in Writers : End(w)) \/ Forget
Spec == Init /\ [][Next]_vars
=============================================================================
