----------------------------- MODULE ReviewGate -----------------------------
(***************************************************************************)
(* What the workflow promises, with no clients, messages or faults: a      *)
(* draft becomes an exported answer only by passing the policy guard and   *)
(* then a human review, and nothing once published is ever taken back.     *)
(* The promise covers drafts without a forbidden text; what the guard does *)
(* about claims of certification is left to Workflow.                      *)
(***************************************************************************)
CONSTANTS
  AiAllowed,   \* the evidence that may be shown to the model
  Approving    \* the review decisions that let an answer out

VARIABLES
  released,    \* evidence released to the model
  drafts,      \* answers it proposed
  accepted,    \* the guard's acceptances
  reviews,     \* human review decisions
  exports      \* responses
vars == <<released, drafts, accepted, reviews, exports>>

Init == released = {} /\ drafts = {} /\ accepted = {} /\ reviews = {} /\ exports = {}

SameAnswer(x, y) == x.run = y.run /\ x.question = y.question /\ x.cites = y.cites

Release ==
  \E s \in released' :
    /\ s.evidence \in AiAllowed
    /\ released' = released \cup {s}
    /\ UNCHANGED <<drafts, accepted, reviews, exports>>

Propose ==
  \E d \in drafts' :
    /\ drafts' = drafts \cup {d}
    /\ UNCHANGED <<released, accepted, reviews, exports>>

\* The guard accepts a draft whose every citation is evidence released for it.
Accept ==
  \E a \in accepted' :
    /\ \E d \in drafts : d.id = a.draft /\ SameAnswer(a, d) /\ d.text \subseteq {"certified"}
    /\ \A x \in a.cites :
         \E s \in released : s.run = a.run /\ s.question = a.question /\ s.evidence = x
    /\ accepted' = accepted \cup {a}
    /\ UNCHANGED <<released, drafts, reviews, exports>>

\* A reviewer decides on an accepted answer.
Review ==
  \E v \in reviews' :
    /\ \E a \in accepted : SameAnswer(v, a)
    /\ reviews' = reviews \cup {v}
    /\ UNCHANGED <<released, drafts, accepted, exports>>

\* A response goes out with answers of its run that have been approved, one at least.
Export ==
  \E r \in exports' :
    /\ r.reviewed # {}
    /\ \A id \in r.reviewed :
         \E v \in reviews : v.id = id /\ v.run = r.run /\ v.decision \in Approving
    /\ exports' = exports \cup {r}
    /\ UNCHANGED <<released, drafts, accepted, reviews>>

Next == Release \/ Propose \/ Accept \/ Review \/ Export

Spec == Init /\ [][Next]_vars
=============================================================================
