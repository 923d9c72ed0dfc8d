------------------------------ MODULE AgentLoop ------------------------------
(***************************************************************************)
(* The evidence-investigation loop of services/agentic_drafter.py, with    *)
(* the two callbacks draft_answer_agentically_for_question gives it.  What *)
(* it publishes is a run of module ToolRuns.                               *)
(*                                                                         *)
(* In every turn the model names one action.  The loop refuses it, or      *)
(* performs it: a search makes evidence ids discoverable, an inspection    *)
(* publishes the items that are AI-safe one by one, and each of these two  *)
(* tool calls is recorded and then audited.  A final action returns a      *)
(* draft or raises.  The model is free to name any action in any turn; a   *)
(* callback may raise KafkaClientError at any publication.                 *)
(***************************************************************************)
EXTENDS ToolRuns

CONSTANTS
  Evidence,      \* the evidence ids of the library the loop was given
  AiAllowed,     \* those make_ai_safe_evidence lets through
  Unknown,       \* evidence ids a model may make up
  MinCalls, MaxCalls,      \* min_tool_calls, max_tool_calls
  MaxTurns,      \* max_turns
  SearchLimit    \* SEARCH_RESULT_LIMIT

\* The bounds the loop accepts; no caller asks for a loop without tool calls.
ASSUME BoundsType ==
         /\ MinCalls \in Nat /\ MaxCalls \in Nat /\ MaxTurns \in Nat /\ SearchLimit \in Nat
         /\ MinCalls <= MaxCalls /\ MaxCalls > 0
ASSUME LibraryType == IsFiniteSet(Evidence) /\ AiAllowed \subseteq Evidence

VARIABLES
  pc,          \* where the loop is
  turn,        \* the turn, from 1
  calls,       \* tool_calls: for each, the AI-safe items it returned
  discovered,  \* discoverable_evidence_ids
  inspected,   \* inspected_evidence
  requested,   \* the evidence ids of the inspection under way
  releasing,   \* what it has still to publish
  published,   \* the AI-safe events and audit events published, oldest first
  refused,     \* how many actions have been refused
  draft        \* the evidence ids the draft cites
vars == <<pc, turn, calls, discovered, inspected, requested, releasing, published, refused, draft>>

PCs == {"turn", "release", "audit", "drafted", "exhausted", "failed"}

Init ==
  /\ pc = "turn" /\ turn = 1
  /\ calls = << >>
  /\ discovered = {} /\ inspected = {} /\ requested = {} /\ releasing = {}
  /\ published = << >>
  /\ refused = 0
  /\ draft = {}

-----------------------------------------------------------------------------
\* _allowed_actions, after n tool calls.
\* Mutant: one call too many.
AllowedOneMore(n) ==
  IF n = 0 THEN {"search_evidence"}
  ELSE IF n > MaxCalls THEN {"finish_draft", "cannot_answer"}
  ELSE IF n < MinCalls THEN {"search_evidence", "inspect_evidence"}
  ELSE {"search_evidence", "inspect_evidence", "finish_draft", "cannot_answer"}
Allowed(n) ==
  IF n = 0 THEN {"search_evidence"}
  ELSE IF n >= MaxCalls THEN {"finish_draft", "cannot_answer"}
  ELSE IF n < MinCalls THEN {"search_evidence", "inspect_evidence"}
  ELSE {"search_evidence", "inspect_evidence", "finish_draft", "cannot_answer"}

Actions == {"search_evidence", "inspect_evidence", "finish_draft", "cannot_answer"}

\* The model has named action a and the loop performs it.
Performs(a) == pc = "turn" /\ turn <= MaxTurns /\ a \in Allowed(Len(calls))

\* A refusal costs the turn and is no tool call.
Refused ==
  /\ turn' = turn + 1
  /\ refused' = refused + 1
  /\ UNCHANGED <<pc, calls, discovered, inspected, requested, releasing, published, draft>>

\* The action is not allowed in this turn.
Refuse ==
  /\ pc = "turn" /\ turn <= MaxTurns
  /\ Actions \ Allowed(Len(calls)) # {}
  /\ Refused

\* search_evidence: the best hits, at most SearchLimit.
Search ==
  /\ Performs("search_evidence")
  /\ \E hits \in SUBSET Evidence :
       /\ Cardinality(hits) <= SearchLimit
       /\ discovered' = discovered \cup hits
  /\ calls' = Append(calls, {})
  /\ pc' = "audit"
  /\ UNCHANGED <<turn, inspected, requested, releasing, published, refused, draft>>

\* inspect_evidence asks for an id that no search has returned.
RefuseInspection ==
  /\ Performs("inspect_evidence")
  /\ (Evidence \cup Unknown) \ discovered # {}
  /\ Refused

\* inspect_evidence: what is AI-safe and new is going to be published.
\* Mutants: items inspected before are published again; the AI-safe filter is gone.
InspectAgain ==
  /\ Performs("inspect_evidence")
  /\ \E ids \in SUBSET discovered \ {{}} :
       /\ requested' = ids
       /\ releasing' = ids \cap AiAllowed
  /\ pc' = "release"
  /\ UNCHANGED <<turn, calls, discovered, inspected, published, refused, draft>>
InspectAll ==
  /\ Performs("inspect_evidence")
  /\ \E ids \in SUBSET discovered \ {{}} :
       /\ requested' = ids
       /\ releasing' = ids \ inspected
  /\ pc' = "release"
  /\ UNCHANGED <<turn, calls, discovered, inspected, published, refused, draft>>
Inspect ==
  /\ Performs("inspect_evidence")
  /\ \E ids \in SUBSET discovered \ {{}} :
       /\ requested' = ids
       /\ releasing' = (ids \cap AiAllowed) \ inspected
  /\ pc' = "release"
  /\ UNCHANGED <<turn, calls, discovered, inspected, published, refused, draft>>

\* on_ai_safe_evidence publishes one item; the request gives the order.
\* Mutant: it is only remembered, to be published when the loop has ended.
ReleaseLater ==
  /\ pc = "release"
  /\ \E item \in releasing :
       /\ inspected' = inspected \cup {item}
       /\ releasing' = releasing \ {item}
  /\ UNCHANGED <<pc, turn, calls, discovered, requested, published, refused, draft>>
Release ==
  /\ pc = "release"
  /\ \E item \in releasing :
       /\ inspected' = inspected \cup {item}
       /\ releasing' = releasing \ {item}
       /\ published' = Append(published, <<item>>)
  /\ UNCHANGED <<pc, turn, calls, discovered, requested, refused, draft>>

\* _record_tool_call, of an inspection that has published everything.
RecordInspection ==
  /\ pc = "release" /\ releasing = {}
  /\ calls' = Append(calls, requested \cap AiAllowed)
  /\ pc' = "audit"
  /\ UNCHANGED <<turn, discovered, inspected, requested, releasing, published, refused, draft>>

\* on_tool_call audits the call, and the turn is over.
AuditCall ==
  /\ pc = "audit"
  /\ published' = Append(published, AuditStep)
  /\ turn' = turn + 1
  /\ pc' = "turn"
  /\ UNCHANGED <<calls, discovered, inspected, requested, releasing, refused, draft>>

\* finish_draft: _build_final_answer raises when the draft cites what was not
\* inspected, and ProposedAnswer when it claims something and cites nothing.
Finish ==
  /\ Performs("finish_draft")
  /\ \E cites \in SUBSET (Evidence \cup Unknown), claims \in BOOLEAN :
       IF cites \subseteq inspected /\ (claims => cites # {})
       THEN pc' = "drafted" /\ draft' = cites
       ELSE pc' = "failed" /\ UNCHANGED draft
  /\ UNCHANGED <<turn, calls, discovered, inspected, requested, releasing, published, refused>>

CannotAnswer ==
  /\ Performs("cannot_answer")
  /\ pc' = "drafted"
  /\ draft' = {}
  /\ UNCHANGED <<turn, calls, discovered, inspected, requested, releasing, published, refused>>

\* AgentLoopError after the last turn.
\* Mutants: the turns are counted to one before the last; the loop starts over.
ExhaustEarly ==
  /\ pc = "turn" /\ turn >= MaxTurns
  /\ pc' = "exhausted"
  /\ UNCHANGED <<turn, calls, discovered, inspected, requested, releasing, published, refused, draft>>
ExhaustRetries ==
  /\ pc = "turn" /\ turn > MaxTurns
  /\ turn' = 1 /\ refused' = 0
  /\ UNCHANGED <<pc, calls, discovered, inspected, requested, releasing, published, draft>>
Exhaust ==
  /\ pc = "turn" /\ turn > MaxTurns
  /\ pc' = "exhausted"
  /\ UNCHANGED <<turn, calls, discovered, inspected, requested, releasing, published, refused, draft>>

\* The model call raises, or what it returned is no AgentAction.
ModelFails ==
  /\ pc = "turn" /\ turn <= MaxTurns
  /\ pc' = "failed"
  /\ UNCHANGED <<turn, calls, discovered, inspected, requested, releasing, published, refused, draft>>

\* A publication raises; the message may be on the topic all the same.
ReleaseFails ==
  /\ pc = "release"
  /\ \E item \in releasing :
       /\ inspected' = inspected \cup {item}
       /\ releasing' = releasing \ {item}
       /\ published' \in {published, Append(published, <<item>>)}
  /\ pc' = "failed"
  /\ UNCHANGED <<turn, calls, discovered, requested, refused, draft>>

AuditFails ==
  /\ pc = "audit"
  /\ published' \in {published, Append(published, AuditStep)}
  /\ pc' = "failed"
  /\ UNCHANGED <<turn, calls, discovered, inspected, requested, releasing, refused, draft>>

Next ==
  \/ Refuse \/ Search \/ RefuseInspection \/ Inspect \/ Release \/ RecordInspection
  \/ AuditCall \/ Finish \/ CannotAnswer \/ Exhaust
  \/ ModelFails \/ ReleaseFails \/ AuditFails

\* The model call and every publication have a deadline, so the loop goes on.
Spec == Init /\ [][Next]_vars /\ WF_vars(Next)

-----------------------------------------------------------------------------
(* Properties *)

TypeOK ==
  /\ pc \in PCs
  /\ turn \in Nat /\ refused \in Nat
  /\ calls \in Seq(SUBSET AiAllowed)
  /\ discovered \subseteq Evidence
  /\ inspected \subseteq AiAllowed /\ releasing \subseteq AiAllowed /\ requested \subseteq Evidence
  /\ published \in Seq(ReleaseSteps(AiAllowed) \cup {AuditStep})
  /\ draft \subseteq AiAllowed

\* README: "Codex must make at least two evidence tool calls and no more than four
\* before it can draft", whatever actions the model names in which order.
ToolCallsBounded ==
  /\ Len(calls) <= MaxCalls
  /\ pc = "drafted" => Len(calls) >= MinCalls

\* Wherever the loop can stop, but for a failed publication, it has published one of the
\* runs the drafting step of Workflow chooses from: a search is audited first, no item is
\* released twice however often it is inspected, the last call is audited; and a draft
\* comes after MinCalls audited calls and cites only what was released before it.
PublishesToolRun ==
  /\ IsToolRun(published)
  /\ pc \in {"turn", "drafted", "exhausted"} => published \in ToolRuns(AiAllowed, MaxCalls)
  /\ pc = "drafted" =>
       published # << >> /\ CallsIn(published) >= MinCalls /\ draft \subseteq ItemsIn(published)

\* Between two turns everything the model was shown is on the topic and is accounted
\* for by the tool calls audited so far: nothing is released off the record.
ReleasesAreOnRecord ==
  pc \in {"turn", "drafted", "exhausted"} =>
    ItemsIn(published) = UNION {calls[i] : i \in 1..CallsIn(published)}

\* A loop that runs out of turns has had actions refused in all turns but MaxCalls of
\* them: a model that plays by the rules always gets to its draft.
ExhaustionNeedsRefusals == pc = "exhausted" => refused + MaxCalls >= MaxTurns

\* The loop comes to an end.
Termination == <>(pc \in {"drafted", "exhausted", "failed"})
=============================================================================
