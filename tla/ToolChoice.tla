----------------------------- MODULE ToolChoice -----------------------------
(***************************************************************************)
(* What a plan step runs and with what: the tool choice and the missing    *)
(* entity of HandlerStepExecutor (executor/step_runner.py), the resolution *)
(* of the user's reply (executor/entity_elicitation.py), the tool context  *)
(* and the idempotency key (toolrunner/), and the reply of the boundary    *)
(* responder (executor/boundary.py).                                       *)
(***************************************************************************)
EXTENDS Naturals, FiniteSets, Sequences

CONSTANTS
  Agents,     \* active agent -> [tools, primary]
  ToolRecs    \* active tool -> [params, resolves, egress, asks, big]

NoTool == "no tool"
NoSlot == "no slot"
NoRecord == "no record"

ToolOr(id) == IF id \in DOMAIN ToolRecs THEN id ELSE NoTool
InSeq(s) == {s[i] : i \in DOMAIN s}

ContextBound == {"tenant_id", "user_id", "role", "request_id", "session_id", "trace_id"}
EntityShaped == {"ticket_id", "article_id", "entity_id", "incident_id", "request_id", "problem_id",
                 "change_id", "asset_id", "ci_id", "kb_id"}

RequiredParams(tool) ==
  {p.name : p \in {q \in InSeq(ToolRecs[tool].params) : q.required}} \ ContextBound

ToolSpecificity(need) == <<Cardinality(need), Cardinality(need \cap EntityShaped)>>
Above(s, t) == s[1] > t[1] \/ (s[1] = t[1] /\ s[2] > t[2])

Fits(tool, present) == tool \in DOMAIN ToolRecs /\ RequiredParams(tool) \subseteq present

(* Of the fitting tools that require anything, the most specific; of       *)
(* equals the first listed.                                                *)
BestSpecificityTool(ids, present) ==
  LET fit == {i \in DOMAIN ids : Fits(ids[i], present) /\ RequiredParams(ids[i]) # {}}
      Score(i) == ToolSpecificity(RequiredParams(ids[i]))
      best == {i \in fit : \A k \in fit : ~Above(Score(k), Score(i)) /\ (k < i => Above(Score(i), Score(k)))}
  IN IF fit = {} THEN NoTool ELSE ids[CHOOSE i \in best : TRUE]

CandidateToolIds(agent) ==
  IF agent.tools = <<>> /\ agent.primary # NoTool THEN <<agent.primary>> ELSE agent.tools

PrimaryToolIfFits(agent, ids, present) ==
  IF agent.primary \in InSeq(ids) /\ Fits(agent.primary, present) THEN agent.primary ELSE NoTool

PickTool(agent, present) ==
  LET ids == CandidateToolIds(agent)
      primary == PrimaryToolIfFits(agent, ids, present)
      best == BestSpecificityTool(ids, present)
  IN IF ids = <<>> THEN NoTool
     ELSE IF Len(ids) = 1 THEN ToolOr(ids[1])
     ELSE IF primary # NoTool THEN primary
     ELSE IF best # NoTool THEN best
     ELSE ToolOr(IF agent.primary # NoTool THEN agent.primary ELSE ids[1])

(* A tool the planner named runs if the agent owns it, or nothing does. *)
SelectTool(agent, explicit, present) ==
  IF explicit = NoTool THEN PickTool(agent, present)
  ELSE IF explicit \in InSeq(agent.tools) THEN ToolOr(explicit) ELSE NoTool

MissingEntitySlot(tool, present) ==
  LET params == ToolRecs[tool].params
      missing == {i \in DOMAIN params :
                    params[i].required /\ params[i].name \in EntityShaped \ present}
  IN IF missing = {} THEN NoSlot
     ELSE params[CHOOSE i \in missing : \A k \in missing : i <= k].name

-----------------------------------------------------------------------------
(* executor/entity_elicitation.py.  A reply is blank, names a record id    *)
(* or is vague; a pick is the id the model names, or anything else.        *)

ParsePick(said, candidates) == IF said \in candidates THEN said ELSE NoRecord

ResolveReply(reply, candidates, chosen) ==
  CASE reply.kind = "blank"   -> NoRecord
    [] reply.kind = "literal" -> reply.id
    [] reply.kind = "vague"   -> IF chosen \in candidates THEN chosen ELSE NoRecord

-----------------------------------------------------------------------------
(* toolrunner/context.py and step_executor.py.  None is the missing field. *)

None == "none"

(* from_request and the cross-tenant guard of ToolContext. *)
FromRequest(w) == w.tenant # None /\ w.request # None /\ w.principal \in {None, w.tenant}

(* The envelope's key, which survives redelivery, or else the request id. *)
KeyBase(w) == IF w.key # None THEN w.key ELSE w.request

\* Mutant: the key leaves the step out.
IdempotencyKeyOfTurn(w, tool) == <<KeyBase(w), tool>>

IdempotencyKey(w, tool) == <<KeyBase(w), w.step, tool>>

-----------------------------------------------------------------------------
(* executor/boundary.py.  The model says [form, category, axes, reply]:    *)
(* form is "text" (no JSON, category None), "object" or "no object" (other *)
(* JSON); axes is the category its three axes make, None if they make none.*)

(* A reply written for the wrong category gives way to that category's     *)
(* own text, which there is for all but out_of_scope.                      *)
ParseBoundaryPayload(said) ==
  IF said.form = "object" /\ said.axes \notin {None, said.category}
  THEN [category |-> said.axes,
        reply |-> IF said.axes = "out_of_scope" THEN said.reply ELSE <<"default">>]
  ELSE [category |-> said.category, reply |-> said.reply]

DeterministicReply(outcome) == IF outcome = "policy_denied" THEN <<"no access">> ELSE <<"unsure">>

(* _classify_and_reply, then respond's fallback when it has nothing. *)
ClassifyAndReply(said, outcome) ==
  IF said.category = "out_of_scope" THEN <<"out of scope">>
  ELSE IF said.reply # <<>> THEN said.reply
  ELSE DeterministicReply(outcome)
=============================================================================
