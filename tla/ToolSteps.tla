------------------------------ MODULE ToolSteps -----------------------------
(***************************************************************************)
(* Plan steps at work over the model gateway.  A job is one delivery of a  *)
(* step: to HandlerStepExecutor (one tool; may stop to ask the user which  *)
(* record is meant), to ToolStepExecutor and ToolRunner (every tool of the *)
(* agent, through the idempotency store), or to the boundary responder.    *)
(* The same step can be delivered twice.  A tool's handler makes at most   *)
(* one gateway call, under the tool's timeout.                             *)
(***************************************************************************)
EXTENDS LlmGateway, ToolChoice

CONSTANTS
  Works(_),     \* what a job can be delivered
  Replies,      \* what a user answers: [kind, id]
  Picks,        \* ids the picking model may name
  Verdicts,     \* what the boundary model may say
  Rows,         \* what can be written to a work record: [tenant, id, owners]
  Rows0,        \* the records at the start, the latest first
  RecentLimit   \* how many recent records of a user are read

Jobs == Callers

(* A key is minted for one request of one tenant.  A work has one of three *)
(* routes, and its text is a sequence of words.                            *)
ASSUME KeysAssumption ==
  \A i, j \in Jobs : \A v \in Works(i), w \in Works(j) :
    KeyBase(v) = KeyBase(w) /\ KeyBase(v) # None => v.tenant = w.tenant /\ v.request = w.request
ASSUME WorkAssumption ==
  \A j \in Jobs : \A w \in Works(j) :
    w.route \in {"handler", "tools", "boundary"} /\ w.text \in Seq(STRING)

VARIABLES
  records,    \* itsm.* rows with an owner column, the latest updated first
  idem,       \* IdempotencyStore: key -> value
  stored,     \* InMemoryVariableStore: names held
  job

vars == <<gateway, records, idem, stored, job>>
stores == <<records, idem, stored>>

(* cands are the candidates last read; mine, a history, all records that   *)
(* were the user's when the answer was taken.                              *)
Fresh == [pc |-> "idle", work |-> <<>>, i |-> 0, tool |-> NoTool, slot |-> NoSlot, cands |-> {},
          mine |-> {}, entity |-> NoRecord, via |-> None, outs |-> <<>>, failed |-> FALSE, asked |-> FALSE,
          status |-> None, told |-> <<>>]

Init ==
  /\ GatewayInit
  /\ records = Rows0 /\ idem = <<>> /\ stored = {}
  /\ job = [j \in Jobs |-> Fresh]

At(j, pc) == job[j].pc = pc
Go(j, r) == job' = [job EXCEPT ![j] = r]
With(f, k, v) == [x \in DOMAIN f \cup {k} |-> IF x = k THEN v ELSE f[x]]
Result(r, status) == [r EXCEPT !.pc = "end", !.status = status]
Hangs(j) == call' = [call EXCEPT ![j] = NoCall] /\ UNCHANGED <<limit, used, booked, sent, wire, windows>>
Prompt(w) == <<[text |-> <<"word">>, cached |-> TRUE], [text |-> w.text, cached |-> FALSE]>>

(* _run_step_work hands the step to its executor; a raised exception is    *)
(* typed into a failed result.  The boundary node has no such net.         *)
Deliver(j) ==
  /\ At(j, "idle") /\ \E w \in Works(j) : Go(j, [Fresh EXCEPT !.pc = w.route, !.work = w])
  /\ UNCHANGED <<gateway, stores>>

StepRaises(j) == Go(j, Result(job[j], "failed"))

(* A record is opened, handed over or touched, and becomes the latest. *)
WriteRecord ==
  /\ \E row \in Rows :
       records' = <<row>> \o SelectSeq(records, LAMBDA r : <<r.tenant, r.id>> # <<row.tenant, row.id>>)
  /\ records' # records
  /\ UNCHANGED <<gateway, idem, stored, job>>

-----------------------------------------------------------------------------
(* HandlerStepExecutor.run: the checks before the handler, in order. *)

HandlerRun(j) ==
  LET w == job[j].work
      present == w.params \cup w.bound
      tool == IF w.agent \in DOMAIN Agents THEN SelectTool(Agents[w.agent], w.tool, w.params) ELSE NoTool
      runs == tool # NoTool /\ ToolRecs[tool].resolves
      slot == MissingEntitySlot(tool, present)
  IN /\ At(j, "handler")
     /\ \/ ~runs /\ Go(j, Result(job[j], "failed"))
        \/ /\ runs
           /\ Go(j, [job[j] EXCEPT !.pc = IF ~w.focus /\ slot # NoSlot THEN "elicit" ELSE "dispatch",
                                   !.tool = tool, !.slot = slot])
     /\ UNCHANGED <<gateway, stores>>

(* The user in any owner column: who opened it, or whose it is now. *)
Mine(w) == {i \in DOMAIN records : records[i].tenant = w.tenant /\ w.user \in records[i].owners}
OwnIds(w) == {records[i].id : i \in Mine(w)}

(* store.list_recent_for_user: the latest of them, up to the limit. *)
RecentOf(w) ==
  {records[i].id : i \in {i \in Mine(w) : Cardinality({k \in Mine(w) : k < i}) < RecentLimit}}

(* elicit_entity, first pass: the question is raised as an interrupt.  A   *)
(* failed read leaves no candidates.                                       *)
ElicitEntity(j) ==
  /\ At(j, "elicit")
  /\ \E cands \in {RecentOf(job[j].work), {}} : Go(j, [job[j] EXCEPT !.pc = "paused", !.cands = cands])
  /\ UNCHANGED <<gateway, stores>>

Binds(j, id, via) ==
  Go(j, [job[j] EXCEPT !.pc = "dispatch", !.cands = {}, !.entity = id,
                       !.via = IF id = NoRecord THEN None ELSE via])

(* The reply is resolved against the candidates, by the model if vague. *)
Resolves(j, reply, cands) ==
  LET w == job[j].work
  IN \/ /\ reply.kind # "vague" \/ cands = {}
        /\ Binds(j, ResolveReply(reply, cands, NoRecord), "literal") /\ UNCHANGED gateway
     \/ /\ reply.kind = "vague" /\ cands # {}
        /\ StartCall(j, w.tenant, Prompt(w))
        /\ Go(j, [job[j] EXCEPT !.pc = "pick", !.cands = cands, !.mine = OwnIds(w)])

\* Mutant: the resume uses the candidates that were shown with the question.
ResumeReplyStale(j) ==
  /\ At(j, "paused") /\ \E reply \in Replies : Resolves(j, reply, job[j].cands)
  /\ UNCHANGED stores

(* The resume replays the call: the candidates are read again and the      *)
(* reply resolved against these, not against the ones that were shown.     *)
ResumeReply(j) ==
  /\ At(j, "paused")
  /\ \E reply \in Replies : \E cands \in {RecentOf(job[j].work), {}} : Resolves(j, reply, cands)
  /\ UNCHANGED stores

(* CandidatePicker.pick answers, or gives up on any error. *)
PickAnswers(j) ==
  /\ At(j, "pick") /\ call[j].st = "back"
  /\ \/ /\ call[j].out = "ok"
        /\ \E said \in Picks :
             Binds(j, ResolveReply([kind |-> "vague"], job[j].cands, ParsePick(said, job[j].cands)), "llm")
     \/ call[j].out # "ok" /\ Binds(j, NoRecord, "llm")
  /\ Hangs(j) /\ UNCHANGED stores

-----------------------------------------------------------------------------
(* ToolStepExecutor.run and ToolRunner.run up to the handler. *)

ToolsRun(j) ==
  LET w == job[j].work
  IN /\ At(j, "tools")
     /\ \/ w.agent \notin DOMAIN Agents /\ Go(j, Result(job[j], "failed"))
        \/ /\ w.agent \in DOMAIN Agents /\ Agents[w.agent].tools = <<>>
           /\ Go(j, Result(job[j], "success"))
        \/ /\ w.agent \in DOMAIN Agents /\ Agents[w.agent].tools # <<>>
           /\ IF FromRequest(w) THEN Go(j, [job[j] EXCEPT !.pc = "next"]) ELSE StepRaises(j)
     /\ UNCHANGED <<gateway, stores>>

(* The loop over tool_refs: a retired tool fails and the loop goes on. *)
NextTool(j) ==
  LET r == job[j]
      tools == Agents[r.work.agent].tools
  IN /\ At(j, "next")
     /\ \/ r.i = Len(tools) /\ Go(j, Result(r, IF r.failed THEN "failed" ELSE "success"))
        \/ /\ r.i < Len(tools) /\ tools[r.i + 1] \notin DOMAIN ToolRecs
           /\ Go(j, [r EXCEPT !.i = r.i + 1, !.failed = TRUE])
        \/ /\ r.i < Len(tools) /\ tools[r.i + 1] \in DOMAIN ToolRecs
           /\ Go(j, [r EXCEPT !.pc = "lookup", !.i = r.i + 1, !.tool = tools[r.i + 1]])
     /\ UNCHANGED <<gateway, stores>>

(* The idempotency store first; then the handler is resolved.  Both are    *)
(* outside the try: a failed read of the store, or a handler that does not *)
(* resolve, raises through the step, and the tools left are not run.       *)
Lookup(j) ==
  LET r == job[j]
      key == IdempotencyKey(r.work, r.tool)
  IN /\ At(j, "lookup")
     /\ \/ /\ key \in DOMAIN idem
           /\ Go(j, [r EXCEPT !.pc = "next", !.outs = With(r.outs, r.tool, idem[key])])
        \/ /\ key \notin DOMAIN idem
           /\ IF ToolRecs[r.tool].resolves THEN Go(j, [r EXCEPT !.pc = "dispatch"]) ELSE StepRaises(j)
        \/ StepRaises(j)
     /\ UNCHANGED <<gateway, stores>>

-----------------------------------------------------------------------------
(* The handler under wait_for, in both executors. *)

Invoke(j) ==
  LET w == job[j].work
      egress == ToolRecs[job[j].tool].egress
  IN /\ At(j, "dispatch")
     /\ \/ egress = "none" /\ UNCHANGED gateway
        \/ egress = "call" /\ StartCall(j, w.tenant, Prompt(w))
        \/ egress = "stream" /\ StartStream(j, w.tenant, Prompt(w))
        \/ egress = "embed" /\ StartEmbed(j, w.tenant, Prompt(w))
     /\ Go(j, [job[j] EXCEPT !.pc = "running"])
     /\ UNCHANGED stores

Fails(j) ==
  IF job[j].work.route = "tools" THEN Go(j, [job[j] EXCEPT !.pc = "next", !.failed = TRUE])
  ELSE Go(j, Result(job[j], "failed"))

(* InMemoryVariableStore.capture: a large output is kept under a new name. *)
Capture(j) ==
  stored' = IF ToolRecs[job[j].tool].big THEN stored \cup {<<j, job[j].i>>} ELSE stored

(* What a run of the tool gives: whose step it ran for, and where it is. *)
Output(j) ==
  LET w == job[j].work
  IN [own |-> <<w.tenant, w.request, w.step, job[j].tool>>,
      ref |-> IF ToolRecs[job[j].tool].big THEN <<j, job[j].i>> ELSE <<>>]

HandlerReturns(j) ==
  /\ At(j, "running")
  /\ ToolRecs[job[j].tool].egress = "none" \/ call[j].out = "ok"
  /\ \/ /\ job[j].work.route = "tools" /\ Capture(j)
        /\ Go(j, [job[j] EXCEPT !.pc = "store", !.outs = With(job[j].outs, job[j].tool, Output(j))])
     \/ /\ job[j].work.route = "handler" /\ UNCHANGED stored
        /\ Go(j, Result(job[j], "success"))
  /\ Hangs(j) /\ UNCHANGED <<records, idem>>

HandlerRaises(j) ==
  /\ At(j, "running")
  /\ ToolRecs[job[j].tool].egress = "none" \/ call[j].out \in {"gateway", "raw"}
  /\ Fails(j) /\ Hangs(j) /\ UNCHANGED stores

(* wait_for cancels the handler and with it the call it waits for. *)
HandlerTimesOut(j) ==
  /\ At(j, "running")
  /\ Fails(j) /\ Hangs(j) /\ UNCHANGED stores

(* A handler that asks the user raises GraphInterrupt: HandlerStepExecutor *)
(* lets it through, ToolRunner takes it for a fault.                       *)
HandlerAsks(j) ==
  /\ At(j, "running") /\ ToolRecs[job[j].tool].asks /\ call[j].out \in {"none", "ok"} /\ ~job[j].asked
  /\ \/ job[j].work.route = "handler" /\ Go(j, [job[j] EXCEPT !.pc = "asked", !.asked = TRUE])
     \/ job[j].work.route = "tools" /\ Fails(j)
  /\ Hangs(j) /\ UNCHANGED stores

UserAnswers(j) ==
  /\ At(j, "asked") /\ Go(j, [job[j] EXCEPT !.pc = "dispatch"])
  /\ UNCHANGED <<gateway, stores>>

(* Only a success is stored.  A put that fails raises through the step,    *)
(* after the tool has run.                                                 *)
StoreResult(j) ==
  /\ At(j, "store")
  /\ \/ /\ idem' = With(idem, IdempotencyKey(job[j].work, job[j].tool), job[j].outs[job[j].tool])
        /\ Go(j, [job[j] EXCEPT !.pc = "next"])
     \/ UNCHANGED idem /\ StepRaises(j)
  /\ UNCHANGED <<gateway, records, stored>>

(* The redelivery window of a key passes. *)
KeyExpires ==
  /\ \E k \in DOMAIN idem : idem' = [x \in DOMAIN idem \ {k} |-> idem[x]]
  /\ UNCHANGED <<gateway, records, stored, job>>

-----------------------------------------------------------------------------
(* The boundary node: a correction request and a denial need no model. *)

Boundary(j) ==
  LET w == job[j].work
  IN /\ At(j, "boundary")
     /\ \/ /\ w.outcome = "entity_clarification" /\ UNCHANGED gateway
           /\ Go(j, [Result(job[j], "clarification") EXCEPT !.told = <<"correct the id">>])
        \/ /\ w.outcome = "policy_denied" /\ UNCHANGED gateway
           /\ Go(j, [Result(job[j], "denied") EXCEPT !.told = DeterministicReply(w.outcome)])
        \/ /\ w.outcome = "no_confident_match" /\ StartCall(j, w.tenant, Prompt(w))
           /\ Go(j, [job[j] EXCEPT !.pc = "judge"])
     /\ UNCHANGED stores

Tells(j, reply) == Go(j, [Result(job[j], "clarification") EXCEPT !.told = reply])

(* What the model said.  JSON that is no object raises, and is not caught. *)
Judges(j) ==
  \E said \in Verdicts :
    \/ said.form = "no object" /\ Go(j, Result(job[j], "no object"))
    \/ /\ said.form # "no object"
       /\ Tells(j, ClassifyAndReply(ParseBoundaryPayload(said), job[j].work.outcome))

\* Mutant: an error of the gateway is not caught either.
BoundaryAnswersUncaught(j) ==
  /\ At(j, "judge") /\ call[j].st = "back"
  /\ IF call[j].out = "ok" THEN Judges(j) ELSE Go(j, Result(job[j], call[j].out))
  /\ Hangs(j) /\ UNCHANGED stores

(* respond: an LLMGatewayError falls back to the template; any other error *)
(* is raised through the node and ends the turn without a reply.           *)
BoundaryAnswers(j) ==
  /\ At(j, "judge") /\ call[j].st = "back"
  /\ \/ call[j].out = "ok" /\ Judges(j)
     \/ call[j].out = "gateway" /\ Tells(j, DeterministicReply(job[j].work.outcome))
     \/ call[j].out = "raw" /\ Go(j, Result(job[j], "unreadable"))
  /\ Hangs(j) /\ UNCHANGED stores

-----------------------------------------------------------------------------

Provider(j) == ProviderStep(j) /\ UNCHANGED <<stores, job>>
Window == ResetWindow /\ UNCHANGED <<stores, job>>

(* What the event loop does for a job by itself; the user is not part. *)
JobStep(j) ==
  \/ HandlerRun(j) \/ ElicitEntity(j) \/ PickAnswers(j) \/ ToolsRun(j) \/ NextTool(j) \/ Lookup(j)
  \/ Invoke(j) \/ HandlerReturns(j) \/ HandlerRaises(j) \/ HandlerTimesOut(j) \/ HandlerAsks(j)
  \/ StoreResult(j) \/ Boundary(j) \/ BoundaryAnswers(j) \/ Provider(j)

Next ==
  \/ \E j \in Jobs : JobStep(j) \/ Deliver(j) \/ ResumeReply(j) \/ UserAnswers(j)
  \/ WriteRecord \/ KeyExpires \/ Window

Spec == Init /\ [][Next]_vars

(* Ready coroutines run, timers fire and the provider's requests end, if   *)
(* only by the transport's timeout.                                        *)
FairSpec == Spec /\ \A j \in Jobs : WF_vars(JobStep(j))

-----------------------------------------------------------------------------
(* Idempotent replay: every output of a step came from a run for that      *)
(* tenant, request, step and tool, also when it was served from the store  *)
(* to a second delivery, and a reference in it is held by the variables.   *)
ReplayIsOwn ==
  \A j \in Jobs : \A t \in DOMAIN job[j].outs :
    LET out == job[j].outs[t] w == job[j].work
    IN /\ out.own = <<w.tenant, w.request, w.step, t>>
       /\ out.ref # <<>> => out.ref \in stored

(* Entity elicitation: a record the model picked was the asking user's own *)
(* when the answer was taken, whatever the model said and although it may  *)
(* have changed hands, or another become the latest, since the question    *)
(* was put; otherwise the id is the user's words.                          *)
PickedIsOwn == \A j \in Jobs : job[j].via = "llm" => job[j].entity \in job[j].mine

(* The errors the boundary responder does not catch: a provider's reply    *)
(* that cannot be read, and JSON that is no object.                        *)
Uncaught == {"unreadable", "no object"}
HasResult(r) ==
  /\ r.pc = "end"
  /\ r.work.route = "boundary" => r.told # <<>> \/ r.status \in Uncaught
  /\ r.work.route # "boundary" => r.status \in {"success", "failed"}

(* Step executors: a step that was delivered gets its result, or waits for *)
(* its user, whatever the provider, the handler and the stores do: a tool  *)
(* step succeeds or fails, and no exception leaves it; a boundary turn has *)
(* a reply that is not empty, but for the two errors that are not caught.  *)
EveryStepEnds ==
  \A j \in Jobs : job[j].pc # "idle" ~> job[j].pc \in {"paused", "asked"} \/ HasResult(job[j])
=============================================================================
