--------------------------- MODULE TurnExecutor ---------------------------
(***************************************************************************)
(* The chat turns of one session: the executor graph that runs a turn's    *)
(* plan in waves, the questions with which a step pauses it, and the API   *)
(* handler that records a pause under the session and resumes it when the  *)
(* user answers.                                                           *)
(*                                                                         *)
(* A request is one POST to /api/chat: a turn, or the answer to a question.*)
(* Each is one invocation of the graph, on a checkpoint thread: its own    *)
(* for a turn, the paused turn's for an answer.  An invocation works on its*)
(* own copy of the thread's state and saves it as it goes; nothing keeps   *)
(* two of them off one thread.  A step id is the path of its generation:   *)
(* <<1>> was planned by the router, <<1, 2>> is its second follow-up.      *)
(***************************************************************************)
EXTENDS Integers, Sequences, FiniteSets

CONSTANTS
    Turns,         \* requests with a new message
    Resumes,       \* requests with interrupt_resume
    Plans,         \* plans the router may assemble, with or without unrouted fragments
    InitialWaves,  \* bound: longest dependency chain of such a plan
    Refusals,      \* bound: ways a step ends before its handler that are tried
    FollowUps,     \* generated_steps that a handler may return
    MaxDepth,      \* DEFAULT_MAX_GENERATION_DEPTH
    MaxWidth       \* DEFAULT_MAX_GENERATED_PER_STEP

ASSUME BudgetAssumption == MaxDepth \in Nat /\ MaxWidth \in Nat \ {0} /\ InitialWaves \in Nat
ASSUME RefusalAssumption == Refusals \subseteq {"failed", "denied", "canned"}
ASSUME RequestAssumption == Turns \cap Resumes = {}

VARIABLES
    run,      \* the invocation each request drives
    ckpt,     \* the checkpoint of each turn's thread
    marker,   \* turn cache, __interrupt__<session>: a thread, "cleared" or "none"
    log,      \* the conversation: <<role, turn>>, oldest first
    acts      \* actions carried out, by a gated handler or by the catalogue's: <<request, step>>

vars == <<run, ckpt, marker, log, acts>>

Requests == Turns \cup Resumes
NoThread == "none"

\* A resume says yes or no to a question (says, yes); a request that paused
\* has put one on the screen (asks).
Idle == [pc |-> "idle", thread |-> NoThread, for |-> NoThread, yes |-> FALSE, says |-> "nothing",
         asks |-> "nothing", plan |-> <<>>, result |-> <<>>, todo |-> {}, waiting |-> {},
         answered |-> {}, picked |-> {}, wave |-> 0, unrouted |-> FALSE, status |-> "none"]

\* What the checkpointer keeps of an invocation.
Saved(r) == [pc |-> r.pc, plan |-> r.plan, result |-> r.result, todo |-> r.todo,
             waiting |-> r.waiting, picked |-> r.picked, wave |-> r.wave, unrouted |-> r.unrouted, status |-> r.status]

\* The request was answered; what it worked on is gone.
Ended(r, status) == [Idle EXCEPT !.pc = "end", !.thread = r.thread, !.for = r.for, !.yes = r.yes,
                                 !.says = r.says, !.status = status]

Save(q, r) ==
    /\ run' = [run EXCEPT ![q] = r]
    /\ ckpt' = [ckpt EXCEPT ![r.thread] = Saved(r)]

------------------------------------------------------------------------------
(* Pure parts                                                              *)

\* merge_plan: a step that is already planned keeps its definition.
MergePlan(left, right) ==
    [s \in DOMAIN left \cup DOMAIN right |-> IF s \in DOMAIN left THEN left[s] ELSE right[s]]

\* merge_step_results: the latest result of a step replaces the others.
MergeStepResults(results, s, status) ==
    [d \in DOMAIN results \cup {s} |-> IF d = s THEN status ELSE results[d]]

\* _append_generated_steps: depth and width budgets, the registry's
\* vocabulary, ids under the parent's, the parent as default dependency.
Generate(parent, raw) ==
    LET kept == {i \in 1 .. Len(raw) : i <= MaxWidth /\ raw[i].kind # "unknown"} IN
    IF Len(parent) - 1 >= MaxDepth THEN <<>>
    ELSE [s \in {Append(parent, i) : i \in kept} |->
            [kind |-> raw[s[Len(s)]].kind, hard |-> {},
             deps |-> IF raw[s[Len(s)]].deps = {} THEN {parent} ELSE raw[s[Len(s)]].deps]]

\* _overall_status of the statuses of a turn's steps.
OverallStatus(results, unrouted) ==
    LET good == results \cap {"success", "canned"}
        bad == results \cap {"failed", "denied"}
        blocked == results \cap {"blocked"}
    IN  IF good # {} /\ bad = {} /\ blocked = {} /\ ~ unrouted THEN "executed"
        ELSE IF good # {} THEN "partial"
        ELSE IF blocked # {} /\ bad = {} THEN "blocked"
        ELSE "failed"

\* append_turn_events: the user's message, unless it is one of the last two
\* events, then the assistant's.
WithTurn(l, t) ==
    LET tail == {l[i] : i \in {j \in 1 .. Len(l) : j > Len(l) - 2}} IN
    IF <<"user", t>> \in tail THEN Append(l, <<"assistant", t>>)
    ELSE l \o << <<"user", t>>, <<"assistant", t>> >>

------------------------------------------------------------------------------
(* A new turn: control gate, router, or neither                            *)

\* load_session .. route; a control reply or a boundary goes to persist.
Submit(t) ==
    /\ run[t].pc = "idle"
    /\ \/ \E p \in Plans :
             Save(t, [Idle EXCEPT !.pc = "wave", !.thread = t, !.for = t, !.plan = p.steps,
                                  !.unrouted = p.unrouted])
       \/ Save(t, [Idle EXCEPT !.pc = "persist", !.thread = t, !.for = t,
                               !.status = "clarification"])
    /\ UNCHANGED <<marker, log, acts>>

------------------------------------------------------------------------------
(* The wave loop                                                           *)

Done(r) == DOMAIN r.result

\* Fault: the wave takes every step that is left.
RunnableAll(r) == DOMAIN r.plan \ Done(r)

\* dispatch_wave: every dependency has a result, whatever its status.
Runnable(r) == {s \in DOMAIN r.plan \ Done(r) : r.plan[s].deps \subseteq Done(r)}

\* Fault: the loop waits for steps that can never run.
WaveForever(q) ==
    LET r == run[q] IN
    /\ r.pc = "wave"
    /\ IF Runnable(r) = {} /\ DOMAIN r.plan \subseteq Done(r)
         THEN Save(q, [r EXCEPT !.pc = "aggregate"])
       ELSE IF Runnable(r) = {} THEN UNCHANGED <<run, ckpt>>
       ELSE Save(q, [r EXCEPT !.pc = "steps", !.todo = Runnable(r), !.wave = @ + 1])
    /\ UNCHANGED <<marker, log, acts>>

\* Nothing left, or nothing runnable: the turn is aggregated.
Wave(q) ==
    LET r == run[q] IN
    /\ r.pc = "wave"
    /\ IF Runnable(r) = {}
         THEN Save(q, [r EXCEPT !.pc = "aggregate"])
         ELSE Save(q, [r EXCEPT !.pc = "steps", !.todo = Runnable(r), !.wave = @ + 1])
    /\ UNCHANGED <<marker, log, acts>>

Finish(q, s, status, generated) ==
    Save(q, [run[q] EXCEPT !.result = MergeStepResults(@, s, status), !.todo = @ \ {s},
                           !.plan = MergePlan(@, generated)])

InWave(q, s) == run[q].pc = "steps" /\ s \in run[q].todo \ run[q].waiting

\* _resolve_bindings: the outputs a step needs come from steps that succeeded.
Bound(r, s) == \A d \in r.plan[s].hard : d \in Done(r) /\ r.result[d] = "success"

\* What a step asks: the approval gate of an action, unless its agent manages
\* its own approval ("own"), the catalogue's item and form and then its
\* confirmation, a missing parameter.
Question(r, s) ==
    CASE r.plan[s].kind = "action" -> "approved"
      [] r.plan[s].kind = "own" -> IF s \in r.picked THEN "confirmed" ELSE "selected"
      [] OTHER -> "answer"

\* Fault: one answer opens every later gate of the turn.
UnansweredOnce(r, s) == r.plan[s].kind # "read" /\ r.answered = {}

\* interrupt() pauses unless this invocation carries the answer for the step.
Unanswered(r, s) == r.plan[s].kind # "read" /\ s \notin r.answered

\* The answer that reaches the step is a yes to what it asks: an answer to
\* another question lacks the key that is looked for.
Agreed(r, s) == r.yes /\ r.says = Question(r, s)

\* No registry record, a policy verdict, or a before-hook: no handler runs.
Refuse(q, s) ==
    /\ InWave(q, s)
    /\ \E status \in Refusals : Finish(q, s, status, <<>>)
    /\ UNCHANGED <<marker, log, acts>>

\* A dependency did not succeed, or its output lacks the field.
Block(q, s) ==
    /\ InWave(q, s) /\ run[q].plan[s].hard # {}
    /\ Finish(q, s, "blocked", <<>>)
    /\ UNCHANGED <<marker, log, acts>>

Ask(q, s) ==
    /\ InWave(q, s) /\ Bound(run[q], s) /\ Unanswered(run[q], s)
    /\ Save(q, [run[q] EXCEPT !.waiting = @ \cup {s}])
    /\ UNCHANGED <<marker, log, acts>>

Decline(q, s) ==
    /\ InWave(q, s) /\ Bound(run[q], s) /\ ~ Unanswered(run[q], s)
    /\ run[q].plan[s].kind = "action" /\ ~ Agreed(run[q], s)
    /\ Finish(q, s, "denied", <<>>)
    /\ UNCHANGED <<marker, log, acts>>

\* The handler runs, with its follow-ups; an after-hook may fail the step.
Work(q, s) ==
    /\ InWave(q, s) /\ Bound(run[q], s) /\ ~ Unanswered(run[q], s) /\ run[q].plan[s].kind # "own"
    /\ run[q].plan[s].kind = "action" => Agreed(run[q], s)
    /\ \/ \E raw \in FollowUps : Finish(q, s, "success", Generate(s, raw))
       \/ Finish(q, s, "failed", <<>>)
    /\ acts' = IF run[q].plan[s].kind = "action" THEN acts \cup {<<q, s>>} ELSE acts
    /\ UNCHANGED <<marker, log>>

\* request_catalog_item, which no gate precedes: it ends for want of a match,
\* of a yes or of the form; the item and its form are chosen, and the
\* confirmation is asked; it is confirmed, and the service request is created.
Catalog(q, s) ==
    LET r == run[q]
        asked == ~ Unanswered(r, s)
    IN
    /\ InWave(q, s) /\ Bound(r, s) /\ r.plan[s].kind = "own"
    /\ \/ /\ ~ asked \/ ~ Agreed(r, s) \/ s \notin r.picked
          /\ \E status \in {"success", "failed"} : Finish(q, s, status, <<>>)
          /\ UNCHANGED acts
       \/ /\ asked /\ Agreed(r, s) /\ s \notin r.picked
          /\ Save(q, [r EXCEPT !.waiting = @ \cup {s}, !.answered = @ \ {s}, !.picked = @ \cup {s}])
          /\ UNCHANGED acts
       \/ /\ asked /\ Agreed(r, s) /\ s \in r.picked
          /\ \E status \in {"success", "failed"} : Finish(q, s, status, <<>>)
          /\ acts' = acts \cup {<<q, s>>}
    /\ UNCHANGED <<marker, log>>

\* Every step of the wave ended or asks.
EndWave(q) ==
    LET r == run[q] IN
    /\ r.pc = "steps" /\ r.todo = r.waiting
    /\ Save(q, [r EXCEPT !.pc = IF r.waiting = {} THEN "wave" ELSE "pause"])
    /\ UNCHANGED <<marker, log, acts>>

\* Fault: steps that never ran are left out of the answer.
AggregateRan(q) ==
    LET r == run[q] IN
    /\ r.pc = "aggregate"
    /\ Save(q, [r EXCEPT !.pc = "persist",
                         !.status = OverallStatus({r.result[s] : s \in Done(r)}, r.unrouted)])
    /\ UNCHANGED <<marker, log, acts>>

\* aggregate: a planned step without a result counts as blocked.
Aggregate(q) ==
    LET r == run[q]
        Reported(s) == IF s \in Done(r) THEN r.result[s] ELSE "blocked"
    IN
    /\ r.pc = "aggregate"
    /\ Save(q, [r EXCEPT !.pc = "persist",
                         !.status = OverallStatus({Reported(s) : s \in DOMAIN r.plan}, r.unrouted)])
    /\ UNCHANGED <<marker, log, acts>>

Persist(q) ==
    /\ run[q].pc = "persist"
    /\ log' = WithTurn(log, run[q].thread)
    /\ run' = [run EXCEPT ![q] = Ended(@, @.status)]
    /\ ckpt' = [ckpt EXCEPT ![run[q].thread] = [Saved(run[q]) EXCEPT !.pc = "end"]]
    /\ UNCHANGED <<marker, acts>>

------------------------------------------------------------------------------
(* The API handler                                                         *)

\* The interrupt is captured: the marker (its write may fail unnoticed) and,
\* for a new turn, the exchange so far.
Pause(q) ==
    /\ run[q].pc = "pause"
    /\ marker' \in {run[q].thread, marker}
    /\ log' = IF q \in Turns THEN WithTurn(log, q) ELSE log
    /\ \E s \in run[q].waiting :
          run' = [run EXCEPT ![q] = [Ended(@, "interrupted") EXCEPT !.asks = Question(run[q], s)]]
    /\ UNCHANGED <<ckpt, acts>>

\* Timeout or an error of the engine: a new turn answers service_degraded,
\* a resume carries on with out = {}.
Fail(q) ==
    /\ run[q].pc \in {"wave", "steps", "aggregate", "persist"}
    /\ run' = [run EXCEPT ![q] = Ended(@, IF q \in Turns THEN "degraded" ELSE "executed")]
    /\ UNCHANGED <<ckpt, marker, log, acts>>

\* The user answers the question that request p left on the screen.
Answer(q, p, yes) ==
    /\ run[q].pc = "idle" /\ run[p].status = "interrupted"
    /\ run' = [run EXCEPT ![q] = [Idle EXCEPT !.pc = "marker", !.for = run[p].thread, !.yes = yes,
                                              !.says = run[p].asks]]
    /\ UNCHANGED <<ckpt, marker, log, acts>>

\* Without a marker the request goes on as a new turn (not followed here);
\* a cleared one is still a marker, and names no thread.
GetMarker(q) ==
    /\ run[q].pc = "marker"
    /\ run' = [run EXCEPT ![q] =
                 IF marker = "none" THEN Ended(@, "new_turn")
                 ELSE IF marker = "cleared" THEN [@ EXCEPT !.pc = "clear"]
                 ELSE [@ EXCEPT !.pc = "clear", !.thread = marker]]
    /\ UNCHANGED <<ckpt, marker, log, acts>>

ClearMarker(q) ==
    /\ run[q].pc = "clear"
    /\ marker' \in {"cleared", marker}
    /\ run' = [run EXCEPT ![q].pc = "resume"]
    /\ UNCHANGED <<ckpt, log, acts>>

\* resume_turn.  LangGraph refuses a bare answer when the thread has several
\* pending questions, or no checkpoint; the handler takes that as out = {}.
ResumeTurn(q) ==
    LET t == run[q].thread IN
    /\ run[q].pc = "resume"
    /\ run' = [run EXCEPT ![q] =
         IF t = NoThread \/ Cardinality(ckpt[t].waiting) > 1 THEN Ended(@, "executed")
         ELSE IF ckpt[t].pc = "end" THEN Ended(@, ckpt[t].status)
         ELSE [@ EXCEPT !.pc = IF ckpt[t].pc = "pause" THEN "steps" ELSE ckpt[t].pc,
                        !.plan = ckpt[t].plan, !.result = ckpt[t].result,
                        !.todo = ckpt[t].todo, !.answered = ckpt[t].waiting,
                        !.picked = ckpt[t].picked, !.wave = ckpt[t].wave, !.unrouted = ckpt[t].unrouted,
                        !.status = ckpt[t].status]]
    /\ UNCHANGED <<ckpt, marker, log, acts>>

\* The turn cache's TTL.
ExpireMarker ==
    /\ marker # "none"
    /\ marker' = "none"
    /\ UNCHANGED <<run, ckpt, log, acts>>

Init ==
    /\ run = [q \in Requests |-> Idle]
    /\ ckpt = [t \in Turns |-> Saved(Idle)]
    /\ marker = "none" /\ log = <<>> /\ acts = {}

Step(q) ==
    \E s \in run[q].todo : \/ Refuse(q, s) \/ Block(q, s) \/ Ask(q, s)
                           \/ Decline(q, s) \/ Work(q, s) \/ Catalog(q, s)

\* Only a request with interrupt_resume looks for a paused turn.
Deliver(q) == q \in Resumes /\ (GetMarker(q) \/ ClearMarker(q) \/ ResumeTurn(q))

Handle(q) ==
    \/ Wave(q) \/ Step(q) \/ EndWave(q) \/ Aggregate(q) \/ Persist(q) \/ Pause(q)
    \/ Deliver(q)

Next ==
    \/ \E t \in Turns : Submit(t)
    \/ \E q \in Resumes, p \in Requests, yes \in BOOLEAN : Answer(q, p, yes)
    \/ \E q \in Requests : Handle(q) \/ Fail(q)
    \/ ExpireMarker

\* A request that was accepted is driven to its response by the event loop.
Fairness == \A q \in Requests : WF_vars(Handle(q))

Spec == Init /\ [][Next]_vars /\ Fairness

------------------------------------------------------------------------------
(* Properties                                                              *)

Statuses == {"success", "canned", "failed", "denied", "blocked"}
Replies == {"none", "interrupted", "executed", "partial", "blocked", "failed", "clarification",
            "degraded", "new_turn"}

(* An approval authorises one action: an action is only carried out in a   *)
(* resume whose user said yes to a request for approval, the executor's    *)
(* gate or, for the agent that manages its own approval, the catalogue's   *)
(* confirmation; never on the choice of an item or the answer to another   *)
(* question.  And one yes never pays for a second action, planned,         *)
(* generated or asked in the same wave.                                    *)
OneActionPerApproval ==
    /\ \A a \in acts :
          a[1] \in Resumes /\ run[a[1]].yes /\ run[a[1]].says \in {"approved", "confirmed"}
    /\ \A a, b \in acts : a[1] = b[1] => a = b

(* Waves respect the data flow: a step has a result only when all it       *)
(* depends on has one, and its handler ran only on outputs that exist,     *)
(* also for follow-ups and across a pause.                                 *)
StepsAfterDeps ==
    \A q \in Requests : \A s \in Done(run[q]) :
        /\ run[q].plan[s].deps \subseteq Done(run[q])
        /\ run[q].result[s] = "success" => Bound(run[q], s)

(* A turn that aggregate calls executed did all its steps: none failed,    *)
(* was refused, or was silently skipped because it could never run.        *)
ExecutedIsComplete ==
    \A q \in Requests : run[q].pc = "persist" /\ run[q].status = "executed" =>
        \A s \in DOMAIN run[q].plan :
            s \in Done(run[q]) /\ run[q].result[s] \in {"success", "canned"}

(* Every request gets its response: the wave loop stops even on a plan in  *)
(* which no step can advance, so that no request stays in flight.          *)
EveryRequestEnds == []<>(\A q \in Requests : run[q].pc \in {"idle", "end"})

=============================================================================
