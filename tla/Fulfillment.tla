---------------------------- MODULE Fulfillment ----------------------------
(***************************************************************************)
(* The UC-8 fulfilment executor: the workers that drive one persisted RITM *)
(* (request item) and its DAG of tasks to a terminal state, and the saga   *)
(* compensation that may cancel it meanwhile.                              *)
(*                                                                         *)
(* All durable state is in Postgres (task, ritm, run, approvals, the       *)
(* advisory lock).  One action is one SQL statement, because a worker      *)
(* awaits at every statement and anything may happen in between; what a    *)
(* worker read earlier is its snapshot (snap, rsnap), and every UPDATE is  *)
(* an optimistic-lock UPDATE against that snapshot.                        *)
(***************************************************************************)
EXTENDS Integers, FiniteSets

CONSTANTS
    Tasks,            \* template_task_ids of the plan, ordered as the ids are
    DependsOn,        \* [Tasks -> SUBSET Tasks]
    Plans,            \* [Tasks -> Kinds] each: the plans a catalogue template gives
    Compensable,      \* tasks whose tool is in _COMPENSATION_REGISTRY
    MaxRetries,       \* task.max_retries
    Workers,          \* execute_plan invocations that can be alive at once
    LockKey,          \* [Workers -> Keys]: hash(ritm_id) % 2^31 in w's process
    MaxWaves,         \* _MAX_WAVES
    WaveConcurrency,  \* _WAVE_CONCURRENCY
    StartStates,      \* RITM states in which the first dispatch can find it
    MaxEvents,        \* bound: execute events published for the RITM
    MaxCrashes,       \* bound: worker crashes
    MaxCancels,       \* bound: calls of compensate_ritm
    MayRaise          \* may a task's coroutine end in an exception?

Kinds == {"adapter", "manual", "approval", "misconfigured"}

TaskStates == {"pending", "ready", "in_progress", "done", "failed", "skipped", "blocked"}
RitmStates == {"requested", "approved", "in_progress", "fulfilled", "cancelled",
               "rejected", "failed"}
RunOutcomes == {"open", "fulfilled", "partial", "failed"}

ASSUME PlanAssumption ==
    /\ Tasks \subseteq Nat /\ IsFiniteSet(Tasks)
    /\ DependsOn \in [Tasks -> SUBSET Tasks]
    /\ Plans \subseteq [Tasks -> Kinds]
    /\ Compensable \subseteq Tasks
ASSUME BoundAssumption ==
    /\ MaxRetries \in Nat /\ MaxWaves \in Nat /\ WaveConcurrency \in Nat
    /\ MaxEvents \in Nat /\ MaxCrashes \in Nat /\ MaxCancels \in Nat
    /\ MayRaise \in BOOLEAN
    /\ StartStates \subseteq {"requested", "approved"}

NoKey == -1

VARIABLES
    kind,       \* task_type and tool_id of the rows: how _execute_one_task treats them
    task,       \* itsm.task rows: [state, ver, retry]
    old,        \* tasks whose started_at is older than the recovery window
    output,     \* output_payload: attempt whose resource or approval it names, or NoKey
    ritm,       \* itsm.request_item row: [state, ver]
    run,        \* outcome of the latest itsm.fulfillment_run row
    approvals,  \* itsm.approval rows of its gates, each asked for by one attempt
    lock,       \* workers that hold the advisory lock under their own key
    events,     \* execute events published and not yet delivered
    sent,       \* adapter calls <<task, attempt>> that reached the integration
    effects,    \* adapter calls whose side effect the integration performed
    released,   \* side effects undone by compensation
    pc,         \* where each worker's execute_plan is
    wave,       \* its wave counter
    snap,       \* its last list_tasks_for_ritm result
    toSkip,     \* tasks its cascade has still to mark
    co,         \* its _execute_one_task coroutines
    outcome,    \* the ritm_outcome it passes to _finalise
    rsnap,      \* its last get_ritm result
    comp,       \* compensate_ritm: [pc, todo, rsnap]
    budget      \* what is left of the bounds: [events, crashes, cancels]

db    == <<kind, task, old, output, ritm, run, approvals>>
ext   == <<sent, effects, released>>
local == <<wave, snap, toSkip, co, outcome, rsnap>>
vars  == <<kind, task, old, output, ritm, run, approvals, lock, events, sent, effects,
           released, pc, wave, snap, toSkip, co, outcome, rsnap, comp, budget>>

Row == [state : TaskStates, ver : Nat, retry : Nat]
RitmRow == [state : RitmStates, ver : Nat]
Approval == [task : Tasks, attempt : Nat,
             state : {"pending", "approved", "rejected", "withdrawn"}]
PCs == {"idle", "lock", "get", "start", "recover", "list", "skip", "relist",
        "decide", "wave", "finget", "finput", "finrun", "unlock"}
CoStates == {"off", "queued", "claimed", "asked"}
Outcomes == {"", "fulfilled", "partial", "failed"}

NewRows == [t \in Tasks |-> [state |-> "pending", ver |-> 1, retry |-> 0]]
NoCo == [t \in Tasks |-> "off"]
NoRitm == [state |-> "requested", ver |-> 0]

------------------------------------------------------------------------------
(* What the wave loop computes from one task listing.                      *)

Closed(P) == \A u \in Tasks : DependsOn[u] \cap P # {} => u \in P

\* Fixpoint of _poisoned_templates: the least closed set containing the seed.
PoisonedTemplates(seed) ==
    {t \in Tasks : \A P \in SUBSET Tasks : seed \subseteq P /\ Closed(P) => t \in P}

FailedIn(rows) == {t \in Tasks : rows[t].state = "failed"}

\* Fault: the cascade marks the direct dependents of a failed task only.
TransitivelyBlockedShallow(rows) ==
    {t \in Tasks : /\ rows[t].state \in {"pending", "ready"}
                   /\ DependsOn[t] \cap FailedIn(rows) # {}}

TransitivelyBlocked(rows) ==
    {t \in Tasks : /\ rows[t].state \in {"pending", "ready"}
                   /\ t \in PoisonedTemplates(FailedIn(rows))}

\* Fault: a dependency counts as soon as somebody has started it.
ReadyTasksStarted(rows) ==
    {t \in Tasks : /\ rows[t].state \in {"pending", "ready"}
                   /\ \A d \in DependsOn[t] : rows[d].state \in {"in_progress", "done", "skipped"}}

ReadyTasks(rows) ==
    {t \in Tasks : /\ rows[t].state \in {"pending", "ready"}
                   /\ \A d \in DependsOn[t] : rows[d].state \in {"done", "skipped"}}

StatesIn(rows) == {rows[t].state : t \in Tasks}

\* Fault: tasks that other workers are running do not keep the plan open.
TerminalOutcomeLax(rows) ==
    LET S == StatesIn(rows) IN
    IF S \cap {"pending", "ready"} # {} THEN ""
    ELSE IF "failed" \in S THEN "failed" ELSE "fulfilled"

\* _is_terminal: "" when the plan is not terminal.
TerminalOutcome(rows) ==
    LET S == StatesIn(rows) IN
    IF S \cap {"pending", "ready", "in_progress"} # {}
      THEN IF S \subseteq {"blocked", "done", "skipped"} THEN "blocked" ELSE ""
      ELSE IF S \subseteq {"done", "skipped"} THEN "fulfilled"
      ELSE IF {"done", "failed"} \subseteq S THEN "partial"
      ELSE "failed"

\* Fault: a partly failed plan leaves the RITM in_progress.
RitmStateForPartialOpen(o) ==
    CASE o = "fulfilled" -> "fulfilled"
      [] o \in {"blocked", "partial"} -> "in_progress"
      [] OTHER -> "failed"

\* The RITM vocabulary has no 'partial' and no 'blocked'.
RitmStateFor(o) ==
    CASE o = "fulfilled" -> "fulfilled"
      [] o = "blocked"   -> "in_progress"
      [] OTHER           -> "failed"

\* `int(task["max_retries"] or 3)`
EffectiveRetries == IF MaxRetries = 0 THEN 3 ELSE MaxRetries

------------------------------------------------------------------------------
(* db.transition_task_state and db.transition_ritm_state: UPDATE ... WHERE *)
(* state = from AND version = v; a miss changes nothing.                   *)

\* Fault: the version predicate is dropped from the UPDATE.
TaskMatchesStateOnly(t, from, v) == task[t].state = from

TaskMatches(t, from, v) == task[t].state = from /\ task[t].ver = v

SetTask(t, to, retry) ==
    task' = [task EXCEPT ![t] = [state |-> to, ver |-> @.ver + 1, retry |-> retry]]

RitmMatches(r) == ritm = r

SetRitm(to) == ritm' = [state |-> to, ver |-> ritm.ver + 1]

------------------------------------------------------------------------------
(* Dispatch: create_service_request publishes one execute event; calling   *)
(* it again with the same idempotency key, once the duplicate check no     *)
(* longer sees an open RITM inside its 30-day window, opens a new run row  *)
(* on the same RITM and publishes again.                                   *)

Republish ==
    /\ budget.events > 0
    /\ budget' = [budget EXCEPT !.events = @ - 1]
    /\ events' = events + 1
    /\ run' = "open"
    /\ UNCHANGED <<kind, task, old, output, ritm, approvals, lock, ext, pc, local, comp>>

\* Core NATS, queue group: each event goes to one worker, at most once.
OnExecute(w) ==
    /\ pc[w] = "idle" /\ events > 0
    /\ events' = events - 1
    /\ pc' = [pc EXCEPT ![w] = "lock"]
    /\ UNCHANGED <<db, lock, ext, local, comp, budget>>

------------------------------------------------------------------------------
(* execute_plan                                                            *)

\* pg_try_advisory_lock; a contended call answers with a snapshot and ends.
TryLock(w) ==
    /\ pc[w] = "lock"
    /\ IF \E v \in lock : LockKey[v] = LockKey[w]
         THEN /\ pc' = [pc EXCEPT ![w] = "unlock"]
              /\ UNCHANGED lock
         ELSE /\ lock' = lock \cup {w}
              /\ pc' = [pc EXCEPT ![w] = "get"]
    /\ UNCHANGED <<db, events, ext, local, comp, budget>>

\* The finally clause: pg_advisory_unlock is a no-op for a session without it.
Unlock(w) ==
    /\ pc[w] = "unlock"
    /\ lock' = lock \ {w}
    /\ pc' = [pc EXCEPT ![w] = "idle"]
    /\ wave' = [wave EXCEPT ![w] = 0]
    /\ snap' = [snap EXCEPT ![w] = NewRows]
    /\ outcome' = [outcome EXCEPT ![w] = ""]
    /\ rsnap' = [rsnap EXCEPT ![w] = NoRitm]
    /\ UNCHANGED <<db, events, ext, toSkip, co, comp, budget>>

\* _init_ritm_and_recover, first read ...
GetRitm(w) ==
    /\ pc[w] = "get"
    /\ rsnap' = [rsnap EXCEPT ![w] = ritm]
    /\ pc' = [pc EXCEPT ![w] = "start"]
    /\ UNCHANGED <<db, lock, events, ext, wave, snap, toSkip, co, outcome, comp, budget>>

\* ... then requested -> in_progress; no other state is examined or moved.
StartRitm(w) ==
    /\ pc[w] = "start"
    /\ IF rsnap[w].state = "requested" /\ RitmMatches(rsnap[w])
         THEN SetRitm("in_progress")
         ELSE UNCHANGED ritm
    /\ pc' = [pc EXCEPT ![w] = "recover"]
    /\ UNCHANGED <<kind, task, old, output, run, approvals, lock, events, ext, local, comp, budget>>

\* Fault: recovery looks at the age of a task and not at its state.
RecoverAnyState(w) ==
    /\ pc[w] = "recover"
    /\ task' = [t \in Tasks |->
                  IF t \in old
                    THEN [state |-> "ready", ver |-> task[t].ver + 1, retry |-> task[t].retry + 1]
                    ELSE task[t]]
    /\ pc' = [pc EXCEPT ![w] = "list"]
    /\ UNCHANGED <<kind, old, output, ritm, run, approvals, lock, events, ext, local, comp, budget>>

\* One UPDATE: every in_progress task whose started_at is past the window.
\* started_at keeps the time of the FIRST start, so the task stays in `old`.
RecoverStuck(w) ==
    /\ pc[w] = "recover"
    /\ task' = [t \in Tasks |->
                  IF t \in old /\ task[t].state = "in_progress"
                    THEN [state |-> "ready", ver |-> task[t].ver + 1, retry |-> task[t].retry + 1]
                    ELSE task[t]]
    /\ pc' = [pc EXCEPT ![w] = "list"]
    /\ UNCHANGED <<kind, old, output, ritm, run, approvals, lock, events, ext, local, comp, budget>>

------------------------------------------------------------------------------
(* _execute_plan_locked: one turn of the wave loop.                        *)

ListTasks(w) ==
    /\ pc[w] = "list" /\ wave[w] < MaxWaves
    /\ snap' = [snap EXCEPT ![w] = task]
    /\ toSkip' = [toSkip EXCEPT ![w] = TransitivelyBlocked(task)]
    /\ pc' = [pc EXCEPT ![w] = IF TransitivelyBlocked(task) = {} THEN "decide" ELSE "skip"]
    /\ UNCHANGED <<db, lock, events, ext, wave, co, outcome, rsnap, comp, budget>>

\* Fault: the loop falls through to _finalise without an outcome.
WavesExhaustedNoOutcome(w) ==
    /\ pc[w] = "list" /\ wave[w] = MaxWaves
    /\ pc' = [pc EXCEPT ![w] = "finget"]
    /\ UNCHANGED <<db, lock, events, ext, wave, snap, toSkip, co, outcome, rsnap, comp, budget>>

WavesExhausted(w) ==
    /\ pc[w] = "list" /\ wave[w] = MaxWaves
    /\ outcome' = [outcome EXCEPT ![w] = "failed"]
    /\ pc' = [pc EXCEPT ![w] = "finget"]
    /\ UNCHANGED <<db, lock, events, ext, wave, snap, toSkip, co, rsnap, comp, budget>>

\* _apply_cascade_skips: one UPDATE per poisoned task, a lost race is ignored.
SkipTask(w, t) ==
    /\ pc[w] = "skip" /\ t \in toSkip[w]
    /\ IF TaskMatches(t, snap[w][t].state, snap[w][t].ver)
         THEN SetTask(t, "skipped", task[t].retry)
         ELSE UNCHANGED task
    /\ toSkip' = [toSkip EXCEPT ![w] = @ \ {t}]
    /\ pc' = [pc EXCEPT ![w] = IF toSkip[w] = {t} THEN "relist" ELSE "skip"]
    /\ UNCHANGED <<kind, old, output, ritm, run, approvals, lock, events, ext, wave, snap, co,
                   outcome, rsnap, comp, budget>>

\* The refreshed listing is used as it is: the cascade is not applied to it.
Relist(w) ==
    /\ pc[w] = "relist"
    /\ snap' = [snap EXCEPT ![w] = task]
    /\ pc' = [pc EXCEPT ![w] = "decide"]
    /\ UNCHANGED <<db, lock, events, ext, wave, toSkip, co, outcome, rsnap, comp, budget>>

\* Terminal -> _finalise; nothing ready -> _partial_status; else gather a wave.
Decide(w) ==
    LET ready == ReadyTasks(snap[w])
        terminal == TerminalOutcome(snap[w])
    IN
    /\ pc[w] = "decide"
    /\ \/ /\ terminal # ""
          /\ outcome' = [outcome EXCEPT ![w] = terminal]
          /\ pc' = [pc EXCEPT ![w] = "finget"]
          /\ UNCHANGED co
       \/ /\ terminal = "" /\ ready = {}
          /\ pc' = [pc EXCEPT ![w] = "unlock"]
          /\ UNCHANGED <<outcome, co>>
       \/ /\ terminal = "" /\ ready # {}
          /\ co' = [co EXCEPT ![w] = [t \in Tasks |-> IF t \in ready THEN "queued" ELSE "off"]]
          /\ pc' = [pc EXCEPT ![w] = "wave"]
          /\ UNCHANGED outcome
    /\ UNCHANGED <<db, lock, events, ext, wave, snap, toSkip, rsnap, comp, budget>>

\* asyncio.gather has returned.
EndWave(w) ==
    /\ pc[w] = "wave" /\ co[w] = NoCo
    /\ wave' = [wave EXCEPT ![w] = @ + 1]
    /\ pc' = [pc EXCEPT ![w] = "list"]
    /\ UNCHANGED <<db, lock, events, ext, snap, toSkip, co, outcome, rsnap, comp, budget>>

------------------------------------------------------------------------------
(* _execute_one_task: the coroutine of worker w for task t.                *)

Attempt(w, t) == snap[w][t].retry    \* the last part of the idempotency key

Running(w) == {t \in Tasks : co[w][t] \in {"claimed", "asked"}}

Finish(w, t) == co' = [co EXCEPT ![w][t] = "off"]

\* The row is still the one this coroutine moved to in_progress.
Holds(w, t) == TaskMatches(t, "in_progress", snap[w][t].ver + 1)

WriteBack(w, t, to, retry) ==
    IF Holds(w, t) THEN SetTask(t, to, retry) ELSE UNCHANGED task

\* A slot of the semaphore, then -> in_progress; losing the race ends the
\* coroutine.  The winner of an adapter task puts its call on the wire.
Claim(w, t) ==
    /\ pc[w] = "wave" /\ co[w][t] = "queued"
    /\ Cardinality(Running(w)) < WaveConcurrency
    /\ IF TaskMatches(t, snap[w][t].state, snap[w][t].ver)
         THEN /\ SetTask(t, "in_progress", task[t].retry)
              /\ co' = [co EXCEPT ![w][t] = "claimed"]
              /\ sent' = IF kind[t] = "adapter" THEN sent \cup {<<t, Attempt(w, t)>>} ELSE sent
         ELSE /\ Finish(w, t)
              /\ UNCHANGED <<task, sent>>
    /\ UNCHANGED <<kind, old, output, ritm, run, approvals, lock, events, effects, released, pc, wave,
                   snap, toSkip, outcome, rsnap, comp, budget>>

coRest == <<kind, old, ritm, run, lock, events, effects, released, pc, wave, snap, toSkip, outcome,
            rsnap, comp, budget>>

\* Human work: marked done at once (with or without a tool_id).
ManualDone(w, t) ==
    /\ co[w][t] = "claimed" /\ kind[t] = "manual"
    /\ WriteBack(w, t, "done", task[t].retry)
    /\ Finish(w, t)
    /\ UNCHANGED <<output, approvals, sent, coRest>>

\* Automated without a tool_id: fail loud.
Misconfigured(w, t) ==
    /\ co[w][t] = "claimed" /\ kind[t] = "misconfigured"
    /\ WriteBack(w, t, "failed", Attempt(w, t))
    /\ Finish(w, t)
    /\ UNCHANGED <<output, approvals, sent, coRest>>

\* Approval gate: the approval row and the transition are two statements.
InsertApproval(w, t) ==
    /\ co[w][t] = "claimed" /\ kind[t] = "approval"
    /\ approvals' = approvals \cup {[task |-> t, attempt |-> Attempt(w, t), state |-> "pending"]}
    /\ co' = [co EXCEPT ![w][t] = "asked"]
    /\ UNCHANGED <<task, output, sent, coRest>>

Block(w, t) ==
    /\ co[w][t] = "asked"
    /\ WriteBack(w, t, "blocked", task[t].retry)
    /\ output' = IF Holds(w, t) THEN [output EXCEPT ![t] = Attempt(w, t)] ELSE output
    /\ Finish(w, t)
    /\ UNCHANGED <<approvals, sent, coRest>>

\* The adapter answered success: the resource goes into output_payload.
AdapterDone(w, t) ==
    /\ co[w][t] = "claimed" /\ kind[t] = "adapter"
    /\ <<t, Attempt(w, t)>> \in effects
    /\ WriteBack(w, t, "done", task[t].retry)
    /\ output' = IF Holds(w, t) THEN [output EXCEPT ![t] = Attempt(w, t)] ELSE output
    /\ Finish(w, t)
    /\ UNCHANGED <<approvals, sent, coRest>>

\* The integration refused the call: no side effect, now or later.
Refused(w, t) ==
    /\ <<t, Attempt(w, t)>> \in sent \ effects
    /\ sent' = sent \ {<<t, Attempt(w, t)>>}

\* asyncio.wait_for gave up; what the integration does with the call is open.
TimedOut(w, t) == UNCHANGED sent

AdapterRetry(w, t) ==
    /\ co[w][t] = "claimed" /\ kind[t] = "adapter"
    /\ Attempt(w, t) + 1 < EffectiveRetries
    /\ Refused(w, t) \/ TimedOut(w, t)
    /\ WriteBack(w, t, "ready", Attempt(w, t) + 1)
    /\ Finish(w, t)
    /\ UNCHANGED <<output, approvals, coRest>>

AdapterFail(w, t) ==
    /\ co[w][t] = "claimed" /\ kind[t] = "adapter"
    /\ \/ Refused(w, t)
       \/ Attempt(w, t) + 1 >= EffectiveRetries /\ TimedOut(w, t)
    /\ WriteBack(w, t, "failed", Attempt(w, t) + 1)
    /\ Finish(w, t)
    /\ UNCHANGED <<output, approvals, coRest>>

\* A statement or the adapter raises (AdapterInvocationError, or an approval
\* type the CHECK constraint refuses): _run_ready_wave logs the exception and
\* the row stays as it is.
TaskRaises(w, t) ==
    /\ MayRaise
    /\ co[w][t] # "off"
    /\ Finish(w, t)
    /\ UNCHANGED <<task, output, approvals, sent, coRest>>

------------------------------------------------------------------------------
(* _finalise                                                               *)

FinGet(w) ==
    /\ pc[w] = "finget"
    /\ rsnap' = [rsnap EXCEPT ![w] = ritm]
    /\ pc' = [pc EXCEPT ![w] = "finput"]
    /\ UNCHANGED <<db, lock, events, ext, wave, snap, toSkip, co, outcome, comp, budget>>

FinPut(w) ==
    /\ pc[w] = "finput"
    /\ IF rsnap[w].state # RitmStateFor(outcome[w]) /\ RitmMatches(rsnap[w])
         THEN SetRitm(RitmStateFor(outcome[w]))
         ELSE UNCHANGED ritm
    /\ pc' = [pc EXCEPT ![w] = "finrun"]
    /\ UNCHANGED <<kind, task, old, output, run, approvals, lock, events, ext, local, comp, budget>>

FinRun(w) ==
    /\ pc[w] = "finrun"
    /\ run' = outcome[w]
    /\ pc' = [pc EXCEPT ![w] = "unlock"]
    /\ UNCHANGED <<kind, task, old, output, ritm, approvals, lock, events, ext, local, comp, budget>>

------------------------------------------------------------------------------
(* compensate_ritm: takes no lock.                                         *)

CompList ==
    /\ comp.pc = "idle" /\ budget.cancels > 0
    /\ comp' = [comp EXCEPT !.pc = "undo", !.todo = {t \in Tasks : task[t].state = "done"}]
    /\ budget' = [budget EXCEPT !.cancels = @ - 1]
    /\ UNCHANGED <<db, lock, events, ext, pc, local>>

\* _compensate_one_task, in descending template id; a failed or missing
\* compensation is only reported.
CompTask(t) ==
    /\ comp.pc = "undo" /\ t \in comp.todo
    /\ \A u \in comp.todo : u <= t
    /\ comp' = [comp EXCEPT !.todo = @ \ {t}]
    /\ \/ /\ t \in Compensable /\ output[t] # NoKey
          /\ released' = released \cup {<<t, output[t]>>}
       \/ UNCHANGED released
    /\ UNCHANGED <<db, lock, events, sent, effects, pc, local, budget>>

CompGet ==
    /\ comp.pc = "undo" /\ comp.todo = {}
    /\ comp' = [comp EXCEPT !.pc = "put", !.rsnap = ritm]
    /\ UNCHANGED <<db, lock, events, ext, pc, local, budget>>

CompPut ==
    /\ comp.pc = "put"
    /\ IF comp.rsnap.state # "cancelled" /\ RitmMatches(comp.rsnap)
         THEN SetRitm("cancelled")
         ELSE UNCHANGED ritm
    /\ comp' = [comp EXCEPT !.pc = "idle", !.rsnap = NoRitm]
    /\ UNCHANGED <<kind, task, old, output, run, approvals, lock, events, ext, pc, local, budget>>

------------------------------------------------------------------------------
(* decide_approval on the row of a gate, one transaction.                  *)

\* An approval withdraws every other pending row of the RITM, those of other
\* gates included; the RITM itself only moves from 'requested', and no task.
DecideApproval(a, decision) ==
    /\ a \in approvals /\ a.state = "pending"
    /\ approvals' = {IF b = a THEN [b EXCEPT !.state = decision]
                     ELSE IF decision = "approved" /\ b.state = "pending"
                       THEN [b EXCEPT !.state = "withdrawn"]
                     ELSE b : b \in approvals}
    /\ IF ritm.state = "requested" THEN SetRitm(decision) ELSE UNCHANGED ritm
    /\ UNCHANGED <<kind, task, old, output, run, lock, events, ext, pc, local, comp, budget>>

------------------------------------------------------------------------------
(* The environment                                                         *)

\* The process dies: its coroutines vanish, its session drops the lock.
Crash(w) ==
    /\ budget.crashes > 0 /\ pc[w] # "idle"
    /\ budget' = [budget EXCEPT !.crashes = @ - 1]
    /\ pc' = [pc EXCEPT ![w] = "idle"]
    /\ lock' = lock \ {w}
    /\ wave' = [wave EXCEPT ![w] = 0]
    /\ snap' = [snap EXCEPT ![w] = NewRows]
    /\ toSkip' = [toSkip EXCEPT ![w] = {}]
    /\ co' = [co EXCEPT ![w] = NoCo]
    /\ outcome' = [outcome EXCEPT ![w] = ""]
    /\ rsnap' = [rsnap EXCEPT ![w] = NoRitm]
    /\ UNCHANGED <<db, events, ext, comp>>

\* UC08_STUCK_TASK_RECOVERY_MINUTES have passed since t first started.
Age(t) ==
    /\ task[t].state \in {"in_progress", "ready"} /\ t \notin old
    /\ old' = old \cup {t}
    /\ UNCHANGED <<kind, task, output, ritm, run, approvals, lock, events, ext, pc, local, comp, budget>>

\* The integration carries out a call it received, maybe after the caller gave up.
Provision(c) ==
    /\ c \in sent \ effects
    /\ effects' = effects \cup {c}
    /\ UNCHANGED <<db, lock, events, sent, released, pc, local, comp, budget>>

Init ==
    /\ kind \in Plans
    /\ task = NewRows
    /\ old = {}
    /\ output = [t \in Tasks |-> NoKey]
    /\ ritm \in {[state |-> s, ver |-> 1] : s \in StartStates}
    /\ run = "open"
    /\ approvals = {}
    /\ lock = {}
    /\ events = 1
    /\ sent = {} /\ effects = {} /\ released = {}
    /\ pc = [w \in Workers |-> "idle"]
    /\ wave = [w \in Workers |-> 0]
    /\ snap = [w \in Workers |-> NewRows]
    /\ toSkip = [w \in Workers |-> {}]
    /\ co = [w \in Workers |-> NoCo]
    /\ outcome = [w \in Workers |-> ""]
    /\ rsnap = [w \in Workers |-> NoRitm]
    /\ comp = [pc |-> "idle", todo |-> {}, rsnap |-> NoRitm]
    /\ budget = [events |-> MaxEvents, crashes |-> MaxCrashes, cancels |-> MaxCancels]

Coroutine(w, t) ==
    \/ Claim(w, t) \/ ManualDone(w, t) \/ Misconfigured(w, t)
    \/ InsertApproval(w, t) \/ Block(w, t)
    \/ AdapterDone(w, t) \/ AdapterRetry(w, t) \/ AdapterFail(w, t) \/ TaskRaises(w, t)

ExecutePlan(w) ==
    \/ TryLock(w) \/ Unlock(w) \/ GetRitm(w) \/ StartRitm(w) \/ RecoverStuck(w)
    \/ ListTasks(w) \/ WavesExhausted(w) \/ Relist(w) \/ Decide(w) \/ EndWave(w)
    \/ FinGet(w) \/ FinPut(w) \/ FinRun(w)
    \/ \E t \in Tasks : SkipTask(w, t) \/ Coroutine(w, t)

Compensate == CompList \/ (\E t \in Tasks : CompTask(t)) \/ CompGet \/ CompPut

Next ==
    \/ Republish
    \/ Compensate
    \/ \E w \in Workers : OnExecute(w) \/ ExecutePlan(w) \/ Crash(w)
    \/ \E a \in approvals, decision \in {"approved", "rejected"} : DecideApproval(a, decision)
    \/ \E t \in Tasks : Age(t)
    \/ \E c \in sent : Provision(c)

Spec == Init /\ [][Next]_vars

(* A live worker keeps running its coroutines, a subscribed worker is      *)
(* handed the events the broker accepted; crashes, cancellation, a second  *)
(* dispatch and the integration's progress are not promised.               *)
Fairness ==
    /\ \A w \in Workers : WF_vars(ExecutePlan(w))
    /\ WF_vars(\E w \in Workers : OnExecute(w))

FairSpec == Spec /\ Fairness

------------------------------------------------------------------------------
(* Properties                                                              *)

(* Type correctness; it includes the CHECK constraints of the four tables  *)
(* (03_fulfillment.sql), in particular that _finalise never writes the     *)
(* outcome 'blocked' its own mapping provides for.                         *)
TypeOK ==
    /\ kind \in [Tasks -> Kinds]
    /\ task \in [Tasks -> Row]
    /\ old \in SUBSET Tasks
    /\ output \in [Tasks -> Nat \cup {NoKey}]
    /\ ritm \in RitmRow
    /\ run \in RunOutcomes
    /\ approvals \in SUBSET Approval
    /\ lock \in SUBSET Workers
    /\ events \in Nat
    /\ sent \in SUBSET (Tasks \X Nat)
    /\ effects \in SUBSET (Tasks \X Nat)
    /\ released \in SUBSET (Tasks \X Nat)
    /\ pc \in [Workers -> PCs]
    /\ wave \in [Workers -> Nat]
    /\ snap \in [Workers -> [Tasks -> Row]]
    /\ toSkip \in [Workers -> SUBSET Tasks]
    /\ co \in [Workers -> [Tasks -> CoStates]]
    /\ outcome \in [Workers -> Outcomes]
    /\ rsnap \in [Workers -> RitmRow]
    /\ comp \in [pc : {"idle", "undo", "put"}, todo : SUBSET Tasks, rsnap : RitmRow]
    /\ budget \in [events : Nat, crashes : Nat, cancels : Nat]

(* A worker that finalises knows the outcome it is about to write.         *)
FinalisingHasOutcome ==
    \A w \in Workers : pc[w] \in {"finget", "finput", "finrun"} => outcome[w] # ""

(* Wave dispatch respects the DAG: a task that has ever left 'pending',    *)
(* other than by being skipped, has only done or skipped dependencies,     *)
(* whatever stale listing the worker that started it was working from.     *)
StartedAfterDeps ==
    \A t \in Tasks : task[t].state \notin {"pending", "skipped"} =>
        \A d \in DependsOn[t] : task[d].state \in {"done", "skipped"}

(* Cascade-skip: nothing downstream of a failed task is ever started, so a *)
(* started task's dependencies are done, not merely skipped.               *)
NoRunDownstreamOfFailure ==
    \A t \in Tasks : task[t].state \notin {"pending", "skipped"} =>
        \A d \in DependsOn[t] : task[d].state = "done"

(* 'fulfilled' at the RITM or at the run level means that every task is    *)
(* done: not skipped, not waiting, not taken back by recovery.             *)
FulfilledMeansAllDone ==
    ritm.state = "fulfilled" \/ run = "fulfilled" =>
        \A t \in Tasks : task[t].state = "done"

(* The result kept for a done adapter task is that of the attempt that     *)
(* counts: the resource exists and its attempt is the row's retry_count.   *)
(* A worker that lost its task to recovery cannot record a late answer.    *)
OutputIsCurrentAttempt ==
    \A t \in Tasks : task[t].state = "done" /\ kind[t] = "adapter" =>
        output[t] = task[t].retry /\ <<t, output[t]>> \in effects

(* A task that waits at its gate names the approval row that its own       *)
(* attempt asked for, and the row is there, decided or not: neither a crash*)
(* between the INSERT and the transition, which leaves an orphan row and   *)
(* repeats the gate, nor a coroutine that lost the gate to recovery can    *)
(* park the task on another attempt's row.                                 *)
BlockedOnOwnApproval ==
    \A t \in Tasks : task[t].state = "blocked" =>
        /\ output[t] = task[t].retry
        /\ \E a \in approvals : a.task = t /\ a.attempt = task[t].retry

(* The detailed executor implements the abstract task DAG: no finished     *)
(* task moves again, none starts early, none is skipped without cause.     *)
Dag == INSTANCE TaskDag WITH st <- [t \in Tasks |-> task[t].state]
ImplementsTaskDag == Dag!Spec

(* A dispatched plan reaches a terminal RITM state, when no worker crashes *)
(* and no adapter call raises: retries and waves are bounded, and neither  *)
(* a contended second dispatch nor a cancellation stops the driver.        *)
ReachesTerminal == <>[](ritm.state \in {"fulfilled", "failed", "cancelled"})

(* protocol.py: same-key calls have no second side effect, "what makes     *)
(* retries provably safe": a task provisions at most one resource.         *)
ProvisionedOnce ==
    \A t \in Tasks : Cardinality({k \in 0 .. EffectiveRetries : <<t, k>> \in effects}) <= 1
=============================================================================
