--------------------------- MODULE ServiceRequest ---------------------------
(***************************************************************************)
(* UC-8 intake and approval: create_service_request calls for one requester*)
(* and one catalog item, the approval gate that parks what they create,    *)
(* the approvers who decide, and the dispatch of execution.  Fulfillment   *)
(* models what happens after the dispatch; here an execution only starts   *)
(* and ends.                                                               *)
(*                                                                         *)
(* One action is one SQL statement or one transaction, except that the     *)
(* deciding transaction is taken apart, because two of them can wait for   *)
(* each other's row locks.  The RITM that a call inserts, its parent SR    *)
(* and its approval rows are named after the call.                         *)
(***************************************************************************)
EXTENDS Integers, FiniteSets

CONSTANTS
    Callers,       \* create_service_request calls
    Key,           \* [Callers -> keys]: idempotency_key, NoKey when absent
    NoKey,
    Users,         \* sys_user rows
    Requester,     \* requested_for
    PlanSize,      \* tasks of the item's template
    Deciders,      \* decide requests that can be in flight at once
    GateEnabled,   \* UC08_APPROVAL_ENABLED
    MaxDecisions,  \* bound: decisions submitted
    Nobody         \* no user, no RITM

ASSUME RequesterAssumption == Requester \in Users /\ Nobody \notin Users \cup Callers
ASSUME CountAssumption == PlanSize \in Nat /\ MaxDecisions \in Nat /\ GateEnabled \in BOOLEAN

VARIABLES
    policy,     \* matrix row and rosters: [required, blockSelf, stage, desk]
    pc,         \* where each call is
    target,     \* its outcome.ritm_id
    sr,         \* status of the itsm.request row the call opened
    ritm,       \* itsm.request_item rows: [state, approval]
    planned,    \* how many of each RITM's task rows exist
    row,        \* itsm.approval rows: [state, by]
    events,     \* execute events accepted for each RITM and not delivered
    released,   \* how often each RITM was dispatched
    started,    \* RITMs an executor has begun to run
    running,    \* RITMs an executor is running
    dec,        \* decide requests: [pc, row, by, yes, locked, todo]
    budget      \* decisions still to be submitted

intake == <<pc, target>>
vars == <<policy, pc, target, sr, ritm, planned, row, events, released, started, running,
          dec, budget>>

Rows == Callers \X Users
Policies == [required : BOOLEAN, blockSelf : BOOLEAN, stage : SUBSET Users, desk : SUBSET Users]
RitmStates == {"none", "requested", "approved", "in_progress", "fulfilled", "rejected", "failed"}
Open == {"requested", "approved", "in_progress"}
PCs == {"request", "dup", "key", "insert", "tasks", "gate", "hold", "dispatch", "end"}

NoRow == [state |-> "none", by |-> Nobody]
Idle == [pc |-> "idle", row |-> <<Nobody, Nobody>>, by |-> Nobody, yes |-> FALSE,
         locked |-> {}, todo |-> {}]

RowsOf(r) == {x \in Rows : row[x].state # "none" /\ target[x[1]] = r}

------------------------------------------------------------------------------
(* resolve_approvers: the roster of the first stage, minus the requester   *)
(* when the stage blocks self-approval, else the service desk's roster     *)
(* filtered the same way; {} is an unresolved decision.  A stage that is   *)
(* the service desk itself is stage = desk.                                *)

Eligible(roster) == IF policy.blockSelf THEN roster \ {Requester} ELSE roster

\* Fault: the fallback roster is not filtered by the self-approval guard.
ResolveApproversSelf ==
    IF Eligible(policy.stage) # {} THEN Eligible(policy.stage) ELSE policy.desk

ResolveApprovers ==
    IF Eligible(policy.stage) # {} THEN Eligible(policy.stage) ELSE Eligible(policy.desk)

------------------------------------------------------------------------------
(* create_service_request                                                  *)

Goto(c, l) == pc' = [pc EXCEPT ![c] = l]

InsertRequest(c) ==
    /\ pc[c] = "request"
    /\ sr' = [sr EXCEPT ![c] = "requested"]
    /\ Goto(c, "dup")
    /\ UNCHANGED <<policy, target, ritm, planned, row, events, released, started, running, dec,
                   budget>>

\* core.fulfill_request: DuplicateRequestError ends the call, the SR stays.
FindOpenDuplicate(c) ==
    /\ pc[c] = "dup"
    /\ Goto(c, IF \E r \in Callers : ritm[r].state \in Open THEN "end" ELSE "key")
    /\ UNCHANGED <<policy, target, sr, ritm, planned, row, events, released, started, running,
                   dec, budget>>

SameKey(c, r) == Key[c] # NoKey /\ ritm[r].state # "none" /\ Key[r] = Key[c]

\* Fault: the call that finds its key leaves the task rows to the other call.
CheckKeySkipsTasks(c) ==
    /\ pc[c] = "key"
    /\ \/ \E r \in Callers :
             /\ SameKey(c, r)
             /\ target' = [target EXCEPT ![c] = r]
             /\ Goto(c, "gate")
       \/ /\ \A r \in Callers : ~ SameKey(c, r)
          /\ Goto(c, "insert")
          /\ UNCHANGED target
    /\ UNCHANGED <<policy, sr, ritm, planned, row, events, released, started, running, dec,
                   budget>>

\* insert_request_item, idempotency short-circuit ...
CheckKey(c) ==
    /\ pc[c] = "key"
    /\ \/ \E r \in Callers :
             /\ SameKey(c, r)
             /\ target' = [target EXCEPT ![c] = r]
             /\ Goto(c, "tasks")
       \/ /\ \A r \in Callers : ~ SameKey(c, r)
          /\ Goto(c, "insert")
          /\ UNCHANGED target
    /\ UNCHANGED <<policy, sr, ritm, planned, row, events, released, started, running, dec,
                   budget>>

\* ... and INSERT: the unique key makes the slower of two equal calls fail.
InsertRitm(c) ==
    /\ pc[c] = "insert"
    /\ IF \E r \in Callers : SameKey(c, r)
         THEN /\ Goto(c, "end")
              /\ UNCHANGED <<ritm, target>>
         ELSE /\ ritm' = [ritm EXCEPT ![c].state = "requested"]
              /\ target' = [target EXCEPT ![c] = c]
              /\ Goto(c, "tasks")
    /\ UNCHANGED <<policy, sr, planned, row, events, released, started, running, dec, budget>>

\* insert_tasks, one INSERT per task in the order of the plan; a row that
\* another call inserted is skipped.
InsertTask(c) ==
    /\ pc[c] = "tasks" /\ planned[target[c]] < PlanSize
    /\ planned' = [planned EXCEPT ![target[c]] = @ + 1]
    /\ UNCHANGED <<policy, intake, sr, ritm, row, events, released, started, running, dec, budget>>

\* The plan is there; then insert_fulfillment_run.
InsertRun(c) ==
    /\ pc[c] = "tasks" /\ planned[target[c]] = PlanSize
    /\ Goto(c, "gate")
    /\ UNCHANGED <<policy, target, sr, ritm, planned, row, events, released, started, running,
                   dec, budget>>

------------------------------------------------------------------------------
(* _apply_approval_gate                                                    *)

SelfService(c) ==
    /\ pc[c] = "gate"
    /\ ~ GateEnabled \/ ~ policy.required
    /\ Goto(c, "dispatch")
    /\ UNCHANGED <<policy, target, sr, ritm, planned, row, events, released, started, running,
                   dec, budget>>

\* Nobody can approve: held, in two statements.
HoldUnresolved(c) ==
    /\ pc[c] = "gate" /\ GateEnabled /\ policy.required /\ ResolveApprovers = {}
    /\ ritm' = [ritm EXCEPT ![target[c]].approval = "requested"]
    /\ Goto(c, "hold")
    /\ UNCHANGED <<policy, target, sr, planned, row, events, released, started, running, dec,
                   budget>>

HoldStamp(c) ==
    /\ pc[c] = "hold"
    /\ sr' = [sr EXCEPT ![c] = "pending_approval"]
    /\ Goto(c, "end")
    /\ UNCHANGED <<policy, target, ritm, planned, row, events, released, started, running, dec,
                   budget>>

\* One transaction: a pending row per approver, approval_state, the SR.
Park(c) ==
    /\ pc[c] = "gate" /\ GateEnabled /\ policy.required /\ ResolveApprovers # {}
    /\ row' = [x \in Rows |-> IF x[1] = c /\ x[2] \in ResolveApprovers
                                THEN [state |-> "pending", by |-> Nobody] ELSE row[x]]
    /\ ritm' = [ritm EXCEPT ![target[c]].approval = "requested"]
    /\ sr' = [sr EXCEPT ![c] = "pending_approval"]
    /\ Goto(c, "end")
    /\ UNCHANGED <<policy, target, planned, events, released, started, running, dec, budget>>

\* dispatch_execute; a failed publish is logged and not retried.
Dispatch(c) ==
    /\ pc[c] = "dispatch"
    /\ \/ /\ events' = [events EXCEPT ![target[c]] = @ + 1]
          /\ released' = [released EXCEPT ![target[c]] = @ + 1]
       \/ UNCHANGED <<events, released>>
    /\ Goto(c, "end")
    /\ UNCHANGED <<policy, target, sr, ritm, planned, row, started, running, dec, budget>>

\* The process dies, a statement raises, or the gate raises (fail closed).
Abandon(c) ==
    /\ pc[c] # "end"
    /\ Goto(c, "end")
    /\ UNCHANGED <<policy, target, sr, ritm, planned, row, events, released, started, running,
                   dec, budget>>

------------------------------------------------------------------------------
(* decide_approval                                                         *)

RitmOf(d) == target[dec[d].row[1]]

Lockers(x) == {e \in Deciders : x \in dec[e].locked}

\* The row is pending and the actor is its requested_from.
GetApproval(d, x, u, yes) ==
    /\ dec[d].pc = "idle" /\ budget > 0
    /\ row[x].state = "pending" /\ u = x[2]
    /\ dec' = [dec EXCEPT ![d] = [Idle EXCEPT !.pc = "update", !.row = x, !.by = u, !.yes = yes]]
    /\ budget' = budget - 1
    /\ UNCHANGED <<policy, intake, sr, ritm, planned, row, events, released, started, running>>

\* UPDATE ... WHERE state = 'pending' waits for the row lock, then rechecks.
UpdateDecision(d) ==
    LET x == dec[d].row
        siblings == {y \in RowsOf(RitmOf(d)) \ {x} : row[y].state = "pending"}
    IN
    /\ dec[d].pc = "update" /\ Lockers(x) = {}
    /\ dec' = [dec EXCEPT ![d] =
                 IF row[x].state # "pending" THEN Idle
                 ELSE IF dec[d].yes THEN [@ EXCEPT !.pc = "withdraw", !.locked = {x}, !.todo = siblings]
                 ELSE [@ EXCEPT !.pc = "apply", !.locked = {x}]]
    /\ UNCHANGED <<policy, intake, sr, ritm, planned, row, events, released, started, running,
                   budget>>

\* withdraw_other_pending_approvals, one row lock at a time.
WithdrawOther(d, x) ==
    /\ dec[d].pc = "withdraw" /\ x \in dec[d].todo /\ Lockers(x) = {}
    /\ dec' = [dec EXCEPT ![d].todo = @ \ {x},
                          ![d].locked = IF row[x].state = "pending" THEN @ \cup {x} ELSE @]
    /\ UNCHANGED <<policy, intake, sr, ritm, planned, row, events, released, started, running,
                   budget>>

\* Postgres ends a lock cycle by aborting one of its transactions.
DeadlockAbort(d) ==
    /\ dec[d].pc = "withdraw"
    /\ \E e \in Deciders \ {d} :
          /\ dec[d].todo \cap dec[e].locked # {}
          /\ dec[e].todo \cap dec[d].locked # {}
    /\ dec' = [dec EXCEPT ![d] = Idle]
    /\ UNCHANGED <<policy, intake, sr, ritm, planned, row, events, released, started, running,
                   budget>>

\* Fault: approving an approved RITM counts as a transition.
ApplyOutcomeAgain(d) ==
    /\ dec[d].pc \in {"withdraw", "apply"} /\ dec[d].todo = {}
    /\ row' = [x \in Rows |->
                 IF x = dec[d].row
                   THEN [state |-> IF dec[d].yes THEN "approved" ELSE "rejected", by |-> dec[d].by]
                 ELSE IF x \in dec[d].locked THEN [row[x] EXCEPT !.state = "withdrawn"]
                 ELSE row[x]]
    /\ LET to == IF dec[d].yes THEN "approved" ELSE "rejected" IN
       IF ritm[RitmOf(d)].state = "requested" \/ (dec[d].yes /\ ritm[RitmOf(d)].state = "approved")
         THEN /\ ritm' = [ritm EXCEPT ![RitmOf(d)] = [state |-> to, approval |-> to]]
              /\ sr' = [sr EXCEPT ![RitmOf(d)] = to]
              /\ dec' = [dec EXCEPT ![d] =
                           IF @.yes THEN [@ EXCEPT !.pc = "release", !.locked = {}] ELSE Idle]
         ELSE /\ dec' = [dec EXCEPT ![d] = Idle]
              /\ UNCHANGED <<ritm, sr>>
    /\ UNCHANGED <<policy, intake, planned, events, released, started, running, budget>>

\* apply_approval_outcome (only from 'requested'), set_request_lifecycle of
\* the RITM's parent SR, COMMIT.
ApplyOutcome(d) ==
    /\ dec[d].pc \in {"withdraw", "apply"} /\ dec[d].todo = {}
    /\ row' = [x \in Rows |->
                 IF x = dec[d].row
                   THEN [state |-> IF dec[d].yes THEN "approved" ELSE "rejected", by |-> dec[d].by]
                 ELSE IF x \in dec[d].locked THEN [row[x] EXCEPT !.state = "withdrawn"]
                 ELSE row[x]]
    /\ LET to == IF dec[d].yes THEN "approved" ELSE "rejected" IN
       IF ritm[RitmOf(d)].state = "requested"
         THEN /\ ritm' = [ritm EXCEPT ![RitmOf(d)] = [state |-> to, approval |-> to]]
              /\ sr' = [sr EXCEPT ![RitmOf(d)] = to]
              /\ dec' = [dec EXCEPT ![d] =
                           IF @.yes THEN [@ EXCEPT !.pc = "release", !.locked = {}] ELSE Idle]
         ELSE /\ dec' = [dec EXCEPT ![d] = Idle]
              /\ UNCHANGED <<ritm, sr>>
    /\ UNCHANGED <<policy, intake, planned, events, released, started, running, budget>>

\* release_fulfilment by the route; a failed publish is logged, not retried.
Release(d) ==
    /\ dec[d].pc = "release"
    /\ \/ /\ events' = [events EXCEPT ![RitmOf(d)] = @ + 1]
          /\ released' = [released EXCEPT ![RitmOf(d)] = @ + 1]
       \/ UNCHANGED <<events, released>>
    /\ dec' = [dec EXCEPT ![d] = Idle]
    /\ UNCHANGED <<policy, intake, sr, ritm, planned, row, started, running, budget>>

\* The process dies: an open transaction rolls back, a release is lost.
DeciderDies(d) ==
    /\ dec[d].pc # "idle"
    /\ dec' = [dec EXCEPT ![d] = Idle]
    /\ UNCHANGED <<policy, intake, sr, ritm, planned, row, events, released, started, running,
                   budget>>

------------------------------------------------------------------------------
(* execute_plan, seen from here                                            *)

ExecuteStart(r) ==
    /\ events[r] > 0 /\ r \notin running
    /\ events' = [events EXCEPT ![r] = @ - 1]
    /\ started' = started \cup {r} /\ running' = running \cup {r}
    /\ ritm' = [ritm EXCEPT ![r].state = IF @ = "requested" THEN "in_progress" ELSE @]
    /\ UNCHANGED <<policy, intake, sr, planned, row, released, dec, budget>>

ExecuteEnd(r) ==
    /\ r \in running
    /\ running' = running \ {r}
    /\ \E s \in {"fulfilled", "failed"} : ritm' = [ritm EXCEPT ![r].state = s]
    /\ UNCHANGED <<policy, intake, sr, planned, row, events, released, started, dec, budget>>

Init ==
    /\ policy \in Policies
    /\ pc = [c \in Callers |-> "request"]
    /\ target = [c \in Callers |-> Nobody]
    /\ sr = [c \in Callers |-> "none"]
    /\ ritm = [c \in Callers |-> [state |-> "none", approval |-> "none"]]
    /\ planned = [c \in Callers |-> 0]
    /\ row = [x \in Rows |-> NoRow]
    /\ events = [c \in Callers |-> 0]
    /\ released = [c \in Callers |-> 0]
    /\ started = {} /\ running = {}
    /\ dec = [d \in Deciders |-> Idle]
    /\ budget = MaxDecisions

Create(c) ==
    \/ InsertRequest(c) \/ FindOpenDuplicate(c) \/ CheckKey(c) \/ InsertRitm(c)
    \/ InsertTask(c) \/ InsertRun(c) \/ SelfService(c) \/ HoldUnresolved(c) \/ HoldStamp(c)
    \/ Park(c) \/ Dispatch(c) \/ Abandon(c)

Decide(d) ==
    \/ \E x \in Rows, u \in Users, yes \in BOOLEAN : GetApproval(d, x, u, yes)
    \/ UpdateDecision(d) \/ (\E x \in Rows : WithdrawOther(d, x)) \/ DeadlockAbort(d)
    \/ ApplyOutcome(d) \/ Release(d) \/ DeciderDies(d)

Next ==
    \/ \E c \in Callers : Create(c)
    \/ \E d \in Deciders : Decide(d)
    \/ \E r \in Callers : ExecuteStart(r) \/ ExecuteEnd(r)

Spec == Init /\ [][Next]_vars

------------------------------------------------------------------------------
(* Properties                                                              *)

(* The gate fails closed: where approval is required nothing is executed   *)
(* before somebody asked to decide approved it, other than the requester   *)
(* where the stage says so; neither an empty roster, nor the fallback, nor *)
(* a racing retry of the call gets around it.                              *)
NoUnapprovedRun ==
    \A r \in started : GateEnabled /\ policy.required =>
        \E x \in RowsOf(r) : /\ row[x].state = "approved" /\ row[x].by = x[2]
                             /\ policy.blockSelf => row[x].by # Requester

(* However many approvers decide at once, and however often, the fulfilment*)
(* the gate withheld is released at most once.                             *)
ReleasedOnce ==
    GateEnabled /\ policy.required => \A r \in Callers : released[r] <= 1

(* An execution never finds an empty or a half-inserted plan, which        *)
(* _is_terminal would call fulfilled: the rows are inserted one by one, by *)
(* calls that may die in between, and all of them exist before any event.  *)
RunHasPlan == \A r \in Callers : released[r] > 0 => planned[r] = PlanSize

=============================================================================
