------------------------------- MODULE Triage -------------------------------
(***************************************************************************)
(* UC-5 at work: the propose and decide endpoints (api/uc05_routes.py),    *)
(* the four-step plan behind propose, the worker behind decide and the     *)
(* conditional UPDATE of the ticket store, for requests that run at once.  *)
(*                                                                         *)
(* An action runs to the next await.  A proposal is named by the request   *)
(* that made it.                                                           *)
(***************************************************************************)
EXTENDS TriageAdvice

CONSTANTS
  Jobs,            \* requests
  Asks(_),         \* what a request can be
  Rankings,        \* orders in which the two searches may return the tickets
  Replies,         \* what the model may answer: tie, propose, impact, urgency
  Table0,          \* the tickets at the start
  Staff,           \* tenant -> its people
  Closing          \* tickets that others close

Fields == {"tenant", "service", "status", "title", "age", "svc", "vals", "sla"}

(* The tables hold what the service wrote: a deadline that was set follows *)
(* the priority, and an assignee is of the ticket's tenant.                *)
ASSUME TicketAssumption ==
  \A t \in DOMAIN Table0 :
    LET r == Table0[t]
    IN /\ DOMAIN r = Fields /\ DOMAIN r.vals = Columns
       /\ r.sla # 0 => r.sla = ComputeSlaDue(r.vals["priority"])
       /\ r.vals["assigned_to"] \in Staff[r.tenant] \cup {NoVal}

(* The searches return tickets there are, and a request is one of three. *)
ASSUME AskAssumption ==
  /\ Rankings \subseteq Seq(DOMAIN Table0) /\ Closing \subseteq DOMAIN Table0
  /\ \A j \in Jobs : \A a \in Asks(j) :
       /\ a.kind \in {"queue", "propose", "decide"}
       /\ a.kind = "decide" => a.proposal \in Jobs

VARIABLES
  row,     \* itsm.incident and itsm.request
  prop,    \* _proposal_cache
  job,     \* requests under way
  bus,     \* the decide messages: job -> its state on the bus
  news     \* proposals announced on SUBJECT_APPLIED

vars == <<row, prop, job, bus, news>>

Roles == {"technician_l1", "technician_l2", "triage_desk", "admin", "service_desk_agent", "manager"}
NoProposal == [ticket |-> NoVal]
Idle == [pc |-> "idle", ask |-> <<>>, check |-> <<>>, assign |-> <<>>, prio |-> <<>>,
         p |-> NoProposal, reply |-> "none", final |-> <<>>, res |-> "none"]

Init ==
  /\ row = Table0
  /\ prop = [j \in Jobs |-> NoProposal]
  /\ job = [j \in Jobs |-> Idle]
  /\ bus = [j \in Jobs |-> "none"] /\ news = {}

Set(j, r) == job' = [job EXCEPT ![j] = r]
End(j, res) == [Idle EXCEPT !.pc = "end", !.ask = job[j].ask, !.res = res,
                            !.p = job[j].p, !.final = job[j].final]

-----------------------------------------------------------------------------
(* DbStore *)

Found(t, tenant) == t \in DOMAIN row /\ row[t].tenant = tenant

ListAll(tenant, service) ==
  {t \in DOMAIN row : row[t].tenant = tenant /\ row[t].service = service /\ row[t].status \notin ClosedStatuses}

(* UPDATE ... WHERE category IS NULL; only the values that are there are   *)
(* columns of the statement.                                               *)
Written(r, final, sla) ==
  [r EXCEPT !.vals = [c \in Columns |-> IF final[c] # NoVal THEN final[c] ELSE r.vals[c]],
            !.sla = sla, !.status = "assigned"]
(* Mutant: the statement has no condition on the category. *)
ApplyAlways(p, final, sla) ==
  IF ~Found(p.ticket, p.tenant) THEN [reply |-> "missing", row |-> row]
  ELSE [reply |-> "applied", row |-> [row EXCEPT ![p.ticket] = Written(row[p.ticket], final, sla)]]
Apply(p, final, sla) ==
  IF ~Found(p.ticket, p.tenant) THEN [reply |-> "missing", row |-> row]
  ELSE IF row[p.ticket].vals["category"] # NoVal THEN [reply |-> "conflict", row |-> row]
  ELSE [reply |-> "applied", row |-> [row EXCEPT ![p.ticket] = Written(row[p.ticket], final, sla)]]

(* apply_triage_decision: "no" never reaches the store. *)
(* Mutant: the deadline follows the suggested priority, not the edited one. *)
DecisionSuggested(p, ask) ==
  LET final == MergeFinalValues(p, ask.edits)
      done == Apply(p, final, ComputeSlaDue(p.vals["priority"]))
  IN IF ask.choice = "no" THEN [reply |-> "discarded", row |-> row, final |-> <<>>]
     ELSE [reply |-> done.reply, row |-> done.row, final |-> final]
Decision(p, ask) ==
  LET final == MergeFinalValues(p, ask.edits)
      done == Apply(p, final, ComputeSlaDue(final["priority"]))
  IN IF ask.choice = "no" THEN [reply |-> "discarded", row |-> row, final |-> <<>>]
     ELSE [reply |-> done.reply, row |-> done.row, final |-> final]

-----------------------------------------------------------------------------
(* POST /propose: the plan check, then assign and prio, then assemble, run *)
(* by the turn executor.                                                   *)

Refused(ask) == IF ask.role \notin Roles THEN {"403"} ELSE {}

Begin(j) ==
  /\ job[j].pc = "idle"
  /\ \E a \in Asks(j) :
       Set(j, IF Refused(a) # {} THEN [Idle EXCEPT !.pc = "end", !.ask = a, !.res = "403"]
              ELSE [Idle EXCEPT !.pc = a.kind, !.ask = a])
  /\ UNCHANGED <<row, prop, bus, news>>

QueueSummary(j) ==
  /\ job[j].pc = "queue"
  /\ Set(j, [End(j, "ok") EXCEPT !.final = {t \in ListAll(job[j].ask.tenant, job[j].ask.service) : IsInQueue(row[t])}])
  /\ UNCHANGED <<row, prop, bus, news>>

ProposeRead(j) ==
  /\ job[j].pc = "propose"
  /\ LET t == job[j].ask.ticket
     IN Set(j, IF ~Found(t, job[j].ask.tenant) THEN End(j, "404")
               ELSE IF MissingFields(row[t]) = {} THEN End(j, "409")
               ELSE [job[j] EXCEPT !.pc = "check"])
  /\ UNCHANGED <<row, prop, bus, news>>

CheckStep(j) ==
  /\ job[j].pc = "check"
  /\ \E fts \in Rankings, vec \in Rankings \cup {<<>>}, llm \in Replies :
       Set(j, [job[j] EXCEPT !.pc = "advise",
                 !.check = CheckDuplicates(row, job[j].ask.ticket, fts, vec, llm)])
  /\ UNCHANGED <<row, prop, bus, news>>

(* The assignment and the priority steps run side by side and touch        *)
(* nothing: one action.  The priority step may raise; without an           *)
(* assignment the proposal is assembled with an empty one.                 *)
AdviseSteps(j) ==
  /\ job[j].pc = "advise"
  /\ LET t == job[j].ask.ticket
         category == job[j].check.sugg["category"].value
     IN IF PrioritizeRaises(row[t], category) THEN Set(j, End(j, "500"))
        ELSE \E llm \in Replies, assigned \in BOOLEAN :
               Set(j, [job[j] EXCEPT !.pc = "assemble",
                         !.assign = IF assigned THEN RecommendAssignment(job[j].check, llm) ELSE EmptyAssignment,
                         !.prio = PrioritizeEntity(row[t], category, llm.infer)])
  /\ UNCHANGED <<row, prop, bus, news>>

AssembleStep(j) ==
  /\ job[j].pc = "assemble"
  /\ LET t == job[j].ask.ticket
         p == AssembleProposal(t, row[t], job[j].check, job[j].assign, job[j].prio)
     IN /\ prop' = [prop EXCEPT ![j] = p]
        /\ Set(j, [End(j, "ok") EXCEPT !.p = p])
  /\ UNCHANGED <<row, bus, news>>

(* A read of the store fails, or the check, the priority or the assembly:  *)
(* assemble needs check and prio, so there is no proposal.                 *)
StepFails(j) ==
  /\ job[j].pc \in {"queue", "propose", "check", "advise", "assemble"}
  /\ Set(j, End(j, "500"))
  /\ UNCHANGED <<row, prop, bus, news>>

-----------------------------------------------------------------------------
(* POST /decide: with a dispatcher the decision goes over the bus with the *)
(* proposal inside; without one the handler applies it.                    *)

BadFields(p, ask) == DOMAIN ask.edits \ TriageFieldsFor(p.service)

DecideRead(j) ==
  /\ job[j].pc = "decide"
  /\ LET p == prop[job[j].ask.proposal]
     IN IF p = NoProposal \/ p.tenant # job[j].ask.tenant THEN Set(j, End(j, "404")) /\ UNCHANGED bus
        ELSE IF BadFields(p, job[j].ask) # {} THEN Set(j, End(j, "422")) /\ UNCHANGED bus
        ELSE /\ Set(j, [job[j] EXCEPT !.pc = IF job[j].ask.bus THEN "sent" ELSE "direct", !.p = p])
             /\ bus' = IF job[j].ask.bus THEN [bus EXCEPT ![j] = "queued"] ELSE bus
  /\ UNCHANGED <<row, prop, news>>

DecideDirect(j) ==
  /\ job[j].pc = "direct"
  /\ LET d == Decision(job[j].p, job[j].ask)
     IN /\ row' = d.row
        /\ Set(j, [job[j] EXCEPT !.pc = "reply", !.reply = d.reply, !.final = d.final])
  /\ UNCHANGED <<prop, bus, news>>

(* TriageAgent._on_decide: whatever raises, the announcement included, is  *)
(* answered with an error.                                                 *)
OnDecide(j) ==
  /\ bus[j] = "queued"
  /\ LET d == Decision(job[j].p, job[j].ask)
     IN \E published \in BOOLEAN :
          /\ row' = d.row
          /\ bus' = [bus EXCEPT ![j] = IF d.reply = "discarded" \/ (d.reply = "applied" /\ published)
                                       THEN d.reply ELSE "error"]
          /\ news' = IF d.reply = "applied" /\ published THEN news \cup {j} ELSE news
          /\ Set(j, [job[j] EXCEPT !.final = d.final])
  /\ UNCHANGED prop

(* DbStore.apply raises OneOpsError: the statement failed, or it took      *)
(* effect and its answer was lost.  The handler lets it through; the       *)
(* worker answers with an error.                                           *)
ApplyFails(j) ==
  /\ \/ job[j].pc = "direct" /\ Set(j, End(j, "500")) /\ UNCHANGED bus
     \/ bus[j] = "queued" /\ bus' = [bus EXCEPT ![j] = "error"] /\ UNCHANGED job
  /\ job[j].ask.choice = "yes"
  /\ row' \in {row, Decision(job[j].p, job[j].ask).row}
  /\ UNCHANGED <<prop, news>>

(* dispatch_decide: an error body is a RuntimeError, so a 409. *)
DispatchReturns(j) ==
  /\ job[j].pc = "sent" /\ bus[j] \in {"applied", "discarded", "error"}
  /\ Set(j, [job[j] EXCEPT !.pc = "reply", !.reply = IF bus[j] = "error" THEN "conflict" ELSE bus[j]])
  /\ UNCHANGED <<row, prop, bus, news>>

(* The request times out; the message, if a worker has it, is still        *)
(* handled.                                                                *)
DispatchTimeout(j) ==
  /\ job[j].pc = "sent"
  /\ Set(j, End(j, "500"))
  /\ UNCHANGED <<row, prop, bus, news>>

NoResponders(j) ==
  /\ job[j].pc = "sent" /\ bus[j] = "queued"
  /\ Set(j, End(j, "500"))
  /\ bus' = [bus EXCEPT ![j] = "none"]
  /\ UNCHANGED <<row, prop, news>>

(* Success evicts the proposal; an error leaves it. *)
DecideReply(j) ==
  /\ job[j].pc = "reply"
  /\ LET ok == job[j].reply \in {"applied", "discarded"}
     IN /\ Set(j, End(j, CASE ok -> job[j].reply [] job[j].reply = "missing" -> "404" [] OTHER -> "409"))
        /\ prop' = IF ok THEN [prop EXCEPT ![job[j].ask.proposal] = NoProposal] ELSE prop
  /\ UNCHANGED <<row, bus, news>>

-----------------------------------------------------------------------------
(* Another part of the desk closes a ticket. *)
CloseTicket(t) ==
  /\ row[t].status = "open"
  /\ row' = [row EXCEPT ![t].status = "closed"]
  /\ UNCHANGED <<prop, job, bus, news>>

Done == (\A j \in Jobs : job[j].pc = "end" /\ bus[j] # "queued") /\ UNCHANGED vars

Next ==
  \/ \E j \in Jobs :
       \/ Begin(j) \/ QueueSummary(j) \/ ProposeRead(j) \/ CheckStep(j) \/ AdviseSteps(j) \/ AssembleStep(j)
       \/ StepFails(j) \/ DecideRead(j) \/ DecideDirect(j) \/ OnDecide(j) \/ ApplyFails(j) \/ DispatchReturns(j)
       \/ DispatchTimeout(j) \/ NoResponders(j) \/ DecideReply(j)
  \/ \E t \in Closing : CloseTicket(t)
  \/ Done

Spec == Init /\ [][Next]_vars

-----------------------------------------------------------------------------
(* A decision whose caller was told "applied" and that set the category    *)
(* stays in the row: no later decision, late message or retry writes over  *)
(* the values and the deadline it was told (DbStore.apply).                *)
DecisionIsKept ==
  \A j \in Jobs :
    job[j].res = "applied" /\ job[j].final["category"] # NoVal =>
      LET r == row[job[j].p.ticket]
      IN /\ \A c \in Columns : job[j].final[c] # NoVal => r.vals[c] = job[j].final[c]
         /\ r.sla = ComputeSlaDue(job[j].final["priority"])

(* The deadline of a row is the window of the priority the row has,        *)
(* whatever was edited and however often it was written (apply.py).        *)
SlaFollowsPriority ==
  \A t \in DOMAIN row : row[t].sla # 0 => row[t].sla = ComputeSlaDue(row[t].vals["priority"])

(* Neither a proposal nor a row ever names a person of another tenant: the *)
(* votes come from the tenant's own tickets and the decisions from its own *)
(* people (similarity_search.py, decide).                                  *)
StaffOfTenant ==
  LET own(r) == r.vals["assigned_to"] \in Staff[r.tenant] \cup {NoVal}
  IN /\ \A t \in DOMAIN row : own(row[t])
     /\ \A j \in Jobs : prop[j] # NoProposal => own(prop[j])

(* The duplicate a proposal points to is another ticket of the tenant,     *)
(* though the search returns the ticket itself (check_duplicates.py).      *)
DuplicateIsAnother ==
  \A j \in Jobs : prop[j] # NoProposal /\ prop[j].top # NoVal =>
    prop[j].top # prop[j].ticket /\ row[prop[j].top].tenant = prop[j].tenant

=============================================================================
