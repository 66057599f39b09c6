------------------------- MODULE FulfillmentProofs -------------------------
(***************************************************************************)
(* Proofs about the UC-8 fulfilment executor, for every plan, every number *)
(* of workers, every assignment of lock keys, any number of crashes,       *)
(* recoveries, dispatches and cancellations.  What they rest on is the     *)
(* optimistic lock; only CascadeSafe needs the advisory lock, and says so. *)
(***************************************************************************)
EXTENDS Fulfillment, TLAPS

Final == {"done", "failed", "skipped"}

HasRow(rows, t, n) == \E a \in rows : a.task = t /\ a.attempt = n

(* A row a worker read is an earlier version of the row: the version never *)
(* goes back, and an equal version is an equal row.                        *)
SnapSound ==
    \A w \in Workers, t \in Tasks :
        /\ snap[w][t].ver <= task[t].ver
        /\ snap[w][t].ver = task[t].ver => snap[w][t] = task[t]
        /\ snap[w][t].state \in Final => task[t].state = snap[w][t].state

(* Version 1 is the row insert_tasks wrote.                                *)
FirstVersion ==
    \A t \in Tasks : task[t].ver >= 1 /\ (task[t].ver = 1 => task[t] = NewRows[t])

(* Coroutines live only inside a wave, the cascade's list only inside the  *)
(* cascade.                                                                *)
LocalPhases ==
    \A w \in Workers :
        /\ pc[w] # "wave" => co[w] = NoCo
        /\ pc[w] # "skip" => toSkip[w] = {}

(* A coroutine exists only for a task that the worker's listing made ready. *)
QueuedReady ==
    \A w \in Workers, t \in Tasks : co[w][t] # "off" => t \in ReadyTasks(snap[w])

(* After its claim a coroutine owns the row until the version moves on.    *)
ClaimSound ==
    \A w \in Workers, t \in Tasks : co[w][t] \in {"claimed", "asked"} =>
        /\ snap[w][t].ver < task[t].ver
        /\ task[t].ver = snap[w][t].ver + 1 =>
               task[t].state = "in_progress" /\ task[t].retry = snap[w][t].retry

(* The cascade marks only what is downstream of a failure.                 *)
ToSkipPoisoned ==
    \A w \in Workers : toSkip[w] \subseteq TransitivelyBlocked(snap[w])

SkippedPoisoned ==
    \A t \in Tasks : task[t].state = "skipped" => t \in PoisonedTemplates(FailedIn(task))

(* A worker about to write 'fulfilled' is right, however late it writes.   *)
FulfilledOutcomeTrue ==
    \A w \in Workers : outcome[w] = "fulfilled" => \A t \in Tasks : task[t].state = "done"

(* A coroutine past its INSERT finds the row of its attempt, decided or not. *)
AskedHasApproval ==
    \A w \in Workers, t \in Tasks : co[w][t] = "asked" => HasRow(approvals, t, snap[w][t].retry)

(* The inductive invariant. *)
IInv ==
    /\ TypeOK
    /\ FinalisingHasOutcome
    /\ FirstVersion
    /\ LocalPhases
    /\ SnapSound
    /\ QueuedReady
    /\ ClaimSound
    /\ ToSkipPoisoned
    /\ SkippedPoisoned
    /\ FulfilledOutcomeTrue
    /\ AskedHasApproval
    /\ StartedAfterDeps
    /\ FulfilledMeansAllDone
    /\ OutputIsCurrentAttempt
    /\ BlockedOnOwnApproval

------------------------------------------------------------------------------
(* Typing.                                                                 *)

LEMMA Literals ==
  /\ PCs = {"idle", "lock", "get", "start", "recover", "list", "skip", "relist",
            "decide", "wave", "finget", "finput", "finrun", "unlock"}
  /\ {"off", "queued", "claimed", "asked"} \subseteq CoStates
  /\ {"pending", "ready", "in_progress", "done", "failed", "skipped", "blocked"} \subseteq TaskStates
  /\ {"requested", "approved", "in_progress", "fulfilled", "cancelled", "rejected",
      "failed"} \subseteq RitmStates
  /\ {"", "fulfilled", "partial", "failed"} = Outcomes
  /\ {"open", "fulfilled", "partial", "failed"} = RunOutcomes
  /\ NoRitm \in RitmRow
  /\ NoCo \in [Tasks -> CoStates]
  /\ NewRows \in [Tasks -> Row]
  BY DEF PCs, CoStates, TaskStates, RitmStates, Outcomes, RunOutcomes, NoRitm, RitmRow, NoCo,
         NewRows, Row

LEMMA SetTaskType ==
  ASSUME task \in [Tasks -> Row], NEW t \in Tasks, NEW to \in TaskStates, NEW r \in Nat,
         SetTask(t, to, r)
  PROVE  task' \in [Tasks -> Row]
  BY DEF SetTask, Row

LEMMA WriteBackType ==
  ASSUME task \in [Tasks -> Row], NEW w \in Workers, NEW t \in Tasks, NEW to \in TaskStates,
         NEW r \in Nat, WriteBack(w, t, to, r)
  PROVE  task' \in [Tasks -> Row]
  BY SetTaskType DEF WriteBack

LEMMA RetryType ==
  ASSUME TypeOK, NEW w \in Workers, NEW t \in Tasks
  PROVE  task[t].retry \in Nat /\ Attempt(w, t) \in Nat /\ Attempt(w, t) + 1 \in Nat
  BY DEF TypeOK, Attempt, Row

LEMMA SetRitmType ==
  ASSUME ritm \in RitmRow, NEW to \in RitmStates, SetRitm(to)
  PROVE  ritm' \in RitmRow
  BY DEF SetRitm, RitmRow

LEMMA FinishType ==
  ASSUME TypeOK, NEW w \in Workers, NEW t \in Tasks, NEW c \in CoStates,
         co' = [co EXCEPT ![w][t] = c]
  PROVE  co' \in [Workers -> [Tasks -> CoStates]]
  BY DEF TypeOK

LEMMA BudgetType ==
  ASSUME TypeOK
  PROVE  LET B == [events : Nat, crashes : Nat, cancels : Nat] IN
         /\ budget.events > 0 => [budget EXCEPT !.events = @ - 1] \in B
         /\ budget.crashes > 0 => [budget EXCEPT !.crashes = @ - 1] \in B
         /\ budget.cancels > 0 => [budget EXCEPT !.cancels = @ - 1] \in B
<1> DEFINE B == [events : Nat, crashes : Nat, cancels : Nat]
<1>1. budget \in B
  BY DEF TypeOK
<1>2. /\ budget.events > 0 => budget.events - 1 \in Nat
      /\ budget.crashes > 0 => budget.crashes - 1 \in Nat
      /\ budget.cancels > 0 => budget.cancels - 1 \in Nat
  BY <1>1
<1> QED
  BY <1>1, <1>2

LEMMA TerminalType ==
  ASSUME NEW rows PROVE TerminalOutcome(rows) \in Outcomes
  BY Literals DEF TerminalOutcome

LEMMA TypeInit == Init => TypeOK
<1> SUFFICES ASSUME Init PROVE TypeOK
  OBVIOUS
<1>1. ritm \in RitmRow
  <2>1. PICK s \in StartStates : ritm = [state |-> s, ver |-> 1]
    BY DEF Init
  <2>2. s \in RitmStates
    BY BoundAssumption, Literals
  <2> QED
    BY <2>1, <2>2 DEF RitmRow
<1>2. budget \in [events : Nat, crashes : Nat, cancels : Nat]
  BY BoundAssumption DEF Init
<1>3. comp \in [pc : {"idle", "undo", "put"}, todo : SUBSET Tasks, rsnap : RitmRow]
  BY Literals DEF Init
<1>4. /\ wave \in [Workers -> Nat] /\ output \in [Tasks -> Nat \cup {NoKey}]
      /\ approvals \in SUBSET Approval /\ pc \in [Workers -> PCs]
      /\ snap \in [Workers -> [Tasks -> Row]] /\ toSkip \in [Workers -> SUBSET Tasks]
      /\ co \in [Workers -> [Tasks -> CoStates]] /\ outcome \in [Workers -> Outcomes]
      /\ rsnap \in [Workers -> RitmRow]
  BY Literals DEF Init
<1>5. kind \in [Tasks -> Kinds]
  BY PlanAssumption DEF Init
<1> QED
  BY Literals, <1>1, <1>2, <1>3, <1>4, <1>5 DEF Init, TypeOK

LEMMA TypeStep ==
  ASSUME TypeOK, FinalisingHasOutcome, Next
  PROVE  TypeOK'
<1> USE DEF db, ext, local, coRest
<1>1. CASE Republish
  <2>1. budget' \in [events : Nat, crashes : Nat, cancels : Nat]
    BY <1>1, BudgetType DEF Republish
  <2>2. events' \in Nat
    BY <1>1 DEF TypeOK, Republish
  <2>3. run' \in RunOutcomes
    BY <1>1, Literals DEF Republish
  <2> QED
    BY <1>1, <2>1, <2>2, <2>3 DEF TypeOK, Republish
<1>2. ASSUME NEW w \in Workers, OnExecute(w) PROVE TypeOK'
  <2>1. pc' \in [Workers -> PCs]
    BY <1>2, Literals DEF TypeOK, OnExecute
  <2>2. events' \in Nat
    BY <1>2 DEF TypeOK, OnExecute
  <2> QED
    BY <1>2, <2>1, <2>2, Literals DEF TypeOK, OnExecute
<1>3. ASSUME NEW w \in Workers, TryLock(w) PROVE TypeOK'
  <2>1. \/ UNCHANGED lock /\ pc' = [pc EXCEPT ![w] = "unlock"]
        \/ lock' = lock \cup {w} /\ pc' = [pc EXCEPT ![w] = "get"]
    BY <1>3, Zenon DEF TryLock
  <2>2. lock' \in SUBSET Workers /\ pc' \in [Workers -> PCs]
    BY <2>1, Literals DEF TypeOK
  <2> QED
    BY <1>3, <2>1, <2>2, Literals DEF TypeOK, TryLock
<1>4. ASSUME NEW w \in Workers, Unlock(w) PROVE TypeOK'
  BY <1>4, Literals DEF TypeOK, Unlock
<1>5. ASSUME NEW w \in Workers, GetRitm(w) PROVE TypeOK'
  BY <1>5, Literals DEF TypeOK, GetRitm
<1>6. ASSUME NEW w \in Workers, ListTasks(w) PROVE TypeOK'
  BY <1>6, Literals DEF TypeOK, ListTasks, TransitivelyBlocked
<1>7. ASSUME NEW w \in Workers, WavesExhausted(w) PROVE TypeOK'
  BY <1>7, Literals DEF TypeOK, WavesExhausted
<1>8. ASSUME NEW w \in Workers, Relist(w) PROVE TypeOK'
  BY <1>8, Literals DEF TypeOK, Relist
<1>9. ASSUME NEW w \in Workers, EndWave(w) PROVE TypeOK'
  <2>1. pc' \in [Workers -> PCs]
    BY <1>9, Literals DEF TypeOK, EndWave
  <2>2. wave' \in [Workers -> Nat]
    BY <1>9 DEF TypeOK, EndWave
  <2> QED
    BY <1>9, <2>1, <2>2, Literals DEF TypeOK, EndWave
<1>10. ASSUME NEW w \in Workers, FinGet(w) PROVE TypeOK'
  BY <1>10, Literals DEF TypeOK, FinGet
<1>11. ASSUME NEW w \in Workers, Crash(w) PROVE TypeOK'
  <2>1. budget' \in [events : Nat, crashes : Nat, cancels : Nat]
    BY <1>11, BudgetType DEF Crash
  <2>2. pc' \in [Workers -> PCs] /\ wave' \in [Workers -> Nat] /\ lock' \in SUBSET Workers
    BY <1>11, Literals DEF TypeOK, Crash
  <2>3. /\ snap' \in [Workers -> [Tasks -> Row]] /\ toSkip' \in [Workers -> SUBSET Tasks]
        /\ co' \in [Workers -> [Tasks -> CoStates]]
    BY <1>11, Literals DEF TypeOK, Crash
  <2>4. outcome' \in [Workers -> Outcomes] /\ rsnap' \in [Workers -> RitmRow]
    BY <1>11, Literals DEF TypeOK, Crash
  <2> QED
    BY <1>11, <2>1, <2>2, <2>3, <2>4, Literals DEF TypeOK, Crash
<1>12. ASSUME NEW w \in Workers, StartRitm(w) PROVE TypeOK'
  BY <1>12, SetRitmType, Literals DEF TypeOK, StartRitm
<1>13. ASSUME NEW w \in Workers, RecoverStuck(w) PROVE TypeOK'
  <2>1. task' \in [Tasks -> Row]
    <3> SUFFICES ASSUME NEW t \in Tasks PROVE task'[t] \in Row
      BY <1>13, Literals DEF RecoverStuck
    <3>1. task[t].ver + 1 \in Nat /\ task[t].retry + 1 \in Nat
      BY DEF TypeOK, Row
    <3> QED
      BY <1>13, <3>1, Literals DEF TypeOK, RecoverStuck, Row
  <2> QED
    BY <1>13, <2>1, Literals DEF TypeOK, RecoverStuck
<1>14. ASSUME NEW w \in Workers, Decide(w) PROVE TypeOK'
  <2>1. outcome' \in [Workers -> Outcomes]
    <3>1. outcome' = outcome \/ outcome' = [outcome EXCEPT ![w] = TerminalOutcome(snap[w])]
      BY <1>14, Zenon DEF Decide
    <3>2. TerminalOutcome(snap[w]) \in Outcomes
      BY TerminalType
    <3> QED
      BY <3>1, <3>2 DEF TypeOK
  <2>2. co' \in [Workers -> [Tasks -> CoStates]]
    <3>1. [t \in Tasks |-> IF t \in ReadyTasks(snap[w]) THEN "queued" ELSE "off"]
             \in [Tasks -> CoStates]
      BY Literals
    <3> QED
      BY <1>14, <3>1, Literals DEF TypeOK, Decide
  <2>3. pc' \in [Workers -> PCs]
    <3>1. \E x \in {"finget", "unlock", "wave"} : pc' = [pc EXCEPT ![w] = x]
      BY <1>14, Zenon DEF Decide
    <3> QED
      BY <3>1, Literals DEF TypeOK
  <2> QED
    BY <1>14, <2>1, <2>2, <2>3, Literals DEF TypeOK, Decide
<1>15. ASSUME NEW w \in Workers, FinPut(w) PROVE TypeOK'
  BY <1>15, SetRitmType, Literals DEF TypeOK, FinPut, RitmStateFor
<1>16. ASSUME NEW w \in Workers, FinRun(w) PROVE TypeOK'
  BY <1>16, Literals DEF TypeOK, FinRun, FinalisingHasOutcome
<1>17. ASSUME NEW w \in Workers, NEW t \in Tasks, SkipTask(w, t) PROVE TypeOK'
  <2>1. task' \in [Tasks -> Row]
    BY <1>17, RetryType, SetTaskType, Literals DEF TypeOK, SkipTask
  <2> QED
    BY <1>17, <2>1, Literals DEF TypeOK, SkipTask
<1>18. ASSUME NEW w \in Workers, NEW t \in Tasks, Claim(w, t) PROVE TypeOK'
  <2>1. task' \in [Tasks -> Row]
    BY <1>18, RetryType, SetTaskType, Literals DEF TypeOK, Claim
  <2>2. co' \in [Workers -> [Tasks -> CoStates]]
    BY <1>18, FinishType, Literals DEF Claim, Finish
  <2>3. sent' \in SUBSET (Tasks \X Nat)
    <3>1. <<t, Attempt(w, t)>> \in Tasks \X Nat
      BY RetryType
    <3>2. sent' = sent \/ sent' = sent \cup {<<t, Attempt(w, t)>>}
      BY <1>18, Zenon DEF Claim
    <3> QED
      BY <3>1, <3>2 DEF TypeOK
  <2> QED
    BY <1>18, <2>1, <2>2, <2>3, Literals DEF TypeOK, Claim
<1>19. ASSUME NEW w \in Workers, NEW t \in Tasks, InsertApproval(w, t) PROVE TypeOK'
  <2>1. co' \in [Workers -> [Tasks -> CoStates]]
    BY <1>19, FinishType, Literals DEF InsertApproval
  <2>2. approvals' \in SUBSET Approval
    <3>1. [task |-> t, attempt |-> Attempt(w, t), state |-> "pending"] \in Approval
      BY RetryType DEF Approval
    <3> QED
      BY <1>19, <3>1 DEF TypeOK, InsertApproval
  <2> QED
    BY <1>19, <2>1, <2>2 DEF TypeOK, InsertApproval
<1>20. ASSUME NEW w \in Workers, NEW t \in Tasks, ManualDone(w, t) PROVE TypeOK'
  <2>1. task' \in [Tasks -> Row]
    BY <1>20, RetryType, WriteBackType, Literals DEF TypeOK, ManualDone
  <2>2. co' \in [Workers -> [Tasks -> CoStates]]
    BY <1>20, FinishType, Literals DEF ManualDone, Finish
  <2> QED
    BY <1>20, <2>1, <2>2, Literals DEF TypeOK, ManualDone
<1>21. ASSUME NEW w \in Workers, NEW t \in Tasks, Misconfigured(w, t) PROVE TypeOK'
  <2>1. task' \in [Tasks -> Row]
    BY <1>21, RetryType, WriteBackType, Literals DEF TypeOK, Misconfigured
  <2>2. co' \in [Workers -> [Tasks -> CoStates]]
    BY <1>21, FinishType, Literals DEF Misconfigured, Finish
  <2> QED
    BY <1>21, <2>1, <2>2, Literals DEF TypeOK, Misconfigured
<1>22. ASSUME NEW w \in Workers, NEW t \in Tasks, Block(w, t) PROVE TypeOK'
  <2>1. task' \in [Tasks -> Row]
    BY <1>22, RetryType, WriteBackType, Literals DEF TypeOK, Block
  <2>2. co' \in [Workers -> [Tasks -> CoStates]]
    BY <1>22, FinishType, Literals DEF Block, Finish
  <2>3. output' \in [Tasks -> Nat \cup {NoKey}]
    BY <1>22, RetryType, Literals DEF TypeOK, Block
  <2> QED
    BY <1>22, <2>1, <2>2, <2>3, Literals DEF TypeOK, Block
<1>23. ASSUME NEW w \in Workers, NEW t \in Tasks, AdapterDone(w, t) PROVE TypeOK'
  <2>1. task' \in [Tasks -> Row]
    BY <1>23, RetryType, WriteBackType, Literals DEF TypeOK, AdapterDone
  <2>2. co' \in [Workers -> [Tasks -> CoStates]]
    BY <1>23, FinishType, Literals DEF AdapterDone, Finish
  <2>3. output' \in [Tasks -> Nat \cup {NoKey}]
    BY <1>23, RetryType, Literals DEF TypeOK, AdapterDone
  <2> QED
    BY <1>23, <2>1, <2>2, <2>3, Literals DEF TypeOK, AdapterDone
<1>24. ASSUME NEW w \in Workers, NEW t \in Tasks, AdapterRetry(w, t) PROVE TypeOK'
  <2>1. task' \in [Tasks -> Row]
    BY <1>24, RetryType, WriteBackType, Literals DEF TypeOK, AdapterRetry
  <2>2. co' \in [Workers -> [Tasks -> CoStates]]
    BY <1>24, FinishType, Literals DEF AdapterRetry, Finish
  <2>3. sent' \in SUBSET (Tasks \X Nat)
    BY <1>24, Literals DEF TypeOK, AdapterRetry, Refused, TimedOut
  <2> QED
    BY <1>24, <2>1, <2>2, <2>3, Literals DEF TypeOK, AdapterRetry
<1>25. ASSUME NEW w \in Workers, NEW t \in Tasks, AdapterFail(w, t) PROVE TypeOK'
  <2>1. task' \in [Tasks -> Row]
    BY <1>25, RetryType, WriteBackType, Literals DEF TypeOK, AdapterFail
  <2>2. co' \in [Workers -> [Tasks -> CoStates]]
    BY <1>25, FinishType, Literals DEF AdapterFail, Finish
  <2>3. sent' \in SUBSET (Tasks \X Nat)
    BY <1>25, Literals DEF TypeOK, AdapterFail, Refused, TimedOut
  <2> QED
    BY <1>25, <2>1, <2>2, <2>3, Literals DEF TypeOK, AdapterFail
<1>26. ASSUME NEW w \in Workers, NEW t \in Tasks, TaskRaises(w, t) PROVE TypeOK'
  <2>1. co' \in [Workers -> [Tasks -> CoStates]]
    BY <1>26, FinishType, Literals DEF TaskRaises, Finish
  <2> QED
    BY <1>26, <2>1, Literals DEF TypeOK, TaskRaises
<1>27. CASE CompList
  <2>1. budget' \in [events : Nat, crashes : Nat, cancels : Nat]
    BY <1>27, BudgetType DEF CompList
  <2>2. comp' \in [pc : {"idle", "undo", "put"}, todo : SUBSET Tasks, rsnap : RitmRow]
    BY <1>27, Literals DEF TypeOK, CompList
  <2> QED
    BY <1>27, <2>1, <2>2, Literals DEF TypeOK, CompList
<1>28. CASE CompGet
  BY <1>28, Literals DEF TypeOK, CompGet
<1>29. CASE CompPut
  BY <1>29, SetRitmType, Literals DEF TypeOK, CompPut
<1>30. ASSUME NEW t \in Tasks, CompTask(t) PROVE TypeOK'
  <2>1. comp' \in [pc : {"idle", "undo", "put"}, todo : SUBSET Tasks, rsnap : RitmRow]
    BY <1>30, Literals DEF TypeOK, CompTask
  <2>2. released' \in SUBSET (Tasks \X Nat)
    <3>1. output[t] # NoKey => <<t, output[t]>> \in Tasks \X Nat
      BY DEF TypeOK
    <3>2. \/ UNCHANGED released
          \/ output[t] # NoKey /\ released' = released \cup {<<t, output[t]>>}
      BY <1>30 DEF CompTask
    <3> QED
      BY <3>1, <3>2 DEF TypeOK
  <2> QED
    BY <1>30, <2>1, <2>2, Literals DEF TypeOK, CompTask
<1>31. ASSUME NEW t \in Tasks, Age(t) PROVE TypeOK'
  BY <1>31, Literals DEF TypeOK, Age
<1>32. ASSUME NEW c \in sent, Provision(c) PROVE TypeOK'
  <2>1. effects' \in SUBSET (Tasks \X Nat)
    BY <1>32 DEF TypeOK, Provision
  <2> QED
    BY <1>32, <2>1 DEF TypeOK, Provision
<1>33. ASSUME NEW a \in approvals, NEW d \in {"approved", "rejected"}, DecideApproval(a, d)
       PROVE  TypeOK'
  <2>1. approvals' \in SUBSET Approval
    <3>. SUFFICES ASSUME NEW c \in approvals' PROVE c \in Approval
      OBVIOUS
    <3>1. PICK b \in approvals : \/ c = b
                                \/ c = [b EXCEPT !.state = d]
                                \/ c = [b EXCEPT !.state = "withdrawn"]
      BY <1>33 DEF DecideApproval
    <3>2. b \in Approval
      BY DEF TypeOK
    <3> QED
      BY <3>1, <3>2 DEF Approval
  <2>2. ritm' \in RitmRow
    BY <1>33, SetRitmType, Literals DEF TypeOK, DecideApproval
  <2> QED
    BY <1>33, <2>1, <2>2 DEF TypeOK, DecideApproval
<1> QED
  BY <1>1, <1>2, <1>3, <1>4, <1>5, <1>6, <1>7, <1>8, <1>9, <1>10, <1>11, <1>12, <1>13, <1>14, <1>15, <1>16, <1>17, <1>18, <1>19, <1>20, <1>21, <1>22, <1>23, <1>24, <1>25, <1>26, <1>27, <1>28, <1>29, <1>30, <1>31, <1>32, <1>33 DEF Next, Compensate, ExecutePlan, Coroutine

LEMMA FinalisingStep ==
  ASSUME TypeOK, FinalisingHasOutcome, Next
  PROVE  FinalisingHasOutcome'
<1> USE DEF db, ext, local, coRest, FinalisingHasOutcome, TypeOK
<1>1. ASSUME NEW w \in Workers, OnExecute(w) PROVE FinalisingHasOutcome'
  BY <1>1 DEF OnExecute
<1>2. ASSUME NEW w \in Workers, TryLock(w) PROVE FinalisingHasOutcome'
  BY <1>2 DEF TryLock
<1>3. ASSUME NEW w \in Workers, Unlock(w) PROVE FinalisingHasOutcome'
  BY <1>3 DEF Unlock
<1>4. ASSUME NEW w \in Workers, GetRitm(w) PROVE FinalisingHasOutcome'
  BY <1>4 DEF GetRitm
<1>5. ASSUME NEW w \in Workers, StartRitm(w) PROVE FinalisingHasOutcome'
  BY <1>5 DEF StartRitm
<1>6. ASSUME NEW w \in Workers, RecoverStuck(w) PROVE FinalisingHasOutcome'
  BY <1>6 DEF RecoverStuck
<1>7. ASSUME NEW w \in Workers, ListTasks(w) PROVE FinalisingHasOutcome'
  BY <1>7 DEF ListTasks
<1>8. ASSUME NEW w \in Workers, WavesExhausted(w) PROVE FinalisingHasOutcome'
  BY <1>8 DEF WavesExhausted
<1>9. ASSUME NEW w \in Workers, Relist(w) PROVE FinalisingHasOutcome'
  BY <1>9 DEF Relist
<1>10. ASSUME NEW w \in Workers, Decide(w) PROVE FinalisingHasOutcome'
  BY <1>10 DEF Decide
<1>11. ASSUME NEW w \in Workers, EndWave(w) PROVE FinalisingHasOutcome'
  BY <1>11 DEF EndWave
<1>12. ASSUME NEW w \in Workers, FinGet(w) PROVE FinalisingHasOutcome'
  BY <1>12 DEF FinGet
<1>13. ASSUME NEW w \in Workers, FinPut(w) PROVE FinalisingHasOutcome'
  BY <1>13 DEF FinPut
<1>14. ASSUME NEW w \in Workers, FinRun(w) PROVE FinalisingHasOutcome'
  BY <1>14 DEF FinRun
<1>15. ASSUME NEW w \in Workers, Crash(w) PROVE FinalisingHasOutcome'
  BY <1>15 DEF Crash
<1>16. ASSUME NEW w \in Workers, NEW t \in Tasks, SkipTask(w, t) PROVE FinalisingHasOutcome'
  BY <1>16 DEF SkipTask
<1>17. ASSUME NEW w \in Workers, NEW t \in Tasks, Claim(w, t) PROVE FinalisingHasOutcome'
  BY <1>17 DEF Claim
<1>18. ASSUME NEW w \in Workers, NEW t \in Tasks, ManualDone(w, t) PROVE FinalisingHasOutcome'
  BY <1>18 DEF ManualDone
<1>19. ASSUME NEW w \in Workers, NEW t \in Tasks, Misconfigured(w, t) PROVE FinalisingHasOutcome'
  BY <1>19 DEF Misconfigured
<1>20. ASSUME NEW w \in Workers, NEW t \in Tasks, InsertApproval(w, t) PROVE FinalisingHasOutcome'
  BY <1>20 DEF InsertApproval
<1>21. ASSUME NEW w \in Workers, NEW t \in Tasks, Block(w, t) PROVE FinalisingHasOutcome'
  BY <1>21 DEF Block
<1>22. ASSUME NEW w \in Workers, NEW t \in Tasks, AdapterDone(w, t) PROVE FinalisingHasOutcome'
  BY <1>22 DEF AdapterDone
<1>23. ASSUME NEW w \in Workers, NEW t \in Tasks, AdapterRetry(w, t) PROVE FinalisingHasOutcome'
  BY <1>23 DEF AdapterRetry
<1>24. ASSUME NEW w \in Workers, NEW t \in Tasks, AdapterFail(w, t) PROVE FinalisingHasOutcome'
  BY <1>24 DEF AdapterFail
<1>25. ASSUME NEW w \in Workers, NEW t \in Tasks, TaskRaises(w, t) PROVE FinalisingHasOutcome'
  BY <1>25 DEF TaskRaises
<1>26. CASE Republish
  BY <1>26 DEF Republish
<1>27. CASE CompList
  BY <1>27 DEF CompList
<1>28. CASE CompGet
  BY <1>28 DEF CompGet
<1>29. CASE CompPut
  BY <1>29 DEF CompPut
<1>30. ASSUME NEW t \in Tasks, CompTask(t) \/ Age(t) PROVE FinalisingHasOutcome'
  BY <1>30 DEF CompTask, Age
<1>31. ASSUME NEW c \in sent, Provision(c) PROVE FinalisingHasOutcome'
  BY <1>31 DEF Provision
<1>32. ASSUME NEW a \in approvals, NEW d \in {"approved", "rejected"}, DecideApproval(a, d)
       PROVE  FinalisingHasOutcome'
  BY <1>32 DEF DecideApproval
<1> QED
  BY <1>1, <1>2, <1>3, <1>4, <1>5, <1>6, <1>7, <1>8, <1>9, <1>10, <1>11, <1>12, <1>13,
     <1>14, <1>15, <1>16, <1>17, <1>18, <1>19, <1>20, <1>21, <1>22, <1>23, <1>24, <1>25,
     <1>26, <1>27, <1>28, <1>29, <1>30, <1>31, <1>32
  DEF Next, Compensate, ExecutePlan, Coroutine

(* Every state of the executor is well typed: in particular no worker ever *)
(* writes a value the CHECK constraints of the tables would refuse.        *)
THEOREM TypeCorrect == Spec => []TypeOK
<1>1. Init => TypeOK /\ FinalisingHasOutcome
  BY TypeInit DEF Init, FinalisingHasOutcome
<1>2. TypeOK /\ FinalisingHasOutcome /\ [Next]_vars => (TypeOK /\ FinalisingHasOutcome)'
  <2>1. CASE Next
    BY <2>1, TypeStep, FinalisingStep
  <2>2. CASE UNCHANGED vars
    BY <2>2 DEF vars, TypeOK, FinalisingHasOutcome
  <2> QED
    BY <2>1, <2>2
<1> QED
  BY <1>1, <1>2, PTL DEF Spec

------------------------------------------------------------------------------
(* How one step can move the task rows.  Everything else follows from this *)
(* characterisation; it is also what the abstract task DAG allows.         *)

Started(t) ==
    /\ task[t].state \in {"pending", "ready"}
    /\ \A d \in DependsOn[t] : task[d].state \in {"done", "skipped"}
    /\ SetTask(t, "in_progress", task[t].retry)

Ended(t, s, r) ==
    /\ task[t].state = "in_progress"
    /\ SetTask(t, s, r)
    /\ s = "done" /\ kind[t] = "adapter" => r = task[t].retry /\ output'[t] = r /\ <<t, r>> \in effects
    /\ s = "blocked" => r = task[t].retry /\ output'[t] = r /\ HasRow(approvals, t, r)

Skipped(t) ==
    /\ task[t].state \in {"pending", "ready"}
    /\ t \in PoisonedTemplates(FailedIn(task))
    /\ SetTask(t, "skipped", task[t].retry)

Recovered ==
    task' = [t \in Tasks |->
               IF t \in old /\ task[t].state = "in_progress"
                 THEN [state |-> "ready", ver |-> task[t].ver + 1, retry |-> task[t].retry + 1]
                 ELSE task[t]]

Motion ==
    \/ UNCHANGED task
    \/ \E t \in Tasks : Started(t)
    \/ \E t \in Tasks, s \in {"done", "failed", "blocked", "ready"}, r \in Nat : Ended(t, s, r)
    \/ \E t \in Tasks : Skipped(t)
    \/ Recovered

LEMMA PoisonMonotone ==
  ASSUME NEW F \in SUBSET Tasks, NEW G \in SUBSET Tasks, F \subseteq G
  PROVE  PoisonedTemplates(F) \subseteq PoisonedTemplates(G)
  BY DEF PoisonedTemplates

LEMMA NoPoisonWithoutFailure == PoisonedTemplates({}) = {}
<1>1. Closed({})
  BY DEF Closed
<1> QED
  BY <1>1 DEF PoisonedTemplates

\* A failure that a worker has read is still a failure.
LEMMA FailedSnapshot ==
  ASSUME SnapSound, NEW w \in Workers
  PROVE  FailedIn(snap[w]) \subseteq FailedIn(task)
  BY DEF SnapSound, FailedIn, Final

\* An UPDATE that finds the version a worker read finds the row it read.
LEMMA SkipMotion ==
  ASSUME IInv, NEW w \in Workers, NEW t \in Tasks, SkipTask(w, t)
  PROVE  UNCHANGED task \/ Skipped(t)
<1>1. t \in TransitivelyBlocked(snap[w])
  BY DEF IInv, ToSkipPoisoned, SkipTask
<1>2. t \in PoisonedTemplates(FailedIn(task))
  <2>1. FailedIn(snap[w]) \in SUBSET Tasks /\ FailedIn(task) \in SUBSET Tasks
    BY DEF FailedIn
  <2> QED
    BY <1>1, <2>1, PoisonMonotone, FailedSnapshot DEF IInv, TransitivelyBlocked
<1> QED
  BY <1>1, <1>2 DEF SkipTask, Skipped, TaskMatches, TransitivelyBlocked

LEMMA ClaimMotion ==
  ASSUME IInv, NEW w \in Workers, NEW t \in Tasks, Claim(w, t)
  PROVE  UNCHANGED task \/ Started(t)
<1>1. t \in ReadyTasks(snap[w])
  BY DEF IInv, QueuedReady, Claim
<1>2. \A d \in DependsOn[t] : task[d].state \in {"done", "skipped"}
  BY <1>1, PlanAssumption DEF IInv, SnapSound, ReadyTasks, Final
<1> QED
  BY <1>1, <1>2 DEF Claim, Started, TaskMatches, ReadyTasks

LEMMA WriteBackMotion ==
  ASSUME IInv, NEW w \in Workers, NEW t \in Tasks,
         ManualDone(w, t) \/ Misconfigured(w, t) \/ Block(w, t) \/ AdapterDone(w, t)
         \/ AdapterRetry(w, t) \/ AdapterFail(w, t)
  PROVE  \/ UNCHANGED task
         \/ \E s \in {"done", "failed", "blocked", "ready"}, r \in Nat : Ended(t, s, r)
<1>1. task[t].retry \in Nat /\ Attempt(w, t) \in Nat /\ Attempt(w, t) + 1 \in Nat
  BY RetryType DEF IInv
<1>2. CASE ~ Holds(w, t)
  BY <1>2 DEF ManualDone, Misconfigured, Block, AdapterDone, AdapterRetry, AdapterFail, WriteBack
<1>3. CASE Holds(w, t)
  <2>1. task[t].state = "in_progress"
    BY <1>3 DEF Holds, TaskMatches
  <2>2. CASE ManualDone(w, t)
    BY <1>1, <1>3, <2>1, <2>2 DEF ManualDone, WriteBack, Ended
  <2>3. CASE Misconfigured(w, t)
    BY <1>1, <1>3, <2>1, <2>3 DEF Misconfigured, WriteBack, Ended
  <2>4. CASE Block(w, t)
    <3>1. task[t].retry = Attempt(w, t)
      BY <1>3, <2>4 DEF Block, Holds, TaskMatches, IInv, ClaimSound, Attempt
    <3>2. output'[t] = Attempt(w, t)
      BY <1>3, <2>4 DEF Block, IInv, TypeOK
    <3>3. HasRow(approvals, t, Attempt(w, t))
      BY <2>4 DEF Block, IInv, AskedHasApproval, Attempt
    <3> QED
      BY <1>1, <1>3, <2>1, <2>4, <3>1, <3>2, <3>3 DEF Block, WriteBack, Ended
  <2>5. CASE AdapterDone(w, t)
    <3>1. task[t].retry = Attempt(w, t)
      BY <1>3, <2>5 DEF AdapterDone, Holds, TaskMatches, IInv, ClaimSound, Attempt
    <3>2. output'[t] = Attempt(w, t)
      BY <1>3, <2>5 DEF AdapterDone, IInv, TypeOK
    <3> QED
      BY <1>1, <1>3, <2>1, <2>5, <3>1, <3>2 DEF AdapterDone, WriteBack, Ended
  <2>6. CASE AdapterRetry(w, t)
    BY <1>1, <1>3, <2>1, <2>6 DEF AdapterRetry, WriteBack, Ended
  <2>7. CASE AdapterFail(w, t)
    BY <1>1, <1>3, <2>1, <2>7 DEF AdapterFail, WriteBack, Ended
  <2> QED
    BY <2>2, <2>3, <2>4, <2>5, <2>6, <2>7
<1> QED
  BY <1>2, <1>3

\* The statements that write task rows.
LEMMA TaskWriters ==
  ASSUME Next
  PROVE  \/ UNCHANGED task
         \/ \E w \in Workers : RecoverStuck(w)
         \/ \E w \in Workers, t \in Tasks : SkipTask(w, t) \/ Coroutine(w, t)
<1> USE DEF db
<1>1. ASSUME NEW w \in Workers,
             TryLock(w) \/ Unlock(w) \/ GetRitm(w) \/ StartRitm(w) \/ ListTasks(w)
             \/ WavesExhausted(w) \/ Relist(w) \/ Decide(w) \/ EndWave(w) \/ FinGet(w)
             \/ FinPut(w) \/ FinRun(w) \/ OnExecute(w) \/ Crash(w)
      PROVE  UNCHANGED task
  BY <1>1 DEF TryLock, Unlock, GetRitm, StartRitm, ListTasks, WavesExhausted, Relist, Decide,
              EndWave, FinGet, FinPut, FinRun, OnExecute, Crash
<1>2. ASSUME Republish \/ CompList \/ CompGet \/ CompPut PROVE UNCHANGED task
  BY <1>2 DEF Republish, CompList, CompGet, CompPut
<1>3. ASSUME NEW t \in Tasks, CompTask(t) \/ Age(t) PROVE UNCHANGED task
  BY <1>3 DEF CompTask, Age
<1>4. ASSUME NEW c \in sent, Provision(c) PROVE UNCHANGED task
  BY <1>4 DEF Provision
<1>5. ASSUME NEW a \in approvals, NEW d \in {"approved", "rejected"}, DecideApproval(a, d)
      PROVE  UNCHANGED task
  BY <1>5 DEF DecideApproval
<1> QED
  BY <1>1, <1>2, <1>3, <1>4, <1>5 DEF Next, Compensate, ExecutePlan

LEMMA TaskMotion ==
  ASSUME IInv, Next
  PROVE  Motion
<1>1. ASSUME NEW w \in Workers, NEW t \in Tasks, SkipTask(w, t) PROVE Motion
  BY <1>1, SkipMotion DEF Motion
<1>2. ASSUME NEW w \in Workers, NEW t \in Tasks, Coroutine(w, t) PROVE Motion
  <2>1. CASE Claim(w, t)
    BY <2>1, ClaimMotion DEF Motion
  <2>2. CASE InsertApproval(w, t) \/ TaskRaises(w, t)
    BY <2>2 DEF InsertApproval, TaskRaises, Motion
  <2>3. CASE ManualDone(w, t) \/ Misconfigured(w, t) \/ Block(w, t) \/ AdapterDone(w, t)
             \/ AdapterRetry(w, t) \/ AdapterFail(w, t)
    BY <2>3, WriteBackMotion DEF Motion
  <2> QED
    BY <1>2, <2>1, <2>2, <2>3 DEF Coroutine
<1>3. ASSUME NEW w \in Workers, RecoverStuck(w) PROVE Motion
  BY <1>3 DEF RecoverStuck, Recovered, Motion
<1>4. CASE UNCHANGED task
  BY <1>4 DEF Motion
<1> QED
  BY <1>1, <1>2, <1>3, <1>4, TaskWriters

------------------------------------------------------------------------------
(* What a motion of the rows leaves true.                                  *)

LEMMA RowStep ==
  ASSUME TypeOK, Motion, NEW t \in Tasks
  PROVE  \/ task'[t] = task[t]
         \/ /\ task[t].state \in {"pending", "ready", "in_progress"}
            /\ task'[t].ver = task[t].ver + 1
<1>1. CASE UNCHANGED task
  BY <1>1
<1>2. ASSUME NEW u \in Tasks, Started(u) \/ Skipped(u)
      PROVE  \/ task'[t] = task[t]
             \/ /\ task[t].state \in {"pending", "ready", "in_progress"}
                /\ task'[t].ver = task[t].ver + 1
  BY <1>2 DEF Started, Skipped, SetTask, TypeOK, Row
<1>3. ASSUME NEW u \in Tasks, NEW s \in {"done", "failed", "blocked", "ready"}, NEW r \in Nat,
             Ended(u, s, r)
      PROVE  \/ task'[t] = task[t]
             \/ /\ task[t].state \in {"pending", "ready", "in_progress"}
                /\ task'[t].ver = task[t].ver + 1
  BY <1>3 DEF Ended, SetTask, TypeOK, Row
<1>4. CASE Recovered
  BY <1>4 DEF Recovered
<1> QED
  BY <1>1, <1>2, <1>3, <1>4 DEF Motion

\* A finished task keeps its row for ever.
LEMMA FinalStays ==
  ASSUME TypeOK, Motion, NEW t \in Tasks, task[t].state \in Final
  PROVE  task'[t] = task[t]
  BY RowStep DEF Final

LEMMA FailuresGrow ==
  ASSUME TypeOK, Motion
  PROVE  PoisonedTemplates(FailedIn(task)) \subseteq PoisonedTemplates(FailedIn(task'))
<1>1. FailedIn(task) \subseteq FailedIn(task')
  BY FinalStays DEF FailedIn, Final
<1>2. FailedIn(task) \in SUBSET Tasks /\ FailedIn(task') \in SUBSET Tasks
  BY DEF FailedIn
<1> QED
  BY <1>1, <1>2, PoisonMonotone

LEMMA StartedStep ==
  ASSUME TypeOK, Motion, StartedAfterDeps
  PROVE  StartedAfterDeps'
<1> SUFFICES ASSUME NEW t \in Tasks, task'[t].state \notin {"pending", "skipped"},
                    NEW d \in DependsOn[t]
             PROVE  task'[d].state \in {"done", "skipped"}
  BY DEF StartedAfterDeps
<1>1. d \in Tasks
  BY PlanAssumption
<1> SUFFICES task[d].state \in {"done", "skipped"}
  BY <1>1, FinalStays DEF Final
<1>2. CASE task[t].state \notin {"pending", "skipped"}
  BY <1>2 DEF StartedAfterDeps
<1>3. CASE task[t].state \in {"pending", "skipped"}
  <2>1. CASE UNCHANGED task
    BY <1>3, <2>1
  <2>2. ASSUME NEW u \in Tasks, Started(u) PROVE task[d].state \in {"done", "skipped"}
    <3>1. u = t
      BY <1>3, <2>2 DEF Started, SetTask, TypeOK
    <3> QED
      BY <2>2, <3>1 DEF Started
  <2>3. ASSUME NEW u \in Tasks, NEW s \in {"done", "failed", "blocked", "ready"}, NEW r \in Nat,
               Ended(u, s, r)
        PROVE  FALSE
    BY <1>3, <2>3 DEF Ended, SetTask, TypeOK
  <2>4. ASSUME NEW u \in Tasks, Skipped(u) PROVE FALSE
    BY <1>3, <2>4 DEF Skipped, SetTask, TypeOK
  <2>5. CASE Recovered
    BY <1>3, <2>5 DEF Recovered
  <2> QED
    BY <2>1, <2>2, <2>3, <2>4, <2>5 DEF Motion
<1> QED
  BY <1>2, <1>3

LEMMA SkippedStep ==
  ASSUME TypeOK, Motion, SkippedPoisoned
  PROVE  SkippedPoisoned'
<1> SUFFICES ASSUME NEW t \in Tasks, task'[t].state = "skipped"
             PROVE  t \in PoisonedTemplates(FailedIn(task))
  BY FailuresGrow DEF SkippedPoisoned
<1>1. CASE UNCHANGED task
  BY <1>1 DEF SkippedPoisoned
<1>2. ASSUME NEW u \in Tasks, Started(u) PROVE t \in PoisonedTemplates(FailedIn(task))
  BY <1>2 DEF Started, SetTask, TypeOK, SkippedPoisoned
<1>3. ASSUME NEW u \in Tasks, NEW s \in {"done", "failed", "blocked", "ready"}, NEW r \in Nat,
             Ended(u, s, r)
      PROVE  t \in PoisonedTemplates(FailedIn(task))
  BY <1>3 DEF Ended, SetTask, TypeOK, SkippedPoisoned
<1>4. ASSUME NEW u \in Tasks, Skipped(u) PROVE t \in PoisonedTemplates(FailedIn(task))
  BY <1>4 DEF Skipped, SetTask, TypeOK, SkippedPoisoned
<1>5. CASE Recovered
  BY <1>5 DEF Recovered, SkippedPoisoned
<1> QED
  BY <1>1, <1>2, <1>3, <1>4, <1>5 DEF Motion

LEMMA FirstVersionStep ==
  ASSUME TypeOK, Motion, FirstVersion
  PROVE  FirstVersion'
<1> SUFFICES ASSUME NEW t \in Tasks
             PROVE  task'[t].ver >= 1 /\ (task'[t].ver = 1 => task'[t] = NewRows[t])
  BY DEF FirstVersion, NewRows
<1>1. task[t].ver \in Nat
  BY DEF TypeOK, Row
<1> QED
  BY <1>1, RowStep DEF FirstVersion

------------------------------------------------------------------------------
(* How one step can move a worker's local state.                           *)

\* Coroutine t of worker v after the step is one it had, or a new one.
CoStep(v, t) ==
    \/ co'[v][t] = "off"
    \/ co'[v][t] = co[v][t]
    \/ co'[v][t] = "queued" /\ t \in ReadyTasks(snap[v])
    \/ /\ co'[v][t] = "claimed" /\ co[v][t] = "queued"
       /\ task[t].ver = snap[v][t].ver
       /\ SetTask(t, "in_progress", task[t].retry)
    \/ co'[v][t] = "asked" /\ co[v][t] = "claimed" /\ HasRow(approvals', t, snap[v][t].retry)

Kept(v) ==
    /\ snap'[v] = snap[v]
    /\ toSkip'[v] \subseteq toSkip[v]
    /\ \A t \in Tasks : CoStep(v, t)

Reread(v) ==
    /\ snap'[v] = NewRows \/ (snap'[v] = task /\ UNCHANGED task)
    /\ toSkip'[v] \subseteq TransitivelyBlocked(snap'[v])
    /\ co'[v] = NoCo

LEMMA LocalMotion ==
  ASSUME TypeOK, LocalPhases, Next, NEW v \in Workers
  PROVE  (Kept(v) \/ Reread(v)) /\ LocalPhases'
<1> DEFINE Goal == (Kept(v) \/ Reread(v)) /\ LocalPhases'
<1> USE DEF db, ext, local, coRest, TypeOK
<1>1. ASSUME NEW w \in Workers, OnExecute(w) PROVE Goal
  BY <1>1 DEF OnExecute, Kept, CoStep, LocalPhases
<1>2. ASSUME NEW w \in Workers, TryLock(w) PROVE Goal
  BY <1>2 DEF TryLock, Kept, CoStep, LocalPhases
<1>3. ASSUME NEW w \in Workers, Unlock(w) PROVE Goal
  <2>1. CASE v = w
    BY <1>3, <2>1 DEF Unlock, Reread, LocalPhases
  <2>2. CASE v # w
    BY <1>3, <2>2 DEF Unlock, Kept, CoStep, LocalPhases
  <2> QED
    BY <2>1, <2>2
<1>4. ASSUME NEW w \in Workers, GetRitm(w) PROVE Goal
  BY <1>4 DEF GetRitm, Kept, CoStep, LocalPhases
<1>5. ASSUME NEW w \in Workers, StartRitm(w) PROVE Goal
  BY <1>5 DEF StartRitm, Kept, CoStep, LocalPhases
<1>6. ASSUME NEW w \in Workers, RecoverStuck(w) PROVE Goal
  BY <1>6 DEF RecoverStuck, Kept, CoStep, LocalPhases
<1>7. ASSUME NEW w \in Workers, ListTasks(w) PROVE Goal
  <2>1. CASE v = w
    BY <1>7, <2>1 DEF ListTasks, Reread, LocalPhases
  <2>2. CASE v # w
    BY <1>7, <2>2 DEF ListTasks, Kept, CoStep, LocalPhases
  <2> QED
    BY <2>1, <2>2
<1>8. ASSUME NEW w \in Workers, WavesExhausted(w) PROVE Goal
  BY <1>8 DEF WavesExhausted, Kept, CoStep, LocalPhases
<1>9. ASSUME NEW w \in Workers, Relist(w) PROVE Goal
  <2>1. CASE v = w
    BY <1>9, <2>1 DEF Relist, Reread, LocalPhases
  <2>2. CASE v # w
    BY <1>9, <2>2 DEF Relist, Kept, CoStep, LocalPhases
  <2> QED
    BY <2>1, <2>2
<1>10. ASSUME NEW w \in Workers, Decide(w) PROVE Goal
  <2> DEFINE queue == [t \in Tasks |-> IF t \in ReadyTasks(snap[w]) THEN "queued" ELSE "off"]
  <2>1. /\ pc[w] = "decide" /\ UNCHANGED <<snap, toSkip>>
        /\ \/ UNCHANGED co /\ \E x \in {"finget", "unlock"} : pc' = [pc EXCEPT ![w] = x]
           \/ co' = [co EXCEPT ![w] = queue] /\ pc' = [pc EXCEPT ![w] = "wave"]
    BY <1>10 DEF Decide
  <2>2. Kept(v)
    <3> SUFFICES ASSUME NEW t \in Tasks PROVE CoStep(v, t)
      BY <2>1 DEF Kept
    <3>1. co'[v] = co[v] \/ (v = w /\ co'[v] = queue)
      <4> HIDE DEF queue
      <4> QED
        BY <2>1
    <3> QED
      BY <3>1 DEF CoStep
  <2>3. LocalPhases'
    <3> HIDE DEF queue
    <3> QED
      BY <2>1 DEF LocalPhases
  <2> QED
    BY <2>2, <2>3
<1>11. ASSUME NEW w \in Workers, EndWave(w) PROVE Goal
  BY <1>11 DEF EndWave, Kept, CoStep, LocalPhases
<1>12. ASSUME NEW w \in Workers, FinGet(w) PROVE Goal
  BY <1>12 DEF FinGet, Kept, CoStep, LocalPhases
<1>13. ASSUME NEW w \in Workers, FinPut(w) PROVE Goal
  BY <1>13 DEF FinPut, Kept, CoStep, LocalPhases
<1>14. ASSUME NEW w \in Workers, FinRun(w) PROVE Goal
  BY <1>14 DEF FinRun, Kept, CoStep, LocalPhases
<1>15. ASSUME NEW w \in Workers, Crash(w) PROVE Goal
  <2>1. CASE v = w
    BY <1>15, <2>1 DEF Crash, Reread, LocalPhases
  <2>2. CASE v # w
    BY <1>15, <2>2 DEF Crash, Kept, CoStep, LocalPhases
  <2> QED
    BY <2>1, <2>2
<1>16. ASSUME NEW w \in Workers, NEW t \in Tasks, SkipTask(w, t) PROVE Goal
  BY <1>16 DEF SkipTask, Kept, CoStep, LocalPhases
<1>17. ASSUME NEW w \in Workers, NEW t \in Tasks, Claim(w, t) PROVE Goal
  <2>1. /\ pc[w] = "wave" /\ co[w][t] = "queued" /\ UNCHANGED <<pc, snap, toSkip>>
        /\ \/ /\ task[t].ver = snap[w][t].ver /\ SetTask(t, "in_progress", task[t].retry)
              /\ co' = [co EXCEPT ![w][t] = "claimed"]
           \/ co' = [co EXCEPT ![w][t] = "off"]
    BY <1>17 DEF Claim, Finish, TaskMatches
  <2>2. Kept(v)
    <3> SUFFICES ASSUME NEW u \in Tasks PROVE CoStep(v, u)
      BY <2>1 DEF Kept
    <3>1. CASE v = w /\ u = t
      BY <2>1, <3>1 DEF CoStep
    <3>2. CASE ~ (v = w /\ u = t)
      BY <2>1, <3>2 DEF CoStep
    <3> QED
      BY <3>1, <3>2
  <2>3. LocalPhases'
    BY <2>1 DEF LocalPhases
  <2> QED
    BY <2>2, <2>3
<1>18. ASSUME NEW w \in Workers, NEW t \in Tasks, InsertApproval(w, t) PROVE Goal
  <2>1. HasRow(approvals', t, snap[w][t].retry)
    <3>. DEFINE row == [task |-> t, attempt |-> snap[w][t].retry, state |-> "pending"]
    <3>1. row \in approvals'
      BY <1>18 DEF InsertApproval, Attempt
    <3>2. row.task = t /\ row.attempt = snap[w][t].retry
      OBVIOUS
    <3>. HIDE DEF row
    <3> QED
      BY <3>1, <3>2 DEF HasRow
  <2> QED
    BY <1>18, <2>1 DEF InsertApproval, Kept, CoStep, LocalPhases, NoCo
<1>19. ASSUME NEW w \in Workers, NEW t \in Tasks, co[w][t] # "off", Finish(w, t),
              UNCHANGED <<snap, toSkip, pc>>
       PROVE  Goal
  BY <1>19 DEF Finish, Kept, CoStep, LocalPhases, NoCo
<1>20. ASSUME NEW w \in Workers, NEW t \in Tasks,
              ManualDone(w, t) \/ Misconfigured(w, t) \/ Block(w, t) \/ AdapterDone(w, t)
              \/ AdapterRetry(w, t) \/ AdapterFail(w, t) \/ TaskRaises(w, t)
       PROVE  Goal
  <2>1. co[w][t] # "off" /\ Finish(w, t) /\ UNCHANGED <<snap, toSkip, pc>>
    BY <1>20 DEF ManualDone, Misconfigured, Block, AdapterDone, AdapterRetry, AdapterFail,
                 TaskRaises
  <2> QED
    BY <1>19, <2>1
<1>21. ASSUME Republish \/ CompList \/ CompGet \/ CompPut PROVE Goal
  BY <1>21 DEF Republish, CompList, CompGet, CompPut, Kept, CoStep, LocalPhases
<1>22. ASSUME NEW t \in Tasks, CompTask(t) \/ Age(t) PROVE Goal
  BY <1>22 DEF CompTask, Age, Kept, CoStep, LocalPhases
<1>23. ASSUME NEW c \in sent, Provision(c) PROVE Goal
  BY <1>23 DEF Provision, Kept, CoStep, LocalPhases
<1>24. ASSUME NEW a \in approvals, NEW d \in {"approved", "rejected"}, DecideApproval(a, d)
       PROVE  Goal
  BY <1>24 DEF DecideApproval, Kept, CoStep, LocalPhases
<1> HIDE DEF Goal
<1> QED
  BY <1>1, <1>2, <1>3, <1>4, <1>5, <1>6, <1>7, <1>8, <1>9, <1>10, <1>11, <1>12, <1>13,
     <1>14, <1>15, <1>16, <1>17, <1>18, <1>20, <1>21, <1>22, <1>23, <1>24
  DEF Next, Compensate, ExecutePlan, Coroutine, Goal

------------------------------------------------------------------------------
(* What the steps do to the approvals, the results and the outcomes.       *)

LEMMA RecordsStep ==
  ASSUME TypeOK, Next
  PROVE  /\ effects \subseteq effects'
         /\ \A t, n : HasRow(approvals, t, n) => HasRow(approvals', t, n)
         /\ \A t \in Tasks : output'[t] = output[t] \/ task[t].state = "in_progress"
<1> DEFINE Goal == /\ effects \subseteq effects'
                   /\ \A t, n : HasRow(approvals, t, n) => HasRow(approvals', t, n)
                   /\ \A t \in Tasks : output'[t] = output[t] \/ task[t].state = "in_progress"
<1> USE DEF db, ext, local, coRest
<1>1. ASSUME UNCHANGED <<effects, approvals, output>> PROVE Goal
  BY <1>1
<1>2. ASSUME NEW w \in Workers, NEW t \in Tasks, InsertApproval(w, t) PROVE Goal
  BY <1>2 DEF InsertApproval, HasRow
<1>3. ASSUME NEW w \in Workers, NEW t \in Tasks, AdapterDone(w, t) \/ Block(w, t) PROVE Goal
  BY <1>3 DEF AdapterDone, Block, TypeOK, Holds, TaskMatches
<1>4. ASSUME NEW c \in sent, Provision(c) PROVE Goal
  BY <1>4 DEF Provision
<1>5. ASSUME NEW w \in Workers,
             TryLock(w) \/ Unlock(w) \/ GetRitm(w) \/ StartRitm(w) \/ ListTasks(w)
             \/ RecoverStuck(w) \/ WavesExhausted(w) \/ Relist(w) \/ Decide(w) \/ EndWave(w)
             \/ FinGet(w) \/ FinPut(w) \/ FinRun(w) \/ OnExecute(w) \/ Crash(w)
      PROVE  UNCHANGED <<effects, approvals, output>>
  BY <1>5 DEF TryLock, Unlock, GetRitm, StartRitm, ListTasks, RecoverStuck, WavesExhausted,
              Relist, Decide, EndWave, FinGet, FinPut, FinRun, OnExecute, Crash
<1>6. ASSUME NEW w \in Workers, NEW t \in Tasks,
             SkipTask(w, t) \/ Claim(w, t) \/ ManualDone(w, t) \/ Misconfigured(w, t)
             \/ AdapterRetry(w, t) \/ AdapterFail(w, t) \/ TaskRaises(w, t)
      PROVE  UNCHANGED <<effects, approvals, output>>
  BY <1>6 DEF SkipTask, Claim, ManualDone, Misconfigured, AdapterRetry, AdapterFail,
              TaskRaises
<1>7. ASSUME Republish \/ CompList \/ CompGet \/ CompPut
      PROVE  UNCHANGED <<effects, approvals, output>>
  BY <1>7 DEF Republish, CompList, CompGet, CompPut
<1>8. ASSUME NEW t \in Tasks, CompTask(t) \/ Age(t)
      PROVE  UNCHANGED <<effects, approvals, output>>
  BY <1>8 DEF CompTask, Age
<1>9. ASSUME NEW a \in approvals, NEW d \in {"approved", "rejected"}, DecideApproval(a, d)
      PROVE  Goal
  <2>1. UNCHANGED <<effects, output>>
    BY <1>9 DEF DecideApproval
  <2>2. ASSUME NEW b \in approvals
        PROVE  \E c \in approvals' : c.task = b.task /\ c.attempt = b.attempt
    <3>. DEFINE after == IF b = a THEN [b EXCEPT !.state = d]
                         ELSE IF d = "approved" /\ b.state = "pending"
                           THEN [b EXCEPT !.state = "withdrawn"]
                         ELSE b
    <3>1. after \in approvals'
      BY <1>9 DEF DecideApproval
    <3>2. after.task = b.task /\ after.attempt = b.attempt
      BY DEF TypeOK, Approval
    <3> QED
      BY <3>1, <3>2
  <2> QED
    BY <2>1, <2>2 DEF HasRow
<1> HIDE DEF Goal
<1> QED
  BY <1>1, <1>2, <1>3, <1>4, <1>5, <1>6, <1>7, <1>8, <1>9
  DEF Next, Compensate, ExecutePlan, Coroutine, Goal

LEMMA OutcomeStep ==
  ASSUME TypeOK, Next
  PROVE  /\ \A v \in Workers : \/ outcome'[v] # "fulfilled"
                               \/ outcome[v] = "fulfilled"
                               \/ TerminalOutcome(snap[v]) = "fulfilled"
         /\ \/ ritm'.state # "fulfilled" /\ run' # "fulfilled"
            \/ ritm.state = "fulfilled" \/ run = "fulfilled"
            \/ \E v \in Workers : outcome[v] = "fulfilled"
<1> DEFINE Goal == /\ \A v \in Workers : \/ outcome'[v] # "fulfilled"
                                         \/ outcome[v] = "fulfilled"
                                         \/ TerminalOutcome(snap[v]) = "fulfilled"
                   /\ \/ ritm'.state # "fulfilled" /\ run' # "fulfilled"
                      \/ ritm.state = "fulfilled" \/ run = "fulfilled"
                      \/ \E v \in Workers : outcome[v] = "fulfilled"
<1> USE DEF db, ext, local, coRest
<1>1. ASSUME UNCHANGED <<ritm, run, outcome>> PROVE Goal
  BY <1>1
<1>2. ASSUME NEW w \in Workers, Decide(w) PROVE Goal
  <2>1. /\ ritm' = ritm /\ run' = run
        /\ outcome' = outcome \/ outcome' = [outcome EXCEPT ![w] = TerminalOutcome(snap[w])]
    BY <1>2 DEF Decide
  <2> QED
    BY <2>1 DEF TypeOK
<1>3. ASSUME NEW w \in Workers, WavesExhausted(w) \/ Unlock(w) \/ Crash(w) PROVE Goal
  BY <1>3 DEF WavesExhausted, Unlock, Crash, TypeOK
<1>4. ASSUME NEW w \in Workers, StartRitm(w) PROVE Goal
  BY <1>4 DEF StartRitm, SetRitm
<1>5. ASSUME NEW w \in Workers, FinPut(w) PROVE Goal
  BY <1>5 DEF FinPut, SetRitm, RitmStateFor
<1>6. ASSUME NEW w \in Workers, FinRun(w) PROVE Goal
  BY <1>6 DEF FinRun
<1>7. CASE Republish \/ CompPut
  BY <1>7 DEF Republish, CompPut, SetRitm
<1>8. ASSUME NEW w \in Workers,
             TryLock(w) \/ GetRitm(w) \/ ListTasks(w) \/ RecoverStuck(w) \/ Relist(w)
             \/ EndWave(w) \/ FinGet(w) \/ OnExecute(w)
      PROVE  UNCHANGED <<ritm, run, outcome>>
  BY <1>8 DEF TryLock, GetRitm, ListTasks, RecoverStuck, Relist, EndWave, FinGet, OnExecute
<1>9. ASSUME NEW w \in Workers, NEW t \in Tasks, SkipTask(w, t) \/ Coroutine(w, t)
      PROVE  UNCHANGED <<ritm, run, outcome>>
  BY <1>9 DEF SkipTask, Coroutine, Claim, ManualDone, Misconfigured, InsertApproval, Block,
              AdapterDone, AdapterRetry, AdapterFail, TaskRaises
<1>10. ASSUME CompList \/ CompGet \/ (\E t \in Tasks : CompTask(t) \/ Age(t))
              \/ (\E c \in sent : Provision(c))
       PROVE  UNCHANGED <<ritm, run, outcome>>
  BY <1>10 DEF CompList, CompGet, CompTask, Age, Provision
<1>11. ASSUME NEW a \in approvals, NEW d \in {"approved", "rejected"}, DecideApproval(a, d)
       PROVE  Goal
  <2>1. UNCHANGED <<run, outcome>> /\ (ritm' = ritm \/ ritm'.state = d)
    BY <1>11 DEF DecideApproval, SetRitm
  <2> QED
    BY <2>1
<1> HIDE DEF Goal
<1> QED
  BY <1>1, <1>2, <1>3, <1>4, <1>5, <1>6, <1>7, <1>8, <1>9, <1>10, <1>11
  DEF Next, Compensate, ExecutePlan, Goal

------------------------------------------------------------------------------
(* The inductive step, one lemma per conjunct that needs an argument.      *)

LEMMA SnapStep ==
  ASSUME IInv, Next
  PROVE  SnapSound'
<1> SUFFICES ASSUME NEW w \in Workers, NEW t \in Tasks
             PROVE  /\ snap'[w][t].ver <= task'[t].ver
                    /\ snap'[w][t].ver = task'[t].ver => snap'[w][t] = task'[t]
                    /\ snap'[w][t].state \in Final => task'[t].state = snap'[w][t].state
  BY DEF SnapSound
<1>1. TypeOK /\ Motion
  BY TaskMotion DEF IInv
<1>2. task[t].ver \in Nat /\ snap[w][t].ver \in Nat
  BY DEF IInv, TypeOK, Row
<1>3. CASE snap'[w] = snap[w]
  <2>1. /\ snap[w][t].ver <= task[t].ver
        /\ snap[w][t].ver = task[t].ver => snap[w][t] = task[t]
        /\ snap[w][t].state \in Final => task[t].state = snap[w][t].state
    BY DEF IInv, SnapSound
  <2>2. snap[w][t].state \in Final => task'[t].state = snap[w][t].state
    BY <1>1, <2>1, FinalStays
  <2> QED
    BY <1>1, <1>2, <1>3, <2>1, <2>2, RowStep
<1>4. CASE snap'[w] = task /\ UNCHANGED task
  BY <1>2, <1>4
<1>5. CASE snap'[w] = NewRows
  <2>1. task'[t].ver >= 1 /\ (task'[t].ver = 1 => task'[t] = NewRows[t])
    BY <1>1, FirstVersionStep DEF IInv, FirstVersion
  <2>2. NewRows[t].ver = 1 /\ NewRows[t].state \notin Final
    BY DEF NewRows, Final
  <2>3. task'[t].ver \in Nat
    BY TypeStep DEF IInv, TypeOK, Row
  <2> QED
    BY <1>5, <2>1, <2>2, <2>3
<1> QED
  BY <1>1, <1>3, <1>4, <1>5, LocalMotion DEF IInv, Kept, Reread

LEMMA QueuedStep ==
  ASSUME IInv, Next
  PROVE  QueuedReady' /\ ToSkipPoisoned'
<1>1. ASSUME NEW w \in Workers, NEW t \in Tasks, co'[w][t] # "off"
      PROVE  t \in ReadyTasks(snap'[w])
  <2>1. Kept(w) \/ Reread(w)
    BY LocalMotion DEF IInv
  <2>2. co'[w] # NoCo
    BY <1>1 DEF NoCo
  <2>3. snap'[w] = snap[w] /\ CoStep(w, t)
    BY <2>1, <2>2 DEF Kept, Reread
  <2> QED
    BY <1>1, <2>3 DEF CoStep, IInv, QueuedReady
<1>2. ASSUME NEW w \in Workers PROVE toSkip'[w] \subseteq TransitivelyBlocked(snap'[w])
  BY LocalMotion DEF IInv, Kept, Reread, ToSkipPoisoned
<1> QED
  BY <1>1, <1>2 DEF QueuedReady, ToSkipPoisoned

LEMMA ClaimStep ==
  ASSUME IInv, Next
  PROVE  ClaimSound'
<1> SUFFICES ASSUME NEW w \in Workers, NEW t \in Tasks, co'[w][t] \in {"claimed", "asked"}
             PROVE  /\ snap'[w][t].ver < task'[t].ver
                    /\ task'[t].ver = snap'[w][t].ver + 1 =>
                         task'[t].state = "in_progress" /\ task'[t].retry = snap'[w][t].retry
  BY DEF ClaimSound
<1>1. TypeOK /\ Motion
  BY TaskMotion DEF IInv
<1>2. task[t].ver \in Nat /\ snap[w][t].ver \in Nat
  BY DEF IInv, TypeOK, Row
<1>3. snap'[w] = snap[w] /\ CoStep(w, t)
  <2>1. co'[w] # NoCo
    BY DEF NoCo
  <2> QED
    BY <2>1, LocalMotion DEF IInv, Kept, Reread
<1>4. CASE co[w][t] \in {"claimed", "asked"}
  <2>1. /\ snap[w][t].ver < task[t].ver
        /\ task[t].ver = snap[w][t].ver + 1 =>
             task[t].state = "in_progress" /\ task[t].retry = snap[w][t].retry
    BY <1>4 DEF IInv, ClaimSound
  <2>2. task'[t] = task[t] \/ task'[t].ver = task[t].ver + 1
    BY <1>1, RowStep
  <2> QED
    BY <1>2, <1>3, <2>1, <2>2
<1>5. CASE co[w][t] \notin {"claimed", "asked"}
  <2>1. task[t].ver = snap[w][t].ver /\ SetTask(t, "in_progress", task[t].retry)
    BY <1>3, <1>5 DEF CoStep
  <2>2. task[t] = snap[w][t]
    BY <2>1 DEF IInv, SnapSound
  <2>3. task'[t] = [state |-> "in_progress", ver |-> task[t].ver + 1, retry |-> task[t].retry]
    BY <2>1 DEF SetTask, IInv, TypeOK
  <2> QED
    BY <1>2, <1>3, <2>2, <2>3
<1> QED
  BY <1>4, <1>5

LEMMA ApprovalStep ==
  ASSUME IInv, Next
  PROVE  AskedHasApproval' /\ BlockedOnOwnApproval'
<1>1. TypeOK /\ Motion
  BY TaskMotion DEF IInv
<1>2. \A t, n : HasRow(approvals, t, n) => HasRow(approvals', t, n)
  BY RecordsStep DEF IInv
<1>3. ASSUME NEW w \in Workers, NEW t \in Tasks, co'[w][t] = "asked"
      PROVE  HasRow(approvals', t, snap'[w][t].retry)
  <2>1. snap'[w] = snap[w] /\ CoStep(w, t)
    <3>1. co'[w] # NoCo
      BY <1>3 DEF NoCo
    <3> QED
      BY <3>1, LocalMotion DEF IInv, Kept, Reread
  <2>2. \/ HasRow(approvals, t, snap[w][t].retry)
        \/ HasRow(approvals', t, snap[w][t].retry)
    BY <1>3, <2>1 DEF CoStep, IInv, AskedHasApproval
  <2> QED
    BY <1>2, <2>1, <2>2
<1>4. ASSUME NEW t \in Tasks, task'[t].state = "blocked"
      PROVE  output'[t] = task'[t].retry /\ HasRow(approvals, t, task'[t].retry)
  <2>1. CASE task[t].state = "blocked"
    <3>1. task'[t] = task[t]
      BY <1>1, <2>1, RowStep
    <3>2. output'[t] = output[t]
      BY <2>1, RecordsStep DEF IInv
    <3>3. output[t] = task[t].retry /\ HasRow(approvals, t, task[t].retry)
      BY <2>1 DEF IInv, BlockedOnOwnApproval, HasRow
    <3> QED
      BY <3>1, <3>2, <3>3
  <2>2. CASE task[t].state # "blocked"
    <3>1. CASE UNCHANGED task
      BY <1>4, <2>2, <3>1
    <3>2. ASSUME NEW u \in Tasks, Started(u) \/ Skipped(u) PROVE FALSE
      <4>1. \E s \in {"in_progress", "skipped"} : SetTask(u, s, task[u].retry)
        BY <3>2 DEF Started, Skipped
      <4> QED
        BY <1>1, <1>4, <2>2, <4>1 DEF SetTask, TypeOK
    <3>3. ASSUME NEW u \in Tasks, NEW s \in {"done", "failed", "blocked", "ready"}, NEW r \in Nat,
                 Ended(u, s, r)
          PROVE  output'[t] = task'[t].retry /\ HasRow(approvals, t, task'[t].retry)
      <4>1. u = t /\ s = "blocked" /\ task'[t].retry = r
        BY <1>1, <1>4, <2>2, <3>3 DEF Ended, SetTask, TypeOK
      <4> QED
        BY <3>3, <4>1 DEF Ended
    <3>4. CASE Recovered
      BY <1>4, <2>2, <3>4 DEF Recovered
    <3> QED
      BY <1>1, <3>1, <3>2, <3>3, <3>4 DEF Motion
  <2> QED
    BY <2>1, <2>2
<1>5. ASSUME NEW t \in Tasks, task'[t].state = "blocked"
      PROVE  output'[t] = task'[t].retry /\ HasRow(approvals', t, task'[t].retry)
  BY <1>2, <1>4, <1>5
<1> QED
  BY <1>3, <1>5 DEF AskedHasApproval, BlockedOnOwnApproval, HasRow

(* The plan keeps the kinds its tasks were inserted with.                  *)
LEMMA KindStays == Next => UNCHANGED kind
<1>. USE DEF db, coRest
<1>1. ASSUME NEW w \in Workers,
             TryLock(w) \/ Unlock(w) \/ GetRitm(w) \/ StartRitm(w) \/ ListTasks(w)
             \/ RecoverStuck(w) \/ WavesExhausted(w) \/ Relist(w) \/ Decide(w) \/ EndWave(w)
             \/ FinGet(w) \/ FinPut(w) \/ FinRun(w) \/ OnExecute(w) \/ Crash(w)
      PROVE  UNCHANGED kind
  BY <1>1 DEF TryLock, Unlock, GetRitm, StartRitm, ListTasks, RecoverStuck, WavesExhausted,
              Relist, Decide, EndWave, FinGet, FinPut, FinRun, OnExecute, Crash
<1>2. ASSUME NEW w \in Workers, NEW t \in Tasks, SkipTask(w, t) \/ Coroutine(w, t)
      PROVE  UNCHANGED kind
  BY <1>2 DEF SkipTask, Coroutine, Claim, ManualDone, Misconfigured, InsertApproval, Block,
              AdapterDone, AdapterRetry, AdapterFail, TaskRaises
<1>3. ASSUME \/ Republish \/ CompList \/ CompGet \/ CompPut
             \/ (\E t \in Tasks : CompTask(t) \/ Age(t)) \/ (\E c \in sent : Provision(c))
             \/ \E a \in approvals, d \in {"approved", "rejected"} : DecideApproval(a, d)
      PROVE  UNCHANGED kind
  BY <1>3 DEF Republish, CompList, CompGet, CompPut, CompTask, Age, Provision, DecideApproval
<1>. QED
  BY <1>1, <1>2, <1>3 DEF Next, Compensate, ExecutePlan

LEMMA OutputStep ==
  ASSUME IInv, Next
  PROVE  OutputIsCurrentAttempt'
<1> SUFFICES ASSUME NEW t \in Tasks, task'[t].state = "done", kind[t] = "adapter"
             PROVE  output'[t] = task'[t].retry /\ <<t, output'[t]>> \in effects'
  BY KindStays DEF OutputIsCurrentAttempt
<1>1. TypeOK /\ Motion
  BY TaskMotion DEF IInv
<1>2. effects \subseteq effects' /\ (output'[t] = output[t] \/ task[t].state = "in_progress")
  BY RecordsStep DEF IInv
<1>3. CASE task[t].state = "done"
  BY <1>1, <1>2, <1>3, FinalStays DEF Final, IInv, OutputIsCurrentAttempt
<1>4. CASE task[t].state # "done"
  <2>1. CASE UNCHANGED task
    BY <1>4, <2>1
  <2>2. ASSUME NEW u \in Tasks, Started(u) \/ Skipped(u) PROVE FALSE
    <3>1. \E s \in {"in_progress", "skipped"} : SetTask(u, s, task[u].retry)
      BY <2>2 DEF Started, Skipped
    <3> QED
      BY <1>1, <1>4, <3>1 DEF SetTask, TypeOK
  <2>3. ASSUME NEW u \in Tasks, NEW s \in {"done", "failed", "blocked", "ready"}, NEW r \in Nat,
               Ended(u, s, r)
        PROVE  output'[t] = task'[t].retry /\ <<t, output'[t]>> \in effects
    <3>1. u = t /\ s = "done" /\ task'[t].retry = r
      BY <1>1, <1>4, <2>3 DEF Ended, SetTask, TypeOK
    <3> QED
      BY <2>3, <3>1 DEF Ended
  <2>4. CASE Recovered
    BY <1>4, <2>4 DEF Recovered
  <2> QED
    BY <1>1, <1>2, <2>1, <2>2, <2>3, <2>4 DEF Motion
<1> QED
  BY <1>3, <1>4

\* A listing _is_terminal calls fulfilled has no failure in it, so nothing in
\* it was skipped: every task is done.
LEMMA FulfilledListing ==
  ASSUME IInv, NEW w \in Workers, TerminalOutcome(snap[w]) = "fulfilled"
  PROVE  \A t \in Tasks : task[t].state = "done"
<1>1. \A t \in Tasks : snap[w][t].state \in {"done", "skipped"}
  BY DEF TerminalOutcome, StatesIn
<1>2. \A t \in Tasks : task[t].state = snap[w][t].state
  BY <1>1 DEF IInv, SnapSound, Final
<1>3. FailedIn(task) = {}
  BY <1>1, <1>2 DEF FailedIn
<1> QED
  BY <1>1, <1>2, <1>3, NoPoisonWithoutFailure DEF IInv, SkippedPoisoned

LEMMA FulfilledStep ==
  ASSUME IInv, Next
  PROVE  FulfilledOutcomeTrue' /\ FulfilledMeansAllDone'
<1>1. TypeOK /\ Motion
  BY TaskMotion DEF IInv
<1>2. ASSUME \A t \in Tasks : task[t].state = "done"
      PROVE  \A t \in Tasks : task'[t].state = "done"
  BY <1>1, <1>2, FinalStays DEF Final
<1>3. FulfilledOutcomeTrue'
  BY <1>2, OutcomeStep, FulfilledListing DEF IInv, FulfilledOutcomeTrue
<1>4. FulfilledMeansAllDone'
  BY <1>2, OutcomeStep DEF IInv, FulfilledOutcomeTrue, FulfilledMeansAllDone
<1> QED
  BY <1>3, <1>4

LEMMA IInvInit == Init => IInv
<1> SUFFICES ASSUME Init PROVE IInv
  OBVIOUS
<1>1. TypeOK
  BY TypeInit
<1>2. FinalisingHasOutcome /\ LocalPhases
  BY DEF Init, FinalisingHasOutcome, LocalPhases
<1>3. FirstVersion /\ SnapSound
  <2>1. \A t \in Tasks : NewRows[t].ver = 1
    BY DEF NewRows
  <2>2. task = NewRows /\ \A w \in Workers : snap[w] = NewRows
    BY DEF Init
  <2> QED
    BY <2>1, <2>2 DEF FirstVersion, SnapSound
<1>4. QueuedReady /\ ClaimSound /\ AskedHasApproval
  BY DEF Init, QueuedReady, ClaimSound, AskedHasApproval, NoCo
<1>5. ToSkipPoisoned /\ SkippedPoisoned /\ FulfilledOutcomeTrue /\ StartedAfterDeps
  BY DEF Init, ToSkipPoisoned, SkippedPoisoned, FulfilledOutcomeTrue, StartedAfterDeps, NewRows
<1>6. FulfilledMeansAllDone
  <2>1. run = "open" /\ \E s \in StartStates : ritm = [state |-> s, ver |-> 1]
    BY DEF Init
  <2>2. ritm.state \in {"requested", "approved"}
    BY <2>1, BoundAssumption
  <2> QED
    BY <2>1, <2>2 DEF FulfilledMeansAllDone
<1>7. OutputIsCurrentAttempt /\ BlockedOnOwnApproval
  BY DEF Init, OutputIsCurrentAttempt, BlockedOnOwnApproval, NewRows
<1> QED
  BY <1>1, <1>2, <1>3, <1>4, <1>5, <1>6, <1>7 DEF IInv

LEMMA IInvStep == IInv /\ [Next]_vars => IInv'
<1>1. ASSUME IInv, Next PROVE IInv'
  <2>1. TypeOK' /\ FinalisingHasOutcome'
    BY <1>1, TypeStep, FinalisingStep DEF IInv
  <2>2. Motion
    BY <1>1, TaskMotion
  <2>3. FirstVersion' /\ SkippedPoisoned' /\ StartedAfterDeps'
    BY <1>1, <2>2, FirstVersionStep, SkippedStep, StartedStep DEF IInv
  <2>4. LocalPhases'
    <3>1. CASE Workers = {}
      BY <3>1 DEF LocalPhases
    <3>2. CASE Workers # {}
      BY <1>1, <3>2, LocalMotion DEF IInv
    <3> QED
      BY <3>1, <3>2
  <2>5. SnapSound' /\ QueuedReady' /\ ClaimSound' /\ ToSkipPoisoned'
    BY <1>1, SnapStep, QueuedStep, ClaimStep
  <2>6. FulfilledOutcomeTrue' /\ FulfilledMeansAllDone' /\ OutputIsCurrentAttempt'
    BY <1>1, FulfilledStep, OutputStep
  <2>7. AskedHasApproval' /\ BlockedOnOwnApproval'
    BY <1>1, ApprovalStep
  <2> QED
    BY <2>1, <2>3, <2>4, <2>5, <2>6, <2>7 DEF IInv
<1>2. ASSUME IInv, UNCHANGED vars PROVE IInv'
  <2>1. (TypeOK /\ FinalisingHasOutcome)'
    BY <1>2 DEF vars, IInv, TypeOK, FinalisingHasOutcome
  <2>2. (FirstVersion /\ SnapSound)'
    BY <1>2 DEF vars, IInv, FirstVersion, SnapSound
  <2>3. (LocalPhases /\ QueuedReady /\ ToSkipPoisoned)'
    BY <1>2 DEF vars, IInv, LocalPhases, QueuedReady, ToSkipPoisoned
  <2>4. (ClaimSound /\ AskedHasApproval /\ BlockedOnOwnApproval)'
    BY <1>2 DEF vars, IInv, ClaimSound, AskedHasApproval, BlockedOnOwnApproval
  <2>5. (SkippedPoisoned /\ FulfilledOutcomeTrue /\ StartedAfterDeps)'
    BY <1>2 DEF vars, IInv, SkippedPoisoned, FulfilledOutcomeTrue, StartedAfterDeps
  <2>6. (FulfilledMeansAllDone /\ OutputIsCurrentAttempt)'
    BY <1>2 DEF vars, IInv, FulfilledMeansAllDone, OutputIsCurrentAttempt
  <2> QED
    BY <2>1, <2>2, <2>3, <2>4, <2>5, <2>6 DEF IInv
<1> QED
  BY <1>1, <1>2

LEMMA Invariance == Spec => []IInv
  BY IInvInit, IInvStep, PTL DEF Spec

(* Wave dispatch respects the DAG: whatever stale listing it was claimed   *)
(* from, a started task has only done or skipped dependencies.             *)
THEOREM DagOrderSafe == Spec => []StartedAfterDeps
<1>1. IInv => StartedAfterDeps
  BY DEF IInv
<1> QED
  BY <1>1, Invariance, PTL

(* 'fulfilled', on the RITM or on its run, is never a false report: every  *)
(* task is done then, and stays done.                                      *)
THEOREM FulfilledSafe == Spec => []FulfilledMeansAllDone
<1>1. IInv => FulfilledMeansAllDone
  BY DEF IInv
<1> QED
  BY <1>1, Invariance, PTL

(* The optimistic lock fences late answers: the result kept for a done     *)
(* adapter task is that of the attempt in its row, however many workers    *)
(* recovery set on the task.                                               *)
THEOREM OutputSafe == Spec => []OutputIsCurrentAttempt
<1>1. IInv => OutputIsCurrentAttempt
  BY DEF IInv
<1> QED
  BY <1>1, Invariance, PTL

(* A task that waits at its gate names the approval row its own attempt    *)
(* asked for, wherever a crash fell between the two statements, however    *)
(* often recovery repeated the gate and whatever was decided meanwhile.    *)
THEOREM GateIsOwn == Spec => []BlockedOnOwnApproval
<1>1. IInv => BlockedOnOwnApproval
  BY DEF IInv
<1> QED
  BY <1>1, Invariance, PTL

------------------------------------------------------------------------------
(* What the advisory lock adds.                                            *)
(*                                                                         *)
(* Nothing behind a failed task is started, provided that all workers hash *)
(* the RITM to one lock key.  The optimistic lock alone does not give      *)
(* this: a worker that relists after its own cascade and in the middle of  *)
(* another's, about a later failure, finds a skipped task whose dependent  *)
(* is still pending, and takes it for ready.  With one key the rows are the*)
(* lock holder's, and its cascade is complete when it decides.             *)

OneKey == \A v, w \in Workers : LockKey[v] = LockKey[w]

InLoop == {"get", "start", "recover", "list", "skip", "relist", "decide", "wave", "finget",
           "finput", "finrun"}

Exclusive ==
    /\ \A w \in Workers : pc[w] \in InLoop => w \in lock
    /\ \A v, w \in lock : v = w

(* The poisoned tasks that are left are the ones the cascade has still to  *)
(* mark, as it read them; none are left when the wave is decided.          *)
CascadeOf(w) ==
    /\ pc[w] = "skip" => \A t \in TransitivelyBlocked(task) :
                             t \in toSkip[w] /\ snap[w][t] = task[t]
    /\ pc[w] \in {"relist", "decide"} => TransitivelyBlocked(task) = {}
    /\ pc[w] = "decide" => snap[w] = task

QueuedAfterDone(w) ==
    \A t \in Tasks : co[w][t] # "off" => \A d \in DependsOn[t] : task[d].state = "done"

LockInv ==
    /\ Exclusive
    /\ \A w \in Workers : CascadeOf(w) /\ QueuedAfterDone(w)
    /\ NoRunDownstreamOfFailure

LEMMA LockInit == Init => LockInv
<1>. SUFFICES ASSUME Init PROVE LockInv
  OBVIOUS
<1>1. Exclusive
  BY DEF Init, Exclusive, InLoop
<1>2. ASSUME NEW w \in Workers PROVE CascadeOf(w) /\ QueuedAfterDone(w)
  BY DEF Init, CascadeOf, QueuedAfterDone, NoCo
<1>3. NoRunDownstreamOfFailure
  BY DEF Init, NoRunDownstreamOfFailure, NewRows
<1>. QED
  BY <1>1, <1>2, <1>3 DEF LockInv

LEMMA ExclusiveStep ==
  ASSUME OneKey, TypeOK, Exclusive, Next
  PROVE  Exclusive'
<1>. USE DEF db, ext, local, coRest, TypeOK, InLoop
<1>1. ASSUME UNCHANGED <<pc, lock>> PROVE Exclusive'
  BY <1>1 DEF Exclusive
<1>2. ASSUME NEW w \in Workers, TryLock(w) PROVE Exclusive'
  <2>1. CASE \E v \in lock : LockKey[v] = LockKey[w]
    BY <1>2, <2>1 DEF TryLock, Exclusive
  <2>2. CASE ~ \E v \in lock : LockKey[v] = LockKey[w]
    <3>1. lock = {}
      BY <2>2 DEF OneKey
    <3>. QED
      BY <1>2, <2>2, <3>1 DEF TryLock, Exclusive
  <2>. QED
    BY <2>1, <2>2
<1>3. ASSUME NEW w \in Workers, Unlock(w) \/ Crash(w) \/ OnExecute(w) PROVE Exclusive'
  <2>1. CASE Unlock(w)
    BY <2>1 DEF Unlock, Exclusive
  <2>2. CASE Crash(w)
    BY <2>2 DEF Crash, Exclusive
  <2>3. CASE OnExecute(w)
    BY <2>3 DEF OnExecute, Exclusive
  <2>. QED
    BY <1>3, <2>1, <2>2, <2>3
<1>4. ASSUME NEW w \in Workers, pc[w] \in InLoop, NEW x \in InLoop \cup {"unlock"},
             pc' = [pc EXCEPT ![w] = x], UNCHANGED lock
      PROVE  Exclusive'
  BY <1>4 DEF Exclusive
<1>5. ASSUME NEW w \in Workers,
             GetRitm(w) \/ StartRitm(w) \/ RecoverStuck(w) \/ WavesExhausted(w) \/ Relist(w)
             \/ EndWave(w) \/ FinGet(w) \/ FinPut(w) \/ FinRun(w)
      PROVE  Exclusive'
  BY <1>4, <1>5 DEF GetRitm, StartRitm, RecoverStuck, WavesExhausted, Relist, EndWave, FinGet,
                    FinPut, FinRun
<1>6. ASSUME NEW w \in Workers, ListTasks(w) PROVE Exclusive'
  BY <1>4, <1>6 DEF ListTasks
<1>7. ASSUME NEW w \in Workers, Decide(w) PROVE Exclusive'
  BY <1>4, <1>7 DEF Decide
<1>8. ASSUME NEW w \in Workers, NEW t \in Tasks, SkipTask(w, t) PROVE Exclusive'
  BY <1>4, <1>8 DEF SkipTask
<1>9. ASSUME NEW w \in Workers, NEW t \in Tasks, Coroutine(w, t) PROVE UNCHANGED <<pc, lock>>
  BY <1>9 DEF Coroutine, Claim, ManualDone, Misconfigured, InsertApproval, Block, AdapterDone,
              AdapterRetry, AdapterFail, TaskRaises
<1>10. ASSUME \/ Republish \/ CompList \/ CompGet \/ CompPut
              \/ (\E t \in Tasks : CompTask(t) \/ Age(t)) \/ (\E c \in sent : Provision(c))
       PROVE  UNCHANGED <<pc, lock>>
  BY <1>10 DEF Republish, CompList, CompGet, CompPut, CompTask, Age, Provision
<1>11. ASSUME NEW a \in approvals, NEW d \in {"approved", "rejected"}, DecideApproval(a, d)
       PROVE  UNCHANGED <<pc, lock>>
  BY <1>11 DEF DecideApproval
<1>. QED
  BY <1>1, <1>2, <1>3, <1>5, <1>6, <1>7, <1>8, <1>9, <1>10, <1>11 DEF Next, Compensate, ExecutePlan

(* A worker outside the cascade, or one that nothing happens to.           *)
Aside(v) ==
    \/ pc'[v] \notin {"skip", "relist", "decide"}
    \/ UNCHANGED task /\ pc'[v] = pc[v] /\ snap'[v] = snap[v] /\ toSkip'[v] = toSkip[v]

CoShrinks(v) == \A t \in Tasks : co'[v][t] # "off" => co[v][t] # "off"

LEMMA CascadeMotion ==
  ASSUME TypeOK, LocalPhases, Exclusive, Next, NEW v \in Workers
  PROVE  \/ Aside(v) /\ CoShrinks(v)
         \/ ListTasks(v) \/ Relist(v) \/ Decide(v)
         \/ \E t \in Tasks : SkipTask(v, t)
<1>. DEFINE Goal == \/ Aside(v) /\ CoShrinks(v)
                    \/ ListTasks(v) \/ Relist(v) \/ Decide(v)
                    \/ \E t \in Tasks : SkipTask(v, t)
<1>. USE DEF db, ext, local, coRest
<1>1. ASSUME NEW w \in Workers, w # v, UNCHANGED task, pc'[v] = pc[v], snap'[v] = snap[v],
             toSkip'[v] = toSkip[v], co'[v] = co[v]
      PROVE  Goal
  BY <1>1 DEF Aside, CoShrinks
<1>2. ASSUME NEW w \in Workers, w # v, pc[w] \in InLoop, pc'[v] = pc[v], co'[v] = co[v]
      PROVE  Goal
  <2>1. pc[v] \notin InLoop
    BY <1>2 DEF Exclusive
  <2>. QED
    BY <1>2, <2>1 DEF Aside, CoShrinks, InLoop
<1>3. ASSUME NEW w \in Workers, NEW x \in PCs \ {"skip", "relist", "decide"},
             pc' = [pc EXCEPT ![w] = x], UNCHANGED task,
             snap' = [snap EXCEPT ![w] = snap'[w]], toSkip' = [toSkip EXCEPT ![w] = toSkip'[w]],
             UNCHANGED co \/ co' = [co EXCEPT ![w] = NoCo]
      PROVE  Goal
  <2>1. CASE w # v
    BY <1>1, <1>3, <2>1 DEF TypeOK
  <2>2. CASE w = v
    BY <1>3, <2>2 DEF Aside, CoShrinks, NoCo, TypeOK
  <2>. QED
    BY <2>1, <2>2
<1>4. ASSUME NEW w \in Workers, OnExecute(w) \/ TryLock(w) \/ GetRitm(w) \/ StartRitm(w)
             \/ WavesExhausted(w) \/ EndWave(w) \/ FinGet(w) \/ FinPut(w) \/ FinRun(w)
      PROVE  Goal
  <2>1. \E x \in PCs \ {"skip", "relist", "decide"} : pc' = [pc EXCEPT ![w] = x]
    BY <1>4 DEF OnExecute, TryLock, GetRitm, StartRitm, WavesExhausted, EndWave, FinGet, FinPut,
                FinRun, PCs
  <2>2. UNCHANGED <<task, snap, toSkip, co>>
    BY <1>4 DEF OnExecute, TryLock, GetRitm, StartRitm, WavesExhausted, EndWave, FinGet, FinPut,
                FinRun
  <2>. QED
    BY <1>3, <2>1, <2>2 DEF TypeOK
<1>5. ASSUME NEW w \in Workers, Unlock(w) \/ Crash(w) PROVE Goal
  <2>1. /\ pc' = [pc EXCEPT ![w] = "idle"] /\ UNCHANGED task
        /\ snap' = [snap EXCEPT ![w] = NewRows]
        /\ UNCHANGED toSkip \/ toSkip' = [toSkip EXCEPT ![w] = {}]
        /\ UNCHANGED co \/ co' = [co EXCEPT ![w] = NoCo]
    BY <1>5 DEF Unlock, Crash
  <2>2. CASE w # v
    BY <1>1, <2>1, <2>2 DEF TypeOK
  <2>3. CASE w = v
    BY <2>1, <2>3 DEF Aside, CoShrinks, NoCo, TypeOK
  <2>. QED
    BY <2>2, <2>3
<1>6. ASSUME NEW w \in Workers, RecoverStuck(w) PROVE Goal
  <2>1. CASE w # v
    BY <1>2, <1>6, <2>1 DEF RecoverStuck, InLoop, TypeOK
  <2>2. CASE w = v
    BY <1>6, <2>2 DEF RecoverStuck, Aside, CoShrinks, TypeOK
  <2>. QED
    BY <2>1, <2>2
<1>7. ASSUME NEW w \in Workers, ListTasks(w) \/ Relist(w) \/ Decide(w) PROVE Goal
  <2>1. CASE w # v
    BY <1>1, <1>7, <2>1 DEF ListTasks, Relist, Decide, TypeOK
  <2>2. CASE w = v
    BY <1>7, <2>2
  <2>. QED
    BY <2>1, <2>2
<1>8. ASSUME NEW w \in Workers, NEW t \in Tasks, SkipTask(w, t) PROVE Goal
  <2>1. CASE w # v
    BY <1>2, <1>8, <2>1 DEF SkipTask, InLoop, TypeOK
  <2>2. CASE w = v
    BY <1>8, <2>2
  <2>. QED
    BY <2>1, <2>2
<1>9. ASSUME NEW w \in Workers, NEW t \in Tasks, Coroutine(w, t) PROVE Goal
  <2>1. co[w][t] # "off" /\ UNCHANGED pc /\ \E c : co' = [co EXCEPT ![w][t] = c]
    BY <1>9 DEF Coroutine, Claim, ManualDone, Misconfigured, InsertApproval, Block, AdapterDone,
                AdapterRetry, AdapterFail, TaskRaises, Finish
  <2>2. pc[w] = "wave"
    BY <2>1 DEF LocalPhases, NoCo
  <2>3. CASE w # v
    BY <1>2, <2>1, <2>2, <2>3 DEF InLoop, TypeOK
  <2>4. CASE w = v
    BY <2>1, <2>2, <2>4 DEF Aside, CoShrinks, TypeOK
  <2>. QED
    BY <2>3, <2>4
<1>10. ASSUME \/ Republish \/ CompList \/ CompGet \/ CompPut
              \/ (\E t \in Tasks : CompTask(t) \/ Age(t)) \/ (\E c \in sent : Provision(c))
       PROVE  Goal
  BY <1>10 DEF Republish, CompList, CompGet, CompPut, CompTask, Age, Provision, Aside, CoShrinks
<1>11. ASSUME NEW a \in approvals, NEW d \in {"approved", "rejected"}, DecideApproval(a, d)
       PROVE  Goal
  BY <1>11 DEF DecideApproval, Aside, CoShrinks
<1>. HIDE DEF Goal
<1>. QED
  BY <1>4, <1>5, <1>6, <1>7, <1>8, <1>9, <1>10, <1>11
  DEF Next, Compensate, ExecutePlan, Goal

(* What depends on a poisoned task is poisoned.                            *)
LEMMA PoisonSpreads ==
  ASSUME NEW F \in SUBSET Tasks, NEW t \in Tasks, NEW d \in DependsOn[t],
         d \in PoisonedTemplates(F)
  PROVE  t \in PoisonedTemplates(F)
  BY DEF PoisonedTemplates, Closed

(* Once the cascade is through, a ready task has nothing but done          *)
(* dependencies.                                                           *)
LEMMA ReadyAfterCascade ==
  ASSUME IInv, TransitivelyBlocked(task) = {}, NEW t \in ReadyTasks(task), NEW d \in DependsOn[t]
  PROVE  task[d].state = "done"
<1>1. t \in Tasks /\ d \in Tasks /\ task[t].state \in {"pending", "ready"}
      /\ task[d].state \in {"done", "skipped"}
  BY PlanAssumption DEF ReadyTasks
<1>2. FailedIn(task) \in SUBSET Tasks
  BY DEF FailedIn
<1>3. task[d].state = "skipped" => t \in PoisonedTemplates(FailedIn(task))
  BY <1>1, <1>2, PoisonSpreads DEF IInv, SkippedPoisoned
<1>. QED
  BY <1>1, <1>3 DEF TransitivelyBlocked

(* Marking a task takes it out of the cascade and poisons no other.        *)
LEMMA SkipShrinks ==
  ASSUME IInv, LockInv, NEW w \in Workers, NEW t \in Tasks, SkipTask(w, t)
  PROVE  TransitivelyBlocked(task') \subseteq TransitivelyBlocked(task) \ {t}
<1>1. t \in TransitivelyBlocked(task) => TaskMatches(t, snap[w][t].state, snap[w][t].ver)
  BY DEF LockInv, CascadeOf, SkipTask, TaskMatches
<1>2. CASE UNCHANGED task
  <2>1. t \notin TransitivelyBlocked(task)
    BY <1>1, <1>2 DEF SkipTask, SetTask, IInv, TypeOK, Row
  <2>. QED
    BY <1>2, <2>1
<1>3. CASE SetTask(t, "skipped", task[t].retry) /\ Skipped(t)
  <2>1. \A u \in Tasks : task'[u].state = IF u = t THEN "skipped" ELSE task[u].state
    BY <1>3 DEF SetTask, IInv, TypeOK
  <2>2. FailedIn(task') = FailedIn(task)
    BY <1>3, <2>1 DEF FailedIn, Skipped
  <2>. QED
    BY <2>1, <2>2 DEF TransitivelyBlocked
<1>. QED
  BY <1>2, <1>3, SkipMotion DEF Skipped

LEMMA CascadeStep ==
  ASSUME IInv, LockInv, Next, NEW v \in Workers
  PROVE  CascadeOf(v)' /\ QueuedAfterDone(v)'
<1>0. TypeOK /\ LocalPhases /\ Exclusive /\ Motion /\ CascadeOf(v) /\ QueuedAfterDone(v)
  BY TaskMotion DEF IInv, LockInv
<1>1. CoShrinks(v) => QueuedAfterDone(v)'
  <2>. SUFFICES ASSUME CoShrinks(v), NEW t \in Tasks, co'[v][t] # "off", NEW d \in DependsOn[t]
                PROVE  task'[d].state = "done"
    BY DEF QueuedAfterDone
  <2>1. task[d].state = "done" /\ d \in Tasks
    BY <1>0, PlanAssumption DEF QueuedAfterDone, CoShrinks
  <2>. QED
    BY <1>0, <2>1, FinalStays DEF Final
<1>2. CASE Aside(v) /\ CoShrinks(v)
  BY <1>0, <1>1, <1>2 DEF Aside, CascadeOf
<1>3. CASE ListTasks(v)
  <2>1. /\ snap'[v] = task /\ toSkip'[v] = TransitivelyBlocked(task) /\ task' = task /\ co' = co
        /\ pc'[v] = IF TransitivelyBlocked(task) = {} THEN "decide" ELSE "skip"
    BY <1>0, <1>3 DEF ListTasks, TypeOK, db
  <2>2. CoShrinks(v)
    BY <2>1 DEF CoShrinks
  <2>. QED
    BY <1>1, <2>1, <2>2 DEF CascadeOf
<1>4. CASE Relist(v)
  <2>1. snap'[v] = task /\ task' = task /\ co' = co /\ pc[v] = "relist" /\ pc'[v] = "decide"
    BY <1>0, <1>4 DEF Relist, TypeOK, db
  <2>2. CoShrinks(v)
    BY <2>1 DEF CoShrinks
  <2>. QED
    BY <1>0, <1>1, <2>1, <2>2 DEF CascadeOf
<1>5. CASE Decide(v)
  <2>1. /\ task' = task /\ pc[v] = "decide" /\ pc'[v] \in {"finget", "unlock", "wave"}
    BY <1>0, <1>5 DEF Decide, TypeOK, db
  <2>2. \A t \in Tasks : co'[v][t] # "off" => co[v][t] # "off" \/ t \in ReadyTasks(snap[v])
    <3>. DEFINE queue == [t \in Tasks |-> IF t \in ReadyTasks(snap[v]) THEN "queued" ELSE "off"]
    <3>1. co' = co \/ co' = [co EXCEPT ![v] = queue]
      BY <1>5 DEF Decide
    <3>2. co'[v] = co[v] \/ co'[v] = queue
      <4>. HIDE DEF queue
      <4>. QED
        BY <1>0, <3>1 DEF TypeOK
    <3>. QED
      BY <3>2
  <2>3. snap[v] = task /\ TransitivelyBlocked(task) = {}
    BY <1>0, <2>1 DEF CascadeOf
  <2>4. QueuedAfterDone(v)'
    BY <1>0, <2>1, <2>2, <2>3, ReadyAfterCascade DEF QueuedAfterDone
  <2>. QED
    BY <2>1, <2>4 DEF CascadeOf
<1>6. ASSUME NEW t \in Tasks, SkipTask(v, t) PROVE CascadeOf(v)' /\ QueuedAfterDone(v)'
  <2>1. /\ pc[v] = "skip" /\ snap' = snap /\ co' = co /\ toSkip'[v] = toSkip[v] \ {t}
        /\ pc'[v] = IF toSkip[v] = {t} THEN "relist" ELSE "skip"
    BY <1>0, <1>6 DEF SkipTask, TypeOK
  <2>2. TransitivelyBlocked(task') \subseteq TransitivelyBlocked(task) \ {t}
    BY <1>6, SkipShrinks
  <2>3. \A u \in Tasks : u # t => task'[u] = task[u]
    BY <1>0, <1>6 DEF SkipTask, SetTask, TypeOK
  <2>4. TransitivelyBlocked(task) \subseteq toSkip[v]
    BY <1>0, <2>1 DEF CascadeOf
  <2>5. CascadeOf(v)'
    <3>1. CASE toSkip[v] = {t}
      BY <2>1, <2>2, <2>4, <3>1 DEF CascadeOf
    <3>2. CASE toSkip[v] # {t}
      <4>1. ASSUME NEW u \in TransitivelyBlocked(task')
            PROVE  u \in toSkip'[v] /\ snap'[v][u] = task'[u]
        <5>1. u \in TransitivelyBlocked(task) /\ u # t /\ u \in Tasks
          BY <2>2 DEF TransitivelyBlocked
        <5>. QED
          BY <1>0, <2>1, <2>3, <5>1 DEF CascadeOf
      <4>. QED
        BY <2>1, <3>2, <4>1 DEF CascadeOf
    <3>. QED
      BY <3>1, <3>2
  <2>6. CoShrinks(v)
    BY <2>1 DEF CoShrinks
  <2>. QED
    BY <1>1, <2>5, <2>6
<1>. QED
  BY <1>0, <1>2, <1>3, <1>4, <1>5, <1>6, CascadeMotion

(* Only a coroutine starts a pending task.                                 *)
LEMMA StarterHasCoroutine ==
  ASSUME IInv, Next, NEW t \in Tasks, task[t].state = "pending",
         task'[t].state \notin {"pending", "skipped"}
  PROVE  \E w \in Workers : co[w][t] # "off"
<1>. USE DEF db
<1>1. ASSUME NEW w \in Workers, NEW u \in Tasks, SkipTask(w, u) PROVE FALSE
  <2>1. UNCHANGED task \/ SetTask(u, "skipped", task[u].retry)
    BY <1>1 DEF SkipTask
  <2>2. CASE u = t
    BY <2>1, <2>2 DEF SetTask, IInv, TypeOK
  <2>3. CASE u # t
    BY <2>1, <2>3 DEF SetTask, IInv, TypeOK
  <2>. QED
    BY <2>2, <2>3
<1>2. ASSUME NEW w \in Workers, RecoverStuck(w) PROVE FALSE
  BY <1>2 DEF RecoverStuck
<1>3. ASSUME NEW w \in Workers, NEW u \in Tasks, Coroutine(w, u)
      PROVE  \E x \in Workers : co[x][t] # "off"
  <2>1. co[w][u] # "off"
    BY <1>3 DEF Coroutine, Claim, ManualDone, Misconfigured, InsertApproval, Block, AdapterDone,
                AdapterRetry, AdapterFail, TaskRaises
  <2>2. UNCHANGED task \/ \E s, r : SetTask(u, s, r)
    BY <1>3 DEF Coroutine, Claim, ManualDone, Misconfigured, InsertApproval, Block, AdapterDone,
                AdapterRetry, AdapterFail, TaskRaises, WriteBack
  <2>3. u = t
    BY <2>2 DEF SetTask, IInv, TypeOK
  <2>. QED
    BY <2>1, <2>3
<1>4. task' # task
  OBVIOUS
<1>. QED
  BY <1>1, <1>2, <1>3, <1>4, TaskWriters

LEMMA LockStep ==
  ASSUME OneKey
  PROVE  IInv /\ LockInv /\ [Next]_vars => LockInv'
<1>1. ASSUME IInv, LockInv, Next PROVE LockInv'
  <2>1. Exclusive'
    BY <1>1, ExclusiveStep DEF IInv, LockInv
  <2>2. \A v \in Workers : CascadeOf(v)' /\ QueuedAfterDone(v)'
    BY <1>1, CascadeStep
  <2>3. NoRunDownstreamOfFailure'
    <3>. SUFFICES ASSUME NEW t \in Tasks, task'[t].state \notin {"pending", "skipped"},
                         NEW d \in DependsOn[t]
                  PROVE  task'[d].state = "done"
      BY DEF NoRunDownstreamOfFailure
    <3>1. d \in Tasks /\ TypeOK /\ Motion
      BY <1>1, PlanAssumption, TaskMotion DEF IInv
    <3>2. task[t].state # "skipped"
      BY <3>1, FinalStays DEF Final
    <3>3. task[d].state = "done"
      <4>1. CASE task[t].state = "pending"
        BY <1>1, <4>1, StarterHasCoroutine DEF LockInv, QueuedAfterDone
      <4>2. CASE task[t].state # "pending"
        BY <1>1, <3>2, <4>2 DEF LockInv, NoRunDownstreamOfFailure
      <4>. QED
        BY <4>1, <4>2
    <3>. QED
      BY <3>1, <3>3, FinalStays DEF Final
  <2>. QED
    BY <2>1, <2>2, <2>3 DEF LockInv
<1>2. ASSUME LockInv, UNCHANGED vars PROVE LockInv'
  BY <1>2 DEF vars, LockInv, Exclusive, CascadeOf, QueuedAfterDone, NoRunDownstreamOfFailure
<1>. QED
  BY <1>1, <1>2

(* Cascade-skip under one lock key: no task is ever started behind a       *)
(* failure, wherever workers crash in a cascade and however many dispatches*)
(* race.  The hypothesis holds when the workers are threads of one         *)
(* process, or processes with one hash seed.                               *)
THEOREM CascadeSafe == OneKey => (Spec => []NoRunDownstreamOfFailure)
<1>. SUFFICES ASSUME OneKey PROVE Spec => []NoRunDownstreamOfFailure
  OBVIOUS
<1>1. IInv /\ LockInv /\ [Next]_vars => LockInv'
  BY LockStep
<1>2. LockInv => NoRunDownstreamOfFailure
  BY DEF LockInv
<1>. QED
  BY <1>1, <1>2, LockInit, Invariance, PTL DEF Spec

------------------------------------------------------------------------------
(* Refinement.                                                             *)

(* The executor, with its stale listings, lock keys, crashes, recoveries   *)
(* and retries, implements the abstract task DAG.                          *)
THEOREM Refinement == Spec => ImplementsTaskDag
<1> DEFINE st == [t \in Tasks |-> task[t].state]
<1>1. Init => Dag!Init
  <2>1. \A t \in Tasks : NewRows[t].state = "pending"
    BY DEF NewRows
  <2>2. Init => task = NewRows
    BY DEF Init
  <2>3. task = NewRows => st = [t \in Tasks |-> "pending"]
    BY <2>1
  <2> QED
    BY <2>2, <2>3 DEF Dag!Init
<1>2. ASSUME IInv, Next PROVE Dag!Next \/ UNCHANGED st
  <2>1. Motion
    BY <1>2, TaskMotion
  <2>2. task \in [Tasks -> Row]
    BY <1>2 DEF IInv, TypeOK
  <2>3. ASSUME NEW u \in Tasks, NEW s, NEW r, SetTask(u, s, r) PROVE st' = [st EXCEPT ![u] = s]
    BY <2>2, <2>3 DEF SetTask
  <2>4. CASE UNCHANGED task
    BY <2>4
  <2>5. ASSUME NEW t \in Tasks, Started(t) PROVE Dag!Next
    <3>1. Dag!Start(t)
      <4>1. st' = [st EXCEPT ![t] = "in_progress"]
        BY <2>3, <2>5 DEF Started
      <4> QED
        BY <2>5, <4>1, PlanAssumption DEF Started, Dag!Start, Dag!Settled
    <3> QED
      BY <3>1 DEF Dag!Next
  <2>6. ASSUME NEW t \in Tasks, NEW s \in {"done", "failed", "blocked", "ready"}, NEW r \in Nat,
               Ended(t, s, r)
        PROVE  Dag!Next
    <3>1. st' = [st EXCEPT ![t] = s] /\ st[t] = "in_progress"
      BY <2>3, <2>6 DEF Ended
    <3>2. CASE s # "ready"
      <4>1. Dag!End(t)
        BY <3>1, <3>2 DEF Dag!End
      <4> QED
        BY <4>1 DEF Dag!Next
    <3>3. CASE s = "ready"
      <4>1. Dag!Requeue({t})
        BY <3>1, <3>3 DEF Dag!Requeue
      <4> QED
        BY <4>1 DEF Dag!Next
    <3> QED
      BY <3>2, <3>3
  <2>7. ASSUME NEW t \in Tasks, Skipped(t) PROVE Dag!Next
    <3>1. Dag!Skip(t)
      <4>1. st' = [st EXCEPT ![t] = "skipped"]
        BY <2>3, <2>7 DEF Skipped
      <4>2. Dag!Downstream(Dag!Failed) = PoisonedTemplates(FailedIn(task))
        BY DEF Dag!Downstream, Dag!Failed, Dag!Closed, PoisonedTemplates, FailedIn, Closed
      <4> QED
        BY <2>7, <4>1, <4>2 DEF Skipped, Dag!Skip
    <3> QED
      BY <3>1 DEF Dag!Next
  <2>8. CASE Recovered
    <3>1. PICK S \in SUBSET Tasks :
             S = {t \in Tasks : t \in old /\ task[t].state = "in_progress"}
      OBVIOUS
    <3>2. Dag!Requeue(S)
      BY <2>2, <2>8, <3>1 DEF Recovered, Dag!Requeue
    <3> QED
      BY <3>2 DEF Dag!Next
  <2> QED
    BY <2>1, <2>4, <2>5, <2>6, <2>7, <2>8 DEF Motion
<1>3. UNCHANGED vars => UNCHANGED st
  BY DEF vars
<1>4. IInv /\ [Next]_vars => [Dag!Next]_st
  BY <1>2, <1>3
<1> QED
  BY <1>1, <1>4, Invariance, PTL DEF Spec, ImplementsTaskDag, Dag!Spec
=============================================================================
